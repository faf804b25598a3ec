------------------------------ MODULE PeerSync ------------------------------
(***************************************************************************)
(* How a node fetches the chain of a peer: graphene::net::node_impl and    *)
(* its delegate, the p2p plugin.                                           *)
(*                                                                         *)
(* The node sends a synopsis of its chain; the peer answers with the ids   *)
(* of its own chain from the last block of the synopsis that it shares.    *)
(* The node asks for the blocks it lacks, a few at a time, and pushes them *)
(* in the order of the ids while the list of ids is being extended, the    *)
(* peer switches forks, and blocks arrive by the normal route.             *)
(*                                                                         *)
(* The node's handlers run in one thread and the delegate is called        *)
(* directly, so a handler is one step.  The thread runs its fibers in the  *)
(* order in which they became ready: the loop that reads the connection,   *)
(* the two fetch loops, the task that looks through the received blocks,   *)
(* and one task per block to push.                                         *)
(* The other node follows the same code; only its answers and requests are *)
(* modelled here, and that it accepts blocks.  The connection is a FIFO    *)
(* channel each way.  A block means its id; the ids of a chain carry the   *)
(* block numbers, and a block is made in every interval.                   *)
(***************************************************************************)
EXTENDS Integers, Sequences, SequencesExt, FiniteSets

CONSTANTS
    Blocks,      \* block ids
    Genesis,     \* the zero id
    Parent,      \* the previous block
    OurHead,     \* our head block at the start
    PeerBlocks,  \* the blocks the peer has at the start
    PeerHead,    \* and its head block
    Limit,       \* get_block_ids: ids in one answer
    Prefetch,    \* GRAPHENE_NET_MIN_BLOCK_IDS_TO_PREFETCH
    PerPeer,     \* maximum_blocks_per_peer_during_syncing
    AtOnce,      \* maximum_number_of_blocks_to_handle_at_one_time
    MaxReceived, \* maximum_number_of_sync_blocks_to_prefetch
    Grace,       \* GRAPHENE_NET_FUTURE_SYNC_BLOCKS_GRACE_PERIOD_SEC, in blocks
    LibLag,      \* how far the last irreversible block is behind the head
    Others,      \* blocks that other peers may bring by the normal route
    MaxLosses,   \* bound on lost connections
    MaxAsks      \* bound on the other node's requests for our ids

ASSUME PeerSyncAssumption ==
    /\ Genesis \notin Blocks
    /\ Parent \in [Blocks -> Blocks \cup {Genesis}]
    /\ PeerBlocks \subseteq Blocks /\ Others \subseteq Blocks
    /\ {Limit, Prefetch, PerPeer, AtOnce, MaxReceived} \subseteq Nat \ {0}
    /\ Limit > 1
    /\ Grace \in Nat

VARIABLES
    db,        \* our database: known blocks, head, last irreversible number
    recent,    \* _most_recent_blocks_accepted
    relayed,   \* the blocks we have broadcast to our peers
    received,  \* _received_sync_items and _new_received_sync_items
    tasks,     \* the send_sync_block_to_node_delegate tasks, oldest first
    run,       \* the fibers that are ready, in the order they will run
    suspend,   \* _suspend_fetching_sync_blocks
    wanted,    \* _items_to_fetch
    peer,      \* our peer_connection
    outbox,    \* messages to the peer
    inbox,     \* messages from the peer
    closed,    \* why the connection was last closed
    broken,    \* a handler has thrown where no exception is expected
    losses,    \* connections lost so far
    other      \* the other node: its blocks, its head, whether it takes us
               \* to be in sync (its peer_needs_sync_items_from_us is false),
               \* whether it ignores our requests, how often it asked for ids

node == <<db, recent, relayed, received, tasks, suspend, wanted>>
link == <<peer, outbox, inbox, closed, broken>>
vars == <<node, run, link, losses, other>>

-----------------------------------------------------------------------------
(***************************************************************************)
(* Chains.                                                                 *)
(***************************************************************************)
\* The chain that ends in a block, oldest block first, and the table of all
\* chains, which TLC works out once.
PathTo[b \in Blocks \cup {Genesis}] ==
    IF b = Genesis THEN <<>> ELSE Append(PathTo[Parent[b]], b)

Path == PathTo @@ <<>>

Num(b) == Len(Path[b])

On(b, h) == b \in ToSet(Path[h])

\* The number of the last block that two chains have in common.
ForkPoint(a, b) ==
    Cardinality({n \in 1 .. Num(a) : n <= Num(b) /\ Path[a][n] = Path[b][n]})

Higher(m, n) == IF m > n THEN m ELSE n

\* The fork database keeps blocks down to the one before the last
\* irreversible block.
Floor(d) == Higher(0, d.lib - 1)

InForkDb(d, b) == b \in d.known /\ Num(b) >= Floor(d)

\* The blocks that is_known_block finds, when h is the head and l the last
\* irreversible block: the chain, and what is left of the forks.
Remembered(B, h, l) == {b \in B : On(b, h) \/ Num(b) >= l - 1}

CanPush(d, b) ==
    /\ Num(b) > Floor(d)
    /\ Parent[b] = Genesis \/ InForkDb(d, Parent[b])
    /\ Num(b) > Num(d.head) => ForkPoint(b, d.head) >= d.lib

Pushed(d, b) ==
    LET head == IF Num(b) > Num(d.head) THEN b ELSE d.head
        lib  == Higher(d.lib, Num(head) - LibLag)
    IN  [known |-> Remembered(d.known \cup {b}, head, lib), head |-> head, lib |-> lib]

-----------------------------------------------------------------------------
(***************************************************************************)
(* The synopsis.                                                           *)
(***************************************************************************)
\* Slip: the last number is taken to be one that the loop has had.
Marks_ShortOfTop(low, top) ==
    LET from[n \in low .. top + 1] ==
          LET next == n + (top - n + 2) \div 2
          IN  <<n>> \o (IF next >= top THEN <<>> ELSE from[next])
    IN  from[low]

\* The numbers from low on, each half of the way to top further.
Marks(low, top) ==
    LET from[n \in low .. top + 1] ==
          IF n > top THEN <<>> ELSE <<n>> \o from[n + (top - n + 2) \div 2]
    IN  from[low]

\* The end of the part of the synopsis that the delegate fills.
Reference(d, p) == IF p.lastSeen = Genesis THEN d.head ELSE p.lastSeen

\* A reference point that is on no branch the fork database can follow.
Lost(d, p) ==
    /\ p.lastSeen # Genesis
    /\ ~On(p.lastSeen, d.head)
    /\ ~InForkDb(d, p.lastSeen)

\* block_older_than_undo_history.
TooOld(d, p) ==
    /\ p.lastSeen # Genesis
    /\ ~On(p.lastSeen, d.head)
    /\ ForkPoint(p.lastSeen, d.head) < d.lib

\* The block before the first one that can be undone, or the reference point
\* when the chain has gone past it.
Lowest(d, p) ==
    IF p.lastSeen # Genesis /\ On(p.lastSeen, d.head) /\ Num(p.lastSeen) < d.lib
    THEN Num(p.lastSeen)
    ELSE Higher(1, d.lib)

\* get_blockchain_synopsis, for the reference point and the number of blocks
\* that follow it in the list of blocks to get.
SynopsisOf(d, p) ==
    LET ref   == Reference(d, p)
        marks == SelectSeq(Marks(Lowest(d, p), Num(ref) + Len(p.toGet)),
                           LAMBDA n : n <= Num(ref))
    IN  IF ref = Genesis THEN <<>> ELSE [i \in DOMAIN marks |-> Path[ref][marks[i]]]

\* The part that create_blockchain_synopsis_for_peer adds.
FirstToGet(p) == Num(p.toGet[1])
LastToGet(p)  == FirstToGet(p) + Len(p.toGet) - 1

LowestOf(d, p) == IF Reference(d, p) = Genesis THEN 1 ELSE Lowest(d, p)

Rest(d, p) ==
    LET marks == SelectSeq(Marks(LowestOf(d, p), LastToGet(p)),
                           LAMBDA n : n >= FirstToGet(p))
    IN  [i \in DOMAIN marks |-> p.toGet[marks[i] - FirstToGet(p) + 1]]

Synopsis(d, p) ==
    SynopsisOf(d, p) \o (IF p.toGet = <<>> THEN <<>> ELSE Rest(d, p))

\* The FC_ASSERT on the index, and the fork history that is not there.
SynopsisThrows(d, p) ==
    \/ Lost(d, p)
    \/ p.toGet # <<>> /\ LowestOf(d, p) > LastToGet(p)

-----------------------------------------------------------------------------
(***************************************************************************)
(* The connection.                                                         *)
(***************************************************************************)
NoPeer ==
    [on |-> FALSE, needs |-> FALSE, needsUs |-> TRUE, toGet |-> <<>>, processing |-> {},
     lastSeen |-> Genesis, unfetched |-> 0, request |-> <<>>, asked |-> {},
     items |-> {}, offers |-> {}]

Idle(p) == p.request = <<>> /\ p.asked = {} /\ p.items = {}

\* disconnect_from_peer and on_connection_closed, all in one.  What was
\* asked of this peer and not sent is in no other peer's inventory; what it
\* was not asked for yet stays in _items_to_fetch.
Disconnect(why) ==
    /\ peer' = NoPeer
    /\ outbox' = <<>>
    /\ inbox' = <<>>
    /\ closed' = why
    /\ UNCHANGED <<broken, wanted>>

Send(m) == outbox' = Append(outbox, m)

Ids(s)         == [kind |-> "ids", blocks |-> s]
Fetch(kind, s) == [kind |-> kind, blocks |-> s]

\* fetch_next_batch_of_item_ids_from_peer, for the database d and the
\* connection p.  A request that is still open is forgotten.
FetchNextBatch(d, p, rest) ==
    IF TooOld(d, p) /\ ~Lost(d, p)
    THEN Disconnect("fork")
    ELSE /\ IF SynopsisThrows(d, p)
            THEN peer' = p /\ broken' = TRUE /\ UNCHANGED outbox
            ELSE /\ peer' = [p EXCEPT !.request = <<Synopsis(d, p)>>]
                 /\ Send(Ids(Synopsis(d, p)))
                 /\ UNCHANGED broken
         /\ inbox' = rest
         /\ UNCHANGED <<closed, wanted>>

\* The handler goes on without a message to the peer.
Keep(p, rest) ==
    /\ peer' = p
    /\ inbox' = rest
    /\ UNCHANGED <<outbox, closed, broken, wanted>>

\* start_synchronizing_with_peer: the blocks being processed stay.
Restarted(p) ==
    [p EXCEPT !.toGet = <<>>, !.unfetched = 0, !.needs = TRUE, !.lastSeen = Genesis]

Nothing(p) == p.toGet = <<>> /\ p.unfetched = 0 /\ p.processing = {}

-----------------------------------------------------------------------------
(***************************************************************************)
(* The thread.                                                             *)
(***************************************************************************)
\* A fiber that is ready already, or a task that is scheduled, stays where
\* it is.
Post(r, fiber) == IF fiber \in ToSet(r) THEN r ELSE Append(r, fiber)

Runs(fiber) == run # <<>> /\ Head(run) = fiber

Reads(kind) == Runs("read") /\ Head(inbox).kind = kind

\* The reading loop has handled a message.  It goes on with the next one, or
\* is ready again when that one has been read; fibers are those the handler
\* has made ready.
ReadOn(fibers) ==
    LET r == FoldLeft(Post, Tail(run), fibers)
    IN  run' \in (IF inbox' = <<>> THEN {r} ELSE {Append(r, "read"), <<"read">> \o r})

\* The reading loop ends with its connection.
NoRead(r) == SelectSeq(r, LAMBDA f : f # "read")

-----------------------------------------------------------------------------
(***************************************************************************)
(* The answer to a synopsis: on_blockchain_item_ids_inventory_message.     *)
(***************************************************************************)
\* A list of consecutive blocks that starts in the synopsis.
Fits(ids, synopsis) ==
    ids # <<>> =>
       /\ \A i \in DOMAIN ids : Num(ids[i]) = Num(ids[1]) + i - 1
       /\ IF synopsis = <<>> THEN Num(ids[1]) = 1 ELSE ids[1] \in ToSet(synopsis)

UpToDate(m) ==
    /\ m.remaining = 0
    /\ m.blocks = <<>> \/ (Len(m.blocks) = 1 /\ m.blocks[1] \in db.known)
    /\ peer.toGet = <<>>
    /\ peer.unfetched = 0

\* How many of the first blocks of a list are known.
KnownPrefix(ids) ==
    Cardinality({i \in DOMAIN ids : \A j \in 1 .. i : ids[j] \in db.known})

\* The last place of a block in the list of blocks to get; 0 if it is not
\* there.
PlaceOf(b, s) == SelectLastInSeq(s, LAMBDA c : c = b)

\* Slip: the first block of the new list is taken to be one we have.
Merged_DropsShared(p, ids) ==
    IF p.toGet = <<>> THEN
       LET k == KnownPrefix(ids)
       IN  [p EXCEPT !.lastSeen = IF k = 0 THEN @ ELSE ids[k],
                     !.toGet = SubSeq(ids, k + 1, Len(ids))]
    ELSE
       LET i == PlaceOf(ids[1], p.toGet)
       IN  IF i = 0
           THEN [p EXCEPT !.lastSeen = ids[1], !.toGet = Tail(ids)]
           ELSE [p EXCEPT !.toGet = SubSeq(@, 1, i - 1) \o Tail(ids)]

\* The lists after an answer that is not empty: blocks we have are dropped,
\* or the new list replaces the old one from its first block on.
Merged(p, ids) ==
    IF p.toGet = <<>> THEN
       LET k == KnownPrefix(ids)
       IN  [p EXCEPT !.lastSeen = IF k = 0 THEN @ ELSE ids[k],
                     !.toGet = SubSeq(ids, k + 1, Len(ids))]
    ELSE
       LET i == PlaceOf(ids[1], p.toGet)
       IN  IF i = 0
           THEN [p EXCEPT !.lastSeen = ids[1], !.toGet = Tail(ids)]
           ELSE [p EXCEPT !.toGet = SubSeq(@, 1, i - 1) \o ids]

\* More ids, or the blocks that are on the list.
GoOn(p, remaining, rest) ==
    IF (IF remaining # 0 THEN Len(p.toGet) > Prefetch ELSE p.toGet # <<>>)
    THEN Keep(p, rest) /\ ReadOn(<<"sync">>)
    ELSE FetchNextBatch(db, p, rest) /\ ReadOn(<<>>)

\* More blocks than there can be: the last of them would be made later than
\* now, and now is taken to be when the newest block was made.
Implausible(p) ==
    Num(p.lastSeen) + p.unfetched > Higher(Num(db.head), Num(other.head)) + Grace

Inventory ==
    LET m == Head(inbox)
        p == [peer EXCEPT !.request = <<>>]
        q == [(IF m.blocks = <<>> THEN p ELSE Merged(p, m.blocks))
                EXCEPT !.unfetched = m.remaining]
    IN  /\ Reads("ids")
        /\ IF peer.request = <<>>
           THEN Keep(peer, Tail(inbox)) /\ ReadOn(<<>>)
           ELSE IF ~Fits(m.blocks, peer.request[1])
           THEN Disconnect("reply") /\ ReadOn(<<>>)
           ELSE IF UpToDate(m)
           THEN Keep([p EXCEPT !.needs = FALSE], Tail(inbox)) /\ ReadOn(<<>>)
           ELSE IF Implausible(q)
           THEN Disconnect("implausible") /\ ReadOn(<<>>)
           ELSE GoOn(q, m.remaining, Tail(inbox))
        /\ UNCHANGED <<db, recent, relayed, received, tasks, suspend, losses, other>>

-----------------------------------------------------------------------------
(***************************************************************************)
(* Sync blocks.                                                            *)
(***************************************************************************)
\* An iteration of fetch_sync_items_loop.
FetchSyncItems ==
    LET lacking == SelectSeq(peer.toGet, LAMBDA b : b \notin received \cup peer.asked)
        batch   == SubSeq(lacking, 1, IF Len(lacking) < PerPeer THEN Len(lacking) ELSE PerPeer)
    IN  /\ Runs("sync")
        /\ run' = Tail(run)
        /\ IF ~suspend /\ peer.needs /\ Idle(peer) /\ batch # <<>>
           THEN /\ peer' = [peer EXCEPT !.asked = ToSet(batch)]
                /\ Send(Fetch("sync", batch))
           ELSE UNCHANGED <<peer, outbox>>
        /\ UNCHANGED <<node, inbox, closed, broken, losses, other>>

\* process_block_message for a block asked for during the sync.
ReceiveBlock ==
    LET b == Head(inbox).block
        p == [peer EXCEPT !.asked = @ \ {b}]
    IN  /\ Reads("sync")
        /\ received' = received \cup {b}
        /\ IF Idle(p) /\ p.unfetched > 0 /\ Len(p.toGet) < Prefetch
           THEN FetchNextBatch(db, p, Tail(inbox)) /\ ReadOn(<<"backlog">>)
           ELSE /\ Keep(p, Tail(inbox))
                /\ ReadOn(IF Idle(p) THEN <<"backlog", "sync">> ELSE <<"backlog">>)
        /\ UNCHANGED <<db, recent, relayed, tasks, suspend, losses, other>>

\* How many blocks process_backlog_of_sync_blocks hands over in one go.
Ready ==
    Cardinality({i \in DOMAIN peer.toGet :
                   /\ i <= AtOnce - Len(tasks)
                   /\ \A j \in 1 .. i : peer.toGet[j] \in received \ recent})

\* process_backlog_of_sync_blocks.  It stops at a block that was accepted
\* already: that block leaves the list of blocks to get, not the received
\* ones, and the blocks after it wait for the next call.
ProcessBacklog ==
    LET batch == SubSeq(peer.toGet, 1, Ready)
        p     == [peer EXCEPT !.toGet = SubSeq(@, Ready + 1, Len(@)),
                              !.processing = @ \cup ToSet(batch)]
        full  == Len(tasks) + Ready >= AtOnce
        again == ~full /\ p.toGet # <<>> /\ p.toGet[1] \in received
        q     == [p EXCEPT !.toGet = Tail(@), !.processing = @ \ {p.toGet[1]}]
        pushes == [i \in 1 .. Ready |-> "push"]
    IN  /\ Runs("backlog")
        /\ IF Len(tasks) >= AtOnce
           THEN /\ UNCHANGED <<tasks, received, suspend>>
                /\ Keep(peer, inbox)
                /\ run' = Tail(run)
           ELSE /\ tasks' = tasks \o batch
                /\ received' = received \ ToSet(batch)
                /\ suspend' = (full /\ Cardinality(received') >= MaxReceived)
                /\ IF again /\ Nothing(q) THEN FetchNextBatch(db, q, inbox)
                   ELSE Keep(IF again THEN q ELSE p, inbox)
                /\ run' = LET r == Tail(run) \o pushes
                          IN  IF suspend' THEN r ELSE Post(r, "sync")
        /\ UNCHANGED <<db, recent, relayed, losses, other>>

\* send_sync_block_to_node_delegate: one task, from the push to the call
\* that schedules the backlog again.
AcceptBlock ==
    LET b == Head(tasks)
        d == Pushed(db, b)
        p == [peer EXCEPT !.lastSeen = b, !.processing = @ \ {b}]
    IN  /\ Runs("push")
        /\ tasks' = Tail(tasks)
        /\ IF CanPush(db, b)
           THEN /\ db' = d
                /\ recent' = recent \cup {b}
                /\ IF peer.toGet = <<>> /\ peer.processing = {}
                   THEN IF peer.on /\ ~peer.needsUs /\ ~peer.needs
                        THEN FetchNextBatch(d, Restarted(peer), inbox)
                        ELSE Keep(peer, inbox)
                   ELSE IF b \in peer.processing
                        THEN IF Nothing(p) THEN FetchNextBatch(d, p, inbox) ELSE Keep(p, inbox)
                        ELSE Keep(peer, inbox)
           ELSE /\ UNCHANGED <<db, recent>>
                /\ IF b \in peer.processing THEN Disconnect("block") ELSE Keep(peer, inbox)
        /\ run' = LET r == Post(Tail(run), "backlog")
                  IN  IF inbox' = <<>> THEN NoRead(r) ELSE r
        /\ UNCHANGED <<relayed, received, suspend, losses, other>>

-----------------------------------------------------------------------------
(***************************************************************************)
(* Blocks by the normal route.                                             *)
(***************************************************************************)
\* on_item_ids_inventory_message, for one block.
Advert ==
    LET b == Head(inbox).block
        p == [peer EXCEPT !.offers = @ \cup {b}]
        new == b \notin peer.items \cup ToSet(wanted)
    IN  /\ Reads("advert")
        /\ inbox' = Tail(inbox)
        /\ IF b \in relayed
           THEN UNCHANGED <<peer, wanted>> /\ ReadOn(<<>>)
           ELSE /\ peer' = p
                /\ wanted' = IF new THEN Append(wanted, b) ELSE wanted
                /\ ReadOn(IF new THEN <<"items">> ELSE <<>>)
        /\ UNCHANGED <<db, recent, relayed, received, tasks, suspend,
                       outbox, closed, broken, losses, other>>

\* An iteration of fetch_items_loop: an idle peer is asked for one item that
\* it offers (GRAPHENE_NET_MAX_ITEMS_PER_PEER_DURING_NORMAL_OPERATION is 1);
\* the others wait until something triggers the loop again.
FetchItems ==
    LET offered == SelectSeq(wanted, LAMBDA b : b \in peer.offers)
        b       == Head(offered)
    IN  /\ Runs("items")
        /\ run' = Tail(run)
        /\ IF Idle(peer) /\ offered # <<>>
           THEN /\ peer' = [peer EXCEPT !.items = {b}]
                /\ wanted' = SelectSeq(wanted, LAMBDA c : c # b)
                /\ Send(Fetch("item", <<b>>))
           ELSE UNCHANGED <<peer, wanted, outbox>>
        /\ UNCHANGED <<db, recent, relayed, received, tasks, suspend,
                       inbox, closed, broken, losses, other>>

\* A block without its parent; the other refusals are no unlinkable_block.
Unlinkable(b) == Num(b) > Floor(db) /\ Parent[b] # Genesis /\ ~InForkDb(db, Parent[b])

\* Slip: a block without its parent is dropped, as one that is known.
NormalBlock_Ignores ==
    LET b == Head(inbox).block
        p == [peer EXCEPT !.items = @ \ {b}]
    IN  /\ Reads("item")
        /\ IF b \in recent \/ CanPush(db, b)
           THEN /\ db' = IF b \in recent THEN db ELSE Pushed(db, b)
                /\ recent' = recent \cup {b}
                /\ relayed' = relayed \cup {b}
                /\ Keep([p EXCEPT !.lastSeen = IF b \in p.offers THEN b ELSE @], Tail(inbox))
                /\ ReadOn(IF Idle(p) THEN <<"items">> ELSE <<>>)
           ELSE /\ UNCHANGED <<db, recent, relayed>>
                /\ Keep(p, Tail(inbox))
                /\ ReadOn(IF Idle(p) THEN <<"items">> ELSE <<>>)
        /\ UNCHANGED <<received, tasks, suspend, losses, other>>

\* process_block_during_normal_operation.
NormalBlock ==
    LET b == Head(inbox).block
        p == [peer EXCEPT !.items = @ \ {b}]
    IN  /\ Reads("item")
        /\ IF b \in recent \/ CanPush(db, b)
           THEN /\ db' = IF b \in recent THEN db ELSE Pushed(db, b)
                /\ recent' = recent \cup {b}
                /\ relayed' = relayed \cup {b}
                /\ Keep([p EXCEPT !.lastSeen = IF b \in p.offers THEN b ELSE @], Tail(inbox))
                /\ ReadOn(IF Idle(p) THEN <<"items">> ELSE <<>>)
           ELSE /\ UNCHANGED <<db, recent, relayed>>
                /\ IF Unlinkable(b) THEN FetchNextBatch(db, Restarted(p), Tail(inbox))
                   ELSE Disconnect("block")
                /\ ReadOn(<<>>)
        /\ UNCHANGED <<received, tasks, suspend, losses, other>>

\* The same for a block that another peer brings.
OtherBlock(b) ==
    /\ b \in Others \ recent
    /\ CanPush(db, b)
    /\ db' = Pushed(db, b)
    /\ recent' = recent \cup {b}
    /\ relayed' = relayed \cup {b}
    /\ wanted' = SelectSeq(wanted, LAMBDA c : c # b)
    /\ peer' = IF b \in peer.offers THEN [peer EXCEPT !.lastSeen = b] ELSE peer
    /\ run' \in {run, Post(run, "items")}
    /\ UNCHANGED <<received, tasks, suspend, outbox, inbox, closed, broken, losses, other>>

-----------------------------------------------------------------------------
(***************************************************************************)
(* Requests for ids.                                                       *)
(***************************************************************************)
\* Slip: the list starts after the shared block.
Listed_AfterShared(head, synopsis) ==
    LET chain  == Path[head]
        shared == {Num(b) : b \in {c \in ToSet(synopsis) : On(c, head)}}
        first  == IF shared = {} THEN 1 ELSE Max(shared) + 1
        last   == IF first + Limit - 1 < Len(chain) THEN first + Limit - 1 ELSE Len(chain)
    IN  [kind |-> "ids", blocks |-> SubSeq(chain, first, last), remaining |-> Len(chain) - last]

\* get_block_ids: from the last block of the synopsis that is on the chain.
\* Without one it lists its chain from the start if the synopsis is empty,
\* and nothing if it is not.
Listed(head, synopsis) ==
    LET chain  == Path[head]
        shared == {Num(b) : b \in {c \in ToSet(synopsis) : On(c, head)}}
        first  == IF synopsis = <<>> THEN 1 ELSE Max(shared)
        last   == IF first + Limit - 1 < Len(chain) THEN first + Limit - 1 ELSE Len(chain)
    IN  IF synopsis # <<>> /\ shared = {}
        THEN [kind |-> "ids", blocks |-> <<>>, remaining |-> 0]
        ELSE [kind |-> "ids", blocks |-> SubSeq(chain, first, last),
              remaining |-> Len(chain) - last]

\* Whether the one who asked has all that is listed:
\* peer_needs_sync_items_from_us is then false.
InSync(ids, synopsis) ==
    \/ ids = <<>>
    \/ Len(ids) = 1 /\ ids[1] \in ToSet(synopsis)

\* on_fetch_blockchain_item_ids_message.  If the other node has a block we
\* lack though we take ourselves to be in sync, we start again.  What it does
\* with our answer is left to PeerAccepts.
Asked ==
    LET s == Head(inbox).blocks
        p == [peer EXCEPT !.needsUs = ~InSync(Listed(db.head, s).blocks, s)]
    IN  /\ Reads("ask")
        /\ IF ~peer.needs /\ s # <<>> /\ Last(s) \notin db.known
           THEN FetchNextBatch(db, Restarted(p), Tail(inbox))
           ELSE Keep(p, Tail(inbox))
        /\ ReadOn(<<>>)
        /\ UNCHANGED <<db, recent, relayed, received, tasks, suspend, losses, other>>

-----------------------------------------------------------------------------
(***************************************************************************)
(* The other node, and the connection.                                     *)
(***************************************************************************)
\* start_synchronizing_with_peer, on the other side.
PeerAsks ==
    LET d == [known |-> other.known, head |-> other.head,
              lib |-> Higher(0, Num(other.head) - LibLag)]
    IN  /\ peer.on
        /\ other.asks < MaxAsks
        /\ other' = [other EXCEPT !.asks = @ + 1]
        /\ inbox' = Append(inbox, [kind |-> "ask", blocks |-> Synopsis(d, NoPeer)])
        /\ run' = Post(run, "read")
        /\ UNCHANGED <<node, peer, outbox, closed, broken, losses>>

\* on_fetch_blockchain_item_ids_message and on_fetch_items_message there.
Answer ==
    LET m == Head(outbox)
    IN  /\ outbox # <<>>
        /\ ~other.mute
        /\ outbox' = Tail(outbox)
        /\ IF m.kind = "ids"
           THEN LET reply == Listed(other.head, m.blocks)
                IN  /\ inbox' = Append(inbox, reply)
                    /\ other' = [other EXCEPT !.synced = InSync(reply.blocks, m.blocks)]
           ELSE /\ inbox' = inbox \o [i \in DOMAIN m.blocks |->
                                        [kind |-> m.kind, block |-> m.blocks[i]]]
                /\ UNCHANGED other
        /\ run' = Post(run, "read")
        /\ UNCHANGED <<node, peer, closed, broken, losses>>

\* The other node accepts a block, and tells the peers it takes to be in
\* sync.
PeerAccepts(b) ==
    /\ b \in Blocks \ other.known
    /\ Parent[b] \in other.known \cup {Genesis}
    /\ other' = [other EXCEPT !.known = @ \cup {b},
                              !.head  = IF Num(b) > Num(@) THEN b ELSE @]
    /\ IF peer.on /\ other.synced
       THEN /\ inbox' = Append(inbox, [kind |-> "advert", block |-> b])
            /\ run' = Post(run, "read")
       ELSE UNCHANGED <<inbox, run>>
    /\ UNCHANGED <<node, peer, outbox, closed, broken, losses>>

\* move_peer_to_active_list and new_peer_just_added.
Connect ==
    /\ ~peer.on
    /\ FetchNextBatch(db, Restarted([NoPeer EXCEPT !.on = TRUE]), <<>>)
    /\ other' = [other EXCEPT !.synced = FALSE, !.mute = FALSE]
    /\ UNCHANGED <<db, recent, relayed, received, tasks, suspend, run, losses>>

LoseConnection ==
    /\ peer.on
    /\ losses < MaxLosses
    /\ losses' = losses + 1
    /\ Disconnect("lost")
    /\ run' = NoRead(run)
    /\ UNCHANGED <<db, recent, relayed, received, tasks, suspend, other>>

\* The other node stops answering requests, though it still talks to us.
FallSilent ==
    /\ peer.on
    /\ ~other.mute
    /\ losses < MaxLosses
    /\ losses' = losses + 1
    /\ other' = [other EXCEPT !.mute = TRUE]
    /\ UNCHANGED <<node, run, link>>

\* We need blocks from the peer and are not about to get any.
Stalled(p) == p.needs /\ p.request = <<>> /\ p.toGet = <<>>

\* terminate_inactive_connections_loop.  A request times out when the peer
\* is silent; for sync blocks the loop is left before the peer is put on
\* the list of those to disconnect.
TerminateInactive ==
    /\ peer.on
    /\ ~(other.mute /\ peer.asked # {})
    /\ \/ other.mute /\ (peer.request # <<>> \/ peer.items # {}) /\ Disconnect("timeout")
       \/ Stalled(peer) /\ Disconnect("stalled")
    /\ run' = NoRead(run)
    /\ UNCHANGED <<db, recent, relayed, received, tasks, suspend, losses, other>>

-----------------------------------------------------------------------------
Init ==
    /\ db = [known |-> ToSet(Path[OurHead]), head |-> OurHead,
             lib |-> Higher(0, Num(OurHead) - LibLag)]
    /\ recent = {} /\ relayed = {} /\ received = {}
    /\ tasks = <<>>
    /\ suspend = FALSE
    /\ run = <<>>
    /\ wanted = <<>>
    /\ peer = NoPeer
    /\ outbox = <<>> /\ inbox = <<>>
    /\ closed = "no"
    /\ broken = FALSE
    /\ losses = 0
    /\ other = [known |-> PeerBlocks, head |-> PeerHead, synced |-> FALSE, mute |-> FALSE,
                asks |-> 0]

\* The thread runs the next fiber.
Fiber ==
    \/ Inventory \/ ReceiveBlock \/ Advert \/ NormalBlock \/ Asked
    \/ FetchSyncItems \/ FetchItems
    \/ ProcessBacklog \/ AcceptBlock

Next ==
    \/ Fiber
    \/ Answer
    \/ PeerAsks
    \/ TerminateInactive
    \/ Connect
    \/ LoseConnection
    \/ FallSilent
    \/ \E b \in Blocks : PeerAccepts(b) \/ OtherBlock(b)

Spec == Init /\ [][Next]_vars

\* Messages are delivered and handled, woken fibers and scheduled tasks run,
\* the connection is made again, and the loop that terminates inactive
\* connections keeps running.
FairSpec ==
    /\ Spec
    /\ WF_vars(Fiber)
    /\ WF_vars(Answer)
    /\ WF_vars(TerminateInactive)
    /\ WF_vars(Connect)

-----------------------------------------------------------------------------
(***************************************************************************)
(* Properties.                                                             *)
(***************************************************************************)
Requests == SelectSeq(outbox \o inbox, LAMBDA m : m.kind = "ids")

\* The answer of a peer that follows the protocol is never refused as an
\* invalid response, whatever the peer's chain has become since and whatever
\* we have received, as long as there is only one request on its way.  Nor
\* is it ever taken to list more blocks than there can be, wherever we count
\* them from.
ReplyFits ==
    /\ Reads("ids") /\ peer.request # <<>> /\ Len(Requests) = 1
          => Fits(Head(inbox).blocks, peer.request[1])
    /\ closed # "implausible"

Linked(s, known) ==
    \A i \in DOMAIN s : Parent[s[i]] \in known \cup {Genesis} \cup ToSet(SubSeq(s, 1, i - 1))

\* Every block that is handed over finds its parent in the database or is
\* handed over after it, and the blocks still to get follow on those: a peer
\* is never disconnected for a block that we ask for at the wrong time.
BlocksLink ==
    /\ Linked(tasks \o peer.toGet, db.known)
    /\ closed # "block"

\* The assertions of the synopsis and of the merged lists: the two halves of
\* a synopsis can always be put together, the result ends with the last block
\* to get, and a list that shares nothing with the blocks to get starts with
\* a block we have.
SynopsisSound ==
    /\ ~broken
    /\ peer.on /\ peer.toGet # <<>> => Last(Synopsis(db, peer)) = Last(peer.toGet)
    /\ Reads("ids") /\ peer.request # <<>> /\ Head(inbox).blocks # <<>> /\ peer.toGet # <<>>
          => Head(inbox).blocks[1] \in db.known \cup ToSet(peer.toGet)

\* All blocks on the list have been received, and nothing looks through them
\* (process_backlog_of_sync_blocks): they came while the list was another one.
LeftOver == peer.toGet # <<>> /\ ToSet(peer.toGet) \subseteq received

\* A peer that does not send the sync blocks we asked for, and that
\* terminate_inactive_connections_loop does not disconnect.
Ignored == other.mute /\ peer.asked # {}

\* Once the other node stays where it is, we have its chain: a block that
\* it has accepted reaches us by the sync or by the normal route, through fork
\* switches, lost connections and restarts of the sync.  There are two ways
\* for it to wait for ever and no other: left over blocks, and a peer that
\* falls silent when it owes us sync blocks.
CatchesUp ==
    \/ <>[](other.head \in db.known)
    \/ <>[]LeftOver
    \/ <>[]Ignored
=============================================================================
