--------------------------- MODULE ChainDatabase ---------------------------
(***************************************************************************)
(* delta::chain::database as the keeper of the chain: push_block with its  *)
(* fork switch, pop_block, the application of a block, the migration of    *)
(* irreversible blocks to the block log, the pending transactions, and     *)
(* open, close and crash.                                                  *)
(*                                                                         *)
(* One thread at a time writes (see WriteQueue), so a call runs alone; it  *)
(* is cut into steps all the same, because the state file is a memory map  *)
(* and a crash between any two of them leaves what was written so far.     *)
(* The undo history is the stack of snapshots that UndoIndex is shown to   *)
(* implement.                                                              *)
(***************************************************************************)
EXTENDS ForkDatabase

CONSTANTS
    Trx,                \* transactions
    TrxOf,              \* block -> the transactions it carries
    Conflicts,          \* pairs of transactions that cannot both apply
    RefBlock,           \* transaction -> the block it refers to (ref_block_num and prefix)
    Expiration,         \* transaction -> its expiration
    TimeOf,             \* block, or the zero id -> its timestamp
    MaxTimeUntilExpiration, \* DELTA_MAX_TIME_UNTIL_EXPIRATION
    Invalid,            \* blocks that some evaluator or header check refuses
    Witnesses,          \* the scheduled witnesses
    WitnessOf,          \* block -> the witness that signed it
    StartMinerVoting,   \* DELTA_START_MINER_VOTING_BLOCK
    MaxWitnesses,       \* DELTA_MAX_WITNESSES
    ThresholdPercent,   \* DELTA_IRREVERSIBLE_THRESHOLD
    MaxUndoHistory,     \* DELTA_MAX_UNDO_HISTORY
    ForkDbSize,         \* fork_database::_max_size before the first set_max_size
    AnyFirstBlock,      \* may the first block a node at genesis sees be another than
                        \* block 1 (peers' new blocks ahead of the sync)
    InitialLog          \* the block log the first process finds

ASSUME ChainDatabaseAssumption ==
    /\ TrxOf \in [Blocks -> SUBSET Trx]
    /\ \A b \in Blocks : IsFiniteSet(TrxOf[b])
    /\ Conflicts \subseteq Trx \X Trx
    /\ RefBlock \in [Trx -> Blocks \cup {Genesis}]
    /\ Expiration \in [Trx -> Nat]
    /\ TimeOf \in [Blocks \cup {Genesis} -> Nat]
    /\ \A b \in Blocks : TimeOf[Previous[b]] < TimeOf[b]
    /\ MaxTimeUntilExpiration \in Nat
    /\ Invalid \subseteq Blocks
    /\ IsFiniteSet(Witnesses)
    /\ Witnesses # {}
    /\ WitnessOf \in [Blocks -> Witnesses]
    /\ StartMinerVoting \in Nat
    /\ MaxWitnesses \in Nat \ {0}
    /\ ThresholdPercent \in 1 .. 100
    /\ MaxUndoHistory \in Nat
    /\ ForkDbSize \in Nat
    /\ AnyFirstBlock \in BOOLEAN
    /\ InitialLog \in Seq(Blocks)
    /\ \A i \in 1 .. Len(InitialLog) :
          Previous[InitialLog[i]] = IF i = 1 THEN Genesis ELSE InitialLog[i - 1]

VARIABLES
    db,        \* chain state: head_block_id, last_irreversible_block_num, ...
    undo,      \* undo history: [snapshot, revision] of each open session
    revision,  \* the head revision of the state
    fork_db,   \* the fork database
    log,       \* block log: the blocks appended so far
    flushed,   \* how many of them are on disk
    pending,   \* _pending_tx
    session,   \* _pending_tx_session is valid
    popped,    \* _popped_tx
    pc,        \* where the running call stands
    job        \* its local variables

vars == <<db, undo, revision, fork_db, log, flushed, pending, session, popped, pc, job>>

Ids == Blocks \cup {Genesis}

HeadNum == Num[db.head]

GenesisState == [head |-> Genesis, lib |-> 0,
                 confirmed |-> [w \in Witnesses |-> 0], trxs |-> {}]

\* The locals of push_block.  mode: "straight" for a block on top of the
\* head, "switch" while the new branch is applied, "restore" while the old one
\* is put back; block: the block pushed; apply: what is left to apply, oldest
\* first; old: the branch given up; write: what is left to append to the log;
\* saved: the pending transactions set aside; ok: nothing was thrown.  head
\* and known (the head and the known transactions when the call came) are only
\* there to state properties.
NoJob == [mode |-> "none", block |-> None, apply |-> <<>>, old |-> <<>>, write |-> <<>>,
          saved |-> <<>>, ok |-> TRUE, head |-> Genesis, known |-> {}]

-----------------------------------------------------------------------------
(* Transactions.                                                           *)

\* The block of number n on the chain that ends in b.
AncestorAt(b, n) == ItemAt([linked |-> Blocks], b, n)

\* Block x is the block summary that the chain ending in h has at x's number.
OnChain(x, h) == Num[x] <= Num[h] /\ AncestorAt(h, Num[x]) = x

\* What _apply_transaction asks of a transaction's header when the head is h,
\* once there is a block: it refers to a block of this chain, is not expired at
\* the head block's time, and does not expire too far from it.
Timely(t, h) ==
    h # Genesis =>
       /\ OnChain(RefBlock[t], h)
       /\ Expiration[t] <= TimeOf[h] + MaxTimeUntilExpiration
       /\ TimeOf[h] < Expiration[t]

\* _apply_transaction on top of head h: not a duplicate, timely, and no effect
\* of an applied transaction stands against it.
TrxApplies(t, h, done) ==
    t \notin done /\ Timely(t, h) /\ \A u \in done : <<u, t>> \notin Conflicts

Elements(s) == {s[i] : i \in 1 .. Len(s)}

\* One transaction is pushed on top of head h, the transactions in done and
\* those kept so far; one that fails is dropped.
PushAgain(kept, t, h, done) ==
    IF TrxApplies(t, h, done \cup Elements(kept)) THEN Append(kept, t) ELSE kept

\* What is left of the sequence s when its transactions are pushed one by one.
Accepted(s, h, done) ==
    LET take[i \in 0 .. Len(s)] ==
          IF i = 0 THEN <<>> ELSE PushAgain(take[i - 1], s[i], h, done)
    IN  take[Len(s)]

\* The transactions of a block in some order; they come back in that order.
Listed(S) == CHOOSE s \in [1 .. Cardinality(S) -> S] : Elements(s) = S

-----------------------------------------------------------------------------
(* Undo sessions.                                                          *)

\* Slip: a session gets the revision before it.
Started_SameRevision == Append(undo, [snapshot |-> db, revision |-> revision])

Started == Append(undo, [snapshot |-> db, revision |-> revision + 1])

Outer == SubSeq(undo, 1, Len(undo) - 1)

\* The state without the pending transactions: clear_pending().
CleanDb       == IF session THEN undo[Len(undo)].snapshot ELSE db
CleanUndo     == IF session THEN Outer ELSE undo
CleanRevision == IF session THEN revision - 1 ELSE revision

\* Slip: one block too many is committed.
CommitTo_OneMore(r) ==
    \E k \in 0 .. Len(undo) :
       /\ \A i \in 1 .. k : undo[i].revision <= r + 1
       /\ k < Len(undo) => undo[k + 1].revision > r + 1
       /\ undo' = SubSeq(undo, k + 1, Len(undo))

\* commit(r) pops sessions from the front while they are no younger than r.
CommitTo(r) ==
    \E k \in 0 .. Len(undo) :
       /\ \A i \in 1 .. k : undo[i].revision <= r
       /\ k < Len(undo) => undo[k + 1].revision > r
       /\ undo' = SubSeq(undo, k + 1, Len(undo))

-----------------------------------------------------------------------------
(* Applying a block.                                                       *)

\* std::nth_element: the confirmation number at position offset (from 0) when
\* they are sorted.
NthElement(confirmed, offset) ==
    CHOOSE v \in {confirmed[w] : w \in Witnesses} :
       /\ Cardinality({w \in Witnesses : confirmed[w] < v}) <= offset
       /\ Cardinality({w \in Witnesses : confirmed[w] <= v}) > offset

\* update_last_irreversible_block on state s, whose head is already set.
LastIrreversible(s) ==
    LET n      == Num[s.head]
        offset == ((100 - ThresholdPercent) * Cardinality(Witnesses)) \div 100
    IN  IF n < StartMinerVoting
        THEN IF n > MaxWitnesses THEN n - MaxWitnesses ELSE s.lib
        ELSE Larger(s.lib, NthElement(s.confirmed, offset))

\* The state after the reversible part of _apply_block.
AfterBlock(s, b) ==
    LET moved == [s EXCEPT !.head = b,
                           !.confirmed = [@ EXCEPT ![WitnessOf[b]] = Num[b]],
                           !.trxs = @ \cup TrxOf[b]]
    IN  [moved EXCEPT !.lib = LastIrreversible(moved)]

\* validate_block_header, the transactions, and the undo history check of
\* update_global_dynamic_data.
BlockApplies(s, b) ==
    /\ s.head = Previous[b]
    /\ b \notin Invalid
    /\ \A t \in TrxOf[b] : TrxApplies(t, s.head, s.trxs \cup (TrxOf[b] \ {t}))
    /\ Num[b] - s.lib < MaxUndoHistory

\* Slip: the collection starts with the head of the log.
ToWrite_FromHead(f, s) == [i \in 1 .. (s.lib - Len(log)) |-> MainBranchAt(f, Len(log) + i - 1)]

\* migrate_irreversible_state: the blocks the log lacks, collected before
\* anything is written.
ToWrite(f, s) == [i \in 1 .. (s.lib - Len(log)) |-> MainBranchAt(f, Len(log) + i)]

CanMigrate(f, s) ==
    /\ f.head # None => Num[f.head] = Num[s.head]
    /\ \A i \in 1 .. (s.lib - Len(log)) : ToWrite(f, s)[i] \in Blocks

\* The fork database after open: the head block, if there is one.
StartedForkDb(b) ==
    IF b = Genesis THEN EmptyForkDb(ForkDbSize) ELSE StartBlock(EmptyForkDb(ForkDbSize), b)

-----------------------------------------------------------------------------
\* A new node opens the genesis state; one that finds a log replays it.
Init ==
    /\ log = InitialLog
    /\ flushed = Len(log)
    /\ db = GenesisState
    /\ undo = <<>>
    /\ revision = 0
    /\ fork_db = EmptyForkDb(ForkDbSize)
    /\ pending = <<>>
    /\ session = FALSE
    /\ popped = <<>>
    /\ pc = (IF log = <<>> THEN "idle" ELSE "replay")
    /\ job = NoJob

\* push_block sets the pending transactions aside and undoes their session;
\* then the block goes to the fork database, which says what to do:
\* nothing, apply it, or switch to its branch.
Push(b) ==
    LET f        == PushBlock(fork_db, b)
        head     == CleanDb.head
        straight == Previous[f.head] = head
        longer   == Num[f.head] > Num[head]
        fork     == MeetingHeight(f, f.head, head)
        call     == [NoJob EXCEPT !.block = b, !.saved = pending,
                                  !.head = head, !.known = db.trxs]
    IN  /\ pc = "idle"
        /\ fork_db.head = None /\ Previous[b] # Genesis => AnyFirstBlock
        /\ db' = CleanDb
        /\ undo' = CleanUndo
        /\ revision' = CleanRevision
        /\ pending' = <<>>
        /\ session' = FALSE
        /\ fork_db' = IF CanPush(fork_db, b) THEN f ELSE fork_db
        /\ \/ /\ ~CanPush(fork_db, b)
              /\ pc' = "requeue"
              /\ job' = [call EXCEPT !.ok = FALSE]
           \/ /\ CanPush(fork_db, b) /\ straight
              /\ pc' = "apply"
              /\ job' = [call EXCEPT !.mode = "straight", !.apply = <<b>>]
           \/ /\ CanPush(fork_db, b) /\ ~straight /\ ~longer
              /\ pc' = "requeue"
              /\ job' = call
           \/ /\ CanPush(fork_db, b) /\ ~straight /\ longer
              /\ ~CanFetchBranch(f, f.head, head)
              /\ pc' = "requeue"
              /\ job' = [call EXCEPT !.ok = FALSE]
           \/ /\ CanPush(fork_db, b) /\ ~straight /\ longer
              /\ CanFetchBranch(f, f.head, head)
              /\ pc' = "pop"
              /\ job' = [call EXCEPT !.mode = "switch",
                                     !.apply = Branch(f, f.head, fork),
                                     !.old = Branch(f, head, fork)]
        /\ UNCHANGED <<log, flushed, popped>>

\* _generate_block rebuilds the pending session, takes what is not expired at
\* the time of the block, still applies and fits into a block on top of the
\* head, and pushes that block.
Generate(b) ==
    /\ Previous[b] = db.head
    /\ b \notin fork_db.index
    /\ b \notin Invalid
    /\ LET unexpired == SelectSeq(pending, LAMBDA t : Expiration[t] >= TimeOf[b])
       IN  TrxOf[b] \subseteq Elements(Accepted(unexpired, CleanDb.head, CleanDb.trxs))
    /\ Push(b)

\* The fork point the running switch unwinds to.
ForkPoint == Previous[job.old[1]]

InLog(b) == b # Genesis /\ Num[b] <= Len(log) /\ log[Num[b]] = b

\* pop_block finds the head block, and the fork database can step back.
CanPopBlock == (db.head \in fork_db.index \/ InLog(db.head)) /\ CanPop(fork_db)

\* Slip: the transactions of the popped block are forgotten.
Pop_ForgetsTransactions ==
    /\ pc = "pop"
    /\ db.head # ForkPoint
    /\ CanPopBlock
    /\ fork_db' = PopBlock(fork_db)
    /\ db' = IF undo = <<>> THEN db ELSE undo[Len(undo)].snapshot
    /\ undo' = IF undo = <<>> THEN undo ELSE Outer
    /\ revision' = IF undo = <<>> THEN revision ELSE revision - 1
    /\ UNCHANGED <<log, flushed, pending, session, popped, pc, job>>

Pop ==
    /\ pc = "pop"
    /\ db.head # ForkPoint
    /\ CanPopBlock
    /\ fork_db' = PopBlock(fork_db)
    /\ popped' = Listed(TrxOf[db.head]) \o popped
    /\ db' = IF undo = <<>> THEN db ELSE undo[Len(undo)].snapshot
    /\ undo' = IF undo = <<>> THEN undo ELSE Outer
    /\ revision' = IF undo = <<>> THEN revision ELSE revision - 1
    /\ UNCHANGED <<log, flushed, pending, session, pc, job>>

\* Slip: the exception is swallowed inside the loop.
PopFails_Ignored ==
    /\ pc = "pop"
    /\ db.head # ForkPoint
    /\ ~CanPopBlock
    /\ UNCHANGED vars

\* An exception in pop_block leaves push_block.
PopFails ==
    /\ pc = "pop"
    /\ db.head # ForkPoint
    /\ ~CanPopBlock
    /\ pc' = "requeue"
    /\ job' = [job EXCEPT !.ok = FALSE]
    /\ UNCHANGED <<db, undo, revision, fork_db, log, flushed, pending, session, popped>>

Unwound ==
    /\ pc = "pop"
    /\ db.head = ForkPoint
    /\ pc' = "apply"
    /\ UNCHANGED <<db, undo, revision, fork_db, log, flushed, pending, session, popped, job>>

NextBlock == Head(job.apply)

\* On a switch the fork database's head is moved along with the chain.
ForkDbAtApply == IF job.mode = "straight" THEN fork_db ELSE SetHead(fork_db, NextBlock)

CanApply ==
    /\ BlockApplies(db, NextBlock)
    /\ CanMigrate(ForkDbAtApply, AfterBlock(db, NextBlock))

\* start_undo_session and apply_block up to the first write to the log.
Apply ==
    /\ pc = "apply"
    /\ CanApply
    /\ undo' = Started
    /\ revision' = revision + 1
    /\ db' = AfterBlock(db, NextBlock)
    /\ fork_db' = ForkDbAtApply
    /\ job' = [job EXCEPT !.write = ToWrite(fork_db', db')]
    /\ pc' = "migrate"
    /\ UNCHANGED <<log, flushed, pending, session, popped>>

\* apply_block throws and its session is undone.  A block on top of the head
\* is removed from the fork database; an old branch that cannot be put back
\* is left where it got.
ApplyFails ==
    /\ pc = "apply"
    /\ ~CanApply
    /\ job.mode \in {"straight", "restore"}
    /\ fork_db' = IF job.mode = "straight" THEN Remove(fork_db, {job.block}) ELSE ForkDbAtApply
    /\ pc' = "requeue"
    /\ job' = [job EXCEPT !.ok = FALSE]
    /\ UNCHANGED <<db, undo, revision, log, flushed, pending, session, popped>>

\* Slip: the old branch is put on top of what was applied of the new one.
BranchFails_WithoutPop ==
    /\ pc = "apply"
    /\ ~CanApply
    /\ job.mode = "switch"
    /\ fork_db' = Remove(ForkDbAtApply, Elements(job.apply))
    /\ job' = [job EXCEPT !.mode = "restore", !.apply = job.old, !.ok = FALSE]
    /\ UNCHANGED <<db, undo, revision, log, flushed, pending, session, popped, pc>>

\* Slip: the rest of the new branch stays.
BranchFails_KeepsBranch ==
    /\ pc = "apply"
    /\ ~CanApply
    /\ job.mode = "switch"
    /\ fork_db' = ForkDbAtApply
    /\ pc' = "pop"
    /\ job' = [job EXCEPT !.mode = "restore", !.apply = job.old, !.ok = FALSE]
    /\ UNCHANGED <<db, undo, revision, log, flushed, pending, session, popped>>

\* On a switch the rest of the new branch is removed, what was applied of it
\* is popped, and the old branch is put back.
BranchFails ==
    /\ pc = "apply"
    /\ ~CanApply
    /\ job.mode = "switch"
    /\ fork_db' = Remove(ForkDbAtApply, Elements(job.apply))
    /\ pc' = "pop"
    /\ job' = [job EXCEPT !.mode = "restore", !.apply = job.old, !.ok = FALSE]
    /\ UNCHANGED <<db, undo, revision, log, flushed, pending, session, popped>>

AppendToLog ==
    /\ pc = "migrate"
    /\ job.write # <<>>
    /\ log' = Append(log, Head(job.write))
    /\ job' = [job EXCEPT !.write = Tail(@)]
    /\ UNCHANGED <<db, undo, revision, fork_db, flushed, pending, session, popped, pc>>

\* The log is flushed, the fork database trimmed, the undo history cut off at
\* the last irreversible block; then session.push() keeps what is left.
CommitBlock ==
    /\ pc = "migrate"
    /\ job.write = <<>>
    /\ flushed' = Len(log)
    /\ fork_db' = SetMaxSize(fork_db, HeadNum - db.lib + 1)
    /\ CommitTo(db.lib)
    /\ job' = [job EXCEPT !.apply = Tail(@)]
    /\ pc' = IF Len(job.apply) = 1 THEN "requeue" ELSE "apply"
    /\ UNCHANGED <<db, revision, log, pending, session, popped>>

\* is_known_transaction: clear_expired_transactions has taken the expired ones
\* from the index.
Known == {t \in db.trxs : TimeOf[db.head] <= Expiration[t]}

\* ~pending_transactions_restorer pushes the popped, then the saved
\* transactions again, without the ones that are known by now; one that does
\* not apply any more is dropped.
Requeue ==
    LET again == popped \o job.saved
        kept  == Accepted(again, db.head, db.trxs)
        tried == {i \in 1 .. Len(again) : again[i] \notin Known}
    IN  /\ pc = "requeue"
        /\ pending' = kept
        /\ session' = (tried # {})
        /\ undo' = IF session' THEN Started ELSE undo
        /\ revision' = IF session' THEN revision + 1 ELSE revision
        /\ db' = [db EXCEPT !.trxs = @ \cup Elements(kept)]
        /\ popped' = <<>>
        /\ pc' = "idle"
        /\ job' = NoJob
        /\ UNCHANGED <<fork_db, log, flushed>>

\* Slip: a transaction is queued before it is applied.
PushTransaction_QueuesFirst(t) ==
    /\ pc = "idle"
    /\ session' = TRUE
    /\ undo' = IF session THEN undo ELSE Started
    /\ revision' = IF session THEN revision ELSE revision + 1
    /\ pending' = Append(pending, t)
    /\ db' = [db EXCEPT !.trxs = IF TrxApplies(t, db.head, @) THEN @ \cup {t} ELSE @]
    /\ UNCHANGED <<fork_db, log, flushed, popped, pc, job>>

\* A transaction that does not apply still leaves the session started.
PushTransaction(t) ==
    /\ pc = "idle"
    /\ session' = TRUE
    /\ undo' = IF session THEN undo ELSE Started
    /\ revision' = IF session THEN revision ELSE revision + 1
    /\ IF TrxApplies(t, db.head, db.trxs)
       THEN /\ pending' = Append(pending, t)
            /\ db' = [db EXCEPT !.trxs = @ \cup {t}]
       ELSE UNCHANGED <<pending, db>>
    /\ UNCHANGED <<fork_db, log, flushed, popped, pc, job>>

-----------------------------------------------------------------------------
(* Shutting down and starting again.                                       *)

\* close() undoes the pending session and keeps the rest of the history; the
\* process ends, and the next one starts with a fresh fork database.
Close ==
    /\ pc = "idle"
    /\ db' = CleanDb
    /\ undo' = CleanUndo
    /\ revision' = CleanRevision
    /\ flushed' = Len(log)
    /\ fork_db' = EmptyForkDb(ForkDbSize)
    /\ pending' = <<>>
    /\ session' = FALSE
    /\ pc' = "closed"
    /\ UNCHANGED <<log, popped, job>>

\* The process dies: the memory-mapped state stays as it is, the log keeps
\* what was flushed and any part of the rest, everything else is lost.
Crash ==
    /\ pc \notin {"closed", "torn"}
    /\ \E n \in flushed .. Len(log) : log' = SubSeq(log, 1, n) /\ flushed' = n
    /\ fork_db' = EmptyForkDb(ForkDbSize)
    /\ pending' = <<>>
    /\ session' = FALSE
    /\ popped' = <<>>
    /\ pc' = IF pc = "replay" THEN "torn" ELSE "closed"
    /\ job' = NoJob
    /\ UNCHANGED <<db, undo, revision>>

\* The state that undo_all leaves.
BaseDb == IF undo = <<>> THEN db ELSE undo[1].snapshot

\* The two assertions of open: the revision is the head's number, and the
\* block log has the head block.
CanOpen ==
    /\ revision - Len(undo) = Num[BaseDb.head]
    /\ BaseDb.head # Genesis => InLog(BaseDb.head)

Open ==
    /\ pc \in {"closed", "torn"}
    /\ CanOpen
    /\ db' = BaseDb
    /\ undo' = <<>>
    /\ revision' = revision - Len(undo)
    /\ fork_db' = StartedForkDb(BaseDb.head)
    /\ pc' = "idle"
    /\ UNCHANGED <<log, flushed, pending, session, popped, job>>

\* reindex wipes the state and, unless the log is empty, replays the log on
\* top of the genesis state.
Reindex ==
    /\ pc \in {"closed", "torn"}
    /\ db' = GenesisState
    /\ undo' = <<>>
    /\ revision' = 0
    /\ fork_db' = EmptyForkDb(ForkDbSize)
    /\ pc' = IF log = <<>> THEN "closed" ELSE "replay"
    /\ UNCHANGED <<log, flushed, pending, session, popped, job>>

\* Slip: the revision follows the head during the replay.
ReplayBlock_SetsRevision ==
    /\ pc = "replay"
    /\ HeadNum < Len(log)
    /\ Previous[log[HeadNum + 1]] = db.head
    /\ db' = [AfterBlock(db, log[HeadNum + 1]) EXCEPT !.trxs = {}]
    /\ revision' = HeadNum + 1
    /\ fork_db' = SetMaxSize(fork_db, Num[db'.head] - db'.lib + 1)
    /\ UNCHANGED <<undo, log, flushed, pending, session, popped, pc, job>>

\* A block of the log is applied without an undo session and, the duplicate
\* check being skipped, without noting its transactions; nothing goes to the
\* log, but the size of the empty fork database follows the state.
ReplayBlock ==
    /\ pc = "replay"
    /\ HeadNum < Len(log)
    /\ Previous[log[HeadNum + 1]] = db.head
    /\ db' = [AfterBlock(db, log[HeadNum + 1]) EXCEPT !.trxs = {}]
    /\ fork_db' = SetMaxSize(fork_db, Num[db'.head] - db'.lib + 1)
    /\ UNCHANGED <<undo, revision, log, flushed, pending, session, popped, pc, job>>

\* A block that is not on top of the head is refused, and the process ends.
ReplayFails ==
    /\ pc = "replay"
    /\ HeadNum < Len(log)
    /\ Previous[log[HeadNum + 1]] # db.head
    /\ fork_db' = EmptyForkDb(ForkDbSize)
    /\ pc' = "torn"
    /\ UNCHANGED <<db, undo, revision, log, flushed, pending, session, popped, job>>

\* Only now does the revision follow the head.
EndReplay ==
    /\ pc = "replay"
    /\ HeadNum = Len(log)
    /\ revision' = HeadNum
    /\ fork_db' = StartBlock(fork_db, log[Len(log)])
    /\ pc' = "idle"
    /\ UNCHANGED <<db, undo, log, flushed, pending, session, popped, job>>

Next ==
    \/ \E b \in Blocks : Push(b)
    \/ \E b \in Blocks : Generate(b)
    \/ Pop
    \/ PopFails
    \/ Unwound
    \/ Apply
    \/ ApplyFails
    \/ BranchFails
    \/ AppendToLog
    \/ CommitBlock
    \/ Requeue
    \/ \E t \in Trx : PushTransaction(t)
    \/ Close
    \/ Crash
    \/ Open
    \/ Reindex
    \/ ReplayBlock
    \/ ReplayFails
    \/ EndReplay

Spec == Init /\ [][Next]_vars

\* A call that was started runs on: the steps of push_block and reindex are
\* plain code.
CallStep == Pop \/ PopFails \/ Unwound \/ Apply \/ ApplyFails \/ BranchFails
            \/ AppendToLog \/ CommitBlock \/ Requeue
            \/ ReplayBlock \/ ReplayFails \/ EndReplay

FairSpec == Spec /\ WF_vars(CallStep)

-----------------------------------------------------------------------------
State == [head : Ids, lib : Nat, confirmed : [Witnesses -> Nat], trxs : SUBSET Trx]

\* The last irreversible block number, a subtraction of unsigned numbers in
\* the code, never leaves the naturals; flushed blocks are blocks of the log.
TypeOK ==
    /\ db \in State
    /\ undo \in Seq([snapshot : State, revision : Int])
    /\ revision \in Int
    /\ fork_db \in ForkDb
    /\ log \in Seq(Blocks)
    /\ flushed \in 0 .. Len(log)
    /\ pending \in Seq(Trx)
    /\ session \in BOOLEAN
    /\ popped \in Seq(Trx)
    /\ pc \in {"idle", "pop", "apply", "migrate", "requeue", "replay", "closed", "torn"}
    /\ job.mode \in {"none", "straight", "switch", "restore"}
    /\ job.apply \in Seq(Blocks)
    /\ job.old \in Seq(Blocks)
    /\ job.write \in Seq(Blocks)

\* The heads of the states undo can go back to, and the head itself.
Path == [i \in 1 .. Len(undo) + 1 |-> IF i > Len(undo) THEN db.head ELSE undo[i].snapshot.head]

\* The pending session leaves the head where it is; a crash leaves the
\* session on the stack.
PendingOnTop == undo # <<>> /\ undo[Len(undo)].snapshot.head = db.head

\* The sessions of blocks only.
BlockPath == IF PendingOnTop THEN SubSeq(Path, 1, Len(undo)) ELSE Path

\* A replay is under way or was broken off by a crash.
Replaying == pc \in {"replay", "torn"}

\* The undo history is the chain: each session belongs to one block on top
\* of the block of the session below, and its revision is that block's
\* number, so that commit(last_irreversible_block_num) cuts at the block
\* meant and open finds revision() equal to head_block_num().
UndoHistoryIsChain ==
    ~Replaying =>
       /\ \A i \in 1 .. Len(BlockPath) - 1 : Previous[BlockPath[i + 1]] = BlockPath[i]
       /\ \A i \in 1 .. Len(undo) : undo[i].revision = revision - Len(undo) + i
       /\ revision - Len(undo) = Num[Path[1]]

\* Wherever the process dies, the state it leaves opens again: the committed
\* state is the state of a block that the log has.
OpensAfterCrash ==
    ~Replaying =>
       /\ CanOpen
       /\ Path[1] # Genesis => Num[Path[1]] <= flushed

\* A state that a broken-off replay left half way is never opened: "Chainbase
\* revision does not match head block num".
BrokenReplayRefused == pc = "torn" /\ db.head # Genesis => ~CanOpen

\* The log is one chain from block 1 on, also when a crash came between the
\* append and the commit and the blocks were pushed again afterwards.
LogIsChain ==
    \A i \in 1 .. Len(log) : Previous[log[i]] = IF i = 1 THEN Genesis ELSE log[i - 1]

\* Between calls the blocks that may still be popped or have yet to be
\* written to the log are in the fork database, linked to each other.
ReversibleBlocksKept ==
    pc = "idle" =>
       \A i \in 2 .. Len(BlockPath) :
          /\ BlockPath[i] \in fork_db.index
          /\ i > 2 => BlockPath[i] \in fork_db.linked

\* When a block of a new branch fails, the whole new branch is taken back and
\* the old one is put back to its last block.  (A branch that leaves the chain
\* below the oldest undo session fails before that: see PopFails.)
FailedBranchKeepsHead ==
    pc = "requeue" /\ ~job.ok /\ job.mode = "restore" => db.head = job.head

\* migrate_irreversible_state asserts that the fork database has every block
\* it is about to write: "Current fork in the fork database does not contain
\* the last_irreversible_block".
MigrationFindsBlocks ==
    pc = "apply" /\ BlockApplies(db, NextBlock) =>
       LET after == AfterBlock(db, NextBlock)
       IN  \A i \in 1 .. (after.lib - Len(log)) : ToWrite(ForkDbAtApply, after)[i] \in Blocks

\* "Blocks should only be written to the log after they irreverisble as the
\* log is append only" (block_log.hpp): what is about to be written is the block
\* of the node's own chain.
OnlyIrreversibleWritten ==
    pc = "migrate" /\ job.write # <<>> => Head(job.write) = AncestorAt(db.head, Len(log) + 1)

\* The branch that ends in b stands on the committed state.
OnBase(b) ==
    IF Path[1] = Genesis THEN Reaches(fork_db, b, 1)
    ELSE Num[b] >= Num[Path[1]] /\ ItemAt(fork_db, b, Num[Path[1]]) = Path[1]

\* Between calls, also after a switch that failed, the node knows no block that
\* is higher than its chain, unless it knows one that it cannot get to: one whose
\* branch does not stand on the committed state.
AdoptsLongest ==
    pc = "idle" /\ (\E b \in fork_db.index : Num[b] > HeadNum) =>
       \E b \in fork_db.index : Num[b] > HeadNum /\ ~OnBase(b)

\* _pending_tx is exactly what its session put on top of the head state.
PendingMatchesSession ==
    pc = "idle" =>
       /\ db.trxs = CleanDb.trxs \cup Elements(pending)
       /\ Elements(pending) \cap CleanDb.trxs = {}
       /\ db.head = CleanDb.head

\* No call loses a transaction: what was on the chain or pending before it is
\* so afterwards, unless a transaction now applied rules it out, or the head is
\* now one with which it would be refused whoever sent it: it has expired there,
\* would expire too far from there, or refers to a block that was abandoned.
NoTransactionLost ==
    [][pc = "requeue" /\ pc' = "idle" =>
         \A t \in job.known :
            \/ t \in db'.trxs
            \/ \E u \in db'.trxs : <<u, t>> \in Conflicts
            \/ ~Timely(t, db'.head)]_vars

\* Every call of push_block and every replay comes to an end, unless the
\* process dies.
CallReturns ==
    pc \notin {"idle", "closed", "torn"} ~> pc \in {"idle", "closed", "torn"}

-----------------------------------------------------------------------------
(* Block trees on which the witnesses settle on one chain.                 *)

\* H has the state at the end of every chain of the tree.  No block has to be
\* refused, and blocks of one number that two chains, or a chain and the initial
\* log, have as irreversible are the same.
SettledTree(H) ==
    /\ GenesisState \in H
    /\ \A s \in H, b \in Blocks :
          Previous[b] = s.head => BlockApplies(s, b) /\ AfterBlock(s, b) \in H
    /\ \A s, t \in H : \A n \in 1 .. s.lib :
          n <= t.lib => AncestorAt(s.head, n) = AncestorAt(t.head, n)
    /\ \A s \in H : \A n \in 1 .. Len(InitialLog) :
          n <= s.lib => AncestorAt(s.head, n) = InitialLog[n]
=============================================================================
