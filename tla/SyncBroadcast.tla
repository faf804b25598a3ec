---------------------------- MODULE SyncBroadcast ----------------------------
(***************************************************************************)
(* condenser_api's broadcast_transaction_synchronous: an API thread hands  *)
(* a transaction to the chain and waits until it is in a block or expired. *)
(*                                                                         *)
(* The thread keeps a promise on its stack and leaves a callback to it in  *)
(* a table under the transaction's id; the write thread, in its handler    *)
(* for every applied block, calls the callbacks of the transactions the    *)
(* block holds and of those that expired before it.  The mutex on the      *)
(* table is held only for the table: what a thread does under it is one    *)
(* step here.  The chain is the blocks the write thread has applied; it    *)
(* takes some back when it goes on along another branch, and a block whose *)
(* handlers have run when the move to the block log fails after them.      *)
(***************************************************************************)
EXTENDS Integers, Sequences, FiniteSets, SequencesExt

CONSTANTS Callers,      \* threads of the web server
          Txs,          \* transactions, by their ids
          Expiration,   \* the time each transaction expires
          None,         \* no caller, no transaction, no answer
          MaxTime,      \* bound: the time of the last block
          MaxTakenBack  \* bound: how often blocks are taken back

ASSUME SyncBroadcastAssumption ==
    /\ None \notin Callers \cup Txs \cup {"confirmed", "expired"}
    /\ MaxTime \in Nat /\ MaxTakenBack \in Nat
    /\ Expiration \in [Txs -> 1 .. MaxTime - 1]

VARIABLES
    chain,        \* the blocks, each with its timestamp and its transactions
    fork,         \* during a switch: the length of the chain below the fork
    target,       \* and the length the branch must reach; otherwise 0
    takenBack,    \* how often blocks were taken back so far
    applied,      \* the last block's handlers have not run yet
    migrating,    \* they have, and migrate_irreversible_state has not
    pending,      \* _pending_tx and, during a switch, _popped_tx
    call,         \* where a caller is
    tx,           \* the transaction of its call
    promise,      \* what its promise was set to
    shaken,       \* callers answered before blocks were taken back: only there to
                  \* state a property
    callbacks,    \* _callbacks: for each transaction the caller whose promise it sets
    expirations   \* _callback_expirations: the transactions listed in it

chainVars == <<chain, fork, target, takenBack, applied, migrating, pending>>
tables    == <<callbacks, expirations>>
vars      == <<chainVars, call, tx, promise, shaken, tables>>

TxsOf(blocks) == UNION {blocks[i].txs : i \in 1 .. Len(blocks)}
HeadTime == IF chain = <<>> THEN 0 ELSE Last(chain).time

\* Neither a duplicate nor expired: what _apply_transaction asks of every
\* transaction, whatever its operations do.
Admissible(x) == x \notin TxsOf(chain) /\ HeadTime < Expiration[x]

Init ==
    /\ chain = <<>> /\ fork = 0 /\ target = 0 /\ takenBack = 0
    /\ applied = FALSE /\ migrating = FALSE
    /\ pending = {}
    /\ call = [c \in Callers |-> "idle"]
    /\ tx = [c \in Callers |-> None]
    /\ promise = [c \in Callers |-> None]
    /\ shaken = {}
    /\ callbacks = [x \in Txs |-> None]
    /\ expirations = {}

-----------------------------------------------------------------------------
(* The calling thread.                                                     *)

\* Slip: the mutex is kept while the transaction is accepted.
Holding_OverAccept(c) == call[c] = "accept"

\* The callers that hold _mtx between their steps: none.
Holding(c) == FALSE

MutexFree == \A c \in Callers : ~Holding(c)

\* A transaction somebody waits for already is refused: "Transaction is a
\* duplicate" leaves everything as it is.
Register(c, x) ==
    /\ call[c] = "idle"
    /\ MutexFree
    /\ callbacks[x] = None
    /\ callbacks' = [callbacks EXCEPT ![x] = c]
    /\ expirations' = expirations \cup {x}
    /\ call' = [call EXCEPT ![c] = "accept"]
    /\ tx' = [tx EXCEPT ![c] = x]
    /\ UNCHANGED <<chainVars, promise, shaken>>

\* The write thread has carried out its last write and the database is as it
\* leaves it.
WriterIdle == ~applied /\ ~migrating /\ target = 0

\* chain_plugin::accept_transaction returns: the write thread has pushed it.
Accept(c) ==
    /\ call[c] = "accept"
    /\ WriterIdle
    /\ tx[c] \notin pending /\ Admissible(tx[c])
    /\ pending' = pending \cup {tx[c]}
    /\ call' = [call EXCEPT ![c] = "broadcast"]
    /\ UNCHANGED <<chain, fork, target, takenBack, applied, migrating, tx, promise, shaken, tables>>

\* It throws: a duplicate, an expired transaction, or one whose signatures or
\* operations are not valid in this state.
Reject(c) ==
    /\ call[c] = "accept"
    /\ WriterIdle
    /\ call' = [call EXCEPT ![c] = "failed"]
    /\ UNCHANGED <<chainVars, tx, promise, shaken, tables>>

\* p2p_plugin::broadcast_transaction returns or throws.
Broadcast(c) ==
    /\ call[c] = "broadcast"
    /\ \E next \in {"waiting", "failed"} : call' = [call EXCEPT ![c] = next]
    /\ UNCHANGED <<chainVars, tx, promise, shaken, tables>>

Ended(c) ==
    /\ call' = [call EXCEPT ![c] = "idle"]
    /\ tx' = [tx EXCEPT ![c] = None]
    /\ promise' = [promise EXCEPT ![c] = None]
    /\ shaken' = shaken \ {c}

\* Slip: the error path leaves the callback to the next block.
Catch_LeavesCallback(c) ==
    /\ call[c] = "failed"
    /\ Ended(c)
    /\ UNCHANGED <<chainVars, tables>>

\* The two catch blocks: the callback under this id is erased, the exception
\* is thrown on and the promise goes with the stack.
Catch(c) ==
    /\ call[c] = "failed"
    /\ MutexFree
    /\ callbacks' = [callbacks EXCEPT ![tx[c]] = None]
    /\ Ended(c)
    /\ UNCHANGED <<chainVars, expirations>>

\* The future is ready.
Return(c) ==
    /\ call[c] = "waiting"
    /\ promise[c] # None
    /\ Ended(c)
    /\ UNCHANGED <<chainVars, tables>>

-----------------------------------------------------------------------------
(* The write thread.                                                       *)

\* A block is applied, up to the notification.  Enough slots are left for the
\* rest of a switch.
ApplyBlock ==
    /\ ~applied /\ ~migrating
    /\ \E time \in HeadTime + 1 .. MaxTime - Max({0, target - Len(chain) - 1}),
          txs \in SUBSET {x \in Txs : Admissible(x)} :
           chain' = Append(chain, [time |-> time, txs |-> txs])
    /\ applied' = TRUE
    /\ UNCHANGED <<fork, target, takenBack, migrating, pending, call, tx, promise, shaken, tables>>

\* on_post_apply_block: the entries at the front of _callback_expirations.
ExpiredBefore(time) == {x \in expirations : Expiration[x] < time}

\* Slip: the callbacks of expired transactions are called first.
Answers_ExpiredFirst(b) ==
    [x \in {y \in b.txs \cup ExpiredBefore(b.time) : callbacks[y] # None} |->
        IF x \in ExpiredBefore(b.time) THEN "expired" ELSE "confirmed"]

\* The callbacks that are called, and with what: a transaction of the block
\* has lost its callback when the expired ones are looked through.
Answers(b) ==
    [x \in {y \in b.txs \cup ExpiredBefore(b.time) : callbacks[y] # None} |->
        IF x \in b.txs THEN "confirmed" ELSE "expired"]

OnPostApplyBlock ==
    LET b == Last(chain)
    IN  /\ applied
        /\ MutexFree
        /\ promise' = [c \in Callers |->
               IF \E x \in DOMAIN Answers(b) : callbacks[x] = c
               THEN Answers(b)[tx[c]] ELSE promise[c]]
        /\ callbacks' = [x \in Txs |-> IF x \in DOMAIN Answers(b) THEN None ELSE callbacks[x]]
        /\ expirations' = expirations \ ExpiredBefore(b.time)
        /\ applied' = FALSE /\ migrating' = TRUE
        /\ UNCHANGED <<chain, fork, target, takenBack, pending, call, tx, shaken>>

\* A push is over: the pending and the popped transactions are pushed again, and
\* the ones that no longer apply are dropped.
Restore ==
    /\ pending' \in SUBSET pending
    /\ \A x \in pending' : Admissible(x)'
    /\ fork' = 0 /\ target' = 0

\* migrate_irreversible_state succeeds, and with the last block of a push the
\* push is over.
Migrate ==
    /\ migrating
    /\ migrating' = FALSE
    /\ UNCHANGED <<chain, takenBack, applied, call, tx, promise, shaken, tables>>
    /\ IF Len(chain) >= target THEN Restore ELSE UNCHANGED <<fork, target, pending>>

\* Blocks are taken back, and with them what callers were told so far.
TakeBackTo(n) ==
    /\ takenBack < MaxTakenBack
    /\ takenBack' = takenBack + 1
    /\ chain' = SubSeq(chain, 1, n)
    /\ shaken' = {c \in Callers : promise[c] # None}
    /\ UNCHANGED <<applied, call, tx, promise, tables>>

\* migrate_irreversible_state throws for a block on top of the head: its session
\* is undone and the push is over.
MigrationFails ==
    /\ migrating
    /\ target = 0
    /\ TakeBackTo(Len(chain) - 1)
    /\ Restore
    /\ migrating' = FALSE

\* The blocks above the fork are popped, their transactions kept to be pushed
\* again; the new branch follows before the write thread does anything else.
SwitchForks ==
    /\ WriterIdle
    /\ target' = Len(chain)
    /\ \E n \in 0 .. Len(chain) - 1 :
           /\ fork' = n
           /\ TakeBackTo(n)
           /\ pending' = pending \cup TxsOf(SubSeq(chain, n + 1, Len(chain)))
    /\ UNCHANGED migrating

\* A block of the new branch fails, before its handlers or after them: what was
\* applied of the branch is popped, and the old branch, some blocks of the same
\* number here, is put back.
BranchFails ==
    /\ ~applied
    /\ fork < Len(chain)
    /\ target # 0
    /\ LET applying == IF migrating THEN Len(chain) - 1 ELSE Len(chain)
       IN  pending' = pending \cup TxsOf(SubSeq(chain, fork + 1, applying))
    /\ TakeBackTo(fork)
    /\ migrating' = FALSE
    /\ UNCHANGED <<fork, target>>

Next ==
    \/ \E c \in Callers, x \in Txs : Register(c, x)
    \/ \E c \in Callers : Accept(c)
    \/ \E c \in Callers : Reject(c)
    \/ \E c \in Callers : Broadcast(c)
    \/ \E c \in Callers : Catch(c)
    \/ \E c \in Callers : Return(c)
    \/ ApplyBlock
    \/ OnPostApplyBlock
    \/ Migrate
    \/ MigrationFails
    \/ SwitchForks
    \/ BranchFails

Spec == Init /\ [][Next]_vars

\* Threads that can run do, and witnesses keep producing blocks; nothing makes
\* a client send a transaction.
FairSpec ==
    /\ Spec
    /\ \A c \in Callers :
           WF_vars(Accept(c) \/ Reject(c) \/ Broadcast(c) \/ Catch(c) \/ Return(c))
    /\ WF_vars(ApplyBlock \/ OnPostApplyBlock \/ Migrate)

-----------------------------------------------------------------------------
InCall(c) == call[c] # "idle"

\* A thread that waits has its callback in the table until it is answered.
WaiterHasCallback ==
    \A c \in Callers : call[c] = "waiting" /\ promise[c] = None => callbacks[tx[c]] = c

\* A callback in the table sets a promise that is on the stack of a call for
\* that transaction and was not set before: on_post_apply_block, in the write
\* thread, neither writes to a stack that is gone nor throws
\* promise_already_satisfied into the block's application.  And as long as no
\* block was taken back, the erase in the error path of one call never takes
\* away the callback of another that came in between with the same
\* transaction.
CallbacksMatchCalls ==
    /\ \A x \in Txs : callbacks[x] # None =>
           tx[callbacks[x]] = x /\ promise[callbacks[x]] = None
    /\ takenBack = 0 => WaiterHasCallback

\* What a client is told is true, and stays true until blocks are taken back: what
\* was confirmed is in the chain, and there only once, what expired is not and never
\* gets into it.  That holds of every answer, also of one given after a switch or
\* after a block was taken back because the move to the block log failed.
AnswerStands ==
    \A c \in Callers \ shaken : call[c] = "waiting" =>
        /\ promise[c] = "confirmed" =>
               Cardinality({i \in DOMAIN chain : tx[c] \in chain[i].txs}) = 1
        /\ promise[c] = "expired" => tx[c] \notin TxsOf(chain)

\* Every call ends unless another call's error path has taken its callback.
CallEnds ==
    \A c \in Callers : InCall(c) ~> (~InCall(c) \/ ~WaiterHasCallback)
=============================================================================
