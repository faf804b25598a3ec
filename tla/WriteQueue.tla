----------------------------- MODULE WriteQueue -----------------------------
(***************************************************************************)
(* The chain plugin's write queue and chainbase's locks: how the threads   *)
(* of a node share one database.                                           *)
(*                                                                         *)
(* A caller (the p2p thread with a block, an API thread with a             *)
(* transaction) puts a pointer to a write context on its own stack into    *)
(* the queue and waits for the promise in it.  The write thread takes      *)
(* contexts out, writes under the write lock, stores the outcome in the    *)
(* context and keeps the promise; the caller then returns and the context  *)
(* is gone.                                                                *)
(*                                                                         *)
(* Readers take the read side of the current lock.  A writer that waits    *)
(* keeps new readers off its lock; when it has waited too long it leaves   *)
(* that lock to the readers that hold it and goes on with the next one,    *)
(* beside them.  The locks are an array that is gone through in a circle;  *)
(* the next lock is made anew in its place, whoever uses it.               *)
(***************************************************************************)
EXTENDS Integers, Sequences, FiniteSets, SequencesExt

CONSTANTS Callers,      \* threads that write through the queue
          Readers,      \* threads that read
          Chain,        \* the write thread, as a thread of the chain plugin
          None,         \* no context, no lock
          StartOrder,   \* the plugins in the order they start, each the set of its threads
          NumLocks,     \* CHAINBASE_NUM_RW_LOCKS
          MaxTimeouts   \* bound: lock timeouts of the writer

Threads == Callers \cup Readers \cup {Chain}

ASSUME WriteQueueAssumption ==
    /\ IsFiniteSet(Readers)
    /\ Chain \notin Callers \cup Readers
    /\ None \notin Callers \cup Int
    /\ NumLocks \in Nat \ {0}
    /\ MaxTimeouts \in Nat
    /\ StartOrder \in Seq(SUBSET Threads)
    /\ \A t \in Threads : \E i \in 1 .. Len(StartOrder) : t \in StartOrder[i]

VARIABLES
    call,      \* where a caller is: "idle", "waiting", "answered"
    stored,    \* callers whose context holds the outcome of the write
    queue,     \* write_queue: the callers whose contexts are in it
    thread,    \* where the write thread is
    cxt,       \* the caller whose context the write thread has in hand
    syncing,   \* is_syncing
    running,   \* running
    lock,      \* _current_lock
    shared,    \* the number of sharing owners each lock has counted
    claim,     \* the lock the write thread waits for or holds
    wait,      \* the lock a reader waits for
    read,      \* the lock a reader holds
    refused,   \* threads whose plugin takes no more work
    up,        \* running_plugins
    stopping   \* application::shutdown has begun

vars == <<call, stored, queue, thread, cxt, syncing, running, lock, shared, claim, wait, read,
          refused, up, stopping>>

callers == <<call, stored, queue>>
locks   == <<lock, shared>>
readers == <<wait, read>>
plugins == <<running, refused, up, stopping>>

Slots == 0 .. NumLocks - 1

\* current_lock()
CurrentLock == lock % NumLocks

Init ==
    /\ call = [c \in Callers |-> "idle"]
    /\ stored = {}
    /\ queue = <<>>
    /\ thread = "loop"
    /\ cxt = None
    /\ syncing = TRUE
    /\ running = TRUE
    /\ lock = 0
    /\ shared = [n \in Slots |-> 0]
    /\ claim = None
    /\ wait = [r \in Readers |-> None]
    /\ read = [r \in Readers |-> None]
    /\ refused = {}
    /\ up = StartOrder
    /\ stopping = FALSE

-----------------------------------------------------------------------------
(* accept_block, accept_transaction, generate_block.                       *)

Submit(c) ==
    /\ c \notin refused
    /\ call[c] = "idle"
    /\ call' = [call EXCEPT ![c] = "waiting"]
    /\ queue' = Append(queue, c)
    /\ UNCHANGED <<stored, thread, cxt, syncing, locks, claim, readers, plugins>>

\* Slip: the caller waits only for a while.
Return_GivesUp(c) ==
    /\ call[c] # "idle"
    /\ call' = [call EXCEPT ![c] = "idle"]
    /\ stored' = stored \ {c}
    /\ UNCHANGED <<queue, thread, cxt, syncing, locks, claim, readers, plugins>>

\* The promise was kept: the outcome is read, and the context goes.
Return(c) ==
    /\ call[c] = "answered"
    /\ call' = [call EXCEPT ![c] = "idle"]
    /\ stored' = stored \ {c}
    /\ UNCHANGED <<queue, thread, cxt, syncing, locks, claim, readers, plugins>>

-----------------------------------------------------------------------------
(* The write thread.                                                       *)

\* Slip: the thread does not look at running.
CheckRunning_Ever ==
    /\ thread = "loop"
    /\ thread' = "pop"
    /\ UNCHANGED <<callers, cxt, syncing, locks, claim, readers, plugins>>

\* while( running )
CheckRunning ==
    /\ thread = "loop"
    /\ thread' = IF running THEN "pop" ELSE "ended"
    /\ UNCHANGED <<callers, cxt, syncing, locks, claim, readers, plugins>>

PopFirst ==
    /\ thread = "pop"
    /\ IF queue = <<>>
       THEN thread' = "loop" /\ UNCHANGED <<queue, cxt>>
       ELSE thread' = "claim" /\ cxt' = Head(queue) /\ queue' = Tail(queue)
    /\ UNCHANGED <<call, stored, syncing, locks, claim, readers, plugins>>

\* with_write_lock: from now on no new reader gets this lock.
Claim ==
    /\ thread = "claim"
    /\ claim' = CurrentLock
    /\ thread' = "lock"
    /\ UNCHANGED <<callers, cxt, syncing, locks, readers, plugins>>

Acquire ==
    /\ thread = "lock"
    /\ shared[claim] = 0
    /\ thread' = "write"
    /\ UNCHANGED <<callers, cxt, syncing, locks, claim, readers, plugins>>

\* The wait is over: the lock is given up, and next_lock counts on.
Timeout ==
    /\ thread = "lock"
    /\ shared[claim] # 0
    /\ lock < MaxTimeouts
    /\ lock' = lock + 1
    /\ claim' = None
    /\ thread' = "renew"
    /\ UNCHANGED <<callers, cxt, syncing, shared, wait, read, plugins>>

\* The lock that next_lock has made current is made anew: it forgets its owners.
Renew ==
    /\ thread = "renew"
    /\ shared' = [shared EXCEPT ![CurrentLock] = 0]
    /\ thread' = "claim"
    /\ UNCHANGED <<callers, cxt, syncing, lock, claim, readers, plugins>>

\* The request is carried out; success and except go into the context.
Write ==
    /\ thread = "write"
    /\ stored' = stored \cup {cxt}
    /\ thread' = "answer"
    /\ UNCHANGED <<call, queue, cxt, syncing, locks, claim, readers, plugins>>

\* set_value(); then sync mode may come to its end.
Answer ==
    /\ thread = "answer"
    /\ call' = [call EXCEPT ![cxt] = "answered"]
    /\ cxt' = None
    /\ syncing' \in {syncing, FALSE}
    /\ thread' = "next"
    /\ UNCHANGED <<stored, queue, locks, claim, readers, plugins>>

\* Slip: the hold time is looked at after the next context was popped.
NextWrite_ThenBreak ==
    /\ thread = "next"
    /\ queue # <<>>
    /\ queue' = Tail(queue)
    /\ \/ thread' = "write" /\ cxt' = Head(queue) /\ UNCHANGED claim
       \/ ~syncing /\ thread' = "loop" /\ claim' = None /\ UNCHANGED cxt
    /\ UNCHANGED <<call, stored, syncing, locks, readers, plugins>>

\* The next context is written under the same lock.
NextWrite ==
    /\ thread = "next"
    /\ queue # <<>>
    /\ cxt' = Head(queue)
    /\ queue' = Tail(queue)
    /\ thread' = "write"
    /\ UNCHANGED <<call, stored, syncing, locks, claim, readers, plugins>>

\* The queue is empty or, in live mode, the lock was held long enough.
Release ==
    /\ thread = "next"
    /\ queue = <<>> \/ ~syncing
    /\ claim' = None
    /\ thread' = "loop"
    /\ UNCHANGED <<callers, cxt, syncing, locks, readers, plugins>>

-----------------------------------------------------------------------------
(* with_read_lock.                                                         *)

\* The reference to the current lock is taken once.
EnterRead(r) ==
    /\ r \notin refused
    /\ wait[r] = None /\ read[r] = None
    /\ wait' = [wait EXCEPT ![r] = CurrentLock]
    /\ UNCHANGED <<callers, thread, cxt, syncing, locks, claim, read, plugins>>

\* A lock made anew under its owners counts below zero, that is to the
\* highest number of owners it can have.
Full(n) == shared[n] = -1

\* Slip: a reader does not make way for the writer.
AcquireRead_Barges(r) ==
    /\ wait[r] # None
    /\ read' = [read EXCEPT ![r] = wait[r]]
    /\ shared' = [shared EXCEPT ![wait[r]] = @ + 1]
    /\ wait' = [wait EXCEPT ![r] = None]
    /\ UNCHANGED <<callers, thread, cxt, syncing, lock, claim, plugins>>

AcquireRead(r) ==
    /\ wait[r] \notin {None, claim}
    /\ ~Full(wait[r])
    /\ read' = [read EXCEPT ![r] = wait[r]]
    /\ shared' = [shared EXCEPT ![wait[r]] = @ + 1]
    /\ wait' = [wait EXCEPT ![r] = None]
    /\ UNCHANGED <<callers, thread, cxt, syncing, lock, claim, plugins>>

\* lock_exception
ReadTimeout(r) ==
    /\ wait[r] # None
    /\ wait[r] = claim \/ Full(wait[r])
    /\ wait' = [wait EXCEPT ![r] = None]
    /\ UNCHANGED <<callers, thread, cxt, syncing, locks, claim, read, plugins>>

EndRead(r) ==
    /\ read[r] # None
    /\ shared' = [shared EXCEPT ![read[r]] = @ - 1]
    /\ read' = [read EXCEPT ![r] = None]
    /\ UNCHANGED <<callers, thread, cxt, syncing, lock, claim, wait, plugins>>

-----------------------------------------------------------------------------
(* application::shutdown: the plugins in the reverse order of their start. *)

BeginShutdown ==
    /\ ~stopping
    /\ stopping' = TRUE
    /\ UNCHANGED <<callers, thread, cxt, syncing, running, locks, claim, readers, refused, up>>

\* plugin_shutdown of the last plugin: its threads take no more work.
ShutDown ==
    /\ stopping /\ up # <<>>
    /\ ~(Last(up) \subseteq refused)
    /\ refused' = refused \cup Last(up)
    /\ running' = (running /\ Chain \notin Last(up))
    /\ UNCHANGED <<callers, thread, cxt, syncing, locks, claim, readers, up, stopping>>

Idle(t) ==
    /\ t \in Callers => call[t] = "idle"
    /\ t \in Readers => wait[t] = None /\ read[t] = None
    /\ t = Chain => thread = "ended"

\* Slip: the plugin is gone before its threads are.
Join_NoWait ==
    /\ stopping /\ up # <<>>
    /\ Last(up) \subseteq refused
    /\ up' = Front(up)
    /\ UNCHANGED <<callers, thread, cxt, syncing, running, locks, claim, readers, refused, stopping>>

\* The plugin's threads have been joined.
Join ==
    /\ stopping /\ up # <<>>
    /\ Last(up) \subseteq refused
    /\ \A t \in Last(up) : Idle(t)
    /\ up' = Front(up)
    /\ UNCHANGED <<callers, thread, cxt, syncing, running, locks, claim, readers, refused, stopping>>

WriterStep == CheckRunning \/ PopFirst \/ Claim \/ Acquire \/ Timeout \/ Renew \/ Write
              \/ Answer \/ NextWrite \/ Release

Next ==
    \/ \E c \in Callers : Submit(c)
    \/ \E c \in Callers : Return(c)
    \/ CheckRunning
    \/ PopFirst
    \/ Claim
    \/ Acquire
    \/ Timeout
    \/ Renew
    \/ Write
    \/ Answer
    \/ NextWrite
    \/ Release
    \/ \E r \in Readers : EnterRead(r)
    \/ \E r \in Readers : AcquireRead(r)
    \/ \E r \in Readers : ReadTimeout(r)
    \/ \E r \in Readers : EndRead(r)
    \/ BeginShutdown
    \/ ShutDown
    \/ Join

Spec == Init /\ [][Next]_vars

\* Threads that can run do; nothing makes a caller call, a reader read or
\* the operator shut the node down.
FairSpec ==
    /\ Spec
    /\ WF_vars(WriterStep)
    /\ \A c \in Callers : WF_vars(Return(c))
    /\ \A r \in Readers : WF_vars(AcquireRead(r) \/ ReadTimeout(r)) /\ WF_vars(EndRead(r))
    /\ WF_vars(ShutDown \/ Join)

-----------------------------------------------------------------------------
InHand == {"claim", "lock", "renew", "write", "answer"}

\* A context the write thread has in hand, or will take from the queue, is
\* still on the stack of a waiting caller, and it is there once: "it is the
\* caller's responsibility to ensure the pointer to the write context remains
\* valid until the contained promise is complete".  A caller that goes on finds
\* the outcome of its write in the context.
ContextAlive ==
    /\ \A c \in Callers : call[c] = "answered" => c \in stored
    /\ \A i \in 1 .. Len(queue) : call[queue[i]] = "waiting"
    /\ \A i, j \in 1 .. Len(queue) : i # j => queue[i] # queue[j]
    /\ thread \in InHand =>
          call[cxt] = "waiting" /\ \A i \in 1 .. Len(queue) : queue[i] # cxt

Writing == thread \in {"write", "answer", "next"}

\* As long as no wait for the write lock has run out, no read goes on beside a
\* write (with_read_lock, with_write_lock).
WriterExcludesReaders ==
    Writing /\ lock = 0 => \A r \in Readers : read[r] = None

\* When chain_plugin::plugin_shutdown has closed the database, nobody waits for
\* it, reads it or writes it.
ClosedAlone ==
    (\A i \in 1 .. Len(up) : Chain \notin up[i]) => queue = <<>> /\ \A t \in Threads : Idle(t)

\* No lock that was made anew has been released by an owner it forgot, which
\* takes its count below zero.
CountsRight == \A s \in Slots : shared[s] >= 0

\* Every write that was submitted is answered, also when a shutdown begins at
\* any moment and when the writer's wait for the lock runs out.
EveryCallAnswered ==
    []CountsRight => \A c \in Callers : call[c] = "waiting" ~> call[c] = "answered"

\* A shutdown comes to its end.
ShutdownEnds == []CountsRight => (stopping ~> up = <<>>)
=============================================================================
