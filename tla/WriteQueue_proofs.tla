-------------------------- MODULE WriteQueue_proofs --------------------------
(***************************************************************************)
(* Proofs about WriteQueue for any number of callers, readers and locks,   *)
(* any number of lock timeouts and any order of plugins.                   *)
(***************************************************************************)
EXTENDS WriteQueue, FiniteSetTheorems, TLAPS

-----------------------------------------------------------------------------
(* Types.                                                                  *)

Stations == {"loop", "pop", "claim", "lock", "renew", "write", "answer", "next", "ended"}

TypeOK ==
    /\ call \in [Callers -> {"idle", "waiting", "answered"}]
    /\ stored \in SUBSET Callers
    /\ queue \in Seq(Callers)
    /\ thread \in Stations
    /\ thread \in InHand => cxt \in Callers
    /\ lock \in Nat
    /\ shared \in [Slots -> Int]
    /\ thread \in {"lock", "write", "answer", "next"} => claim \in Slots
    /\ wait \in [Readers -> Slots \cup {None}]
    /\ read \in [Readers -> Slots \cup {None}]

LEMMA SlotsAre ==
    ASSUME NEW n \in Nat
    PROVE  n % NumLocks \in Slots /\ (n = 0 => n % NumLocks = 0) /\ 0 \in Slots /\ None \notin Slots
<1>1. NumLocks \in Nat \ {0} /\ None \notin Int
  BY WriteQueueAssumption
<1>2. n % NumLocks \in 0 .. NumLocks - 1
  BY <1>1
<1>3. n = 0 => n % NumLocks = 0
  BY <1>1
<1> QED BY <1>1, <1>2, <1>3 DEF Slots

\* Setting one entry of a counter table leaves it a counter table.
LEMMA ResetEntry ==
    ASSUME NEW S, NEW f \in [S -> Int], NEW k
    PROVE  [f EXCEPT ![k] = 0] \in [S -> Int]
<1> DEFINE g == [f EXCEPT ![k] = 0]
<1>1. g = [x \in S |-> IF x = k THEN 0 ELSE f[x]]
  BY Zenon
<1>2. ASSUME NEW x \in S PROVE (IF x = k THEN 0 ELSE f[x]) \in Int
  OBVIOUS
<1> QED BY <1>1, <1>2, Zenon

LEMMA InitTypeOK == Init => TypeOK
<1> SUFFICES ASSUME Init PROVE TypeOK
  OBVIOUS
<1>1. <<>> \in Seq(Callers)
  OBVIOUS
<1> QED BY <1>1 DEF Init, TypeOK, Stations, InHand

LEMMA NextTypeOK ==
    ASSUME TypeOK, [Next]_vars
    PROVE  TypeOK'
<1> USE DEF callers, locks, readers, plugins
<1>1. ASSUME NEW c \in Callers, Submit(c) PROVE TypeOK'
  BY <1>1 DEF Submit, TypeOK
<1>2. ASSUME NEW c \in Callers, Return(c) PROVE TypeOK'
  BY <1>2 DEF Return, TypeOK
<1>3. CASE CheckRunning
  BY <1>3 DEF CheckRunning, TypeOK, Stations, InHand
<1>4. CASE PopFirst
  <2>1. CASE queue = <<>>
    BY <1>4, <2>1 DEF PopFirst, TypeOK, Stations, InHand
  <2>2. CASE queue # <<>>
    <3>1. Head(queue) \in Callers /\ Tail(queue) \in Seq(Callers)
      BY <2>2 DEF TypeOK
    <3> QED BY <1>4, <2>2, <3>1 DEF PopFirst, TypeOK, Stations, InHand
  <2> QED BY <2>1, <2>2
<1>5. CASE Claim
  BY <1>5, SlotsAre DEF Claim, TypeOK, Stations, InHand, CurrentLock
<1>6. CASE Acquire
  BY <1>6 DEF Acquire, TypeOK, Stations, InHand
<1>7. CASE Timeout
  BY <1>7 DEF Timeout, TypeOK, Stations, InHand
<1>8. CASE Renew
  <2>1. shared' = [shared EXCEPT ![CurrentLock] = 0]
    BY <1>8 DEF Renew
  <2>2. shared' \in [Slots -> Int]
    BY <2>1, ResetEntry DEF TypeOK
  <2> QED BY <1>8, <2>2 DEF Renew, TypeOK, Stations, InHand
<1>9. CASE Write
  BY <1>9 DEF Write, TypeOK, Stations, InHand
<1>10. CASE Answer
  BY <1>10 DEF Answer, TypeOK, Stations, InHand
<1>11. CASE NextWrite
  BY <1>11 DEF NextWrite, TypeOK, Stations, InHand
<1>12. CASE Release
  BY <1>12 DEF Release, TypeOK, Stations, InHand
<1>13. ASSUME NEW r \in Readers, EnterRead(r) PROVE TypeOK'
  BY <1>13, SlotsAre DEF EnterRead, TypeOK, CurrentLock
<1>14. ASSUME NEW r \in Readers, AcquireRead(r) PROVE TypeOK'
  BY <1>14 DEF AcquireRead, TypeOK
<1>15. ASSUME NEW r \in Readers, ReadTimeout(r) PROVE TypeOK'
  BY <1>15 DEF ReadTimeout, TypeOK
<1>16. ASSUME NEW r \in Readers, EndRead(r) PROVE TypeOK'
  BY <1>16 DEF EndRead, TypeOK
<1>17. CASE BeginShutdown
  BY <1>17 DEF BeginShutdown, TypeOK
<1>18. CASE ShutDown
  BY <1>18 DEF ShutDown, TypeOK
<1>19. CASE Join
  BY <1>19 DEF Join, TypeOK
<1>20. CASE UNCHANGED vars
  BY <1>20 DEF vars, TypeOK
<1> QED BY <1>1, <1>2, <1>3, <1>4, <1>5, <1>6, <1>7, <1>8, <1>9, <1>10, <1>11, <1>12, <1>13,
           <1>14, <1>15, <1>16, <1>17, <1>18, <1>19, <1>20 DEF Next

LEMMA Typing == Spec => []TypeOK
<1>1. TypeOK /\ [Next]_vars => TypeOK'
  BY NextTypeOK
<1> QED BY <1>1, InitTypeOK, PTL DEF Spec

-----------------------------------------------------------------------------
(* Contexts.                                                               *)

\* What ContextAlive needs besides: an outcome that is about to be handed over
\* is in its context.
Contexts == ContextAlive /\ (thread = "answer" => cxt \in stored)

LEMMA NextContexts ==
    ASSUME TypeOK, Contexts, [Next]_vars
    PROVE  Contexts'
<1> USE DEF callers, locks, readers, plugins
<1> PICK n \in Nat : n = Len(queue)
  BY DEF TypeOK
<1>1. /\ \A c \in Callers : call[c] = "answered" => c \in stored
      /\ \A i \in 1 .. n : queue[i] \in Callers /\ call[queue[i]] = "waiting"
      /\ \A i, j \in 1 .. n : i # j => queue[i] # queue[j]
      /\ thread \in InHand => cxt \in Callers /\ call[cxt] = "waiting" /\ \A i \in 1 .. n : queue[i] # cxt
      /\ thread = "answer" => cxt \in stored
  BY DEF Contexts, ContextAlive, TypeOK
<1>2. ASSUME UNCHANGED <<call, stored, queue, cxt>>,
             thread' \in InHand => thread \in InHand, thread' = "answer" => thread = "answer"
      PROVE  Contexts'
  BY <1>2 DEF Contexts, ContextAlive
<1>3. ASSUME NEW c \in Callers, Submit(c) PROVE Contexts'
  <2>1. /\ queue' \in Seq(Callers) /\ Len(queue') = n + 1 /\ queue'[n + 1] = c
        /\ \A i \in 1 .. n : queue'[i] = queue[i]
    BY <1>3 DEF Submit, TypeOK
  <2>2. /\ call[c] = "idle" /\ call'[c] = "waiting"
        /\ \A d \in Callers : d # c => call'[d] = call[d]
        /\ UNCHANGED <<stored, thread, cxt>>
    BY <1>3 DEF Submit, TypeOK
  <2>3. \A i \in 1 .. n : queue[i] # c
    BY <1>1, <2>2
  <2>4. ASSUME NEW i \in 1 .. n + 1 PROVE call'[queue'[i]] = "waiting"
    <3>1. CASE i = n + 1
      BY <2>1, <2>2, <3>1
    <3>2. CASE i \in 1 .. n
      BY <1>1, <2>1, <2>2, <2>3, <3>2
    <3> QED BY <3>1, <3>2
  <2>5. ASSUME NEW i \in 1 .. n + 1, NEW j \in 1 .. n + 1, i # j PROVE queue'[i] # queue'[j]
    <3>1. CASE i = n + 1
      <4>1. j \in 1 .. n
        BY <2>5, <3>1
      <4> QED BY <2>1, <2>3, <3>1, <4>1
    <3>2. CASE j = n + 1
      <4>1. i \in 1 .. n
        BY <2>5, <3>2
      <4> QED BY <2>1, <2>3, <3>2, <4>1
    <3>3. CASE i \in 1 .. n /\ j \in 1 .. n
      BY <1>1, <2>1, <2>5, <3>3
    <3> QED BY <3>1, <3>2, <3>3
  <2>6. ASSUME thread' \in InHand
        PROVE  call'[cxt'] = "waiting" /\ \A i \in 1 .. n + 1 : queue'[i] # cxt'
    <3>1. cxt' = cxt /\ cxt \in Callers /\ call[cxt] = "waiting" /\ cxt # c
      BY <1>1, <2>2, <2>6
    <3>2. ASSUME NEW i \in 1 .. n + 1 PROVE queue'[i] # cxt
      <4>1. CASE i = n + 1
        BY <2>1, <3>1, <4>1
      <4>2. CASE i \in 1 .. n
        BY <1>1, <2>1, <2>2, <2>6, <4>2
      <4> QED BY <4>1, <4>2
    <3> QED BY <2>2, <3>1, <3>2
  <2>7. \A d \in Callers : call'[d] = "answered" => d \in stored'
    BY <1>1, <2>2
  <2>8. thread' = "answer" => cxt' \in stored'
    BY <1>1, <2>2
  <2> QED BY <2>1, <2>4, <2>5, <2>6, <2>7, <2>8 DEF Contexts, ContextAlive
<1>4. ASSUME NEW c \in Callers, Return(c) PROVE Contexts'
  <2>1. /\ call[c] = "answered" /\ call'[c] = "idle" /\ stored' = stored \ {c}
        /\ \A d \in Callers : d # c => call'[d] = call[d]
        /\ UNCHANGED <<queue, thread, cxt>>
    BY <1>4 DEF Return, TypeOK
  <2>2. \A i \in 1 .. n : queue[i] # c
    BY <1>1, <2>1
  <2>3. thread \in InHand => cxt # c
    BY <1>1, <2>1
  <2>4. thread = "answer" => thread \in InHand
    BY DEF InHand
  <2> QED BY <1>1, <2>1, <2>2, <2>3, <2>4 DEF Contexts, ContextAlive
\* A context is taken out of the queue.
<1>5. ASSUME queue # <<>>, cxt' = Head(queue), queue' = Tail(queue), UNCHANGED <<call, stored>>,
             thread' # "answer"
      PROVE  Contexts'
  <2>1. /\ n >= 1 /\ cxt' = queue[1] /\ Len(queue') = n - 1
        /\ \A i \in 1 .. n - 1 : queue'[i] = queue[i + 1]
    BY <1>5 DEF TypeOK
  <2>2. ASSUME NEW i \in 1 .. n - 1
        PROVE  /\ call[queue'[i]] = "waiting" /\ queue'[i] # cxt'
               /\ \A j \in 1 .. n - 1 : i # j => queue'[i] # queue'[j]
    <3>1. i + 1 \in 1 .. n /\ i + 1 # 1 /\ 1 \in 1 .. n
      BY <2>1
    <3>2. \A j \in 1 .. n - 1 : j + 1 \in 1 .. n /\ (i # j => i + 1 # j + 1)
      BY <2>1
    <3> QED BY <1>1, <2>1, <3>1, <3>2
  <2>3. call[cxt'] = "waiting"
    BY <1>1, <2>1
  <2> QED BY <1>1, <1>5, <2>1, <2>2, <2>3 DEF Contexts, ContextAlive
<1>6. CASE PopFirst
  <2>1. CASE queue = <<>>
    BY <1>2, <1>6, <2>1 DEF PopFirst, InHand
  <2>2. CASE queue # <<>>
    BY <1>5, <1>6, <2>2 DEF PopFirst
  <2> QED BY <2>1, <2>2
<1>7. CASE NextWrite
  BY <1>5, <1>7 DEF NextWrite
<1>8. CASE CheckRunning \/ Claim \/ Acquire \/ Timeout \/ Renew \/ Release
  BY <1>2, <1>8 DEF CheckRunning, Claim, Acquire, Timeout, Renew, Release, InHand
<1>9. CASE Write
  <2>1. /\ thread \in InHand /\ thread' = "answer" /\ stored' = stored \cup {cxt}
        /\ UNCHANGED <<call, queue, cxt>>
    BY <1>9 DEF Write, InHand
  <2> QED BY <1>1, <2>1 DEF Contexts, ContextAlive
<1>10. CASE Answer
  <2>1. /\ thread = "answer" /\ thread \in InHand /\ thread' \notin InHand /\ thread' # "answer"
        /\ call' = [call EXCEPT ![cxt] = "answered"] /\ UNCHANGED <<stored, queue>>
    BY <1>10 DEF Answer, InHand
  <2>2. /\ call'[cxt] = "answered" /\ \A d \in Callers : d # cxt => call'[d] = call[d]
    BY <1>1, <2>1 DEF TypeOK
  <2> QED BY <1>1, <2>1, <2>2 DEF Contexts, ContextAlive
<1>11. ASSUME NEW r \in Readers,
              EnterRead(r) \/ AcquireRead(r) \/ ReadTimeout(r) \/ EndRead(r)
       PROVE  Contexts'
  BY <1>2, <1>11 DEF EnterRead, AcquireRead, ReadTimeout, EndRead
<1>12. CASE BeginShutdown \/ ShutDown \/ Join
  BY <1>2, <1>12 DEF BeginShutdown, ShutDown, Join
<1>13. CASE UNCHANGED vars
  BY <1>2, <1>13 DEF vars
<1> QED BY <1>3, <1>4, <1>6, <1>7, <1>8, <1>9, <1>10, <1>11, <1>12, <1>13 DEF Next

\* The write thread never follows a pointer to a context that is gone or that
\* it has followed before, and a caller that goes on finds the outcome of its
\* write (write_processing_thread, accept_block, accept_transaction), for any
\* number of threads and whenever timeouts, reads and a shutdown come.
THEOREM ContextsStayAlive == Spec => []ContextAlive
<1>1. Init => Contexts
  BY DEF Init, Contexts, ContextAlive, InHand
<1>2. TypeOK /\ Contexts /\ [Next]_vars => Contexts'
  BY NextContexts
<1>3. Contexts => ContextAlive
  BY DEF Contexts
<1> QED BY <1>1, <1>2, <1>3, Typing, PTL DEF Spec

-----------------------------------------------------------------------------
(* Locks.                                                                  *)

Reading == {r \in Readers : read[r] # None}

\* Before the first timeout there is one lock; it counts the readers, and the
\* write thread has found it free when it writes.
FirstLock ==
    lock = 0 =>
        /\ thread # "renew"
        /\ \A r \in Readers : /\ wait[r] \in {None, 0} /\ read[r] \in {None, 0}
                              /\ wait[r] = None \/ read[r] = None
        /\ shared[0] = Cardinality(Reading)
        /\ thread \in {"lock", "write", "answer", "next"} => claim = 0
        /\ Writing => shared[0] = 0

LEMMA ReadingFinite == IsFiniteSet(Reading) /\ Cardinality(Reading) \in Nat
<1>1. Reading \in SUBSET Readers /\ IsFiniteSet(Readers)
  BY WriteQueueAssumption DEF Reading
<1>2. IsFiniteSet(Reading)
  BY <1>1, FS_Subset
<1> QED BY <1>2, FS_CardinalityType

LEMMA NextFirstLock ==
    ASSUME TypeOK, FirstLock, [Next]_vars
    PROVE  FirstLock'
<1> USE DEF callers, locks, readers, plugins
<1>1. 0 \in Slots /\ None \notin Slots /\ (lock = 0 => CurrentLock = 0)
  BY SlotsAre DEF CurrentLock, TypeOK
<1>2. ASSUME UNCHANGED <<thread, locks, claim, readers>> PROVE FirstLock'
  BY <1>2 DEF FirstLock, Reading, Writing
<1>3. ASSUME UNCHANGED <<locks, claim, readers>>, Writing' => Writing, thread' # "renew",
             thread' \in {"lock", "write", "answer", "next"} =>
                 thread \in {"lock", "write", "answer", "next"}
      PROVE  FirstLock'
  BY <1>3 DEF FirstLock, Reading
<1>4. ASSUME NEW c \in Callers, Submit(c) \/ Return(c) PROVE FirstLock'
  BY <1>2, <1>4 DEF Submit, Return
<1>5. CASE CheckRunning \/ PopFirst \/ Write \/ Answer \/ NextWrite
  BY <1>3, <1>5 DEF CheckRunning, PopFirst, Write, Answer, NextWrite, Writing
<1>6. CASE Claim
  <2>1. UNCHANGED <<locks, readers>> /\ claim' = CurrentLock /\ thread' = "lock"
    BY <1>6 DEF Claim
  <2> QED BY <1>1, <2>1 DEF FirstLock, Reading, Writing
<1>7. CASE Acquire
  <2>1. /\ UNCHANGED <<locks, claim, readers>> /\ thread = "lock" /\ thread' = "write"
        /\ shared[claim] = 0
    BY <1>7 DEF Acquire
  <2> QED BY <2>1 DEF FirstLock, Reading, Writing
<1>8. CASE Timeout
  <2>1. lock' = lock + 1 /\ lock \in Nat
    BY <1>8 DEF Timeout, TypeOK
  <2>2. lock' # 0
    BY <2>1
  <2> QED BY <2>2 DEF FirstLock
<1>9. CASE Renew
  BY <1>9 DEF Renew, FirstLock
<1>10. CASE Release
  BY <1>10 DEF Release, FirstLock, Reading, Writing
<1>11. ASSUME NEW r \in Readers, EnterRead(r) PROVE FirstLock'
  <2>1. /\ UNCHANGED <<thread, locks, claim, read>>
        /\ \A s \in Readers : wait'[s] = IF s = r THEN CurrentLock ELSE wait[s]
        /\ read[r] = None
    BY <1>11 DEF EnterRead, TypeOK
  <2> QED BY <1>1, <2>1 DEF FirstLock, Reading, Writing
<1>12. ASSUME NEW r \in Readers, AcquireRead(r) PROVE FirstLock'
  <2> SUFFICES ASSUME lock = 0 PROVE FirstLock'
    BY <1>12 DEF AcquireRead, FirstLock
  <2>1. /\ wait[r] # None /\ wait[r] # claim
        /\ shared' = [shared EXCEPT ![wait[r]] = @ + 1]
        /\ \A s \in Readers : read'[s] = IF s = r THEN wait[r] ELSE read[s]
        /\ \A s \in Readers : wait'[s] = IF s = r THEN None ELSE wait[s]
        /\ UNCHANGED <<thread, lock, claim>>
    BY <1>12 DEF AcquireRead, TypeOK
  <2>2. wait[r] = 0 /\ read[r] = None
    BY <2>1 DEF FirstLock
  <2>3. thread \notin {"lock", "write", "answer", "next"}
    BY <2>1, <2>2 DEF FirstLock
  <2>4. shared'[0] = shared[0] + 1
    BY <1>1, <2>1, <2>2 DEF TypeOK
  <2>5. shared'[0] = Cardinality(Reading')
    <3>1. Reading' = Reading \cup {r} /\ r \notin Reading
      BY <1>1, <2>1, <2>2 DEF Reading
    <3>2. Cardinality(Reading \cup {r}) = Cardinality(Reading) + 1
      BY <3>1, ReadingFinite, FS_AddElement
    <3>3. shared[0] = Cardinality(Reading)
      BY DEF FirstLock
    <3> QED BY <2>4, <3>1, <3>2, <3>3
  <2> QED BY <1>1, <2>1, <2>2, <2>3, <2>5 DEF FirstLock, Writing
<1>13. ASSUME NEW r \in Readers, ReadTimeout(r) PROVE FirstLock'
  <2>1. /\ UNCHANGED <<thread, locks, claim, read>>
        /\ \A s \in Readers : wait'[s] = IF s = r THEN None ELSE wait[s]
    BY <1>13 DEF ReadTimeout, TypeOK
  <2> QED BY <2>1 DEF FirstLock, Reading, Writing
<1>14. ASSUME NEW r \in Readers, EndRead(r) PROVE FirstLock'
  <2> SUFFICES ASSUME lock = 0 PROVE FirstLock'
    BY <1>14 DEF EndRead, FirstLock
  <2>1. /\ read[r] # None
        /\ shared' = [shared EXCEPT ![read[r]] = @ - 1]
        /\ \A s \in Readers : read'[s] = IF s = r THEN None ELSE read[s]
        /\ UNCHANGED <<thread, lock, claim, wait>>
    BY <1>14 DEF EndRead, TypeOK
  <2>2. read[r] = 0
    BY <2>1 DEF FirstLock
  <2>3. shared'[0] = shared[0] - 1
    BY <1>1, <2>1, <2>2 DEF TypeOK
  <2>4. Reading' = Reading \ {r} /\ r \in Reading
    BY <2>1 DEF Reading
  <2>5. shared'[0] = Cardinality(Reading') /\ Cardinality(Reading) # 0
    BY <2>3, <2>4, ReadingFinite, FS_RemoveElement, FS_EmptySet DEF FirstLock
  <2>6. ~Writing
    BY <2>5 DEF FirstLock
  <2> QED BY <2>1, <2>5, <2>6 DEF FirstLock, Writing
<1>15. CASE BeginShutdown \/ ShutDown \/ Join
  BY <1>2, <1>15 DEF BeginShutdown, ShutDown, Join
<1>16. CASE UNCHANGED vars
  BY <1>2, <1>16 DEF vars
<1> QED BY <1>4, <1>5, <1>6, <1>7, <1>8, <1>9, <1>10, <1>11, <1>12, <1>13, <1>14, <1>15, <1>16
        DEF Next

\* As long as no wait for the write lock has run out, with_read_lock and
\* with_write_lock keep readers and the writer apart, for any number of
\* readers and of locks.
THEOREM LockExcludes == Spec => []WriterExcludesReaders
<1>1. Init => FirstLock
  <2> SUFFICES ASSUME Init PROVE FirstLock
    OBVIOUS
  <2>1. Reading = {} /\ 0 \in Slots
    BY SlotsAre DEF Init, Reading
  <2>2. shared[0] = 0 /\ Cardinality(Reading) = 0
    BY <2>1, FS_EmptySet DEF Init
  <2> QED BY <2>2 DEF Init, FirstLock, Writing
<1>2. TypeOK /\ FirstLock /\ [Next]_vars => FirstLock'
  BY NextFirstLock
<1>3. TypeOK /\ FirstLock => WriterExcludesReaders
  <2> SUFFICES ASSUME FirstLock, Writing, lock = 0, NEW r \in Readers PROVE read[r] = None
    BY DEF WriterExcludesReaders
  <2>1. Cardinality(Reading) = 0
    BY DEF FirstLock
  <2>2. Reading = {}
    BY <2>1, ReadingFinite, FS_EmptySet
  <2> QED BY <2>2 DEF Reading
<1> QED BY <1>1, <1>2, <1>3, Typing, PTL DEF Spec

-----------------------------------------------------------------------------
(* Shutdown.                                                               *)

\* Every thread that uses the database belongs to the chain plugin or to a
\* plugin that starts after it, and so is joined before it: the order in which
\* programs/deltad/main.cpp starts the plugins by default.
ChainStartsFirst ==
    \A t \in Threads : \E k \in 1 .. Len(StartOrder) :
        /\ t \in StartOrder[k]
        /\ \A i \in 1 .. Len(StartOrder) : Chain \in StartOrder[i] => i <= k

Done(t) == t \in refused /\ Idle(t)

\* The plugins that are up are the first ones of the start order; the threads
\* of the others are done.
Stopped ==
    /\ up \in Seq(SUBSET Threads) /\ Len(up) <= Len(StartOrder)
    /\ \A k \in 1 .. Len(StartOrder) : k > Len(up) => \A t \in StartOrder[k] : Done(t)
    /\ \A k \in 1 .. Len(up) : up[k] = StartOrder[k]

\* A thread that is done stays so: its plugin takes no more work, and the write
\* thread answers only callers that wait.
LEMMA DoneForever ==
    ASSUME TypeOK, Contexts, NEW t \in Threads, Done(t), [Next]_vars
    PROVE  Done(t)'
<1> USE DEF callers, locks, readers, plugins
<1>1. t \in refused'
  BY DEF Done, Next, vars, Submit, Return, CheckRunning, PopFirst, Claim, Acquire, Timeout,
         Renew, Write, Answer, NextWrite, Release, EnterRead, AcquireRead, ReadTimeout,
         EndRead, BeginShutdown, ShutDown, Join
<1>2. ASSUME t \in Callers PROVE call'[t] = "idle"
  <2>1. call[t] = "idle"
    BY <1>2 DEF Done, Idle
  <2>2. ASSUME NEW c \in Callers, Submit(c) PROVE call'[t] = "idle"
    BY <1>2, <2>1, <2>2 DEF Submit, TypeOK, Done
  <2>3. ASSUME NEW c \in Callers, Return(c) PROVE call'[t] = "idle"
    BY <1>2, <2>1, <2>3 DEF Return, TypeOK
  <2>4. CASE Answer
    <3>1. cxt \in Callers /\ call[cxt] = "waiting" /\ call' = [call EXCEPT ![cxt] = "answered"]
      BY <2>4 DEF Answer, Contexts, ContextAlive, InHand, TypeOK
    <3> QED BY <1>2, <2>1, <3>1 DEF TypeOK
  <2>5. ASSUME UNCHANGED call PROVE call'[t] = "idle"
    BY <2>1, <2>5
  <2> QED BY <2>2, <2>3, <2>4, <2>5
          DEF Next, vars, CheckRunning, PopFirst, Claim, Acquire, Timeout,
              Renew, Write, NextWrite, Release, EnterRead, AcquireRead, ReadTimeout,
              EndRead, BeginShutdown, ShutDown, Join
<1>3. ASSUME t \in Readers PROVE wait'[t] = None /\ read'[t] = None
  <2>1. wait[t] = None /\ read[t] = None
    BY <1>3 DEF Done, Idle
  <2>2. ASSUME NEW r \in Readers, EnterRead(r) PROVE wait'[t] = None /\ read'[t] = None
    BY <1>3, <2>1, <2>2 DEF EnterRead, TypeOK, Done
  <2>3. ASSUME NEW r \in Readers, AcquireRead(r) PROVE wait'[t] = None /\ read'[t] = None
    BY <1>3, <2>1, <2>3 DEF AcquireRead, TypeOK
  <2>4. ASSUME NEW r \in Readers, ReadTimeout(r) \/ EndRead(r)
        PROVE  wait'[t] = None /\ read'[t] = None
    BY <1>3, <2>1, <2>4 DEF ReadTimeout, EndRead, TypeOK
  <2>5. ASSUME UNCHANGED <<wait, read>> PROVE wait'[t] = None /\ read'[t] = None
    BY <2>1, <2>5
  <2> QED BY <2>2, <2>3, <2>4, <2>5
          DEF Next, vars, Submit, Return, CheckRunning, PopFirst, Claim, Acquire, Timeout,
              Renew, Write, Answer, NextWrite, Release, BeginShutdown, ShutDown, Join
<1>4. ASSUME t = Chain PROVE thread' = "ended"
  <2>1. thread = "ended"
    BY <1>4 DEF Done, Idle
  <2> QED BY <2>1
          DEF Next, vars, Submit, Return, CheckRunning, PopFirst, Claim, Acquire, Timeout,
              Renew, Write, Answer, NextWrite, Release, EnterRead, AcquireRead, ReadTimeout,
              EndRead, BeginShutdown, ShutDown, Join
<1> QED BY <1>1, <1>2, <1>3, <1>4 DEF Done, Idle

LEMMA NextStopped ==
    ASSUME TypeOK, Contexts, Stopped, [Next]_vars
    PROVE  Stopped'
<1> USE DEF callers, locks, readers, plugins
<1> PICK N \in Nat : N = Len(StartOrder)
  BY WriteQueueAssumption
<1> PICK n \in Nat : n = Len(up)
  BY DEF Stopped
<1>1. \A k \in 1 .. N : k > n => \A t \in StartOrder[k] : t \in Threads /\ Done(t)
  BY WriteQueueAssumption DEF Stopped
<1>2. \A k \in 1 .. N : k > n => \A t \in StartOrder[k] : Done(t)'
  BY <1>1, DoneForever
<1>3. CASE UNCHANGED up
  BY <1>2, <1>3 DEF Stopped
<1>4. CASE Join
  <2>1. /\ n >= 1 /\ up' = SubSeq(up, 1, n - 1) /\ up[n] \subseteq refused
        /\ \A t \in up[n] : Idle(t)
    BY <1>4 DEF Join, Stopped, Last, Front
  <2>2. up' \in Seq(SUBSET Threads) /\ Len(up') = n - 1 /\ \A k \in 1 .. n - 1 : up'[k] = up[k]
    BY <2>1 DEF Stopped
  <2>3. ASSUME NEW t \in StartOrder[n] PROVE Done(t)'
    <3>1. up[n] = StartOrder[n] /\ n \in 1 .. N
      BY <2>1 DEF Stopped
    <3>2. t \in Threads /\ Done(t)
      BY <2>1, <3>1, WriteQueueAssumption DEF Done
    <3> QED BY <3>2, DoneForever
  <2>4. ASSUME NEW k \in 1 .. N, k > n - 1, NEW t \in StartOrder[k] PROVE Done(t)'
    <3>1. k = n \/ k > n
      BY <2>4
    <3> QED BY <1>2, <2>3, <3>1
  <2>5. n - 1 <= N /\ \A k \in 1 .. n - 1 : up'[k] = StartOrder[k]
    BY <2>2 DEF Stopped
  <2> QED BY <2>2, <2>4, <2>5 DEF Stopped
<1> QED BY <1>3, <1>4
        DEF Next, vars, Submit, Return, CheckRunning, PopFirst, Claim, Acquire, Timeout,
            Renew, Write, Answer, NextWrite, Release, EnterRead, AcquireRead, ReadTimeout,
            EndRead, BeginShutdown, ShutDown

\* When chain_plugin::plugin_shutdown has closed the database nobody waits for
\* it, reads it or writes it, for any threads and plugins, provided that the
\* chain plugin starts before the plugins whose threads use it.
THEOREM ClosesAlone == ChainStartsFirst => (Spec => []ClosedAlone)
<1> SUFFICES ASSUME ChainStartsFirst PROVE Spec => []ClosedAlone
  OBVIOUS
<1>1. Init => Contexts
  BY DEF Init, Contexts, ContextAlive, InHand
<1>2. Init => Stopped
  <2> SUFFICES ASSUME Init PROVE Stopped
    OBVIOUS
  <2>1. up = StartOrder /\ Len(StartOrder) \in Nat /\ up \in Seq(SUBSET Threads)
    BY WriteQueueAssumption DEF Init
  <2> QED BY <2>1 DEF Stopped
<1>3. TypeOK /\ Contexts /\ [Next]_vars => Contexts'
  BY NextContexts
<1>4. TypeOK /\ Contexts /\ Stopped /\ [Next]_vars => Stopped'
  BY NextStopped
<1>5. TypeOK /\ Contexts /\ Stopped => ClosedAlone
  <2> SUFFICES ASSUME TypeOK, Contexts, Stopped,
                      \A i \in 1 .. Len(up) : Chain \notin up[i]
               PROVE  queue = <<>> /\ \A t \in Threads : Idle(t)
    BY DEF ClosedAlone
  <2>1. PICK i \in 1 .. Len(StartOrder) : Chain \in StartOrder[i]
    BY WriteQueueAssumption DEF Threads
  <2>2. Len(up) \in Nat /\ Len(StartOrder) \in Nat
    BY WriteQueueAssumption DEF Stopped
  <2>3. i > Len(up)
    BY <2>1, <2>2 DEF Stopped
  <2>4. ASSUME NEW t \in Threads PROVE Idle(t)
    <3>1. PICK k \in 1 .. Len(StartOrder) : t \in StartOrder[k] /\ i <= k
      BY <2>1 DEF ChainStartsFirst
    <3>2. k > Len(up)
      BY <2>2, <2>3, <3>1
    <3> QED BY <3>1, <3>2 DEF Stopped, Done
  <2>5. \A c \in Callers : call[c] = "idle"
    BY <2>4 DEF Threads, Idle
  <2>6. ASSUME queue # <<>> PROVE FALSE
    <3>1. 1 \in 1 .. Len(queue) /\ queue[1] \in Callers
      BY <2>6 DEF TypeOK
    <3> QED BY <2>5, <3>1 DEF Contexts, ContextAlive
  <2> QED BY <2>4, <2>6
<1> QED BY <1>1, <1>2, <1>3, <1>4, <1>5, Typing, PTL DEF Spec
=============================================================================
