------------------------ MODULE SyncBroadcast_proofs ------------------------
(***************************************************************************)
(* Proofs about SyncBroadcast for any threads and transactions and for     *)
(* chains of any length.                                                   *)
(***************************************************************************)
EXTENDS SyncBroadcast, FiniteSetTheorems, TLAPS

-----------------------------------------------------------------------------
(* The inductive invariant.                                                *)

States == {"idle", "accept", "broadcast", "waiting", "failed"}

Blocks == [time : Int, txs : SUBSET Txs]

TypeOK ==
    /\ chain \in Seq(Blocks) /\ takenBack \in Nat /\ fork \in Nat
    /\ applied \/ migrating => chain # <<>>
    /\ ~(applied /\ migrating)
    /\ call \in [Callers -> States]
    /\ tx \in [Callers -> Txs \cup {None}]
    /\ promise \in [Callers -> {None, "confirmed", "expired"}]
    /\ callbacks \in [Txs -> Callers \cup {None}]
    /\ expirations \in SUBSET Txs
    /\ shaken \in SUBSET Callers

\* A call has a transaction, and whoever makes none has neither a transaction
\* nor an answer.
Stack(c) == IF InCall(c) THEN tx[c] \in Txs ELSE tx[c] = None /\ promise[c] = None

\* A callback belongs to a call for its transaction that was not answered.
Owner(x) == callbacks[x] # None =>
                InCall(callbacks[x]) /\ tx[callbacks[x]] = x /\ promise[callbacks[x]] = None

\* A transaction is in one block only.
Once == \A i, j \in 1 .. Len(chain) : chain[i].txs \cap chain[j].txs # {} => i = j

Accepted == {"broadcast", "waiting"}

\* What an answer rests on, whatever was taken back before it: an accepted
\* transaction that has its callback is at most in the block whose handlers have
\* not run yet, and a caller that was answered since was told the truth.
Sound(c) ==
    InCall(c) =>
        /\ call[c] \in Accepted /\ promise[c] = None /\ callbacks[tx[c]] = c =>
               (tx[c] \in TxsOf(chain) => applied /\ tx[c] \in Last(chain).txs)
        /\ c \notin shaken =>
               /\ promise[c] = "confirmed" => tx[c] \in TxsOf(chain)
               /\ promise[c] = "expired" => Expiration[tx[c]] < HeadTime
               /\ call[c] \in Accepted /\ promise[c] = "expired" => tx[c] \notin TxsOf(chain)

\* What a call can rely on besides as long as no block was taken back: only a
\* transaction that can no longer be accepted loses its callback before it was
\* answered.
Straight(c) ==
    InCall(c) =>
        /\ callbacks[tx[c]] = c \/ ~Admissible(tx[c])
        /\ call[c] \in Accepted /\ promise[c] = None => callbacks[tx[c]] = c

\* Of two calls for one transaction the one with the callback came too late to
\* be accepted.
Rivals(c, d) ==
    c # d /\ InCall(c) /\ InCall(d) /\ tx[c] = tx[d] /\ callbacks[tx[d]] = d =>
        call[d] \notin Accepted

IInv ==
    /\ TypeOK
    /\ \A c \in Callers : Stack(c)
    /\ \A x \in Txs : Owner(x)
    /\ Once
    /\ \A c \in Callers : Sound(c)
    /\ takenBack = 0 => \A c \in Callers : Straight(c)
    /\ takenBack = 0 => \A c, d \in Callers : Rivals(c, d)

-----------------------------------------------------------------------------
LEMMA InitIInv == Init => IInv
<1> SUFFICES ASSUME Init PROVE IInv
  OBVIOUS
<1>1. chain = <<>> /\ takenBack = 0 /\ ~applied
  BY DEF Init
<1>2. <<>> \in Seq(Blocks) /\ Len(<<>>) = 0
  OBVIOUS
<1>3. TypeOK
  BY <1>1, <1>2 DEF Init, TypeOK, States
<1>4. \A c \in Callers : ~InCall(c) /\ tx[c] = None /\ promise[c] = None
  BY DEF Init, InCall
<1>5. \A x \in Txs : callbacks[x] = None
  BY DEF Init
<1>6. Once
  BY <1>1, <1>2 DEF Once
<1> QED BY <1>3, <1>4, <1>5, <1>6 DEF IInv, Stack, Owner, Sound, Straight, Rivals

LEMMA HeadTimeIsInt ==
    ASSUME IInv
    PROVE  HeadTime \in Int
<1>1. CASE chain = <<>>
  BY <1>1 DEF HeadTime
<1>2. CASE chain # <<>>
  <2>1. Last(chain) \in Blocks
    BY <1>2 DEF IInv, TypeOK, Last
  <2> QED BY <1>2, <2>1 DEF HeadTime, Blocks
<1> QED BY <1>1, <1>2

LEMMA ChainStays ==
    ASSUME UNCHANGED <<chain, takenBack, applied>>, IInv
    PROVE  /\ HeadTime' = HeadTime
           /\ TxsOf(chain)' = TxsOf(chain)
           /\ \A x : Admissible(x)' <=> Admissible(x)
           /\ Once'
<1>1. HeadTime' = HeadTime /\ TxsOf(chain)' = TxsOf(chain)
  BY DEF HeadTime, TxsOf
<1> QED BY <1>1 DEF Admissible, IInv, Once

\* The calls that a step of c does not touch keep what they rely on, if it
\* takes away no callback.
LEMMA OthersStraight ==
    ASSUME IInv, UNCHANGED <<chain, takenBack, applied>>, NEW d \in Callers, Straight(d),
           call'[d] = call[d], tx'[d] = tx[d], promise'[d] = promise[d],
           callbacks[tx[d]] = d /\ InCall(d) => callbacks'[tx[d]] = d
    PROVE  Straight(d)'
<1>1. InCall(d)' <=> InCall(d)
  BY DEF InCall
<1> QED BY <1>1, ChainStays DEF Straight

\* Nor do they lose what their answers rest on, if nobody gets the callback of
\* their transaction.
LEMMA OthersSound ==
    ASSUME IInv, UNCHANGED <<chain, takenBack, applied>>, NEW d \in Callers,
           call'[d] = call[d], tx'[d] = tx[d], promise'[d] = promise[d],
           d \in shaken <=> d \in shaken',
           callbacks'[tx[d]] = d /\ InCall(d) => callbacks[tx[d]] = d
    PROVE  Sound(d)'
<1>1. (InCall(d)' <=> InCall(d)) /\ Sound(d)
  BY DEF InCall, IInv
<1> QED BY <1>1, ChainStays DEF Sound

-----------------------------------------------------------------------------
(* The calling thread.                                                     *)

LEMMA RegisterIInv ==
    ASSUME IInv, NEW c \in Callers, NEW x \in Txs, Register(c, x)
    PROVE  IInv'
<1>1. /\ call[c] = "idle" /\ callbacks[x] = None
      /\ callbacks' = [callbacks EXCEPT ![x] = c]
      /\ call' = [call EXCEPT ![c] = "accept"]
      /\ tx' = [tx EXCEPT ![c] = x]
      /\ promise' = promise /\ expirations' = expirations \cup {x}
      /\ UNCHANGED <<chain, fork, takenBack, applied, migrating, shaken>>
  BY DEF Register, chainVars
<1>2. /\ callbacks'[x] = c /\ call'[c] = "accept" /\ tx'[c] = x
      /\ \A y \in Txs : y # x => callbacks'[y] = callbacks[y]
      /\ \A d \in Callers : d # c => call'[d] = call[d] /\ tx'[d] = tx[d]
  BY <1>1 DEF IInv, TypeOK
<1>3. promise[c] = None
  BY <1>1 DEF IInv, Stack, InCall
<1>4. TypeOK'
  BY <1>1 DEF IInv, TypeOK, States
<1>5. ASSUME NEW d \in Callers PROVE Stack(d)'
  BY <1>1, <1>2 DEF IInv, Stack, InCall
<1>6. ASSUME NEW y \in Txs PROVE Owner(y)'
  <2>1. CASE y = x
    BY <1>1, <1>2, <1>3, <2>1 DEF Owner, InCall
  <2>2. CASE y # x
    <3>1. callbacks'[y] = callbacks[y] /\ Owner(y)
      BY <1>2, <2>2 DEF IInv
    <3>2. callbacks[y] # None => callbacks[y] # c /\ callbacks[y] \in Callers
      BY <1>1, <3>1 DEF Owner, InCall, IInv, TypeOK
    <3> QED BY <1>1, <1>2, <3>1, <3>2 DEF Owner, InCall
  <2> QED BY <2>1, <2>2
<1>7. ASSUME takenBack' = 0, NEW d \in Callers PROVE Straight(d)'
  <2>1. Straight(d) /\ Stack(d)
    BY <1>1, <1>7 DEF IInv
  <2>2. CASE d = c
    BY <1>1, <1>2, <1>3, <2>2, SyncBroadcastAssumption DEF Straight, Accepted
  <2>3. CASE d # c
    <3>1. callbacks[tx[d]] = d /\ InCall(d) => callbacks'[tx[d]] = d
      BY <1>1, <1>2, <2>1, SyncBroadcastAssumption DEF Stack
    <3> QED BY <1>1, <1>2, <2>1, <2>3, <3>1, OthersStraight
  <2> QED BY <2>2, <2>3
<1>8. ASSUME takenBack' = 0, NEW d \in Callers, NEW e \in Callers PROVE Rivals(d, e)'
  <2> SUFFICES ASSUME d # e, InCall(d)', InCall(e)', tx'[d] = tx'[e], callbacks'[tx'[e]] = e
               PROVE  call'[e] \notin Accepted
    BY DEF Rivals
  <2>1. CASE e = c
    BY <1>2, <2>1 DEF Accepted
  <2>2. CASE e # c
    <3>1. InCall(e) /\ tx'[e] = tx[e] /\ call'[e] = call[e]
      BY <1>2, <2>2 DEF InCall
    <3>2. tx[e] \in Txs /\ tx[e] # x
      BY <1>2, <2>2, <3>1 DEF IInv, Stack
    <3>3. d # c
      BY <1>2, <3>1, <3>2
    <3>4. InCall(d) /\ tx[d] = tx[e] /\ callbacks[tx[e]] = e
      BY <1>2, <3>1, <3>2, <3>3 DEF InCall
    <3> QED BY <1>1, <1>8, <3>1, <3>4 DEF IInv, Rivals
  <2> QED BY <2>1, <2>2
<1>9. ASSUME NEW d \in Callers PROVE Sound(d)'
  <2>1. CASE d = c
    BY <1>1, <1>2, <1>3, <2>1, SyncBroadcastAssumption DEF Sound, Accepted
  <2>2. CASE d # c
    <3>1. callbacks'[tx[d]] = d /\ InCall(d) => callbacks[tx[d]] = d
      BY <1>1, <1>2, <2>2 DEF IInv, Stack
    <3> QED BY <1>1, <1>2, <2>2, <3>1, OthersSound
  <2> QED BY <2>1, <2>2
<1> QED BY <1>1, <1>4, <1>5, <1>6, <1>7, <1>8, <1>9, ChainStays DEF IInv

\* A step of a call that leaves its transaction, its answer and the table as
\* they are.
LEMMA CallGoesOn ==
    ASSUME IInv, NEW c \in Callers, NEW next \in States,
           InCall(c), next # "idle", call' = [call EXCEPT ![c] = next],
           UNCHANGED <<chain, fork, takenBack, applied, migrating, shaken, tx, promise, callbacks, expirations>>,
           next \in Accepted => call[c] \in Accepted \/ Admissible(tx[c])
    PROVE  IInv'
<1>1. call'[c] = next /\ \A d \in Callers : d # c => call'[d] = call[d]
  BY DEF IInv, TypeOK
<1>2. \A d \in Callers : InCall(d)' <=> InCall(d)
  BY <1>1 DEF InCall
<1>3. TypeOK'
  BY DEF IInv, TypeOK
<1>4. ASSUME NEW d \in Callers PROVE Stack(d)'
  BY <1>2 DEF IInv, Stack
<1>5. ASSUME NEW y \in Txs PROVE Owner(y)'
  <2>1. callbacks[y] # None => callbacks[y] \in Callers
    BY DEF IInv, TypeOK
  <2> QED BY <1>2, <2>1 DEF IInv, Owner
<1>6. ASSUME takenBack' = 0, NEW d \in Callers PROVE Straight(d)'
  <2>1. Straight(d)
    BY <1>6 DEF IInv
  <2>2. CASE d # c
    BY <1>1, <2>1, <2>2, OthersStraight
  <2>3. CASE d = c /\ (next \notin Accepted \/ call[c] \in Accepted)
    BY <1>1, <1>2, <2>1, <2>3, ChainStays DEF Straight
  <2>4. CASE d = c /\ Admissible(tx[c])
    <3>1. tx[c] \in Txs /\ Expiration[tx[c]] \in Int
      BY SyncBroadcastAssumption DEF IInv, Stack
    <3>2. HeadTime \in Int
      BY HeadTimeIsInt
    <3>3. tx[c] \notin TxsOf(chain) /\ HeadTime < Expiration[tx[c]]
      BY <2>4 DEF Admissible
    <3>4. callbacks[tx[c]] = c
      BY <2>1, <2>4, <3>1, <3>2, <3>3 DEF Straight
    <3> QED BY <1>1, <1>2, <2>4, <3>3, <3>4, ChainStays DEF Straight
  <2> QED BY <2>2, <2>3, <2>4
<1>7. ASSUME takenBack' = 0, NEW d \in Callers, NEW e \in Callers PROVE Rivals(d, e)'
  <2> SUFFICES ASSUME d # e, InCall(d), InCall(e), tx[d] = tx[e], callbacks[tx[e]] = e
               PROVE  call'[e] \notin Accepted
    BY <1>2 DEF Rivals
  <2>1. call[e] \notin Accepted
    BY <1>7 DEF IInv, Rivals
  <2>2. ~Admissible(tx[e])
    BY <1>7 DEF IInv, Straight
  <2> QED BY <1>1, <2>1, <2>2
<1>8. ASSUME NEW d \in Callers PROVE Sound(d)'
  <2>1. Sound(d)
    BY DEF IInv
  <2>2. CASE d # c
    BY <1>1, <2>2, OthersSound
  <2>3. CASE d = c /\ (next \notin Accepted \/ call[c] \in Accepted)
    BY <1>1, <1>2, <2>1, <2>3, ChainStays DEF Sound
  <2>4. CASE d = c /\ Admissible(tx[c])
    <3>1. tx[c] \in Txs /\ Expiration[tx[c]] \in Int /\ HeadTime \in Int
      BY SyncBroadcastAssumption, HeadTimeIsInt DEF IInv, Stack
    <3>2. tx[c] \notin TxsOf(chain) /\ HeadTime < Expiration[tx[c]]
      BY <2>4 DEF Admissible
    <3>3. c \notin shaken => promise[c] # "confirmed" /\ promise[c] # "expired"
      BY <2>1, <2>4, <3>1, <3>2 DEF Sound
    <3> QED BY <1>1, <1>2, <2>4, <3>2, <3>3, ChainStays DEF Sound
  <2> QED BY <2>2, <2>3, <2>4
<1> QED BY <1>3, <1>4, <1>5, <1>6, <1>7, <1>8, ChainStays DEF IInv

\* The call is over: what is left of it are the callbacks it no longer has.
LEMMA CallIsOver ==
    ASSUME IInv, NEW c \in Callers, InCall(c), Ended(c),
           UNCHANGED <<chain, fork, takenBack, applied, migrating, expirations>>,
           callbacks' \in [Txs -> Callers \cup {None}],
           \A y \in Txs : callbacks'[y] \in {None, callbacks[y]} /\ callbacks'[y] # c,
           \A y \in Txs : callbacks'[y] # callbacks[y] => y = tx[c]
    PROVE  IInv'
<1>1. /\ call'[c] = "idle" /\ tx'[c] = None /\ promise'[c] = None
      /\ \A d \in Callers : d # c =>
             call'[d] = call[d] /\ tx'[d] = tx[d] /\ promise'[d] = promise[d]
  BY DEF Ended, IInv, TypeOK
<1>2. TypeOK'
  BY DEF Ended, IInv, TypeOK, States
<1>3. ASSUME NEW d \in Callers PROVE Stack(d)'
  BY <1>1 DEF IInv, Stack, InCall
<1>4. ASSUME NEW y \in Txs PROVE Owner(y)'
  <2> SUFFICES ASSUME callbacks'[y] # None
               PROVE  /\ call'[callbacks'[y]] # "idle" /\ tx'[callbacks'[y]] = y
                      /\ promise'[callbacks'[y]] = None
    BY DEF Owner, InCall
  <2>1. callbacks'[y] = callbacks[y] /\ callbacks[y] # c /\ callbacks[y] \in Callers
    BY DEF IInv, TypeOK
  <2> QED BY <1>1, <2>1 DEF IInv, Owner, InCall
<1>5. ASSUME takenBack' = 0, NEW d \in Callers PROVE Straight(d)'
  <2>1. Straight(d) /\ Straight(c) /\ Rivals(c, d)
    BY <1>5 DEF IInv
  <2>2. CASE d = c
    BY <1>1, <2>2 DEF Straight, InCall
  <2>3. CASE d # c /\ callbacks'[tx[d]] = callbacks[tx[d]]
    BY <1>1, <2>1, <2>3, OthersStraight
  <2>4. CASE d # c /\ callbacks'[tx[d]] # callbacks[tx[d]]
    <3> SUFFICES ASSUME InCall(d)' PROVE Straight(d)'
      BY DEF Straight
    <3>1. /\ call'[d] = call[d] /\ tx'[d] = tx[d] /\ promise'[d] = promise[d]
          /\ InCall(d)
      BY <1>1, <2>4 DEF InCall
    <3>2. tx[d] = tx[c] /\ tx[d] \in Txs
      BY <2>4, <3>1 DEF IInv, Stack
    <3>3. ~Admissible(tx[d])
      BY <2>1, <2>4, <3>1, <3>2 DEF Straight
    <3>4. ~(call[d] \in Accepted /\ promise[d] = None)
      BY <2>1, <2>4, <3>1, <3>2 DEF Straight, Rivals
    <3> QED BY <2>1, <3>1, <3>3, <3>4, ChainStays DEF Straight
  <2> QED BY <2>2, <2>3, <2>4
<1>6. ASSUME takenBack' = 0, NEW d \in Callers, NEW e \in Callers PROVE Rivals(d, e)'
  <2> SUFFICES ASSUME d # e, InCall(d)', InCall(e)', tx'[d] = tx'[e], callbacks'[tx'[e]] = e
               PROVE  call'[e] \notin Accepted
    BY DEF Rivals
  <2>1. d # c /\ e # c
    BY <1>1 DEF InCall
  <2>2. /\ InCall(d) /\ InCall(e) /\ tx'[d] = tx[d] /\ tx'[e] = tx[e] /\ call'[e] = call[e]
    BY <1>1, <2>1 DEF InCall
  <2>3. tx[e] \in Txs
    BY <2>2 DEF IInv, Stack
  <2>4. callbacks[tx[e]] = e
    BY <2>2, <2>3, SyncBroadcastAssumption
  <2> QED BY <1>6, <2>2, <2>4 DEF IInv, Rivals
<1>7. ASSUME NEW d \in Callers PROVE Sound(d)'
  <2>1. CASE d = c
    BY <1>1, <2>1 DEF Sound, InCall
  <2>2. CASE d # c
    <3>1. InCall(d) => tx[d] \in Txs
      BY DEF IInv, Stack
    <3>2. callbacks'[tx[d]] = d /\ InCall(d) => callbacks[tx[d]] = d
      BY <3>1, SyncBroadcastAssumption
    <3>3. d \in shaken <=> d \in shaken'
      BY <2>2 DEF Ended
    <3> QED BY <1>1, <2>2, <3>2, <3>3, OthersSound
  <2> QED BY <2>1, <2>2
<1> QED BY <1>2, <1>3, <1>4, <1>5, <1>6, <1>7, ChainStays DEF IInv

LEMMA CallerIInv ==
    ASSUME IInv, NEW c \in Callers,
           Accept(c) \/ Reject(c) \/ Broadcast(c) \/ Catch(c) \/ Return(c)
    PROVE  IInv'
<1>1. CASE Accept(c)
  <2>1. /\ call[c] = "accept" /\ call' = [call EXCEPT ![c] = "broadcast"]
        /\ UNCHANGED <<chain, fork, takenBack, applied, migrating, shaken, tx, promise, callbacks, expirations>> /\ Admissible(tx[c])
    BY <1>1 DEF Accept, tables
  <2> QED BY <2>1, CallGoesOn DEF InCall, States
<1>2. CASE Reject(c)
  <2>1. /\ call[c] = "accept" /\ call' = [call EXCEPT ![c] = "failed"]
        /\ UNCHANGED <<chain, fork, takenBack, applied, migrating, shaken, tx, promise, callbacks, expirations>>
    BY <1>2 DEF Reject, chainVars, tables
  <2> QED BY <2>1, CallGoesOn DEF InCall, States, Accepted
<1>3. CASE Broadcast(c)
  <2>1. PICK next \in {"waiting", "failed"} :
           /\ call[c] = "broadcast" /\ call' = [call EXCEPT ![c] = next]
           /\ UNCHANGED <<chain, fork, takenBack, applied, migrating, shaken, tx, promise, callbacks, expirations>>
    BY <1>3 DEF Broadcast, chainVars, tables
  <2>2. InCall(c) /\ next \in States /\ next # "idle" /\ call[c] \in Accepted
    BY <2>1 DEF InCall, States, Accepted
  <2> QED BY <2>1, <2>2, CallGoesOn
<1>4. CASE Catch(c)
  <2>1. /\ InCall(c) /\ Ended(c) /\ callbacks' = [callbacks EXCEPT ![tx[c]] = None]
        /\ UNCHANGED <<chain, fork, takenBack, applied, migrating, expirations>>
    BY <1>4 DEF Catch, chainVars, InCall
  <2>2. callbacks' \in [Txs -> Callers \cup {None}]
    BY <2>1 DEF IInv, TypeOK
  <2>3. ASSUME NEW y \in Txs
        PROVE  /\ callbacks'[y] \in {None, callbacks[y]}
               /\ callbacks'[y] # c
               /\ callbacks'[y] # callbacks[y] => y = tx[c]
    <3>1. callbacks'[y] = IF y = tx[c] THEN None ELSE callbacks[y]
      BY <2>1 DEF IInv, TypeOK
    <3>2. c # None /\ (callbacks[y] = c => y = tx[c])
      BY SyncBroadcastAssumption DEF IInv, Owner
    <3> QED BY <3>1, <3>2
  <2> QED BY <2>1, <2>2, <2>3, CallIsOver
<1>5. CASE Return(c)
  <2>1. /\ InCall(c) /\ promise[c] # None /\ Ended(c) /\ callbacks' = callbacks
        /\ UNCHANGED <<chain, fork, takenBack, applied, migrating, expirations>>
    BY <1>5 DEF Return, chainVars, tables, InCall
  <2>2. ASSUME NEW y \in Txs PROVE callbacks[y] # c
    BY <2>1, SyncBroadcastAssumption DEF IInv, Owner
  <2>3. callbacks \in [Txs -> Callers \cup {None}]
    BY DEF IInv, TypeOK
  <2> QED BY <2>1, <2>2, <2>3, CallIsOver
<1> QED BY <1>1, <1>2, <1>3, <1>4, <1>5

-----------------------------------------------------------------------------
(* The write thread.                                                       *)

LEMMA ApplyBlockIs ==
    ASSUME IInv, ApplyBlock
    PROVE  \E b \in Blocks :
              /\ b.time > HeadTime /\ \A x \in b.txs : Admissible(x)
              /\ chain' = Append(chain, b)
<1>1. PICK time \in HeadTime + 1 .. MaxTime - Max({0, target - Len(chain) - 1}),
            txs \in SUBSET {x \in Txs : Admissible(x)} :
               chain' = Append(chain, [time |-> time, txs |-> txs])
  BY DEF ApplyBlock
<1>2. time \in Int /\ time > HeadTime
  BY HeadTimeIsInt
<1>3. [time |-> time, txs |-> txs] \in Blocks
  BY <1>2 DEF Blocks
<1> QED BY <1>1, <1>2, <1>3

LEMMA ApplyBlockIInv ==
    ASSUME IInv, ApplyBlock
    PROVE  IInv'
<1> PICK b \in Blocks :
          /\ b.time > HeadTime /\ \A x \in b.txs : Admissible(x)
          /\ chain' = Append(chain, b)
  BY ApplyBlockIs
<1> PICK n \in Nat : n = Len(chain)
  BY DEF IInv, TypeOK
<1>1. /\ ~applied /\ applied' = TRUE /\ ~migrating
      /\ UNCHANGED <<fork, takenBack, migrating, call, tx, promise, shaken, callbacks, expirations>>
  BY DEF ApplyBlock, tables
<1>2. /\ chain' \in Seq(Blocks) /\ Len(chain') = n + 1 /\ chain'[n + 1] = b
      /\ \A i \in 1 .. n : chain'[i] = chain[i]
  BY DEF IInv, TypeOK
<1>3. chain' # <<>> /\ Last(chain') = b
  BY <1>2 DEF Last
<1>4. HeadTime' = b.time /\ HeadTime \in Int /\ b.time \in Int
  BY <1>3, HeadTimeIsInt DEF HeadTime, Blocks
<1>5. TxsOf(chain') = TxsOf(chain) \cup b.txs
  <2>1. ASSUME NEW x \in TxsOf(chain') PROVE x \in TxsOf(chain) \cup b.txs
    <3>1. PICK i \in 1 .. n + 1 : x \in chain'[i].txs
      BY <1>2 DEF TxsOf
    <3>2. CASE i = n + 1
      BY <1>2, <3>1, <3>2
    <3>3. CASE i # n + 1
      <4>1. i \in 1 .. n /\ x \in chain[i].txs
        BY <1>2, <3>1, <3>3
      <4> QED BY <4>1 DEF TxsOf
    <3> QED BY <3>2, <3>3
  <2>2. ASSUME NEW x \in TxsOf(chain) PROVE x \in TxsOf(chain')
    <3>1. PICK i \in 1 .. n : x \in chain[i].txs
      BY DEF TxsOf
    <3>2. i \in 1 .. n + 1 /\ x \in chain'[i].txs
      BY <1>2, <3>1
    <3> QED BY <1>2, <3>2 DEF TxsOf
  <2>3. ASSUME NEW x \in b.txs PROVE x \in TxsOf(chain')
    BY <1>2 DEF TxsOf
  <2> QED BY <2>1, <2>2, <2>3
<1>6. TypeOK'
  BY <1>1, <1>2, <1>3 DEF IInv, TypeOK
<1>7. Once'
  <2> SUFFICES ASSUME NEW i \in 1 .. n + 1, NEW j \in 1 .. n + 1,
                      NEW x \in chain'[i].txs, x \in chain'[j].txs
               PROVE  i = j
    BY <1>2 DEF Once
  <2>1. \A k \in 1 .. n : chain[k].txs \cap b.txs = {}
    BY DEF Admissible, TxsOf
  <2>2. CASE i \in 1 .. n /\ j \in 1 .. n
    BY <1>2, <2>2 DEF IInv, Once
  <2>3. CASE i = n + 1 /\ j # n + 1
    <3>1. j \in 1 .. n
      BY <2>3
    <3> QED BY <1>2, <2>1, <2>3, <3>1
  <2>4. CASE j = n + 1 /\ i # n + 1
    <3>1. i \in 1 .. n
      BY <2>4
    <3> QED BY <1>2, <2>1, <2>4, <3>1
  <2> QED BY <2>2, <2>3, <2>4
<1>8. ASSUME NEW c \in Callers PROVE Stack(c)' /\ (InCall(c)' <=> InCall(c))
  BY <1>1 DEF IInv, Stack, InCall
<1>9. ASSUME NEW x \in Txs PROVE Owner(x)'
  BY <1>1 DEF IInv, Owner, InCall
<1>10. ASSUME NEW x \in Txs, ~Admissible(x) PROVE ~Admissible(x)'
  <2>1. Expiration[x] \in Int
    BY SyncBroadcastAssumption
  <2> QED BY <1>4, <1>5, <1>10, <2>1 DEF Admissible
<1>11. ASSUME takenBack' = 0, NEW c \in Callers PROVE Straight(c)'
  <2> SUFFICES ASSUME InCall(c) PROVE Straight(c)'
    BY <1>8 DEF Straight
  <2>1. Straight(c) /\ tx[c] \in Txs /\ Expiration[tx[c]] \in Int
    BY <1>1, <1>11, SyncBroadcastAssumption DEF IInv, Stack
  <2>2. callbacks'[tx'[c]] = c \/ ~Admissible(tx[c])'
    BY <1>1, <1>10, <2>1 DEF Straight
  <2>3. call[c] \in Accepted /\ promise[c] = None => callbacks[tx[c]] = c
    BY <2>1 DEF Straight
  <2> QED BY <1>1, <2>2, <2>3 DEF Straight
<1>13. ASSUME NEW c \in Callers PROVE Sound(c)'
  <2> SUFFICES ASSUME InCall(c) PROVE Sound(c)'
    BY <1>8 DEF Sound
  <2>1. Sound(c) /\ tx[c] \in Txs /\ Expiration[tx[c]] \in Int
    BY SyncBroadcastAssumption DEF IInv, Stack
  <2>2. ASSUME call[c] \in Accepted, promise[c] = None, callbacks[tx[c]] = c
        PROVE  tx[c] \in TxsOf(chain') => tx[c] \in Last(chain').txs
    BY <1>1, <1>3, <1>5, <2>1, <2>2 DEF Sound
  <2>3. c \notin shaken /\ promise[c] = "confirmed" => tx[c] \in TxsOf(chain')
    BY <1>5, <2>1 DEF Sound
  <2>4. c \notin shaken /\ promise[c] = "expired" => Expiration[tx[c]] < b.time
    BY <1>4, <2>1 DEF Sound
  <2>5. ASSUME c \notin shaken, call[c] \in Accepted, promise[c] = "expired"
        PROVE  tx[c] \notin TxsOf(chain')
    <3>1. tx[c] \notin TxsOf(chain) /\ Expiration[tx[c]] < HeadTime
      BY <2>1, <2>5 DEF Sound
    <3>2. tx[c] \notin b.txs
      BY <1>4, <2>1, <3>1 DEF Admissible
    <3> QED BY <1>5, <3>1, <3>2
  <2> QED BY <1>1, <1>4, <2>2, <2>3, <2>4, <2>5 DEF Sound
<1>12. ASSUME takenBack' = 0, NEW c \in Callers, NEW d \in Callers PROVE Rivals(c, d)'
  BY <1>1, <1>8, <1>12 DEF IInv, Rivals
<1> QED BY <1>6, <1>7, <1>8, <1>9, <1>11, <1>12, <1>13 DEF IInv

\* What the handler for block b does to the promises and the table, when the
\* callbacks of A are called.
Answered(b, A) ==
    /\ applied /\ applied' = FALSE /\ UNCHANGED <<chain, fork, takenBack, call, tx, shaken>>
    /\ expirations' \in SUBSET Txs
    /\ b \in Blocks /\ HeadTime = b.time /\ b.txs \subseteq TxsOf(chain)
    /\ A \in SUBSET Txs
    /\ \A x \in A : x \in b.txs \/ Expiration[x] < b.time
    /\ \A x \in b.txs : callbacks[x] # None => x \in A
    /\ promise' \in [Callers -> {None, "confirmed", "expired"}]
    /\ callbacks' = [x \in Txs |-> IF x \in A THEN None ELSE callbacks[x]]
    /\ \A x \in A, c \in Callers : callbacks[x] = c =>
          tx[c] = x /\ promise'[c] = IF x \in b.txs THEN "confirmed" ELSE "expired"
    /\ \A c \in Callers : (\A x \in A : callbacks[x] # c) => promise'[c] = promise[c]

LEMMA OnPostApplyBlockIs ==
    ASSUME IInv, OnPostApplyBlock, NEW b, b = Last(chain), NEW A, A = DOMAIN Answers(b)
    PROVE  Answered(b, A)
<1>1. /\ applied /\ applied' = FALSE
      /\ promise' = [c \in Callers |->
             IF \E x \in A : callbacks[x] = c THEN Answers(b)[tx[c]] ELSE promise[c]]
      /\ callbacks' = [x \in Txs |-> IF x \in A THEN None ELSE callbacks[x]]
      /\ UNCHANGED <<chain, fork, takenBack, call, tx, shaken>>
  BY DEF OnPostApplyBlock
<1>2. b \in Blocks /\ HeadTime = b.time /\ b.txs \subseteq TxsOf(chain)
  <2> PICK n \in Nat : n = Len(chain)
    BY DEF IInv, TypeOK
  <2>1. chain # <<>> /\ n \in 1 .. n /\ b = chain[n]
    BY <1>1 DEF IInv, TypeOK, Last
  <2>2. b \in Blocks
    BY <2>1 DEF IInv, TypeOK
  <2> QED BY <2>1, <2>2 DEF HeadTime, TxsOf
<1>3. /\ A = {y \in b.txs \cup ExpiredBefore(b.time) : callbacks[y] # None}
      /\ \A x \in A : Answers(b)[x] = IF x \in b.txs THEN "confirmed" ELSE "expired"
  BY DEF Answers
<1>4. A \in SUBSET Txs /\ expirations' \in SUBSET Txs
  BY <1>2, <1>3 DEF Blocks, ExpiredBefore, IInv, TypeOK, OnPostApplyBlock
<1>5. ASSUME NEW x \in A, NEW c \in Callers, callbacks[x] = c
      PROVE  tx[c] = x /\ promise'[c] = IF x \in b.txs THEN "confirmed" ELSE "expired"
  <2>1. tx[c] = x
    BY <1>4, <1>5, SyncBroadcastAssumption DEF IInv, Owner
  <2> QED BY <1>1, <1>3, <1>5, <2>1
<1>6. promise' \in [Callers -> {None, "confirmed", "expired"}]
  <2>1. ASSUME NEW c \in Callers PROVE promise'[c] \in {None, "confirmed", "expired"}
    <3>1. CASE \E x \in A : callbacks[x] = c
      BY <1>5, <3>1
    <3>2. CASE ~\E x \in A : callbacks[x] = c
      BY <1>1, <3>2 DEF IInv, TypeOK
    <3> QED BY <3>1, <3>2
  <2> QED BY <1>1, <2>1
<1>7. /\ \A x \in A : x \in b.txs \/ Expiration[x] < b.time
      /\ \A x \in b.txs : callbacks[x] # None => x \in A
  BY <1>3 DEF ExpiredBefore
<1>8. \A c \in Callers : (\A x \in A : callbacks[x] # c) => promise'[c] = promise[c]
  BY <1>1
<1> QED BY <1>1, <1>2, <1>4, <1>5, <1>6, <1>7, <1>8 DEF Answered

LEMMA OnPostApplyBlockIInv ==
    ASSUME IInv, OnPostApplyBlock
    PROVE  IInv'
<1> PICK b, A : Answered(b, A) /\ b = Last(chain)
  BY OnPostApplyBlockIs
<1>1. /\ applied /\ applied' = FALSE /\ UNCHANGED <<chain, fork, takenBack, call, tx, shaken>>
      /\ b \in Blocks /\ HeadTime = b.time /\ b.txs \subseteq TxsOf(chain)
      /\ A \in SUBSET Txs
      /\ \A x \in A : x \in b.txs \/ Expiration[x] < b.time
      /\ callbacks' = [x \in Txs |-> IF x \in A THEN None ELSE callbacks[x]]
  BY DEF Answered
<1>2. \A x \in b.txs : callbacks[x] # None => x \in A
  BY DEF Answered
<1>3. /\ \A x \in A, c \in Callers : callbacks[x] = c =>
             tx[c] = x /\ promise'[c] = IF x \in b.txs THEN "confirmed" ELSE "expired"
      /\ \A c \in Callers : (\A x \in A : callbacks[x] # c) => promise'[c] = promise[c]
  BY DEF Answered
<1>4. HeadTime' = HeadTime /\ TxsOf(chain)' = TxsOf(chain) /\ (\A c : InCall(c)' <=> InCall(c))
  BY <1>1 DEF HeadTime, TxsOf, InCall
<1>5. TypeOK'
  <2>1. callbacks' \in [Txs -> Callers \cup {None}]
    BY <1>1 DEF IInv, TypeOK
  <2> QED BY <1>1, <2>1 DEF IInv, TypeOK, Answered, OnPostApplyBlock
<1>6. ASSUME NEW c \in Callers, NEW x \in A, callbacks[x] = c PROVE InCall(c)
  BY <1>1, <1>6, SyncBroadcastAssumption DEF IInv, Owner
<1>7. ASSUME NEW c \in Callers PROVE Stack(c)'
  <2>1. CASE InCall(c)
    BY <1>1, <1>4, <2>1 DEF IInv, Stack
  <2>2. CASE ~InCall(c)
    BY <1>1, <1>3, <1>4, <1>6, <2>2 DEF IInv, Stack
  <2> QED BY <2>1, <2>2
<1>8. ASSUME NEW x \in Txs PROVE Owner(x)'
  <2> SUFFICES ASSUME callbacks'[x] # None
               PROVE  /\ InCall(callbacks'[x]) /\ tx[callbacks'[x]] = x
                      /\ promise'[callbacks'[x]] = None
    BY <1>1, <1>4 DEF Owner
  <2>1. x \notin A /\ callbacks'[x] = callbacks[x]
    BY <1>1
  <2>2. PICK c \in Callers : c = callbacks[x]
    BY <2>1 DEF IInv, TypeOK
  <2>3. InCall(c) /\ tx[c] = x /\ promise[c] = None
    BY <2>1, <2>2 DEF IInv, Owner
  <2>4. \A y \in A : callbacks[y] # c
    BY <1>3, <2>1, <2>3
  <2> QED BY <1>3, <2>1, <2>2, <2>3, <2>4
<1>9. Once'
  BY <1>1 DEF IInv, Once
<1>10. ASSUME takenBack' = 0, NEW c \in Callers PROVE Straight(c)'
  <2> SUFFICES ASSUME InCall(c) PROVE Straight(c)'
    BY <1>4 DEF Straight
  <2>1. Straight(c) /\ tx[c] \in Txs /\ Expiration[tx[c]] \in Int /\ b.time \in Int
    BY <1>1, <1>10, SyncBroadcastAssumption DEF IInv, Stack, Blocks
  <2>2. c # None /\ None # "confirmed" /\ None # "expired"
    BY SyncBroadcastAssumption
  <2>3. Admissible(tx[c])' <=> Admissible(tx[c])
    BY <1>1, <1>4 DEF Admissible
  <2>4. CASE tx[c] \in A /\ callbacks[tx[c]] = c
    <3>1. promise'[c] # None
      BY <1>3, <2>2, <2>4
    <3>2. ~Admissible(tx[c])
      BY <1>1, <2>1, <2>4 DEF Admissible
    <3> QED BY <1>1, <1>4, <2>3, <3>1, <3>2 DEF Straight
  <2>5. CASE ~(tx[c] \in A /\ callbacks[tx[c]] = c)
    <3>1. promise'[c] = promise[c]
      BY <1>3, <2>5
    <3>2. callbacks[tx[c]] = c => callbacks'[tx[c]] = c
      BY <1>1, <2>1, <2>5
    <3> QED BY <1>1, <1>4, <2>1, <2>3, <3>1, <3>2 DEF Straight
  <2> QED BY <2>4, <2>5
<1>12. ASSUME NEW c \in Callers PROVE Sound(c)'
  <2> SUFFICES ASSUME InCall(c) PROVE Sound(c)'
    BY <1>4 DEF Sound
  <2>1. Sound(c) /\ tx[c] \in Txs /\ Expiration[tx[c]] \in Int /\ b.time \in Int
    BY <1>1, SyncBroadcastAssumption DEF IInv, Stack, Blocks
  <2>2. c # None /\ None # "confirmed" /\ None # "expired"
    BY SyncBroadcastAssumption
  <2>3. CASE tx[c] \in A /\ callbacks[tx[c]] = c
    <3>1. promise'[c] = IF tx[c] \in b.txs THEN "confirmed" ELSE "expired"
      BY <1>3, <2>3
    <3>2. promise[c] = None
      BY <2>1, <2>2, <2>3 DEF IInv, Owner
    <3>3. promise'[c] = "expired" => Expiration[tx[c]] < b.time /\ tx[c] \notin b.txs
      BY <1>1, <2>3, <3>1
    <3>4. call[c] \in Accepted /\ promise'[c] = "expired" => tx[c] \notin TxsOf(chain)
      BY <1>1, <2>1, <2>3, <3>2, <3>3 DEF Sound
    <3>5. promise'[c] = "confirmed" => tx[c] \in TxsOf(chain)
      BY <1>1, <3>1
    <3>6. promise'[c] # None
      BY <2>2, <3>1
    <3> QED BY <1>1, <1>4, <3>3, <3>4, <3>5, <3>6 DEF Sound
  <2>4. CASE ~(tx[c] \in A /\ callbacks[tx[c]] = c)
    <3>1. promise'[c] = promise[c]
      BY <1>3, <2>4
    <3>2. callbacks'[tx[c]] = c => callbacks[tx[c]] = c
      BY <1>1, <2>1, <2>2
    <3>3. ASSUME call[c] \in Accepted, promise[c] = None, callbacks[tx[c]] = c
          PROVE  tx[c] \notin TxsOf(chain)
      <4>1. tx[c] \in TxsOf(chain) => tx[c] \in b.txs
        BY <2>1, <3>3 DEF Sound
      <4>2. tx[c] \notin b.txs
        BY <1>2, <2>2, <2>4, <3>3
      <4> QED BY <4>1, <4>2
    <3> QED BY <1>1, <1>4, <2>1, <3>1, <3>2, <3>3 DEF Sound
  <2> QED BY <2>3, <2>4
<1>11. ASSUME takenBack' = 0, NEW c \in Callers, NEW d \in Callers PROVE Rivals(c, d)'
  <2> SUFFICES ASSUME c # d, InCall(c), InCall(d), tx[c] = tx[d], callbacks'[tx[d]] = d
               PROVE  call[d] \notin Accepted
    BY <1>1, <1>4 DEF Rivals
  <2>1. tx[d] \in Txs /\ d # None
    BY SyncBroadcastAssumption DEF IInv, Stack
  <2>2. callbacks[tx[d]] = d
    BY <1>1, <2>1
  <2> QED BY <1>1, <1>11, <2>2 DEF IInv, Rivals
<1> QED BY <1>5, <1>7, <1>8, <1>9, <1>10, <1>11, <1>12 DEF IInv

\* migrate_irreversible_state changes nothing that calls look at.
LEMMA MigrateIInv ==
    ASSUME IInv, Migrate
    PROVE  IInv'
<1>1. /\ UNCHANGED <<chain, takenBack, applied, call, tx, promise, shaken, callbacks, expirations>>
      /\ migrating' = FALSE /\ fork' \in Nat
  BY DEF Migrate, Restore, tables, IInv, TypeOK
<1>2. TypeOK'
  BY <1>1 DEF IInv, TypeOK
<1>3. ASSUME NEW c \in Callers PROVE Sound(c)' /\ Stack(c)' /\ (InCall(c)' <=> InCall(c))
  BY <1>1, OthersSound DEF IInv, Stack, InCall
<1>4. ASSUME NEW x \in Txs PROVE Owner(x)'
  BY <1>1 DEF IInv, Owner, InCall
<1>5. ASSUME takenBack' = 0, NEW c \in Callers PROVE Straight(c)'
  BY <1>1, <1>5, OthersStraight DEF IInv
<1>6. ASSUME takenBack' = 0, NEW c \in Callers, NEW d \in Callers PROVE Rivals(c, d)'
  BY <1>1, <1>3, <1>6 DEF IInv, Rivals
<1> QED BY <1>1, <1>2, <1>3, <1>4, <1>5, <1>6, ChainStays DEF IInv

\* Blocks are taken back: nothing is left to show of the answers given so far.
LEMMA TakeBackIInv ==
    ASSUME IInv, ~applied, NEW n \in Nat, n <= Len(chain), TakeBackTo(n),
           migrating' = FALSE, fork' \in Nat
    PROVE  IInv'
<1> PICK k \in Nat : k = Len(chain)
  BY DEF IInv, TypeOK
<1>1. /\ takenBack' = takenBack + 1 /\ chain' = SubSeq(chain, 1, n)
      /\ shaken' = {c \in Callers : promise[c] # None}
      /\ UNCHANGED <<applied, call, tx, promise, callbacks, expirations>>
  BY DEF TakeBackTo, tables
<1>2. /\ chain' \in Seq(Blocks) /\ Len(chain') = n
      /\ \A i \in 1 .. n : i \in 1 .. k /\ chain'[i] = chain[i]
  BY <1>1 DEF IInv, TypeOK
<1>3. takenBack' \in Nat /\ takenBack' # 0
  BY <1>1 DEF IInv, TypeOK
<1>4. TypeOK'
  BY <1>1, <1>2, <1>3 DEF IInv, TypeOK
<1>5. Once'
  BY <1>2 DEF IInv, Once
<1>6. (\A c \in Callers : Stack(c)') /\ (\A x \in Txs : Owner(x)')
  BY <1>1 DEF IInv, Stack, Owner, InCall
<1>7. TxsOf(chain') \subseteq TxsOf(chain)
  <2> SUFFICES ASSUME NEW x \in TxsOf(chain') PROVE x \in TxsOf(chain)
    OBVIOUS
  <2>1. PICK i \in 1 .. n : x \in chain'[i].txs
    BY <1>2 DEF TxsOf
  <2>2. i \in 1 .. k /\ x \in chain[i].txs
    BY <1>2, <2>1
  <2> QED BY <2>2 DEF TxsOf
<1>8. ASSUME NEW c \in Callers PROVE Sound(c)'
  <2>1. Sound(c) /\ (InCall(c)' <=> InCall(c))
    BY <1>1 DEF IInv, InCall
  <2>2. None # "confirmed" /\ None # "expired"
    BY SyncBroadcastAssumption
  <2> QED BY <1>1, <1>7, <2>1, <2>2 DEF Sound
<1> QED BY <1>3, <1>4, <1>5, <1>6, <1>8 DEF IInv

LEMMA TakesBackIInv ==
    ASSUME IInv, MigrationFails \/ SwitchForks \/ BranchFails
    PROVE  IInv'
<1> PICK k \in Nat : k = Len(chain)
  BY DEF IInv, TypeOK
<1>1. CASE MigrationFails
  <2>1. ~applied /\ k # 0 /\ k - 1 \in Nat /\ k - 1 <= k
    BY <1>1 DEF MigrationFails, IInv, TypeOK
  <2>2. TakeBackTo(k - 1) /\ migrating' = FALSE /\ fork' \in Nat
    BY <1>1 DEF MigrationFails, Restore
  <2> QED BY <2>1, <2>2, TakeBackIInv
<1>2. CASE SwitchForks
  <2>1. PICK n \in 0 .. k - 1 : fork' = n /\ TakeBackTo(n)
    BY <1>2 DEF SwitchForks
  <2>2. ~applied /\ migrating' = FALSE
    BY <1>2 DEF SwitchForks, WriterIdle
  <2>3. n \in Nat /\ n <= Len(chain) /\ fork' \in Nat
    BY <2>1
  <2> QED BY <2>1, <2>2, <2>3, TakeBackIInv
<1>3. CASE BranchFails
  <2>1. ~applied /\ TakeBackTo(fork) /\ migrating' = FALSE /\ fork' = fork
    BY <1>3 DEF BranchFails
  <2>2. fork \in Nat /\ fork <= k
    BY <1>3 DEF BranchFails, IInv, TypeOK
  <2> QED BY <2>1, <2>2, TakeBackIInv
<1> QED BY <1>1, <1>2, <1>3

-----------------------------------------------------------------------------
LEMMA Inductive == Spec => []IInv
<1>1. IInv /\ [Next]_vars => IInv'
  <2> SUFFICES ASSUME IInv, [Next]_vars PROVE IInv'
    OBVIOUS
  <2>1. CASE \E c \in Callers, x \in Txs : Register(c, x)
    BY <2>1, RegisterIInv
  <2>2. CASE \E c \in Callers : Accept(c) \/ Reject(c) \/ Broadcast(c) \/ Catch(c) \/ Return(c)
    BY <2>2, CallerIInv
  <2>3. CASE ApplyBlock
    BY <2>3, ApplyBlockIInv
  <2>4. CASE OnPostApplyBlock
    BY <2>4, OnPostApplyBlockIInv
  <2>5. CASE MigrationFails \/ SwitchForks \/ BranchFails
    BY <2>5, TakesBackIInv
  <2>6. CASE UNCHANGED vars
    BY <2>6 DEF vars, chainVars, tables, IInv, TypeOK, Stack, Owner, Once, Sound, Straight, Rivals,
                InCall, Admissible, HeadTime, TxsOf
  <2>7. CASE Migrate
    BY <2>7, MigrateIInv
  <2> QED BY <2>1, <2>2, <2>3, <2>4, <2>5, <2>6, <2>7 DEF Next
<1> QED BY <1>1, InitIInv, PTL DEF Spec

\* A callback in _callbacks always sets the promise of a call for its
\* transaction that is still on its thread's stack and was not answered, for
\* any threads and transactions that race: the write thread neither writes to
\* a stack that is gone nor sets a promise twice.  And without a switch of
\* forks no call that waits has lost its callback to another call's error path.
THEOREM CallbacksMatch == Spec => []CallbacksMatchCalls
<1>1. IInv => CallbacksMatchCalls
  <2> SUFFICES ASSUME IInv PROVE CallbacksMatchCalls
    OBVIOUS
  <2>1. \A x \in Txs : callbacks[x] # None =>
            tx[callbacks[x]] = x /\ promise[callbacks[x]] = None
    BY DEF IInv, Owner
  <2>2. takenBack = 0 => WaiterHasCallback
    BY DEF IInv, Straight, WaiterHasCallback, InCall, Accepted
  <2> QED BY <2>1, <2>2 DEF CallbacksMatchCalls
<1> QED BY <1>1, Inductive, PTL

\* What broadcast_transaction_synchronous tells a client is true and stays true
\* until blocks are taken back, by a switch of forks or because the move to the
\* block log failed after the answer was given: a confirmed transaction is in
\* exactly one block, an expired one in none.
THEOREM AnswersStand == Spec => []AnswerStands
<1>1. IInv => AnswerStands
  <2> SUFFICES ASSUME IInv, NEW c \in Callers \ shaken, call[c] = "waiting"
               PROVE  /\ promise[c] = "confirmed" =>
                            Cardinality({i \in DOMAIN chain : tx[c] \in chain[i].txs}) = 1
                      /\ promise[c] = "expired" => tx[c] \notin TxsOf(chain)
    BY DEF AnswerStands
  <2>1. Sound(c) /\ InCall(c) /\ call[c] \in Accepted
    BY DEF IInv, InCall, Accepted
  <2>2. promise[c] = "expired" => tx[c] \notin TxsOf(chain)
    BY <2>1 DEF Sound
  <2>3. ASSUME promise[c] = "confirmed"
        PROVE  Cardinality({i \in DOMAIN chain : tx[c] \in chain[i].txs}) = 1
    <3>1. DOMAIN chain = 1 .. Len(chain)
      BY DEF IInv, TypeOK
    <3>2. PICK k \in 1 .. Len(chain) : tx[c] \in chain[k].txs
      BY <2>1, <2>3 DEF Sound, TxsOf
    <3>3. {i \in DOMAIN chain : tx[c] \in chain[i].txs} = {k}
      BY <3>1, <3>2 DEF IInv, Once
    <3> QED BY <3>3, FS_Singleton
  <2> QED BY <2>2, <2>3
<1> QED BY <1>1, Inductive, PTL
=============================================================================
