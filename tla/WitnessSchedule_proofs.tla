----------------------- MODULE WitnessSchedule_proofs -----------------------
(***************************************************************************)
(* Proofs about WitnessSchedule for any finite set of witnesses, any       *)
(* number of places, any votes and any width of virtual time.              *)
(***************************************************************************)
EXTENDS WitnessSchedule, NaturalsInduction, WellFoundedInduction, FiniteSetTheorems, FunctionTheorems, TLAPS

-----------------------------------------------------------------------------
(* A set of naturals that is not empty has a least element.                *)

LEMMA LeastExists ==
    ASSUME NEW S \in SUBSET Nat, S # {}
    PROVE  \E j \in S : \A k \in S : j <= k
<1>1. PICK j \in S : \A k \in S : ~(<<k, j>> \in OpToRel(<, Nat))
  BY NatLessThanWellFounded, WFMin
<1>2. ASSUME NEW k \in S PROVE j <= k
  <2>1. <<k, j>> \in OpToRel(<, Nat) <=> k < j
    BY DEF OpToRel
  <2>2. ~(k < j)
    BY <1>1, <2>1
  <2>3. j \in Nat /\ k \in Nat
    OBVIOUS
  <2> QED BY <2>2, <2>3
<1> QED BY <1>2

-----------------------------------------------------------------------------
(* The first n of a finite set in a total order.                           *)

\* R orders S totally.
Orders(R, S) ==
    /\ \A v \in S : <<v, v>> \notin R
    /\ \A u, v, w \in S : <<u, v>> \in R /\ <<v, w>> \in R => <<u, w>> \in R
    /\ \A v, w \in S : v = w \/ <<v, w>> \in R \/ <<w, v>> \in R

Before(R, S, w) == {v \in S : <<v, w>> \in R}

First(R, S, n) == {w \in S : Cardinality(Before(R, S, w)) < n}

LEMMA IntervalCount ==
    ASSUME NEW n \in Nat
    PROVE  IsFiniteSet(0 .. n - 1) /\ Cardinality(0 .. n - 1) = n
<1>1. PICK m \in Int : m = n - 1
  OBVIOUS
<1>2. /\ IsFiniteSet(0 .. m)
      /\ Cardinality(0 .. m) = IF 0 > m THEN 0 ELSE m - 0 + 1
  BY FS_Interval
<1> QED BY <1>1, <1>2

LEMMA BeforeIsSmaller ==
    ASSUME NEW S, IsFiniteSet(S), NEW R, Orders(R, S), NEW w \in S
    PROVE  /\ IsFiniteSet(Before(R, S, w))
           /\ Cardinality(Before(R, S, w)) \in 0 .. Cardinality(S) - 1
<1>1. Before(R, S, w) \in SUBSET S /\ w \notin Before(R, S, w)
  BY DEF Before, Orders
<1>2. IsFiniteSet(Before(R, S, w)) /\ Cardinality(Before(R, S, w)) <= Cardinality(S)
  BY <1>1, FS_Subset
<1>3. Cardinality(S) # Cardinality(Before(R, S, w))
  BY <1>1, FS_Subset
<1>4. Cardinality(S) \in Nat /\ Cardinality(Before(R, S, w)) \in Nat
  BY <1>2, FS_CardinalityType
<1> QED BY <1>2, <1>3, <1>4

LEMMA BeforeGrows ==
    ASSUME NEW S, IsFiniteSet(S), NEW R, Orders(R, S),
           NEW v \in S, NEW w \in S, <<v, w>> \in R
    PROVE  Cardinality(Before(R, S, v)) < Cardinality(Before(R, S, w))
<1>1. Before(R, S, v) \in SUBSET Before(R, S, w)
  BY DEF Before, Orders
<1>2. Before(R, S, v) # Before(R, S, w)
  BY DEF Before, Orders
<1>3. IsFiniteSet(Before(R, S, w)) /\ IsFiniteSet(Before(R, S, v))
  BY BeforeIsSmaller
<1>4. /\ Cardinality(Before(R, S, v)) <= Cardinality(Before(R, S, w))
      /\ Cardinality(Before(R, S, w)) # Cardinality(Before(R, S, v))
  BY <1>1, <1>2, <1>3, FS_Subset
<1>5. Cardinality(Before(R, S, v)) \in Nat /\ Cardinality(Before(R, S, w)) \in Nat
  BY <1>3, FS_CardinalityType
<1> QED BY <1>4, <1>5

\* The rank of an element is a bijection with the first naturals, so that
\* exactly n elements have fewer than n before them.
LEMMA FirstCount ==
    ASSUME NEW S, IsFiniteSet(S), NEW R, Orders(R, S), NEW n \in Nat
    PROVE  /\ IsFiniteSet(First(R, S, n))
           /\ Cardinality(First(R, S, n)) = IF n <= Cardinality(S) THEN n ELSE Cardinality(S)
<1> PICK N \in Nat : N = Cardinality(S)
  BY FS_CardinalityType
<1> DEFINE Rank == [w \in S |-> Cardinality(Before(R, S, w))]
           F    == First(R, S, n)
<1>1. Rank \in [S -> 0 .. N - 1]
  BY BeforeIsSmaller
<1>2. ASSUME NEW v \in S, NEW w \in S, Rank[v] = Rank[w] PROVE v = w
  <2>1. Cardinality(Before(R, S, v)) = Cardinality(Before(R, S, w))
    BY <1>2
  <2>2. Cardinality(Before(R, S, v)) \in Int
    BY BeforeIsSmaller
  <2>3. <<v, w>> \notin R /\ <<w, v>> \notin R
    BY <2>1, <2>2, BeforeGrows
  <2> QED BY <2>3 DEF Orders
<1>3. Rank \in Injection(S, 0 .. N - 1)
  BY <1>1, <1>2, Fun_IsInj
<1>4. IsFiniteSet(0 .. N - 1) /\ Cardinality(0 .. N - 1) = N
  BY IntervalCount
<1>5. \A k \in 0 .. N - 1 : \E w \in S : Rank[w] = k
  <2>1. Rank \in Surjection(S, 0 .. N - 1)
    BY <1>3, <1>4, FS_Injection
  <2> HIDE DEF Rank
  <2> QED BY <2>1 DEF Surjection
<1>6. F \in SUBSET S /\ IsFiniteSet(F)
  <2>1. F \in SUBSET S
    BY DEF First
  <2> QED BY <2>1, FS_Subset
<1>7. \A w \in S : w \in F <=> Rank[w] < n
  BY DEF First
<1>8. CASE n <= N
  <2> DEFINE G == [w \in F |-> Rank[w]]
  <2>1. G \in [F -> 0 .. n - 1]
    BY <1>1, <1>6, <1>7
  <2>2. \A v, w \in F : G[v] = G[w] => v = w
    BY <1>2, <1>6
  <2>3. ASSUME NEW k \in 0 .. n - 1 PROVE \E w \in F : G[w] = k
    <3>1. k \in 0 .. N - 1
      BY <1>8
    <3>2. PICK w \in S : Rank[w] = k
      BY <1>5, <3>1
    <3>3. w \in F
      BY <1>7, <3>2
    <3> QED BY <3>2, <3>3
  <2>4. G \in Bijection(F, 0 .. n - 1)
    BY <2>1, <2>2, <2>3, Fun_IsBij
  <2>5. ExistsBijection(F, 0 .. n - 1)
    BY <2>4 DEF ExistsBijection
  <2>6. Cardinality(0 .. n - 1) = Cardinality(F)
    BY <1>6, <2>5, FS_Bijection
  <2>7. Cardinality(0 .. n - 1) = n
    BY IntervalCount
  <2> QED BY <1>6, <1>8, <2>6, <2>7
<1>9. CASE ~(n <= N)
  <2>1. \A w \in S : Rank[w] < n
    BY <1>1, <1>9
  <2>2. F = S
    BY <1>6, <1>7, <2>1
  <2> QED BY <1>6, <1>9, <2>2
<1> QED BY <1>8, <1>9

-----------------------------------------------------------------------------
(* The type invariant.                                                     *)

Known ==
    /\ known \in SUBSET Names /\ known # {}
    /\ key \in SUBSET known

TypeOK ==
    /\ Known
    /\ votes \in [Names -> Nat]
    /\ lastUpdate \in [Names -> 0 .. Lap]
    /\ position \in [Names -> 0 .. Lap]
    /\ due \in [Names -> 0 .. Lap]
    /\ now \in 0 .. Lap

-----------------------------------------------------------------------------
(* Elected and timeshare witnesses.                                        *)

ByVotes(S) == {p \in S \X S : MoreVotes(p[1], p[2])}
ByTime(S)  == {p \in S \X S : Earlier(p[1], p[2])}

LEMMA FirstByVotesCount ==
    ASSUME TypeOK, NEW S \in SUBSET Names, NEW n \in Nat
    PROVE  /\ IsFiniteSet(FirstByVotes(S, n))
           /\ FirstByVotes(S, n) \subseteq S
           /\ Cardinality(FirstByVotes(S, n)) =
                 IF n <= Cardinality(S) THEN n ELSE Cardinality(S)
<1>1. IsFiniteSet(S)
  BY WitnessScheduleAssumption, FS_Subset
<1>2. \A v \in S : v \in Nat /\ votes[v] \in Nat
  BY WitnessScheduleAssumption DEF TypeOK
<1>3. Orders(ByVotes(S), S)
  <2>1. \A v, w \in S : <<v, w>> \in ByVotes(S) <=> MoreVotes(v, w)
    BY DEF ByVotes
  <2> QED BY <1>2, <2>1 DEF Orders, MoreVotes
<1>4. FirstByVotes(S, n) = First(ByVotes(S), S, n)
  <2>1. ASSUME NEW w \in S PROVE {v \in S : MoreVotes(v, w)} = Before(ByVotes(S), S, w)
    BY DEF Before, ByVotes
  <2> QED BY <2>1 DEF FirstByVotes, First
<1>5. FirstByVotes(S, n) \subseteq S
  BY DEF FirstByVotes
<1> QED BY <1>1, <1>3, <1>4, <1>5, FirstCount

LEMMA FirstByTimeCount ==
    ASSUME TypeOK, NEW S \in SUBSET Names, NEW n \in Nat
    PROVE  /\ IsFiniteSet(FirstByTime(S, n))
           /\ FirstByTime(S, n) \subseteq S
           /\ Cardinality(FirstByTime(S, n)) =
                 IF n <= Cardinality(S) THEN n ELSE Cardinality(S)
<1>1. IsFiniteSet(S)
  BY WitnessScheduleAssumption, FS_Subset
<1>2. \A v \in S : v \in Nat /\ due[v] \in Nat
  BY WitnessScheduleAssumption DEF TypeOK
<1>3. Orders(ByTime(S), S)
  <2>1. \A v, w \in S : <<v, w>> \in ByTime(S) <=> Earlier(v, w)
    BY DEF ByTime
  <2> QED BY <1>2, <2>1 DEF Orders, Earlier
<1>4. FirstByTime(S, n) = First(ByTime(S), S, n)
  <2>1. ASSUME NEW w \in S PROVE {v \in S : Earlier(v, w)} = Before(ByTime(S), S, w)
    BY DEF Before, ByTime
  <2> QED BY <2>1 DEF FirstByTime, First
<1>5. FirstByTime(S, n) \subseteq S
  BY DEF FirstByTime
<1> QED BY <1>1, <1>3, <1>4, <1>5, FirstCount

\* There are places left for the witnesses that are not elected.
LEMMA PlacesLeft ==
    ASSUME TypeOK
    PROVE  /\ Keyed \in SUBSET Names /\ IsFiniteSet(Keyed)
           /\ Elected \subseteq Keyed /\ IsFiniteSet(Elected)
           /\ Cardinality(Elected) =
                 IF MaxVoted <= Cardinality(Keyed) THEN MaxVoted ELSE Cardinality(Keyed)
           /\ Places \in Nat \ {0}
           /\ Timeshare \subseteq Keyed \ Elected /\ IsFiniteSet(Timeshare)
           /\ Cardinality(Timeshare) =
                 IF Places <= Cardinality(Keyed \ Elected) THEN Places
                 ELSE Cardinality(Keyed \ Elected)
<1>1. Keyed \in SUBSET Names /\ IsFiniteSet(Keyed)
  <2>1. Keyed \in SUBSET Names
    BY DEF TypeOK, Known, Keyed
  <2> QED BY <2>1, WitnessScheduleAssumption, FS_Subset
<1>2. MaxVoted \in Nat /\ MaxVoted <= MaxWitnesses - 1 /\ MaxWitnesses \in Nat
  BY WitnessScheduleAssumption
<1>3. /\ Elected \subseteq Keyed /\ IsFiniteSet(Elected)
      /\ Cardinality(Elected) =
            IF MaxVoted <= Cardinality(Keyed) THEN MaxVoted ELSE Cardinality(Keyed)
  BY <1>1, <1>2, FirstByVotesCount DEF Elected
<1>4. Places \in Nat \ {0}
  <2>1. Cardinality(Keyed) \in Nat
    BY <1>1, FS_CardinalityType
  <2> QED BY <1>2, <1>3, <2>1 DEF Places
<1>5. Keyed \ Elected \in SUBSET Names
  BY <1>1
<1>6. /\ Timeshare \subseteq Keyed \ Elected /\ IsFiniteSet(Timeshare)
      /\ Cardinality(Timeshare) =
            IF Places <= Cardinality(Keyed \ Elected) THEN Places
            ELSE Cardinality(Keyed \ Elected)
  BY <1>4, <1>5, FirstByTimeCount DEF Timeshare
<1> QED BY <1>1, <1>3, <1>4, <1>6

LEMMA MinOfTwo ==
    ASSUME NEW m \in Nat, NEW n \in Nat
    PROVE  Min({m, n}) = IF m <= n THEN m ELSE n
<1>1. \E x \in {m, n} : \A y \in {m, n} : x <= y
  OBVIOUS
<1>2. Min({m, n}) \in {m, n} /\ \A y \in {m, n} : Min({m, n}) <= y
  BY <1>1 DEF Min
<1> QED BY <1>2

\* The two kinds of witnesses together fill the places there are, if there are
\* witnesses with a key for them.
LEMMA FillsPlaces ==
    ASSUME TypeOK
    PROVE  ScheduleCanBeFilled
<1> SUFFICES ASSUME EnoughKeys PROVE CanBeFilled
  BY DEF ScheduleCanBeFilled
<1> PICK k \in Nat : k = Cardinality(Keyed)
  BY PlacesLeft, FS_CardinalityType
<1> PICK e \in Nat : e = Cardinality(Elected)
  BY PlacesLeft, FS_CardinalityType
<1>1. known \in SUBSET Names /\ IsFiniteSet(known)
  <2>1. known \in SUBSET Names
    BY DEF TypeOK, Known
  <2> QED BY <2>1, WitnessScheduleAssumption, FS_Subset
<1> PICK n \in Nat : n = Cardinality(known)
  BY <1>1, FS_CardinalityType
<1>2. Cardinality(Keyed \ Elected) = k - e
  <2>1. Keyed \cap Elected = Elected
    BY PlacesLeft
  <2> QED BY <2>1, PlacesLeft, FS_Difference
<1>3. Cardinality(Active) = e + Cardinality(Timeshare)
  <2>1. Elected \cap Timeshare = {}
    BY PlacesLeft
  <2>2. Cardinality(Active) = e + Cardinality(Timeshare) - Cardinality({})
    BY <2>1, PlacesLeft, FS_Union DEF Active
  <2>3. Cardinality(Timeshare) \in Nat
    BY PlacesLeft, FS_CardinalityType
  <2> QED BY <2>2, <2>3, FS_EmptySet
<1>4. e = IF MaxVoted <= k THEN MaxVoted ELSE k
  BY PlacesLeft
<1>5. Cardinality(Timeshare) =
          IF MaxWitnesses - e <= k - e THEN MaxWitnesses - e ELSE k - e
  BY <1>2, PlacesLeft DEF Places
<1>6. MaxVoted \in Nat /\ MaxVoted <= MaxWitnesses - 1 /\ MaxWitnesses \in Nat
  BY WitnessScheduleAssumption
<1>7. Cardinality(Active) = IF MaxWitnesses <= k THEN MaxWitnesses ELSE k
  BY <1>3, <1>4, <1>5, <1>6
<1>8. k <= n
  BY <1>1, FS_Subset DEF Keyed
<1>9. k = n \/ MaxWitnesses <= k
  BY DEF EnoughKeys
<1>10. Min({MaxWitnesses, n}) = IF MaxWitnesses <= n THEN MaxWitnesses ELSE n
  BY <1>6, MinOfTwo
<1> QED BY <1>6, <1>7, <1>8, <1>9, <1>10 DEF CanBeFilled

-----------------------------------------------------------------------------
(* Arithmetic of virtual time.                                             *)

LEMMA WrapFits ==
    ASSUME NEW n \in 0 .. Lap
    PROVE  Wrap(n) = n
<1>1. Lap \in Nat
  BY WitnessScheduleAssumption
<1> QED BY <1>1 DEF Wrap

LEMMA WrapOver ==
    ASSUME NEW n \in Lap + 1 .. 2 * Lap + 1
    PROVE  Wrap(n) = n - Lap - 1
<1>1. Lap \in Nat
  BY WitnessScheduleAssumption
<1>2. PICK m \in Nat : m = Lap + 1 /\ m > 0
  BY <1>1
<1>3. n \in Int /\ m <= n /\ n < 2 * m
  BY <1>1, <1>2
<1>4. n = 1 * m + (n - m) /\ 0 <= n - m /\ n - m < m
  BY <1>3
<1>5. n % m = n - m
  BY <1>2, <1>3, <1>4
<1> QED BY <1>1, <1>2, <1>3, <1>5 DEF Wrap

\* A lap that is divided among v votes and one is not exceeded by v of them.
LEMMA DivFits ==
    ASSUME NEW a \in Nat, NEW v \in Nat
    PROVE  /\ a \div (v + 1) \in 0 .. a
           /\ v * (a \div (v + 1)) <= a
<1>1. PICK m \in Nat : m = v + 1 /\ m > 0
  OBVIOUS
<1>2. PICK q \in Int : q = a \div m
  BY <1>1
<1>3. m * q <= a /\ a < m * q + m
  BY <1>1, <1>2
<1>4. q >= 0
  BY <1>1, <1>3
<1>5. m * q = v * q + q
  BY <1>1
<1>6. v * q >= 0
  BY <1>4
<1> QED BY <1>1, <1>2, <1>3, <1>4, <1>5, <1>6

LEMMA ProductGrows ==
    ASSUME NEW v \in Nat, NEW x \in Nat, NEW y \in Nat, x <= y
    PROVE  v * x \in Nat /\ v * x <= v * y
<1>1. PICK d \in Nat : y = x + d
  <2>1. y - x \in Nat /\ y = x + (y - x)
    OBVIOUS
  <2> QED BY <2>1
<1>2. v * y = v * x + v * d
  BY <1>1
<1>3. v * d \in Nat /\ v * x \in Nat
  OBVIOUS
<1> QED BY <1>2, <1>3

-----------------------------------------------------------------------------
(* The inductive invariant.  VirtualTimeInLap bounds how far a witness has *)
(* run by now; what is kept is that it will not have run more than a lap   *)
(* when it is due, and that nobody who is not a witness yet has run.       *)

OnTime(w) ==
    /\ lastUpdate[w] <= now /\ now <= due[w]
    /\ position[w] + votes[w] * (due[w] - lastUpdate[w]) <= Lap

Fresh(w) == votes[w] = 0 /\ lastUpdate[w] = 0 /\ position[w] = 0 /\ due[w] = Lap

IInv ==
    /\ TypeOK
    /\ \A w \in known : OnTime(w)
    /\ \A w \in Names \ known : Fresh(w)

LEMMA IInvBoundsTime ==
    ASSUME IInv
    PROVE  /\ VirtualTimeInLap
           /\ \A w \in known :
                 /\ now - lastUpdate[w] \in 0 .. Lap
                 /\ votes[w] * (now - lastUpdate[w]) \in Nat
<1> SUFFICES ASSUME NEW w \in known
             PROVE  /\ lastUpdate[w] <= now /\ now <= due[w] /\ due[w] <= Lap
                    /\ position[w] + votes[w] * (now - lastUpdate[w]) <= Lap
                    /\ now - lastUpdate[w] \in 0 .. Lap
                    /\ votes[w] * (now - lastUpdate[w]) \in Nat
  BY DEF VirtualTimeInLap
<1>1. w \in Names /\ Lap \in Nat
  BY WitnessScheduleAssumption DEF IInv, TypeOK, Known
<1>2. PICK l \in 0 .. Lap, p \in 0 .. Lap, d \in 0 .. Lap, v \in Nat, t \in 0 .. Lap :
          l = lastUpdate[w] /\ p = position[w] /\ d = due[w] /\ v = votes[w] /\ t = now
  BY <1>1 DEF IInv, TypeOK
<1>3. l <= t /\ t <= d /\ p + v * (d - l) <= Lap
  BY <1>2 DEF IInv, OnTime
<1>4. t - l \in Nat /\ d - l \in Nat /\ t - l <= d - l
  BY <1>1, <1>3
<1>5. v * (t - l) \in Nat /\ v * (t - l) <= v * (d - l)
  BY <1>4, ProductGrows
<1>6. v * (d - l) \in Nat
  BY <1>4
<1>7. p + v * (t - l) <= Lap
  BY <1>1, <1>3, <1>5, <1>6
<1> QED BY <1>1, <1>2, <1>3, <1>4, <1>5, <1>7

LEMMA InitIInv == Init => IInv
<1> SUFFICES ASSUME Init PROVE IInv
  OBVIOUS
<1>1. Lap \in Nat
  BY WitnessScheduleAssumption
<1>2. TypeOK
  <2>1. Known
    BY DEF Init, Known
  <2> QED BY <1>1, <2>1 DEF Init, TypeOK
<1>3. ASSUME NEW w \in Names PROVE OnTime(w) /\ Fresh(w)
  BY <1>1 DEF Init, OnTime, Fresh
<1>4. known \subseteq Names
  BY <1>2 DEF TypeOK, Known
<1> QED BY <1>2, <1>3, <1>4 DEF IInv

LEMMA WitnessUpdateIInv ==
    ASSUME IInv, NEW w \in Names, NEW valid \in BOOLEAN, WitnessUpdate(w, valid)
    PROVE  IInv'
<1>1. Lap \in Nat
  BY WitnessScheduleAssumption
<1>2. UNCHANGED <<votes, lastUpdate, position, due, now>> /\ known' = known \cup {w}
  BY DEF WitnessUpdate
<1>3. TypeOK'
  <2>1. key' \in SUBSET known'
    BY DEF WitnessUpdate, IInv, TypeOK, Known
  <2> QED BY <1>2, <2>1 DEF IInv, TypeOK, Known
<1>4. ASSUME NEW u \in known' PROVE OnTime(u)'
  <2>1. CASE u \in known
    BY <1>2, <2>1 DEF IInv, OnTime
  <2>2. CASE u \notin known
    <3>1. Fresh(u) /\ now \in 0 .. Lap
      BY <1>2, <2>2 DEF IInv, TypeOK
    <3> QED BY <1>1, <1>2, <3>1 DEF Fresh, OnTime
  <2> QED BY <2>1, <2>2
<1>5. ASSUME NEW u \in Names \ known' PROVE Fresh(u)'
  BY <1>2 DEF IInv, Fresh
<1> QED BY <1>2, <1>3, <1>4, <1>5 DEF IInv

LEMMA AdjustWitnessVoteIInv ==
    ASSUME IInv, NEW w \in Names, NEW v \in 0 .. MaxVotes, AdjustWitnessVote(w, v)
    PROVE  IInv'
<1>1. Lap \in Nat /\ MaxVotes \in Nat
  BY WitnessScheduleAssumption
<1>2. w \in known
  BY DEF AdjustWitnessVote
<1>3. PICK P \in 0 .. Lap : P = Position(w)
  <2>1. /\ position[w] \in 0 .. Lap
        /\ now - lastUpdate[w] \in 0 .. Lap
        /\ votes[w] * (now - lastUpdate[w]) \in Nat
        /\ position[w] + votes[w] * (now - lastUpdate[w]) <= Lap
    BY <1>2, IInvBoundsTime DEF IInv, TypeOK, VirtualTimeInLap
  <2>2. Wrap(now - lastUpdate[w]) = now - lastUpdate[w]
    BY <2>1, WrapFits
  <2>3. position[w] + votes[w] * (now - lastUpdate[w]) \in 0 .. Lap
    BY <1>1, <2>1
  <2>4. Position(w) = position[w] + votes[w] * (now - lastUpdate[w])
    BY <2>2, <2>3, WrapFits DEF Position
  <2> QED BY <2>3, <2>4
<1>4. PICK q \in 0 .. Lap - P : q = (Lap - P) \div (v + 1) /\ v * q <= Lap - P
  BY <1>1, DivFits
<1>5. /\ Due(w, v) \in now .. Lap
      /\ Due(w, v) - now <= q
  <2>1. Wrap(Lap - P) = Lap - P
    BY <1>1, WrapFits
  <2>2. now \in 0 .. Lap /\ q \in 0 .. Lap
    BY <1>1 DEF IInv, TypeOK
  <2>3. CASE now + q <= Lap
    <3>1. Wrap(now + q) = now + q
      BY <1>1, <2>2, <2>3, WrapFits
    <3>2. Due(w, v) = now + q
      BY <1>1, <1>3, <1>4, <2>1, <2>2, <3>1 DEF Due
    <3> QED BY <1>1, <2>2, <2>3, <3>2
  <2>4. CASE now + q > Lap
    <3>1. Wrap(now + q) = now + q - Lap - 1
      BY <1>1, <2>2, <2>4, WrapOver
    <3>2. now + q - Lap - 1 < now
      BY <1>1, <2>2
    <3>3. Due(w, v) = Lap
      BY <1>3, <1>4, <2>1, <3>1, <3>2 DEF Due
    <3> QED BY <1>1, <2>2, <2>4, <3>3
  <2> QED BY <1>1, <2>2, <2>3, <2>4
<1>6. TypeOK'
  <2>1. known' = known /\ key' = key /\ now' = now
    BY DEF AdjustWitnessVote
  <2>2. votes' \in [Names -> Nat]
    BY <1>1 DEF AdjustWitnessVote, IInv, TypeOK
  <2>3. /\ position' \in [Names -> 0 .. Lap]
        /\ lastUpdate' \in [Names -> 0 .. Lap]
    BY <1>3 DEF AdjustWitnessVote, IInv, TypeOK
  <2>4. due' \in [Names -> 0 .. Lap]
    <3>1. Due(w, v) \in 0 .. Lap
      BY <1>1, <1>5 DEF IInv, TypeOK
    <3> QED BY <3>1 DEF AdjustWitnessVote, IInv, TypeOK
  <2> QED BY <2>1, <2>2, <2>3, <2>4 DEF IInv, TypeOK, Known
<1>7. OnTime(w)'
  <2>1. /\ lastUpdate'[w] = now /\ votes'[w] = v /\ position'[w] = P
        /\ due'[w] = Due(w, v) /\ now' = now
    BY <1>3 DEF AdjustWitnessVote, IInv, TypeOK
  <2>2. PICK x \in Nat : x = Due(w, v) - now /\ x <= q
    BY <1>1, <1>5 DEF IInv, TypeOK
  <2>3. v \in Nat /\ v * x \in Nat /\ v * x <= v * q /\ v * q \in Nat
    BY <1>1, <2>2, ProductGrows
  <2>4. P + v * x <= Lap
    BY <1>1, <1>4, <2>3
  <2>5. now <= Due(w, v) /\ now \in Int
    BY <1>5 DEF IInv, TypeOK
  <2> QED BY <2>1, <2>2, <2>4, <2>5 DEF OnTime
<1>8. ASSUME NEW u \in known', u # w PROVE OnTime(u)'
  <2>1. u \in known /\ u \in Names
    BY <1>8 DEF AdjustWitnessVote, IInv, TypeOK, Known
  <2>2. /\ lastUpdate'[u] = lastUpdate[u] /\ votes'[u] = votes[u]
        /\ position'[u] = position[u] /\ due'[u] = due[u] /\ now' = now
    BY <1>8, <2>1 DEF AdjustWitnessVote, IInv, TypeOK
  <2> QED BY <2>1, <2>2 DEF IInv, OnTime
<1>9. ASSUME NEW u \in Names \ known' PROVE Fresh(u)'
  <2>1. u \in Names \ known /\ u # w
    BY <1>2 DEF AdjustWitnessVote
  <2>2. /\ lastUpdate'[u] = lastUpdate[u] /\ votes'[u] = votes[u]
        /\ position'[u] = position[u] /\ due'[u] = due[u]
    BY <2>1 DEF AdjustWitnessVote, IInv, TypeOK
  <2> QED BY <2>1, <2>2 DEF IInv, Fresh
<1> QED BY <1>6, <1>7, <1>8, <1>9 DEF IInv

-----------------------------------------------------------------------------
(* A round.                                                                *)

\* The search comes by a witness, and by nobody who is due after one it has not
\* come by.
LEMMA ProcessedInOrder ==
    ASSUME TypeOK
    PROVE  /\ Processed \in SUBSET known /\ Processed # {}
           /\ \A p \in Processed, w \in known \ Processed : due[p] <= due[w]
<1>1. known \in SUBSET Names /\ known # {} /\ \A w \in known : due[w] \in Nat
  BY DEF TypeOK, Known
<1>2. CASE Cardinality(Timeshare) < Places
  BY <1>1, <1>2 DEF Processed
<1>3. CASE ~(Cardinality(Timeshare) < Places)
  <2>1. Timeshare \in SUBSET known
    BY PlacesLeft DEF Keyed
  <2>2. Timeshare # {}
    <3>1. Places \in Nat \ {0} /\ Cardinality(Timeshare) \in Nat
      BY PlacesLeft, FS_CardinalityType
    <3> QED BY <1>3, <3>1, FS_EmptySet
  <2>3. Processed = {w \in known : \E t \in Timeshare : w = t \/ Earlier(w, t)}
    BY <1>3 DEF Processed
  <2>4. ASSUME NEW p \in Processed, NEW w \in known \ Processed PROVE due[p] <= due[w]
    <3>1. PICK t \in Timeshare : p = t \/ Earlier(p, t)
      BY <2>3
    <3>2. ~Earlier(w, t)
      BY <2>3
    <3>3. due[p] <= due[t] /\ due[t] <= due[w]
      <4>1. p \in known /\ t \in known /\ w \in known
        BY <2>1, <2>3
      <4> QED BY <1>1, <3>1, <3>2, <4>1 DEF Earlier
    <3>4. p \in known /\ t \in known /\ w \in known
      BY <2>1, <2>3
    <3> QED BY <1>1, <3>3, <3>4
  <2> QED BY <2>1, <2>2, <2>3, <2>4
<1> QED BY <1>2, <1>3

\* The time everyone advances to is that of a processed witness, and no
\* processed witness is due later.
LEMMA LatestDue ==
    ASSUME TypeOK, NEW S \in SUBSET known, S # {}
    PROVE  /\ \E p \in S : Max({due[w] : w \in S}) = due[p]
           /\ \A w \in S : due[w] <= Max({due[w1] : w1 \in S})
<1> DEFINE time == Max({due[w] : w \in S})
<1>1. Lap \in Nat /\ \A w \in S : due[w] \in 0 .. Lap
  BY WitnessScheduleAssumption DEF TypeOK, Known
<1> DEFINE Left == {Lap - due[w] : w \in S}
<1>2. Left \in SUBSET Nat /\ Left # {}
  BY <1>1
<1>3. PICK j \in Left : \A k \in Left : j <= k
  BY <1>2, LeastExists
<1>4. PICK p \in S : j = Lap - due[p]
  BY <1>3
<1>5. ASSUME NEW w \in S PROVE due[w] <= due[p]
  <2>1. Lap - due[p] <= Lap - due[w]
    BY <1>3, <1>4
  <2> QED BY <1>1, <2>1
<1>6. \E x \in {due[w] : w \in S} : \A y \in {due[w] : w \in S} : x >= y
  BY <1>1, <1>5
<1>7. /\ time \in {due[w] : w \in S}
      /\ \A y \in {due[w] : w \in S} : time >= y
  BY <1>6 DEF Max
<1> HIDE DEF time
<1>8. (\E q \in S : time = due[q]) /\ \A w \in S : due[w] <= time
  BY <1>1, <1>7
<1> QED BY <1>8 DEF time

LEMMA LapTimeFits ==
    ASSUME NEW v \in Nat
    PROVE  LapTime(v) \in 0 .. Lap /\ v * LapTime(v) <= Lap
<1>1. Lap \in Nat
  BY WitnessScheduleAssumption
<1> QED BY <1>1, DivFits DEF LapTime

LEMMA AdvanceIInv ==
    ASSUME IInv, NEW S \in SUBSET known, S # {},
           \A p \in S, w \in known \ S : due[p] <= due[w],
           NEW time, time = Max({due[w] : w \in S}),
           ~Overflow(S, time), Advance(S, time), UNCHANGED <<known, key, votes>>
    PROVE  IInv'
<1>1. Lap \in Nat /\ known \in SUBSET Names
  BY WitnessScheduleAssumption DEF IInv, TypeOK, Known
<1>2. PICK p \in S : time = due[p]
  <2>1. TypeOK
    BY DEF IInv
  <2>2. \E p \in S : Max({due[w] : w \in S}) = due[p]
    BY <2>1, LatestDue
  <2> QED BY <2>2
<1>3. time \in 0 .. Lap /\ now \in 0 .. Lap /\ now <= time
  BY <1>1, <1>2 DEF IInv, TypeOK, OnTime
<1>4. ASSUME NEW w \in S
      PROVE  /\ votes[w] \in Nat /\ LapTime(votes[w]) \in 0 .. Lap
             /\ votes[w] * LapTime(votes[w]) <= Lap
             /\ time + LapTime(votes[w]) \in time .. Lap
  <2>1. votes[w] \in Nat
    BY <1>1 DEF IInv, TypeOK
  <2>2. PICK l \in 0 .. Lap : l = LapTime(votes[w]) /\ votes[w] * l <= Lap
    BY <2>1, LapTimeFits
  <2>3. ~(Wrap(time + l) < time)
    BY <2>2 DEF Overflow
  <2>4. ~(time + l > Lap)
    <3> SUFFICES ASSUME time + l > Lap PROVE FALSE
      OBVIOUS
    <3>1. time + l \in Lap + 1 .. 2 * Lap + 1
      BY <1>1, <1>3
    <3>2. PICK n \in Lap + 1 .. 2 * Lap + 1 : n = time + l
      BY <3>1
    <3>3. Wrap(n) = n - Lap - 1
      BY WrapOver
    <3>4. Wrap(time + l) = time + l - Lap - 1
      BY <1>1, <1>3, <3>2, <3>3
    <3> QED BY <1>1, <1>3, <2>3, <3>4
  <2> QED BY <1>1, <1>3, <2>1, <2>2, <2>4
<1>5. ASSUME NEW w \in S
      PROVE  /\ position'[w] = 0 /\ lastUpdate'[w] = time
             /\ due'[w] = time + LapTime(votes[w])
  BY <1>1 DEF Advance
<1>6. ASSUME NEW w \in Names \ S
      PROVE  /\ position'[w] = position[w] /\ lastUpdate'[w] = lastUpdate[w]
             /\ due'[w] = due[w]
  BY DEF Advance
<1>7. now' = time /\ known' = known /\ key' = key /\ votes' = votes
  BY DEF Advance
<1>8. TypeOK'
  <2>1. position' \in [Names -> 0 .. Lap]
    BY <1>1 DEF Advance, IInv, TypeOK
  <2>2. lastUpdate' \in [Names -> 0 .. Lap]
    BY <1>3 DEF Advance, IInv, TypeOK
  <2>3. due' \in [Names -> 0 .. Lap]
    <3>1. \A w \in S : time + LapTime(votes[w]) \in 0 .. Lap
      BY <1>1, <1>3, <1>4
    <3> QED BY <3>1 DEF Advance, IInv, TypeOK
  <2> QED BY <1>3, <1>7, <2>1, <2>2, <2>3 DEF IInv, TypeOK, Known
<1>9. ASSUME NEW w \in known' PROVE OnTime(w)'
  <2>1. CASE w \in S
    <3>1. PICK l \in 0 .. Lap, v \in Nat : l = LapTime(v) /\ v = votes[w]
      BY <1>4, <2>1
    <3>2. v * l <= Lap /\ v * l \in Int /\ (time + l) - time = l /\ time <= time + l
      BY <1>3, <1>4, <2>1, <3>1
    <3>3. 0 + v * ((time + l) - time) <= Lap
      BY <1>1, <3>2
    <3>4. /\ position'[w] = 0 /\ lastUpdate'[w] = time
          /\ due'[w] = time + l /\ votes'[w] = v
      BY <1>5, <1>7, <2>1, <3>1
    <3> QED BY <1>3, <1>7, <3>2, <3>3, <3>4 DEF OnTime
  <2>2. CASE w \notin S
    <3>1. w \in known /\ w \in Names \ S
      BY <1>1, <1>7, <2>2
    <3>2. OnTime(w) /\ due[p] <= due[w]
      BY <2>2, <3>1 DEF IInv
    <3>3. lastUpdate[w] \in Int
      BY <3>1 DEF IInv, TypeOK
    <3> QED BY <1>2, <1>3, <1>6, <1>7, <3>1, <3>2, <3>3 DEF OnTime
  <2> QED BY <2>1, <2>2
<1>10. ASSUME NEW w \in Names \ known' PROVE Fresh(w)'
  <2>1. w \in Names \ known /\ w \in Names \ S
    BY <1>7
  <2> QED BY <1>6, <1>7, <2>1 DEF IInv, Fresh
<1> QED BY <1>8, <1>9, <1>10 DEF IInv

LEMMA ResetIInv ==
    ASSUME IInv, ResetVirtualScheduleTime, UNCHANGED <<known, key, votes>>
    PROVE  IInv'
<1>1. Lap \in Nat /\ known \in SUBSET Names
  BY WitnessScheduleAssumption DEF IInv, TypeOK, Known
<1>2. \A w \in known : LapTime(votes[w]) \in 0 .. Lap
  BY <1>1, LapTimeFits DEF IInv, TypeOK
<1>3. TypeOK'
  <2>1. due' \in [Names -> 0 .. Lap]
    BY <1>2 DEF ResetVirtualScheduleTime, IInv, TypeOK
  <2> QED BY <1>1, <2>1 DEF ResetVirtualScheduleTime, IInv, TypeOK, Known
<1>4. ASSUME NEW w \in known PROVE OnTime(w)'
  <2>1. PICK v \in Nat, l \in 0 .. Lap : v = votes[w] /\ l = LapTime(v) /\ v * l <= Lap
    BY <1>1, LapTimeFits DEF IInv, TypeOK
  <2>2. /\ position'[w] = 0 /\ lastUpdate'[w] = 0 /\ due'[w] = l /\ votes'[w] = v /\ now' = 0
    BY <1>1, <2>1 DEF ResetVirtualScheduleTime
  <2>3. 0 + v * (l - 0) <= Lap
    <3>1. l - 0 = l /\ v * l \in Nat
      OBVIOUS
    <3> QED BY <1>1, <2>1, <3>1
  <2> QED BY <2>2, <2>3 DEF OnTime
<1>5. ASSUME NEW w \in Names \ known PROVE Fresh(w)'
  BY DEF ResetVirtualScheduleTime, IInv, Fresh
<1> QED BY <1>3, <1>4, <1>5 DEF IInv

LEMMA UpdateWitnessScheduleIInv ==
    ASSUME IInv, UpdateWitnessSchedule
    PROVE  IInv'
<1> PICK S \in {Processed} : \E time \in {Max({due[w] : w \in S})} :
           \/ ~Overflow(S, time) /\ Advance(S, time)
           \/ Overflow(S, time) /\ ResetVirtualScheduleTime
  BY DEF UpdateWitnessSchedule
<1> PICK time \in {Max({due[w] : w \in S})} :
           \/ ~Overflow(S, time) /\ Advance(S, time)
           \/ Overflow(S, time) /\ ResetVirtualScheduleTime
  OBVIOUS
<1>1. UNCHANGED <<known, key, votes>>
  BY DEF UpdateWitnessSchedule
<1>2. /\ S \in SUBSET known /\ S # {}
      /\ \A p \in S, w \in known \ S : due[p] <= due[w]
  BY ProcessedInOrder DEF IInv
<1>3. CASE ~Overflow(S, time) /\ Advance(S, time)
  BY <1>1, <1>2, <1>3, AdvanceIInv
<1>4. CASE ResetVirtualScheduleTime
  BY <1>1, <1>4, ResetIInv
<1> QED BY <1>3, <1>4

-----------------------------------------------------------------------------
LEMMA Inductive == Spec => []IInv
<1>1. IInv /\ [Next]_vars => IInv'
  <2> SUFFICES ASSUME IInv, [Next]_vars PROVE IInv'
    OBVIOUS
  <2>1. CASE \E w \in Names, valid \in BOOLEAN : WitnessUpdate(w, valid)
    BY <2>1, WitnessUpdateIInv
  <2>2. CASE \E w \in Names, v \in 0 .. MaxVotes : AdjustWitnessVote(w, v)
    BY <2>2, AdjustWitnessVoteIInv
  <2>3. CASE UpdateWitnessSchedule
    BY <2>3, UpdateWitnessScheduleIInv
  <2>4. CASE UNCHANGED vars
    BY <2>4 DEF vars, IInv, TypeOK, Known, OnTime, Fresh
  <2> QED BY <2>1, <2>2, <2>3, <2>4 DEF Next
<1> QED BY <1>1, InitIInv, PTL DEF Spec

\* Virtual time never wraps around unnoticed (adjust_witness_vote,
\* update_witness_schedule4): for any witnesses, votes and width of the time
\* field, nobody is due in the past and nobody runs more than a lap.
THEOREM TimeStaysInLap == Spec => []VirtualTimeInLap
<1>1. IInv => VirtualTimeInLap
  BY IInvBoundsTime
<1> QED BY <1>1, Inductive, PTL

\* The assertion on the number of active witnesses in update_witness_schedule4
\* holds whenever enough witnesses have a key: elected and timeshare witnesses
\* are disjoint and fill the places, whatever the votes and the virtual times.
THEOREM ScheduleIsFilled == Spec => []ScheduleCanBeFilled
<1>1. IInv => ScheduleCanBeFilled
  BY FillsPlaces DEF IInv
<1> QED BY <1>1, Inductive, PTL
=============================================================================
