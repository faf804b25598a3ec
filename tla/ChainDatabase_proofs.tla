------------------------ MODULE ChainDatabase_proofs ------------------------
(***************************************************************************)
(* Proofs about ChainDatabase for any set of witnesses and transactions    *)
(* and every log a node may start from: first for every block tree, then,  *)
(* for what a refused block can spoil, for every tree on which the         *)
(* witnesses settle on one chain.                                          *)
(***************************************************************************)
EXTENDS ChainDatabase, NaturalsInduction, WellFoundedInduction, FiniteSetTheorems, TLAPS

-----------------------------------------------------------------------------
(* A set of naturals that is not empty has a least element.                *)

LEMMA LeastExists ==
    ASSUME NEW S \in SUBSET Nat, S # {}
    PROVE  \E j \in S : \A k \in S : j <= k
<1>1. PICK j \in S : \A k \in S : ~(<<k, j>> \in OpToRel(<, Nat))
  BY NatLessThanWellFounded, WFMin
<1>2. ASSUME NEW k \in S PROVE j <= k
  <2>1. <<k, j>> \in OpToRel(<, Nat) <=> k < j
    BY DEF OpToRel
  <2>2. ~(k < j)
    BY <1>1, <2>1
  <2>3. j \in Nat /\ k \in Nat
    OBVIOUS
  <2> QED BY <2>2, <2>3
<1> QED BY <1>2

-----------------------------------------------------------------------------
(* Sequences whose elements are of no particular set.                      *)

IsASeq(u) == \E S : u \in Seq(S)

LEMMA AppendIs ==
    ASSUME NEW u, IsASeq(u), NEW e, NEW n \in Nat, n = Len(u)
    PROVE  /\ IsASeq(Append(u, e))
           /\ Len(Append(u, e)) = n + 1
           /\ Append(u, e)[n + 1] = e
           /\ \A i \in 1 .. n : Append(u, e)[i] = u[i]
<1>1. PICK S : u \in Seq(S)
  BY DEF IsASeq
<1>2. u \in Seq(S \cup {e})
  BY <1>1
<1>3. Append(u, e) \in Seq(S \cup {e})
  BY <1>2
<1>4. /\ Len(Append(u, e)) = n + 1
      /\ Append(u, e)[n + 1] = e
      /\ \A i \in 1 .. n : Append(u, e)[i] = u[i]
  BY <1>2
<1> QED BY <1>3, <1>4 DEF IsASeq

LEMMA FrontIs ==
    ASSUME NEW u, IsASeq(u), NEW n \in Nat, n = Len(u), n >= 1
    PROVE  /\ IsASeq(SubSeq(u, 1, n - 1))
           /\ Len(SubSeq(u, 1, n - 1)) = n - 1
           /\ \A i \in 1 .. n - 1 : SubSeq(u, 1, n - 1)[i] = u[i]
<1>1. PICK S : u \in Seq(S)
  BY DEF IsASeq
<1>2. SubSeq(u, 1, n - 1) \in Seq(S)
  BY <1>1
<1>3. /\ Len(SubSeq(u, 1, n - 1)) = n - 1
      /\ \A i \in 1 .. n - 1 : SubSeq(u, 1, n - 1)[i] = u[i]
  BY <1>1
<1> QED BY <1>2, <1>3 DEF IsASeq

LEMMA SuffixIs ==
    ASSUME NEW u, IsASeq(u), NEW n \in Nat, n = Len(u), NEW k \in 0 .. n
    PROVE  /\ IsASeq(SubSeq(u, k + 1, n))
           /\ Len(SubSeq(u, k + 1, n)) = n - k
           /\ \A i \in 1 .. n - k : SubSeq(u, k + 1, n)[i] = u[i + k]
<1>1. PICK S : u \in Seq(S)
  BY DEF IsASeq
<1>2. SubSeq(u, k + 1, n) \in Seq(S)
  BY <1>1
<1>3. /\ Len(SubSeq(u, k + 1, n)) = n - k
      /\ \A i \in 1 .. n - k : SubSeq(u, k + 1, n)[i] = u[i + k]
  BY <1>1
<1> QED BY <1>2, <1>3 DEF IsASeq

LEMMA SeqOf ==
    ASSUME NEW S, NEW m \in Nat, NEW w \in [1 .. m -> S]
    PROVE  w \in Seq(S)
OBVIOUS

LEMMA TailOf ==
    ASSUME NEW S, NEW q \in Seq(S), q # <<>>
    PROVE  Tail(q) \in Seq(S) /\ (Len(q) # 1 => Tail(q) # <<>>)
<1>1. PICK n \in Nat : n = Len(q) /\ n >= 1
  OBVIOUS
<1>2. Tail(q) \in Seq(S) /\ Len(Tail(q)) = n - 1
  BY <1>1
<1>3. ASSUME Len(q) # 1 PROVE Tail(q) # <<>>
  <2>1. Len(Tail(q)) # 0
    BY <1>1, <1>2, <1>3
  <2>2. Len(<<>>) = 0
    OBVIOUS
  <2> QED BY <2>1, <2>2
<1> QED BY <1>2, <1>3

LEMMA LenIsNat ==
    ASSUME NEW u, IsASeq(u)
    PROVE  Len(u) \in Nat
BY DEF IsASeq

-----------------------------------------------------------------------------
(* The last irreversible block: std::nth_element finds an element.         *)

UpTo(c, v) == {w \in Witnesses : c[w] <= v}

LEMMA UpToFinite ==
    ASSUME NEW c \in [Witnesses -> Nat], NEW v \in Int
    PROVE  /\ IsFiniteSet(UpTo(c, v))
           /\ Cardinality(UpTo(c, v)) \in Nat
           /\ Cardinality(UpTo(c, v)) <= Cardinality(Witnesses)
           /\ Cardinality(UpTo(c, v)) = Cardinality(Witnesses) => UpTo(c, v) = Witnesses
<1>1. UpTo(c, v) \subseteq Witnesses
  BY DEF UpTo
<1> QED BY <1>1, FS_Subset, FS_CardinalityType, ChainDatabaseAssumption

LEMMA AllConfirmed ==
    ASSUME NEW c \in [Witnesses -> Nat]
    PROVE  \E v \in Nat : UpTo(c, v) = Witnesses
<1> PICK N \in Nat : N = Cardinality(Witnesses)
  BY FS_CardinalityType, ChainDatabaseAssumption
<1> DEFINE Missing == {N - Cardinality(UpTo(c, v)) : v \in Nat}
<1>1. Missing \in SUBSET Nat
  <2> SUFFICES ASSUME NEW v \in Nat PROVE N - Cardinality(UpTo(c, v)) \in Nat
    OBVIOUS
  <2>1. v \in Int
    OBVIOUS
  <2>2. PICK k \in Nat : k = Cardinality(UpTo(c, v))
    BY <2>1, UpToFinite
  <2>3. k <= N
    BY <2>1, <2>2, UpToFinite
  <2> QED BY <2>2, <2>3
<1>2. Missing # {}
  <2>1. N - Cardinality(UpTo(c, 0)) \in Missing
    OBVIOUS
  <2> QED BY <2>1
<1>3. PICK j \in Missing : \A k \in Missing : j <= k
  BY <1>1, <1>2, LeastExists
<1>4. PICK v \in Nat : j = N - Cardinality(UpTo(c, v))
  OBVIOUS
<1>5. ASSUME UpTo(c, v) # Witnesses PROVE FALSE
  <2>1. PICK w \in Witnesses : w \notin UpTo(c, v)
    BY <1>5 DEF UpTo
  <2>2. c[w] \in Nat /\ c[w] > v
    BY <2>1 DEF UpTo
  <2> DEFINE A == UpTo(c, v)
             B == UpTo(c, c[w])
  <2>3. A \subseteq B /\ w \in B /\ w \notin A
    BY <2>1, <2>2 DEF UpTo
  <2>4. IsFiniteSet(B) /\ Cardinality(A) \in Nat /\ Cardinality(B) \in Nat
    BY <2>2, UpToFinite
  <2>5. Cardinality(A) <= Cardinality(B) /\ (Cardinality(A) = Cardinality(B) => A = B)
    BY <2>3, <2>4, FS_Subset
  <2>6. N - Cardinality(B) \in Missing
    BY <2>2
  <2>7. N - Cardinality(A) <= N - Cardinality(B)
    BY <1>3, <1>4, <2>6
  <2> QED BY <2>3, <2>4, <2>5, <2>7
<1> QED BY <1>5

LEMMA NthElementType ==
    ASSUME NEW c \in [Witnesses -> Nat], NEW k \in Nat, k < Cardinality(Witnesses)
    PROVE  NthElement(c, k) \in Nat /\ \E w \in Witnesses : NthElement(c, k) = c[w]
<1> DEFINE S == {v \in Nat : Cardinality(UpTo(c, v)) > k}
<1>1. S \in SUBSET Nat /\ S # {}
  <2>1. PICK v \in Nat : UpTo(c, v) = Witnesses
    BY AllConfirmed
  <2>2. v \in S
    BY <2>1
  <2> QED BY <2>2
<1>2. PICK v \in S : \A u \in S : v <= u
  BY <1>1, LeastExists
<1>3. v \in Nat /\ Cardinality(UpTo(c, v)) > k
  OBVIOUS
<1>4. {w \in Witnesses : c[w] < v} = UpTo(c, v - 1)
  BY <1>3 DEF UpTo
<1>5. Cardinality(UpTo(c, v - 1)) \in Nat /\ Cardinality(UpTo(c, v - 1)) <= k
  <2>0. v - 1 \in Int
    BY <1>3
  <2>1. PICK m \in Nat : m = Cardinality(UpTo(c, v - 1))
    BY <2>0, UpToFinite
  <2>2. CASE v = 0
    <3>1. UpTo(c, v - 1) = {}
      BY <2>2 DEF UpTo
    <3> QED BY <2>1, <3>1, FS_EmptySet
  <2>3. CASE v # 0
    <3>1. v - 1 \in Nat /\ ~(v <= v - 1)
      BY <1>3, <2>3
    <3>2. v - 1 \notin S
      BY <1>2, <3>1
    <3> QED BY <2>1, <3>1, <3>2
  <2> QED BY <2>2, <2>3
<1>6. \E w \in Witnesses : c[w] = v
  <2> SUFFICES ASSUME \A w \in Witnesses : c[w] # v PROVE FALSE
    OBVIOUS
  <2>1. UpTo(c, v) = UpTo(c, v - 1)
    BY <1>3 DEF UpTo
  <2> QED BY <1>3, <1>5, <2>1
<1>7. /\ v \in {c[w] : w \in Witnesses}
      /\ Cardinality({w \in Witnesses : c[w] < v}) <= k
      /\ Cardinality({w \in Witnesses : c[w] <= v}) > k
  BY <1>3, <1>4, <1>5, <1>6 DEF UpTo
<1>8. NthElement(c, k) \in {c[w] : w \in Witnesses}
  BY <1>7 DEF NthElement
<1> QED BY <1>8
-----------------------------------------------------------------------------
(* Chain states.                                                           *)

StateOK(s) ==
    /\ {"head", "lib", "confirmed", "trxs"} \subseteq DOMAIN s
    /\ s.head \in Ids
    /\ s.lib \in Nat
    /\ s.confirmed \in [Witnesses -> Nat]

LEMMA OffsetBelow ==
    ASSUME NEW p \in 1 .. 100, NEW n \in Nat, n >= 1
    PROVE  ((100 - p) * n) \div 100 \in Nat /\ ((100 - p) * n) \div 100 < n
<1>1. PICK m \in Nat : m = (100 - p) * n
  OBVIOUS
<1>2. m <= 99 * n
  BY <1>1
<1>3. m \div 100 \in Nat /\ m \div 100 < n
  BY <1>2
<1> QED BY <1>1, <1>3

\* update_last_irreversible_block leaves a block number.
LEMMA LastIrreversibleType ==
    ASSUME NEW s, StateOK(s)
    PROVE  LastIrreversible(s) \in Nat
<1> PICK N \in Nat : N = Cardinality(Witnesses)
  BY FS_CardinalityType, ChainDatabaseAssumption
<1> DEFINE k == ((100 - ThresholdPercent) * Cardinality(Witnesses)) \div 100
<1>1. N >= 1
  BY FS_EmptySet, ChainDatabaseAssumption
<1>2. k \in Nat /\ k < N
  BY <1>1, OffsetBelow, ChainDatabaseAssumption
<1> HIDE DEF k
<1>3. NthElement(s.confirmed, k) \in Nat
  BY <1>2, NthElementType DEF StateOK
<1>4. Num[s.head] \in Nat /\ MaxWitnesses \in Nat /\ StartMinerVoting \in Nat /\ s.lib \in Nat
  BY ForkDatabaseAssumption, ChainDatabaseAssumption DEF StateOK, Ids
<1>5. Larger(s.lib, NthElement(s.confirmed, k)) \in Nat
  BY <1>3, <1>4 DEF Larger
<1>6. Num[s.head] > MaxWitnesses => Num[s.head] - MaxWitnesses \in Nat
  BY <1>4
<1> QED BY <1>4, <1>5, <1>6 DEF LastIrreversible, k

LEMMA AfterBlockType ==
    ASSUME NEW s, StateOK(s), NEW b \in Blocks
    PROVE  StateOK(AfterBlock(s, b)) /\ AfterBlock(s, b).head = b
<1> DEFINE moved == [s EXCEPT !.head = b,
                              !.confirmed = [@ EXCEPT ![WitnessOf[b]] = Num[b]],
                              !.trxs = @ \cup TrxOf[b]]
<1>1. /\ DOMAIN moved = DOMAIN s
      /\ moved.head = b
      /\ moved.lib = s.lib
      /\ moved.confirmed = [s.confirmed EXCEPT ![WitnessOf[b]] = Num[b]]
  BY DEF StateOK
<1>2. b \in Ids /\ Num[b] \in Nat
  BY ForkDatabaseAssumption DEF Ids
<1> HIDE DEF moved
<1>3. moved.confirmed \in [Witnesses -> Nat]
  BY <1>1, <1>2 DEF StateOK
<1>4. StateOK(moved)
  BY <1>1, <1>2, <1>3 DEF StateOK
<1>5. LastIrreversible(moved) \in Nat
  BY <1>4, LastIrreversibleType
<1>6. AfterBlock(s, b) = [moved EXCEPT !.lib = LastIrreversible(moved)]
  BY DEF AfterBlock, moved
<1>7. /\ DOMAIN AfterBlock(s, b) = DOMAIN moved
      /\ AfterBlock(s, b).head = b
      /\ AfterBlock(s, b).lib = LastIrreversible(moved)
      /\ AfterBlock(s, b).confirmed = moved.confirmed
  BY <1>1, <1>4, <1>6 DEF StateOK
<1> QED BY <1>2, <1>4, <1>5, <1>7 DEF StateOK

LEMMA TrxsType ==
    ASSUME NEW s, StateOK(s), NEW T
    PROVE  StateOK([s EXCEPT !.trxs = T]) /\ [s EXCEPT !.trxs = T].head = s.head
BY DEF StateOK

LEMMA GenesisType == StateOK(GenesisState) /\ GenesisState.head = Genesis
BY DEF StateOK, GenesisState, Ids

-----------------------------------------------------------------------------
(* The undo history u under the state d at revision r; pend: its youngest  *)
(* session is the one of the pending transactions.                         *)

HeadAt(u, d, i) == IF i > Len(u) THEN d.head ELSE u[i].snapshot.head

Link(u, d, i) ==
    /\ HeadAt(u, d, i + 1) \in Blocks
    /\ Previous[HeadAt(u, d, i + 1)] = HeadAt(u, d, i)

Chained(u, d, r, pend) ==
    /\ IsASeq(u)
    /\ StateOK(d)
    /\ r \in Int
    /\ \A i \in 1 .. Len(u) : /\ StateOK(u[i].snapshot)
                              /\ u[i].revision = r - Len(u) + i
                              /\ Num[u[i].snapshot.head] = r - Len(u) + i - 1
    /\ Num[d.head] = IF pend THEN r - 1 ELSE r
    /\ \A i \in 1 .. Len(u) : (pend /\ i = Len(u)) \/ Link(u, d, i)
    /\ pend => Len(u) >= 1 /\ u[Len(u)].snapshot.head = d.head

LEMMA NumIsNat ==
    ASSUME NEW s, StateOK(s)
    PROVE  Num[s.head] \in Nat
BY ForkDatabaseAssumption DEF StateOK, Ids

\* No session: a committed state.
LEMMA ChainedBase ==
    ASSUME NEW d, StateOK(d)
    PROVE  Chained(<<>>, d, Num[d.head], FALSE)
<1>1. IsASeq(<<>>) /\ Len(<<>>) = 0
  <2>1. <<>> \in Seq({})
    OBVIOUS
  <2> QED BY <2>1 DEF IsASeq
<1>2. Num[d.head] \in Int
  BY NumIsNat
<1>3. \A i \in 1 .. Len(<<>>) : FALSE
  BY <1>1
<1> QED BY <1>1, <1>2, <1>3 DEF Chained

\* The head state may change below the head block.
LEMMA ChainedSame ==
    ASSUME NEW u, NEW d, NEW r, NEW pend, Chained(u, d, r, pend),
           NEW e, StateOK(e), e.head = d.head
    PROVE  Chained(u, e, r, pend)
<1>1. \A i : HeadAt(u, e, i) = HeadAt(u, d, i)
  BY DEF HeadAt
<1> QED BY <1>1 DEF Chained, Link
\* undo(): the youngest session's state comes back.
LEMMA ChainedUndo ==
    ASSUME NEW u, NEW d, NEW r, NEW pend, Chained(u, d, r, pend),
           NEW n \in Nat, n = Len(u), n >= 1
    PROVE  Chained(SubSeq(u, 1, n - 1), u[n].snapshot, r - 1, FALSE)
<1> DEFINE v == SubSeq(u, 1, n - 1)
<1>0. n - 1 \in Nat /\ r \in Int
  BY DEF Chained
<1>1. /\ IsASeq(v)
      /\ Len(v) = n - 1
      /\ \A i \in 1 .. n - 1 : v[i] = u[i]
  BY FrontIs DEF Chained
<1> HIDE DEF v
<1>2. \A i \in 1 .. n : /\ StateOK(u[i].snapshot)
                        /\ u[i].revision = r - n + i
                        /\ Num[u[i].snapshot.head] = r - n + i - 1
  BY DEF Chained
<1>3. StateOK(u[n].snapshot) /\ Num[u[n].snapshot.head] = r - 1
  BY <1>0, <1>2
<1>4. \A i \in 1 .. n - 1 : /\ StateOK(v[i].snapshot)
                            /\ v[i].revision = (r - 1) - (n - 1) + i
                            /\ Num[v[i].snapshot.head] = (r - 1) - (n - 1) + i - 1
  BY <1>0, <1>1, <1>2
<1>5. \A i \in 1 .. n : HeadAt(v, u[n].snapshot, i) = HeadAt(u, d, i)
  BY <1>0, <1>1 DEF HeadAt
<1>6. \A i \in 1 .. n - 1 : Link(v, u[n].snapshot, i)
  <2> SUFFICES ASSUME NEW i \in 1 .. n - 1 PROVE Link(v, u[n].snapshot, i)
    OBVIOUS
  <2>1. i \in 1 .. n /\ i + 1 \in 1 .. n /\ i # n
    OBVIOUS
  <2>2. Link(u, d, i)
    BY <2>1 DEF Chained
  <2> QED BY <2>1, <2>2, <1>5 DEF Link
<1>7. Chained(v, u[n].snapshot, r - 1, FALSE)
  BY <1>0, <1>1, <1>3, <1>4, <1>6 DEF Chained
<1> QED BY <1>7 DEF v

\* start_undo_session(): the state d is saved under the next revision.
LEMMA ChainedStart ==
    ASSUME NEW u, NEW d, NEW r, Chained(u, d, r, FALSE),
           NEW e, StateOK(e), NEW pend \in BOOLEAN,
           IF pend THEN e.head = d.head
           ELSE e.head \in Blocks /\ Previous[e.head] = d.head
    PROVE  Chained(Append(u, [snapshot |-> d, revision |-> r + 1]), e, r + 1, pend)
<1> DEFINE x == [snapshot |-> d, revision |-> r + 1]
           v == Append(u, x)
<1>0. PICK n \in Nat : n = Len(u)
  BY LenIsNat DEF Chained
<1>1. /\ IsASeq(v)
      /\ Len(v) = n + 1
      /\ v[n + 1] = x
      /\ \A i \in 1 .. n : v[i] = u[i]
  BY <1>0, AppendIs DEF Chained
<1>2. x.snapshot = d /\ x.revision = r + 1
  OBVIOUS
<1> HIDE DEF v, x
<1>3. r \in Int /\ StateOK(d) /\ Num[d.head] = r
  BY DEF Chained
<1>4. \A i \in 1 .. n : /\ StateOK(u[i].snapshot)
                        /\ u[i].revision = r - n + i
                        /\ Num[u[i].snapshot.head] = r - n + i - 1
  BY <1>0 DEF Chained
<1>5. \A i \in 1 .. n + 1 : /\ StateOK(v[i].snapshot)
                            /\ v[i].revision = (r + 1) - (n + 1) + i
                            /\ Num[v[i].snapshot.head] = (r + 1) - (n + 1) + i - 1
  <2> SUFFICES ASSUME NEW i \in 1 .. n + 1
               PROVE  /\ StateOK(v[i].snapshot)
                      /\ v[i].revision = (r + 1) - (n + 1) + i
                      /\ Num[v[i].snapshot.head] = (r + 1) - (n + 1) + i - 1
    OBVIOUS
  <2>1. CASE i = n + 1
    BY <2>1, <1>1, <1>2, <1>3
  <2>2. CASE i \in 1 .. n
    BY <2>2, <1>1, <1>3, <1>4
  <2> QED BY <2>1, <2>2
<1>6. \A i \in 1 .. n + 1 : HeadAt(v, e, i) = HeadAt(u, d, i)
  BY <1>0, <1>1, <1>2 DEF HeadAt
<1>7. \A i \in 1 .. n : Link(v, e, i)
  <2> SUFFICES ASSUME NEW i \in 1 .. n PROVE Link(v, e, i)
    OBVIOUS
  <2>1. i \in 1 .. n + 1 /\ i + 1 \in 1 .. n + 1
    OBVIOUS
  <2>2. Link(u, d, i)
    BY <1>0 DEF Chained
  <2> QED BY <2>1, <2>2, <1>6 DEF Link
<1>8. ASSUME ~pend PROVE Link(v, e, n + 1)
  <2>1. HeadAt(v, e, n + 1) = d.head /\ HeadAt(v, e, n + 1 + 1) = e.head
    BY <1>1, <1>2 DEF HeadAt
  <2> QED BY <1>8, <2>1 DEF Link
<1>9. Num[e.head] = IF pend THEN r ELSE r + 1
  BY <1>3, ForkDatabaseAssumption
<1>10. \A i \in 1 .. n + 1 : (pend /\ i = n + 1) \/ Link(v, e, i)
  BY <1>7, <1>8
<1>11. Num[e.head] = IF pend THEN (r + 1) - 1 ELSE r + 1
  BY <1>9, <1>3
<1>12. pend => n + 1 >= 1 /\ v[n + 1].snapshot.head = e.head
  BY <1>1, <1>2
<1>13. Chained(v, e, r + 1, pend)
  BY <1>1, <1>3, <1>5, <1>10, <1>11, <1>12 DEF Chained
<1> QED BY <1>13 DEF v, x

\* commit(): the k oldest sessions go.
LEMMA ChainedCommit ==
    ASSUME NEW u, NEW d, NEW r, Chained(u, d, r, FALSE),
           NEW n \in Nat, n = Len(u), NEW k \in 0 .. n
    PROVE  Chained(SubSeq(u, k + 1, n), d, r, FALSE)
<1> DEFINE v == SubSeq(u, k + 1, n)
<1>1. /\ IsASeq(v)
      /\ Len(v) = n - k
      /\ \A i \in 1 .. n - k : v[i] = u[i + k]
  BY SuffixIs DEF Chained
<1> HIDE DEF v
<1>2. \A i \in 1 .. n : /\ StateOK(u[i].snapshot)
                        /\ u[i].revision = r - n + i
                        /\ Num[u[i].snapshot.head] = r - n + i - 1
  BY DEF Chained
<1>3. r \in Int /\ StateOK(d) /\ Num[d.head] = r
  BY DEF Chained
<1>4. \A i \in 1 .. n - k : /\ StateOK(v[i].snapshot)
                            /\ v[i].revision = r - (n - k) + i
                            /\ Num[v[i].snapshot.head] = r - (n - k) + i - 1
  <2> SUFFICES ASSUME NEW i \in 1 .. n - k
               PROVE  /\ StateOK(v[i].snapshot)
                      /\ v[i].revision = r - (n - k) + i
                      /\ Num[v[i].snapshot.head] = r - (n - k) + i - 1
    OBVIOUS
  <2>1. i + k \in 1 .. n /\ v[i] = u[i + k]
    BY <1>1
  <2> QED BY <2>1, <1>2, <1>3
<1>5. \A i \in 1 .. n - k + 1 : HeadAt(v, d, i) = HeadAt(u, d, i + k)
  BY <1>1 DEF HeadAt
<1>6. \A i \in 1 .. n - k : Link(v, d, i)
  <2> SUFFICES ASSUME NEW i \in 1 .. n - k PROVE Link(v, d, i)
    OBVIOUS
  <2>1. /\ i \in 1 .. n - k + 1 /\ i + 1 \in 1 .. n - k + 1 /\ i + k \in 1 .. n
        /\ i + 1 + k = i + k + 1
    OBVIOUS
  <2>2. Link(u, d, i + k)
    BY <2>1 DEF Chained
  <2> QED BY <2>1, <2>2, <1>5 DEF Link
<1>7. Chained(v, d, r, FALSE)
  BY <1>1, <1>3, <1>4, <1>6 DEF Chained
<1> QED BY <1>7 DEF v

\* undo_all(): the state of the oldest session, at the head's number.
LEMMA ChainedOldest ==
    ASSUME NEW u, NEW d, NEW r, NEW pend \in BOOLEAN, Chained(u, d, r, pend),
           NEW n \in Nat, n = Len(u)
    PROVE  /\ n >= 1 => StateOK(u[1].snapshot) /\ Num[u[1].snapshot.head] = r - n
           /\ n = 0 => Num[d.head] = r - n
BY DEF Chained
\* What the property says of a history of this shape.
LEMMA ChainedImplies ==
    ASSUME NEW pend \in BOOLEAN, Chained(undo, db, revision, pend)
    PROVE  UndoHistoryIsChain
<1> PICK n \in Nat : n = Len(undo)
  BY LenIsNat DEF Chained
<1>1. /\ Path \in Seq(Ids) /\ Len(Path) = n + 1
      /\ \A i \in 1 .. n + 1 : Path[i] = HeadAt(undo, db, i)
  <2>1. \A i \in 1 .. n + 1 : HeadAt(undo, db, i) \in Ids
    BY DEF Chained, HeadAt, StateOK
  <2>2. \A i \in 1 .. n + 1 : Path[i] = HeadAt(undo, db, i)
    BY DEF Path, HeadAt
  <2>3. Path = [i \in 1 .. n + 1 |-> Path[i]]
    BY DEF Path
  <2> QED BY <2>1, <2>2, <2>3
<1> HIDE DEF Path
<1>2. revision \in Int
  BY DEF Chained
<1>3. \A i \in 1 .. n : undo[i].revision = revision - n + i
  BY DEF Chained
<1>4. revision - n = Num[Path[1]]
  <2>1. Path[1] = HeadAt(undo, db, 1)
    BY <1>1
  <2>2. CASE n = 0
    BY <2>1, <2>2, ChainedOldest DEF Chained, HeadAt
  <2>3. CASE n >= 1
    BY <2>1, <2>3, ChainedOldest DEF HeadAt
  <2> QED BY <2>2, <2>3
<1>5. ASSUME pend
      PROVE  \A i \in 1 .. Len(BlockPath) - 1 : Previous[BlockPath[i + 1]] = BlockPath[i]
  <2>1. n >= 1 /\ undo[n].snapshot.head = db.head /\ \A i \in 1 .. n - 1 : Link(undo, db, i)
    BY <1>5 DEF Chained
  <2>2. PendingOnTop
    <3>1. undo # <<>>
      BY <2>1
    <3> QED BY <2>1, <3>1 DEF PendingOnTop
  <2>3. BlockPath = SubSeq(Path, 1, n)
    BY <2>2 DEF BlockPath
  <2>4. Len(BlockPath) = n /\ \A i \in 1 .. n : BlockPath[i] = Path[i]
    BY <1>1, <2>3
  <2> QED BY <1>1, <2>1, <2>4 DEF Link
<1>6. ASSUME ~pend
      PROVE  \A i \in 1 .. Len(BlockPath) - 1 : Previous[BlockPath[i + 1]] = BlockPath[i]
  <2>1. \A i \in 1 .. n : Link(undo, db, i)
    BY <1>6 DEF Chained
  <2>2. ~PendingOnTop
    <3> SUFFICES ASSUME undo # <<>>, undo[n].snapshot.head = db.head PROVE FALSE
      BY DEF PendingOnTop
    <3>1. n >= 1
      BY DEF Chained, IsASeq
    <3>2. db.head \in Blocks /\ Previous[db.head] = db.head
      BY <2>1, <3>1 DEF Link, HeadAt
    <3>3. Num[db.head] = Num[db.head] + 1 /\ Num[db.head] \in Nat
      BY <3>2, ForkDatabaseAssumption
    <3> QED BY <3>3
  <2>3. BlockPath = Path
    BY <2>2 DEF BlockPath
  <2> QED BY <1>1, <2>1, <2>3 DEF Link
<1> QED BY <1>3, <1>4, <1>5, <1>6 DEF UndoHistoryIsChain

-----------------------------------------------------------------------------
(* The inductive invariant.                                                *)

InCall == {"pop", "apply", "migrate", "requeue"}

HistoryOK ==
    /\ pc \in InCall \cup {"idle", "replay", "closed", "torn"}
    /\ session \in BOOLEAN
    /\ pc = "idle" => Chained(undo, db, revision, session)
    /\ pc \in InCall => ~session /\ Chained(undo, db, revision, FALSE)
    /\ pc = "closed" => ~session /\ \E pend \in BOOLEAN : Chained(undo, db, revision, pend)
    /\ Replaying => ~session /\ undo = <<>> /\ revision = 0 /\ StateOK(db)

LogOK ==
    /\ log \in Seq(Blocks)
    /\ flushed \in 0 .. Len(log)
    /\ pc = "replay" => log # <<>>

JobOK ==
    /\ DOMAIN job = DOMAIN NoJob
    /\ job.apply \in Seq(Blocks)
    /\ job.old \in Seq(Blocks)
    /\ job.write \in Seq(Blocks)
    /\ pc \in {"pop", "apply", "migrate"} => job.apply # <<>>
    /\ job.mode = "switch" => job.old # <<>>

IndexOK(f) == DOMAIN f = {"index", "linked", "head", "max_size"} /\ f.index \subseteq Blocks

IInv == HistoryOK /\ LogOK /\ JobOK /\ IndexOK(fork_db)

LEMMA NoJobOK ==
    /\ NoJob.apply = <<>> /\ NoJob.old = <<>> /\ NoJob.write = <<>> /\ NoJob.mode = "none"
    /\ <<>> \in Seq(Blocks)
BY DEF NoJob

\* The operations of the fork database leave blocks in its index.
LEMMA ForkDbKept ==
    /\ \A size : IndexOK(EmptyForkDb(size))
    /\ \A f : IndexOK(f) =>
          /\ \A b \in Blocks : IndexOK(StartBlock(f, b)) /\ IndexOK(PushBlock(f, b))
          /\ \A b : IndexOK(SetHead(f, b))
          /\ IndexOK(PopBlock(f))
          /\ \A B : IndexOK(Erase(f, B))
          /\ \A size : IndexOK(SetMaxSize(f, size))
<1>1. \A size : IndexOK(EmptyForkDb(size))
  BY DEF IndexOK, EmptyForkDb
<1> SUFFICES ASSUME NEW f, IndexOK(f)
             PROVE  /\ \A b \in Blocks : IndexOK(StartBlock(f, b)) /\ IndexOK(PushBlock(f, b))
                    /\ \A b : IndexOK(SetHead(f, b))
                    /\ IndexOK(PopBlock(f))
                    /\ \A B : IndexOK(Erase(f, B))
                    /\ \A size : IndexOK(SetMaxSize(f, size))
  BY <1>1
<1>2. \A b \in Blocks : IndexOK(StartBlock(f, b))
  BY DEF IndexOK, StartBlock
<1>3. \A b \in Blocks : IndexOK(PushBlock(f, b))
  BY DEF IndexOK, PushBlock
<1>4. (\A b : IndexOK(SetHead(f, b))) /\ IndexOK(PopBlock(f))
  BY DEF IndexOK, SetHead, PopBlock
<1>5. \A g, B : IndexOK(g) => IndexOK(Erase(g, B))
  BY DEF IndexOK, Erase
<1>6. \A size : IndexOK(SetMaxSize(f, size))
  <2> SUFFICES ASSUME NEW size PROVE IndexOK(SetMaxSize(f, size))
    OBVIOUS
  <2>1. IndexOK([f EXCEPT !.max_size = size])
    BY DEF IndexOK
  <2> QED BY <2>1, <1>5 DEF SetMaxSize
<1> QED BY <1>2, <1>3, <1>4, <1>5, <1>6

LEMMA InitOK == Init => IInv
<1> SUFFICES ASSUME Init PROVE IInv
  OBVIOUS
<1>1. HistoryOK
  <2>1. Chained(<<>>, GenesisState, 0, FALSE)
    BY ChainedBase, GenesisType, ForkDatabaseAssumption
  <2> QED BY <2>1, GenesisType DEF Init, HistoryOK, Replaying, InCall
<1>2. LogOK
  BY ChainDatabaseAssumption DEF Init, LogOK
<1>3. JobOK
  <2>1. pc \notin {"pop", "apply", "migrate"} /\ job = NoJob
    BY DEF Init
  <2> QED BY <2>1, NoJobOK DEF JobOK
<1>4. IndexOK(fork_db)
  BY ForkDbKept DEF Init
<1> QED BY <1>1, <1>2, <1>3, <1>4 DEF IInv

\* clear_pending(): the session of the pending transactions is undone.
LEMMA CleanOK ==
    ASSUME HistoryOK, pc = "idle"
    PROVE  Chained(CleanUndo, CleanDb, CleanRevision, FALSE)
<1>1. Chained(undo, db, revision, session) /\ session \in BOOLEAN
  BY DEF HistoryOK
<1>2. CASE session
  <2>1. PICK n \in Nat : n = Len(undo)
    BY <1>1, LenIsNat DEF Chained
  <2>2. n >= 1
    BY <1>1, <1>2, <2>1 DEF Chained
  <2>3. Chained(SubSeq(undo, 1, n - 1), undo[n].snapshot, revision - 1, FALSE)
    BY <1>1, <2>1, <2>2, ChainedUndo
  <2> QED BY <1>2, <2>1, <2>3 DEF CleanUndo, CleanDb, CleanRevision, Outer
<1>3. CASE ~session
  BY <1>1, <1>3 DEF CleanUndo, CleanDb, CleanRevision
<1> QED BY <1>1, <1>2, <1>3
\* fetch_branch_from: both branches are sequences of blocks, and not empty.
LEMMA BranchOK ==
    ASSUME NEW f, NEW b, Num[b] \in Nat, NEW h \in 1 .. Num[b], Reaches(f, b, h)
    PROVE  Branch(f, b, h) \in Seq(Blocks) /\ Branch(f, b, h) # <<>>
<1>1. PICK m \in Nat : m = Num[b] - h + 1 /\ m >= 1
  OBVIOUS
<1>2. \A i \in 1 .. m : ItemAt(f, b, h + i - 1) \in Blocks
  BY <1>1 DEF Reaches
<1>3. Branch(f, b, h) = [i \in 1 .. m |-> ItemAt(f, b, h + i - 1)]
  BY <1>1 DEF Branch
<1>4. Branch(f, b, h) \in Seq(Blocks) /\ Len(Branch(f, b, h)) = m
  BY <1>2, <1>3
<1> QED BY <1>1, <1>4

LEMMA FetchOK ==
    ASSUME NEW f, NEW a, NEW b, Num[a] \in Nat, Num[b] \in Nat, CanFetchBranch(f, a, b)
    PROVE  /\ Branch(f, a, MeetingHeight(f, a, b)) \in Seq(Blocks) \ {<<>>}
           /\ Branch(f, b, MeetingHeight(f, a, b)) \in Seq(Blocks) \ {<<>>}
<1> DEFINE h == MeetingHeight(f, a, b)
<1>1. h \in Heights(a, b) /\ MeetAt(f, a, b, h)
  BY DEF CanFetchBranch, MeetingHeight
<1> HIDE DEF h
<1>2. h \in 1 .. Num[a] /\ h \in 1 .. Num[b]
  BY <1>1 DEF Heights
<1>3. Reaches(f, a, h) /\ Reaches(f, b, h)
  BY <1>1 DEF MeetAt
<1> QED BY <1>2, <1>3, BranchOK DEF h

\* push_block
LEMMA PushStep ==
    ASSUME IInv, NEW b \in Blocks, Push(b)
    PROVE  IInv'
<1> DEFINE f     == PushBlock(fork_db, b)
           head  == CleanDb.head
           fork  == MeetingHeight(f, f.head, head)
           call  == [NoJob EXCEPT !.block = b, !.saved = pending,
                                  !.head = head, !.known = db.trxs]
<1>1. /\ pc = "idle" /\ pc' \in {"requeue", "apply", "pop"}
      /\ undo' = CleanUndo /\ db' = CleanDb /\ revision' = CleanRevision
      /\ session' = FALSE
      /\ log' = log /\ flushed' = flushed
      /\ fork_db' \in {fork_db, f}
  BY DEF Push
<1>2. Chained(CleanUndo, CleanDb, CleanRevision, FALSE)
  BY <1>1, CleanOK DEF IInv
<1>3. HistoryOK'
  BY <1>1, <1>2 DEF HistoryOK, InCall, Replaying
<1>4. LogOK'
  BY <1>1 DEF IInv, LogOK
<1>5. IndexOK(f) /\ IndexOK(fork_db')
  BY <1>1, ForkDbKept DEF IInv
<1>6. /\ DOMAIN call = DOMAIN NoJob /\ call.mode = "none"
      /\ call.apply = <<>> /\ call.old = <<>> /\ call.write = <<>>
  BY DEF NoJob
<1>7. \/ pc' = "requeue" /\ job' \in {call, [call EXCEPT !.ok = FALSE]}
      \/ pc' = "apply" /\ job' = [call EXCEPT !.mode = "straight", !.apply = <<b>>]
      \/ /\ CanFetchBranch(f, f.head, head)
         /\ pc' = "pop"
         /\ job' = [call EXCEPT !.mode = "switch", !.apply = Branch(f, f.head, fork),
                                !.old = Branch(f, head, fork)]
  BY DEF Push
<1>8. Num[head] \in Nat
  BY <1>2, NumIsNat DEF Chained
<1> HIDE DEF call, f, head
<1>9. JobOK'
  <2>1. CASE pc' = "requeue" /\ job' \in {call, [call EXCEPT !.ok = FALSE]}
    <3>1. /\ DOMAIN job' = DOMAIN NoJob /\ job'.mode = "none"
          /\ job'.apply = <<>> /\ job'.old = <<>> /\ job'.write = <<>>
      BY <2>1, <1>6 DEF NoJob
    <3> QED BY <2>1, <3>1 DEF JobOK
  <2>2. CASE pc' = "apply" /\ job' = [call EXCEPT !.mode = "straight", !.apply = <<b>>]
    <3>1. /\ DOMAIN job' = DOMAIN NoJob /\ job'.mode = "straight"
          /\ job'.apply = <<b>> /\ job'.old = <<>> /\ job'.write = <<>>
      BY <2>2, <1>6 DEF NoJob
    <3>2. <<b>> \in Seq(Blocks) /\ <<b>> # <<>>
      OBVIOUS
    <3> QED BY <3>1, <3>2 DEF JobOK
  <2>3. CASE /\ CanFetchBranch(f, f.head, head)
             /\ pc' = "pop"
             /\ job' = [call EXCEPT !.mode = "switch", !.apply = Branch(f, f.head, fork),
                                    !.old = Branch(f, head, fork)]
    <3>1. f.head \in Blocks
      BY <2>3, <1>5 DEF CanFetchBranch, IndexOK
    <3>2. Num[f.head] \in Nat
      BY <3>1, ForkDatabaseAssumption
    <3>3. /\ Branch(f, f.head, fork) \in Seq(Blocks) \ {<<>>}
          /\ Branch(f, head, fork) \in Seq(Blocks) \ {<<>>}
      BY <2>3, <1>8, <3>2, FetchOK
    <3>4. /\ DOMAIN job' = DOMAIN NoJob /\ job'.mode = "switch"
          /\ job'.apply = Branch(f, f.head, fork) /\ job'.old = Branch(f, head, fork)
          /\ job'.write = <<>>
      BY <2>3, <1>6 DEF NoJob
    <3> QED BY <3>3, <3>4 DEF JobOK
  <2> QED BY <1>7, <2>1, <2>2, <2>3
<1> QED BY <1>3, <1>4, <1>5, <1>9 DEF IInv

\* pop_block, when it throws, and when the fork point is reached.
LEMMA PopStep ==
    ASSUME IInv, Pop \/ PopFails \/ Unwound
    PROVE  IInv'
<1>0. pc = "pop" /\ pc' \in InCall \ {"migrate"} /\ ~session /\ Chained(undo, db, revision, FALSE)
  BY DEF Pop, PopFails, Unwound, IInv, HistoryOK, InCall
<1>1. /\ log' = log /\ flushed' = flushed /\ session' = session
      /\ job' = job \/ (pc' = "requeue" /\ job' = [job EXCEPT !.ok = FALSE])
      /\ fork_db' \in {fork_db, PopBlock(fork_db)}
  <2>1. CASE Pop
    BY <2>1 DEF Pop
  <2>2. CASE PopFails
    BY <2>2 DEF PopFails
  <2>3. CASE Unwound
    BY <2>3 DEF Unwound
  <2> QED BY <2>1, <2>2, <2>3
<1>2. Chained(undo', db', revision', FALSE)
  <2>1. CASE UNCHANGED <<undo, db, revision>>
    BY <2>1, <1>0
  <2>2. CASE Pop /\ undo # <<>>
    <3>1. PICK n \in Nat : n = Len(undo)
      BY <1>0, LenIsNat DEF Chained
    <3>2. n >= 1
      BY <1>0, <2>2, <3>1 DEF Chained, IsASeq
    <3>3. Chained(SubSeq(undo, 1, n - 1), undo[n].snapshot, revision - 1, FALSE)
      BY <1>0, <3>1, <3>2, ChainedUndo
    <3> QED BY <2>2, <3>1, <3>3 DEF Pop, Outer
  <2> QED BY <2>1, <2>2 DEF Pop, PopFails, Unwound
<1>3. HistoryOK'
  BY <1>0, <1>1, <1>2 DEF HistoryOK, InCall, Replaying, IInv
<1>4. LogOK'
  BY <1>0, <1>1 DEF IInv, LogOK, InCall
<1>5. JobOK'
  <2>1. CASE job' = job
    BY <1>0, <2>1 DEF IInv, JobOK
  <2>2. CASE pc' = "requeue" /\ job' = [job EXCEPT !.ok = FALSE]
    <3>1. /\ DOMAIN job' = DOMAIN NoJob /\ job'.mode = job.mode
          /\ job'.apply = job.apply /\ job'.old = job.old /\ job'.write = job.write
      BY <2>2 DEF IInv, JobOK, NoJob
    <3> QED BY <2>2, <3>1 DEF IInv, JobOK
  <2> QED BY <1>1, <2>1, <2>2
<1>6. IndexOK(fork_db')
  BY <1>1, ForkDbKept DEF IInv
<1> QED BY <1>3, <1>4, <1>5, <1>6 DEF IInv
\* apply_block up to the first write to the log.
LEMMA ApplyStep ==
    ASSUME IInv, Apply
    PROVE  IInv'
<1> DEFINE b == NextBlock
<1>0. pc = "apply" /\ pc' = "migrate" /\ ~session /\ Chained(undo, db, revision, FALSE)
  BY DEF Apply, IInv, HistoryOK, InCall
<1>1. /\ log' = log /\ flushed' = flushed /\ session' = session
      /\ undo' = Append(undo, [snapshot |-> db, revision |-> revision + 1])
      /\ revision' = revision + 1
      /\ db' = AfterBlock(db, b)
      /\ fork_db' = ForkDbAtApply
      /\ job' = [job EXCEPT !.write = ToWrite(fork_db', db')]
  BY DEF Apply, Started
<1>2. b \in Blocks
  BY <1>0 DEF IInv, JobOK, NextBlock
<1>3. db.head = Previous[b] /\ CanMigrate(fork_db', db')
  BY <1>1 DEF Apply, CanApply, BlockApplies
<1>4. StateOK(db') /\ db'.head = b
  BY <1>0, <1>1, <1>2, AfterBlockType DEF Chained
<1> HIDE DEF b
<1>5. Chained(undo', db', revision', FALSE)
  BY <1>0, <1>1, <1>2, <1>3, <1>4, ChainedStart
<1>6. HistoryOK'
  BY <1>0, <1>1, <1>5 DEF IInv, HistoryOK, InCall, Replaying
<1>7. LogOK'
  BY <1>0, <1>1 DEF IInv, LogOK
<1>8. ToWrite(fork_db', db') \in Seq(Blocks)
  <2> DEFINE k == db'.lib - Len(log)
             w == ToWrite(fork_db', db')
  <2>1. k \in Int
    BY <1>4 DEF StateOK, IInv, LogOK
  <2>2. DOMAIN w = 1 .. k /\ w = [i \in DOMAIN w |-> w[i]] /\ \A i \in 1 .. k : w[i] \in Blocks
    BY <1>3 DEF CanMigrate, ToWrite
  <2> HIDE DEF k, w
  <2>3. PICK m \in Nat : 1 .. k = 1 .. m
    <3>1. CASE k >= 0
      BY <2>1, <3>1
    <3>2. CASE k < 0
      <4>1. 1 .. k = 1 .. 0
        BY <2>1, <3>2
      <4> QED BY <4>1
    <3> QED BY <2>1, <3>1, <3>2
  <2>4. w \in [1 .. m -> Blocks]
    BY <2>2, <2>3
  <2>5. w \in Seq(Blocks)
    BY <2>4, SeqOf
  <2> QED BY <2>5 DEF w
<1>9. JobOK'
  <2>1. /\ DOMAIN job' = DOMAIN NoJob /\ job'.mode = job.mode
        /\ job'.apply = job.apply /\ job'.old = job.old
        /\ job'.write = ToWrite(fork_db', db')
    BY <1>1 DEF IInv, JobOK, NoJob
  <2> QED BY <1>0, <1>8, <2>1 DEF IInv, JobOK
<1>10. IndexOK(fork_db')
  BY <1>1, ForkDbKept DEF IInv, ForkDbAtApply
<1> QED BY <1>6, <1>7, <1>9, <1>10 DEF IInv

\* apply_block throws.
LEMMA ApplyFailsStep ==
    ASSUME IInv, ApplyFails \/ BranchFails
    PROVE  IInv'
<1>0. /\ pc = "apply" /\ pc' \in {"requeue", "pop"}
      /\ ~session /\ Chained(undo, db, revision, FALSE)
  BY DEF ApplyFails, BranchFails, IInv, HistoryOK, InCall
<1>1. UNCHANGED <<db, undo, revision, log, flushed, session>>
  BY DEF ApplyFails, BranchFails
<1>2. HistoryOK'
  BY <1>0, <1>1 DEF IInv, HistoryOK, InCall, Replaying
<1>3. LogOK'
  BY <1>0, <1>1 DEF IInv, LogOK
<1>4. JobOK'
  <2>1. CASE ApplyFails
    <3>1. pc' = "requeue" /\ job' = [job EXCEPT !.ok = FALSE]
      BY <2>1 DEF ApplyFails
    <3>2. /\ DOMAIN job' = DOMAIN NoJob /\ job'.mode = job.mode
          /\ job'.apply = job.apply /\ job'.old = job.old /\ job'.write = job.write
      BY <3>1 DEF IInv, JobOK, NoJob
    <3> QED BY <3>1, <3>2 DEF IInv, JobOK
  <2>2. CASE BranchFails
    <3>1. job' = [job EXCEPT !.mode = "restore", !.apply = job.old, !.ok = FALSE]
      BY <2>2 DEF BranchFails
    <3>2. job.mode = "switch"
      BY <2>2 DEF BranchFails
    <3>3. /\ DOMAIN job' = DOMAIN NoJob /\ job'.mode = "restore"
          /\ job'.apply = job.old /\ job'.old = job.old /\ job'.write = job.write
      BY <3>1 DEF IInv, JobOK, NoJob
    <3> QED BY <3>2, <3>3 DEF IInv, JobOK
  <2> QED BY <2>1, <2>2
<1>5. IndexOK(ForkDbAtApply)
  BY ForkDbKept DEF IInv, ForkDbAtApply
<1>6. IndexOK(fork_db')
  BY <1>5, ForkDbKept DEF IInv, ApplyFails, BranchFails, Remove
<1> QED BY <1>2, <1>3, <1>4, <1>6 DEF IInv

\* block_log::append
LEMMA AppendStep ==
    ASSUME IInv, AppendToLog
    PROVE  IInv'
<1>0. pc = "migrate" /\ pc' = "migrate"
  BY DEF AppendToLog
<1>1. /\ UNCHANGED <<db, undo, revision, session, fork_db, flushed>>
      /\ log' = Append(log, Head(job.write))
      /\ job.write # <<>>
      /\ job' = [job EXCEPT !.write = Tail(@)]
  BY DEF AppendToLog
<1>2. HistoryOK'
  BY <1>0, <1>1 DEF IInv, HistoryOK, InCall, Replaying
<1>3. LogOK'
  <2>1. Head(job.write) \in Blocks
    BY <1>1 DEF IInv, JobOK
  <2> QED BY <1>0, <1>1, <2>1 DEF IInv, LogOK
<1>4. JobOK'
  <2>1. /\ DOMAIN job' = DOMAIN NoJob /\ job'.mode = job.mode
        /\ job'.apply = job.apply /\ job'.old = job.old /\ job'.write = Tail(job.write)
    BY <1>1 DEF IInv, JobOK, NoJob
  <2>2. Tail(job.write) \in Seq(Blocks)
    BY <1>1 DEF IInv, JobOK
  <2> QED BY <1>0, <2>1, <2>2 DEF IInv, JobOK
<1> QED BY <1>1, <1>2, <1>3, <1>4 DEF IInv

\* The end of migrate_irreversible_state, and session.push().
LEMMA CommitStep ==
    ASSUME IInv, CommitBlock
    PROVE  IInv'
<1>0. /\ pc = "migrate" /\ pc' = IF Len(job.apply) = 1 THEN "requeue" ELSE "apply"
      /\ ~session /\ Chained(undo, db, revision, FALSE)
  BY DEF CommitBlock, IInv, HistoryOK, InCall
<1>1. /\ UNCHANGED <<db, revision, log, session>>
      /\ flushed' = Len(log)
      /\ fork_db' = SetMaxSize(fork_db, HeadNum - db.lib + 1)
      /\ job' = [job EXCEPT !.apply = Tail(@)]
  BY DEF CommitBlock
<1>2. PICK k \in 0 .. Len(undo) : undo' = SubSeq(undo, k + 1, Len(undo))
  BY DEF CommitBlock, CommitTo
<1>3. Chained(undo', db', revision', FALSE)
  <2>1. PICK n \in Nat : n = Len(undo)
    BY <1>0, LenIsNat DEF Chained
  <2>2. Chained(SubSeq(undo, k + 1, n), db, revision, FALSE)
    BY <1>0, <1>2, <2>1, ChainedCommit
  <2> QED BY <1>1, <1>2, <2>1, <2>2
<1>4. HistoryOK'
  BY <1>0, <1>1, <1>3 DEF IInv, HistoryOK, InCall, Replaying
<1>5. LogOK'
  BY <1>0, <1>1 DEF IInv, LogOK
<1>6. JobOK'
  <2>1. /\ DOMAIN job' = DOMAIN NoJob /\ job'.mode = job.mode
        /\ job'.apply = Tail(job.apply) /\ job'.old = job.old /\ job'.write = job.write
    BY <1>1 DEF IInv, JobOK, NoJob
  <2>2. job.apply \in Seq(Blocks) /\ job.apply # <<>>
    BY <1>0 DEF IInv, JobOK
  <2>3. Tail(job.apply) \in Seq(Blocks) /\ (Len(job.apply) # 1 => Tail(job.apply) # <<>>)
    BY <2>2, TailOf
  <2> QED BY <1>0, <2>1, <2>3 DEF IInv, JobOK
<1>7. IndexOK(fork_db')
  BY <1>1, ForkDbKept DEF IInv
<1> QED BY <1>4, <1>5, <1>6, <1>7 DEF IInv
\* ~pending_transactions_restorer
LEMMA RequeueStep ==
    ASSUME IInv, Requeue
    PROVE  IInv'
<1>0. pc = "requeue" /\ pc' = "idle" /\ Chained(undo, db, revision, FALSE)
  BY DEF Requeue, IInv, HistoryOK, InCall
<1>1. PICK T : db' = [db EXCEPT !.trxs = T]
  BY DEF Requeue
<1>2. /\ session' \in BOOLEAN
      /\ undo' = IF session' THEN Append(undo, [snapshot |-> db, revision |-> revision + 1]) ELSE undo
      /\ revision' = IF session' THEN revision + 1 ELSE revision
      /\ job' = NoJob
      /\ UNCHANGED <<fork_db, log, flushed>>
  BY DEF Requeue, Started
<1>3. StateOK(db') /\ db'.head = db.head
  BY <1>0, <1>1, TrxsType DEF Chained
<1>4. Chained(undo', db', revision', session')
  <2>1. CASE session'
    BY <2>1, <1>0, <1>2, <1>3, ChainedStart
  <2>2. CASE ~session'
    BY <2>2, <1>0, <1>2, <1>3, ChainedSame
  <2> QED BY <2>1, <2>2, <1>2
<1>5. HistoryOK'
  BY <1>0, <1>2, <1>4 DEF HistoryOK, InCall, Replaying
<1>6. LogOK'
  BY <1>0, <1>2 DEF IInv, LogOK
<1>7. JobOK'
  BY <1>0, <1>2, NoJobOK DEF JobOK
<1> QED BY <1>2, <1>5, <1>6, <1>7 DEF IInv

\* push_transaction
LEMMA TransactionStep ==
    ASSUME IInv, NEW t, PushTransaction(t)
    PROVE  IInv'
<1>0. /\ pc = "idle" /\ pc' = "idle" /\ session' = TRUE /\ session \in BOOLEAN
      /\ Chained(undo, db, revision, session)
  BY DEF PushTransaction, IInv, HistoryOK
<1>1. /\ db' = db \/ (\E T : db' = [db EXCEPT !.trxs = T])
      /\ undo' = IF session THEN undo ELSE Append(undo, [snapshot |-> db, revision |-> revision + 1])
      /\ revision' = IF session THEN revision ELSE revision + 1
      /\ UNCHANGED <<fork_db, log, flushed, job>>
  BY DEF PushTransaction, Started
<1>2. StateOK(db') /\ db'.head = db.head
  <2>1. StateOK(db)
    BY <1>0 DEF Chained
  <2>2. CASE db' = db
    BY <2>1, <2>2
  <2>3. CASE \E T : db' = [db EXCEPT !.trxs = T]
    <3>1. PICK T : db' = [db EXCEPT !.trxs = T]
      BY <2>3
    <3>2. StateOK([db EXCEPT !.trxs = T]) /\ [db EXCEPT !.trxs = T].head = db.head
      BY <2>1, TrxsType
    <3> QED BY <3>1, <3>2
  <2> QED BY <1>1, <2>2, <2>3
<1>3. Chained(undo', db', revision', TRUE)
  <2>1. CASE session
    BY <2>1, <1>0, <1>1, <1>2, ChainedSame
  <2>2. CASE ~session
    BY <2>2, <1>0, <1>1, <1>2, ChainedStart
  <2> QED BY <2>1, <2>2, <1>0
<1>4. HistoryOK'
  BY <1>0, <1>3 DEF HistoryOK, InCall, Replaying
<1>5. LogOK'
  BY <1>0, <1>1 DEF IInv, LogOK
<1>6. JobOK'
  BY <1>0, <1>1 DEF IInv, JobOK
<1> QED BY <1>1, <1>4, <1>5, <1>6 DEF IInv

\* close()
LEMMA CloseStep ==
    ASSUME IInv, Close
    PROVE  IInv'
<1>0. /\ pc = "idle" /\ pc' = "closed" /\ session' = FALSE
      /\ undo' = CleanUndo /\ db' = CleanDb /\ revision' = CleanRevision
      /\ log' = log /\ flushed' = Len(log) /\ job' = job
      /\ fork_db' = EmptyForkDb(ForkDbSize)
  BY DEF Close
<1>1. Chained(undo', db', revision', FALSE)
  BY <1>0, CleanOK DEF IInv
<1>2. HistoryOK'
  BY <1>0, <1>1 DEF HistoryOK, InCall, Replaying
<1>3. LogOK'
  BY <1>0 DEF IInv, LogOK
<1>4. JobOK'
  BY <1>0 DEF IInv, JobOK
<1>5. IndexOK(fork_db')
  BY <1>0, ForkDbKept
<1> QED BY <1>2, <1>3, <1>4, <1>5 DEF IInv

LEMMA CrashStep ==
    ASSUME IInv, Crash
    PROVE  IInv'
<1>0. /\ pc \notin {"closed", "torn"}
      /\ pc' = IF pc = "replay" THEN "torn" ELSE "closed"
      /\ session' = FALSE /\ job' = NoJob
      /\ UNCHANGED <<db, undo, revision>>
      /\ fork_db' = EmptyForkDb(ForkDbSize)
  BY DEF Crash
<1>1. PICK n \in flushed .. Len(log) : log' = SubSeq(log, 1, n) /\ flushed' = n
  BY DEF Crash
<1>2. HistoryOK'
  <2>1. CASE pc = "replay"
    BY <2>1, <1>0 DEF IInv, HistoryOK, InCall, Replaying
  <2>2. CASE pc # "replay"
    <3>1. \E pend \in BOOLEAN : Chained(undo, db, revision, pend)
      BY <2>2, <1>0 DEF IInv, HistoryOK
    <3> QED BY <2>2, <3>1, <1>0 DEF HistoryOK, InCall, Replaying
  <2> QED BY <2>1, <2>2
<1>3. LogOK'
  <2>1. PICK m \in Nat : m = Len(log)
    BY DEF IInv, LogOK
  <2>2. n \in 0 .. m
    BY <1>1, <2>1 DEF IInv, LogOK
  <2>3. SubSeq(log, 1, n) \in Seq(Blocks) /\ Len(SubSeq(log, 1, n)) = n
    BY <2>1, <2>2 DEF IInv, LogOK
  <2> QED BY <1>0, <1>1, <2>2, <2>3 DEF LogOK
<1>4. JobOK'
  BY <1>0, NoJobOK DEF JobOK
<1>5. IndexOK(fork_db')
  BY <1>0, ForkDbKept
<1> QED BY <1>2, <1>3, <1>4, <1>5 DEF IInv

\* open()
LEMMA OpenStep ==
    ASSUME IInv, Open
    PROVE  IInv'
<1>0. /\ pc \in {"closed", "torn"} /\ pc' = "idle" /\ CanOpen
      /\ db' = BaseDb /\ undo' = <<>> /\ revision' = revision - Len(undo)
      /\ fork_db' = StartedForkDb(BaseDb.head)
      /\ UNCHANGED <<log, flushed, session, job>>
  BY DEF Open
<1>1. ~session /\ session \in BOOLEAN
  BY <1>0 DEF IInv, HistoryOK, Replaying
<1>2. StateOK(BaseDb)
  <2>1. CASE pc = "torn"
    BY <2>1 DEF IInv, HistoryOK, Replaying, BaseDb
  <2>2. CASE pc = "closed"
    <3>1. PICK pend \in BOOLEAN : Chained(undo, db, revision, pend)
      BY <2>2 DEF IInv, HistoryOK
    <3>2. PICK n \in Nat : n = Len(undo)
      BY <3>1, LenIsNat DEF Chained
    <3>3. CASE undo = <<>>
      BY <3>1, <3>3 DEF Chained, BaseDb
    <3>4. CASE undo # <<>>
      <4>1. n >= 1
        BY <3>1, <3>2, <3>4 DEF Chained, IsASeq
      <4> QED BY <3>1, <3>2, <3>4, <4>1, ChainedOldest DEF BaseDb
    <3> QED BY <3>3, <3>4
  <2> QED BY <1>0, <2>1, <2>2
<1>3. Chained(undo', db', revision', FALSE)
  BY <1>0, <1>2, ChainedBase DEF CanOpen
<1>4. HistoryOK'
  BY <1>0, <1>1, <1>3 DEF HistoryOK, InCall, Replaying
<1>5. LogOK'
  BY <1>0 DEF IInv, LogOK
<1>6. JobOK'
  BY <1>0 DEF IInv, JobOK
<1>7. IndexOK(fork_db')
  <2>1. BaseDb.head \in Blocks \cup {Genesis}
    BY <1>2 DEF StateOK, Ids
  <2> QED BY <1>0, <2>1, ForkDbKept DEF StartedForkDb
<1> QED BY <1>4, <1>5, <1>6, <1>7 DEF IInv

\* reindex()
LEMMA ReindexStep ==
    ASSUME IInv, Reindex
    PROVE  IInv'
<1>0. /\ pc \in {"closed", "torn"} /\ pc' = IF log = <<>> THEN "closed" ELSE "replay"
      /\ db' = GenesisState /\ undo' = <<>> /\ revision' = 0
      /\ fork_db' = EmptyForkDb(ForkDbSize)
      /\ UNCHANGED <<log, flushed, session, job>>
  BY DEF Reindex
<1>1. ~session /\ session \in BOOLEAN
  BY <1>0 DEF IInv, HistoryOK, Replaying
<1>2. Chained(undo', db', revision', FALSE)
  BY <1>0, ChainedBase, GenesisType, ForkDatabaseAssumption
<1>3. HistoryOK'
  BY <1>0, <1>1, <1>2, GenesisType DEF HistoryOK, InCall, Replaying
<1>4. LogOK'
  BY <1>0 DEF IInv, LogOK
<1>5. JobOK'
  BY <1>0 DEF IInv, JobOK
<1>6. IndexOK(fork_db')
  BY <1>0, ForkDbKept
<1> QED BY <1>3, <1>4, <1>5, <1>6 DEF IInv

LEMMA ReplayStep ==
    ASSUME IInv, ReplayBlock \/ ReplayFails \/ EndReplay
    PROVE  IInv'
<1>0. /\ pc = "replay" /\ UNCHANGED <<undo, log, flushed, session, job>>
      /\ ~session /\ session \in BOOLEAN /\ undo = <<>> /\ revision = 0 /\ StateOK(db)
  BY DEF ReplayBlock, ReplayFails, EndReplay, IInv, HistoryOK, Replaying
<1>1. PICK m \in Nat : m = Len(log) /\ m >= 1
  BY <1>0 DEF IInv, LogOK
<1>2. HeadNum \in Nat
  BY <1>0, NumIsNat DEF HeadNum
<1>3. JobOK'
  <2>1. pc' \in {"replay", "torn", "idle"}
    BY <1>0 DEF ReplayBlock, ReplayFails, EndReplay
  <2> QED BY <1>0, <2>1 DEF IInv, JobOK
<1>4. LogOK'
  BY <1>0 DEF IInv, LogOK
<1>5. CASE ReplayBlock
  <2>1. HeadNum < m /\ pc' = "replay" /\ revision' = revision
    BY <1>0, <1>1, <1>5 DEF ReplayBlock
  <2>2. log[HeadNum + 1] \in Blocks
    BY <1>1, <1>2, <2>1 DEF IInv, LogOK
  <2>3. StateOK(db')
    BY <1>0, <1>5, <2>2, AfterBlockType, TrxsType DEF ReplayBlock
  <2>4. HistoryOK'
    BY <1>0, <2>1, <2>3 DEF HistoryOK, InCall, Replaying
  <2>5. IndexOK(fork_db')
    BY <1>5, ForkDbKept DEF IInv, ReplayBlock
  <2> QED BY <1>3, <1>4, <2>4, <2>5 DEF IInv
<1>6. CASE ReplayFails
  <2>1. pc' = "torn" /\ UNCHANGED <<db, revision>>
    BY <1>6 DEF ReplayFails
  <2>2. HistoryOK'
    BY <1>0, <2>1 DEF HistoryOK, InCall, Replaying
  <2>3. IndexOK(fork_db')
    BY <1>6, ForkDbKept DEF ReplayFails
  <2> QED BY <1>3, <1>4, <2>2, <2>3 DEF IInv
<1>7. CASE EndReplay
  <2>1. pc' = "idle" /\ db' = db /\ revision' = HeadNum
    BY <1>7 DEF EndReplay
  <2>2. Chained(undo', db', revision', FALSE)
    BY <1>0, <2>1, ChainedBase DEF HeadNum
  <2>3. HistoryOK'
    BY <1>0, <2>1, <2>2 DEF HistoryOK, InCall, Replaying
  <2>4. log[Len(log)] \in Blocks
    BY <1>1 DEF IInv, LogOK
  <2>5. IndexOK(fork_db')
    BY <1>7, <2>4, ForkDbKept DEF IInv, EndReplay
  <2> QED BY <1>3, <1>4, <2>3, <2>5 DEF IInv
<1> QED BY <1>5, <1>6, <1>7

-----------------------------------------------------------------------------
LEMMA StutterStep ==
    ASSUME IInv, UNCHANGED vars
    PROVE  IInv'
<1>1. UNCHANGED <<db, undo, revision, fork_db, log, flushed, session, pc, job>>
  BY DEF vars
<1>2. HistoryOK' /\ LogOK' /\ JobOK'
  BY <1>1 DEF IInv, HistoryOK, Replaying, LogOK, JobOK
<1> QED BY <1>1, <1>2 DEF IInv

LEMMA NextStep ==
    ASSUME IInv, [Next]_vars
    PROVE  IInv'
<1>1. CASE UNCHANGED vars
  BY <1>1, StutterStep
<1>2. CASE Next
  <2>1. CASE \E b \in Blocks : Push(b)
    BY <2>1, PushStep DEF Push
  <2>2. CASE \E b \in Blocks : Generate(b)
    BY <2>2, PushStep DEF Generate
  <2>3. CASE Pop \/ PopFails \/ Unwound
    BY <2>3, PopStep
  <2>4. CASE Apply
    BY <2>4, ApplyStep
  <2>5. CASE ApplyFails \/ BranchFails
    BY <2>5, ApplyFailsStep
  <2>6. CASE AppendToLog
    BY <2>6, AppendStep
  <2>7. CASE CommitBlock
    BY <2>7, CommitStep
  <2>8. CASE Requeue
    BY <2>8, RequeueStep
  <2>9. CASE \E t \in Trx : PushTransaction(t)
    BY <2>9, TransactionStep
  <2>10. CASE Close
    BY <2>10, CloseStep
  <2>11. CASE Crash
    BY <2>11, CrashStep
  <2>12. CASE Open
    BY <2>12, OpenStep
  <2>13. CASE Reindex
    BY <2>13, ReindexStep
  <2>14. CASE ReplayBlock \/ ReplayFails \/ EndReplay
    BY <2>14, ReplayStep
  <2> QED BY <1>2, <2>1, <2>2, <2>3, <2>4, <2>5, <2>6, <2>7, <2>8, <2>9, <2>10,
             <2>11, <2>12, <2>13, <2>14 DEF Next
<1> QED BY <1>1, <1>2

LEMMA Invariant == Spec => []IInv
<1>1. Init => IInv
  BY InitOK
<1>2. IInv /\ [Next]_vars => IInv'
  BY NextStep
<1> QED BY <1>1, <1>2, PTL DEF Spec

\* For every block tree and every sequence of pushes, switches, transactions,
\* crashes and restarts, the undo history database::push_block works on is
\* one chain of blocks whose revisions are the block numbers.
THEOREM HistoryIsChain == Spec => []UndoHistoryIsChain
<1>1. IInv => UndoHistoryIsChain
  <2> SUFFICES ASSUME IInv PROVE UndoHistoryIsChain
    OBVIOUS
  <2>1. CASE Replaying
    BY <2>1 DEF UndoHistoryIsChain
  <2>2. CASE ~Replaying
    <3>1. \E pend \in BOOLEAN : Chained(undo, db, revision, pend)
      BY <2>2 DEF IInv, HistoryOK, Replaying
    <3> QED BY <3>1, ChainedImplies
  <2> QED BY <2>1, <2>2
<1> QED BY <1>1, Invariant, PTL

\* A replay that was broken off, wherever it was, leaves a state that
\* database::open refuses by its revision check.
THEOREM BrokenReplayIsRefused == Spec => []BrokenReplayRefused
<1>1. IInv => BrokenReplayRefused
  <2> SUFFICES ASSUME IInv, pc = "torn", db.head # Genesis, CanOpen PROVE FALSE
    BY DEF BrokenReplayRefused
  <2>1. undo = <<>> /\ revision = 0 /\ StateOK(db)
    BY DEF IInv, HistoryOK, Replaying
  <2>2. Num[db.head] = 0
    BY <2>1 DEF CanOpen, BaseDb
  <2>3. db.head \in Blocks
    BY <2>1 DEF StateOK, Ids
  <2> QED BY <2>2, <2>3, ForkDatabaseAssumption
<1> QED BY <1>1, Invariant, PTL

-----------------------------------------------------------------------------
(* Sequences of transactions, and what is left of one that is pushed again.*)

LEMMA NoElements == Elements(<<>>) = {} /\ IsASeq(<<>>)
<1>1. Len(<<>>) = 0 /\ <<>> \in Seq({})
  OBVIOUS
<1>2. \A i \in 1 .. Len(<<>>) : FALSE
  BY <1>1
<1> QED BY <1>1, <1>2 DEF Elements, IsASeq

LEMMA AppendElements ==
    ASSUME NEW u, IsASeq(u), NEW e
    PROVE  Elements(Append(u, e)) = Elements(u) \cup {e}
<1>1. PICK n \in Nat : n = Len(u)
  BY LenIsNat
<1>2. /\ Len(Append(u, e)) = n + 1
      /\ Append(u, e)[n + 1] = e
      /\ \A i \in 1 .. n : Append(u, e)[i] = u[i]
  BY <1>1, AppendIs
<1>3. \A i : i \in 1 .. n + 1 <=> i \in 1 .. n \/ i = n + 1
  OBVIOUS
<1>4. ASSUME NEW t PROVE t \in Elements(Append(u, e)) <=> t \in Elements(u) \cup {e}
  <2>1. t \in Elements(Append(u, e)) <=> \E i \in 1 .. n + 1 : t = Append(u, e)[i]
    BY <1>2, Zenon DEF Elements
  <2>2. t \in Elements(u) <=> \E i \in 1 .. n : t = u[i]
    BY <1>1, Zenon DEF Elements
  <2> QED BY <1>2, <1>3, <2>1, <2>2, Zenon
<1> QED BY <1>4, Zenon

LEMMA ConcatElements ==
    ASSUME NEW u, IsASeq(u), NEW v, IsASeq(v)
    PROVE  IsASeq(u \o v) /\ Elements(u \o v) = Elements(u) \cup Elements(v)
<1>1. PICK S, T : u \in Seq(S) /\ v \in Seq(T)
  BY DEF IsASeq
<1>2. u \in Seq(S \cup T) /\ v \in Seq(S \cup T)
  BY <1>1
<1>3. u \o v \in Seq(S \cup T)
  BY <1>2
<1>4. PICK m \in Nat, n \in Nat : m = Len(u) /\ n = Len(v)
  BY LenIsNat
<1>5. /\ Len(u \o v) = m + n
      /\ \A i \in 1 .. m : (u \o v)[i] = u[i]
      /\ \A j \in 1 .. n : (u \o v)[m + j] = v[j]
  BY <1>2, <1>4
<1>6. Elements(u) \cup Elements(v) \subseteq Elements(u \o v)
  <2>1. \A i \in 1 .. m : i \in 1 .. m + n
    OBVIOUS
  <2>2. \A j \in 1 .. n : m + j \in 1 .. m + n
    OBVIOUS
  <2>3. \A i \in 1 .. m : u[i] \in Elements(u \o v)
    BY <1>5, <2>1, Zenon DEF Elements
  <2>4. \A j \in 1 .. n : v[j] \in Elements(u \o v)
    BY <1>5, <2>2, Zenon DEF Elements
  <2> QED BY <1>4, <2>3, <2>4, Zenon DEF Elements
<1>7. Elements(u \o v) \subseteq Elements(u) \cup Elements(v)
  <2> SUFFICES ASSUME NEW i \in 1 .. m + n
               PROVE  (u \o v)[i] \in Elements(u) \cup Elements(v)
    BY <1>5, Zenon DEF Elements
  <2>1. CASE i \in 1 .. m
    BY <1>4, <1>5, <2>1, Zenon DEF Elements
  <2>2. CASE i \notin 1 .. m
    <3>1. PICK j \in 1 .. n : i = m + j
      <4>1. i - m \in 1 .. n /\ i = m + (i - m)
        BY <2>2
      <4> QED BY <4>1
    <3> QED BY <1>4, <1>5, <3>1, Zenon DEF Elements
  <2> QED BY <2>1, <2>2
<1> QED BY <1>3, <1>6, <1>7 DEF IsASeq

\* The transactions of a block come back in some order.
LEMMA ListedIs ==
    ASSUME NEW S, IsFiniteSet(S)
    PROVE  IsASeq(Listed(S)) /\ Elements(Listed(S)) = S
<1>1. PICK n \in Nat : n = Cardinality(S)
  BY FS_CardinalityType
<1>2. PICK f : f \in Bijection(1 .. n, S)
  BY <1>1, FS_CardinalityType DEF ExistsBijection
<1>3. f \in [1 .. n -> S] /\ \A t \in S : \E i \in 1 .. n : f[i] = t
  BY <1>2 DEF Bijection, Injection, Surjection
<1>4. \A g \in [1 .. n -> S] : g \in Seq(S) /\ Len(g) = n
  OBVIOUS
<1>5. Elements(f) = S
  BY <1>3, <1>4, Zenon DEF Elements
<1>6. Listed(S) \in [1 .. n -> S] /\ Elements(Listed(S)) = S
  BY <1>1, <1>3, <1>5, Zenon DEF Listed
<1> QED BY <1>4, <1>6 DEF IsASeq

IsTake(g, s, h, done, m) ==
    g = [i \in 0 .. m |-> IF i = 0 THEN <<>> ELSE PushAgain(g[i - 1], s[i], h, done)]

LEMMA TakeExists ==
    ASSUME NEW s, NEW h, NEW done, NEW n \in Nat
    PROVE  \E g : IsTake(g, s, h, done, n)
<1> DEFINE Bad == {m \in Nat : ~\E g : IsTake(g, s, h, done, m)}
<1> SUFFICES ASSUME Bad # {} PROVE FALSE
  OBVIOUS
<1>1. Bad \in SUBSET Nat
  OBVIOUS
<1>2. PICK m \in Bad : \A k \in Bad : m <= k
  BY <1>1, LeastExists
<1>3. m \in Nat /\ ~\E g : IsTake(g, s, h, done, m)
  OBVIOUS
<1>4. CASE m = 0
  <2> DEFINE g == [i \in 0 .. 0 |-> <<>>]
  <2>1. g = [i \in 0 .. 0 |-> IF i = 0 THEN <<>> ELSE PushAgain(g[i - 1], s[i], h, done)]
    <3>1. \A i \in 0 .. 0 : i = 0
      OBVIOUS
    <3> QED BY <3>1, Zenon
  <2> QED BY <1>3, <1>4, <2>1 DEF IsTake
<1>5. CASE m # 0
  <2>1. m - 1 \in Nat /\ ~(m <= m - 1)
    BY <1>3, <1>5
  <2>2. m - 1 \notin Bad
    BY <1>2, <2>1
  <2>3. PICK g : IsTake(g, s, h, done, m - 1)
    BY <2>1, <2>2
  <2> DEFINE e == PushAgain(g[m - 1], s[m], h, done)
             w == [i \in 0 .. m |-> IF i = m THEN e ELSE g[i]]
  <2>4. \A i \in 0 .. m - 1 : g[i] = IF i = 0 THEN <<>> ELSE PushAgain(g[i - 1], s[i], h, done)
    BY <2>3, Zenon DEF IsTake
  <2>5. ASSUME NEW i \in 0 .. m
        PROVE  w[i] = IF i = 0 THEN <<>> ELSE PushAgain(w[i - 1], s[i], h, done)
    <3>1. CASE i = m
      <4>1. m - 1 \in 0 .. m /\ m - 1 # m /\ i # 0
        BY <2>1, <3>1, <1>5
      <4>2. w[m - 1] = g[m - 1] /\ w[i] = e
        BY <3>1, <4>1
      <4> QED BY <3>1, <4>1, <4>2, Zenon
    <3>2. CASE i # m
      <4>1. i \in 0 .. m - 1 /\ (i # 0 => i - 1 \in 0 .. m /\ i - 1 # m)
        BY <2>1, <3>2
      <4>2. w[i] = g[i] /\ (i # 0 => w[i - 1] = g[i - 1])
        BY <3>2, <4>1
      <4> QED BY <2>4, <4>1, <4>2, Zenon
    <3> QED BY <3>1, <3>2
  <2>6. w = [i \in 0 .. m |-> w[i]]
    OBVIOUS
  <2> HIDE DEF w
  <2>7. w = [i \in 0 .. m |-> IF i = 0 THEN <<>> ELSE PushAgain(w[i - 1], s[i], h, done)]
    BY <2>5, <2>6, Zenon
  <2> QED BY <1>3, <2>7 DEF IsTake
<1> QED BY <1>4, <1>5

LEMMA AcceptedIs ==
    ASSUME NEW s, IsASeq(s), NEW h, NEW done, NEW n \in Nat, n = Len(s)
    PROVE  \E g : IsTake(g, s, h, done, n) /\ Accepted(s, h, done) = g[n]
<1> DEFINE take == CHOOSE g : IsTake(g, s, h, done, n)
<1>1. IsTake(take, s, h, done, n)
  BY TakeExists
<1>2. Accepted(s, h, done) = take[n]
  BY Zenon DEF Accepted, IsTake
<1> QED BY <1>1, <1>2

\* What pushing the transactions of s again on top of done keeps: none twice,
\* and a transaction that is lost is known, ruled out or not timely.
LEMMA AcceptedKeeps ==
    ASSUME NEW s, IsASeq(s), NEW h, NEW done
    PROVE  LET kept == Elements(Accepted(s, h, done))
           IN  /\ IsASeq(Accepted(s, h, done))
               /\ kept \subseteq Elements(s) \ done
               /\ \A t \in Elements(s) :
                     \/ t \in done \cup kept
                     \/ \E x \in done \cup kept : <<x, t>> \in Conflicts
                     \/ ~Timely(t, h)
<1>1. PICK n \in Nat : n = Len(s)
  BY LenIsNat
<1>2. PICK g : IsTake(g, s, h, done, n) /\ Accepted(s, h, done) = g[n]
  BY <1>1, AcceptedIs
<1> DEFINE K(i) == Elements(g[i])
           Good(i) == /\ IsASeq(g[i])
                      /\ K(i) \subseteq Elements(s) \ done
                      /\ \A j \in 1 .. i :
                            \/ s[j] \in done \cup K(i)
                            \/ \E x \in done \cup K(i) : <<x, s[j]>> \in Conflicts
                            \/ ~Timely(s[j], h)
           Bad == {i \in 0 .. n : ~Good(i)}
<1>3. g[0] = <<>>
  <2>1. 0 \in 0 .. n
    OBVIOUS
  <2> QED BY <1>2, <2>1, Zenon DEF IsTake
<1>4. ASSUME NEW i \in 1 .. n PROVE g[i] = PushAgain(g[i - 1], s[i], h, done)
  <2>1. i \in 0 .. n /\ i # 0
    OBVIOUS
  <2> QED BY <1>2, <2>1, Zenon DEF IsTake
<1>5. Good(0)
  <2>1. \A j \in 1 .. 0 : FALSE
    OBVIOUS
  <2> QED BY <1>3, <2>1, NoElements
<1>6. ASSUME NEW i \in 1 .. n, Good(i - 1) PROVE Good(i)
  <2> DEFINE p == g[i - 1]
             t == s[i]
  <2>1. IsASeq(p) /\ Elements(p) \subseteq Elements(s) \ done
    BY <1>6
  <2>2. t \in Elements(s)
    BY <1>1 DEF Elements
  <2>3. \A j \in 1 .. i - 1 :
           \/ s[j] \in done \cup Elements(p)
           \/ \E x \in done \cup Elements(p) : <<x, s[j]>> \in Conflicts
           \/ ~Timely(s[j], h)
    BY <1>6
  <2>4. \A j \in 1 .. i : j \in 1 .. i - 1 \/ j = i
    OBVIOUS
  <2> HIDE DEF p, t
  <2>5. CASE TrxApplies(t, h, done \cup Elements(p))
    <3>1. g[i] = Append(p, t)
      BY <1>4, <2>5 DEF PushAgain, p, t
    <3>2. PICK m \in Nat : m = Len(p)
      BY <2>1, LenIsNat
    <3>3. IsASeq(g[i]) /\ K(i) = Elements(p) \cup {t}
      BY <2>1, <3>1, <3>2, AppendIs, AppendElements
    <3>4. t \notin done
      BY <2>5 DEF TrxApplies
    <3>5. K(i) \subseteq Elements(s) \ done
      BY <2>1, <2>2, <3>3, <3>4
    <3>6. ASSUME NEW j \in 1 .. i
          PROVE  \/ s[j] \in done \cup K(i)
                 \/ \E x \in done \cup K(i) : <<x, s[j]>> \in Conflicts
                 \/ ~Timely(s[j], h)
      <4>1. CASE j \in 1 .. i - 1
        BY <4>1, <2>3, <3>3, Zenon
      <4>2. CASE j = i
        BY <4>2, <3>3, Zenon DEF t
      <4> QED BY <2>4, <4>1, <4>2
    <3> QED BY <3>3, <3>5, <3>6
  <2>6. CASE ~TrxApplies(t, h, done \cup Elements(p))
    <3>1. g[i] = p
      BY <1>4, <2>6 DEF PushAgain, p, t
    <3>2. \/ t \in done \cup Elements(p)
          \/ \E x \in done \cup Elements(p) : <<x, t>> \in Conflicts
          \/ ~Timely(t, h)
      BY <2>6 DEF TrxApplies
    <3>3. ASSUME NEW j \in 1 .. i
          PROVE  \/ s[j] \in done \cup K(i)
                 \/ \E x \in done \cup K(i) : <<x, s[j]>> \in Conflicts
                 \/ ~Timely(s[j], h)
      <4>1. CASE j \in 1 .. i - 1
        BY <4>1, <2>3, <3>1, Zenon
      <4>2. CASE j = i
        BY <4>2, <3>1, <3>2, Zenon DEF t
      <4> QED BY <2>4, <4>1, <4>2
    <3> QED BY <2>1, <3>1, <3>3
  <2> QED BY <2>5, <2>6
<1> HIDE DEF Good
<1>7. ASSUME Bad # {} PROVE FALSE
  <2>1. Bad \in SUBSET Nat
    OBVIOUS
  <2>2. PICK i \in Bad : \A k \in Bad : i <= k
    BY <1>7, <2>1, LeastExists
  <2>3. i \in 0 .. n /\ ~Good(i)
    OBVIOUS
  <2>4. i # 0
    BY <1>5, <2>3
  <2>5. i \in 1 .. n /\ i - 1 \in 0 .. n /\ ~(i <= i - 1)
    BY <2>3, <2>4
  <2>6. Good(i - 1)
    BY <2>2, <2>5
  <2> QED BY <1>6, <2>3, <2>5, <2>6
<1>8. Good(n)
  BY <1>7
<1>9. \A t \in Elements(s) : \E j \in 1 .. n : t = s[j]
  BY <1>1, Zenon DEF Elements
<1>10. /\ IsASeq(Accepted(s, h, done))
       /\ Elements(Accepted(s, h, done)) \subseteq Elements(s) \ done
  BY <1>2, <1>8 DEF Good
<1>11. \A j \in 1 .. n :
          \/ s[j] \in done \cup Elements(Accepted(s, h, done))
          \/ \E x \in done \cup Elements(Accepted(s, h, done)) : <<x, s[j]>> \in Conflicts
          \/ ~Timely(s[j], h)
  BY <1>2, <1>8 DEF Good
<1> QED BY <1>9, <1>10, <1>11, Zenon

-----------------------------------------------------------------------------
(* The transactions a state knows are those of the state below and those   *)
(* of its head block: popping the block gives none up but its own.         *)

TrxsAt(u, d, i) == IF i > Len(u) THEN d.trxs ELSE u[i].snapshot.trxs

NotedAt(u, d, i) == TrxsAt(u, d, i + 1) \subseteq TrxsAt(u, d, i) \cup TrxOf[HeadAt(u, d, i + 1)]

Noted(u, d) == \A i \in 1 .. Len(u) : NotedAt(u, d, i)

LEMMA AfterBlockTrxs ==
    ASSUME NEW s, StateOK(s), NEW b \in Blocks
    PROVE  AfterBlock(s, b).trxs = s.trxs \cup TrxOf[b]
<1> DEFINE moved == [s EXCEPT !.head = b,
                              !.confirmed = [@ EXCEPT ![WitnessOf[b]] = Num[b]],
                              !.trxs = @ \cup TrxOf[b]]
<1>1. DOMAIN moved = DOMAIN s /\ moved.trxs = s.trxs \cup TrxOf[b]
  BY DEF StateOK
<1>2. AfterBlock(s, b) = [moved EXCEPT !.lib = LastIrreversible(moved)]
  BY DEF AfterBlock
<1> HIDE DEF moved
<1> QED BY <1>1, <1>2 DEF StateOK

LEMMA NotedBase == \A d : Noted(<<>>, d)
<1>1. \A i \in 1 .. Len(<<>>) : FALSE
  <2>1. Len(<<>>) = 0
    OBVIOUS
  <2> QED BY <2>1
<1> QED BY <1>1 DEF Noted

LEMMA NotedSame ==
    ASSUME NEW u, NEW d, Noted(u, d), NEW e, e.trxs = d.trxs, e.head = d.head
    PROVE  Noted(u, e)
<1>1. \A i : TrxsAt(u, e, i) = TrxsAt(u, d, i) /\ HeadAt(u, e, i) = HeadAt(u, d, i)
  BY DEF TrxsAt, HeadAt
<1> QED BY <1>1 DEF Noted, NotedAt

LEMMA NotedUndo ==
    ASSUME NEW u, IsASeq(u), NEW d, Noted(u, d), NEW n \in Nat, n = Len(u), n >= 1
    PROVE  /\ Noted(SubSeq(u, 1, n - 1), u[n].snapshot)
           /\ d.trxs \subseteq u[n].snapshot.trxs \cup TrxOf[d.head]
<1> DEFINE v == SubSeq(u, 1, n - 1)
<1>1. n - 1 \in Nat /\ Len(v) = n - 1 /\ \A i \in 1 .. n - 1 : v[i] = u[i]
  BY FrontIs
<1> HIDE DEF v
<1>2. \A i \in 1 .. n : /\ TrxsAt(v, u[n].snapshot, i) = TrxsAt(u, d, i)
                        /\ HeadAt(v, u[n].snapshot, i) = HeadAt(u, d, i)
  BY <1>1 DEF TrxsAt, HeadAt
<1>3. ASSUME NEW i \in 1 .. n - 1 PROVE NotedAt(v, u[n].snapshot, i)
  <2>1. i \in 1 .. n /\ i + 1 \in 1 .. n
    OBVIOUS
  <2>2. NotedAt(u, d, i)
    BY <2>1 DEF Noted
  <2> QED BY <1>2, <2>1, <2>2 DEF NotedAt
<1>4. Noted(v, u[n].snapshot)
  BY <1>1, <1>3 DEF Noted
<1>5. d.trxs \subseteq u[n].snapshot.trxs \cup TrxOf[d.head]
  <2>1. n \in 1 .. n /\ n + 1 > n /\ ~(n > n)
    OBVIOUS
  <2>2. NotedAt(u, d, n)
    BY <2>1 DEF Noted
  <2> QED BY <2>1, <2>2 DEF NotedAt, TrxsAt, HeadAt
<1> QED BY <1>4, <1>5 DEF v

LEMMA NotedStart ==
    ASSUME NEW u, IsASeq(u), NEW d, Noted(u, d), NEW r,
           NEW e, e.trxs \subseteq d.trxs \cup TrxOf[e.head]
    PROVE  Noted(Append(u, [snapshot |-> d, revision |-> r]), e)
<1> DEFINE x == [snapshot |-> d, revision |-> r]
           v == Append(u, x)
<1>1. PICK n \in Nat : n = Len(u)
  BY LenIsNat
<1>2. Len(v) = n + 1 /\ v[n + 1] = x /\ \A i \in 1 .. n : v[i] = u[i]
  BY <1>1, AppendIs
<1>3. x.snapshot = d
  OBVIOUS
<1> HIDE DEF v, x
<1>4. \A i \in 1 .. n + 1 : TrxsAt(v, e, i) = TrxsAt(u, d, i) /\ HeadAt(v, e, i) = HeadAt(u, d, i)
  BY <1>1, <1>2, <1>3 DEF TrxsAt, HeadAt
<1>5. ASSUME NEW i \in 1 .. n + 1 PROVE NotedAt(v, e, i)
  <2>1. CASE i \in 1 .. n
    <3>1. i \in 1 .. n + 1 /\ i + 1 \in 1 .. n + 1
      BY <2>1
    <3>2. NotedAt(u, d, i)
      BY <1>1, <2>1 DEF Noted
    <3> QED BY <1>4, <3>1, <3>2 DEF NotedAt
  <2>2. CASE i = n + 1
    <3>1. TrxsAt(v, e, i) = d.trxs /\ TrxsAt(v, e, i + 1) = e.trxs /\ HeadAt(v, e, i + 1) = e.head
      BY <1>2, <1>3, <2>2 DEF TrxsAt, HeadAt
    <3> QED BY <3>1 DEF NotedAt
  <2> QED BY <2>1, <2>2
<1>6. Noted(v, e)
  BY <1>2, <1>5 DEF Noted
<1> QED BY <1>6 DEF v, x

LEMMA NotedCommit ==
    ASSUME NEW u, IsASeq(u), NEW d, Noted(u, d), NEW n \in Nat, n = Len(u), NEW k \in 0 .. n
    PROVE  Noted(SubSeq(u, k + 1, n), d)
<1> DEFINE v == SubSeq(u, k + 1, n)
<1>1. Len(v) = n - k /\ \A i \in 1 .. n - k : v[i] = u[i + k]
  BY SuffixIs
<1> HIDE DEF v
<1>2. \A i \in 1 .. n - k + 1 : /\ TrxsAt(v, d, i) = TrxsAt(u, d, i + k)
                                /\ HeadAt(v, d, i) = HeadAt(u, d, i + k)
  BY <1>1 DEF TrxsAt, HeadAt
<1>3. ASSUME NEW i \in 1 .. n - k PROVE NotedAt(v, d, i)
  <2>1. /\ i \in 1 .. n - k + 1 /\ i + 1 \in 1 .. n - k + 1
        /\ i + k \in 1 .. n /\ (i + 1) + k = (i + k) + 1
    OBVIOUS
  <2>2. NotedAt(u, d, i + k)
    BY <2>1 DEF Noted
  <2> QED BY <1>2, <2>1, <2>2 DEF NotedAt
<1>4. Noted(v, d)
  BY <1>1, <1>3 DEF Noted
<1> QED BY <1>4 DEF v

\* A session that was started and is undone leaves the history as it was.
LEMMA StartUndone ==
    ASSUME NEW u, IsASeq(u), NEW x, NEW n \in Nat, n = Len(u)
    PROVE  SubSeq(Append(u, x), 1, (n + 1) - 1) = u /\ Append(u, x)[n + 1] = x
<1>1. PICK S : u \in Seq(S)
  BY DEF IsASeq
<1>2. u \in Seq(S \cup {x})
  BY <1>1
<1> QED BY <1>2

-----------------------------------------------------------------------------
(* The pending transactions.                                               *)

\* _pending_tx is empty outside of idle; what a call set aside and popped are
\* sequences.
QueueOK ==
    /\ IsASeq(pending) /\ IsASeq(popped) /\ IsASeq(job.saved)
    /\ pc # "idle" => pending = <<>> /\ session = FALSE
    /\ pc = "idle" => /\ db.trxs = CleanDb.trxs \cup Elements(pending)
                      /\ Elements(pending) \cap CleanDb.trxs = {}

\* What was known when the call came is still known, or will be pushed again.
KnownOK ==
    /\ pc \in InCall \cup {"idle"} => Noted(CleanUndo, CleanDb)
    /\ pc \in InCall => job.known \subseteq db.trxs \cup Elements(popped) \cup Elements(job.saved)

QInv == QueueOK /\ KnownOK

LEMMA NoSessionClean ==
    ASSUME session = FALSE
    PROVE  CleanDb = db /\ CleanUndo = undo
BY DEF CleanDb, CleanUndo

LEMMA NoJobSaved == NoJob.saved = <<>>
BY DEF NoJob

LEMMA InitQ == Init => QInv
<1> SUFFICES ASSUME Init PROVE QInv
  OBVIOUS
<1>1. session = FALSE /\ pending = <<>> /\ popped = <<>> /\ job = NoJob /\ undo = <<>>
      /\ pc \in {"idle", "replay"}
  BY DEF Init
<1>2. CleanDb = db /\ CleanUndo = <<>>
  BY <1>1, NoSessionClean
<1>3. QueueOK
  BY <1>1, <1>2, NoElements, NoJobSaved DEF QueueOK
<1>4. KnownOK
  BY <1>1, <1>2, NotedBase DEF KnownOK, InCall
<1> QED BY <1>3, <1>4 DEF QInv

\* push_block sets the pending transactions aside.
LEMMA PushQ ==
    ASSUME IInv, QInv, NEW b \in Blocks, Push(b)
    PROVE  QInv'
<1> DEFINE call == [NoJob EXCEPT !.block = b, !.saved = pending,
                                 !.head = CleanDb.head, !.known = db.trxs]
           f    == PushBlock(fork_db, b)
           fork == MeetingHeight(f, f.head, CleanDb.head)
<1>1. /\ pc = "idle" /\ pc' \in {"requeue", "apply", "pop"}
      /\ undo' = CleanUndo /\ db' = CleanDb
      /\ session' = FALSE /\ pending' = <<>> /\ popped' = popped
  BY DEF Push
<1>2. \/ job' \in {call, [call EXCEPT !.ok = FALSE]}
      \/ job' = [call EXCEPT !.mode = "straight", !.apply = <<b>>]
      \/ job' = [call EXCEPT !.mode = "switch", !.apply = Branch(f, f.head, fork),
                             !.old = Branch(f, CleanDb.head, fork)]
  BY DEF Push
<1>3. DOMAIN call = DOMAIN NoJob /\ call.saved = pending /\ call.known = db.trxs
  BY DEF NoJob
<1> HIDE DEF call, f, fork
<1>4. job'.saved = pending /\ job'.known = db.trxs
  BY <1>2, <1>3 DEF NoJob
<1>5. CleanDb' = CleanDb /\ CleanUndo' = CleanUndo
  BY <1>1 DEF CleanDb, CleanUndo
<1>6. QueueOK'
  BY <1>1, <1>4, NoElements DEF QInv, QueueOK
<1>7. job'.known \subseteq db'.trxs \cup Elements(popped') \cup Elements(job'.saved)
  BY <1>1, <1>4 DEF QInv, QueueOK
<1>8. KnownOK'
  BY <1>1, <1>5, <1>7 DEF QInv, KnownOK
<1> QED BY <1>6, <1>8 DEF QInv

\* pop_block gives the transactions of the block it pops back.
LEMMA PopQ ==
    ASSUME IInv, QInv, Pop \/ PopFails \/ Unwound
    PROVE  QInv'
<1>0. /\ pc = "pop" /\ pc' \in InCall /\ session = FALSE /\ session' = FALSE
      /\ pending' = pending /\ Chained(undo, db, revision, FALSE)
  BY DEF Pop, PopFails, Unwound, IInv, HistoryOK, InCall
<1>1. job'.saved = job.saved /\ job'.known = job.known
  <2>1. job' = job \/ job' = [job EXCEPT !.ok = FALSE]
    BY DEF Pop, PopFails, Unwound
  <2> QED BY <2>1 DEF IInv, JobOK, NoJob
<1>2. CleanDb = db /\ CleanUndo = undo /\ CleanDb' = db' /\ CleanUndo' = undo'
  BY <1>0 DEF CleanDb, CleanUndo
<1>3. /\ IsASeq(popped) /\ IsASeq(job.saved) /\ pending = <<>> /\ Noted(undo, db)
      /\ job.known \subseteq db.trxs \cup Elements(popped) \cup Elements(job.saved)
  BY <1>0, <1>2 DEF QInv, QueueOK, KnownOK, InCall
<1>4. /\ IsASeq(popped') /\ Noted(undo', db')
      /\ db.trxs \cup Elements(popped) \subseteq db'.trxs \cup Elements(popped')
  <2>1. CASE PopFails \/ Unwound
    BY <2>1, <1>3 DEF PopFails, Unwound
  <2>2. CASE Pop
    <3>1. /\ popped' = Listed(TrxOf[db.head]) \o popped
          /\ db' = IF undo = <<>> THEN db ELSE undo[Len(undo)].snapshot
          /\ undo' = IF undo = <<>> THEN undo ELSE SubSeq(undo, 1, Len(undo) - 1)
      BY <2>2 DEF Pop, Outer
    <3>2. db.head \in Blocks
      <4>1. CASE db.head = Genesis
        <5>1. CanPopBlock /\ ~InLog(db.head) /\ db.head \notin fork_db.index
          BY <2>2, <4>1, ForkDatabaseAssumption DEF Pop, InLog, IInv, IndexOK
        <5> QED BY <5>1 DEF CanPopBlock
      <4> QED BY <1>0, <4>1 DEF Chained, StateOK, Ids
    <3>3. IsFiniteSet(TrxOf[db.head])
      BY <3>2, ChainDatabaseAssumption
    <3>4. IsASeq(popped') /\ Elements(popped') = TrxOf[db.head] \cup Elements(popped)
      BY <1>3, <3>1, <3>3, ListedIs, ConcatElements
    <3>5. CASE undo = <<>>
      BY <1>3, <3>1, <3>4, <3>5
    <3>6. CASE undo # <<>>
      <4>1. PICK n \in Nat : n = Len(undo)
        BY <1>0, LenIsNat DEF Chained
      <4>2. n >= 1 /\ IsASeq(undo)
        BY <1>0, <3>6, <4>1 DEF Chained, IsASeq
      <4>3. /\ Noted(SubSeq(undo, 1, n - 1), undo[n].snapshot)
            /\ db.trxs \subseteq undo[n].snapshot.trxs \cup TrxOf[db.head]
        BY <1>3, <4>1, <4>2, NotedUndo
      <4> QED BY <3>1, <3>4, <3>6, <4>1, <4>3
    <3> QED BY <3>5, <3>6
  <2> QED BY <2>1, <2>2
<1>5. QueueOK'
  <2>1. pc' # "idle"
    BY <1>0 DEF InCall
  <2> QED BY <1>0, <1>1, <1>3, <1>4, <2>1, NoElements DEF QueueOK
<1>6. KnownOK'
  BY <1>0, <1>1, <1>2, <1>3, <1>4 DEF KnownOK
<1> QED BY <1>5, <1>6 DEF QInv

\* The steps of apply_block: no known transaction goes.
LEMMA ApplyQ ==
    ASSUME IInv, QInv, Apply \/ ApplyFails \/ BranchFails \/ AppendToLog \/ CommitBlock
    PROVE  QInv'
<1>0. /\ pc \in {"apply", "migrate"} /\ pc' \in InCall /\ session = FALSE /\ session' = FALSE
      /\ pending' = pending /\ popped' = popped /\ Chained(undo, db, revision, FALSE)
  BY DEF Apply, ApplyFails, BranchFails, AppendToLog, CommitBlock, IInv, HistoryOK, InCall
<1>1. job'.saved = job.saved /\ job'.known = job.known
  <2>1. \/ \E w : job' = [job EXCEPT !.write = w]
        \/ job' = [job EXCEPT !.ok = FALSE]
        \/ job' = [job EXCEPT !.mode = "restore", !.apply = job.old, !.ok = FALSE]
        \/ job' = [job EXCEPT !.apply = Tail(@)]
    BY DEF Apply, ApplyFails, BranchFails, AppendToLog, CommitBlock
  <2>2. DOMAIN job = DOMAIN NoJob
    BY DEF IInv, JobOK
  <2> QED BY <2>1, <2>2 DEF NoJob
<1>2. CleanDb = db /\ CleanUndo = undo /\ CleanDb' = db' /\ CleanUndo' = undo'
  BY <1>0 DEF CleanDb, CleanUndo
<1>3. /\ IsASeq(popped) /\ IsASeq(job.saved) /\ pending = <<>> /\ Noted(undo, db)
      /\ job.known \subseteq db.trxs \cup Elements(popped) \cup Elements(job.saved)
      /\ IsASeq(undo)
  BY <1>0, <1>2 DEF QInv, QueueOK, KnownOK, InCall, Chained
<1>4. Noted(undo', db') /\ db.trxs \subseteq db'.trxs
  <2>1. CASE ApplyFails \/ BranchFails \/ AppendToLog
    BY <2>1, <1>3 DEF ApplyFails, BranchFails, AppendToLog
  <2>2. CASE Apply
    <3>1. /\ undo' = Append(undo, [snapshot |-> db, revision |-> revision + 1])
          /\ db' = AfterBlock(db, NextBlock) /\ pc = "apply"
      BY <2>2 DEF Apply, Started
    <3>2. NextBlock \in Blocks
      BY <3>1 DEF IInv, JobOK, NextBlock
    <3>3. db'.trxs = db.trxs \cup TrxOf[NextBlock] /\ db'.head = NextBlock
      BY <1>0, <3>1, <3>2, AfterBlockTrxs, AfterBlockType DEF Chained
    <3>4. db'.trxs \subseteq db.trxs \cup TrxOf[db'.head]
      BY <3>3
    <3> QED BY <1>3, <3>1, <3>3, <3>4, NotedStart
  <2>3. CASE CommitBlock
    <3>1. PICK k \in 0 .. Len(undo) : undo' = SubSeq(undo, k + 1, Len(undo))
      BY <2>3 DEF CommitBlock, CommitTo
    <3>2. PICK n \in Nat : n = Len(undo)
      BY <1>3, LenIsNat
    <3>3. Noted(SubSeq(undo, k + 1, n), db)
      BY <1>3, <3>1, <3>2, NotedCommit
    <3> QED BY <2>3, <3>1, <3>2, <3>3 DEF CommitBlock
  <2> QED BY <2>1, <2>2, <2>3
<1>5. QueueOK'
  <2>1. pc' # "idle"
    BY <1>0 DEF InCall
  <2> QED BY <1>0, <1>1, <1>3, <2>1, NoElements DEF QueueOK
<1>6. job'.known \subseteq db'.trxs \cup Elements(popped') \cup Elements(job'.saved)
  BY <1>0, <1>1, <1>3, <1>4
<1>7. KnownOK'
  BY <1>0, <1>2, <1>4, <1>6 DEF KnownOK
<1> QED BY <1>5, <1>7 DEF QInv

\* ~pending_transactions_restorer: what was known is known again, ruled out
\* or not timely.
LEMMA RequeueQ ==
    ASSUME IInv, QInv, Requeue
    PROVE  /\ QInv'
           /\ \A t \in job.known : \/ t \in db'.trxs
                                   \/ \E x \in db'.trxs : <<x, t>> \in Conflicts
                                   \/ ~Timely(t, db'.head)
<1> DEFINE again == popped \o job.saved
           kept  == Accepted(again, db.head, db.trxs)
<1>0. /\ pc = "requeue" /\ pc' = "idle" /\ session = FALSE
      /\ Chained(undo, db, revision, FALSE)
  BY DEF Requeue, IInv, HistoryOK, InCall, QInv, QueueOK
<1>1. /\ pending' = kept
      /\ session' = ({i \in 1 .. Len(again) : again[i] \notin Known} # {})
      /\ undo' = IF session' THEN Append(undo, [snapshot |-> db, revision |-> revision + 1]) ELSE undo
      /\ db' = [db EXCEPT !.trxs = @ \cup Elements(kept)]
      /\ popped' = <<>> /\ job' = NoJob
  BY DEF Requeue, Started
<1>2. /\ IsASeq(popped) /\ IsASeq(job.saved) /\ Noted(undo, db) /\ IsASeq(undo)
      /\ job.known \subseteq db.trxs \cup Elements(popped) \cup Elements(job.saved)
  BY <1>0, NoSessionClean DEF QInv, QueueOK, KnownOK, InCall, Chained
<1>3. IsASeq(again) /\ Elements(again) = Elements(popped) \cup Elements(job.saved)
  BY <1>2, ConcatElements
<1> HIDE DEF again
<1>4. /\ IsASeq(kept)
      /\ Elements(kept) \subseteq Elements(again) \ db.trxs
      /\ \A t \in Elements(again) : \/ t \in db.trxs \cup Elements(kept)
                                    \/ \E x \in db.trxs \cup Elements(kept) : <<x, t>> \in Conflicts
                                    \/ ~Timely(t, db.head)
  BY <1>3, AcceptedKeeps
<1> HIDE DEF kept
<1>5. db'.trxs = db.trxs \cup Elements(kept) /\ db'.head = db.head
  BY <1>0, <1>1 DEF Chained, StateOK
<1>6. /\ CleanUndo' = undo
      /\ CleanDb'.head = db.head /\ CleanDb'.trxs = db.trxs
      /\ session' = FALSE => Elements(kept) = {}
  <2>1. CASE session'
    <3> DEFINE x == [snapshot |-> db, revision |-> revision + 1]
    <3>1. PICK n \in Nat : n = Len(undo)
      BY <1>2, LenIsNat
    <3>2. Len(Append(undo, x)) = n + 1
      BY <1>2, <3>1, AppendIs
    <3>3. SubSeq(Append(undo, x), 1, (n + 1) - 1) = undo /\ Append(undo, x)[n + 1] = x
      BY <1>2, <3>1, <3>2, StartUndone
    <3>4. CleanUndo' = SubSeq(undo', 1, Len(undo') - 1) /\ CleanDb' = undo'[Len(undo')].snapshot
      BY <2>1 DEF CleanUndo, CleanDb, Outer
    <3> QED BY <1>1, <2>1, <3>2, <3>3, <3>4
  <2>2. CASE ~session'
    <3>1. \A i \in 1 .. Len(again) : again[i] \in db.trxs
      BY <1>1, <2>2 DEF Known
    <3>2. Elements(again) \subseteq db.trxs
      BY <3>1 DEF Elements
    <3>3. Elements(kept) = {}
      BY <1>4, <3>2
    <3>4. CleanUndo' = undo' /\ CleanDb' = db'
      BY <2>2 DEF CleanUndo, CleanDb
    <3> QED BY <1>1, <1>5, <2>2, <3>3, <3>4
  <2>3. session' \in BOOLEAN
    BY <1>1
  <2> QED BY <2>1, <2>2, <2>3
<1>7. QueueOK'
  <2>1. job'.saved = <<>>
    BY <1>1, NoJobSaved
  <2>2. db'.trxs = CleanDb'.trxs \cup Elements(pending') /\ Elements(pending') \cap CleanDb'.trxs = {}
    BY <1>1, <1>4, <1>5, <1>6
  <2> QED BY <1>0, <1>1, <1>4, <2>1, <2>2, NoElements DEF QueueOK
<1>8. KnownOK'
  <2>1. Noted(CleanUndo', CleanDb')
    BY <1>2, <1>6, NotedSame
  <2> QED BY <1>0, <2>1 DEF KnownOK, InCall
<1>9. ASSUME NEW t \in job.known
      PROVE  \/ t \in db'.trxs
             \/ \E x \in db'.trxs : <<x, t>> \in Conflicts
             \/ ~Timely(t, db'.head)
  <2>1. t \in db.trxs \/ t \in Elements(again)
    BY <1>2, <1>3
  <2> QED BY <1>4, <1>5, <2>1
<1> QED BY <1>7, <1>8, <1>9 DEF QInv

\* push_transaction
LEMMA TransactionQ ==
    ASSUME IInv, QInv, NEW t, PushTransaction(t)
    PROVE  QInv'
<1>0. /\ pc = "idle" /\ pc' = "idle" /\ session' = TRUE /\ session \in BOOLEAN
      /\ popped' = popped /\ job' = job
      /\ undo' = IF session THEN undo ELSE Append(undo, [snapshot |-> db, revision |-> revision + 1])
      /\ Chained(undo, db, revision, session)
  BY DEF PushTransaction, IInv, HistoryOK, Started
<1>1. \/ /\ t \notin db.trxs /\ pending' = Append(pending, t)
         /\ db' = [db EXCEPT !.trxs = @ \cup {t}]
      \/ pending' = pending /\ db' = db
  BY DEF PushTransaction, TrxApplies
<1>2. CleanUndo' = CleanUndo /\ CleanDb' = CleanDb
  <2>1. CASE session
    BY <1>0, <2>1 DEF CleanUndo, CleanDb, Outer
  <2>2. CASE ~session
    <3> DEFINE x == [snapshot |-> db, revision |-> revision + 1]
    <3>1. PICK n \in Nat : n = Len(undo)
      BY <1>0, LenIsNat DEF Chained
    <3>2. Len(Append(undo, x)) = n + 1
      BY <1>0, <3>1, AppendIs DEF Chained
    <3>3. SubSeq(Append(undo, x), 1, (n + 1) - 1) = undo /\ Append(undo, x)[n + 1] = x
      BY <1>0, <3>1, <3>2, StartUndone DEF Chained
    <3>4. CleanUndo' = SubSeq(undo', 1, Len(undo') - 1) /\ CleanDb' = undo'[Len(undo')].snapshot
      BY <1>0 DEF CleanUndo, CleanDb, Outer
    <3>5. CleanUndo' = undo /\ CleanDb' = db
      BY <1>0, <2>2, <3>2, <3>3, <3>4
    <3> QED BY <2>2, <3>5 DEF CleanUndo, CleanDb
  <2> QED BY <1>0, <2>1, <2>2
<1>3. /\ IsASeq(pending) /\ db.trxs = CleanDb.trxs \cup Elements(pending)
      /\ Elements(pending) \cap CleanDb.trxs = {}
  BY <1>0 DEF QInv, QueueOK
<1>4. /\ IsASeq(pending') /\ db'.trxs = CleanDb.trxs \cup Elements(pending')
      /\ Elements(pending') \cap CleanDb.trxs = {}
  <2>1. CASE pending' = pending /\ db' = db
    BY <2>1, <1>3
  <2>2. CASE /\ t \notin db.trxs /\ pending' = Append(pending, t)
             /\ db' = [db EXCEPT !.trxs = @ \cup {t}]
    <3>1. PICK n \in Nat : n = Len(pending)
      BY <1>3, LenIsNat
    <3>2. IsASeq(pending') /\ Elements(pending') = Elements(pending) \cup {t}
      BY <1>3, <2>2, <3>1, AppendIs, AppendElements
    <3>3. db'.trxs = db.trxs \cup {t}
      BY <1>0, <2>2 DEF Chained, StateOK
    <3> QED BY <1>3, <2>2, <3>2, <3>3
  <2> QED BY <1>1, <2>1, <2>2
<1>5. QueueOK'
  BY <1>0, <1>2, <1>4 DEF QInv, QueueOK
<1>6. KnownOK'
  BY <1>0, <1>2 DEF QInv, KnownOK, InCall
<1> QED BY <1>5, <1>6 DEF QInv

\* Ends and starts of the process, and the replay: nothing is pending.
LEMMA RestartQ ==
    ASSUME IInv, QInv,
           Close \/ Crash \/ Open \/ Reindex \/ ReplayBlock \/ ReplayFails \/ EndReplay
    PROVE  QInv'
<1>0. /\ session' = FALSE /\ pending' = <<>> /\ pc' \in {"idle", "closed", "torn", "replay"}
      /\ popped' = popped \/ popped' = <<>>
      /\ job' = job \/ job' = NoJob
      /\ pc' = "idle" => undo' = <<>>
  <2>1. CASE Close
    BY <2>1 DEF Close
  <2>2. CASE Crash
    BY <2>2 DEF Crash
  <2>3. CASE Open \/ Reindex
    BY <2>3 DEF Open, Reindex, QInv, QueueOK
  <2>4. CASE ReplayBlock \/ ReplayFails \/ EndReplay
    BY <2>4 DEF ReplayBlock, ReplayFails, EndReplay, QInv, QueueOK, IInv, HistoryOK, Replaying
  <2> QED BY <2>1, <2>2, <2>3, <2>4
<1>1. CleanDb' = db' /\ CleanUndo' = undo'
  BY <1>0 DEF CleanDb, CleanUndo
<1>2. QueueOK'
  <2>1. Elements(pending') = {} /\ IsASeq(pending')
    BY <1>0, NoElements
  <2>2. IsASeq(popped') /\ IsASeq(job'.saved)
    BY <1>0, NoElements, NoJobSaved DEF QInv, QueueOK
  <2> QED BY <1>0, <1>1, <2>1, <2>2 DEF QueueOK
<1>3. KnownOK'
  BY <1>0, <1>1, NotedBase DEF KnownOK, InCall
<1> QED BY <1>2, <1>3 DEF QInv

LEMMA StutterQ ==
    ASSUME QInv, UNCHANGED vars
    PROVE  QInv'
BY DEF vars, QInv, QueueOK, KnownOK, CleanDb, CleanUndo, Outer

LEMMA NextQ ==
    ASSUME IInv, QInv, [Next]_vars
    PROVE  QInv'
<1>1. CASE UNCHANGED vars
  BY <1>1, StutterQ
<1>2. CASE (\E b \in Blocks : Push(b)) \/ (\E b \in Blocks : Generate(b))
  BY <1>2, PushQ DEF Generate
<1>3. CASE Pop \/ PopFails \/ Unwound
  BY <1>3, PopQ
<1>4. CASE Apply \/ ApplyFails \/ BranchFails \/ AppendToLog \/ CommitBlock
  BY <1>4, ApplyQ
<1>5. CASE Requeue
  BY <1>5, RequeueQ
<1>6. CASE \E t \in Trx : PushTransaction(t)
  BY <1>6, TransactionQ
<1>7. CASE Close \/ Crash \/ Open \/ Reindex \/ ReplayBlock \/ ReplayFails \/ EndReplay
  BY <1>7, RestartQ
<1> QED BY <1>1, <1>2, <1>3, <1>4, <1>5, <1>6, <1>7 DEF Next

LEMMA QueueInvariant == Spec => []QInv
<1>1. Init => QInv
  BY InitQ
<1>2. IInv /\ QInv /\ [Next]_vars => QInv'
  BY NextQ
<1> QED BY <1>1, <1>2, Invariant, PTL DEF Spec

\* Between calls _pending_tx holds exactly the transactions that the pending
\* session put on top of the head state, whatever forks, failures and
\* restarts came before.
THEOREM PendingMatches == Spec => []PendingMatchesSession
<1>1. IInv /\ QInv => PendingMatchesSession
  <2> SUFFICES ASSUME IInv, QInv, pc = "idle" PROVE PendingMatchesSession
    BY DEF PendingMatchesSession
  <2>1. Chained(undo, db, revision, session)
    BY DEF IInv, HistoryOK
  <2>2. db.head = CleanDb.head
    BY <2>1 DEF Chained, CleanDb
  <2> QED BY <2>2 DEF QInv, QueueOK, PendingMatchesSession
<1> QED BY <1>1, Invariant, QueueInvariant, PTL

\* When push_block returns, every transaction that was on the chain or
\* pending when it was called is so again, or one that is applied now rules
\* it out, or the head is now one it is not timely for: also through a fork switch
\* that fails half way.
THEOREM KeepsTransactions == Spec => NoTransactionLost
<1> DEFINE Lossless == pc = "requeue" /\ pc' = "idle" =>
              \A t \in job.known : \/ t \in db'.trxs
                                   \/ \E u \in db'.trxs : <<u, t>> \in Conflicts
                                   \/ ~Timely(t, db'.head)
<1>1. IInv /\ QInv /\ [Next]_vars => [Lossless]_vars
  <2> SUFFICES ASSUME IInv, QInv, Next, pc = "requeue", pc' = "idle"
               PROVE  Lossless
    OBVIOUS
  <2>1. Requeue
    BY DEF Next, Push, Generate, Pop, PopFails, Unwound, Apply, ApplyFails,
           BranchFails, AppendToLog, CommitBlock, PushTransaction, Close, Crash, Open,
           Reindex, ReplayBlock, ReplayFails, EndReplay
  <2> QED BY <2>1, RequeueQ
<1> QED BY <1>1, Invariant, QueueInvariant, PTL DEF NoTransactionLost, Spec

-----------------------------------------------------------------------------
(* Chains of the tree, and the walks of the fork database along them.      *)

\* Induction from hi down to lo, with the property as a set.
LEMMA DownInduction ==
    ASSUME NEW lo \in Nat, NEW hi \in Nat, NEW G, hi \in G,
           \A n \in lo .. hi - 1 : n + 1 \in G => n \in G
    PROVE  \A n \in lo .. hi : n \in G
<1> DEFINE Bad == {k \in Nat : k <= hi - lo /\ hi - k \notin G}
<1> SUFFICES ASSUME NEW n \in lo .. hi, n \notin G PROVE FALSE
  OBVIOUS
<1>1. Bad \in SUBSET Nat
  OBVIOUS
<1>2. hi - n \in Bad
  <2>1. hi - n \in Nat /\ hi - n <= hi - lo /\ hi - (hi - n) = n
    OBVIOUS
  <2> QED BY <2>1
<1>3. PICK k \in Bad : \A j \in Bad : k <= j
  BY <1>1, <1>2, LeastExists
<1>4. k \in Nat /\ k <= hi - lo /\ hi - k \notin G
  OBVIOUS
<1>5. k # 0
  <2>1. k = 0 => hi - k = hi
    BY <1>4
  <2> QED BY <1>4, <2>1
<1>6. k - 1 \in Nat /\ k - 1 <= hi - lo /\ ~(k <= k - 1)
  BY <1>4, <1>5
<1>7. hi - (k - 1) \in G
  BY <1>3, <1>6
<1>8. hi - k \in lo .. hi - 1 /\ (hi - k) + 1 = hi - (k - 1)
  BY <1>4, <1>5
<1> QED BY <1>4, <1>7, <1>8

Below(f, x) == IF x \in f.linked THEN Previous[x] ELSE None

IsBack(g, f, b, m) == g = [k \in 0 .. m |-> IF k = 0 THEN b ELSE Below(f, g[k - 1])]

LEMMA BackExists ==
    ASSUME NEW f, NEW b, NEW n \in Nat
    PROVE  \E g : IsBack(g, f, b, n)
<1> DEFINE Bad == {m \in Nat : ~\E g : IsBack(g, f, b, m)}
<1> SUFFICES ASSUME Bad # {} PROVE FALSE
  OBVIOUS
<1>1. Bad \in SUBSET Nat
  OBVIOUS
<1>2. PICK m \in Bad : \A k \in Bad : m <= k
  BY <1>1, LeastExists
<1>3. m \in Nat /\ ~\E g : IsBack(g, f, b, m)
  OBVIOUS
<1>4. CASE m = 0
  <2> DEFINE g == [i \in 0 .. 0 |-> b]
  <2>1. g = [i \in 0 .. 0 |-> IF i = 0 THEN b ELSE Below(f, g[i - 1])]
    <3>1. \A i \in 0 .. 0 : i = 0
      OBVIOUS
    <3> QED BY <3>1, Zenon
  <2> QED BY <1>3, <1>4, <2>1 DEF IsBack
<1>5. CASE m # 0
  <2>1. m - 1 \in Nat /\ ~(m <= m - 1)
    BY <1>3, <1>5
  <2>2. m - 1 \notin Bad
    BY <1>2, <2>1
  <2>3. PICK g : IsBack(g, f, b, m - 1)
    BY <2>1, <2>2
  <2> DEFINE e == Below(f, g[m - 1])
             h == [i \in 0 .. m |-> IF i = m THEN e ELSE g[i]]
  <2>4. \A i \in 0 .. m - 1 : g[i] = IF i = 0 THEN b ELSE Below(f, g[i - 1])
    BY <2>3, Zenon DEF IsBack
  <2>5. ASSUME NEW i \in 0 .. m
        PROVE  h[i] = IF i = 0 THEN b ELSE Below(f, h[i - 1])
    <3>1. CASE i = m
      <4>1. m - 1 \in 0 .. m /\ m - 1 # m /\ i # 0
        BY <2>1, <3>1, <1>5
      <4>2. h[m - 1] = g[m - 1] /\ h[i] = e
        BY <3>1, <4>1
      <4> QED BY <3>1, <4>1, <4>2, Zenon
    <3>2. CASE i # m
      <4>1. i \in 0 .. m - 1 /\ (i # 0 => i - 1 \in 0 .. m /\ i - 1 # m)
        BY <2>1, <3>2
      <4>2. h[i] = g[i] /\ (i # 0 => h[i - 1] = g[i - 1])
        BY <3>2, <4>1
      <4> QED BY <2>4, <4>1, <4>2, Zenon
    <3> QED BY <3>1, <3>2
  <2>6. h = [i \in 0 .. m |-> h[i]]
    OBVIOUS
  <2> HIDE DEF h
  <2>7. h = [i \in 0 .. m |-> IF i = 0 THEN b ELSE Below(f, h[i - 1])]
    BY <2>5, <2>6, Zenon
  <2> QED BY <1>3, <2>7 DEF IsBack
<1> QED BY <1>4, <1>5

\* The item at each height below b is what the one above it points to.
LEMMA ItemAtIs ==
    ASSUME NEW f, NEW b, Num[b] \in Nat
    PROVE  /\ ItemAt(f, b, Num[b]) = b
           /\ \A n \in 0 .. Num[b] - 1 : ItemAt(f, b, n) = Below(f, ItemAt(f, b, n + 1))
<1> DEFINE m    == Num[b]
           back == CHOOSE g : IsBack(g, f, b, m)
<1>1. IsBack(back, f, b, m)
  BY BackExists
<1>2. Back(f, b) = back
  BY Zenon DEF Back, IsBack, Below
<1> HIDE DEF back
<1>3. \A k \in 0 .. m : back[k] = IF k = 0 THEN b ELSE Below(f, back[k - 1])
  BY <1>1, Zenon DEF IsBack
<1>4. m \in Nat
  OBVIOUS
<1>5. ItemAt(f, b, m) = b
  <2>1. m - m = 0 /\ 0 \in 0 .. m
    BY <1>4
  <2>2. back[0] = b
    BY <1>3, <2>1
  <2> QED BY <1>2, <2>1, <2>2 DEF ItemAt
<1>6. ASSUME NEW n \in 0 .. m - 1 PROVE ItemAt(f, b, n) = Below(f, ItemAt(f, b, n + 1))
  <2>1. m - n \in 0 .. m /\ m - n # 0 /\ (m - n) - 1 = m - (n + 1)
    BY <1>4
  <2>2. back[m - n] = Below(f, back[m - (n + 1)])
    BY <1>3, <2>1
  <2> QED BY <1>2, <2>2 DEF ItemAt
<1> QED BY <1>5, <1>6

\* The chain below b goes down to the zero id, one block for each number.
LEMMA AncestorIs ==
    ASSUME NEW b \in Ids
    PROVE  /\ Num[b] \in Nat
           /\ AncestorAt(b, Num[b]) = b
           /\ \A n \in 0 .. Num[b] : AncestorAt(b, n) \in Ids /\ Num[AncestorAt(b, n)] = n
           /\ \A n \in 1 .. Num[b] : AncestorAt(b, n) \in Blocks
           /\ \A n \in 0 .. Num[b] - 1 : AncestorAt(b, n) = Previous[AncestorAt(b, n + 1)]
<1> DEFINE f == [linked |-> Blocks]
           G == {n \in 0 .. Num[b] : AncestorAt(b, n) \in Ids /\ Num[AncestorAt(b, n)] = n}
<1>1. Num[b] \in Nat
  BY ForkDatabaseAssumption DEF Ids
<1>2. AncestorAt(b, Num[b]) = b
  BY <1>1, ItemAtIs DEF AncestorAt
<1>3. \A n \in 0 .. Num[b] - 1 : AncestorAt(b, n) = Below(f, AncestorAt(b, n + 1))
  BY <1>1, ItemAtIs DEF AncestorAt
<1>4. ASSUME NEW x \in Ids, Num[x] # 0
      PROVE  x \in Blocks /\ Below(f, x) = Previous[x] /\ Previous[x] \in Ids /\ Num[Previous[x]] = Num[x] - 1
  <2>1. x \in Blocks
    BY <1>4, ForkDatabaseAssumption DEF Ids
  <2>2. x \in f.linked
    BY <2>1
  <2>3. Previous[x] \in Ids
    BY <2>1, ForkDatabaseAssumption DEF Ids
  <2>4. Num[x] = Num[Previous[x]] + 1 /\ Num[Previous[x]] \in Nat
    BY <2>1, <2>3, ForkDatabaseAssumption DEF Ids
  <2> QED BY <2>1, <2>2, <2>3, <2>4 DEF Below
<1> HIDE DEF f
<1>5. Num[b] \in G
  BY <1>1, <1>2
<1>6. ASSUME NEW n \in 0 .. Num[b] - 1, n + 1 \in G PROVE n \in G
  <2>1. n \in 0 .. Num[b] /\ n + 1 # 0 /\ (n + 1) - 1 = n
    BY <1>1
  <2>2. AncestorAt(b, n + 1) \in Ids /\ Num[AncestorAt(b, n + 1)] = n + 1
    BY <1>6
  <2> QED BY <1>3, <1>4, <2>1, <2>2
<1>7. \A n \in 0 .. Num[b] : n \in G
  <2> HIDE DEF G
  <2> QED BY <1>1, <1>5, <1>6, DownInduction
<1>8. \A n \in 0 .. Num[b] : AncestorAt(b, n) \in Ids /\ Num[AncestorAt(b, n)] = n
  BY <1>7
<1>9. ASSUME NEW n \in 1 .. Num[b] PROVE AncestorAt(b, n) \in Blocks
  <2>1. n \in 0 .. Num[b] /\ n # 0
    BY <1>1
  <2> QED BY <1>4, <1>8, <2>1
<1>10. ASSUME NEW n \in 0 .. Num[b] - 1 PROVE AncestorAt(b, n) = Previous[AncestorAt(b, n + 1)]
  <2>1. n + 1 \in 0 .. Num[b] /\ n + 1 # 0
    BY <1>1
  <2> QED BY <1>3, <1>4, <1>8, <2>1
<1> QED BY <1>1, <1>2, <1>8, <1>9, <1>10

LEMMA PreviousIs ==
    ASSUME NEW b \in Blocks
    PROVE  /\ b \in Ids /\ Previous[b] \in Ids
           /\ Num[b] \in Nat /\ Num[Previous[b]] \in Nat
           /\ Num[b] = Num[Previous[b]] + 1
           /\ Previous[b] # b
<1>1. b \in Ids /\ Previous[b] \in Ids /\ Num[b] = Num[Previous[b]] + 1
  BY ForkDatabaseAssumption DEF Ids
<1>2. Num[b] \in Nat /\ Num[Previous[b]] \in Nat
  BY <1>1, AncestorIs
<1> QED BY <1>1, <1>2

LEMMA GenesisNum ==
    ASSUME NEW b \in Ids
    PROVE  Num[b] \in Nat /\ (Num[b] = 0 <=> b = Genesis) /\ (b \in Blocks <=> b # Genesis)
<1>1. b \in Blocks => Num[b] # 0
  BY PreviousIs
<1> QED BY <1>1, ForkDatabaseAssumption DEF Ids

\* A block stands on the chain of the block it names.
LEMMA AncestorOfPrevious ==
    ASSUME NEW b \in Blocks, NEW n \in 0 .. Num[b] - 1
    PROVE  AncestorAt(b, n) = AncestorAt(Previous[b], n)
<1> DEFINE p == Previous[b]
           G == {m \in 0 .. Num[p] : AncestorAt(b, m) = AncestorAt(p, m)}
<1>1. Num[p] \in Nat /\ Num[b] = Num[p] + 1 /\ p \in Ids /\ b \in Ids
  BY PreviousIs
<1>2. Num[p] \in G
  <2>1. AncestorAt(p, Num[p]) = p /\ AncestorAt(b, Num[b]) = b
    BY <1>1, AncestorIs
  <2>2. Num[p] \in 0 .. Num[b] - 1 /\ Num[p] \in 0 .. Num[p]
    BY <1>1
  <2>3. AncestorAt(b, Num[p]) = Previous[AncestorAt(b, Num[p] + 1)]
    BY <1>1, <2>2, AncestorIs
  <2> QED BY <1>1, <2>1, <2>2, <2>3
<1>3. ASSUME NEW m \in 0 .. Num[p] - 1, m + 1 \in G PROVE m \in G
  <2>1. m \in 0 .. Num[b] - 1 /\ m \in 0 .. Num[p]
    BY <1>1
  <2>2. AncestorAt(b, m) = Previous[AncestorAt(b, m + 1)]
    BY <1>1, <2>1, AncestorIs
  <2>3. AncestorAt(p, m) = Previous[AncestorAt(p, m + 1)]
    BY <1>1, AncestorIs
  <2> QED BY <1>3, <2>1, <2>2, <2>3
<1>4. \A m \in 0 .. Num[p] : m \in G
  <2> HIDE DEF G, p
  <2> QED BY <1>1, <1>2, <1>3, DownInduction
<1>5. n \in 0 .. Num[p]
  BY <1>1
<1> QED BY <1>4, <1>5

\* Where the pointers are alive, the fork database walks the chain.
LEMMA ItemIsAncestor ==
    ASSUME NEW f, NEW b \in Ids, NEW h \in 0 .. Num[b],
           \A m \in h + 1 .. Num[b] : AncestorAt(b, m) \in f.linked
    PROVE  ItemAt(f, b, h) = AncestorAt(b, h)
<1> DEFINE G == {m \in h .. Num[b] : ItemAt(f, b, m) = AncestorAt(b, m)}
<1>1. Num[b] \in Nat /\ h \in Nat
  BY AncestorIs
<1>2. Num[b] \in G
  <2>1. ItemAt(f, b, Num[b]) = b /\ AncestorAt(b, Num[b]) = b
    BY <1>1, ItemAtIs, AncestorIs
  <2> QED BY <1>1, <2>1
<1>3. ASSUME NEW m \in h .. Num[b] - 1, m + 1 \in G PROVE m \in G
  <2>1. m \in 0 .. Num[b] - 1 /\ m \in h .. Num[b] /\ m + 1 \in h + 1 .. Num[b]
    BY <1>1
  <2>2. ItemAt(f, b, m) = Below(f, ItemAt(f, b, m + 1))
    BY <1>1, <2>1, ItemAtIs
  <2>3. AncestorAt(b, m) = Previous[AncestorAt(b, m + 1)]
    BY <2>1, AncestorIs
  <2>4. AncestorAt(b, m + 1) \in f.linked
    BY <2>1
  <2> QED BY <1>3, <2>1, <2>2, <2>3, <2>4 DEF Below
<1>4. \A m \in h .. Num[b] : m \in G
  <2> HIDE DEF G
  <2> QED BY <1>1, <1>2, <1>3, DownInduction
<1>5. h \in h .. Num[b]
  BY <1>1
<1> QED BY <1>4, <1>5

\* A walk that reaches height h has met the chain's blocks, all of them linked.
LEMMA ReachesAncestors ==
    ASSUME NEW f, NEW b \in Ids, NEW h \in 1 .. Num[b], Reaches(f, b, h)
    PROVE  \A m \in h .. Num[b] : /\ ItemAt(f, b, m) = AncestorAt(b, m)
                                  /\ m > h => AncestorAt(b, m) \in f.linked
<1> DEFINE G == {m \in h .. Num[b] : ItemAt(f, b, m) = AncestorAt(b, m)}
<1>1. Num[b] \in Nat /\ h \in Nat /\ h >= 1
  BY AncestorIs
<1>2. Num[b] \in G
  <2>1. ItemAt(f, b, Num[b]) = b /\ AncestorAt(b, Num[b]) = b
    BY <1>1, ItemAtIs, AncestorIs
  <2> QED BY <1>1, <2>1
<1>3. ASSUME NEW m \in h .. Num[b] - 1, m + 1 \in G
      PROVE  m \in G /\ AncestorAt(b, m + 1) \in f.linked
  <2>1. m \in 0 .. Num[b] - 1 /\ m \in h .. Num[b]
    BY <1>1
  <2>2. ItemAt(f, b, m) = Below(f, ItemAt(f, b, m + 1))
    BY <1>1, <2>1, ItemAtIs
  <2>3. AncestorAt(b, m) = Previous[AncestorAt(b, m + 1)]
    BY <2>1, AncestorIs
  <2>4. ItemAt(f, b, m) # None
    BY <2>1, ForkDatabaseAssumption DEF Reaches
  <2>5. AncestorAt(b, m + 1) \in f.linked
    BY <1>3, <2>2, <2>4 DEF Below
  <2> QED BY <1>3, <2>1, <2>2, <2>3, <2>5 DEF Below
<1>4. \A m \in h .. Num[b] : m \in G
  <2> HIDE DEF G
  <2> QED BY <1>1, <1>2, <1>3, DownInduction
<1>5. ASSUME NEW m \in h .. Num[b], m > h PROVE AncestorAt(b, m) \in f.linked
  <2>1. m - 1 \in h .. Num[b] - 1 /\ (m - 1) + 1 = m
    BY <1>1, <1>5
  <2> QED BY <1>3, <1>4, <2>1
<1> QED BY <1>4, <1>5

\* fetch_block_on_main_branch_by_number finds the block of the head's chain when
\* the chain from there on is in the index and linked.
LEMMA MainBranchIs ==
    ASSUME NEW f, IsFiniteSet(f.index), f.head \in Blocks, NEW h \in 1 .. Num[f.head],
           AncestorAt(f.head, h) \in f.index,
           \A m \in h + 1 .. Num[f.head] : AncestorAt(f.head, m) \in f.linked
    PROVE  MainBranchAt(f, h) = AncestorAt(f.head, h)
<1> DEFINE at == AtHeight(f, h)
           a  == AncestorAt(f.head, h)
<1>1. f.head \in Ids /\ Num[f.head] \in Nat /\ h \in 0 .. Num[f.head]
  BY AncestorIs DEF Ids
<1>2. Num[a] = h
  BY <1>1, AncestorIs
<1>3. a \in at
  BY <1>2 DEF AtHeight
<1>4. IsFiniteSet(at)
  <2>1. at \subseteq f.index
    BY DEF AtHeight
  <2> QED BY <2>1, FS_Subset
<1>5. ItemAt(f, f.head, h) = a
  BY <1>1, ItemIsAncestor
<1>6. ~(h > Num[f.head])
  BY <1>1
<1> HIDE DEF at, a
<1>7. ASSUME Cardinality(at) = 1 PROVE (CHOOSE b \in at : TRUE) = a
  <2>1. PICK x : at = {x}
    BY <1>4, <1>7, FS_Singleton
  <2>2. at = {a}
    BY <1>3, <2>1
  <2> QED BY <2>2
<1>8. MainBranchAt(f, h) = CASE at = {}             -> None
                             [] Cardinality(at) = 1 -> CHOOSE b \in at : TRUE
                             [] h > Num[f.head]     -> None
                             [] OTHER               -> ItemAt(f, f.head, h)
  BY DEF MainBranchAt, at
<1>9. MainBranchAt(f, h) = a
  BY <1>3, <1>5, <1>6, <1>7, <1>8
<1> QED BY <1>9 DEF a

\* The heads of the undo history are the blocks of the head's chain.
AncestorHeads(u, d, r, n) ==
    \A i \in 1 .. n + 1 : /\ HeadAt(u, d, i) = AncestorAt(d.head, r - n + i - 1)
                          /\ r - n + i - 1 \in 0 .. Num[d.head]

LEMMA ChainedAncestors ==
    ASSUME NEW u, NEW d, NEW r, Chained(u, d, r, FALSE), NEW n \in Nat, n = Len(u)
    PROVE  AncestorHeads(u, d, r, n)
<1> DEFINE G == {i \in 1 .. n + 1 : HeadAt(u, d, i) = AncestorAt(d.head, r - n + i - 1)}
<1>1. d.head \in Ids /\ r = Num[d.head] /\ r \in Nat
  <2>1. d.head \in Ids /\ r = Num[d.head]
    BY DEF Chained, StateOK
  <2> QED BY <2>1, AncestorIs
<1>2. \A i \in 1 .. n : Num[u[i].snapshot.head] = r - n + i - 1 /\ u[i].snapshot.head \in Ids
  BY DEF Chained, StateOK
<1>3. \A i \in 1 .. n + 1 : r - n + i - 1 \in 0 .. r
  <2> SUFFICES ASSUME NEW i \in 1 .. n + 1 PROVE r - n + i - 1 >= 0
    BY <1>1
  <2>1. CASE n = 0
    BY <1>1, <2>1
  <2>2. CASE n >= 1
    <3>1. Num[u[1].snapshot.head] = r - n + 1 - 1 /\ u[1].snapshot.head \in Ids
      BY <1>2, <2>2
    <3>2. Num[u[1].snapshot.head] \in Nat
      BY <3>1, AncestorIs
    <3> QED BY <1>1, <3>1, <3>2
  <2> QED BY <2>1, <2>2
<1>4. n + 1 \in G
  <2>1. HeadAt(u, d, n + 1) = d.head
    BY DEF HeadAt
  <2>2. AncestorAt(d.head, r) = d.head
    BY <1>1, AncestorIs
  <2>3. r - n + (n + 1) - 1 = r /\ n + 1 \in 1 .. n + 1
    BY <1>1
  <2> QED BY <2>1, <2>2, <2>3
<1>5. ASSUME NEW i \in 1 .. (n + 1) - 1, i + 1 \in G PROVE i \in G
  <2>1. Link(u, d, i)
    BY DEF Chained
  <2>2. i \in 1 .. n + 1 /\ i + 1 \in 1 .. n + 1 /\ r - n + (i + 1) - 1 = (r - n + i - 1) + 1
    BY <1>1
  <2>3. r - n + i - 1 \in 0 .. Num[d.head] - 1
    BY <1>1, <1>3, <2>2
  <2>4. AncestorAt(d.head, r - n + i - 1) = Previous[AncestorAt(d.head, (r - n + i - 1) + 1)]
    BY <1>1, <2>3, AncestorIs
  <2>5. HeadAt(u, d, i + 1) = AncestorAt(d.head, (r - n + i - 1) + 1)
    BY <1>5, <2>2
  <2> QED BY <2>1, <2>2, <2>4, <2>5 DEF Link
<1>6. \A i \in 1 .. n + 1 : i \in G
  <2> HIDE DEF G
  <2>1. 1 \in Nat /\ n + 1 \in Nat
    OBVIOUS
  <2> QED BY <1>4, <1>5, <2>1, DownInduction
<1> QED BY <1>1, <1>3, <1>6 DEF AncestorHeads

-----------------------------------------------------------------------------
(* The states of a settled tree.                                           *)

\* s has the head, the confirmations and the last irreversible block of a state
\* in H, and at most its transactions (a replay does not note them).
Agree(s, h) ==
    /\ StateOK(h)
    /\ h.head = s.head /\ h.lib = s.lib /\ h.confirmed = s.confirmed
    /\ s.trxs \subseteq h.trxs

InRange(s) == s.lib <= Num[s.head] /\ \A w \in Witnesses : s.confirmed[w] <= Num[s.head]

KnownIn(H, s) == (\E h \in H : Agree(s, h)) /\ InRange(s)

LEMMA AfterBlockIs ==
    ASSUME NEW s, StateOK(s), NEW b \in Blocks
    PROVE  /\ AfterBlock(s, b).head = b
           /\ AfterBlock(s, b).trxs = s.trxs \cup TrxOf[b]
           /\ AfterBlock(s, b).confirmed = [s.confirmed EXCEPT ![WitnessOf[b]] = Num[b]]
           /\ AfterBlock(s, b).lib =
                LastIrreversible([head |-> b, lib |-> s.lib,
                                  confirmed |-> [s.confirmed EXCEPT ![WitnessOf[b]] = Num[b]]])
<1> DEFINE moved == [s EXCEPT !.head = b,
                              !.confirmed = [@ EXCEPT ![WitnessOf[b]] = Num[b]],
                              !.trxs = @ \cup TrxOf[b]]
           short == [head |-> b, lib |-> s.lib,
                     confirmed |-> [s.confirmed EXCEPT ![WitnessOf[b]] = Num[b]]]
<1>1. /\ DOMAIN moved = DOMAIN s
      /\ moved.head = b
      /\ moved.lib = s.lib
      /\ moved.confirmed = [s.confirmed EXCEPT ![WitnessOf[b]] = Num[b]]
      /\ moved.trxs = s.trxs \cup TrxOf[b]
  BY DEF StateOK
<1>2. AfterBlock(s, b) = [moved EXCEPT !.lib = LastIrreversible(moved)]
  BY DEF AfterBlock
<1>3. short.head = b /\ short.lib = s.lib
      /\ short.confirmed = [s.confirmed EXCEPT ![WitnessOf[b]] = Num[b]]
  OBVIOUS
<1> HIDE DEF moved, short
<1>4. /\ AfterBlock(s, b).head = b
      /\ AfterBlock(s, b).lib = LastIrreversible(moved)
      /\ AfterBlock(s, b).confirmed = moved.confirmed
      /\ AfterBlock(s, b).trxs = moved.trxs
  BY <1>1, <1>2 DEF StateOK
<1>5. LastIrreversible(moved) = LastIrreversible(short)
  BY <1>1, <1>3 DEF LastIrreversible
<1> QED BY <1>1, <1>4, <1>5 DEF short

\* A block is irreversible at the earliest with itself.
LEMMA AfterBlockRange ==
    ASSUME NEW s, StateOK(s), InRange(s), NEW b \in Blocks, Previous[b] = s.head
    PROVE  InRange(AfterBlock(s, b))
<1> DEFINE c == [s.confirmed EXCEPT ![WitnessOf[b]] = Num[b]]
           m == [head |-> b, lib |-> s.lib, confirmed |-> c]
           k == ((100 - ThresholdPercent) * Cardinality(Witnesses)) \div 100
           n == Num[b]
<1>1. n \in Nat /\ Num[s.head] \in Nat /\ n = Num[s.head] + 1
  BY PreviousIs
<1>2. /\ s.lib \in Nat /\ s.lib <= Num[s.head]
      /\ s.confirmed \in [Witnesses -> Nat]
      /\ \A w \in Witnesses : s.confirmed[w] <= Num[s.head]
  BY DEF StateOK, InRange
<1>3. MaxWitnesses \in Nat /\ StartMinerVoting \in Nat
  BY ChainDatabaseAssumption
<1>4. c \in [Witnesses -> Nat] /\ \A w \in Witnesses : c[w] <= n
  <2>1. c \in [Witnesses -> Nat]
    BY <1>1, <1>2
  <2>2. \A w \in Witnesses : c[w] \in {n, s.confirmed[w]} /\ s.confirmed[w] \in Nat
    BY <1>2
  <2> HIDE DEF c, n
  <2> QED BY <1>1, <1>2, <2>1, <2>2
<1>5. NthElement(c, k) \in Nat /\ NthElement(c, k) <= n
  <2> PICK N \in Nat : N = Cardinality(Witnesses)
    BY FS_CardinalityType, ChainDatabaseAssumption
  <2>1. N >= 1
    BY FS_EmptySet, ChainDatabaseAssumption
  <2>2. k \in Nat /\ k < N
    BY <2>1, OffsetBelow, ChainDatabaseAssumption
  <2> HIDE DEF k, c
  <2>3. NthElement(c, k) \in Nat /\ \E w \in Witnesses : NthElement(c, k) = c[w]
    BY <1>4, <2>2, NthElementType
  <2> QED BY <1>4, <2>3
<1>6. AfterBlock(s, b).head = b /\ AfterBlock(s, b).confirmed = c
      /\ AfterBlock(s, b).lib = LastIrreversible(m)
  BY AfterBlockIs
<1>7. m.head = b /\ m.lib = s.lib /\ m.confirmed = c
  OBVIOUS
<1> HIDE DEF m, c
<1>8. LastIrreversible(m) = IF n < StartMinerVoting
                            THEN IF n > MaxWitnesses THEN n - MaxWitnesses ELSE s.lib
                            ELSE Larger(s.lib, NthElement(c, k))
  BY <1>7 DEF LastIrreversible
<1> HIDE DEF k, n
<1>9. LastIrreversible(m) <= n
  BY <1>1, <1>2, <1>3, <1>5, <1>8 DEF Larger
<1> QED BY <1>4, <1>6, <1>9 DEF InRange, n

\* On a settled tree every block on top of a known state applies and leaves a
\* known one.
LEMMA KnownAfter ==
    ASSUME NEW H, SettledTree(H), NEW s, StateOK(s), KnownIn(H, s),
           NEW b \in Blocks, Previous[b] = s.head
    PROVE  BlockApplies(s, b) /\ KnownIn(H, AfterBlock(s, b))
<1>1. PICK h \in H : Agree(s, h)
  BY DEF KnownIn
<1>2. StateOK(h) /\ h.head = s.head /\ h.lib = s.lib /\ h.confirmed = s.confirmed
      /\ s.trxs \subseteq h.trxs
  BY <1>1 DEF Agree
<1>3. BlockApplies(h, b) /\ AfterBlock(h, b) \in H
  BY <1>2 DEF SettledTree
<1>4. BlockApplies(s, b)
  <2>1. \A t \in TrxOf[b] : TrxApplies(t, s.head, s.trxs \cup (TrxOf[b] \ {t}))
    BY <1>2, <1>3 DEF BlockApplies, TrxApplies
  <2> QED BY <1>2, <1>3, <2>1 DEF BlockApplies
<1>5. Agree(AfterBlock(s, b), AfterBlock(h, b))
  <2>1. StateOK(AfterBlock(h, b))
    BY <1>2, AfterBlockType
  <2> DEFINE c    == [s.confirmed EXCEPT ![WitnessOf[b]] = Num[b]]
             last == LastIrreversible([head |-> b, lib |-> s.lib, confirmed |-> c])
  <2>2. /\ AfterBlock(s, b).head = b /\ AfterBlock(s, b).lib = last
        /\ AfterBlock(s, b).confirmed = c /\ AfterBlock(s, b).trxs = s.trxs \cup TrxOf[b]
    BY AfterBlockIs
  <2>3. /\ AfterBlock(h, b).head = b /\ AfterBlock(h, b).lib = last
        /\ AfterBlock(h, b).confirmed = c /\ AfterBlock(h, b).trxs = h.trxs \cup TrxOf[b]
    <3>1. /\ AfterBlock(h, b).head = b
          /\ AfterBlock(h, b).trxs = h.trxs \cup TrxOf[b]
          /\ AfterBlock(h, b).confirmed = [h.confirmed EXCEPT ![WitnessOf[b]] = Num[b]]
          /\ AfterBlock(h, b).lib =
               LastIrreversible([head |-> b, lib |-> h.lib,
                                 confirmed |-> [h.confirmed EXCEPT ![WitnessOf[b]] = Num[b]]])
      BY <1>2, AfterBlockIs
    <3> QED BY <1>2, <3>1, Zenon
  <2> HIDE DEF c, last
  <2> QED BY <1>2, <2>1, <2>2, <2>3 DEF Agree
<1>6. InRange(AfterBlock(s, b))
  BY AfterBlockRange DEF KnownIn
<1> QED BY <1>3, <1>4, <1>5, <1>6 DEF KnownIn

LEMMA KnownFewer ==
    ASSUME NEW H, NEW s, StateOK(s), KnownIn(H, s), NEW T, T \subseteq s.trxs
    PROVE  KnownIn(H, [s EXCEPT !.trxs = T])
<1> DEFINE e == [s EXCEPT !.trxs = T]
<1>1. e.head = s.head /\ e.lib = s.lib /\ e.confirmed = s.confirmed /\ e.trxs = T
  BY DEF StateOK
<1> HIDE DEF e
<1>2. KnownIn(H, e)
  BY <1>1 DEF KnownIn, Agree, InRange
<1> QED BY <1>2 DEF e

LEMMA KnownGenesis ==
    ASSUME NEW H, SettledTree(H)
    PROVE  KnownIn(H, GenesisState)
<1>1. Agree(GenesisState, GenesisState)
  BY GenesisType DEF Agree
<1>2. InRange(GenesisState)
  BY ForkDatabaseAssumption DEF InRange, GenesisState
<1> QED BY <1>1, <1>2 DEF KnownIn, SettledTree

-----------------------------------------------------------------------------
(* The block log.                                                          *)

\* The log is a chain from block 1 on, and has no other block than the one that
\* a chain of the tree has as irreversible.
FinalLog(H, lg) ==
    /\ \A i \in 1 .. Len(lg) : Previous[lg[i]] = IF i = 1 THEN Genesis ELSE lg[i - 1]
    /\ \A i \in 1 .. Len(lg) : Num[lg[i]] = i
    /\ \A s \in H : \A i \in 1 .. Len(lg) : i <= s.lib => AncestorAt(s.head, i) = lg[i]

LEMMA FinalPrefix ==
    ASSUME NEW H, NEW lg \in Seq(Blocks), FinalLog(H, lg), NEW n \in 0 .. Len(lg)
    PROVE  FinalLog(H, SubSeq(lg, 1, n))
<1> DEFINE q == SubSeq(lg, 1, n)
<1>1. Len(q) = n /\ \A i \in 1 .. n : q[i] = lg[i] /\ i \in 1 .. Len(lg)
  OBVIOUS
<1> HIDE DEF q
<1>2. \A i \in 1 .. n : i # 1 => i - 1 \in 1 .. n
  OBVIOUS
<1>3. FinalLog(H, q)
  BY <1>1, <1>2 DEF FinalLog
<1> QED BY <1>3 DEF q

\* Up to the last irreversible block the log is the node's own chain.
LEMMA FinalKnown ==
    ASSUME NEW H, NEW lg, FinalLog(H, lg), NEW s, KnownIn(H, s),
           NEW n \in 1 .. Len(lg), n <= s.lib
    PROVE  lg[n] = AncestorAt(s.head, n)
<1>1. PICK h \in H : h.head = s.head /\ h.lib = s.lib
  BY DEF KnownIn, Agree
<1> QED BY <1>1 DEF FinalLog

\* block_log::append of the next irreversible block.
LEMMA FinalAppend ==
    ASSUME NEW H, SettledTree(H), NEW lg \in Seq(Blocks), FinalLog(H, lg),
           NEW s, StateOK(s), KnownIn(H, s), Len(lg) + 1 <= s.lib
    PROVE  FinalLog(H, Append(lg, AncestorAt(s.head, Len(lg) + 1)))
<1> DEFINE a == AncestorAt(s.head, Len(lg) + 1)
           q == Append(lg, a)
<1>0. PICK m \in Nat : m = Len(lg)
  OBVIOUS
<1>1. s.head \in Ids /\ s.lib \in Nat /\ Num[s.head] \in Nat /\ s.lib <= Num[s.head]
  <2>1. s.head \in Ids /\ s.lib \in Nat /\ s.lib <= Num[s.head]
    BY DEF StateOK, KnownIn, InRange
  <2> QED BY <2>1, AncestorIs
<1>2. m + 1 \in 1 .. Num[s.head] /\ m + 1 \in 0 .. Num[s.head] /\ m \in 0 .. Num[s.head] - 1
      /\ m + 1 \in 1 .. s.lib
  BY <1>0, <1>1
<1>3. a \in Blocks /\ Num[a] = m + 1 /\ Previous[a] = AncestorAt(s.head, m)
  BY <1>0, <1>1, <1>2, AncestorIs
<1>4. Previous[a] = IF m + 1 = 1 THEN Genesis ELSE lg[m]
  <2>1. CASE m = 0
    <3>1. Num[AncestorAt(s.head, 0)] = 0 /\ AncestorAt(s.head, 0) \in Ids
      BY <1>1, <1>2, <2>1, AncestorIs
    <3> QED BY <1>3, <2>1, <3>1, GenesisNum
  <2>2. CASE m # 0
    <3>1. m \in 1 .. Len(lg) /\ m <= s.lib /\ m + 1 # 1
      BY <1>0, <1>1, <1>2, <2>2
    <3>2. lg[m] = AncestorAt(s.head, m)
      BY <3>1, FinalKnown
    <3> QED BY <1>3, <3>1, <3>2
  <2> QED BY <2>1, <2>2
<1> HIDE DEF a
<1>5. Len(q) = m + 1 /\ q[m + 1] = a /\ \A i \in 1 .. m : q[i] = lg[i]
  BY <1>0, <1>3
<1> HIDE DEF q
<1>6. \A i \in 1 .. m + 1 : i = m + 1 \/ (i \in 1 .. m /\ (i # 1 => i - 1 \in 1 .. m))
  BY <1>0
<1>7. \A i \in 1 .. Len(q) : Previous[q[i]] = IF i = 1 THEN Genesis ELSE q[i - 1]
  <2> SUFFICES ASSUME NEW i \in 1 .. m + 1 PROVE Previous[q[i]] = IF i = 1 THEN Genesis ELSE q[i - 1]
    BY <1>5
  <2>1. CASE i = m + 1
    <3>1. i # 1 => i - 1 = m /\ m \in 1 .. m
      BY <1>0, <2>1
    <3> QED BY <1>4, <1>5, <2>1, <3>1
  <2>2. CASE i \in 1 .. m /\ (i # 1 => i - 1 \in 1 .. m)
    <3>1. Previous[lg[i]] = IF i = 1 THEN Genesis ELSE lg[i - 1]
      BY <1>0, <2>2 DEF FinalLog
    <3> QED BY <1>5, <2>2, <3>1
  <2> QED BY <1>6, <2>1, <2>2
<1>8. \A i \in 1 .. Len(q) : Num[q[i]] = i
  BY <1>0, <1>3, <1>5, <1>6 DEF FinalLog
<1>9. ASSUME NEW t \in H, NEW i \in 1 .. Len(q), i <= t.lib PROVE AncestorAt(t.head, i) = q[i]
  <2>1. CASE i = m + 1
    <3>1. PICK h \in H : h.head = s.head /\ h.lib = s.lib
      BY DEF KnownIn, Agree
    <3>2. i \in 1 .. h.lib
      BY <1>2, <2>1, <3>1
    <3>3. AncestorAt(h.head, i) = AncestorAt(t.head, i)
      BY <1>9, <3>2 DEF SettledTree
    <3> QED BY <1>0, <1>5, <2>1, <3>1, <3>3 DEF a
  <2>2. CASE i \in 1 .. m
    BY <1>0, <1>5, <1>9, <2>2 DEF FinalLog
  <2> QED BY <1>5, <1>6, <2>1, <2>2
<1> QED BY <1>0, <1>7, <1>8, <1>9 DEF FinalLog, q, a

\* The log a node starts from.
LEMMA FinalInitial ==
    ASSUME NEW H, SettledTree(H)
    PROVE  FinalLog(H, InitialLog)
<1> DEFINE lg  == InitialLog
           Bad == {i \in 1 .. Len(lg) : Num[lg[i]] # i}
<1>0. lg \in Seq(Blocks) /\ Len(lg) \in Nat
  BY ChainDatabaseAssumption
<1>1. \A i \in 1 .. Len(lg) : Previous[lg[i]] = IF i = 1 THEN Genesis ELSE lg[i - 1]
  BY ChainDatabaseAssumption
<1>2. Bad = {}
  <2> SUFFICES ASSUME Bad # {} PROVE FALSE
    OBVIOUS
  <2>1. Bad \in SUBSET Nat
    BY <1>0
  <2>2. PICK i \in Bad : \A j \in Bad : i <= j
    BY <2>1, LeastExists
  <2>3. i \in 1 .. Len(lg) /\ Num[lg[i]] # i
    OBVIOUS
  <2>4. lg[i] \in Blocks
    BY <1>0, <2>3
  <2>5. Num[lg[i]] = Num[Previous[lg[i]]] + 1
    BY <2>4, PreviousIs
  <2>6. CASE i = 1
    BY <1>1, <2>3, <2>5, <2>6, ForkDatabaseAssumption
  <2>7. CASE i # 1
    <3>1. i - 1 \in 1 .. Len(lg) /\ ~(i <= i - 1)
      BY <1>0, <2>3, <2>7
    <3>2. Num[lg[i - 1]] = i - 1
      BY <2>2, <3>1
    <3>3. Previous[lg[i]] = lg[i - 1]
      BY <1>1, <2>3, <2>7
    <3> QED BY <1>0, <2>3, <2>5, <3>2, <3>3
  <2> QED BY <2>6, <2>7
<1> QED BY <1>1, <1>2 DEF FinalLog, SettledTree

-----------------------------------------------------------------------------
(* The fork database.                                                      *)

\* Pointers that are alive lead to items of the index; without a head there is
\* no item.
ForkOK(f) ==
    /\ IndexOK(f)
    /\ IsFiniteSet(f.index)
    /\ f.linked \subseteq Blocks
    /\ \A b \in f.linked : Previous[b] \in f.index
    /\ f.head \in Blocks \cup {None}
    /\ f.head = None => f.index = {}

\* The chain that ends in b is in the index from number n on.
Kept(f, b, n) == \A m \in n .. Num[b] : m >= 1 => AncestorAt(b, m) \in f.index

\* The items above number n are linked (block 1 has nothing to link to).
Tied(f, n) == \A b \in f.index : Num[b] > n /\ Num[b] > 1 => b \in f.linked

LEMMA ForkEmpty ==
    ASSUME NEW size
    PROVE  /\ ForkOK(EmptyForkDb(size))
           /\ EmptyForkDb(size).index = {} /\ EmptyForkDb(size).linked = {}
           /\ EmptyForkDb(size).head = None
<1>1. /\ EmptyForkDb(size).index = {} /\ EmptyForkDb(size).linked = {}
      /\ EmptyForkDb(size).head = None
  BY DEF EmptyForkDb
<1> QED BY <1>1, ForkDbKept, FS_EmptySet DEF ForkOK

LEMMA ForkStart ==
    ASSUME NEW f, IndexOK(f), f.index = {}, f.linked = {}, NEW b \in Blocks
    PROVE  /\ ForkOK(StartBlock(f, b))
           /\ StartBlock(f, b).index = {b} /\ StartBlock(f, b).head = b
<1>1. /\ StartBlock(f, b).index = {b} /\ StartBlock(f, b).linked = {}
      /\ StartBlock(f, b).head = b
  BY DEF StartBlock, IndexOK
<1>2. b # None
  BY ForkDatabaseAssumption
<1> QED BY <1>1, <1>2, ForkDbKept, FS_Singleton DEF ForkOK

LEMMA ForkPush ==
    ASSUME NEW f, ForkOK(f), NEW b \in Blocks
    PROVE  LET g == PushBlock(f, b)
           IN  /\ ForkOK(g)
               /\ g.index = f.index \cup {b}
               /\ g.head \in Blocks
               /\ g.head = b \/ (g.head = f.head /\ f.head # None)
               /\ f.head # None => Num[g.head] >= Num[f.head]
               /\ f.head = None => g.head = b
               /\ \A x \in f.index : x \in f.linked => x \in g.linked
               /\ f.head # None /\ Previous[b] \in f.index /\ b \notin f.index => b \in g.linked
<1> DEFINE g == PushBlock(f, b)
<1>1. /\ g.index = f.index \cup {b}
      /\ g.linked = IF b \in f.index THEN f.linked
                    ELSE IF f.head # None /\ Previous[b] \in f.index THEN f.linked \cup {b}
                    ELSE f.linked \ {b}
      /\ g.head = IF f.head = None \/ Num[b] > Num[f.head] THEN b ELSE f.head
  BY DEF PushBlock, ForkOK, IndexOK
<1>2. IndexOK(g)
  BY ForkDbKept DEF ForkOK
<1> HIDE DEF g
<1>3. IsFiniteSet(g.index)
  BY <1>1, FS_AddElement DEF ForkOK
<1>4. /\ f.linked \subseteq Blocks /\ \A x \in f.linked : Previous[x] \in f.index
      /\ f.head \in Blocks \cup {None}
      /\ b # None
  BY ForkDatabaseAssumption DEF ForkOK
<1>5. g.linked \subseteq Blocks /\ \A x \in g.linked : Previous[x] \in g.index
  BY <1>1, <1>4
<1>6. g.head \in Blocks /\ g.head # None
  BY <1>1, <1>4, ForkDatabaseAssumption
<1>7. ForkOK(g)
  BY <1>2, <1>3, <1>5, <1>6 DEF ForkOK
<1>8. Num[b] \in Nat /\ (f.head # None => Num[f.head] \in Nat)
  BY <1>4, PreviousIs
<1>9. f.head # None => Num[g.head] >= Num[f.head]
  BY <1>1, <1>8
<1>10. \A x \in f.index : x \in f.linked => x \in g.linked
  BY <1>1
<1>11. f.head # None /\ Previous[b] \in f.index /\ b \notin f.index => b \in g.linked
  BY <1>1
<1> QED BY <1>1, <1>6, <1>7, <1>9, <1>10, <1>11 DEF g

LEMMA PushKept ==
    ASSUME NEW f, ForkOK(f), NEW b \in Blocks, NEW n, NEW x
    PROVE  /\ Kept(f, x, n) => Kept(PushBlock(f, b), x, n)
           /\ /\ Tied(f, n) /\ f.head # None
              /\ Num[b] > n /\ Num[b] > 1 => Previous[b] \in f.index
              => Tied(PushBlock(f, b), n)
<1> DEFINE g == PushBlock(f, b)
<1>1. /\ g.index = f.index \cup {b}
      /\ \A y \in f.index : y \in f.linked => y \in g.linked
      /\ f.head # None /\ Previous[b] \in f.index /\ b \notin f.index => b \in g.linked
  BY ForkPush
<1> HIDE DEF g
<1>2. Kept(f, x, n) => Kept(g, x, n)
  BY <1>1 DEF Kept
<1>3. ASSUME Tied(f, n), f.head # None,
             Num[b] > n /\ Num[b] > 1 => Previous[b] \in f.index,
             NEW y \in g.index, Num[y] > n, Num[y] > 1
      PROVE  y \in g.linked
  <2>1. CASE y \in f.index
    BY <1>1, <1>3, <2>1 DEF Tied
  <2>2. CASE y \notin f.index
    BY <1>1, <1>3, <2>2
  <2> QED BY <2>1, <2>2
<1> QED BY <1>2, <1>3 DEF g, Tied

LEMMA ForkHead ==
    ASSUME NEW f, ForkOK(f), NEW b \in Blocks
    PROVE  /\ ForkOK(SetHead(f, b)) /\ SetHead(f, b).head = b
           /\ SetHead(f, b).index = f.index /\ SetHead(f, b).linked = f.linked
<1>1. /\ SetHead(f, b).head = b
      /\ SetHead(f, b).index = f.index /\ SetHead(f, b).linked = f.linked
  BY DEF SetHead, ForkOK, IndexOK
<1>2. b # None
  BY ForkDatabaseAssumption
<1> QED BY <1>1, <1>2, ForkDbKept DEF ForkOK

LEMMA ForkPop ==
    ASSUME NEW f, ForkOK(f), f.head \in f.linked
    PROVE  /\ ForkOK(PopBlock(f)) /\ PopBlock(f).head = Previous[f.head]
           /\ Previous[f.head] \in Blocks
           /\ PopBlock(f).index = f.index /\ PopBlock(f).linked = f.linked
<1>1. /\ PopBlock(f).head = Previous[f.head]
      /\ PopBlock(f).index = f.index /\ PopBlock(f).linked = f.linked
  BY DEF PopBlock, ForkOK, IndexOK
<1>2. Previous[f.head] \in Blocks /\ Previous[f.head] # None
  BY ForkDatabaseAssumption DEF ForkOK, IndexOK
<1> QED BY <1>1, <1>2, ForkDbKept DEF ForkOK

\* set_max_size after a block: what lies two below the last irreversible block
\* is dropped.
LEMMA ForkTrim ==
    ASSUME NEW f, ForkOK(f), f.head \in Blocks, NEW lib \in Nat, lib <= Num[f.head]
    PROVE  LET g == SetMaxSize(f, Num[f.head] - lib + 1)
           IN  /\ ForkOK(g) /\ g.head = f.head
               /\ g.index \subseteq f.index
               /\ \A x \in f.index : Num[x] >= lib => x \in g.index
               /\ \A x \in f.index : Num[x] > lib /\ x \in f.linked => x \in g.linked
<1> DEFINE size == Num[f.head] - lib + 1
           e    == [f EXCEPT !.max_size = size]
           B    == {b \in f.index : Num[b] < Floor(e)}
           g    == SetMaxSize(f, size)
<1>1. Num[f.head] \in Nat /\ f.head # None
  BY PreviousIs, ForkDatabaseAssumption
<1>2. /\ e.head = f.head /\ e.index = f.index /\ e.linked = f.linked /\ e.max_size = size
      /\ DOMAIN e = DOMAIN f
  BY DEF ForkOK, IndexOK
<1>3. Floor(e) = Larger(0, lib - 1)
  <2>1. Num[f.head] - size = lib - 1
    BY <1>1
  <2> QED BY <1>2, <2>1 DEF Floor
<1>4. g = Erase(e, B)
  BY <1>1 DEF SetMaxSize
<1> HIDE DEF e, size
<1>5. /\ g.index = f.index \ B
      /\ g.linked = {b \in f.linked : Previous[b] \notin B /\ (b \in B => b = f.head)}
      /\ g.head = f.head
  BY <1>2, <1>4 DEF Erase, ForkOK, IndexOK
<1>6. IndexOK(g)
  BY ForkDbKept DEF ForkOK
<1>7. \A x \in f.index : Num[x] \in Nat
  BY PreviousIs DEF ForkOK, IndexOK
<1>8. \A x \in f.index : Num[x] >= lib => x \notin B
  BY <1>3, <1>7 DEF Larger
<1>9. ASSUME NEW x \in f.index, Num[x] > lib, x \in f.linked PROVE x \in g.linked
  <2>1. x \in Blocks /\ Previous[x] \in f.index
    BY <1>9 DEF ForkOK
  <2>2. Num[x] = Num[Previous[x]] + 1 /\ Num[Previous[x]] \in Nat
    BY <2>1, PreviousIs
  <2>3. Num[Previous[x]] >= lib /\ Num[x] >= lib
    BY <1>9, <2>2
  <2> QED BY <1>5, <1>8, <1>9, <2>1, <2>3
<1> HIDE DEF g, B
<1>10. ForkOK(g)
  <2>1. IsFiniteSet(g.index)
    BY <1>5, FS_Subset DEF ForkOK
  <2> QED BY <1>1, <1>5, <1>6, <2>1 DEF ForkOK
<1> QED BY <1>5, <1>8, <1>9, <1>10 DEF g, size

LEMMA TrimKept ==
    ASSUME NEW f, ForkOK(f), f.head \in Blocks, NEW lib \in Nat, lib <= Num[f.head],
           NEW n \in Nat, NEW m \in Nat, n <= m, lib <= m, NEW x \in Ids
    PROVE  LET g == SetMaxSize(f, Num[f.head] - lib + 1)
           IN  /\ Kept(f, x, n) => Kept(g, x, m)
               /\ Tied(f, n) => Tied(g, m)
<1> DEFINE g == SetMaxSize(f, Num[f.head] - lib + 1)
<1>1. /\ g.index \subseteq f.index
      /\ \A y \in f.index : Num[y] >= lib => y \in g.index
      /\ \A y \in f.index : Num[y] > lib /\ y \in f.linked => y \in g.linked
  BY ForkTrim
<1> HIDE DEF g
<1>2. ASSUME Kept(f, x, n), NEW k \in m .. Num[x], k >= 1 PROVE AncestorAt(x, k) \in g.index
  <2>1. Num[x] \in Nat
    BY AncestorIs
  <2>2. k \in n .. Num[x] /\ k \in 0 .. Num[x] /\ k >= lib
    BY <1>2, <2>1
  <2>3. AncestorAt(x, k) \in f.index /\ Num[AncestorAt(x, k)] = k
    BY <1>2, <2>2, AncestorIs DEF Kept
  <2> QED BY <1>1, <2>2, <2>3
<1>3. ASSUME Tied(f, n), NEW y \in g.index, Num[y] > m, Num[y] > 1 PROVE y \in g.linked
  <2>1. y \in f.index /\ Num[y] \in Nat
    BY <1>1, PreviousIs DEF ForkOK, IndexOK
  <2>2. Num[y] > n /\ Num[y] > lib
    BY <1>3, <2>1
  <2> QED BY <1>1, <1>3, <2>1, <2>2 DEF Tied
<1> QED BY <1>2, <1>3 DEF g, Kept, Tied

-----------------------------------------------------------------------------
(* The inductive invariant on a settled tree.                              *)

Running == InCall \cup {"idle"}

\* The number of the committed block.
Base == revision - Len(undo)

\* Every state that undo can go back to is the state at the end of a chain; so
\* is the state itself, unless pending transactions are on top of it.
StatesKnown(H) ==
    /\ \A i \in 1 .. Len(undo) : KnownIn(H, undo[i].snapshot)
    /\ undo = <<>> \/ (~session /\ pc # "closed") => KnownIn(H, db)

\* The log has the block x, on disk.
Stored(lg, fl, x) == x # Genesis => lg[Num[x]] = x /\ Num[x] <= fl

RestartOK ==
    /\ Stored(log, flushed, HeadAt(undo, db, 1))
    /\ pc \notin Running => flushed = Len(log)
    /\ pc = "replay" => fork_db.index = {} /\ fork_db.linked = {} /\ fork_db.head = None

\* A node at genesis was given a later block first: nothing links to it.
Astray ==
    /\ pc \in {"idle", "requeue"}
    /\ db.head = Genesis
    /\ fork_db.head # None /\ Num[fork_db.head] > 1

\* The chain from the committed block on is in the fork database and linked, and
\* between calls the fork database's head is not a block still to be applied.
TreeOK ==
    /\ ForkOK(fork_db)
    /\ pc \in Running => Kept(fork_db, db.head, Base) /\ (Astray \/ Tied(fork_db, Base))
    /\ pc \in {"idle", "requeue"} /\ fork_db.head # None => Previous[fork_db.head] # db.head

\* What is left to apply is a branch in the fork database.
BranchChain(f, s) ==
    \A i \in 1 .. Len(s) :
       s[i] \in f.index /\ (i > 1 => Previous[s[i]] = s[i - 1] /\ s[i] \in f.linked)

\* The branch leaves the chain at the fork point, and the fork database's head is
\* on the way down to it.
Unwinding ==
    /\ job.mode = "switch"
    /\ Num[ForkPoint] <= Num[db.head]
    /\ ForkPoint = AncestorAt(db.head, Num[ForkPoint])
    /\ Previous[job.apply[1]] = ForkPoint
    /\ Num[fork_db.head] <= Num[ForkPoint] \/ fork_db.head \in Elements(job.apply)

Applying ==
    /\ Previous[job.apply[1]] = db.head
    /\ job.mode = "straight" => fork_db.head = job.apply[1]

SwitchOK ==
    pc \in {"pop", "apply", "migrate"} =>
       /\ fork_db.head # None
       /\ BranchChain(fork_db, job.apply)
       /\ job.mode \in {"straight", "switch"}
       /\ job.mode = "straight" => Len(job.apply) = 1
       /\ pc = "pop" => Unwinding
       /\ pc = "apply" => Applying
       /\ pc = "migrate" => fork_db.head = db.head /\ job.apply[1] = db.head

\* What is left to write are the irreversible blocks of the chain that the log
\* lacks.
WriteOK ==
    pc = "migrate" =>
       /\ Len(job.write) = Larger(0, db.lib - Len(log))
       /\ \A i \in 1 .. Len(job.write) : job.write[i] = AncestorAt(db.head, Len(log) + i)

SInv(H) ==
    StatesKnown(H) /\ FinalLog(H, log) /\ RestartOK /\ TreeOK /\ SwitchOK /\ WriteOK

\* The undo history while the node runs.
LEMMA RunningIs ==
    ASSUME IInv, pc \in Running
    PROVE  /\ Len(undo) \in Nat /\ IsASeq(undo)
           /\ session \in BOOLEAN
           /\ Chained(undo, db, revision, session)
           /\ StateOK(db) /\ db.head \in Ids /\ Num[db.head] \in Nat
           /\ Base \in Nat /\ Base <= Num[db.head]
           /\ HeadAt(undo, db, 1) \in Ids /\ Num[HeadAt(undo, db, 1)] = Base
<1>1. session \in BOOLEAN /\ Chained(undo, db, revision, session)
  BY DEF IInv, HistoryOK, Running
<1>2. PICK n \in Nat : n = Len(undo)
  BY <1>1, LenIsNat DEF Chained
<1>3. StateOK(db) /\ db.head \in Ids /\ Num[db.head] \in Nat /\ revision \in Int /\ IsASeq(undo)
  BY <1>1, NumIsNat DEF Chained, StateOK
<1>4. Num[db.head] = (IF session THEN revision - 1 ELSE revision) /\ (session => n >= 1)
  BY <1>1, <1>2 DEF Chained
<1>5. HeadAt(undo, db, 1) \in Ids /\ Num[HeadAt(undo, db, 1)] = revision - n
  <2>1. CASE n >= 1
    <3>1. StateOK(undo[1].snapshot) /\ Num[undo[1].snapshot.head] = revision - n
      BY <1>1, <1>2, <2>1, ChainedOldest
    <3>2. HeadAt(undo, db, 1) = undo[1].snapshot.head
      BY <1>2, <2>1 DEF HeadAt
    <3> QED BY <3>1, <3>2 DEF StateOK
  <2>2. CASE n = 0
    <3>1. HeadAt(undo, db, 1) = db.head
      BY <1>2, <2>2 DEF HeadAt
    <3> QED BY <1>3, <1>4, <2>2, <3>1
  <2> QED BY <2>1, <2>2
<1>6. Num[HeadAt(undo, db, 1)] \in Nat
  BY <1>5, GenesisNum
<1> QED BY <1>1, <1>2, <1>3, <1>4, <1>5, <1>6 DEF Base

\* clear_pending() leads back to the state at the end of the chain.
LEMMA CleanKnown ==
    ASSUME NEW H, IInv, StatesKnown(H), pc = "idle"
    PROVE  /\ CleanDb.head = db.head
           /\ KnownIn(H, CleanDb)
           /\ CleanRevision - Len(CleanUndo) = Base
           /\ HeadAt(CleanUndo, CleanDb, 1) = HeadAt(undo, db, 1)
           /\ \A i \in 1 .. Len(CleanUndo) : KnownIn(H, CleanUndo[i].snapshot)
<1>0. session \in BOOLEAN /\ Chained(undo, db, revision, session)
  BY RunningIs DEF Running
<1>1. CASE ~session
  BY <1>1 DEF CleanDb, CleanUndo, CleanRevision, Base, StatesKnown
<1>2. CASE session
  <2>1. PICK n \in Nat : n = Len(undo)
    BY <1>0, LenIsNat DEF Chained
  <2>2. n >= 1 /\ undo[n].snapshot.head = db.head /\ revision \in Int
    BY <1>0, <1>2, <2>1 DEF Chained
  <2> DEFINE v == SubSeq(undo, 1, n - 1)
  <2>3. IsASeq(v) /\ Len(v) = n - 1 /\ \A i \in 1 .. n - 1 : v[i] = undo[i]
    BY <1>0, <2>1, <2>2, FrontIs DEF Chained
  <2>4. CleanDb = undo[n].snapshot /\ CleanUndo = v /\ CleanRevision = revision - 1
    BY <1>2, <2>1 DEF CleanDb, CleanUndo, CleanRevision, Outer
  <2> HIDE DEF v
  <2>5. \A i \in 1 .. n : KnownIn(H, undo[i].snapshot)
    BY <2>1 DEF StatesKnown
  <2>6. \A i \in 1 .. n - 1 : KnownIn(H, v[i].snapshot)
    BY <2>3, <2>5
  <2>7. HeadAt(v, undo[n].snapshot, 1) = HeadAt(undo, db, 1)
    BY <2>1, <2>2, <2>3 DEF HeadAt
  <2>8. revision - 1 - (n - 1) = revision - n
    BY <2>2
  <2> QED BY <2>1, <2>2, <2>3, <2>4, <2>5, <2>6, <2>7, <2>8 DEF Base
<1> QED BY <1>0, <1>1, <1>2

\* fetch_branch_from: the two branches leave the chain at the same block.
LEMMA FetchIs ==
    ASSUME NEW f, ForkOK(f), NEW a \in Blocks, NEW c \in Blocks, CanFetchBranch(f, a, c)
    PROVE  LET h     == MeetingHeight(f, a, c)
               new   == Branch(f, a, h)
               point == Previous[Branch(f, c, h)[1]]
           IN  /\ BranchChain(f, new)
               /\ a \in Elements(new)
               /\ Previous[new[1]] = point
               /\ Num[point] <= Num[c]
               /\ point = AncestorAt(c, Num[point])
<1> DEFINE h     == MeetingHeight(f, a, c)
           new   == Branch(f, a, h)
           old   == Branch(f, c, h)
           point == Previous[old[1]]
<1>1. h \in Heights(a, c) /\ MeetAt(f, a, c, h)
  BY DEF CanFetchBranch, MeetingHeight
<1> HIDE DEF h
<1>2. a \in Ids /\ c \in Ids /\ Num[a] \in Nat /\ Num[c] \in Nat
  BY PreviousIs
<1>3. h \in 1 .. Num[a] /\ h \in 1 .. Num[c]
  BY <1>1, <1>2 DEF Heights
<1>4. Reaches(f, a, h) /\ Reaches(f, c, h) /\ SamePrevious(f, a, c, h)
  BY <1>1 DEF MeetAt
<1>5. /\ \A m \in h .. Num[a] : ItemAt(f, a, m) = AncestorAt(a, m)
                                /\ (m > h => AncestorAt(a, m) \in f.linked)
      /\ \A m \in h .. Num[c] : ItemAt(f, c, m) = AncestorAt(c, m)
  BY <1>2, <1>3, <1>4, ReachesAncestors
<1>6. PICK k \in Nat : k = Num[a] - h + 1 /\ k >= 1
  BY <1>2, <1>3
<1>7. Len(new) = k /\ \A i \in 1 .. k : new[i] = AncestorAt(a, h + i - 1)
  <2>1. new = [i \in 1 .. k |-> ItemAt(f, a, h + i - 1)]
    BY <1>6 DEF Branch
  <2>2. \A i \in 1 .. k : h + i - 1 \in h .. Num[a]
    BY <1>2, <1>3, <1>6
  <2> QED BY <1>5, <2>1, <2>2
<1>8. old[1] = AncestorAt(c, h) /\ ItemAt(f, c, h) = AncestorAt(c, h) /\ ItemAt(f, a, h) = AncestorAt(a, h)
  <2>1. 1 \in 1 .. Num[c] - h + 1 /\ h + 1 - 1 = h /\ h \in h .. Num[c] /\ h \in h .. Num[a]
    BY <1>2, <1>3
  <2>2. old[1] = ItemAt(f, c, h)
    BY <2>1 DEF Branch
  <2> QED BY <1>5, <2>1, <2>2
<1> HIDE DEF new, old
<1>9. ASSUME NEW i \in 1 .. k, i > 1 PROVE Previous[new[i]] = new[i - 1] /\ new[i] \in f.linked
  <2>1. /\ h + i - 1 \in h .. Num[a] /\ h + i - 1 > h
        /\ h + i - 2 \in 0 .. Num[a] - 1 /\ (h + i - 2) + 1 = h + i - 1
        /\ i - 1 \in 1 .. k /\ h + (i - 1) - 1 = h + i - 2
    BY <1>2, <1>3, <1>6, <1>9
  <2>2. AncestorAt(a, h + i - 2) = Previous[AncestorAt(a, h + i - 1)]
    BY <1>2, <2>1, AncestorIs
  <2> QED BY <1>5, <1>7, <2>1, <2>2
<1>10. new[k] = a
  <2>1. h + k - 1 = Num[a] /\ k \in 1 .. k
    BY <1>2, <1>3, <1>6
  <2> QED BY <1>2, <1>7, <2>1, AncestorIs
<1>11. ASSUME NEW i \in 1 .. k PROVE new[i] \in f.index
  <2>1. CASE i = k
    BY <1>10, <2>1 DEF CanFetchBranch
  <2>2. CASE i # k
    <3>1. i + 1 \in 1 .. k /\ i + 1 > 1 /\ (i + 1) - 1 = i
      BY <1>6, <2>2
    <3>2. Previous[new[i + 1]] = new[i] /\ new[i + 1] \in f.linked
      BY <1>9, <3>1
    <3> QED BY <3>2 DEF ForkOK
  <2> QED BY <2>1, <2>2
<1>12. BranchChain(f, new)
  BY <1>7, <1>9, <1>11 DEF BranchChain
<1>13. a \in Elements(new)
  <2>1. k \in 1 .. Len(new)
    BY <1>6, <1>7
  <2> QED BY <1>10, <2>1 DEF Elements
<1>14. Previous[new[1]] = point
  <2>1. 1 \in 1 .. k /\ h + 1 - 1 = h
    BY <1>3, <1>6
  <2> QED BY <1>4, <1>7, <1>8, <2>1 DEF SamePrevious
<1>15. Num[point] <= Num[c] /\ point = AncestorAt(c, Num[point])
  <2>1. h - 1 \in 0 .. Num[c] - 1 /\ (h - 1) + 1 = h /\ h - 1 \in 0 .. Num[c] /\ h - 1 <= Num[c]
    BY <1>2, <1>3
  <2>2. AncestorAt(c, h - 1) = Previous[AncestorAt(c, h)]
    BY <1>2, <2>1, AncestorIs
  <2>3. Num[AncestorAt(c, h - 1)] = h - 1
    BY <1>2, <2>1, AncestorIs
  <2> QED BY <1>8, <2>1, <2>2, <2>3
<1> QED BY <1>12, <1>13, <1>14, <1>15 DEF new, old, h

LEMMA PushS ==
    ASSUME NEW H, IInv, SInv(H), NEW b \in Blocks, Push(b)
    PROVE  SInv(H)'
<1> DEFINE g     == fork_db
           f     == PushBlock(g, b)
           c     == db.head
           fork  == MeetingHeight(f, f.head, c)
           call  == [NoJob EXCEPT !.block = b, !.saved = pending,
                                  !.head = c, !.known = db.trxs]
           Requeued == pc' = "requeue" /\ fork_db' = f /\ Previous[f.head] # c
           Straight == /\ pc' = "apply" /\ fork_db' = f /\ Previous[f.head] = c
                       /\ job' = [call EXCEPT !.mode = "straight", !.apply = <<b>>]
           Switch   == /\ CanFetchBranch(f, f.head, c)
                       /\ pc' = "pop" /\ fork_db' = f /\ Previous[f.head] # c
                       /\ job' = [call EXCEPT !.mode = "switch", !.apply = Branch(f, f.head, fork),
                                              !.old = Branch(f, c, fork)]
<1>1. /\ pc = "idle" /\ pc' \in {"requeue", "apply", "pop"}
      /\ undo' = CleanUndo /\ db' = CleanDb /\ revision' = CleanRevision
      /\ session' = FALSE /\ log' = log /\ flushed' = flushed
  BY DEF Push
<1>2. /\ CleanDb.head = c /\ KnownIn(H, CleanDb)
      /\ CleanRevision - Len(CleanUndo) = Base
      /\ HeadAt(CleanUndo, CleanDb, 1) = HeadAt(undo, db, 1)
      /\ \A i \in 1 .. Len(CleanUndo) : KnownIn(H, CleanUndo[i].snapshot)
  BY <1>1, CleanKnown DEF SInv
<1>3. StatesKnown(H)'
  BY <1>1, <1>2 DEF StatesKnown
<1>4. FinalLog(H, log)'
  BY <1>1 DEF SInv
<1>5. RestartOK'
  BY <1>1, <1>2 DEF SInv, RestartOK, Running, InCall
<1>6. WriteOK'
  BY <1>1 DEF WriteOK
<1>7. db'.head = c /\ Base' = Base /\ c \in Ids /\ Num[c] \in Nat /\ Base \in Nat /\ Base <= Num[c]
  BY <1>1, <1>2, RunningIs DEF Base, Running
<1>8. \/ ~CanPush(g, b) /\ pc' = "requeue" /\ fork_db' = g
      \/ CanPush(g, b) /\ (Requeued \/ Straight \/ Switch)
  BY <1>2 DEF Push
<1>9. ForkOK(g) /\ Kept(g, c, Base) /\ (Astray \/ Tied(g, Base))
      /\ (g.head # None => Previous[g.head] # c)
  BY <1>1 DEF SInv, TreeOK, Running
<1> DEFINE FPushed == /\ ForkOK(f) /\ f.index = g.index \cup {b} /\ f.head \in Blocks
                      /\ f.head = b \/ (f.head = g.head /\ g.head # None)
                      /\ g.head # None => Num[f.head] >= Num[g.head]
                      /\ g.head = None => f.head = b
                      /\ \A x \in g.index : x \in g.linked => x \in f.linked
                      /\ g.head # None /\ Previous[b] \in g.index /\ b \notin g.index => b \in f.linked
<1>10. FPushed
  BY <1>9, ForkPush
<1>11. Kept(f, c, Base)
  BY <1>9, PushKept
<1>12. c # Genesis => c \in g.index /\ g.head # None
  <2> SUFFICES ASSUME c # Genesis PROVE c \in g.index /\ g.head # None
    OBVIOUS
  <2>1. Num[c] >= 1 /\ Num[c] \in Base .. Num[c]
    BY <1>7, GenesisNum
  <2>2. c \in g.index
    BY <1>7, <1>9, <2>1, AncestorIs DEF Kept
  <2> QED BY <1>9, <2>2 DEF ForkOK
<1>13. ASSUME CanPush(g, b), g.head # None, Tied(g, Base) PROVE Tied(f, Base)
  <2>1. Num[b] > 1 => Previous[b] # Genesis
    BY PreviousIs, ForkDatabaseAssumption
  <2>2. Num[b] > 1 => Previous[b] \in g.index
    BY <1>13, <2>1 DEF CanPush
  <2> QED BY <1>9, <1>13, <2>2, PushKept
<1>14. Astray => c = Genesis /\ g.head # None /\ Num[g.head] > 1
  BY DEF Astray
<1>15. f.head # None /\ Num[f.head] \in Nat /\ (g.head # None => g.head \in Blocks /\ Num[g.head] \in Nat)
  <2>1. f.head \in Blocks /\ (g.head # None => g.head \in Blocks)
    BY <1>9, <1>10 DEF ForkOK
  <2> QED BY <2>1, PreviousIs, ForkDatabaseAssumption
<1>16. /\ DOMAIN call = DOMAIN NoJob /\ call.mode = "none"
       /\ call.apply = <<>> /\ call.old = <<>> /\ call.write = <<>>
  BY DEF NoJob
<1> HIDE DEF f, g, c, call
<1>17. ASSUME pc' = "requeue", fork_db' = g PROVE TreeOK' /\ SwitchOK'
  <2>1. Astray => Astray'
    BY <1>7, <1>14, <1>17 DEF Astray
  <2>2. TreeOK'
    BY <1>7, <1>9, <1>17, <2>1 DEF TreeOK
  <2> QED BY <1>17, <2>2 DEF SwitchOK
<1>18. ASSUME CanPush(g, b), Requeued PROVE TreeOK' /\ SwitchOK'
  <2>1. Astray' \/ Tied(f, Base)
    <3>1. CASE Astray
      <4>1. Num[f.head] > 1
        BY <1>10, <1>14, <1>15, <3>1
      <4> QED BY <1>7, <1>14, <1>15, <1>18, <3>1, <4>1 DEF Astray
    <3>2. CASE g.head = None
      <4>1. f.head = b /\ c = Genesis
        BY <1>10, <1>12, <3>2
      <4>2. Previous[b] \in Ids /\ Num[b] = Num[Previous[b]] + 1 /\ Previous[b] # Genesis
        BY <1>18, <4>1, PreviousIs
      <4>3. Num[Previous[b]] \in Nat /\ Num[Previous[b]] # 0
        BY <4>2, GenesisNum
      <4>4. Num[f.head] > 1
        BY <4>1, <4>2, <4>3
      <4> QED BY <1>7, <1>15, <1>18, <4>1, <4>4 DEF Astray
    <3>3. CASE ~Astray /\ g.head # None
      BY <1>9, <1>13, <1>18, <3>3
    <3> QED BY <3>1, <3>2, <3>3
  <2>2. TreeOK'
    BY <1>7, <1>10, <1>11, <1>18, <2>1 DEF TreeOK
  <2> QED BY <1>18, <2>2 DEF SwitchOK
<1>19. ASSUME CanPush(g, b), Straight PROVE TreeOK' /\ SwitchOK'
  <2>1. f.head = b /\ Previous[b] = c
    BY <1>9, <1>10, <1>19
  <2>2. ~Astray
    <3> SUFFICES ASSUME Astray PROVE FALSE
      OBVIOUS
    <3>1. Num[b] = Num[c] + 1 /\ Num[c] = 0
      BY <1>7, <1>14, <2>1, PreviousIs, GenesisNum
    <3> QED BY <1>10, <1>14, <1>15, <2>1, <3>1
  <2>3. Tied(f, Base)
    <3>1. CASE g.head # None
      BY <1>9, <1>13, <1>19, <2>2, <3>1
    <3>2. CASE g.head = None
      <4>1. c = Genesis /\ f.index = {b}
        BY <1>9, <1>10, <1>12, <3>2 DEF ForkOK
      <4>2. Num[b] = 0 + 1
        BY <2>1, <4>1, PreviousIs, ForkDatabaseAssumption
      <4> QED BY <4>1, <4>2 DEF Tied
    <3> QED BY <3>1, <3>2
  <2>4. TreeOK'
    BY <1>7, <1>10, <1>11, <1>19, <2>3 DEF TreeOK
  <2>5. job'.apply = <<b>> /\ job'.mode = "straight"
    BY <1>16, <1>19 DEF NoJob
  <2>6. Len(<<b>>) = 1 /\ <<b>>[1] = b
    OBVIOUS
  <2>7. BranchChain(fork_db', job'.apply)
    <3>1. b \in f.index /\ \A i \in 1 .. 1 : i = 1 /\ ~(i > 1)
      BY <1>10
    <3> QED BY <1>19, <2>5, <2>6, <3>1 DEF BranchChain
  <2>8. Applying'
    BY <1>7, <1>19, <2>1, <2>5, <2>6 DEF Applying
  <2> QED BY <1>15, <1>19, <2>4, <2>5, <2>6, <2>7, <2>8 DEF SwitchOK
<1>20. ASSUME CanPush(g, b), Switch PROVE TreeOK' /\ SwitchOK'
  <2>1. c \in Blocks /\ f.head \in Blocks
    BY <1>10, <1>20 DEF CanFetchBranch, ForkOK, IndexOK
  <2>2. c # Genesis
    BY <2>1, ForkDatabaseAssumption
  <2>3. Tied(f, Base)
    BY <1>9, <1>12, <1>13, <1>14, <1>20, <2>2
  <2>4. TreeOK'
    BY <1>7, <1>10, <1>11, <1>20, <2>3 DEF TreeOK
  <2>5. /\ job'.apply = Branch(f, f.head, fork) /\ job'.mode = "switch"
        /\ job'.old = Branch(f, c, fork)
    BY <1>16, <1>20 DEF NoJob
  <2>6. /\ BranchChain(f, job'.apply)
        /\ f.head \in Elements(job'.apply)
        /\ Previous[job'.apply[1]] = ForkPoint'
        /\ Num[ForkPoint'] <= Num[c]
        /\ ForkPoint' = AncestorAt(c, Num[ForkPoint'])
    BY <1>10, <1>20, <2>1, <2>5, FetchIs DEF ForkPoint
  <2>7. Unwinding'
    BY <1>7, <1>20, <2>5, <2>6 DEF Unwinding
  <2> QED BY <1>15, <1>20, <2>4, <2>5, <2>6, <2>7 DEF SwitchOK
<1>21. TreeOK' /\ SwitchOK'
  BY <1>8, <1>17, <1>18, <1>19, <1>20
<1> QED BY <1>3, <1>4, <1>5, <1>6, <1>21 DEF SInv

LEMMA KeptBelow ==
    ASSUME NEW f, NEW b \in Blocks, NEW n \in Nat, Kept(f, b, n)
    PROVE  Kept(f, Previous[b], n)
<1>1. Num[b] \in Nat /\ Num[Previous[b]] \in Nat /\ Num[b] = Num[Previous[b]] + 1
  BY PreviousIs
<1> SUFFICES ASSUME NEW m \in n .. Num[Previous[b]], m >= 1
             PROVE  AncestorAt(Previous[b], m) \in f.index
  BY DEF Kept
<1>2. m \in n .. Num[b] /\ m \in 0 .. Num[b] - 1
  BY <1>1
<1>3. AncestorAt(b, m) = AncestorAt(Previous[b], m)
  BY <1>2, AncestorOfPrevious
<1> QED BY <1>2, <1>3 DEF Kept

\* What holds of the fork point while the switch unwinds to it.
LEMMA ForkPointIs ==
    ASSUME IInv, SwitchOK, pc = "pop", db.head # ForkPoint
    PROVE  /\ ForkPoint \in Ids /\ Num[ForkPoint] \in Nat
           /\ Num[ForkPoint] < Num[db.head] /\ db.head \in Blocks
<1>1. Unwinding
  BY DEF SwitchOK
<1>2. job.apply[1] \in Blocks
  BY DEF IInv, JobOK
<1>3. ForkPoint \in Ids /\ Num[ForkPoint] \in Nat
  BY <1>1, <1>2, PreviousIs DEF Unwinding
<1>4. db.head \in Ids /\ Num[db.head] \in Nat
  BY RunningIs DEF Running, InCall
<1>5. Num[ForkPoint] # Num[db.head]
  BY <1>1, <1>4, AncestorIs DEF Unwinding
<1>6. Num[ForkPoint] < Num[db.head]
  BY <1>1, <1>3, <1>4, <1>5 DEF Unwinding
<1> QED BY <1>3, <1>4, <1>6, GenesisNum

LEMMA PopS ==
    ASSUME NEW H, IInv, SInv(H), Pop
    PROVE  SInv(H)'
<1> DEFINE F == ForkPoint
           x == fork_db.head
           c == db.head
<1>0. /\ pc = "pop" /\ pc' = "pop" /\ c # F /\ fork_db.head \in fork_db.linked
      /\ fork_db' = PopBlock(fork_db)
      /\ UNCHANGED <<log, flushed, session, job>>
  BY DEF Pop, CanPopBlock, CanPop
<1>1. ~session /\ Chained(undo, db, revision, FALSE)
  BY <1>0 DEF IInv, HistoryOK, InCall
<1>2. /\ fork_db.head # None /\ BranchChain(fork_db, job.apply)
      /\ job.mode = "switch" /\ Unwinding
  BY <1>0 DEF SInv, SwitchOK, Unwinding
<1>3. F \in Ids /\ Num[F] \in Nat /\ Num[F] < Num[c] /\ c \in Blocks
  BY <1>0, ForkPointIs DEF SInv
<1>4. ForkOK(fork_db) /\ Kept(fork_db, c, Base) /\ Tied(fork_db, Base)
  BY <1>0 DEF SInv, TreeOK, Running, InCall, Astray
<1>5. Base \in Nat /\ Num[c] \in Nat
  BY <1>0, RunningIs DEF Running, InCall
<1>6. PICK n \in Nat : n = Len(undo)
  BY <1>1, LenIsNat DEF Chained
<1>7. /\ \A i \in 1 .. n : KnownIn(H, undo[i].snapshot)
      /\ KnownIn(H, db)
  BY <1>0, <1>1, <1>6 DEF SInv, StatesKnown
<1> DEFINE Undone == /\ db'.head = c \/ db'.head = Previous[c]
                     /\ KnownIn(H, db')
                     /\ \A i \in 1 .. Len(undo') : KnownIn(H, undo'[i].snapshot)
                     /\ Base' = Base
                     /\ HeadAt(undo', db', 1) = HeadAt(undo, db, 1)
<1>8. Undone
  <2>1. CASE undo = <<>>
    <3>1. UNCHANGED <<db, undo, revision>>
      BY <2>1 DEF Pop
    <3> QED BY <3>1, <1>6, <1>7 DEF Base
  <2>2. CASE undo # <<>>
    <3>1. n >= 1 /\ revision \in Int
      BY <1>1, <1>6, <2>2 DEF Chained, IsASeq
    <3>2. undo' = SubSeq(undo, 1, n - 1) /\ db' = undo[n].snapshot /\ revision' = revision - 1
      BY <1>6, <2>2 DEF Pop, Outer
    <3>3. Len(undo') = n - 1 /\ \A i \in 1 .. n - 1 : undo'[i] = undo[i]
      BY <1>1, <1>6, <3>1, <3>2, FrontIs DEF Chained
    <3>4. Link(undo, db, n)
      BY <1>1, <1>6, <3>1 DEF Chained
    <3>5. undo[n].snapshot.head = Previous[c]
      BY <1>6, <3>1, <3>4 DEF Link, HeadAt
    <3>6. HeadAt(undo', undo[n].snapshot, 1) = HeadAt(undo, db, 1)
      BY <1>6, <3>1, <3>3 DEF HeadAt
    <3>7. Base' = Base
      BY <1>6, <3>1, <3>2, <3>3 DEF Base
    <3>8. KnownIn(H, undo[n].snapshot) /\ \A i \in 1 .. n - 1 : KnownIn(H, undo'[i].snapshot)
      BY <1>7, <3>1, <3>3
    <3> QED BY <3>2, <3>3, <3>5, <3>6, <3>7, <3>8
  <2> QED BY <2>1, <2>2
<1>9. StatesKnown(H)'
  BY <1>8 DEF StatesKnown
<1>10. FinalLog(H, log)'
  BY <1>0 DEF SInv
<1>11. RestartOK'
  BY <1>0, <1>8 DEF SInv, RestartOK, Running, InCall
<1>12. WriteOK'
  BY <1>0 DEF WriteOK
<1>13. /\ ForkOK(fork_db') /\ fork_db'.head = Previous[x] /\ Previous[x] \in Blocks
       /\ fork_db'.index = fork_db.index /\ fork_db'.linked = fork_db.linked
  BY <1>0, <1>4, ForkPop
<1>14. TreeOK'
  <2>1. Kept(fork_db, db'.head, Base)
    BY <1>3, <1>4, <1>5, <1>8, KeptBelow
  <2>2. Kept(fork_db', db'.head, Base') /\ Tied(fork_db', Base')
    BY <1>4, <1>8, <1>13, <2>1 DEF Kept, Tied
  <2> QED BY <1>0, <1>13, <2>2 DEF TreeOK
<1>15. F' = F
  BY <1>0 DEF ForkPoint
<1>16. Num[F] <= Num[db'.head] /\ F = AncestorAt(db'.head, Num[F])
  <2>1. Num[F] <= Num[c] /\ F = AncestorAt(c, Num[F])
    BY <1>2 DEF Unwinding
  <2>2. Num[Previous[c]] \in Nat /\ Num[c] = Num[Previous[c]] + 1
    BY <1>3, PreviousIs
  <2>3. Num[F] \in 0 .. Num[c] - 1 /\ Num[F] <= Num[Previous[c]]
    BY <1>3, <1>5, <2>2
  <2>4. F = AncestorAt(Previous[c], Num[F])
    BY <1>3, <2>1, <2>3, AncestorOfPrevious
  <2> QED BY <1>8, <2>1, <2>3, <2>4
<1>17. Num[Previous[x]] <= Num[F] \/ Previous[x] \in Elements(job.apply)
  <2>1. CASE Num[x] <= Num[F]
    <3>1. x \in Blocks
      BY <1>0, <1>4 DEF ForkOK
    <3> QED BY <1>3, <2>1, <3>1, PreviousIs
  <2>2. CASE x \in Elements(job.apply)
    <3>1. PICK i \in 1 .. Len(job.apply) : x = job.apply[i]
      BY <2>2 DEF Elements
    <3>2. CASE i = 1
      <4>1. Previous[x] = F
        BY <1>2, <3>1, <3>2 DEF Unwinding
      <4> QED BY <1>3, <4>1
    <3>3. CASE i # 1
      <4>1. i > 1 /\ i - 1 \in 1 .. Len(job.apply)
        BY <3>3 DEF IInv, JobOK
      <4>2. Previous[x] = job.apply[i - 1]
        BY <1>2, <3>1, <4>1 DEF BranchChain
      <4> QED BY <4>1, <4>2 DEF Elements
    <3> QED BY <3>2, <3>3
  <2> QED BY <1>2, <2>1, <2>2 DEF Unwinding
<1>18. Unwinding'
  BY <1>0, <1>2, <1>13, <1>15, <1>16, <1>17 DEF Unwinding
<1>19. SwitchOK'
  <2>1. fork_db'.head # None
    BY <1>13, ForkDatabaseAssumption
  <2>2. BranchChain(fork_db', job'.apply)
    BY <1>0, <1>2, <1>13 DEF BranchChain
  <2> QED BY <1>0, <1>2, <1>18, <2>1, <2>2 DEF SwitchOK
<1> QED BY <1>9, <1>10, <1>11, <1>12, <1>14, <1>19 DEF SInv

LEMMA PopFailsS ==
    ASSUME NEW H, IInv, SInv(H), PopFails
    PROVE  SInv(H)'
<1> DEFINE F == ForkPoint
           x == fork_db.head
           c == db.head
<1>0. /\ pc = "pop" /\ pc' = "requeue" /\ c # F /\ ~CanPopBlock
      /\ UNCHANGED <<db, undo, revision, fork_db, log, flushed, session>>
  BY DEF PopFails
<1>1. ~session
  BY <1>0 DEF IInv, HistoryOK, InCall
<1>2. /\ x # None /\ BranchChain(fork_db, job.apply) /\ Unwinding
  BY <1>0 DEF SInv, SwitchOK
<1>3. F \in Ids /\ Num[F] \in Nat /\ Num[F] < Num[c] /\ c \in Blocks
  BY <1>0, ForkPointIs DEF SInv
<1>4. ForkOK(fork_db) /\ Kept(fork_db, c, Base) /\ Tied(fork_db, Base)
  BY <1>0 DEF SInv, TreeOK, Running, InCall, Astray
<1>5. Base \in Nat /\ Num[c] \in Nat /\ Base <= Num[c] /\ c \in Ids
  BY <1>0, RunningIs DEF Running, InCall
<1>6. x \notin fork_db.linked
  <2>1. Num[c] \in Base .. Num[c] /\ Num[c] >= 1
    BY <1>3, <1>5
  <2>2. c \in fork_db.index
    BY <1>4, <1>5, <2>1, AncestorIs DEF Kept
  <2> QED BY <1>0, <1>2, <2>2 DEF CanPopBlock, CanPop
<1>7. Previous[x] # c
  <2>1. CASE Num[x] <= Num[F]
    <3>1. x \in Blocks
      BY <1>2, <1>4 DEF ForkOK
    <3>2. Num[x] = Num[Previous[x]] + 1 /\ Num[Previous[x]] \in Nat
      BY <3>1, PreviousIs
    <3> QED BY <1>3, <1>5, <2>1, <3>2
  <2>2. CASE x \in Elements(job.apply)
    <3>1. PICK i \in 1 .. Len(job.apply) : x = job.apply[i]
      BY <2>2 DEF Elements
    <3>2. i > 1 => x \in fork_db.linked
      BY <1>2, <3>1 DEF BranchChain
    <3>3. i = 1
      BY <1>6, <3>1, <3>2
    <3>4. Previous[x] = F
      BY <1>2, <3>1, <3>3 DEF Unwinding
    <3> QED BY <1>0, <3>4
  <2> QED BY <1>2, <2>1, <2>2 DEF Unwinding
<1>8. Base' = Base
  BY <1>0 DEF Base
<1>9. StatesKnown(H)' /\ FinalLog(H, log)'
  BY <1>0, <1>1 DEF SInv, StatesKnown
<1>10. RestartOK' /\ WriteOK' /\ SwitchOK'
  BY <1>0 DEF SInv, RestartOK, Running, InCall, WriteOK, SwitchOK
<1>11. TreeOK'
  BY <1>0, <1>4, <1>7, <1>8 DEF TreeOK
<1> QED BY <1>9, <1>10, <1>11 DEF SInv

LEMMA UnwoundS ==
    ASSUME NEW H, IInv, SInv(H), Unwound
    PROVE  SInv(H)'
<1>0. /\ pc = "pop" /\ pc' = "apply" /\ db.head = ForkPoint
      /\ UNCHANGED <<db, undo, revision, fork_db, log, flushed, session, job>>
  BY DEF Unwound
<1>1. /\ fork_db.head # None /\ BranchChain(fork_db, job.apply) /\ Unwinding
      /\ job.mode = "switch"
  BY <1>0 DEF SInv, SwitchOK, Unwinding
<1>2. ForkOK(fork_db) /\ Kept(fork_db, db.head, Base) /\ Tied(fork_db, Base)
  BY <1>0 DEF SInv, TreeOK, Running, InCall, Astray
<1>3. StatesKnown(H)' /\ FinalLog(H, log)'
  BY <1>0 DEF SInv, StatesKnown
<1>4. RestartOK' /\ WriteOK'
  BY <1>0 DEF SInv, RestartOK, Running, InCall, WriteOK
<1>5. TreeOK'
  <2>1. Base' = Base
    BY <1>0 DEF Base
  <2> QED BY <1>0, <1>2, <2>1 DEF TreeOK
<1>6. SwitchOK'
  <2>1. Applying'
    BY <1>0, <1>1 DEF Applying, Unwinding
  <2> QED BY <1>0, <1>1, <2>1 DEF SwitchOK
<1> QED BY <1>3, <1>4, <1>5, <1>6 DEF SInv

LEMMA KeptAbove ==
    ASSUME NEW f, NEW b \in Blocks, b \in f.index, NEW n \in Nat, Kept(f, Previous[b], n)
    PROVE  Kept(f, b, n)
<1>1. Num[b] \in Nat /\ Num[Previous[b]] \in Nat /\ Num[b] = Num[Previous[b]] + 1 /\ b \in Ids
  BY PreviousIs
<1> SUFFICES ASSUME NEW m \in n .. Num[b], m >= 1 PROVE AncestorAt(b, m) \in f.index
  BY DEF Kept
<1>2. CASE m = Num[b]
  BY <1>1, <1>2, AncestorIs
<1>3. CASE m # Num[b]
  <2>1. m \in n .. Num[Previous[b]] /\ m \in 0 .. Num[b] - 1
    BY <1>1, <1>3
  <2>2. AncestorAt(b, m) = AncestorAt(Previous[b], m)
    BY <2>1, AncestorOfPrevious
  <2> QED BY <2>1, <2>2 DEF Kept
<1> QED BY <1>2, <1>3

\* The committed block is in the log.
LEMMA BaseLogged ==
    ASSUME IInv, RestartOK, pc \in Running
    PROVE  Len(log) \in Nat /\ Base <= Len(log)
<1>1. HeadAt(undo, db, 1) \in Ids /\ Num[HeadAt(undo, db, 1)] = Base /\ Base \in Nat
  BY RunningIs
<1>2. Len(log) \in Nat /\ flushed \in 0 .. Len(log)
  BY DEF IInv, LogOK
<1>3. Stored(log, flushed, HeadAt(undo, db, 1))
  BY DEF RestartOK
<1>4. HeadAt(undo, db, 1) = Genesis => Base = 0
  BY <1>1, GenesisNum
<1> QED BY <1>1, <1>2, <1>3, <1>4 DEF Stored

\* On a settled tree the next block always applies, and the blocks that become
\* irreversible with it are found on its own chain.
LEMMA ApplyIs ==
    ASSUME NEW H, SettledTree(H), IInv, SInv(H), pc = "apply"
    PROVE  LET b == NextBlock
               f == ForkDbAtApply
               s == AfterBlock(db, b)
           IN  /\ CanApply
               /\ b = job.apply[1] /\ b \in Blocks /\ Previous[b] = db.head
               /\ StateOK(s) /\ s.head = b /\ KnownIn(H, s)
               /\ ForkOK(f) /\ f.head = b
               /\ f.index = fork_db.index /\ f.linked = fork_db.linked
               /\ Kept(f, b, Base) /\ Tied(f, Base)
               /\ \A i \in 1 .. s.lib - Len(log) : ToWrite(f, s)[i] = AncestorAt(b, Len(log) + i)
<1> DEFINE b == NextBlock
           f == ForkDbAtApply
           s == AfterBlock(db, b)
<1>1. /\ fork_db.head # None /\ BranchChain(fork_db, job.apply) /\ Applying
      /\ job.mode \in {"straight", "switch"}
  BY DEF SInv, SwitchOK
<1>2. job.apply \in Seq(Blocks) /\ job.apply # <<>>
  BY DEF IInv, JobOK
<1>3. b = job.apply[1] /\ b \in Blocks /\ 1 \in 1 .. Len(job.apply)
  BY <1>2 DEF NextBlock
<1>4. Previous[b] = db.head /\ b \in fork_db.index /\ (job.mode = "straight" => fork_db.head = b)
  BY <1>1, <1>3 DEF Applying, BranchChain
<1>5. ForkOK(fork_db) /\ Kept(fork_db, db.head, Base) /\ Tied(fork_db, Base)
  BY DEF SInv, TreeOK, Running, InCall, Astray
<1>6. StateOK(db) /\ Base \in Nat
  BY RunningIs DEF Running, InCall
<1>7. KnownIn(H, db)
  BY DEF SInv, StatesKnown, IInv, HistoryOK, InCall
<1> HIDE DEF b
<1>8. BlockApplies(db, b) /\ KnownIn(H, s) /\ StateOK(s) /\ s.head = b
  BY <1>3, <1>4, <1>6, <1>7, KnownAfter, AfterBlockType
<1>9. /\ ForkOK(f) /\ f.head = b
      /\ f.index = fork_db.index /\ f.linked = fork_db.linked
  <2>1. CASE job.mode = "straight"
    <3>1. f = fork_db
      BY <2>1 DEF ForkDbAtApply
    <3> QED BY <1>4, <1>5, <2>1, <3>1
  <2>2. CASE job.mode = "switch"
    <3>1. f = SetHead(fork_db, b)
      BY <2>2 DEF ForkDbAtApply, b
    <3> QED BY <1>3, <1>5, <3>1, ForkHead
  <2> QED BY <1>1, <2>1, <2>2
<1> HIDE DEF f, s
<1>10. Kept(f, b, Base) /\ Tied(f, Base)
  <2>1. Kept(fork_db, b, Base)
    BY <1>3, <1>4, <1>5, <1>6, KeptAbove
  <2> QED BY <1>5, <1>9, <2>1 DEF Kept, Tied
<1>11. Len(log) \in Nat /\ Base <= Len(log)
  BY BaseLogged DEF SInv, Running, InCall
<1>12. b \in Ids /\ Num[b] \in Nat /\ s.lib \in Nat /\ s.lib <= Num[b]
  BY <1>3, <1>8, PreviousIs DEF KnownIn, InRange, StateOK
<1>13. ASSUME NEW i \in 1 .. s.lib - Len(log)
       PROVE  /\ ToWrite(f, s)[i] = AncestorAt(b, Len(log) + i)
              /\ ToWrite(f, s)[i] \in Blocks
  <2>1. PICK n \in Nat : n = Len(log) + i
    BY <1>11
  <2>2. n \in 1 .. Num[b] /\ n > Base /\ n \in Base .. Num[b] /\ n \in 1 .. Num[f.head]
    BY <1>6, <1>9, <1>11, <1>12, <2>1
  <2>3. AncestorAt(f.head, n) \in f.index
    BY <1>9, <1>10, <2>2 DEF Kept
  <2>4. ASSUME NEW m \in n + 1 .. Num[f.head] PROVE AncestorAt(f.head, m) \in f.linked
    <3>1. m \in Base .. Num[b] /\ m >= 1 /\ m > Base /\ m > 1 /\ m \in 0 .. Num[b]
      BY <1>6, <1>9, <1>12, <2>2
    <3>2. AncestorAt(b, m) \in f.index /\ Num[AncestorAt(b, m)] = m
      BY <1>10, <1>12, <3>1, AncestorIs DEF Kept
    <3> QED BY <1>9, <1>10, <3>1, <3>2 DEF Tied
  <2>5. MainBranchAt(f, n) = AncestorAt(f.head, n)
    <3>1. IsFiniteSet(f.index) /\ f.head \in Blocks
      BY <1>3, <1>9 DEF ForkOK
    <3> QED BY <2>2, <2>3, <2>4, <3>1, MainBranchIs
  <2>6. ToWrite(f, s)[i] = MainBranchAt(f, n)
    BY <2>1 DEF ToWrite
  <2>7. AncestorAt(b, n) \in Blocks
    BY <1>12, <2>2, AncestorIs
  <2> QED BY <1>9, <2>1, <2>5, <2>6, <2>7
<1>14. CanApply
  <2>1. CanMigrate(f, s)
    BY <1>8, <1>9, <1>13 DEF CanMigrate
  <2> QED BY <1>8, <2>1 DEF CanApply, f, s, b
<1> QED BY <1>3, <1>4, <1>8, <1>9, <1>10, <1>13, <1>14 DEF f, s, b

\* No block is refused.
LEMMA NothingFails ==
    ASSUME NEW H, SettledTree(H), IInv, SInv(H), ApplyFails \/ BranchFails
    PROVE  FALSE
<1>1. pc = "apply" /\ ~CanApply
  BY DEF ApplyFails, BranchFails
<1> QED BY <1>1, ApplyIs

\* start_undo_session() saves a known state and leaves the committed block alone.
LEMMA StartedIs ==
    ASSUME NEW H, IsASeq(undo), revision \in Int, KnownIn(H, db),
           \A i \in 1 .. Len(undo) : KnownIn(H, undo[i].snapshot),
           undo' = Started, revision' = revision + 1
    PROVE  /\ undo' # <<>>
           /\ \A i \in 1 .. Len(undo') : KnownIn(H, undo'[i].snapshot)
           /\ Base' = Base
           /\ HeadAt(undo', db', 1) = HeadAt(undo, db, 1)
<1>1. PICK n \in Nat : n = Len(undo)
  BY LenIsNat
<1> DEFINE x == [snapshot |-> db, revision |-> revision + 1]
<1>2. x.snapshot = db /\ undo' = Append(undo, x)
  BY DEF Started
<1> HIDE DEF x
<1>3. Len(undo') = n + 1 /\ undo'[n + 1] = x /\ \A i \in 1 .. n : undo'[i] = undo[i]
  BY <1>1, <1>2, AppendIs
<1>4. \A i \in 1 .. n + 1 : KnownIn(H, undo'[i].snapshot)
  <2>1. \A i \in 1 .. n + 1 : i = n + 1 \/ i \in 1 .. n
    OBVIOUS
  <2> QED BY <1>1, <1>2, <1>3, <2>1
<1>5. Base' = Base
  BY <1>1, <1>3 DEF Base
<1>6. HeadAt(undo', db', 1) = HeadAt(undo, db, 1)
  <2>1. CASE n = 0
    BY <1>1, <1>2, <1>3, <2>1 DEF HeadAt
  <2>2. CASE n >= 1
    BY <1>1, <1>3, <2>2 DEF HeadAt
  <2> QED BY <2>1, <2>2
<1>7. undo' # <<>>
  <2>1. n + 1 # 0 /\ Len(<<>>) = 0
    OBVIOUS
  <2> QED BY <1>3, <2>1
<1> QED BY <1>3, <1>4, <1>5, <1>6, <1>7

LEMMA ApplyS ==
    ASSUME NEW H, SettledTree(H), IInv, SInv(H), Apply
    PROVE  SInv(H)'
<1> DEFINE b == NextBlock
           f == ForkDbAtApply
           s == AfterBlock(db, b)
<1>0. /\ pc = "apply" /\ pc' = "migrate"
      /\ undo' = Started
      /\ revision' = revision + 1
      /\ db' = s /\ fork_db' = f
      /\ job' = [job EXCEPT !.write = ToWrite(f, s)]
      /\ UNCHANGED <<log, flushed, session>>
  BY DEF Apply
<1>1. /\ b = job.apply[1] /\ b \in Blocks /\ Previous[b] = db.head
      /\ StateOK(s) /\ s.head = b /\ KnownIn(H, s)
      /\ ForkOK(f) /\ f.head = b
      /\ f.index = fork_db.index /\ f.linked = fork_db.linked
      /\ Kept(f, b, Base) /\ Tied(f, Base)
      /\ \A i \in 1 .. s.lib - Len(log) : ToWrite(f, s)[i] = AncestorAt(b, Len(log) + i)
  BY <1>0, ApplyIs
<1>2. /\ BranchChain(fork_db, job.apply)
      /\ job.mode \in {"straight", "switch"}
      /\ job.mode = "straight" => Len(job.apply) = 1
  BY <1>0 DEF SInv, SwitchOK
<1>3. /\ job'.apply = job.apply /\ job'.mode = job.mode
      /\ job'.write = ToWrite(f, s)
  BY <1>0 DEF IInv, JobOK, NoJob
<1>4. ~session /\ IsASeq(undo) /\ revision \in Int
  BY <1>0 DEF IInv, HistoryOK, InCall, Chained
<1>5. KnownIn(H, db) /\ \A i \in 1 .. Len(undo) : KnownIn(H, undo[i].snapshot)
  BY <1>0, <1>4 DEF SInv, StatesKnown
<1> HIDE DEF b, f, s
<1>6. /\ \A i \in 1 .. Len(undo') : KnownIn(H, undo'[i].snapshot)
      /\ Base' = Base
      /\ HeadAt(undo', db', 1) = HeadAt(undo, db, 1)
  BY <1>0, <1>4, <1>5, StartedIs
<1>7. StatesKnown(H)'
  BY <1>0, <1>1, <1>6 DEF StatesKnown
<1>8. FinalLog(H, log)'
  BY <1>0 DEF SInv
<1>9. RestartOK'
  BY <1>0, <1>6 DEF SInv, RestartOK, Running, InCall
<1>10. TreeOK'
  BY <1>0, <1>1, <1>6 DEF TreeOK
<1>11. SwitchOK'
  <2>1. BranchChain(fork_db', job'.apply)
    BY <1>0, <1>1, <1>2, <1>3 DEF BranchChain
  <2>2. fork_db'.head # None
    BY <1>0, <1>1, ForkDatabaseAssumption
  <2> QED BY <1>0, <1>1, <1>2, <1>3, <2>1, <2>2 DEF SwitchOK
<1>12. WriteOK'
  <2>1. Len(log) \in Nat /\ s.lib \in Nat
    BY <1>1 DEF IInv, LogOK, StateOK
  <2>2. PICK k \in Nat : k = Larger(0, s.lib - Len(log)) /\ 1 .. k = 1 .. s.lib - Len(log)
    <3>1. CASE s.lib - Len(log) < 0
      <4>1. 1 .. s.lib - Len(log) = {} /\ 1 .. 0 = {} /\ Larger(0, s.lib - Len(log)) = 0
        BY <2>1, <3>1 DEF Larger
      <4> QED BY <4>1
    <3>2. CASE s.lib - Len(log) >= 0
      BY <2>1, <3>2 DEF Larger
    <3> QED BY <2>1, <3>1, <3>2
  <2>3. ToWrite(f, s) = [i \in 1 .. k |-> MainBranchAt(f, Len(log) + i)]
    BY <2>2 DEF ToWrite
  <2>4. Len(ToWrite(f, s)) = k
    BY <2>3
  <2> QED BY <1>0, <1>1, <1>3, <2>2, <2>4 DEF WriteOK
<1> QED BY <1>7, <1>8, <1>9, <1>10, <1>11, <1>12 DEF SInv

LEMMA LenPositive ==
    ASSUME NEW S, NEW q \in Seq(S), q # <<>>
    PROVE  Len(q) \in Nat /\ Len(q) >= 1
OBVIOUS

LEMMA AppendS ==
    ASSUME NEW H, SettledTree(H), IInv, SInv(H), AppendToLog
    PROVE  SInv(H)'
<1> DEFINE q == job.write
           a == AncestorAt(db.head, Len(log) + 1)
<1>0. /\ pc = "migrate" /\ pc' = "migrate" /\ q # <<>>
      /\ log' = Append(log, Head(q))
      /\ job' = [job EXCEPT !.write = Tail(@)]
      /\ UNCHANGED <<db, undo, revision, fork_db, flushed, session>>
  BY DEF AppendToLog
<1>1. q \in Seq(Blocks) /\ log \in Seq(Blocks) /\ flushed \in 0 .. Len(log)
  BY DEF IInv, JobOK, LogOK
<1>2. PICK m \in Nat : m = Len(log)
  BY <1>1
<1>3. PICK k \in Nat : k = Len(q) /\ k >= 1
  BY <1>0, <1>1, LenPositive
<1>4. k = Larger(0, db.lib - m) /\ \A i \in 1 .. k : q[i] = AncestorAt(db.head, m + i)
  BY <1>0, <1>2, <1>3 DEF SInv, WriteOK
<1>5. ~session /\ StateOK(db) /\ db.lib \in Nat
  BY <1>0 DEF IInv, HistoryOK, InCall, Chained, StateOK
<1>6. m + k = db.lib /\ m + 1 <= db.lib
  BY <1>2, <1>3, <1>4, <1>5 DEF Larger
<1>7. Head(q) = a /\ a \in Blocks
  <2>1. Head(q) = q[1] /\ q[1] \in Blocks /\ 1 \in 1 .. k
    BY <1>0, <1>1, <1>3
  <2> QED BY <1>2, <1>4, <2>1
<1>8. KnownIn(H, db)
  BY <1>0, <1>5 DEF SInv, StatesKnown
<1>9. FinalLog(H, log)'
  BY <1>0, <1>1, <1>2, <1>5, <1>6, <1>7, <1>8, FinalAppend DEF SInv
<1> HIDE DEF a, q
<1>10. Len(log') = m + 1 /\ \A i \in 1 .. m : log'[i] = log[i]
  BY <1>0, <1>1, <1>2, <1>7
<1>11. StatesKnown(H)'
  BY <1>0 DEF SInv, StatesKnown
<1>12. RestartOK'
  <2> DEFINE x == HeadAt(undo, db, 1)
  <2>1. x \in Ids /\ Num[x] \in Nat /\ (x # Genesis => Num[x] # 0)
    BY <1>0, RunningIs, GenesisNum DEF Running, InCall
  <2>2. Stored(log, flushed, x)
    BY DEF SInv, RestartOK
  <2>3. x # Genesis => Num[x] \in 1 .. m
    BY <1>1, <1>2, <2>1, <2>2 DEF Stored
  <2>4. Stored(log', flushed, x)
    BY <1>10, <2>2, <2>3 DEF Stored
  <2> QED BY <1>0, <2>4 DEF RestartOK, Running, InCall
<1>13. TreeOK'
  <2>1. Base' = Base
    BY <1>0 DEF Base
  <2> QED BY <1>0, <2>1 DEF SInv, TreeOK, Running, InCall, Astray
<1>14. job'.write = Tail(q) /\ job'.apply = job.apply /\ job'.mode = job.mode
  BY <1>0 DEF IInv, JobOK, NoJob, q
<1>15. SwitchOK'
  BY <1>0, <1>14 DEF SInv, SwitchOK
<1>16. WriteOK'
  <2>1. Len(Tail(q)) = k - 1 /\ \A i \in 1 .. k - 1 : Tail(q)[i] = q[i + 1]
    BY <1>0, <1>1, <1>3
  <2>2. k - 1 = Larger(0, db.lib - (m + 1))
    BY <1>3, <1>5, <1>6 DEF Larger
  <2>3. ASSUME NEW i \in 1 .. k - 1 PROVE Tail(q)[i] = AncestorAt(db.head, (m + 1) + i)
    <3>1. i + 1 \in 1 .. k /\ m + (i + 1) = (m + 1) + i
      BY <1>3
    <3> QED BY <1>4, <2>1, <3>1
  <2> QED BY <1>0, <1>10, <1>14, <2>1, <2>2, <2>3 DEF WriteOK
<1> QED BY <1>9, <1>11, <1>12, <1>13, <1>15, <1>16 DEF SInv

\* The numbers go up along a branch.
LEMMA BranchNums ==
    ASSUME NEW f, NEW q \in Seq(Blocks), BranchChain(f, q), NEW i \in 1 .. Len(q), i > 1
    PROVE  Num[q[i]] > Num[q[1]]
<1> DEFINE Bad == {j \in 1 .. Len(q) : j > 1 /\ ~(Num[q[j]] > Num[q[1]])}
<1> SUFFICES ASSUME Bad # {} PROVE FALSE
  OBVIOUS
<1>1. Bad \in SUBSET Nat
  OBVIOUS
<1>2. PICK j \in Bad : \A k \in Bad : j <= k
  BY <1>1, LeastExists
<1>3. j \in 1 .. Len(q) /\ j > 1 /\ ~(Num[q[j]] > Num[q[1]])
  OBVIOUS
<1>4. j - 1 \in 1 .. Len(q) /\ ~(j <= j - 1) /\ q[j] \in Blocks /\ q[1] \in Blocks
  BY <1>3
<1>5. Previous[q[j]] = q[j - 1]
  BY <1>3 DEF BranchChain
<1>6. Num[q[j]] = Num[q[j - 1]] + 1 /\ Num[q[j - 1]] \in Nat /\ Num[q[1]] \in Nat
  BY <1>4, <1>5, PreviousIs
<1>7. CASE j - 1 = 1
  BY <1>3, <1>6, <1>7
<1>8. CASE j - 1 # 1
  <2>1. j - 1 > 1
    BY <1>4, <1>8
  <2>2. Num[q[j - 1]] > Num[q[1]]
    BY <1>2, <1>4, <2>1
  <2> QED BY <1>3, <1>6, <2>2
<1> QED BY <1>7, <1>8

\* commit(lib) cuts the history at the last irreversible block, or, when that was
\* committed before, nowhere.
LEMMA CommitIs ==
    ASSUME NEW r \in Nat, Chained(undo, db, revision, FALSE), r <= Num[db.head], CommitTo(r),
           revision' = revision, db' = db
    PROVE  /\ Len(undo') \in Nat
           /\ Base' \in Nat /\ r <= Base' /\ Base <= Base'
           /\ HeadAt(undo', db', 1) = AncestorAt(db.head, Base')
           /\ Base' = Base \/ Base' = r
           /\ HeadAt(undo, db, 1) = AncestorAt(db.head, Base)
           /\ \A i \in 1 .. Len(undo') : \E j \in 1 .. Len(undo) : undo'[i] = undo[j]
           /\ undo' = <<>> \/ undo # <<>>
<1>1. PICK n \in Nat : n = Len(undo)
  BY LenIsNat DEF Chained
<1>2. PICK k \in 0 .. n : /\ \A i \in 1 .. k : undo[i].revision <= r
                          /\ k < n => undo[k + 1].revision > r
                          /\ undo' = SubSeq(undo, k + 1, n)
  BY <1>1 DEF CommitTo
<1>3. /\ revision = Num[db.head] /\ revision \in Int
      /\ \A i \in 1 .. n : undo[i].revision = revision - n + i
  BY <1>1 DEF Chained
<1>4. \A i \in 1 .. n + 1 : /\ HeadAt(undo, db, i) = AncestorAt(db.head, revision - n + i - 1)
                            /\ revision - n + i - 1 \in 0 .. Num[db.head]
  <2>1. AncestorHeads(undo, db, revision, n)
    BY <1>1, ChainedAncestors
  <2> QED BY <2>1 DEF AncestorHeads
<1>5. Len(undo') = n - k /\ \A i \in 1 .. n - k : undo'[i] = undo[i + k]
  BY <1>1, <1>2, SuffixIs DEF Chained
<1>6. Base = revision - n /\ Base' = Base + k
  <2>1. Base = revision - n /\ Base' = revision - (n - k)
    BY <1>1, <1>5 DEF Base
  <2> QED BY <1>3, <2>1
<1>7. Base \in Nat
  <2>1. revision - n + 1 - 1 \in 0 .. Num[db.head] /\ revision - n + 1 - 1 = Base
    BY <1>3, <1>4, <1>6
  <2> QED BY <1>3, <2>1
<1>8. Base + k >= r
  <2>1. CASE k = n
    BY <1>3, <1>6, <2>1
  <2>2. CASE k < n
    <3>1. undo[k + 1].revision = revision - n + (k + 1) /\ undo[k + 1].revision > r
      BY <1>2, <1>3, <2>2
    <3> QED BY <1>3, <1>6, <1>7, <3>1
  <2> QED BY <2>1, <2>2
<1>9. k = 0 \/ Base + k = r
  <2> SUFFICES ASSUME k # 0 PROVE Base + k <= r
    BY <1>7, <1>8
  <2>1. k \in 1 .. k /\ k \in 1 .. n
    OBVIOUS
  <2>2. undo[k].revision = revision - n + k /\ undo[k].revision <= r
    BY <1>2, <1>3, <2>1
  <2> QED BY <1>3, <1>6, <2>2
<1>10. HeadAt(undo', db', 1) = HeadAt(undo, db, k + 1)
  <2>1. CASE k = n
    BY <1>1, <1>5, <2>1 DEF HeadAt
  <2>2. CASE k < n
    <3>1. 1 \in 1 .. n - k /\ ~(1 > n - k) /\ ~(k + 1 > n)
      BY <2>2
    <3> QED BY <1>1, <1>5, <3>1 DEF HeadAt
  <2> QED BY <2>1, <2>2
<1>11. HeadAt(undo, db, k + 1) = AncestorAt(db.head, Base + k) /\ HeadAt(undo, db, 1) = AncestorAt(db.head, Base)
  <2>1. /\ k + 1 \in 1 .. n + 1 /\ revision - n + (k + 1) - 1 = Base + k
        /\ 1 \in 1 .. n + 1 /\ revision - n + 1 - 1 = Base
    BY <1>3, <1>6
  <2> QED BY <1>4, <2>1
<1>12. \A i \in 1 .. n - k : i + k \in 1 .. n
  OBVIOUS
<1>13. undo' = <<>> \/ undo # <<>>
  <2> SUFFICES ASSUME undo = <<>> PROVE undo' = <<>>
    OBVIOUS
  <2>1. n = 0 /\ k = 0
    BY <1>1
  <2> QED BY <1>2, <2>1
<1>14. Base + k \in Nat /\ Base <= Base + k /\ n - k \in Nat
  BY <1>7
<1> QED BY <1>1, <1>5, <1>6, <1>7, <1>8, <1>9, <1>10, <1>11, <1>12, <1>13, <1>14

LEMMA CommitS ==
    ASSUME NEW H, SettledTree(H), IInv, SInv(H), CommitBlock
    PROVE  SInv(H)'
<1> DEFINE lib == db.lib
           c   == db.head
<1>0. /\ pc = "migrate" /\ pc' = (IF Len(job.apply) = 1 THEN "requeue" ELSE "apply")
      /\ job.write = <<>> /\ flushed' = Len(log)
      /\ fork_db' = SetMaxSize(fork_db, Num[c] - lib + 1)
      /\ CommitTo(lib)
      /\ job' = [job EXCEPT !.apply = Tail(@)]
      /\ UNCHANGED <<db, revision, log, session>>
  BY DEF CommitBlock, HeadNum
<1>1. ~session /\ Chained(undo, db, revision, FALSE) /\ StateOK(db) /\ lib \in Nat
  BY <1>0 DEF IInv, HistoryOK, InCall, Chained, StateOK
<1>2. KnownIn(H, db) /\ \A i \in 1 .. Len(undo) : KnownIn(H, undo[i].snapshot)
  BY <1>0, <1>1 DEF SInv, StatesKnown
<1>3. lib <= Num[c] /\ c \in Ids /\ Num[c] \in Nat /\ Base \in Nat
  BY <1>0, <1>2, RunningIs DEF KnownIn, InRange, Running, InCall
<1>4. Len(log) \in Nat /\ lib <= Len(log) /\ flushed <= Len(log)
  <2>1. Len(log) \in Nat /\ flushed <= Len(log)
    BY DEF IInv, LogOK
  <2>2. 0 = Larger(0, lib - Len(log))
    BY <1>0 DEF SInv, WriteOK
  <2> QED BY <1>1, <2>1, <2>2 DEF Larger
<1>5. /\ fork_db.head = c /\ job.apply[1] = c
      /\ fork_db.head # None
      /\ BranchChain(fork_db, job.apply)
      /\ job.mode \in {"straight", "switch"}
      /\ job.mode = "straight" => Len(job.apply) = 1
  BY <1>0 DEF SInv, SwitchOK
<1>6. ForkOK(fork_db) /\ Kept(fork_db, c, Base) /\ Tied(fork_db, Base) /\ c \in Blocks
  BY <1>0, <1>5 DEF SInv, TreeOK, Running, InCall, Astray, ForkOK
<1>7. /\ Len(undo') \in Nat
      /\ Base' \in Nat /\ lib <= Base' /\ Base <= Base'
      /\ HeadAt(undo', db', 1) = AncestorAt(c, Base')
      /\ Base' = Base \/ Base' = lib
      /\ HeadAt(undo, db, 1) = AncestorAt(c, Base)
      /\ \A i \in 1 .. Len(undo') : \E j \in 1 .. Len(undo) : undo'[i] = undo[j]
  BY <1>0, <1>1, <1>3, CommitIs
<1>8. StatesKnown(H)'
  <2>1. \A i \in 1 .. Len(undo') : KnownIn(H, undo'[i].snapshot)
    BY <1>2, <1>7
  <2> QED BY <1>0, <1>2, <2>1 DEF StatesKnown
<1>9. FinalLog(H, log)'
  BY <1>0 DEF SInv
<1>10. Stored(log, Len(log), HeadAt(undo', db', 1))
  <2>1. CASE Base' = Base
    <3>1. Stored(log, flushed, HeadAt(undo, db, 1)) /\ Num[HeadAt(undo, db, 1)] \in Nat
      BY <1>0, RunningIs DEF SInv, RestartOK, Running, InCall
    <3>2. HeadAt(undo', db', 1) = HeadAt(undo, db, 1)
      BY <1>7, <2>1
    <3>3. flushed \in Nat
      BY DEF IInv, LogOK
    <3> QED BY <1>4, <3>1, <3>2, <3>3 DEF Stored
  <2>2. CASE Base' = lib
    <3> DEFINE x == AncestorAt(c, lib)
    <3>1. lib \in 0 .. Num[c]
      BY <1>1, <1>3
    <3>2. x \in Ids /\ Num[x] = lib
      BY <1>3, <3>1, AncestorIs
    <3>3. ASSUME x # Genesis PROVE log[lib] = x
      <4>1. lib # 0
        BY <3>2, <3>3, GenesisNum
      <4>2. lib \in 1 .. Len(log) /\ lib <= db.lib
        BY <1>1, <1>4, <4>1
      <4> QED BY <1>2, <4>2, FinalKnown DEF SInv
    <3> QED BY <1>4, <1>7, <2>2, <3>2, <3>3 DEF Stored
  <2> QED BY <1>7, <2>1, <2>2
<1>11. RestartOK'
  BY <1>0, <1>10 DEF RestartOK, Running, InCall
<1>12. WriteOK'
  BY <1>0 DEF WriteOK
<1>13. /\ ForkOK(fork_db') /\ fork_db'.head = c
       /\ \A y \in fork_db.index : Num[y] >= lib => y \in fork_db'.index
       /\ \A y \in fork_db.index : Num[y] > lib /\ y \in fork_db.linked => y \in fork_db'.linked
  BY <1>0, <1>1, <1>3, <1>5, <1>6, ForkTrim
<1>14. Kept(fork_db', c, Base') /\ Tied(fork_db', Base')
  BY <1>0, <1>1, <1>3, <1>5, <1>6, <1>7, TrimKept
<1>15. TreeOK'
  <2>1. Previous[c] # c
    BY <1>6, PreviousIs
  <2> QED BY <1>0, <1>13, <1>14, <2>1 DEF TreeOK
<1>16. SwitchOK'
  <2> SUFFICES ASSUME pc' = "apply" PROVE SwitchOK'
    BY <1>0 DEF SwitchOK
  <2> DEFINE q == job.apply
  <2>1. q \in Seq(Blocks) /\ q # <<>> /\ Len(q) # 1
    BY <1>0 DEF IInv, JobOK
  <2>2. PICK n \in Nat : n = Len(q) /\ n >= 2
    <3>1. PICK n \in Nat : n = Len(q) /\ n >= 1
      BY <2>1, LenPositive
    <3>2. n # 1
      BY <2>1, <3>1
    <3>3. n >= 1
      BY <3>1
    <3>4. n >= 2
      BY <3>2, <3>3
    <3> QED BY <3>1, <3>4
  <2>3. Len(Tail(q)) = n - 1 /\ \A i \in 1 .. n - 1 : Tail(q)[i] = q[i + 1]
    BY <2>1, <2>2
  <2>4. job'.apply = Tail(q) /\ job'.mode = "switch"
    BY <1>0, <1>5, <2>1 DEF IInv, JobOK, NoJob
  <2> HIDE DEF q
  <2>5. ASSUME NEW i \in 1 .. n - 1
        PROVE  /\ Tail(q)[i] \in fork_db'.index
               /\ i > 1 => Previous[Tail(q)[i]] = Tail(q)[i - 1] /\ Tail(q)[i] \in fork_db'.linked
    <3>1. /\ i + 1 \in 1 .. n /\ i + 1 > 1 /\ (i + 1) - 1 = i
          /\ (i > 1 => i - 1 \in 1 .. n - 1 /\ (i - 1) + 1 = i)
      BY <2>2
    <3>2. /\ q[i + 1] \in fork_db.index /\ Previous[q[i + 1]] = q[i] /\ q[i + 1] \in fork_db.linked
      BY <1>5, <2>2, <3>1 DEF BranchChain, q
    <3>3. Num[q[i + 1]] > Num[c]
      BY <1>5, <2>1, <2>2, <3>1, BranchNums DEF q
    <3>4. Num[q[i + 1]] \in Nat
      BY <2>1, <2>2, <3>1, PreviousIs
    <3>5. Num[q[i + 1]] > lib /\ Num[q[i + 1]] >= lib
      BY <1>1, <1>3, <3>3, <3>4
    <3> QED BY <1>13, <2>3, <3>1, <3>2, <3>5
  <2>6. BranchChain(fork_db', job'.apply)
    BY <2>3, <2>4, <2>5 DEF BranchChain
  <2>7. Applying'
    <3>1. 1 \in 1 .. n - 1 /\ 2 \in 1 .. Len(q) /\ 2 > 1 /\ 2 - 1 = 1 /\ 1 + 1 = 2
      BY <2>2
    <3>2. Previous[q[2]] = q[1]
      BY <1>5, <3>1 DEF BranchChain, q
    <3>3. Tail(q)[1] = q[2]
      BY <2>3, <3>1
    <3> QED BY <1>0, <1>5, <2>4, <3>2, <3>3 DEF Applying, q
  <2> QED BY <1>5, <1>13, <2>4, <2>6, <2>7 DEF SwitchOK
<1> QED BY <1>8, <1>9, <1>11, <1>12, <1>15, <1>16 DEF SInv

LEMMA RequeueS ==
    ASSUME NEW H, IInv, QInv, SInv(H), Requeue
    PROVE  SInv(H)'
<1> DEFINE again == popped \o job.saved
           kept  == Accepted(again, db.head, db.trxs)
<1>0. /\ pc = "requeue" /\ pc' = "idle" /\ ~session /\ session' \in BOOLEAN
      /\ Chained(undo, db, revision, FALSE)
      /\ UNCHANGED <<fork_db, log, flushed>>
  BY DEF Requeue, IInv, HistoryOK, InCall
<1>1. /\ session' = ({i \in 1 .. Len(again) : again[i] \notin Known} # {})
      /\ session' => undo' = Started /\ revision' = revision + 1
      /\ ~session' => undo' = undo /\ revision' = revision
      /\ db' = [db EXCEPT !.trxs = @ \cup Elements(kept)]
  BY DEF Requeue
<1>2. IsASeq(undo) /\ revision \in Int /\ StateOK(db) /\ IsASeq(popped) /\ IsASeq(job.saved)
  BY <1>0 DEF QInv, QueueOK, Chained
<1>3. KnownIn(H, db) /\ \A i \in 1 .. Len(undo) : KnownIn(H, undo[i].snapshot)
  BY <1>0 DEF SInv, StatesKnown
<1>4. IsASeq(again)
  BY <1>2, ConcatElements
<1> HIDE DEF again
<1>5. Elements(kept) \subseteq Elements(again) \ db.trxs
  BY <1>4, AcceptedKeeps
<1> HIDE DEF kept
<1>6. db'.head = db.head
  BY <1>1, <1>2 DEF StateOK
<1>7. /\ StatesKnown(H)'
      /\ Base' = Base
      /\ HeadAt(undo', db', 1) = HeadAt(undo, db, 1)
  <2>1. CASE session'
    <3>1. /\ undo' # <<>>
          /\ \A i \in 1 .. Len(undo') : KnownIn(H, undo'[i].snapshot)
          /\ Base' = Base
          /\ HeadAt(undo', db', 1) = HeadAt(undo, db, 1)
      BY <1>1, <1>2, <1>3, <2>1, StartedIs
    <3> QED BY <2>1, <3>1 DEF StatesKnown
  <2>2. CASE ~session'
    <3>1. \A i \in 1 .. Len(again) : again[i] \in db.trxs
      BY <1>1, <2>2 DEF Known
    <3>2. Elements(again) \subseteq db.trxs
      BY <3>1 DEF Elements
    <3>3. db.trxs \cup Elements(kept) \subseteq db.trxs
      BY <1>5, <3>2
    <3>4. KnownIn(H, db')
      BY <1>1, <1>2, <1>3, <3>3, KnownFewer
    <3>5. HeadAt(undo', db', 1) = HeadAt(undo, db, 1)
      BY <1>1, <1>6, <2>2 DEF HeadAt
    <3> QED BY <1>1, <1>3, <2>2, <3>4, <3>5 DEF StatesKnown, Base
  <2> QED BY <1>0, <2>1, <2>2
<1>8. FinalLog(H, log)' /\ RestartOK'
  BY <1>0, <1>7 DEF SInv, RestartOK, Running, InCall
<1>9. WriteOK' /\ SwitchOK'
  BY <1>0 DEF WriteOK, SwitchOK
<1>10. TreeOK'
  <2>1. Astray => Astray'
    BY <1>0, <1>6 DEF Astray
  <2> QED BY <1>0, <1>6, <1>7, <2>1 DEF SInv, TreeOK, Running, InCall
<1> QED BY <1>7, <1>8, <1>9, <1>10 DEF SInv

LEMMA TransactionS ==
    ASSUME NEW H, IInv, SInv(H), NEW t, PushTransaction(t)
    PROVE  SInv(H)'
<1>0. /\ pc = "idle" /\ pc' = "idle" /\ session' = TRUE /\ session \in BOOLEAN
      /\ Chained(undo, db, revision, session)
      /\ UNCHANGED <<fork_db, log, flushed>>
  BY DEF PushTransaction, IInv, HistoryOK
<1>1. /\ session => undo' = undo /\ revision' = revision
      /\ ~session => undo' = Started /\ revision' = revision + 1
      /\ db' = db \/ (\E T : db' = [db EXCEPT !.trxs = T])
  BY DEF PushTransaction
<1>2. IsASeq(undo) /\ revision \in Int /\ StateOK(db) /\ (session => Len(undo) >= 1)
  BY <1>0 DEF Chained
<1>3. db'.head = db.head
  BY <1>1, <1>2 DEF StateOK
<1>4. \A i \in 1 .. Len(undo) : KnownIn(H, undo[i].snapshot)
  BY DEF SInv, StatesKnown
<1>5. /\ StatesKnown(H)'
      /\ Base' = Base
      /\ HeadAt(undo', db', 1) = HeadAt(undo, db, 1)
  <2>1. CASE session
    <3>1. undo' # <<>>
      <4>1. Len(<<>>) = 0
        OBVIOUS
      <4> QED BY <1>1, <1>2, <2>1, <4>1
    <3>2. HeadAt(undo', db', 1) = HeadAt(undo, db, 1)
      BY <1>1, <1>3, <2>1 DEF HeadAt
    <3> QED BY <1>0, <1>1, <1>4, <2>1, <3>1, <3>2 DEF StatesKnown, Base
  <2>2. CASE ~session
    <3>1. KnownIn(H, db)
      BY <1>0, <2>2 DEF SInv, StatesKnown
    <3>2. /\ undo' # <<>>
          /\ \A i \in 1 .. Len(undo') : KnownIn(H, undo'[i].snapshot)
          /\ Base' = Base
          /\ HeadAt(undo', db', 1) = HeadAt(undo, db, 1)
      BY <1>1, <1>2, <1>4, <2>2, <3>1, StartedIs
    <3> QED BY <1>0, <3>2 DEF StatesKnown
  <2> QED BY <1>0, <2>1, <2>2
<1>6. FinalLog(H, log)' /\ RestartOK'
  BY <1>0, <1>5 DEF SInv, RestartOK, Running, InCall
<1>7. WriteOK' /\ SwitchOK'
  BY <1>0 DEF WriteOK, SwitchOK
<1>8. TreeOK'
  <2>1. Astray => Astray'
    BY <1>0, <1>3 DEF Astray
  <2> QED BY <1>0, <1>3, <1>5, <2>1 DEF SInv, TreeOK, Running, InCall
<1> QED BY <1>5, <1>6, <1>7, <1>8 DEF SInv

-----------------------------------------------------------------------------
(* Close, crash and restart.                                               *)

LEMMA BaseIs ==
    ASSUME IInv
    PROVE  /\ IsASeq(undo) /\ Len(undo) \in Nat
           /\ HeadAt(undo, db, 1) \in Ids /\ Num[HeadAt(undo, db, 1)] \in Nat
           /\ BaseDb.head = HeadAt(undo, db, 1)
           /\ ~Replaying => Num[HeadAt(undo, db, 1)] = revision - Len(undo)
<1>0. pc \in InCall \cup {"idle", "replay", "closed", "torn"} /\ session \in BOOLEAN
  BY DEF IInv, HistoryOK
<1>1. CASE Replaying
  <2>1. undo = <<>> /\ StateOK(db)
    BY <1>1 DEF IInv, HistoryOK
  <2>2. IsASeq(undo) /\ Len(undo) = 0
    BY <2>1, NoElements
  <2>3. HeadAt(undo, db, 1) = db.head /\ BaseDb.head = db.head /\ db.head \in Ids
    BY <2>1, <2>2 DEF HeadAt, BaseDb, StateOK
  <2> QED BY <1>1, <2>2, <2>3, GenesisNum
<1>2. CASE ~Replaying
  <2>1. PICK pend \in BOOLEAN : Chained(undo, db, revision, pend)
    BY <1>0, <1>2 DEF IInv, HistoryOK, Replaying
  <2>2. IsASeq(undo) /\ StateOK(db) /\ revision \in Int
    BY <2>1 DEF Chained
  <2>3. PICK n \in Nat : n = Len(undo)
    BY <2>2, LenIsNat
  <2>4. CASE undo = <<>>
    <3>1. n = 0
      BY <2>3, <2>4
    <3>2. HeadAt(undo, db, 1) = db.head /\ BaseDb.head = db.head
      BY <2>3, <2>4, <3>1 DEF HeadAt, BaseDb
    <3>3. Num[db.head] = revision - n
      BY <2>1, <2>3, <3>1, ChainedOldest
    <3> QED BY <2>2, <2>3, <3>2, <3>3, GenesisNum DEF StateOK
  <2>5. CASE undo # <<>>
    <3>1. n >= 1
      BY <2>2, <2>3, <2>5 DEF IsASeq
    <3>2. HeadAt(undo, db, 1) = undo[1].snapshot.head /\ BaseDb.head = undo[1].snapshot.head
      BY <2>3, <2>5, <3>1 DEF HeadAt, BaseDb
    <3>3. StateOK(undo[1].snapshot) /\ Num[undo[1].snapshot.head] = revision - n
      BY <2>1, <2>3, <3>1, ChainedOldest
    <3> QED BY <2>2, <2>3, <3>2, <3>3, GenesisNum DEF StateOK
  <2> QED BY <2>4, <2>5
<1> QED BY <1>1, <1>2

LEMMA CloseS ==
    ASSUME NEW H, IInv, SInv(H), Close
    PROVE  SInv(H)'
<1>0. /\ pc = "idle" /\ pc' = "closed"
      /\ undo' = CleanUndo /\ db' = CleanDb
      /\ log' = log /\ flushed' = Len(log)
      /\ fork_db' = EmptyForkDb(ForkDbSize)
  BY DEF Close
<1>1. /\ KnownIn(H, CleanDb)
      /\ HeadAt(CleanUndo, CleanDb, 1) = HeadAt(undo, db, 1)
      /\ \A i \in 1 .. Len(CleanUndo) : KnownIn(H, CleanUndo[i].snapshot)
  BY <1>0, CleanKnown DEF SInv
<1>2. StatesKnown(H)' /\ FinalLog(H, log)'
  BY <1>0, <1>1 DEF SInv, StatesKnown
<1>3. RestartOK'
  <2>1. Stored(log, flushed, HeadAt(undo, db, 1)) /\ Num[HeadAt(undo, db, 1)] \in Nat
    BY BaseIs DEF SInv, RestartOK
  <2>2. flushed \in Nat /\ Len(log) \in Nat /\ flushed <= Len(log)
    BY DEF IInv, LogOK
  <2>3. Stored(log, Len(log), HeadAt(undo, db, 1))
    BY <2>1, <2>2 DEF Stored
  <2> QED BY <1>0, <1>1, <2>3 DEF RestartOK
<1>4. TreeOK'
  BY <1>0, ForkEmpty DEF TreeOK, Running, InCall
<1>5. SwitchOK' /\ WriteOK'
  BY <1>0 DEF SwitchOK, WriteOK
<1> QED BY <1>2, <1>3, <1>4, <1>5 DEF SInv

LEMMA CrashS ==
    ASSUME NEW H, IInv, SInv(H), Crash
    PROVE  SInv(H)'
<1>0. /\ pc \notin {"closed", "torn"}
      /\ pc' = IF pc = "replay" THEN "torn" ELSE "closed"
      /\ UNCHANGED <<db, undo, revision>>
      /\ fork_db' = EmptyForkDb(ForkDbSize)
  BY DEF Crash
<1>1. PICK n \in flushed .. Len(log) : log' = SubSeq(log, 1, n) /\ flushed' = n
  BY DEF Crash
<1>2. log \in Seq(Blocks) /\ flushed \in Nat /\ Len(log) \in Nat /\ n \in 0 .. Len(log) /\ flushed <= n
  BY <1>1 DEF IInv, LogOK
<1>3. FinalLog(H, log)'
  BY <1>1, <1>2, FinalPrefix DEF SInv
<1>4. StatesKnown(H)'
  <2>1. pc' = "torn" => undo = <<>>
    BY <1>0 DEF IInv, HistoryOK, Replaying
  <2> QED BY <1>0, <2>1 DEF SInv, StatesKnown
<1>5. RestartOK'
  <2> DEFINE x == HeadAt(undo, db, 1)
  <2>1. x \in Ids /\ Num[x] \in Nat /\ (x # Genesis => Num[x] # 0)
    BY BaseIs, GenesisNum
  <2>2. Stored(log, flushed, x)
    BY DEF SInv, RestartOK
  <2>3. Len(log') = n /\ \A i \in 1 .. n : log'[i] = log[i]
    BY <1>1, <1>2
  <2>4. x # Genesis => Num[x] \in 1 .. n
    BY <1>2, <2>1, <2>2 DEF Stored
  <2>5. Stored(log', n, x)
    BY <1>2, <2>2, <2>3, <2>4 DEF Stored
  <2> QED BY <1>0, <1>1, <2>3, <2>5 DEF RestartOK
<1>6. TreeOK'
  BY <1>0, ForkEmpty DEF TreeOK, Running, InCall
<1>7. SwitchOK' /\ WriteOK'
  BY <1>0 DEF SwitchOK, WriteOK
<1> QED BY <1>3, <1>4, <1>5, <1>6, <1>7 DEF SInv

\* The fork database that has only the committed block.
LEMMA FreshTree ==
    ASSUME NEW f, ForkOK(f), NEW x \in Ids,
           IF x = Genesis THEN f.index = {} /\ f.head = None ELSE f.index = {x} /\ f.head = x
    PROVE  Kept(f, x, Num[x]) /\ Tied(f, Num[x]) /\ (f.head # None => Previous[f.head] # x)
<1>1. Num[x] \in Nat /\ AncestorAt(x, Num[x]) = x
  BY AncestorIs
<1>2. CASE x = Genesis
  <2>1. Num[x] = 0
    BY <1>2, ForkDatabaseAssumption
  <2>2. \A m \in 0 .. 0 : ~(m >= 1)
    OBVIOUS
  <2> QED BY <1>2, <2>1, <2>2 DEF Kept, Tied
<1>3. CASE x # Genesis
  <2>1. x \in Blocks /\ Previous[x] # x
    BY <1>3, GenesisNum, PreviousIs
  <2>2. \A m \in Num[x] .. Num[x] : m = Num[x]
    BY <1>1
  <2>3. ~(Num[x] > Num[x])
    BY <1>1
  <2> QED BY <1>1, <1>3, <2>1, <2>2, <2>3 DEF Kept, Tied
<1> QED BY <1>2, <1>3

LEMMA OpenS ==
    ASSUME NEW H, IInv, SInv(H), Open
    PROVE  SInv(H)'
<1> DEFINE x == HeadAt(undo, db, 1)
<1>0. /\ pc \in {"closed", "torn"} /\ pc' = "idle" /\ CanOpen
      /\ db' = BaseDb /\ undo' = <<>> /\ revision' = revision - Len(undo)
      /\ fork_db' = StartedForkDb(BaseDb.head)
      /\ UNCHANGED <<log, flushed, session>>
  BY DEF Open
<1>1. IsASeq(undo) /\ x \in Ids /\ BaseDb.head = x
  BY BaseIs
<1>2. Base' = Num[x] /\ db'.head = x /\ Len(undo') = 0
  <2>1. revision - Len(undo) = Num[x]
    BY <1>0, <1>1 DEF CanOpen
  <2>2. Num[x] \in Nat /\ Num[x] - 0 = Num[x] /\ Len(<<>>) = 0
    BY <1>1, GenesisNum
  <2> QED BY <1>0, <1>1, <2>1, <2>2 DEF Base
<1>3. KnownIn(H, BaseDb)
  <2>1. CASE undo = <<>>
    BY <2>1 DEF SInv, StatesKnown, BaseDb
  <2>2. CASE undo # <<>>
    <3>1. 1 \in 1 .. Len(undo)
      BY <1>1, <2>2 DEF IsASeq
    <3> QED BY <2>2, <3>1 DEF SInv, StatesKnown, BaseDb
  <2> QED BY <2>1, <2>2
<1>4. StatesKnown(H)'
  BY <1>0, <1>2, <1>3 DEF StatesKnown
<1>5. FinalLog(H, log)'
  BY <1>0 DEF SInv
<1>6. RestartOK'
  <2>1. HeadAt(undo', db', 1) = x
    BY <1>2 DEF HeadAt
  <2> QED BY <1>0, <2>1 DEF SInv, RestartOK, Running, InCall
<1> HIDE DEF x
<1>7. /\ ForkOK(fork_db')
      /\ IF x = Genesis THEN fork_db'.index = {} /\ fork_db'.head = None
         ELSE fork_db'.index = {x} /\ fork_db'.head = x
  <2>1. CASE x = Genesis
    BY <1>0, <1>1, <2>1, ForkEmpty DEF StartedForkDb
  <2>2. CASE x # Genesis
    <3>1. x \in Blocks
      BY <1>1, <2>2, GenesisNum
    <3>2. fork_db' = StartBlock(EmptyForkDb(ForkDbSize), x)
      BY <1>0, <1>1, <2>2 DEF StartedForkDb
    <3> QED BY <2>2, <3>1, <3>2, ForkEmpty, ForkStart DEF ForkOK
  <2> QED BY <2>1, <2>2
<1>8. TreeOK'
  <2>1. /\ Kept(fork_db', x, Num[x]) /\ Tied(fork_db', Num[x])
        /\ fork_db'.head # None => Previous[fork_db'.head] # x
    BY <1>1, <1>7, FreshTree
  <2> QED BY <1>2, <1>7, <2>1 DEF TreeOK
<1>9. SwitchOK' /\ WriteOK'
  BY <1>0 DEF SwitchOK, WriteOK
<1> QED BY <1>4, <1>5, <1>6, <1>8, <1>9 DEF SInv

LEMMA ReindexS ==
    ASSUME NEW H, SettledTree(H), IInv, SInv(H), Reindex
    PROVE  SInv(H)'
<1>0. /\ pc \in {"closed", "torn"} /\ pc' = IF log = <<>> THEN "closed" ELSE "replay"
      /\ db' = GenesisState /\ undo' = <<>>
      /\ fork_db' = EmptyForkDb(ForkDbSize)
      /\ UNCHANGED <<log, flushed>>
  BY DEF Reindex
<1>1. Len(undo') = 0
  BY <1>0
<1>2. StatesKnown(H)'
  BY <1>0, <1>1, KnownGenesis DEF StatesKnown
<1>3. FinalLog(H, log)'
  BY <1>0 DEF SInv
<1>4. RestartOK'
  <2>1. HeadAt(undo', db', 1) = Genesis
    BY <1>0, <1>1, GenesisType DEF HeadAt
  <2>2. flushed = Len(log)
    BY <1>0 DEF SInv, RestartOK, Running, InCall
  <2> QED BY <1>0, <2>1, <2>2, ForkEmpty DEF RestartOK, Stored
<1>5. TreeOK'
  BY <1>0, ForkEmpty DEF TreeOK, Running, InCall
<1>6. SwitchOK' /\ WriteOK'
  BY <1>0 DEF SwitchOK, WriteOK
<1> QED BY <1>2, <1>3, <1>4, <1>5, <1>6 DEF SInv

LEMMA ReplayS ==
    ASSUME NEW H, SettledTree(H), IInv, SInv(H), ReplayBlock \/ ReplayFails \/ EndReplay
    PROVE  SInv(H)'
<1>0. /\ pc = "replay" /\ UNCHANGED <<undo, log, flushed, session>>
      /\ ~session /\ undo = <<>> /\ StateOK(db) /\ Len(undo) = 0
  BY DEF ReplayBlock, ReplayFails, EndReplay, IInv, HistoryOK, Replaying
<1>1. log \in Seq(Blocks) /\ Len(log) \in Nat /\ Len(log) >= 1 /\ flushed = Len(log)
  BY <1>0 DEF IInv, LogOK, SInv, RestartOK, Running, InCall
<1>2. HeadAt(undo, db, 1) = db.head /\ HeadAt(undo', db', 1) = db'.head
  BY <1>0 DEF HeadAt
<1>3. KnownIn(H, db) /\ HeadNum \in Nat /\ db.head \in Ids
  BY <1>0, NumIsNat DEF SInv, StatesKnown, HeadNum, StateOK
<1>4. /\ ForkOK(fork_db) /\ fork_db.index = {} /\ fork_db.linked = {} /\ fork_db.head = None
      /\ Stored(log, flushed, db.head)
  BY <1>0, <1>2 DEF SInv, TreeOK, RestartOK
<1>5. FinalLog(H, log)'
  BY <1>0 DEF SInv
<1>6. SwitchOK' /\ WriteOK'
  BY <1>0 DEF ReplayBlock, ReplayFails, EndReplay, SwitchOK, WriteOK
<1>7. CASE ReplayBlock
  <2> DEFINE b == log[HeadNum + 1]
             s == AfterBlock(db, b)
  <2>1. /\ HeadNum < Len(log) /\ Previous[b] = db.head /\ pc' = "replay"
        /\ db' = [s EXCEPT !.trxs = {}]
    BY <1>7 DEF ReplayBlock
  <2>2. HeadNum + 1 \in 1 .. Len(log) /\ b \in Blocks /\ Num[b] = HeadNum + 1
    <3>1. HeadNum + 1 \in 1 .. Len(log)
      BY <1>1, <1>3, <2>1
    <3> QED BY <1>1, <3>1 DEF SInv, FinalLog
  <2>3. StateOK(s) /\ s.head = b /\ KnownIn(H, s)
    BY <1>0, <1>3, <2>1, <2>2, AfterBlockType, KnownAfter
  <2> HIDE DEF b, s
  <2>4. KnownIn(H, db') /\ db'.head = b
    <3>1. {} \subseteq s.trxs
      OBVIOUS
    <3> QED BY <2>1, <2>3, <3>1, KnownFewer, TrxsType
  <2>5. StatesKnown(H)'
    BY <1>0, <2>4 DEF StatesKnown
  <2>6. Stored(log', flushed', db'.head)
    BY <1>0, <1>1, <2>2, <2>4 DEF Stored, b
  <2>7. /\ IndexOK(fork_db')
        /\ fork_db'.index = {} /\ fork_db'.linked = {} /\ fork_db'.head = None
    <3>1. PICK size : fork_db' = SetMaxSize(fork_db, size)
      BY <1>7 DEF ReplayBlock
    <3>2. fork_db' = [fork_db EXCEPT !.max_size = size]
      BY <1>4, <3>1 DEF SetMaxSize
    <3> QED BY <1>4, <3>1, <3>2, ForkDbKept DEF ForkOK, IndexOK
  <2>8. RestartOK'
    BY <1>0, <1>1, <1>2, <2>6, <2>7 DEF RestartOK
  <2>9. TreeOK'
    BY <1>4, <2>1, <2>7 DEF TreeOK, Running, InCall, ForkOK
  <2> QED BY <1>5, <1>6, <2>5, <2>8, <2>9 DEF SInv
<1>8. CASE ReplayFails
  <2>1. pc' = "torn" /\ db' = db /\ fork_db' = EmptyForkDb(ForkDbSize)
    BY <1>8 DEF ReplayFails
  <2>2. StatesKnown(H)'
    BY <1>0, <1>3, <2>1 DEF StatesKnown
  <2>3. RestartOK'
    BY <1>0, <1>1, <1>2, <1>4, <2>1 DEF RestartOK
  <2>4. TreeOK'
    BY <2>1, ForkEmpty DEF TreeOK, Running, InCall
  <2> QED BY <1>5, <1>6, <2>2, <2>3, <2>4 DEF SInv
<1>9. CASE EndReplay
  <2> DEFINE x == db.head
  <2>1. /\ HeadNum = Len(log) /\ pc' = "idle" /\ db' = db /\ revision' = HeadNum
        /\ fork_db' = StartBlock(fork_db, log[Len(log)])
    BY <1>9 DEF EndReplay
  <2>2. x # Genesis /\ Num[x] = Len(log)
    BY <1>1, <2>1, ForkDatabaseAssumption DEF HeadNum
  <2>3. log[Len(log)] = x /\ x \in Blocks
    BY <1>3, <1>4, <2>2, GenesisNum DEF Stored
  <2>4. ForkOK(fork_db') /\ fork_db'.index = {x} /\ fork_db'.head = x
    BY <1>4, <2>1, <2>3, ForkStart DEF ForkOK
  <2>5. /\ Kept(fork_db', x, Num[x]) /\ Tied(fork_db', Num[x])
        /\ fork_db'.head # None => Previous[fork_db'.head] # x
    BY <1>3, <2>2, <2>4, FreshTree
  <2>6. Base' = Num[x]
    <3>1. Base' = HeadNum - 0
      BY <1>0, <2>1 DEF Base
    <3> QED BY <1>3, <3>1 DEF HeadNum
  <2>7. TreeOK'
    BY <2>1, <2>4, <2>5, <2>6 DEF TreeOK
  <2>8. StatesKnown(H)'
    BY <1>0, <1>3, <2>1 DEF StatesKnown
  <2>9. RestartOK'
    BY <1>0, <1>2, <1>4, <2>1 DEF RestartOK, Running
  <2> QED BY <1>5, <1>6, <2>7, <2>8, <2>9 DEF SInv
<1> QED BY <1>7, <1>8, <1>9

-----------------------------------------------------------------------------
(* The invariant holds on a settled tree.                                  *)

LEMMA InitS ==
    ASSUME NEW H, SettledTree(H), Init
    PROVE  SInv(H)
<1>0. /\ log = InitialLog /\ flushed = Len(log) /\ db = GenesisState
      /\ undo = <<>> /\ revision = 0 /\ fork_db = EmptyForkDb(ForkDbSize)
      /\ pc \in {"idle", "replay"} /\ Len(undo) = 0
  BY DEF Init
<1>1. db.head = Genesis /\ Num[Genesis] = 0 /\ Genesis \in Ids
  BY <1>0, GenesisType, ForkDatabaseAssumption DEF Ids
<1>2. HeadAt(undo, db, 1) = Genesis /\ Base = Num[Genesis]
  <2>1. 1 > 0 /\ 0 - 0 = 0
    OBVIOUS
  <2> QED BY <1>0, <1>1, <2>1, Zenon DEF HeadAt, Base
<1>3. StatesKnown(H)
  BY <1>0, KnownGenesis DEF StatesKnown
<1>4. FinalLog(H, log)
  BY <1>0, FinalInitial
<1>5. /\ ForkOK(fork_db) /\ fork_db.index = {} /\ fork_db.linked = {} /\ fork_db.head = None
  BY <1>0, ForkEmpty
<1>6. RestartOK
  BY <1>0, <1>2, <1>5 DEF RestartOK, Stored
<1>7. TreeOK
  <2>1. Kept(fork_db, Genesis, Num[Genesis]) /\ Tied(fork_db, Num[Genesis])
    BY <1>1, <1>5, FreshTree
  <2> QED BY <1>1, <1>2, <1>5, <2>1 DEF TreeOK
<1>8. SwitchOK /\ WriteOK
  BY <1>0 DEF SwitchOK, WriteOK
<1> QED BY <1>3, <1>4, <1>6, <1>7, <1>8 DEF SInv

LEMMA StutterS ==
    ASSUME NEW H, SInv(H), UNCHANGED vars
    PROVE  SInv(H)'
<1>1. UNCHANGED <<db, undo, revision, fork_db, log, flushed, session, pc, job>>
  BY DEF vars
<1>2. StatesKnown(H)' /\ FinalLog(H, log)' /\ RestartOK'
  BY <1>1 DEF SInv, StatesKnown, RestartOK
<1>3. TreeOK'
  BY <1>1 DEF SInv, TreeOK, Base, Astray
<1>4. SwitchOK' /\ WriteOK'
  BY <1>1 DEF SInv, SwitchOK, WriteOK, Unwinding, Applying, ForkPoint
<1> QED BY <1>2, <1>3, <1>4 DEF SInv

LEMMA NextS ==
    ASSUME NEW H, SettledTree(H), IInv, QInv, SInv(H), [Next]_vars
    PROVE  SInv(H)'
<1>1. CASE UNCHANGED vars
  BY <1>1, StutterS
<1>2. CASE \E b \in Blocks : Push(b)
  BY <1>2, PushS DEF Push
<1>3. CASE \E b \in Blocks : Generate(b)
  BY <1>3, PushS DEF Generate
<1>4. CASE Pop
  BY <1>4, PopS
<1>5. CASE PopFails
  BY <1>5, PopFailsS
<1>6. CASE Unwound
  BY <1>6, UnwoundS
<1>7. CASE Apply
  BY <1>7, ApplyS
<1>8. CASE ApplyFails \/ BranchFails
  BY <1>8, NothingFails
<1>9. CASE AppendToLog
  BY <1>9, AppendS
<1>10. CASE CommitBlock
  BY <1>10, CommitS
<1>11. CASE Requeue
  BY <1>11, RequeueS
<1>12. CASE \E t \in Trx : PushTransaction(t)
  BY <1>12, TransactionS
<1>13. CASE Close
  BY <1>13, CloseS
<1>14. CASE Crash
  BY <1>14, CrashS
<1>15. CASE Open
  BY <1>15, OpenS
<1>16. CASE Reindex
  BY <1>16, ReindexS
<1>17. CASE ReplayBlock \/ ReplayFails \/ EndReplay
  BY <1>17, ReplayS
<1> QED BY <1>1, <1>2, <1>3, <1>4, <1>5, <1>6, <1>7, <1>8, <1>9, <1>10, <1>11, <1>12,
           <1>13, <1>14, <1>15, <1>16, <1>17 DEF Next

LEMMA SettledInvariant ==
    ASSUME NEW H, SettledTree(H)
    PROVE  Spec => []SInv(H)
<1>1. Init => SInv(H)
  BY InitS
<1>2. IInv /\ QInv /\ SInv(H) /\ [Next]_vars => SInv(H)'
  BY NextS
<1> QED BY <1>1, <1>2, Invariant, QueueInvariant, PTL DEF Spec

\* Path starts at the committed block.
LEMMA PathStart ==
    ASSUME IInv
    PROVE  Path[1] = HeadAt(undo, db, 1)
<1>1. Len(undo) \in Nat
  BY BaseIs
<1>2. 1 \in 1 .. Len(undo) + 1
  BY <1>1
<1> QED BY <1>2, Zenon DEF Path, HeadAt

\* Between calls BlockPath is the chain from the committed block on.
LEMMA BlockPathIs ==
    ASSUME IInv, pc = "idle"
    PROVE  /\ Len(BlockPath) \in Nat
           /\ \A i \in 1 .. Len(BlockPath) :
                /\ BlockPath[i] = AncestorAt(db.head, Base + i - 1)
                /\ Base + i - 1 \in 0 .. Num[db.head]
<1>0. session \in BOOLEAN /\ Chained(undo, db, revision, session)
  BY DEF IInv, HistoryOK
<1>1. PICK n \in Nat : n = Len(undo)
  BY <1>0, LenIsNat DEF Chained
<1>2. /\ Path \in Seq(Ids) /\ Len(Path) = n + 1
      /\ \A i \in 1 .. n + 1 : Path[i] = HeadAt(undo, db, i)
  <2>1. \A i \in 1 .. n + 1 : HeadAt(undo, db, i) \in Ids
    BY <1>0, <1>1 DEF Chained, HeadAt, StateOK
  <2>2. Path = [i \in 1 .. n + 1 |-> HeadAt(undo, db, i)]
    BY <1>1, Zenon DEF Path, HeadAt
  <2> QED BY <2>1, <2>2
<1>3. CASE ~session
  <2>1. Chained(undo, db, revision, FALSE)
    BY <1>0, <1>3
  <2>2. AncestorHeads(undo, db, revision, n)
    BY <1>1, <2>1, ChainedAncestors
  <2>3. ~PendingOnTop
    <3> SUFFICES ASSUME undo # <<>>, undo[n].snapshot.head = db.head PROVE FALSE
      BY <1>1 DEF PendingOnTop
    <3>1. n >= 1
      BY <1>0, <1>1 DEF Chained, IsASeq
    <3>2. db.head \in Blocks /\ Previous[db.head] = db.head
      BY <1>1, <2>1, <3>1 DEF Chained, Link, HeadAt
    <3> QED BY <3>2, PreviousIs
  <2>4. BlockPath = Path /\ Base = revision - n
    BY <1>1, <2>3 DEF BlockPath, Base
  <2>5. Len(BlockPath) = n + 1 /\ \A i \in 1 .. n + 1 : BlockPath[i] = HeadAt(undo, db, i)
    BY <1>2, <2>4
  <2> QED BY <2>2, <2>4, <2>5 DEF AncestorHeads
<1>4. CASE session
  <2>1. n >= 1 /\ undo[n].snapshot.head = db.head /\ revision \in Int
    BY <1>0, <1>1, <1>4 DEF Chained
  <2> DEFINE v == SubSeq(undo, 1, n - 1)
             d == undo[n].snapshot
  <2>2. Chained(v, d, revision - 1, FALSE)
    BY <1>0, <1>1, <2>1, ChainedUndo
  <2>3. Len(v) = n - 1 /\ \A i \in 1 .. n - 1 : v[i] = undo[i]
    BY <1>0, <1>1, <2>1, FrontIs DEF Chained
  <2>4. \A i \in 1 .. n : HeadAt(v, d, i) = HeadAt(undo, db, i)
    BY <1>1, <2>1, <2>3 DEF HeadAt
  <2> HIDE DEF v
  <2>5. AncestorHeads(v, d, revision - 1, n - 1)
    <3>1. n - 1 \in Nat
      BY <2>1
    <3> HIDE DEF d
    <3> QED BY <2>2, <2>3, <3>1, ChainedAncestors
  <2>6. PendingOnTop
    <3>1. undo # <<>>
      BY <1>1, <2>1
    <3> QED BY <1>1, <2>1, <3>1 DEF PendingOnTop
  <2>7. BlockPath = SubSeq(Path, 1, n) /\ Base = revision - n
    BY <1>1, <2>6 DEF BlockPath, Base
  <2>8. Len(BlockPath) = n /\ \A i \in 1 .. n : BlockPath[i] = Path[i]
    BY <1>2, <2>7
  <2>9. ASSUME NEW i \in 1 .. n
        PROVE  /\ BlockPath[i] = AncestorAt(db.head, Base + i - 1)
               /\ Base + i - 1 \in 0 .. Num[db.head]
    <3>1. /\ HeadAt(v, d, i) = AncestorAt(d.head, (revision - 1) - (n - 1) + i - 1)
          /\ (revision - 1) - (n - 1) + i - 1 \in 0 .. Num[d.head]
      <4>1. i \in 1 .. (n - 1) + 1
        OBVIOUS
      <4> QED BY <2>5, <4>1 DEF AncestorHeads
    <3>2. (revision - 1) - (n - 1) + i - 1 = revision - n + i - 1
      BY <2>1
    <3>3. BlockPath[i] = HeadAt(v, d, i)
      BY <1>2, <2>4, <2>8
    <3> QED BY <2>1, <2>7, <3>1, <3>2, <3>3
  <2> QED BY <2>8, <2>9
<1> QED BY <1>0, <1>3, <1>4

-----------------------------------------------------------------------------
\* On a settled tree the block log stays one chain from block 1 on, however
\* block_log::append and commit are cut off by crashes and whichever branches
\* push_block switches to in between.
THEOREM LogStaysChain ==
    ASSUME NEW H, SettledTree(H)
    PROVE  Spec => []LogIsChain
<1>1. SInv(H) => LogIsChain
  BY DEF SInv, FinalLog, LogIsChain
<1> QED BY <1>1, SettledInvariant, PTL

\* On a settled tree, wherever the process dies, database::open accepts what it
\* left: the revision is the number of the committed block, and the block log on
\* disk has that block.
THEOREM AlwaysOpens ==
    ASSUME NEW H, SettledTree(H)
    PROVE  Spec => []OpensAfterCrash
<1>1. IInv /\ SInv(H) => OpensAfterCrash
  <2> DEFINE x == HeadAt(undo, db, 1)
  <2> SUFFICES ASSUME IInv, SInv(H), ~Replaying
               PROVE  CanOpen /\ (x # Genesis => Num[x] <= flushed)
    BY PathStart DEF OpensAfterCrash
  <2>1. /\ x \in Ids /\ Num[x] \in Nat /\ BaseDb.head = x
        /\ Num[x] = revision - Len(undo)
    BY BaseIs
  <2>2. Stored(log, flushed, x)
    BY DEF SInv, RestartOK
  <2>3. flushed \in Nat /\ Len(log) \in Nat /\ flushed <= Len(log)
    BY DEF IInv, LogOK
  <2> HIDE DEF x
  <2>4. x # Genesis => Num[x] <= flushed /\ InLog(x)
    BY <2>1, <2>2, <2>3 DEF Stored, InLog
  <2>5. CanOpen
    BY <2>1, <2>4 DEF CanOpen
  <2> QED BY <2>4, <2>5
<1> QED BY <1>1, Invariant, SettledInvariant, PTL

\* On a settled tree the blocks that pop_block may still take back and that
\* migrate_irreversible_state has yet to write are in the fork database, linked
\* to each other, also after set_max_size has trimmed it.
THEOREM ReversibleStayKept ==
    ASSUME NEW H, SettledTree(H)
    PROVE  Spec => []ReversibleBlocksKept
<1>1. IInv /\ SInv(H) => ReversibleBlocksKept
  <2> SUFFICES ASSUME IInv, SInv(H), pc = "idle", NEW i \in 2 .. Len(BlockPath)
               PROVE  /\ BlockPath[i] \in fork_db.index
                      /\ i > 2 => BlockPath[i] \in fork_db.linked
    BY DEF ReversibleBlocksKept
  <2> DEFINE m == Base + i - 1
  <2>1. Base \in Nat /\ db.head \in Ids /\ Num[db.head] \in Nat
    BY RunningIs DEF Running
  <2>2. BlockPath[i] = AncestorAt(db.head, m) /\ m \in 0 .. Num[db.head] /\ i \in Nat
    BY BlockPathIs
  <2>3. m \in Base .. Num[db.head] /\ m >= 1 /\ m > Base /\ (i > 2 => m > 1)
    BY <2>1, <2>2
  <2>4. Kept(fork_db, db.head, Base) /\ (Astray \/ Tied(fork_db, Base))
    BY DEF SInv, TreeOK, Running
  <2> HIDE DEF m
  <2>5. AncestorAt(db.head, m) \in fork_db.index
    BY <2>3, <2>4 DEF Kept
  <2>6. Num[AncestorAt(db.head, m)] = m
    BY <2>1, <2>2, AncestorIs
  <2>7. ~Astray
    <3>1. Num[db.head] # 0
      BY <2>1, <2>3
    <3> QED BY <2>1, <3>1, GenesisNum DEF Astray
  <2> QED BY <2>2, <2>3, <2>4, <2>5, <2>6, <2>7 DEF Tied
<1> QED BY <1>1, Invariant, SettledInvariant, PTL

\* On a settled tree migrate_irreversible_state finds every block it is about to
\* write in the fork database.
THEOREM MigrationFinds ==
    ASSUME NEW H, SettledTree(H)
    PROVE  Spec => []MigrationFindsBlocks
<1>1. IInv /\ SInv(H) => MigrationFindsBlocks
  BY ApplyIs DEF MigrationFindsBlocks, CanApply, CanMigrate
<1> QED BY <1>1, Invariant, SettledInvariant, PTL

\* On a settled tree only blocks of the node's own chain are written to the log:
\* what OnlyIrreversibleWritten says fails only where a block is refused.
THEOREM WritesOwnChain ==
    ASSUME NEW H, SettledTree(H)
    PROVE  Spec => []OnlyIrreversibleWritten
<1>1. IInv /\ SInv(H) => OnlyIrreversibleWritten
  <2> SUFFICES ASSUME IInv, SInv(H), pc = "migrate", job.write # <<>>
               PROVE  Head(job.write) = AncestorAt(db.head, Len(log) + 1)
    BY DEF OnlyIrreversibleWritten
  <2>1. job.write \in Seq(Blocks)
    BY DEF IInv, JobOK
  <2>2. Len(job.write) >= 1 /\ Len(job.write) \in Nat
    BY <2>1, LenPositive
  <2>3. job.write[1] = AncestorAt(db.head, Len(log) + 1)
    BY <2>2 DEF SInv, WriteOK
  <2> QED BY <2>1, <2>2, <2>3
<1> QED BY <1>1, Invariant, SettledInvariant, PTL
=============================================================================
