-------------------------- MODULE UndoIndex_proofs --------------------------
(***************************************************************************)
(* Proofs about UndoIndex for every set of keys and data and any number of *)
(* ids and sessions.                                                       *)
(***************************************************************************)
EXTENDS UndoIndex, NaturalsInduction, WellFoundedInduction, TLAPS

-----------------------------------------------------------------------------
(* A set of naturals that is not empty has a least element.                *)

LEMMA LeastExists ==
    ASSUME NEW S \in SUBSET Nat, S # {}
    PROVE  \E j \in S : \A k \in S : j <= k
<1>1. PICK j \in S : \A k \in S : ~(<<k, j>> \in OpToRel(<, Nat))
  BY NatLessThanWellFounded, WFMin
<1>2. ASSUME NEW k \in S PROVE j <= k
  <2>1. <<k, j>> \in OpToRel(<, Nat) <=> k < j
    BY DEF OpToRel
  <2>2. ~(k < j)
    BY <1>1, <2>1
  <2>3. j \in Nat /\ k \in Nat
    OBVIOUS
  <2> QED BY <2>2, <2>3
<1> QED BY <1>2

-----------------------------------------------------------------------------
(* Reading the history back.                                               *)

\* Oldest(S) is the least element of S.
LEMMA OldestIs ==
    ASSUME NEW S \in SUBSET Nat, S # {}
    PROVE  Oldest(S) \in S /\ \A k \in S : Oldest(S) <= k
BY LeastExists DEF Oldest

LEMMA OldestUnique ==
    ASSUME NEW S \in SUBSET Nat, NEW j \in S, \A k \in S : j <= k
    PROVE  Oldest(S) = j
<1>1. Oldest(S) \in S /\ \A k \in S : Oldest(S) <= k
  BY OldestIs
<1>2. j \in Nat /\ Oldest(S) \in Nat
  BY <1>1
<1>3. j <= Oldest(S) /\ Oldest(S) <= j
  BY <1>1
<1> QED BY <1>2, <1>3

\* Above the last session there is the table itself.
LEMMA SavedAbove ==
    ASSUME NEW h \in Seq(UndoState), NEW t \in Tables, NEW x \in Ids
    PROVE  SavedValue(h, t, Len(h) + 1, x) = t[x]
<1>1. TouchedFrom(h, Len(h) + 1, x) = {}
  BY DEF TouchedFrom
<1> QED BY <1>1 DEF SavedValue

\* A session that touched x knows what x was when it began.
LEMMA SavedTouched ==
    ASSUME NEW h \in Seq(UndoState), NEW t \in Tables, NEW x \in Ids,
           NEW i \in 1 .. Len(h), Touched(h[i], x)
    PROVE  SavedValue(h, t, i, x) = Before(h[i], x)
<1> DEFINE S == TouchedFrom(h, i, x)
<1>1. S \in SUBSET Nat /\ i \in S /\ \A k \in S : i <= k
  BY DEF TouchedFrom
<1>2. Oldest(S) = i
  BY <1>1, OldestUnique
<1> QED BY <1>1, <1>2 DEF SavedValue

\* A session that did not touch x leaves it to the next.
LEMMA SavedUntouched ==
    ASSUME NEW h \in Seq(UndoState), NEW t \in Tables, NEW x \in Ids,
           NEW i \in 1 .. Len(h), ~Touched(h[i], x)
    PROVE  SavedValue(h, t, i, x) = SavedValue(h, t, i + 1, x)
<1>1. TouchedFrom(h, i, x) = TouchedFrom(h, i + 1, x)
  BY DEF TouchedFrom
<1> QED BY <1>1 DEF SavedValue

\* Two histories with the same first m states that agree on x above them
\* agree on x everywhere.
LEMMA SavedPrefix ==
    ASSUME NEW h \in Seq(UndoState), NEW t \in Tables,
           NEW g \in Seq(UndoState), NEW u \in Tables,
           NEW x \in Ids, NEW m \in Nat, m <= Len(h), m <= Len(g),
           \A j \in 1 .. m : h[j] = g[j],
           SavedValue(h, t, m + 1, x) = SavedValue(g, u, m + 1, x),
           NEW i \in 1 .. m + 1
    PROVE  SavedValue(h, t, i, x) = SavedValue(g, u, i, x)
<1> DEFINE S == {j \in i .. m : Touched(h[j], x)}
           TH == TouchedFrom(h, i, x)
           TG == TouchedFrom(g, i, x)
<1>1. CASE S # {}
  <2>1. S \in SUBSET Nat
    OBVIOUS
  <2>2. PICK j \in S : \A k \in S : j <= k
    BY <1>1, <2>1, LeastExists
  <2>3. j \in TH /\ \A k \in TH : j <= k
    BY <2>2 DEF TouchedFrom
  <2>4. j \in TG /\ \A k \in TG : j <= k
    BY <2>2 DEF TouchedFrom
  <2>5. TH \in SUBSET Nat /\ TG \in SUBSET Nat
    BY DEF TouchedFrom
  <2>6. Oldest(TH) = j /\ Oldest(TG) = j
    BY <2>3, <2>4, <2>5, OldestUnique
  <2>7. h[j] = g[j]
    BY <2>2
  <2> QED BY <2>3, <2>4, <2>6, <2>7 DEF SavedValue
<1>2. CASE S = {}
  <2>1. TH = TouchedFrom(h, m + 1, x)
    BY <1>2 DEF TouchedFrom
  <2>2. TG = TouchedFrom(g, m + 1, x)
    <3>1. \A j \in i .. m : ~Touched(g[j], x)
      BY <1>2
    <3> QED BY <3>1 DEF TouchedFrom
  <2> QED BY <2>1, <2>2 DEF SavedValue
<1> QED BY <1>1, <1>2

\* Dropping the k oldest states renumbers the others.
LEMMA SavedShift ==
    ASSUME NEW h \in Seq(UndoState), NEW t \in Tables, NEW x \in Ids,
           NEW k \in 0 .. Len(h), NEW g \in Seq(UndoState),
           g = SubSeq(h, k + 1, Len(h)),
           NEW i \in 1 .. Len(g) + 1
    PROVE  SavedValue(g, t, i, x) = SavedValue(h, t, i + k, x)
<1> DEFINE TG == TouchedFrom(g, i, x)
           TH == TouchedFrom(h, i + k, x)
<1>1. Len(g) = Len(h) - k /\ \A j \in 1 .. Len(g) : g[j] = h[j + k]
  OBVIOUS
<1>2. \A j \in i .. Len(g) : j \in TG <=> j + k \in TH
  BY <1>1 DEF TouchedFrom
<1>3. TG \in SUBSET (i .. Len(g)) /\ TH \in SUBSET (i + k .. Len(h))
  BY DEF TouchedFrom
<1>4. CASE TG = {}
  <2>1. ASSUME NEW j \in TH PROVE FALSE
    <3>1. j - k \in i .. Len(g)
      BY <1>1, <1>3
    <3>2. j - k \in TG
      BY <1>2, <1>3, <3>1
    <3> QED BY <1>4, <3>2
  <2> QED BY <1>4, <2>1 DEF SavedValue
<1>5. CASE TG # {}
  <2>1. TG \in SUBSET Nat /\ TH \in SUBSET Nat
    BY <1>3
  <2>2. PICK j \in TG : \A l \in TG : j <= l
    BY <1>5, <2>1, LeastExists
  <2>3. j + k \in TH
    BY <1>2, <1>3, <2>2
  <2>4. ASSUME NEW l \in TH PROVE j + k <= l
    <3>1. l - k \in i .. Len(g)
      BY <1>1, <1>3
    <3>2. l - k \in TG
      BY <1>2, <1>3, <3>1
    <3> QED BY <2>1, <2>2, <3>2
  <2>5. Oldest(TG) = j /\ Oldest(TH) = j + k
    BY <2>1, <2>2, <2>3, <2>4, OldestUnique
  <2>6. g[j] = h[j + k]
    BY <1>1, <1>3, <2>2
  <2> QED BY <1>5, <2>3, <2>5, <2>6 DEF SavedValue
<1> QED BY <1>4, <1>5

-----------------------------------------------------------------------------
(* Types.                                                                  *)

LEMMA RecordType ==
    ASSUME NEW s \in UndoState, NEW x \in Ids, NEW v \in Values
    PROVE  /\ OnCreate(s, x) \in UndoState
           /\ OnModify(s, x, v) \in UndoState
           /\ OnRemove(s, x, v) \in UndoState
BY DEF OnCreate, OnModify, OnRemove, UndoState, Tables

LEMMA BeforeType ==
    ASSUME NEW s \in UndoState, NEW x \in Ids
    PROVE  Before(s, x) \in Values \cup {None}
BY DEF Before, UndoState, Tables

LEMMA MergedType ==
    ASSUME NEW a \in UndoState, NEW b \in UndoState
    PROVE  Merged(a, b) \in UndoState
<1>1. MergedOld(a, b) \in Tables
  BY DEF MergedOld, UndoState, Tables
<1> QED BY <1>1 DEF Merged, UndoState, Tables

LEMMA UndoneType ==
    ASSUME NEW s \in UndoState, NEW t \in Tables
    PROVE  Undone(t, s) \in Tables
BY BeforeType DEF Undone, Tables

LEMMA PartlyUndoneType ==
    ASSUME NEW s \in UndoState, NEW t \in Tables
    PROVE  PartlyUndone(t, s) \subseteq Tables
<1>1. ASSUME NEW x \in Ids PROVE RestoredBelow(t, s, x) \in Tables
  BY DEF RestoredBelow, UndoState, Tables
<1>2. ASSUME NEW x \in Ids PROVE [RestoredBelow(t, s, x) EXCEPT ![x] = None] \in Tables
  BY <1>1 DEF Tables
<1> QED BY <1>2 DEF PartlyUndone

LEMMA RecordedType ==
    ASSUME stack \in Seq(UndoState), NEW s, Enabled => s \in UndoState
    PROVE  Recorded(s) \in Seq(UndoState)
BY DEF Recorded, Enabled

LEMMA TopType ==
    ASSUME stack \in Seq(UndoState), Enabled, NEW n \in Nat, n = Len(stack)
    PROVE  /\ n >= 1
           /\ Top = stack[n]
           /\ Top \in UndoState
           /\ Popped \in Seq(UndoState)
           /\ Len(Popped) = n - 1
           /\ \A i \in 1 .. n - 1 : Popped[i] = stack[i]
<1>1. n >= 1
  BY DEF Enabled
<1>2. Top = stack[n] /\ Top \in UndoState
  BY <1>1 DEF Top
<1>3. Popped = SubSeq(stack, 1, n - 1)
  BY DEF Popped
<1>4. \A i \in 1 .. n - 1 : stack[i] \in UndoState
  BY <1>1
<1>5. /\ Popped \in Seq(UndoState)
      /\ Len(Popped) = n - 1
      /\ \A i \in 1 .. n - 1 : Popped[i] = stack[i]
  BY <1>1, <1>3, <1>4
<1> QED BY <1>1, <1>2, <1>5

LEMMA TypeInit == Init => TypeOK
<1> SUFFICES ASSUME Init PROVE TypeOK
  OBVIOUS
<1>1. EmptyTable \in Tables
  BY DEF EmptyTable, Tables
<1>2. 0 \in 0 .. MaxId
  BY UndoIndexAssumption
<1>3. objs \in Tables /\ next_id \in 0 .. MaxId
  BY <1>1, <1>2 DEF Init
<1>4. stack \in Seq(UndoState) /\ revision \in Int
  BY DEF Init
<1>5. failed \in BOOLEAN
  BY DEF Init
<1> QED BY <1>3, <1>4, <1>5 DEF TypeOK

LEMMA TypeStep == TypeOK /\ [Next]_vars => TypeOK'
<1> SUFFICES ASSUME TypeOK, [Next]_vars PROVE TypeOK'
  OBVIOUS
<1> USE DEF TypeOK
<1>1. CASE StartUndoSession
  <2>1. [old_values |-> EmptyTable, removed_values |-> EmptyTable, new_ids |-> {},
         old_next_id |-> next_id, revision |-> revision'] \in UndoState
    BY <1>1 DEF StartUndoSession, UndoState, EmptyTable, Tables
  <2> QED BY <1>1, <2>1 DEF StartUndoSession
<1>2. ASSUME NEW v \in Values, Emplace(v) PROVE TypeOK'
  <2>1. next_id \in Ids /\ next_id' \in 0 .. MaxId
    BY <1>2, UndoIndexAssumption DEF Emplace, Ids
  <2>2. Enabled => OnCreate(Top, next_id) \in UndoState
    BY <2>1, TopType, RecordType
  <2>3. stack' \in Seq(UndoState)
    BY <1>2, <2>2, RecordedType DEF Emplace
  <2>4. objs' \in Tables
    BY <1>2, <2>1 DEF Emplace, Tables
  <2> QED BY <1>2, <2>1, <2>3, <2>4 DEF Emplace
<1>3. ASSUME NEW x \in Ids, NEW v \in Values, Modify(x, v) PROVE TypeOK'
  <2>1. objs[x] \in Values
    BY <1>3 DEF Modify, Tables
  <2>2. Enabled => OnModify(Top, x, objs[x]) \in UndoState
    BY <2>1, TopType, RecordType
  <2>3. stack' \in Seq(UndoState)
    BY <1>3, <2>2, RecordedType DEF Modify
  <2>4. objs' \in Tables
    BY <1>3 DEF Modify, Tables
  <2>5. failed' \in BOOLEAN
    BY <1>3 DEF Modify, Clashes
  <2> QED BY <1>3, <2>3, <2>4, <2>5 DEF Modify
<1>4. ASSUME NEW x \in Ids, Remove(x) PROVE TypeOK'
  <2>1. objs[x] \in Values
    BY <1>4 DEF Remove, Tables
  <2>2. Enabled => OnRemove(Top, x, objs[x]) \in UndoState
    BY <2>1, TopType, RecordType
  <2>3. stack' \in Seq(UndoState)
    BY <1>4, <2>2, RecordedType DEF Remove
  <2>4. objs' \in Tables
    BY <1>4 DEF Remove, Tables
  <2> QED BY <1>4, <2>3, <2>4 DEF Remove
<1>5. CASE Undo
  <2>1. Top \in UndoState /\ Popped \in Seq(UndoState)
    BY <1>5, TopType DEF Undo
  <2>2. CASE UndoFails(objs, Top)
    <3>1. objs' \in Tables
      BY <1>5, <2>1, <2>2, PartlyUndoneType DEF Undo
    <3> QED BY <1>5, <2>2, <3>1 DEF Undo
  <2>3. CASE ~UndoFails(objs, Top)
    <3>1. objs' \in Tables
      BY <1>5, <2>1, <2>3, UndoneType DEF Undo
    <3>2. next_id' \in 0 .. MaxId
      BY <1>5, <2>1, <2>3 DEF Undo, UndoState
    <3>3. stack' \in Seq(UndoState) /\ revision' \in Int /\ failed' = failed
      BY <1>5, <2>1, <2>3 DEF Undo
    <3> QED BY <3>1, <3>2, <3>3
  <2> QED BY <2>2, <2>3
<1>6. CASE Squash
  <2>1. CASE SquashLast
    BY <1>6, <2>1 DEF Squash, SquashLast
  <2>2. CASE SquashTwo
    <3>1. Enabled
      BY <2>2 DEF SquashTwo, Enabled
    <3>2. PICK n \in Nat : n = Len(stack)
      OBVIOUS
    <3>3. Top \in UndoState /\ Popped \in Seq(UndoState) /\ Len(Popped) = n - 1
      BY <3>1, <3>2, TopType
    <3>4. n > 1 /\ Popped[n - 1] \in UndoState
      BY <2>2, <3>2, <3>3 DEF SquashTwo
    <3>5. Merged(Popped[n - 1], Top) \in UndoState
      BY <3>3, <3>4, MergedType
    <3>6. stack' \in Seq(UndoState)
      BY <2>2, <3>2, <3>3, <3>4, <3>5 DEF SquashTwo
    <3> QED BY <1>6, <2>2, <3>6 DEF Squash, SquashTwo
  <2> QED BY <1>6, <2>1, <2>2 DEF Squash
<1>7. ASSUME NEW r \in 0 .. MaxRevision, Commit(r) PROVE TypeOK'
  BY <1>7 DEF Commit
<1>8. ASSUME NEW r \in 0 .. MaxRevision, SetRevision(r) PROVE TypeOK'
  BY <1>8 DEF SetRevision
<1>9. CASE UNCHANGED vars
  BY <1>9 DEF vars
<1> QED BY <1>1, <1>2, <1>3, <1>4, <1>5, <1>6, <1>7, <1>8, <1>9 DEF Next

\* Every variable of the index keeps its type, whatever is called.
THEOREM TypeCorrect == Spec => []TypeOK
BY TypeInit, TypeStep, PTL DEF Spec
-----------------------------------------------------------------------------
(* One record at a time: what each operation does to RecordAgrees, and to  *)
(* the value x had when the session began.                                 *)

SavedBy(s, x, after) == IF Touched(s, x) THEN Before(s, x) ELSE after

LEMMA CreateRecord ==
    ASSUME NEW s \in UndoState, NEW x \in Ids, NEW v \in Values,
           RecordAgrees(s, x, None), x >= s.old_next_id,
           SavedBy(s, x, None) # None => x < s.old_next_id
    PROVE  /\ RecordAgrees(OnCreate(s, x), x, v)
           /\ SavedBy(OnCreate(s, x), x, v) = SavedBy(s, x, None)
<1>0. v # None
  BY UndoIndexAssumption DEF Values
<1>1. x \notin s.new_ids /\ s.old_values[x] = None
  BY DEF RecordAgrees
<1>2. s.removed_values[x] = None
  <2> SUFFICES ASSUME s.removed_values[x] # None PROVE FALSE
    OBVIOUS
  <2>1. SavedBy(s, x, None) # None
    BY <1>1 DEF SavedBy, Touched, Before
  <2>2. x \in Int /\ s.old_next_id \in Int
    BY DEF Ids, UndoState
  <2> QED BY <2>1, <2>2
<1> DEFINE r == OnCreate(s, x)
<1>3. /\ r.new_ids = s.new_ids \cup {x}
      /\ r.old_values = s.old_values
      /\ r.removed_values = s.removed_values
      /\ r.old_next_id = s.old_next_id
  BY DEF OnCreate, UndoState
<1> HIDE DEF r
<1>4. RecordAgrees(r, x, v)
  BY <1>0, <1>1, <1>2, <1>3 DEF RecordAgrees
<1>5. SavedBy(r, x, v) = None /\ SavedBy(s, x, None) = None
  BY <1>1, <1>2, <1>3 DEF SavedBy, Touched, Before
<1> QED BY <1>4, <1>5 DEF r

LEMMA ModifyRecord ==
    ASSUME NEW s \in UndoState, NEW x \in Ids, NEW w \in Values, NEW v \in Values,
           RecordAgrees(s, x, w), ~MutableKeys => KeyOf(v) = KeyOf(w)
    PROVE  /\ RecordAgrees(OnModify(s, x, w), x, v)
           /\ SavedBy(OnModify(s, x, w), x, v) = SavedBy(s, x, w)
<1>0. v # None /\ w # None
  BY UndoIndexAssumption DEF Values
<1>1. CASE x \in s.new_ids \/ s.old_values[x] # None
  BY <1>0, <1>1 DEF OnModify, RecordAgrees, SavedBy, Touched
<1>2. CASE ~(x \in s.new_ids \/ s.old_values[x] # None)
  <2> DEFINE r == OnModify(s, x, w)
  <2>1. /\ r.new_ids = s.new_ids
        /\ r.old_values = [s.old_values EXCEPT ![x] = w]
        /\ r.removed_values = s.removed_values
        /\ r.old_next_id = s.old_next_id
    BY <1>2 DEF OnModify, UndoState
  <2>2. r.old_values[x] = w
    BY <2>1 DEF UndoState, Tables
  <2> HIDE DEF r
  <2>3. s.removed_values[x] = None
    BY <1>0 DEF RecordAgrees
  <2>4. RecordAgrees(r, x, v)
    BY <1>0, <1>2, <2>1, <2>2, <2>3 DEF RecordAgrees
  <2>5. SavedBy(r, x, v) = w /\ SavedBy(s, x, w) = w
    BY <1>0, <1>2, <2>1, <2>2, <2>3 DEF SavedBy, Touched, Before
  <2> QED BY <2>4, <2>5 DEF r
<1> QED BY <1>1, <1>2

LEMMA RemoveRecord ==
    ASSUME NEW s \in UndoState, NEW x \in Ids, NEW w \in Values,
           RecordAgrees(s, x, w)
    PROVE  /\ RecordAgrees(OnRemove(s, x, w), x, None)
           /\ SavedBy(OnRemove(s, x, w), x, None) = SavedBy(s, x, w)
<1>0. w # None
  BY UndoIndexAssumption DEF Values
<1>1. s.removed_values[x] = None
  BY <1>0 DEF RecordAgrees
<1> DEFINE r == OnRemove(s, x, w)
<1>2. CASE x \in s.new_ids
  <2>1. /\ r.new_ids = s.new_ids \ {x}
        /\ r.old_values = s.old_values
        /\ r.removed_values = s.removed_values
    BY <1>2 DEF OnRemove, UndoState
  <2>2. s.old_values[x] = None
    BY <1>2 DEF RecordAgrees
  <2> HIDE DEF r
  <2>3. RecordAgrees(r, x, None)
    BY <1>1, <2>1, <2>2 DEF RecordAgrees
  <2>4. SavedBy(r, x, None) = None /\ SavedBy(s, x, w) = None
    BY <1>1, <1>2, <2>1, <2>2 DEF SavedBy, Touched, Before
  <2> QED BY <2>3, <2>4 DEF r
<1>3. CASE x \notin s.new_ids /\ s.old_values[x] # None
  <2>1. /\ r.new_ids = s.new_ids
        /\ r.old_values[x] = None
        /\ r.removed_values[x] = s.old_values[x]
    BY <1>3 DEF OnRemove, UndoState, Tables
  <2> HIDE DEF r
  <2>2. RecordAgrees(r, x, None)
    BY <1>3, <2>1 DEF RecordAgrees
  <2>3. SavedBy(r, x, None) = s.old_values[x] /\ SavedBy(s, x, w) = s.old_values[x]
    BY <1>1, <1>3, <2>1 DEF SavedBy, Touched, Before
  <2> QED BY <2>2, <2>3 DEF r
<1>4. CASE x \notin s.new_ids /\ s.old_values[x] = None
  <2>1. /\ r.new_ids = s.new_ids
        /\ r.old_values = s.old_values
        /\ r.removed_values[x] = w
    BY <1>1, <1>4 DEF OnRemove, UndoState, Tables
  <2> HIDE DEF r
  <2>2. RecordAgrees(r, x, None)
    BY <1>4, <2>1 DEF RecordAgrees
  <2>3. SavedBy(r, x, None) = w /\ SavedBy(s, x, w) = w
    BY <1>0, <1>1, <1>4, <2>1 DEF SavedBy, Touched, Before
  <2> QED BY <2>2, <2>3 DEF r
<1> QED BY <1>2, <1>3, <1>4

\* An operation on x changes no record of another object.
LEMMA OtherRecords ==
    ASSUME NEW s \in UndoState, NEW x \in Ids, NEW y \in Ids, x # y,
           NEW w \in Values, NEW after,
           NEW r \in {OnCreate(s, x), OnModify(s, x, w), OnRemove(s, x, w)}
    PROVE  /\ RecordAgrees(r, y, after) <=> RecordAgrees(s, y, after)
           /\ SavedBy(r, y, after) = SavedBy(s, y, after)
           /\ r.old_next_id = s.old_next_id
<1>1. /\ y \in r.new_ids <=> y \in s.new_ids
      /\ r.old_values[y] = s.old_values[y]
      /\ r.removed_values[y] = s.removed_values[y]
      /\ r.old_next_id = s.old_next_id
  <2>1. CASE r = OnCreate(s, x)
    BY <2>1 DEF OnCreate, UndoState, Tables
  <2>2. CASE r = OnModify(s, x, w)
    BY <2>2 DEF OnModify, UndoState, Tables
  <2>3. CASE r = OnRemove(s, x, w)
    BY <2>3 DEF OnRemove, UndoState, Tables
  <2> QED BY <2>1, <2>2, <2>3
<1>2. RecordAgrees(r, y, after) <=> RecordAgrees(s, y, after)
  BY <1>1 DEF RecordAgrees
<1>3. SavedBy(r, y, after) = SavedBy(s, y, after)
  BY <1>1 DEF SavedBy, Touched, Before
<1> QED BY <1>1, <1>2, <1>3
\* Squash: the merged record says of x what the two said one after the other.
LEMMA MergeRecord ==
    ASSUME NEW a \in UndoState, NEW b \in UndoState, NEW x \in Ids,
           NEW after \in Values \cup {None},
           NEW mid, mid = SavedBy(b, x, after),
           RecordAgrees(a, x, mid), RecordAgrees(b, x, after),
           a.old_next_id <= b.old_next_id,
           SavedBy(a, x, mid) # None => x < a.old_next_id
    PROVE  /\ RecordAgrees(Merged(a, b), x, after)
           /\ SavedBy(Merged(a, b), x, after) = SavedBy(a, x, mid)
           /\ Merged(a, b).old_next_id = a.old_next_id
<1> DEFINE m    == Merged(a, b)
           ao   == a.old_values[x]
           ar   == a.removed_values[x]
           bo   == b.old_values[x]
           br   == b.removed_values[x]
           old  == IF bo # None /\ x \notin a.new_ids /\ ao = None THEN bo ELSE ao
           dead == br # None /\ x \notin a.new_ids /\ x \notin b.new_ids
<1>1. MergedOld(a, b)[x] = old
  BY DEF MergedOld
<1>2. x \in m.new_ids <=> (x \in a.new_ids \/ x \in b.new_ids) /\ br = None
  BY DEF Merged, UndoState
<1>3. m.old_values[x] = IF dead THEN None ELSE old
  BY <1>1 DEF Merged, UndoState
<1>4. m.removed_values[x] = IF ar # None \/ ~dead THEN ar
                            ELSE IF old # None THEN old ELSE br
  BY <1>1 DEF Merged, UndoState
<1>5. m.old_next_id = a.old_next_id
  BY DEF Merged, UndoState
<1>6. x \in Int /\ a.old_next_id \in Int /\ b.old_next_id \in Int
  BY DEF UndoState, Ids
<1>7. x \in b.new_ids => x \notin a.new_ids /\ ao = None /\ ar = None
  <2> SUFFICES ASSUME x \in b.new_ids PROVE x \notin a.new_ids /\ ao = None /\ ar = None
    OBVIOUS
  <2>1. mid = None /\ x >= b.old_next_id
    BY DEF RecordAgrees, SavedBy, Touched, Before
  <2>2. x \notin a.new_ids /\ ao = None
    BY <2>1 DEF RecordAgrees
  <2>3. ar # None => SavedBy(a, x, mid) # None
    BY <2>2 DEF SavedBy, Touched, Before
  <2>4. ~(x < a.old_next_id)
    BY <1>6, <2>1
  <2> QED BY <2>2, <2>3, <2>4
<1> HIDE DEF m
<1>8. CASE x \in b.new_ids
  <2>1. after # None /\ bo = None /\ br = None /\ mid = None /\ x >= b.old_next_id
    BY <1>8 DEF RecordAgrees, SavedBy, Touched, Before
  <2>2. x >= a.old_next_id
    BY <1>6, <2>1
  <2>3. x \in m.new_ids /\ m.old_values[x] = None /\ m.removed_values[x] = None
    BY <1>2, <1>3, <1>4, <1>7, <1>8, <2>1
  <2>4. RecordAgrees(m, x, after)
    BY <1>5, <2>1, <2>2, <2>3 DEF RecordAgrees
  <2>5. SavedBy(m, x, after) = None
    BY <2>3 DEF SavedBy, Touched, Before
  <2>6. SavedBy(a, x, mid) = None
    BY <1>7, <1>8, <2>1 DEF SavedBy, Touched, Before
  <2> QED BY <1>5, <2>4, <2>5, <2>6 DEF m
<1>9. CASE x \notin b.new_ids /\ bo # None
  <2>1. after # None /\ br = None /\ (~MutableKeys => KeyOf(after) = KeyOf(bo))
    BY <1>9 DEF RecordAgrees
  <2>2. mid = bo
    BY <1>9, <2>1 DEF SavedBy, Touched, Before
  <2>3. ar = None
    BY <1>9, <2>2 DEF RecordAgrees
  <2>4. /\ x \in m.new_ids <=> x \in a.new_ids
        /\ m.old_values[x] = IF x \notin a.new_ids /\ ao = None THEN bo ELSE ao
        /\ m.removed_values[x] = None
    BY <1>2, <1>3, <1>4, <1>9, <2>1, <2>3
  <2>5. RecordAgrees(m, x, after)
    BY <1>5, <1>9, <2>1, <2>2, <2>3, <2>4 DEF RecordAgrees
  <2>6. SavedBy(m, x, after) = SavedBy(a, x, mid)
    BY <1>9, <2>2, <2>3, <2>4 DEF RecordAgrees, SavedBy, Touched, Before
  <2> QED BY <1>5, <2>5, <2>6 DEF m
<1>10. CASE x \notin b.new_ids /\ bo = None /\ br # None
  <2>1. after = None /\ mid = br
    BY <1>10 DEF RecordAgrees, SavedBy, Touched, Before
  <2>2. ar = None
    BY <1>10, <2>1 DEF RecordAgrees
  <2>3. CASE x \in a.new_ids
    <3>1. ao = None
      BY <2>3 DEF RecordAgrees
    <3>2. x \notin m.new_ids /\ m.old_values[x] = None /\ m.removed_values[x] = None
      BY <1>2, <1>3, <1>4, <1>10, <2>2, <2>3, <3>1
    <3>3. RecordAgrees(m, x, after)
      BY <3>2 DEF RecordAgrees
    <3>4. SavedBy(m, x, after) = SavedBy(a, x, mid)
      BY <2>1, <2>2, <2>3, <3>1, <3>2 DEF SavedBy, Touched, Before
    <3> QED BY <1>5, <3>3, <3>4 DEF m
  <2>4. CASE x \notin a.new_ids
    <3>1. /\ x \notin m.new_ids /\ m.old_values[x] = None
          /\ m.removed_values[x] = IF ao # None THEN ao ELSE br
      BY <1>2, <1>3, <1>4, <1>10, <2>2, <2>4
    <3>2. RecordAgrees(m, x, after)
      BY <2>1, <3>1 DEF RecordAgrees
    <3>3. SavedBy(m, x, after) = SavedBy(a, x, mid)
      BY <1>10, <2>1, <2>2, <2>4, <3>1 DEF SavedBy, Touched, Before
    <3> QED BY <1>5, <3>2, <3>3 DEF m
  <2> QED BY <2>3, <2>4
<1>11. CASE x \notin b.new_ids /\ bo = None /\ br = None
  <2>1. mid = after
    BY <1>11 DEF SavedBy, Touched
  <2>2. /\ x \in m.new_ids <=> x \in a.new_ids
        /\ m.old_values[x] = ao
        /\ m.removed_values[x] = ar
    BY <1>2, <1>3, <1>4, <1>11
  <2>3. RecordAgrees(m, x, after)
    BY <1>5, <2>1, <2>2 DEF RecordAgrees
  <2>4. SavedBy(m, x, after) = SavedBy(a, x, mid)
    BY <2>1, <2>2 DEF SavedBy, Touched, Before
  <2> QED BY <1>5, <2>3, <2>4 DEF m
<1> QED BY <1>8, <1>9, <1>10, <1>11

\* When keys do not change, undo meets no obstacle.
LEMMA UndoSucceeds ==
    ASSUME ~MutableKeys, NEW s \in UndoState, NEW t \in Tables,
           \A x \in Ids : RecordAgrees(s, x, t[x]),
           UniqueKeys(t), UniqueKeys(Undone(t, s))
    PROVE  ~UndoFails(t, s)
<1> SUFFICES ASSUME NEW x \in Ids,
                    CannotRestore(t, s, x) \/ CannotErase(t, s, x) \/ CannotReinsert(t, s, x)
             PROVE  FALSE
  BY DEF UndoFails
<1>1. CASE CannotRestore(t, s, x)
  <2>1. s.old_values[x] # None /\ t[x] # None /\ KeyOf(t[x]) = KeyOf(s.old_values[x])
    BY <1>1 DEF CannotRestore, RecordAgrees
  <2>2. PICK y \in Ids \ {x} : /\ RestoredBelow(t, s, x)[y] # None
                               /\ KeyOf(RestoredBelow(t, s, x)[y]) = KeyOf(s.old_values[x])
    BY <1>1, <2>1 DEF CannotRestore, Clashes
  <2>3. t[y] # None /\ KeyOf(t[y]) = KeyOf(RestoredBelow(t, s, x)[y])
    <3>1. CASE s.old_values[y] # None
      BY <3>1 DEF RestoredBelow, RecordAgrees
    <3>2. CASE s.old_values[y] = None
      BY <2>2, <3>2 DEF RestoredBelow
    <3> QED BY <3>1, <3>2
  <2>4. Clashes(t, x, t[x])
    BY <2>1, <2>2, <2>3 DEF Clashes
  <2> QED BY <2>1, <2>4 DEF UniqueKeys
<1>2. CASE CannotErase(t, s, x)
  BY <1>2 DEF CannotErase, RecordAgrees
<1>3. CASE CannotReinsert(t, s, x)
  <2>1. s.removed_values[x] # None /\ t[x] = None
    BY <1>3 DEF CannotReinsert, RecordAgrees
  <2>2. Clashes(Undone(t, s), x, s.removed_values[x])
    BY <1>3, <2>1 DEF CannotReinsert
  <2>3. s.old_values[x] = None
    BY <2>1 DEF RecordAgrees
  <2>4. Undone(t, s)[x] = s.removed_values[x]
    BY <2>1, <2>3 DEF Undone, Touched, Before
  <2> QED BY <2>1, <2>2, <2>4 DEF UniqueKeys
<1> QED BY <1>1, <1>2, <1>3
-----------------------------------------------------------------------------
(* The invariant of a history h over a table t with next id d, level by    *)
(* level, and the two ways a step carries it over.                         *)

GoodLevel(h, t, d, i) ==
    /\ \A x \in Ids : SavedValue(h, t, i, x) # None => x < SavedNextId(h, d, i)
    /\ UniqueKeys(SavedTable(h, t, i))

GoodRecord(h, t, d, i) ==
    /\ \A x \in Ids : RecordAgrees(h[i], x, SavedValue(h, t, i + 1, x))
    /\ SavedNextId(h, d, i) <= SavedNextId(h, d, i + 1)

Good(h, t, d) ==
    /\ \A i \in 1 .. Len(h) + 1 : GoodLevel(h, t, d, i)
    /\ \A i \in 1 .. Len(h) : GoodRecord(h, t, d, i)

LEMMA SavedType ==
    ASSUME NEW h \in Seq(UndoState), NEW t \in Tables, NEW n \in Nat, n = Len(h),
           NEW i \in 1 .. n + 1
    PROVE  SavedTable(h, t, i) \in Tables
<1> SUFFICES ASSUME NEW x \in Ids PROVE SavedValue(h, t, i, x) \in Values \cup {None}
  BY DEF SavedTable, Tables
<1>1. CASE TouchedFrom(h, i, x) = {}
  BY <1>1 DEF SavedValue, Tables
<1>2. CASE TouchedFrom(h, i, x) # {}
  <2>1. TouchedFrom(h, i, x) \in SUBSET Nat
    BY DEF TouchedFrom
  <2>2. Oldest(TouchedFrom(h, i, x)) \in TouchedFrom(h, i, x)
    BY <1>2, <2>1, OldestIs
  <2>3. h[Oldest(TouchedFrom(h, i, x))] \in UndoState
    BY <2>2 DEF TouchedFrom
  <2> QED BY <1>2, <2>3, BeforeType DEF SavedValue
<1> QED BY <1>1, <1>2

\* A level is the record above it applied to the next level.
LEMMA SavedStep ==
    ASSUME NEW h \in Seq(UndoState), NEW t \in Tables, NEW n \in Nat, n = Len(h),
           NEW i \in 1 .. n, NEW x \in Ids
    PROVE  SavedValue(h, t, i, x) = SavedBy(h[i], x, SavedValue(h, t, i + 1, x))
BY SavedTouched, SavedUntouched DEF SavedBy

\* The first m states and the level above them are the same.
SamePrefix(h, t, d, g, u, e, m) ==
    /\ m <= Len(h)
    /\ \A j \in 1 .. m : g[j] = h[j]
    /\ \A x \in Ids : SavedValue(g, u, m + 1, x) = SavedValue(h, t, m + 1, x)
    /\ SavedNextId(g, e, m + 1) = SavedNextId(h, d, m + 1)

\* The state s agrees with the table above it.
GoodLast(s, u, e) ==
    /\ \A x \in Ids : RecordAgrees(s, x, u[x])
    /\ s.old_next_id <= e
    /\ \A x \in Ids : u[x] # None => x < e
    /\ UniqueKeys(u)

\* The first m states are kept and so is the level above them; at most one
\* state lies above that level.
LEMMA GoodPrefix ==
    ASSUME NEW h \in Seq(UndoState), NEW t \in Tables, NEW d \in Nat,
           NEW g \in Seq(UndoState), NEW u \in Tables, NEW e \in Nat,
           NEW m \in Nat, SamePrefix(h, t, d, g, u, e, m),
           Len(g) = m \/ (Len(g) = m + 1 /\ GoodLast(g[m + 1], u, e)),
           Good(h, t, d)
    PROVE  /\ Good(g, u, e)
           /\ \A i \in 1 .. m + 1 : SavedTable(g, u, i) = SavedTable(h, t, i)
<1> USE DEF SamePrefix
<1> PICK n \in Nat : n = Len(h)
  OBVIOUS
<1> PICK l \in Nat : l = Len(g)
  OBVIOUS
<1>0. m <= n /\ (l = m \/ l = m + 1)
  OBVIOUS
<1>1. ASSUME NEW i \in 1 .. m + 1, NEW x \in Ids
      PROVE  SavedValue(g, u, i, x) = SavedValue(h, t, i, x)
  <2>1. m <= Len(h) /\ m <= Len(g)
    BY <1>0
  <2> QED BY <2>1, SavedPrefix
<1>2. \A i \in 1 .. m + 1 : SavedTable(g, u, i) = SavedTable(h, t, i)
  BY <1>1 DEF SavedTable
<1>3. \A i \in 1 .. m + 1 : SavedNextId(g, e, i) = SavedNextId(h, d, i)
  <2> SUFFICES ASSUME NEW i \in 1 .. m PROVE SavedNextId(g, e, i) = SavedNextId(h, d, i)
    OBVIOUS
  <2>1. ~(i > Len(g)) /\ ~(i > Len(h))
    OBVIOUS
  <2> QED BY <2>1 DEF SavedNextId
<1>4. ASSUME NEW i \in 1 .. m + 1 PROVE GoodLevel(g, u, e, i)
  <2>1. GoodLevel(h, t, d, i)
    BY DEF Good
  <2> QED BY <1>1, <1>2, <1>3, <2>1 DEF GoodLevel
<1>5. ASSUME NEW i \in 1 .. m PROVE GoodRecord(g, u, e, i)
  <2>1. GoodRecord(h, t, d, i)
    BY DEF Good
  <2>2. i \in 1 .. m + 1 /\ i + 1 \in 1 .. m + 1
    OBVIOUS
  <2>3. g[i] = h[i]
    OBVIOUS
  <2> QED BY <1>1, <1>3, <2>1, <2>2, <2>3 DEF GoodRecord
<1>6. CASE l = m
  BY <1>2, <1>4, <1>5, <1>6 DEF Good
<1>7. CASE l = m + 1 /\ GoodLast(g[m + 1], u, e)
  <2>1. \A x \in Ids : SavedValue(g, u, l + 1, x) = u[x]
    BY SavedAbove
  <2>2. SavedTable(g, u, l + 1) = u
    BY <2>1 DEF SavedTable, Tables
  <2>3. SavedNextId(g, e, l + 1) = e
    BY DEF SavedNextId
  <2>4. SavedNextId(g, e, l) = g[l].old_next_id
    BY DEF SavedNextId
  <2>5. GoodLevel(g, u, e, l + 1)
    BY <1>7, <2>1, <2>2, <2>3 DEF GoodLevel, GoodLast
  <2>6. GoodRecord(g, u, e, l)
    BY <1>7, <2>1, <2>3, <2>4 DEF GoodRecord, GoodLast
  <2> QED BY <1>2, <1>4, <1>5, <1>7, <2>5, <2>6 DEF Good
<1> QED BY <1>6, <1>7

\* g is h, of length n, without its k oldest states.
Shifted(h, g, n, k) == n = Len(h) /\ g = SubSeq(h, k + 1, n)

LEMMA GoodShift ==
    ASSUME NEW h \in Seq(UndoState), NEW t \in Tables, NEW d \in Nat,
           NEW n \in Nat, NEW k \in 0 .. n,
           NEW g \in Seq(UndoState), Shifted(h, g, n, k),
           Good(h, t, d)
    PROVE  /\ Good(g, t, d)
           /\ Len(g) = n - k
           /\ \A i \in 1 .. n - k + 1 : SavedTable(g, t, i) = SavedTable(h, t, i + k)
           /\ \A i \in 1 .. n - k : g[i] = h[i + k]
<1> USE DEF Shifted
<1>1. Len(g) = n - k /\ \A i \in 1 .. n - k : g[i] = h[i + k]
  OBVIOUS
<1>2. ASSUME NEW i \in 1 .. n - k + 1, NEW x \in Ids
      PROVE  SavedValue(g, t, i, x) = SavedValue(h, t, i + k, x)
  <2>1. i \in 1 .. Len(g) + 1 /\ k \in 0 .. Len(h) /\ g = SubSeq(h, k + 1, Len(h))
    BY <1>1
  <2> QED BY <2>1, SavedShift
<1>3. \A i \in 1 .. n - k + 1 : SavedTable(g, t, i) = SavedTable(h, t, i + k)
  BY <1>2 DEF SavedTable
<1>4. ASSUME NEW i \in 1 .. n - k + 1
      PROVE  SavedNextId(g, d, i) = SavedNextId(h, d, i + k)
  BY <1>1 DEF SavedNextId
<1>5. ASSUME NEW i \in 1 .. n - k + 1 PROVE GoodLevel(g, t, d, i)
  <2>1. GoodLevel(h, t, d, i + k)
    BY DEF Good
  <2> QED BY <1>2, <1>3, <1>4, <2>1 DEF GoodLevel
<1>6. ASSUME NEW i \in 1 .. n - k PROVE GoodRecord(g, t, d, i)
  <2>1. GoodRecord(h, t, d, i + k)
    BY DEF Good
  <2>2. /\ SavedNextId(g, d, i) = SavedNextId(h, d, i + k)
        /\ SavedNextId(g, d, i + 1) = SavedNextId(h, d, i + k + 1)
        /\ \A x \in Ids : SavedValue(g, t, i + 1, x) = SavedValue(h, t, i + k + 1, x)
    <3>1. i \in 1 .. n - k + 1 /\ i + 1 \in 1 .. n - k + 1 /\ (i + 1) + k = i + k + 1
      OBVIOUS
    <3> QED BY <1>2, <1>4, <3>1
  <2>3. g[i] = h[i + k]
    BY <1>1
  <2> QED BY <2>1, <2>2, <2>3 DEF GoodRecord
<1> QED BY <1>1, <1>3, <1>5, <1>6 DEF Good
\* A table without a history.
LEMMA GoodEmpty ==
    ASSUME NEW u \in Tables, NEW e \in Nat,
           \A x \in Ids : u[x] # None => x < e, UniqueKeys(u)
    PROVE  Good(<<>>, u, e)
<1>1. <<>> \in Seq(UndoState) /\ Len(<<>>) = 0
  OBVIOUS
<1>2. \A x \in Ids : SavedValue(<<>>, u, 1, x) = u[x]
  <2>1. \A x \in Ids : SavedValue(<<>>, u, Len(<<>>) + 1, x) = u[x]
    BY <1>1, SavedAbove
  <2>2. Len(<<>>) + 1 = 1
    OBVIOUS
  <2> QED BY <2>1, <2>2
<1>3. SavedTable(<<>>, u, 1) = u
  BY <1>2 DEF SavedTable, Tables
<1>4. SavedNextId(<<>>, e, 1) = e
  BY <1>1 DEF SavedNextId
<1>5. GoodLevel(<<>>, u, e, 1)
  BY <1>2, <1>3, <1>4 DEF GoodLevel
<1>6. \A i \in 1 .. Len(<<>>) + 1 : i = 1
  OBVIOUS
<1>7. \A i \in 1 .. Len(<<>>) : FALSE
  OBVIOUS
<1> QED BY <1>5, <1>6, <1>7 DEF Good

\* What the youngest level of a good history says.
LEMMA GoodTop ==
    ASSUME NEW h \in Seq(UndoState), NEW t \in Tables, NEW d \in Nat,
           NEW n \in Nat, n = Len(h), Good(h, t, d)
    PROVE  /\ \A x \in Ids : t[x] # None => x < d
           /\ UniqueKeys(t)
           /\ n >= 1 => /\ \A x \in Ids : RecordAgrees(h[n], x, t[x])
                        /\ h[n].old_next_id <= d
                        /\ \A x \in Ids : SavedValue(h, t, n, x) = SavedBy(h[n], x, t[x])
                        /\ \A x \in Ids : SavedBy(h[n], x, t[x]) # None => x < h[n].old_next_id
                        /\ UniqueKeys(Undone(t, h[n]))
                        /\ SavedTable(h, t, n) = Undone(t, h[n])
<1>1. \A x \in Ids : SavedValue(h, t, n + 1, x) = t[x]
  BY SavedAbove
<1>2. SavedTable(h, t, n + 1) = t
  BY <1>1 DEF SavedTable, Tables
<1>3. SavedNextId(h, d, n + 1) = d
  BY DEF SavedNextId
<1>4. GoodLevel(h, t, d, n + 1)
  BY DEF Good
<1>5. ASSUME n >= 1
      PROVE  /\ \A x \in Ids : RecordAgrees(h[n], x, t[x])
             /\ h[n].old_next_id <= d
             /\ \A x \in Ids : SavedValue(h, t, n, x) = SavedBy(h[n], x, t[x])
             /\ \A x \in Ids : SavedBy(h[n], x, t[x]) # None => x < h[n].old_next_id
             /\ UniqueKeys(Undone(t, h[n]))
             /\ SavedTable(h, t, n) = Undone(t, h[n])
  <2>1. GoodRecord(h, t, d, n) /\ GoodLevel(h, t, d, n)
    BY <1>5 DEF Good
  <2>2. SavedNextId(h, d, n) = h[n].old_next_id
    BY DEF SavedNextId
  <2>3. n \in 1 .. n
    BY <1>5
  <2>4. \A x \in Ids : SavedValue(h, t, n, x) = SavedBy(h[n], x, t[x])
    BY <1>1, <2>3, SavedStep
  <2>5. SavedTable(h, t, n) = Undone(t, h[n])
    BY <2>4 DEF SavedTable, Undone, SavedBy
  <2> QED BY <1>1, <1>3, <2>1, <2>2, <2>4, <2>5 DEF GoodRecord, GoodLevel
<1> QED BY <1>1, <1>2, <1>3, <1>4, <1>5 DEF GoodLevel

\* The table t becomes u and the youngest of the n states of h records it.
Rewritten(h, t, g, u, n) ==
    /\ n >= 1 /\ n = Len(h) /\ n = Len(g)
    /\ \A j \in 1 .. n - 1 : g[j] = h[j]
    /\ \A x \in Ids : RecordAgrees(g[n], x, u[x])
    /\ \A x \in Ids : SavedBy(g[n], x, u[x]) = SavedBy(h[n], x, t[x])
    /\ g[n].old_next_id = h[n].old_next_id

LEMMA GoodWrite ==
    ASSUME NEW h \in Seq(UndoState), NEW t \in Tables, NEW d \in Nat,
           NEW g \in Seq(UndoState), NEW u \in Tables, NEW e \in Nat,
           NEW n \in Nat, Rewritten(h, t, g, u, n),
           Good(h, t, d), d <= e,
           \A x \in Ids : u[x] # None => x < e,
           UniqueKeys(u)
    PROVE  /\ Good(g, u, e)
           /\ \A i \in 1 .. n : SavedTable(g, u, i) = SavedTable(h, t, i)
           /\ \A i \in 1 .. n : g[i].old_next_id = h[i].old_next_id
<1> USE DEF Rewritten
<1>1. n = Len(g) /\ n = Len(h) /\ n >= 1
  OBVIOUS
<1>2. n \in 1 .. n
  OBVIOUS
<1>3. ASSUME NEW x \in Ids PROVE SavedValue(g, u, n, x) = SavedValue(h, t, n, x)
  <2>1. SavedValue(g, u, n, x) = SavedBy(g[n], x, SavedValue(g, u, n + 1, x))
    BY <1>1, <1>2, SavedStep
  <2>2. SavedValue(g, u, n + 1, x) = u[x]
    BY <1>1, SavedAbove
  <2>3. SavedValue(h, t, n, x) = SavedBy(h[n], x, SavedValue(h, t, n + 1, x))
    BY <1>1, <1>2, SavedStep
  <2>4. SavedValue(h, t, n + 1, x) = t[x]
    BY <1>1, SavedAbove
  <2> QED BY <2>1, <2>2, <2>3, <2>4
<1>4. SavedNextId(g, e, n) = g[n].old_next_id /\ SavedNextId(h, d, n) = h[n].old_next_id
  BY <1>1 DEF SavedNextId
<1>5. g[n].old_next_id <= e
  <2>1. h[n].old_next_id <= d
    BY <1>1, GoodTop
  <2>2. h[n].old_next_id \in Int
    <3>1. h[n] \in UndoState
      BY <1>1, <1>2
    <3> QED BY <3>1 DEF UndoState
  <2> QED BY <1>1, <2>1, <2>2
<1>6. n - 1 \in Nat
  OBVIOUS
<1>7. PICK m \in Nat : m = n - 1
  BY <1>6
<1>8. m + 1 = n /\ m <= n /\ n \in {m, m + 1}
  BY <1>7
<1>9. \A j \in 1 .. m : g[j] = h[j]
  BY <1>7
<1>10. SamePrefix(h, t, d, g, u, e, m)
  BY <1>3, <1>4, <1>8, <1>9 DEF SamePrefix
<1>11. Len(g) = m + 1 /\ GoodLast(g[m + 1], u, e)
  BY <1>5, <1>8 DEF GoodLast
<1>12. Good(g, u, e) /\ \A i \in 1 .. m + 1 : SavedTable(g, u, i) = SavedTable(h, t, i)
  BY <1>10, <1>11, GoodPrefix
<1>13. \A i \in 1 .. n : g[i].old_next_id = h[i].old_next_id
  OBVIOUS
<1> QED BY <1>8, <1>12, <1>13
-----------------------------------------------------------------------------
(* The steps.  With keys that do not change, the history stays good and    *)
(* the snapshots read back from it change as SnapshotStore says.           *)

IndInv ==
    /\ TypeOK
    /\ ~failed
    /\ Good(stack, objs, next_id)

\* The snapshots keep their tables and next ids.
LEMMA SameSaved ==
    ASSUME NEW n \in Nat, Len(stack) = n, Len(stack') = n,
           \A i \in 1 .. n : SavedTable(stack', objs', i) = SavedTable(stack, objs, i),
           \A i \in 1 .. n : (stack'[i]).old_next_id = stack[i].old_next_id
    PROVE  Saved' = Saved
BY DEF Saved

\* The table changes at one id and the youngest state, if any, becomes r.
LEMMA WriteStep ==
    ASSUME IndInv, TypeOK', NEW r, next_id <= next_id',
           Enabled => /\ r \in UndoState
                      /\ r.old_next_id = Top.old_next_id
                      /\ \A x \in Ids : RecordAgrees(r, x, objs'[x])
                      /\ \A x \in Ids : SavedBy(r, x, objs'[x]) = SavedBy(Top, x, objs[x]),
           stack' = Recorded(r),
           \A x \in Ids : objs'[x] # None => x < next_id',
           UniqueKeys(objs')
    PROVE  Good(stack, objs, next_id)' /\ Saved' = Saved
<1> USE DEF IndInv, TypeOK
<1> PICK n \in Nat : n = Len(stack)
  OBVIOUS
<1>1. next_id \in Nat /\ next_id' \in Nat
  OBVIOUS
<1>2. CASE ~Enabled
  <2>1. stack = <<>> /\ stack' = <<>>
    BY <1>2 DEF Enabled, Recorded
  <2>2. Good(<<>>, objs', next_id')
    BY <1>1, GoodEmpty
  <2>3. Saved' = Saved
    BY <2>1 DEF Saved
  <2> QED BY <2>1, <2>2, <2>3
<1>3. CASE Enabled
  <2>1. n >= 1 /\ Top = stack[n]
    BY <1>3, TopType
  <2>2. /\ Len(stack') = n
        /\ stack'[n] = r
        /\ \A j \in 1 .. n - 1 : stack'[j] = stack[j]
    BY <1>3, <2>1 DEF Recorded
  <2>3. Rewritten(stack, objs, stack', objs', n)
    BY <1>3, <2>1, <2>2 DEF Rewritten
  <2>4. /\ Good(stack', objs', next_id')
        /\ \A i \in 1 .. n : SavedTable(stack', objs', i) = SavedTable(stack, objs, i)
        /\ \A i \in 1 .. n : (stack'[i]).old_next_id = stack[i].old_next_id
    BY <1>1, <2>3, GoodWrite
  <2>5. Saved' = Saved
    BY <2>2, <2>4, SameSaved
  <2> QED BY <2>4, <2>5
<1> QED BY <1>2, <1>3
LEMMA EmplaceStep ==
    ASSUME ~MutableKeys, IndInv, TypeOK', NEW v \in Values, Emplace(v)
    PROVE  IndInv' /\ Store!Write
<1> USE DEF IndInv, TypeOK
<1> PICK n \in Nat : n = Len(stack)
  OBVIOUS
<1> DEFINE x == next_id
           r == OnCreate(Top, x)
<1>0. v # None
  BY UndoIndexAssumption DEF Values
<1>1. x \in Ids /\ x \in Nat /\ next_id' = x + 1 /\ next_id' \in Nat
  BY UndoIndexAssumption DEF Emplace, Ids
<1>2. /\ \A y \in Ids : objs[y] # None => y < next_id
      /\ UniqueKeys(objs)
  BY <1>1, GoodTop
<1>3. objs[x] = None
  BY <1>1, <1>2
<1>4. objs'[x] = v /\ \A y \in Ids \ {x} : objs'[y] = objs[y]
  BY <1>1 DEF Emplace, Tables
<1>5. Enabled => /\ r \in UndoState
                 /\ r.old_next_id = Top.old_next_id
                 /\ \A y \in Ids : RecordAgrees(r, y, objs'[y])
                 /\ \A y \in Ids : SavedBy(r, y, objs'[y]) = SavedBy(Top, y, objs[y])
  <2> SUFFICES ASSUME Enabled
               PROVE  /\ r \in UndoState
                      /\ r.old_next_id = Top.old_next_id
                      /\ \A y \in Ids : RecordAgrees(r, y, objs'[y])
                      /\ \A y \in Ids : SavedBy(r, y, objs'[y]) = SavedBy(Top, y, objs[y])
    OBVIOUS
  <2>1. n >= 1 /\ Top = stack[n] /\ Top \in UndoState
    BY TopType
  <2>2. /\ \A y \in Ids : RecordAgrees(Top, y, objs[y])
        /\ Top.old_next_id <= next_id
        /\ \A y \in Ids : SavedBy(Top, y, objs[y]) # None => y < Top.old_next_id
    BY <1>1, <2>1, GoodTop
  <2>3. Top.old_next_id \in Nat
    BY <2>1 DEF UndoState
  <2>4. x >= Top.old_next_id
    BY <1>1, <2>2, <2>3
  <2>5. RecordAgrees(r, x, v) /\ SavedBy(r, x, v) = SavedBy(Top, x, None)
    BY <1>1, <1>3, <2>1, <2>2, <2>4, CreateRecord
  <2>6. ASSUME NEW y \in Ids, y # x
        PROVE  /\ RecordAgrees(r, y, objs[y])
               /\ SavedBy(r, y, objs[y]) = SavedBy(Top, y, objs[y])
    BY <1>1, <2>1, <2>2, <2>6, OtherRecords
  <2>7. r \in UndoState
    BY <1>1, <2>1, RecordType
  <2>8. r.old_next_id = Top.old_next_id
    BY <2>1 DEF OnCreate, UndoState
  <2>9. \A y \in Ids : /\ RecordAgrees(r, y, objs'[y])
                       /\ SavedBy(r, y, objs'[y]) = SavedBy(Top, y, objs[y])
    BY <1>3, <1>4, <2>5, <2>6
  <2> QED BY <2>7, <2>8, <2>9
<1>6. \A y \in Ids : objs'[y] # None => y < next_id'
  <2> SUFFICES ASSUME NEW y \in Ids, objs'[y] # None PROVE y < x + 1
    BY <1>1
  <2>1. y \in Int
    BY DEF Ids
  <2> QED BY <1>1, <1>2, <1>4, <2>1
<1>7. UniqueKeys(objs')
  <2>1. ~Clashes(objs, x, v)
    BY DEF Emplace
  <2> SUFFICES ASSUME NEW y \in Ids, objs'[y] # None,
                      NEW z \in Ids \ {y}, objs'[z] # None, KeyOf(objs'[z]) = KeyOf(objs'[y])
               PROVE  FALSE
    BY DEF UniqueKeys, Clashes
  <2>2. CASE y = x
    BY <1>4, <2>1, <2>2 DEF Clashes
  <2>3. CASE z = x
    BY <1>4, <2>1, <2>3 DEF Clashes
  <2>4. CASE y # x /\ z # x
    BY <1>2, <1>4, <2>4 DEF UniqueKeys, Clashes
  <2> QED BY <2>2, <2>3, <2>4
<1>8. stack' = Recorded(r) /\ next_id <= next_id'
  BY <1>1 DEF Emplace
<1>9. Good(stack, objs, next_id)' /\ Saved' = Saved
  BY <1>5, <1>6, <1>7, <1>8, WriteStep
<1>10. Store!Write
  BY <1>1, <1>9 DEF Store!Write, Store!Tables, Store!Ids, Store!Values, Tables, Ids, Values, Emplace
<1> QED BY <1>9, <1>10 DEF Emplace

LEMMA ModifyStep ==
    ASSUME ~MutableKeys, IndInv, TypeOK', NEW x \in Ids, NEW v \in Values, Modify(x, v)
    PROVE  IndInv' /\ Store!Write
<1> USE DEF IndInv, TypeOK
<1> PICK n \in Nat : n = Len(stack)
  OBVIOUS
<1> DEFINE w == objs[x]
           r == OnModify(Top, x, w)
<1>0. v # None
  BY UndoIndexAssumption DEF Values
<1>1. w # None /\ w \in Values /\ KeyOf(v) = KeyOf(w)
  BY DEF Modify, Tables
<1>2. /\ next_id \in Nat
      /\ \A y \in Ids : objs[y] # None => y < next_id
      /\ UniqueKeys(objs)
  BY GoodTop
<1>3. failed' = FALSE
  <2>1. ~Clashes(objs, x, w)
    BY <1>1, <1>2 DEF UniqueKeys
  <2>2. ~Clashes(objs, x, v)
    BY <1>1, <2>1 DEF Clashes
  <2> QED BY <2>2 DEF Modify
<1>4. objs'[x] = v /\ \A y \in Ids \ {x} : objs'[y] = objs[y]
  BY <1>3 DEF Modify, Tables
<1>5. Enabled => /\ r \in UndoState
                 /\ r.old_next_id = Top.old_next_id
                 /\ \A y \in Ids : RecordAgrees(r, y, objs'[y])
                 /\ \A y \in Ids : SavedBy(r, y, objs'[y]) = SavedBy(Top, y, objs[y])
  <2> SUFFICES ASSUME Enabled
               PROVE  /\ r \in UndoState
                      /\ r.old_next_id = Top.old_next_id
                      /\ \A y \in Ids : RecordAgrees(r, y, objs'[y])
                      /\ \A y \in Ids : SavedBy(r, y, objs'[y]) = SavedBy(Top, y, objs[y])
    OBVIOUS
  <2>1. n >= 1 /\ Top = stack[n] /\ Top \in UndoState
    BY TopType
  <2>2. \A y \in Ids : RecordAgrees(Top, y, objs[y])
    BY <1>2, <2>1, GoodTop
  <2>3. RecordAgrees(r, x, v) /\ SavedBy(r, x, v) = SavedBy(Top, x, w)
    BY <1>1, <2>1, <2>2, ModifyRecord
  <2>4. ASSUME NEW y \in Ids, y # x
        PROVE  /\ RecordAgrees(r, y, objs[y])
               /\ SavedBy(r, y, objs[y]) = SavedBy(Top, y, objs[y])
    BY <1>1, <2>1, <2>2, <2>4, OtherRecords
  <2>5. r \in UndoState
    BY <1>1, <2>1, RecordType
  <2>6. r.old_next_id = Top.old_next_id
    BY <2>1 DEF OnModify, UndoState
  <2>7. \A y \in Ids : /\ RecordAgrees(r, y, objs'[y])
                       /\ SavedBy(r, y, objs'[y]) = SavedBy(Top, y, objs[y])
    BY <1>4, <2>3, <2>4
  <2> QED BY <2>5, <2>6, <2>7
<1>6. next_id' = next_id /\ \A y \in Ids : objs'[y] # None => y < next_id'
  BY <1>1, <1>2, <1>4 DEF Modify
<1>7. UniqueKeys(objs')
  <2>1. \A y \in Ids : objs'[y] # None => objs[y] # None /\ KeyOf(objs'[y]) = KeyOf(objs[y])
    BY <1>1, <1>4
  <2> QED BY <1>2, <2>1 DEF UniqueKeys, Clashes
<1>8. stack' = Recorded(r) /\ next_id <= next_id'
  BY <1>2, <1>6 DEF Modify
<1>9. Good(stack, objs, next_id)' /\ Saved' = Saved
  BY <1>5, <1>6, <1>7, <1>8, WriteStep
<1>10. Store!Write
  BY <1>6, <1>9 DEF Store!Write, Store!Tables, Store!Ids, Store!Values, Tables, Ids, Values, Modify
<1> QED BY <1>3, <1>9, <1>10
LEMMA RemoveStep ==
    ASSUME ~MutableKeys, IndInv, TypeOK', NEW x \in Ids, Remove(x)
    PROVE  IndInv' /\ Store!Write
<1> USE DEF IndInv, TypeOK
<1> PICK n \in Nat : n = Len(stack)
  OBVIOUS
<1> DEFINE w == objs[x]
           r == OnRemove(Top, x, w)
<1>1. w # None /\ w \in Values
  BY DEF Remove, Tables
<1>2. /\ next_id \in Nat
      /\ \A y \in Ids : objs[y] # None => y < next_id
      /\ UniqueKeys(objs)
  BY GoodTop
<1>3. objs'[x] = None /\ \A y \in Ids \ {x} : objs'[y] = objs[y]
  BY DEF Remove, Tables
<1>4. Enabled => /\ r \in UndoState
                 /\ r.old_next_id = Top.old_next_id
                 /\ \A y \in Ids : RecordAgrees(r, y, objs'[y])
                 /\ \A y \in Ids : SavedBy(r, y, objs'[y]) = SavedBy(Top, y, objs[y])
  <2> SUFFICES ASSUME Enabled
               PROVE  /\ r \in UndoState
                      /\ r.old_next_id = Top.old_next_id
                      /\ \A y \in Ids : RecordAgrees(r, y, objs'[y])
                      /\ \A y \in Ids : SavedBy(r, y, objs'[y]) = SavedBy(Top, y, objs[y])
    OBVIOUS
  <2>1. n >= 1 /\ Top = stack[n] /\ Top \in UndoState
    BY TopType
  <2>2. \A y \in Ids : RecordAgrees(Top, y, objs[y])
    BY <1>2, <2>1, GoodTop
  <2>3. RecordAgrees(r, x, None) /\ SavedBy(r, x, None) = SavedBy(Top, x, w)
    BY <1>1, <2>1, <2>2, RemoveRecord
  <2>4. ASSUME NEW y \in Ids, y # x
        PROVE  /\ RecordAgrees(r, y, objs[y])
               /\ SavedBy(r, y, objs[y]) = SavedBy(Top, y, objs[y])
    BY <1>1, <2>1, <2>2, <2>4, OtherRecords
  <2>5. r \in UndoState
    BY <1>1, <2>1, RecordType
  <2>6. r.old_next_id = Top.old_next_id
    BY <2>1 DEF OnRemove, UndoState
  <2>7. \A y \in Ids : /\ RecordAgrees(r, y, objs'[y])
                       /\ SavedBy(r, y, objs'[y]) = SavedBy(Top, y, objs[y])
    BY <1>3, <2>3, <2>4
  <2> QED BY <2>5, <2>6, <2>7
<1>5. next_id' = next_id /\ \A y \in Ids : objs'[y] # None => y < next_id'
  BY <1>1, <1>2, <1>3 DEF Remove
<1>6. UniqueKeys(objs')
  <2>1. \A y \in Ids : objs'[y] # None => objs[y] # None /\ objs'[y] = objs[y]
    BY <1>1, <1>3
  <2> QED BY <1>2, <2>1 DEF UniqueKeys, Clashes
<1>7. stack' = Recorded(r) /\ next_id <= next_id'
  BY <1>2, <1>5 DEF Remove
<1>8. Good(stack, objs, next_id)' /\ Saved' = Saved
  BY <1>4, <1>5, <1>6, <1>7, WriteStep
<1>9. Store!Write
  BY <1>5, <1>8 DEF Store!Write, Store!Tables, Store!Ids, Store!Values, Tables, Ids, Values, Remove
<1> QED BY <1>8, <1>9 DEF Remove

LEMMA StartStep ==
    ASSUME IndInv, TypeOK', StartUndoSession
    PROVE  IndInv' /\ Store!Begin
<1> USE DEF IndInv, TypeOK
<1> PICK n \in Nat : n = Len(stack)
  OBVIOUS
<1> DEFINE r == [old_values |-> EmptyTable, removed_values |-> EmptyTable,
                 new_ids |-> {}, old_next_id |-> next_id, revision |-> revision']
<1>1. stack' = Append(stack, r) /\ objs' = objs /\ next_id' = next_id
  BY DEF StartUndoSession
<1>2. Len(stack') = n + 1 /\ stack'[n + 1] = r /\ \A j \in 1 .. n : stack'[j] = stack[j]
  BY <1>1
<1>3. \A x \in Ids : ~Touched(r, x) /\ RecordAgrees(r, x, objs[x])
  BY DEF Touched, RecordAgrees, EmptyTable
<1>4. next_id \in Nat /\ UniqueKeys(objs) /\ \A x \in Ids : objs[x] # None => x < next_id
  BY GoodTop
<1>5. r.old_next_id = next_id
  OBVIOUS
<1> HIDE DEF r
<1>6. ASSUME NEW x \in Ids
      PROVE  SavedValue(stack', objs, n + 1, x) = SavedValue(stack, objs, n + 1, x)
  <2>1. n + 1 \in 1 .. n + 1 /\ n + 1 \in Nat
    OBVIOUS
  <2>2. SavedValue(stack', objs, n + 1, x) = SavedValue(stack', objs, (n + 1) + 1, x)
    BY <1>2, <1>3, <2>1, SavedUntouched
  <2>3. SavedValue(stack', objs, (n + 1) + 1, x) = objs[x]
    BY <1>2, SavedAbove
  <2>4. SavedValue(stack, objs, n + 1, x) = objs[x]
    BY SavedAbove
  <2> QED BY <2>2, <2>3, <2>4
<1>7. SavedNextId(stack', next_id, n + 1) = next_id /\ SavedNextId(stack, next_id, n + 1) = next_id
  BY <1>2, <1>5 DEF SavedNextId
<1>8. SamePrefix(stack, objs, next_id, stack', objs, next_id, n)
  BY <1>2, <1>6, <1>7 DEF SamePrefix
<1>9. GoodLast(stack'[n + 1], objs, next_id)
  BY <1>2, <1>3, <1>4, <1>5 DEF GoodLast
<1>10. /\ Good(stack', objs, next_id)
       /\ \A i \in 1 .. n + 1 : SavedTable(stack', objs, i) = SavedTable(stack, objs, i)
  BY <1>2, <1>4, <1>8, <1>9, GoodPrefix, SMTT(30)
<1>11. SavedTable(stack, objs, n + 1) = objs
  <2>1. \A x \in Ids : SavedValue(stack, objs, n + 1, x) = objs[x]
    BY SavedAbove
  <2> QED BY <2>1 DEF SavedTable, Tables
<1>12. Saved' = Append(Saved, Store!Snapshot)
  <2>1. Saved = [i \in 1 .. n |-> [objs |-> SavedTable(stack, objs, i),
                                   next_id |-> stack[i].old_next_id]]
    BY DEF Saved
  <2>2. Saved' = [i \in 1 .. n + 1 |-> [objs |-> SavedTable(stack', objs, i),
                                        next_id |-> (stack'[i]).old_next_id]]
    BY <1>1, <1>2 DEF Saved
  <2>3. Append(Saved, Store!Snapshot)
          = [i \in 1 .. n + 1 |-> IF i = n + 1 THEN Store!Snapshot ELSE Saved[i]]
    BY <2>1
  <2>4. ASSUME NEW i \in 1 .. n
        PROVE  Saved[i] = [objs |-> SavedTable(stack', objs, i),
                           next_id |-> (stack'[i]).old_next_id]
    BY <1>2, <1>10, <2>1
  <2>5. Store!Snapshot = [objs |-> SavedTable(stack', objs, n + 1),
                          next_id |-> (stack'[n + 1]).old_next_id]
    BY <1>2, <1>5, <1>10, <1>11 DEF Store!Snapshot
  <2> QED BY <2>2, <2>3, <2>4, <2>5
<1>13. Store!Begin
  BY <1>12 DEF Store!Begin, StartUndoSession
<1> QED BY <1>1, <1>10, <1>13 DEF StartUndoSession
\* The snapshots below the youngest.
LEMMA FrontOfSaved ==
    ASSUME NEW n \in Nat, n >= 1, Len(stack) = n, Len(stack') = n - 1,
           \A i \in 1 .. n - 1 : SavedTable(stack', objs', i) = SavedTable(stack, objs, i),
           \A i \in 1 .. n - 1 : (stack'[i]).old_next_id = stack[i].old_next_id
    PROVE  Saved # <<>> /\ Len(Saved) = n /\ Saved' = SubSeq(Saved, 1, Len(Saved) - 1)
<1>1. Saved = [i \in 1 .. n |-> [objs |-> SavedTable(stack, objs, i),
                                 next_id |-> stack[i].old_next_id]]
  BY DEF Saved
<1>2. Saved' = [i \in 1 .. n - 1 |-> [objs |-> SavedTable(stack', objs', i),
                                      next_id |-> (stack'[i]).old_next_id]]
  BY DEF Saved
<1>3. Len(Saved) = n
  BY <1>1
<1>4. Saved # <<>>
  BY <1>3
<1>5. SubSeq(Saved, 1, n - 1) = [i \in 1 .. n - 1 |-> Saved[i]]
  BY <1>1
<1>6. ASSUME NEW i \in 1 .. n - 1
      PROVE  Saved[i] = [objs |-> SavedTable(stack', objs', i),
                         next_id |-> (stack'[i]).old_next_id]
  BY <1>1
<1>7. Saved' = SubSeq(Saved, 1, n - 1)
  BY <1>2, <1>5, <1>6
<1> QED BY <1>3, <1>4, <1>7

LEMMA UndoStep ==
    ASSUME ~MutableKeys, IndInv, TypeOK', Undo
    PROVE  IndInv' /\ Store!Undo
<1> USE DEF IndInv, TypeOK
<1> PICK n \in Nat : n = Len(stack)
  OBVIOUS
<1>1. n >= 1 /\ Top = stack[n] /\ Top \in UndoState
  BY TopType DEF Undo
<1>2. /\ Len(Popped) = n - 1
      /\ \A i \in 1 .. n - 1 : Popped[i] = stack[i]
  BY TopType DEF Undo
<1>3. /\ next_id \in Nat
      /\ UniqueKeys(objs)
      /\ \A x \in Ids : RecordAgrees(Top, x, objs[x])
      /\ UniqueKeys(Undone(objs, Top))
      /\ SavedTable(stack, objs, n) = Undone(objs, Top)
  BY <1>1, GoodTop
<1>4. ~UndoFails(objs, Top)
  BY <1>1, <1>3, UndoSucceeds
<1>5. /\ objs' = Undone(objs, Top)
      /\ next_id' = Top.old_next_id
      /\ stack' = Popped
      /\ revision' = revision - 1
      /\ failed' = failed
  BY <1>4 DEF Undo
<1>6. n - 1 \in Nat
  BY <1>1
<1>7. PICK m \in Nat : m = n - 1
  BY <1>6
<1>8. next_id' \in Nat
  OBVIOUS
<1>9. ASSUME NEW x \in Ids
      PROVE  SavedValue(stack', objs', m + 1, x) = SavedValue(stack, objs, m + 1, x)
  <2>1. Len(stack') = m
    BY <1>2, <1>5, <1>7
  <2>2. SavedValue(stack', objs', m + 1, x) = objs'[x]
    BY <2>1, SavedAbove
  <2>3. SavedValue(stack, objs, n, x) = objs'[x]
    BY <1>3, <1>5 DEF SavedTable
  <2> QED BY <1>7, <2>2, <2>3
<1>10. /\ SavedNextId(stack', next_id', m + 1) = Top.old_next_id
       /\ SavedNextId(stack, next_id, m + 1) = Top.old_next_id
  BY <1>1, <1>2, <1>5, <1>7 DEF SavedNextId
<1>11. SamePrefix(stack, objs, next_id, stack', objs', next_id', m)
  BY <1>2, <1>5, <1>7, <1>9, <1>10 DEF SamePrefix
<1>12. Len(stack') = m
  BY <1>2, <1>5, <1>7
<1>13. /\ Good(stack', objs', next_id')
       /\ \A i \in 1 .. m + 1 : SavedTable(stack', objs', i) = SavedTable(stack, objs, i)
  BY <1>3, <1>8, <1>11, <1>12, GoodPrefix
<1>14. /\ Len(stack') = n - 1
       /\ \A i \in 1 .. n - 1 : SavedTable(stack', objs', i) = SavedTable(stack, objs, i)
       /\ \A i \in 1 .. n - 1 : (stack'[i]).old_next_id = stack[i].old_next_id
  BY <1>2, <1>5, <1>7, <1>12, <1>13
<1>15. Saved # <<>> /\ Len(Saved) = n /\ Saved' = SubSeq(Saved, 1, Len(Saved) - 1)
  BY <1>1, <1>14, FrontOfSaved
<1>16. Saved[n] = [objs |-> objs', next_id |-> next_id']
  BY <1>1, <1>3, <1>5 DEF Saved
<1>17. Store!Undo
  BY <1>5, <1>15, <1>16 DEF Store!Undo
<1> QED BY <1>5, <1>13, <1>17

LEMMA SquashTwoStep ==
    ASSUME ~MutableKeys, IndInv, TypeOK', Squash, SquashTwo
    PROVE  IndInv' /\ Store!Squash
<1> USE DEF IndInv, TypeOK
<1> PICK n \in Nat : n = Len(stack)
  OBVIOUS
<1>1. n > 1 /\ Enabled
  BY DEF SquashTwo, Enabled
<1>2. /\ Top = stack[n] /\ Top \in UndoState
      /\ Popped \in Seq(UndoState)
      /\ Len(Popped) = n - 1
      /\ \A i \in 1 .. n - 1 : Popped[i] = stack[i]
  BY <1>1, TopType
<1>3. n - 2 \in Nat /\ n - 1 \in Nat
  BY <1>1
<1>4. PICK m \in Nat : m = n - 2
  BY <1>3
<1> DEFINE a == stack[m + 1]
           b == stack[n]
           r == Merged(a, b)
<1>5. m + 1 = n - 1 /\ m + 2 = n /\ m + 1 \in 1 .. n /\ m + 1 \in 1 .. n - 1 /\ n \in 1 .. n
  BY <1>1, <1>4
<1>6. a \in UndoState /\ b \in UndoState
  BY <1>5
<1>7. stack' = [Popped EXCEPT ![m + 1] = r] /\ objs' = objs /\ next_id' = next_id
  BY <1>2, <1>5 DEF Squash, SquashTwo
<1>8. /\ Len(stack') = m + 1
      /\ stack'[m + 1] = r
      /\ \A j \in 1 .. m : stack'[j] = stack[j]
  BY <1>2, <1>5, <1>7
<1>9. /\ next_id \in Nat
      /\ UniqueKeys(objs)
      /\ \A x \in Ids : objs[x] # None => x < next_id
      /\ \A x \in Ids : RecordAgrees(b, x, objs[x])
      /\ b.old_next_id <= next_id
      /\ \A x \in Ids : SavedValue(stack, objs, n, x) = SavedBy(b, x, objs[x])
  BY <1>1, GoodTop
<1>10. GoodRecord(stack, objs, next_id, m + 1) /\ GoodLevel(stack, objs, next_id, m + 1)
  BY <1>5 DEF Good
<1>11. /\ SavedNextId(stack, next_id, m + 1) = a.old_next_id
       /\ SavedNextId(stack, next_id, (m + 1) + 1) = b.old_next_id
  BY <1>5 DEF SavedNextId
<1>12. a.old_next_id <= b.old_next_id
  BY <1>10, <1>11 DEF GoodRecord
<1>13. ASSUME NEW x \in Ids
       PROVE  /\ RecordAgrees(r, x, objs[x])
              /\ SavedBy(r, x, objs[x]) = SavedValue(stack, objs, m + 1, x)
              /\ r.old_next_id = a.old_next_id
  <2>1. (m + 1) + 1 = n
    BY <1>5
  <2>2. PICK mid : mid = SavedBy(b, x, objs[x])
    OBVIOUS
  <2>3. SavedValue(stack, objs, (m + 1) + 1, x) = mid
    BY <1>9, <2>1, <2>2
  <2>4. RecordAgrees(a, x, mid)
    BY <1>10, <2>3 DEF GoodRecord
  <2>5. SavedValue(stack, objs, m + 1, x) = SavedBy(a, x, mid)
    BY <1>5, <2>3, SavedStep
  <2>6. SavedBy(a, x, mid) # None => x < a.old_next_id
    BY <1>10, <1>11, <2>5 DEF GoodLevel
  <2>7. objs[x] \in Values \cup {None}
    BY DEF Tables
  <2>8. RecordAgrees(b, x, objs[x])
    BY <1>9
  <2>9. /\ RecordAgrees(r, x, objs[x])
        /\ SavedBy(r, x, objs[x]) = SavedBy(a, x, mid)
        /\ r.old_next_id = a.old_next_id
    BY <1>6, <1>12, <2>2, <2>4, <2>6, <2>7, <2>8, MergeRecord
  <2> QED BY <2>5, <2>9
<1>14. r.old_next_id = a.old_next_id
  BY <1>6 DEF Merged, UndoState
<1>15. a.old_next_id <= next_id
  <2>1. a.old_next_id \in Nat /\ b.old_next_id \in Nat
    BY <1>6 DEF UndoState
  <2> QED BY <1>9, <1>12, <2>1
<1> HIDE DEF r, a, b
<1>16. ASSUME NEW x \in Ids
       PROVE  SavedValue(stack', objs, m + 1, x) = SavedValue(stack, objs, m + 1, x)
  <2>1. m + 1 \in Nat /\ m + 1 \in 1 .. m + 1
    OBVIOUS
  <2>2. SavedValue(stack', objs, m + 1, x) = SavedBy(r, x, SavedValue(stack', objs, (m + 1) + 1, x))
    BY <1>8, <2>1, SavedStep
  <2>3. SavedValue(stack', objs, (m + 1) + 1, x) = objs[x]
    BY <1>8, SavedAbove
  <2> QED BY <1>13, <2>2, <2>3
<1>17. SavedNextId(stack', next_id, m + 1) = SavedNextId(stack, next_id, m + 1)
  BY <1>8, <1>11, <1>14 DEF SavedNextId
<1>18. SamePrefix(stack, objs, next_id, stack', objs, next_id, m)
  BY <1>5, <1>8, <1>16, <1>17 DEF SamePrefix
<1>19. GoodLast(stack'[m + 1], objs, next_id)
  BY <1>8, <1>9, <1>13, <1>14, <1>15 DEF GoodLast
<1>20. /\ Good(stack', objs, next_id)
       /\ \A i \in 1 .. m + 1 : SavedTable(stack', objs, i) = SavedTable(stack, objs, i)
  BY <1>8, <1>9, <1>18, <1>19, GoodPrefix
<1>21. /\ Len(stack') = n - 1
       /\ \A i \in 1 .. n - 1 : SavedTable(stack', objs', i) = SavedTable(stack, objs, i)
       /\ \A i \in 1 .. n - 1 : (stack'[i]).old_next_id = stack[i].old_next_id
  <2>1. Len(stack') = n - 1
    BY <1>5, <1>8
  <2>2. \A i \in 1 .. n - 1 : SavedTable(stack', objs', i) = SavedTable(stack, objs, i)
    BY <1>5, <1>7, <1>20
  <2>3. ASSUME NEW i \in 1 .. n - 1
        PROVE  (stack'[i]).old_next_id = stack[i].old_next_id
    <3>1. i = m + 1 \/ i \in 1 .. m
      BY <1>5
    <3>2. CASE i = m + 1
      BY <1>8, <1>14, <3>2 DEF a
    <3>3. CASE i \in 1 .. m
      BY <1>8, <3>3
    <3> QED BY <3>1, <3>2, <3>3
  <2> QED BY <2>1, <2>2, <2>3
<1>22. Saved # <<>> /\ Saved' = SubSeq(Saved, 1, Len(Saved) - 1)
  BY <1>1, <1>21, FrontOfSaved
<1>23. Store!Squash
  BY <1>7, <1>22 DEF Store!Squash, Squash, SquashTwo
<1> QED BY <1>7, <1>20, <1>23 DEF Squash
LEMMA SquashLastStep ==
    ASSUME IndInv, TypeOK', Squash, SquashLast
    PROVE  IndInv' /\ Store!Squash
<1> USE DEF IndInv, TypeOK
<1>1. Len(stack) = 1 /\ stack' = <<>> /\ objs' = objs /\ next_id' = next_id /\ failed' = failed
  BY DEF Squash, SquashLast
<1>2. next_id \in Nat /\ UniqueKeys(objs) /\ \A x \in Ids : objs[x] # None => x < next_id
  BY GoodTop
<1>3. Good(<<>>, objs, next_id)
  BY <1>2, GoodEmpty
<1>4. Len(stack') = 1 - 1
  BY <1>1
<1>5. Saved # <<>> /\ Saved' = SubSeq(Saved, 1, Len(Saved) - 1)
  BY <1>1, <1>4, FrontOfSaved
<1>6. Store!Squash
  BY <1>1, <1>5 DEF Store!Squash, SquashLast
<1> QED BY <1>1, <1>3, <1>6

LEMMA CommitStep ==
    ASSUME IndInv, TypeOK', NEW r, Commit(r)
    PROVE  IndInv' /\ Store!Commit
<1> USE DEF IndInv, TypeOK
<1> PICK n \in Nat : n = Len(stack)
  OBVIOUS
<1>1. objs' = objs /\ next_id' = next_id /\ revision' = revision /\ failed' = failed
  BY DEF Commit
<1>2. PICK k \in 0 .. n : stack' = SubSeq(stack, k + 1, n)
  BY DEF Commit
<1>3. next_id \in Nat
  OBVIOUS
<1>4. /\ Good(stack', objs, next_id)
      /\ Len(stack') = n - k
      /\ \A i \in 1 .. n - k + 1 : SavedTable(stack', objs, i) = SavedTable(stack, objs, i + k)
      /\ \A i \in 1 .. n - k : stack'[i] = stack[i + k]
  <2>1. Shifted(stack, stack', n, k)
    BY <1>2 DEF Shifted
  <2> QED BY <1>3, <2>1, GoodShift
<1>5. Saved = [i \in 1 .. n |-> [objs |-> SavedTable(stack, objs, i),
                                 next_id |-> stack[i].old_next_id]]
  BY DEF Saved
<1>6. Saved' = [i \in 1 .. n - k |-> [objs |-> SavedTable(stack', objs, i),
                                      next_id |-> (stack'[i]).old_next_id]]
  BY <1>1, <1>4 DEF Saved
<1>7. Len(Saved) = n
  BY <1>5
<1>8. SubSeq(Saved, k + 1, n) = [i \in 1 .. n - k |-> Saved[i + k]]
  BY <1>5
<1>9. ASSUME NEW i \in 1 .. n - k
      PROVE  Saved[i + k] = [objs |-> SavedTable(stack', objs, i),
                             next_id |-> (stack'[i]).old_next_id]
  <2>1. i + k \in 1 .. n /\ i \in 1 .. n - k + 1
    OBVIOUS
  <2> QED BY <1>4, <1>5, <2>1
<1>10. Saved' = SubSeq(Saved, k + 1, n)
  BY <1>6, <1>8, <1>9
<1>11. Store!Commit
  <2>1. k \in 0 .. Len(Saved) /\ Saved' = SubSeq(Saved, k + 1, Len(Saved))
    BY <1>7, <1>10
  <2> QED BY <1>1, <2>1 DEF Store!Commit
<1> QED BY <1>1, <1>4, <1>11

LEMMA SetRevisionStep ==
    ASSUME IndInv, TypeOK', NEW r \in 0 .. MaxRevision, SetRevision(r)
    PROVE  IndInv' /\ Store!SetRevision
<1> USE DEF IndInv, TypeOK
<1>1. stack = <<>> /\ stack' = stack /\ objs' = objs /\ next_id' = next_id /\ failed' = failed
  BY DEF SetRevision, Enabled
<1>2. Saved = <<>> /\ Saved' = <<>>
  BY <1>1 DEF Saved
<1>3. r \in Nat
  BY UndoIndexAssumption
<1>4. Store!SetRevision
  BY <1>1, <1>2, <1>3 DEF Store!SetRevision, SetRevision
<1> QED BY <1>1, <1>4

-----------------------------------------------------------------------------
(* The theorems.                                                           *)

LEMMA IndInvInit == Init => IndInv /\ Store!Init
<1> SUFFICES ASSUME Init PROVE IndInv /\ Store!Init
  OBVIOUS
<1>1. TypeOK
  BY TypeInit
<1>2. UniqueKeys(objs) /\ \A x \in Ids : objs[x] # None => x < next_id
  BY DEF Init, EmptyTable, UniqueKeys
<1>3. Good(<<>>, objs, next_id)
  <2>1. objs \in Tables /\ next_id \in Nat
    BY <1>1 DEF TypeOK
  <2> QED BY <1>2, <2>1, GoodEmpty
<1>4. IndInv
  BY <1>1, <1>3 DEF IndInv, Init
<1>5. Saved = <<>>
  BY DEF Saved, Init
<1>6. Store!Init
  BY <1>5 DEF Store!Init, Init, Store!EmptyTable, EmptyTable, Store!Ids, Ids
<1> QED BY <1>4, <1>6

LEMMA IndInvStep ==
    ASSUME ~MutableKeys
    PROVE  IndInv /\ [Next]_vars => IndInv' /\ [Store!Next]_(Store!vars)
<1> SUFFICES ASSUME IndInv, [Next]_vars PROVE IndInv' /\ [Store!Next]_(Store!vars)
  OBVIOUS
<1>1. TypeOK'
  BY TypeStep DEF IndInv
<1>2. CASE StartUndoSession
  BY <1>1, <1>2, StartStep DEF Store!Next
<1>3. ASSUME NEW v \in Values, Emplace(v) PROVE IndInv' /\ Store!Next
  BY <1>1, <1>3, EmplaceStep DEF Store!Next
<1>4. ASSUME NEW x \in Ids, NEW v \in Values, Modify(x, v) PROVE IndInv' /\ Store!Next
  BY <1>1, <1>4, ModifyStep DEF Store!Next
<1>5. ASSUME NEW x \in Ids, Remove(x) PROVE IndInv' /\ Store!Next
  BY <1>1, <1>5, RemoveStep DEF Store!Next
<1>6. CASE Undo
  BY <1>1, <1>6, UndoStep DEF Store!Next
<1>7. CASE Squash
  BY <1>1, <1>7, SquashLastStep, SquashTwoStep DEF Squash, Store!Next
<1>8. ASSUME NEW r \in 0 .. MaxRevision, Commit(r) PROVE IndInv' /\ Store!Next
  BY <1>1, <1>8, CommitStep DEF Store!Next
<1>9. ASSUME NEW r \in 0 .. MaxRevision, SetRevision(r) PROVE IndInv' /\ Store!Next
  BY <1>1, <1>9, SetRevisionStep DEF Store!Next
<1>10. CASE UNCHANGED vars
  <2>1. objs' = objs /\ next_id' = next_id /\ stack' = stack /\ revision' = revision
        /\ failed' = failed
    BY <1>10 DEF vars
  <2>2. Saved' = Saved
    BY <2>1 DEF Saved
  <2>3. IndInv'
    BY <1>1, <2>1 DEF IndInv
  <2> QED BY <2>1, <2>2, <2>3 DEF Store!vars
<1> QED BY <1>2, <1>3, <1>4, <1>5, <1>6, <1>7, <1>8, <1>9, <1>10 DEF Next

LEMMA IndInvImplies ==
    ASSUME ~MutableKeys, IndInv
    PROVE  /\ HistoryWellFormed
           /\ NextIdGrows
           /\ IdsBelowNextId
           /\ KeysUnique
           /\ UndoNeverFails
<1> USE DEF IndInv, TypeOK
<1> PICK n \in Nat : n = Len(stack)
  OBVIOUS
<1>1. HistoryWellFormed /\ NextIdGrows
  BY DEF Good, GoodRecord, HistoryWellFormed, NextIdGrows
<1>2. IdsBelowNextId /\ KeysUnique
  BY DEF Good, GoodLevel, IdsBelowNextId, KeysUnique
<1>3. ASSUME Enabled PROVE ~UndoFails(objs, Top)
  <2>1. n >= 1 /\ Top = stack[n] /\ Top \in UndoState
    BY <1>3, TopType
  <2>2. /\ UniqueKeys(objs)
        /\ \A x \in Ids : RecordAgrees(Top, x, objs[x])
        /\ UniqueKeys(Undone(objs, Top))
    BY <2>1, GoodTop
  <2> QED BY <2>1, <2>2, UndoSucceeds
<1> QED BY <1>1, <1>2, <1>3 DEF UndoNeverFails
\* When no modifier changes a unique field, the history of every reachable
\* state records exactly what each session did, whatever was squashed or
\* committed in between.
THEOREM HistoryCorrect ==
    ASSUME ~MutableKeys
    PROVE  Spec => []HistoryWellFormed
<1>1. Init => IndInv
  BY IndInvInit
<1>2. IndInv /\ [Next]_vars => IndInv'
  BY IndInvStep
<1>3. IndInv => HistoryWellFormed
  BY IndInvImplies
<1> QED BY <1>1, <1>2, <1>3, PTL DEF Spec

\* generic_index::undo never throws: every object it looks up is there and
\* every key it puts back is free.
THEOREM UndoAlwaysSucceeds ==
    ASSUME ~MutableKeys
    PROVE  Spec => []UndoNeverFails
<1>1. Init => IndInv
  BY IndInvInit
<1>2. IndInv /\ [Next]_vars => IndInv'
  BY IndInvStep
<1>3. IndInv => UndoNeverFails
  BY IndInvImplies
<1> QED BY <1>1, <1>2, <1>3, PTL DEF Spec

\* No id is ever held by an object and given out again, in the table or in
\* any table undo brings back.
THEOREM IdsNeverReused ==
    ASSUME ~MutableKeys
    PROVE  Spec => [](NextIdGrows /\ IdsBelowNextId)
<1>1. Init => IndInv
  BY IndInvInit
<1>2. IndInv /\ [Next]_vars => IndInv'
  BY IndInvStep
<1>3. IndInv => NextIdGrows /\ IdsBelowNextId
  BY IndInvImplies
<1> QED BY <1>1, <1>2, <1>3, PTL DEF Spec

\* The unique index is unique in the table and in every table undo brings
\* back.
THEOREM KeysStayUnique ==
    ASSUME ~MutableKeys
    PROVE  Spec => []KeysUnique
<1>1. Init => IndInv
  BY IndInvInit
<1>2. IndInv /\ [Next]_vars => IndInv'
  BY IndInvStep
<1>3. IndInv => KeysUnique
  BY IndInvImplies
<1> QED BY <1>1, <1>2, <1>3, PTL DEF Spec

\* The four together: what the run on a small instance checks.
THEOREM HistoryStaysConsistent ==
    ASSUME ~MutableKeys
    PROVE  Spec => []HistoryConsistent
<1>1. Init => IndInv
  BY IndInvInit
<1>2. IndInv /\ [Next]_vars => IndInv'
  BY IndInvStep
<1>3. IndInv => HistoryConsistent
  BY IndInvImplies DEF HistoryConsistent
<1> QED BY <1>1, <1>2, <1>3, PTL DEF Spec

\* The index with its change sets implements the stack of whole-table
\* snapshots: undo brings back the table exactly as the session found it.
THEOREM Refinement ==
    ASSUME ~MutableKeys
    PROVE  Spec => ImplementsSnapshotStore
<1>1. Init => IndInv /\ Store!Init
  BY IndInvInit
<1>2. IndInv /\ [Next]_vars => IndInv' /\ [Store!Next]_(Store!vars)
  BY IndInvStep
<1> QED BY <1>1, <1>2, PTL DEF Spec, ImplementsSnapshotStore, Store!Spec

LEMMA RevisionsFrom ==
    ASSUME NEW m \in Nat, Len(stack') = m,
           \A i \in 1 .. m : (stack'[i]).revision = revision' - m + i
    PROVE  RevisionsContiguous'
BY DEF RevisionsContiguous

LEMMA RevisionsStep == TypeOK /\ RevisionsContiguous /\ [Next]_vars => RevisionsContiguous'
<1> SUFFICES ASSUME TypeOK, RevisionsContiguous, [Next]_vars PROVE RevisionsContiguous'
  OBVIOUS
<1> USE DEF TypeOK
<1> PICK n \in Nat : n = Len(stack)
  OBVIOUS
<1>0. \A i \in 1 .. n : stack[i].revision \in Int /\ stack[i].revision = revision - n + i
  BY DEF UndoState, RevisionsContiguous
<1>1. CASE StartUndoSession
  <2>1. Len(stack') = n + 1 /\ \A i \in 1 .. n : stack'[i] = stack[i]
    BY <1>1 DEF StartUndoSession
  <2>2. (stack'[n + 1]).revision = revision' /\ revision' = revision + 1
    BY <1>1 DEF StartUndoSession
  <2>3. \A i \in 1 .. n + 1 : (stack'[i]).revision = revision' - (n + 1) + i
    BY <1>0, <2>1, <2>2
  <2> QED BY <2>1, <2>3, RevisionsFrom
<1>2. ASSUME NEW r, stack' = Recorded(r), Enabled => r.revision = Top.revision,
             revision' = revision
      PROVE  RevisionsContiguous'
  <2>1. CASE Enabled
    <3>1. Top = stack[n] /\ n >= 1
      BY <2>1, TopType
    <3>2. /\ Len(stack') = n
          /\ stack'[n] = r
          /\ \A j \in 1 .. n - 1 : stack'[j] = stack[j]
      BY <1>2, <2>1, <3>1 DEF Recorded
    <3>3. \A i \in 1 .. n : (stack'[i]).revision = revision' - n + i
      BY <1>0, <1>2, <2>1, <3>1, <3>2
    <3> QED BY <3>2, <3>3, RevisionsFrom
  <2>2. CASE ~Enabled
    BY <1>2, <2>2 DEF Recorded, RevisionsContiguous
  <2> QED BY <2>1, <2>2
<1>3. ASSUME NEW v \in Values, Emplace(v) PROVE RevisionsContiguous'
  <2>1. Enabled => OnCreate(Top, next_id).revision = Top.revision
    BY TopType DEF OnCreate, UndoState
  <2> QED BY <1>2, <1>3, <2>1 DEF Emplace
<1>4. ASSUME NEW x \in Ids, NEW v \in Values, Modify(x, v) PROVE RevisionsContiguous'
  <2>1. Enabled => OnModify(Top, x, objs[x]).revision = Top.revision
    BY TopType DEF OnModify, UndoState
  <2> QED BY <1>2, <1>4, <2>1 DEF Modify
<1>5. ASSUME NEW x \in Ids, Remove(x) PROVE RevisionsContiguous'
  <2>1. Enabled => OnRemove(Top, x, objs[x]).revision = Top.revision
    BY TopType DEF OnRemove, UndoState
  <2> QED BY <1>2, <1>5, <2>1 DEF Remove
<1>6. CASE Undo
  <2>1. CASE UndoFails(objs, Top)
    BY <1>6, <2>1 DEF Undo, RevisionsContiguous
  <2>2. CASE ~UndoFails(objs, Top)
    <3>1. Len(Popped) = n - 1 /\ n >= 1 /\ \A i \in 1 .. n - 1 : Popped[i] = stack[i]
      BY <1>6, TopType DEF Undo
    <3>2. stack' = Popped /\ revision' = revision - 1
      BY <1>6, <2>2 DEF Undo
    <3>3. n - 1 \in Nat /\ \A i \in 1 .. n - 1 : (stack'[i]).revision = revision' - (n - 1) + i
      BY <1>0, <3>1, <3>2, SMTT(30)
    <3> QED BY <3>1, <3>2, <3>3, RevisionsFrom
  <2> QED BY <2>1, <2>2
<1>7. CASE Squash
  <2>1. CASE SquashLast
    BY <2>1 DEF SquashLast, RevisionsContiguous
  <2>2. CASE SquashTwo
    <3>1. n > 1 /\ Enabled
      BY <2>2 DEF SquashTwo, Enabled
    <3>2. Len(Popped) = n - 1 /\ \A i \in 1 .. n - 1 : Popped[i] = stack[i]
      BY <3>1, TopType
    <3>3. stack' = [Popped EXCEPT ![n - 1] = Merged(Popped[n - 1], Top)]
      BY <2>2 DEF SquashTwo
    <3>4. n - 1 \in 1 .. n
      BY <3>1
    <3>5. Merged(stack[n - 1], Top).revision = stack[n - 1].revision
      BY <3>4 DEF Merged, UndoState
    <3>6. /\ Len(stack') = n - 1
          /\ stack'[n - 1] = Merged(stack[n - 1], Top)
          /\ \A i \in 1 .. n - 2 : stack'[i] = stack[i]
      BY <3>1, <3>2, <3>3, TopType
    <3>7. revision' = revision - 1
      BY <2>2 DEF SquashTwo
    <3>8. ASSUME NEW i \in 1 .. n - 1
          PROVE  (stack'[i]).revision = stack[i].revision
      <4>1. i = n - 1 \/ i \in 1 .. n - 2
        OBVIOUS
      <4> QED BY <3>5, <3>6, <4>1
    <3>9. \A i \in 1 .. n - 1 : stack[i].revision = (revision - 1) - (n - 1) + i
      BY <1>0
    <3>10. n - 1 \in Nat /\ \A i \in 1 .. n - 1 : (stack'[i]).revision = revision' - (n - 1) + i
      BY <3>1, <3>7, <3>8, <3>9
    <3> QED BY <3>6, <3>10, RevisionsFrom
  <2> QED BY <1>7, <2>1, <2>2 DEF Squash
<1>8. ASSUME NEW r \in 0 .. MaxRevision, Commit(r) PROVE RevisionsContiguous'
  <2>1. PICK k \in 0 .. n : stack' = SubSeq(stack, k + 1, n)
    BY <1>8 DEF Commit
  <2>2. Len(stack') = n - k /\ \A i \in 1 .. n - k : stack'[i] = stack[i + k]
    BY <2>1
  <2>3. revision' = revision
    BY <1>8 DEF Commit
  <2>4. \A i \in 1 .. n - k : stack[i + k].revision = revision - (n - k) + i
    BY <1>0
  <2>5. n - k \in Nat
    OBVIOUS
  <2>6. \A i \in 1 .. n - k : (stack'[i]).revision = revision' - (n - k) + i
    BY <2>2, <2>3, <2>4
  <2> QED BY <2>2, <2>5, <2>6, RevisionsFrom
<1>9. ASSUME NEW r \in 0 .. MaxRevision, SetRevision(r) PROVE RevisionsContiguous'
  BY <1>9 DEF SetRevision, Enabled, RevisionsContiguous
<1>10. CASE UNCHANGED vars
  BY <1>10 DEF vars, RevisionsContiguous
<1> QED BY <1>1, <1>3, <1>4, <1>5, <1>6, <1>7, <1>8, <1>9, <1>10 DEF Next

\* The sessions on the stack are numbered without a gap up to the head
\* revision, whether or not keys change and undo fails.
THEOREM RevisionsCorrect == Spec => []RevisionsContiguous
<1>1. Init => RevisionsContiguous
  BY DEF Init, RevisionsContiguous
<1> QED BY <1>1, TypeInit, TypeStep, RevisionsStep, PTL DEF Spec
=============================================================================
