----------------------------- MODULE UndoIndex -----------------------------
(***************************************************************************)
(* chainbase::generic_index: a table of objects with an undo history.      *)
(*                                                                         *)
(* Each open session has an undo_state that records, per object, what is   *)
(* needed to take the session back: the value a changed object had, the    *)
(* value a removed object had, and which objects are new.  The history is  *)
(* a deque of these states; commit drops them from the front, undo and     *)
(* squash from the back.                                                   *)
(*                                                                         *)
(* An object is a pair <<key, data>>; the key stands for the fields under  *)
(* a unique secondary index.  MutableKeys says whether a modifier may      *)
(* change the key of an object.  The chain's own objects never do: where a *)
(* modifiable field is under a unique index, the id or the owner follows   *)
(* it in the key.  The library does not forbid it.                         *)
(***************************************************************************)
EXTENDS Integers, Sequences

CONSTANTS Keys, Data,   \* the two parts of an object
          None,         \* "no object"
          MutableKeys,  \* may a modifier change a unique field
          MaxId,        \* bound: ids ever given out
          MaxDepth,     \* bound: open sessions
          MaxRevision   \* bound: head revision

ASSUME UndoIndexAssumption ==
    /\ None \notin Keys \X Data
    /\ MutableKeys \in BOOLEAN
    /\ MaxId \in Nat
    /\ MaxDepth \in Nat
    /\ MaxRevision \in Nat

VARIABLES objs,      \* _indices: id -> object, or None
          next_id,   \* _next_id
          stack,     \* _stack, oldest state first
          revision,  \* _revision
          failed     \* an undo or modify threw half way

vars == <<objs, next_id, stack, revision, failed>>

Ids    == 0 .. MaxId - 1
Values == Keys \X Data
Tables == [Ids -> Values \cup {None}]

KeyOf(v) == v[1]

EmptyTable == [x \in Ids |-> None]

UndoState == [old_values : Tables, removed_values : Tables,
              new_ids : SUBSET Ids, old_next_id : 0 .. MaxId, revision : Int]

Enabled == stack # <<>>

Top == stack[Len(stack)]

Popped == SubSeq(stack, 1, Len(stack) - 1)

\* Another object than x holds the key of v in table t.
Clashes(t, x, v) == \E y \in Ids \ {x} : t[y] # None /\ KeyOf(t[y]) = KeyOf(v)

-----------------------------------------------------------------------------
(* The bookkeeping of a change in the youngest undo state s.               *)

OnCreate(s, x) == [s EXCEPT !.new_ids = @ \cup {x}]

\* Slip: the value before the last change is kept, not the first one.
OnModify_Overwrites(s, x, v) ==
    IF x \in s.new_ids THEN s ELSE [s EXCEPT !.old_values = [@ EXCEPT ![x] = v]]

OnModify(s, x, v) ==
    IF x \in s.new_ids \/ s.old_values[x] # None
    THEN s
    ELSE [s EXCEPT !.old_values = [@ EXCEPT ![x] = v]]

\* Slip: the old value of a changed object stays when the object is removed.
OnRemove_KeepsOldValue(s, x, v) ==
    IF x \in s.new_ids
    THEN [s EXCEPT !.new_ids = @ \ {x}]
    ELSE [s EXCEPT !.removed_values = [@ EXCEPT ![x] = IF s.old_values[x] # None
                                                       THEN s.old_values[x] ELSE v]]

OnRemove(s, x, v) ==
    IF x \in s.new_ids
    THEN [s EXCEPT !.new_ids = @ \ {x}]
    ELSE IF s.old_values[x] # None
    THEN [s EXCEPT !.removed_values = [@ EXCEPT ![x] = s.old_values[x]],
                   !.old_values = [@ EXCEPT ![x] = None]]
    ELSE IF s.removed_values[x] # None
    THEN s
    ELSE [s EXCEPT !.removed_values = [@ EXCEPT ![x] = v]]

\* stack with its youngest state replaced; nothing is recorded without one.
Recorded(s) == IF Enabled THEN [stack EXCEPT ![Len(stack)] = s] ELSE stack

-----------------------------------------------------------------------------
(* undo() runs three loops: changed objects get their old values back, in  *)
(* the order of their ids; new objects are erased; removed objects are     *)
(* inserted again.                                                         *)

Touched(s, x) ==
    x \in s.new_ids \/ s.old_values[x] # None \/ s.removed_values[x] # None

\* What an object touched in s was before the session of s.
Before(s, x) ==
    CASE s.old_values[x] # None     -> s.old_values[x]
      [] s.removed_values[x] # None -> s.removed_values[x]
      [] OTHER                      -> None

Undone(t, s) == [x \in Ids |-> IF Touched(s, x) THEN Before(s, x) ELSE t[x]]

\* The table when the first loop reaches x.
RestoredBelow(t, s, x) ==
    [y \in Ids |-> IF y < x /\ s.old_values[y] # None THEN s.old_values[y] ELSE t[y]]

\* The old value of x cannot be put back: x is not there any more, or its
\* old key is held by another object at that moment.
CannotRestore(t, s, x) ==
    /\ s.old_values[x] # None
    /\ \/ t[x] = None
       \/ Clashes(RestoredBelow(t, s, x), x, s.old_values[x])

\* A new object that is not there cannot be erased.
CannotErase(t, s, x) == x \in s.new_ids /\ t[x] = None

\* Slip: removed objects come back before the new ones are erased.
CannotReinsert_BeforeErase(t, s, x) ==
    /\ s.removed_values[x] # None
    /\ \/ t[x] # None
       \/ Clashes(t, x, s.removed_values[x])

\* A removed object cannot be inserted again: its id is in use, or its key
\* is, in the table the three loops would leave.
CannotReinsert(t, s, x) ==
    /\ s.removed_values[x] # None
    /\ \/ t[x] # None
       \/ Clashes(Undone(t, s), x, s.removed_values[x])

UndoFails(t, s) ==
    \E x \in Ids : CannotRestore(t, s, x) \/ CannotErase(t, s, x) \/ CannotReinsert(t, s, x)

\* The table a failing undo leaves: boost erases the object whose old value
\* does not fit, and the exception ends the loop.
PartlyUndone(t, s) ==
    {[RestoredBelow(t, s, x) EXCEPT ![x] = None] :
       x \in {z \in Ids : CannotRestore(t, s, z) /\ \A y \in Ids : y < z => ~CannotRestore(t, s, y)}}
    \cup {t}

-----------------------------------------------------------------------------
(* squash() merges the youngest state b into the one below it, a: one pass *)
(* over each of b's three containers, in this order.                       *)

MergedOld(a, b) ==
    [x \in Ids |-> IF b.old_values[x] # None /\ x \notin a.new_ids /\ a.old_values[x] = None
                   THEN b.old_values[x]
                   ELSE a.old_values[x]]

Merged(a, b) ==
    LET old  == MergedOld(a, b)
        new  == a.new_ids \cup b.new_ids
        gone == {x \in Ids : b.removed_values[x] # None}
    IN  [a EXCEPT
           !.new_ids = new \ gone,
           !.old_values = [x \in Ids |-> IF x \in gone \ new THEN None ELSE old[x]],
           !.removed_values =
              [x \in Ids |->
                 IF a.removed_values[x] # None \/ x \notin gone \ new
                 THEN a.removed_values[x]
                 ELSE IF old[x] # None THEN old[x] ELSE b.removed_values[x]]]

-----------------------------------------------------------------------------
Init ==
    /\ objs = EmptyTable
    /\ next_id = 0
    /\ stack = <<>>
    /\ revision = 0
    /\ failed = FALSE

\* Slips: the next id saved with a session is off by one, either way, or not
\* saved at all.
SessionStart(saved_id) ==
    /\ ~failed
    /\ Len(stack) < MaxDepth
    /\ revision < MaxRevision
    /\ revision' = revision + 1
    /\ stack' = Append(stack, [old_values |-> EmptyTable, removed_values |-> EmptyTable,
                               new_ids |-> {}, old_next_id |-> saved_id,
                               revision |-> revision'])
    /\ UNCHANGED <<objs, next_id, failed>>

StartUndoSession ==
    /\ ~failed
    /\ Len(stack) < MaxDepth
    /\ revision < MaxRevision
    /\ revision' = revision + 1
    /\ stack' = Append(stack, [old_values |-> EmptyTable, removed_values |-> EmptyTable,
                               new_ids |-> {}, old_next_id |-> next_id,
                               revision |-> revision'])
    /\ UNCHANGED <<objs, next_id, failed>>

\* A value whose key is taken is refused and changes nothing.
Emplace(v) ==
    /\ ~failed
    /\ next_id < MaxId
    /\ ~Clashes(objs, next_id, v)
    /\ objs' = [objs EXCEPT ![next_id] = v]
    /\ next_id' = next_id + 1
    /\ stack' = Recorded(OnCreate(Top, next_id))
    /\ UNCHANGED <<revision, failed>>

\* A modification that makes the key clash erases the object and throws.
Modify(x, v) ==
    /\ ~failed
    /\ objs[x] # None
    /\ MutableKeys \/ KeyOf(v) = KeyOf(objs[x])
    /\ stack' = Recorded(OnModify(Top, x, objs[x]))
    /\ failed' = Clashes(objs, x, v)
    /\ objs' = [objs EXCEPT ![x] = IF failed' THEN None ELSE v]
    /\ UNCHANGED <<next_id, revision>>

Remove(x) ==
    /\ ~failed
    /\ objs[x] # None
    /\ stack' = Recorded(OnRemove(Top, x, objs[x]))
    /\ objs' = [objs EXCEPT ![x] = None]
    /\ UNCHANGED <<next_id, revision, failed>>

\* Without a session undo returns at once.  A loop that cannot go on throws
\* and leaves the table as far as it got.
Undo ==
    /\ ~failed
    /\ Enabled
    /\ IF UndoFails(objs, Top)
       THEN /\ failed' = TRUE
            /\ objs' \in PartlyUndone(objs, Top)
            /\ UNCHANGED <<next_id, stack, revision>>
       ELSE /\ objs' = Undone(objs, Top)
            /\ next_id' = Top.old_next_id
            /\ stack' = Popped
            /\ revision' = revision - 1
            /\ UNCHANGED failed

\* The only state is dropped without lowering the revision.
SquashLast ==
    /\ Len(stack) = 1
    /\ stack' = <<>>
    /\ UNCHANGED revision

\* Slip: the revision is not lowered.
SquashTwo_KeepsRevision ==
    /\ Len(stack) > 1
    /\ stack' = [Popped EXCEPT ![Len(stack) - 1] = Merged(@, Top)]
    /\ UNCHANGED revision

SquashTwo ==
    /\ Len(stack) > 1
    /\ stack' = [Popped EXCEPT ![Len(stack) - 1] = Merged(@, Top)]
    /\ revision' = revision - 1

Squash ==
    /\ ~failed
    /\ SquashLast \/ SquashTwo
    /\ UNCHANGED <<objs, next_id, failed>>

\* States are popped from the front while they are no younger than r.
Commit(r) ==
    /\ ~failed
    /\ \E k \in 0 .. Len(stack) :
          /\ \A i \in 1 .. k : stack[i].revision <= r
          /\ k < Len(stack) => stack[k + 1].revision > r
          /\ stack' = SubSeq(stack, k + 1, Len(stack))
    /\ UNCHANGED <<objs, next_id, revision, failed>>

SetRevision(r) ==
    /\ ~failed
    /\ ~Enabled
    /\ revision' = r
    /\ UNCHANGED <<objs, next_id, stack, failed>>

Next ==
    \/ StartUndoSession
    \/ \E v \in Values : Emplace(v)
    \/ \E x \in Ids, v \in Values : Modify(x, v)
    \/ \E x \in Ids : Remove(x)
    \/ Undo
    \/ Squash
    \/ \E r \in 0 .. MaxRevision : Commit(r)
    \/ \E r \in 0 .. MaxRevision : SetRevision(r)

Spec == Init /\ [][Next]_vars

-----------------------------------------------------------------------------
(* Level i of the history h over the table t, read back without replaying  *)
(* it: the oldest state at or above i that touched x says what x was when   *)
(* session i began.                                                        *)

TouchedFrom(h, i, x) == {j \in i .. Len(h) : Touched(h[j], x)}

Oldest(S) == CHOOSE j \in S : \A k \in S : j <= k

SavedValue(h, t, i, x) ==
    IF TouchedFrom(h, i, x) = {} THEN t[x] ELSE Before(h[Oldest(TouchedFrom(h, i, x))], x)

SavedTable(h, t, i) == [x \in Ids |-> SavedValue(h, t, i, x)]

\* The next_id that comes back with level i.
SavedNextId(h, n, i) == IF i > Len(h) THEN n ELSE h[i].old_next_id

Saved == [i \in 1 .. Len(stack) |->
            [objs |-> SavedTable(stack, objs, i), next_id |-> stack[i].old_next_id]]

Store == INSTANCE SnapshotStore WITH saved <- Saved

-----------------------------------------------------------------------------
\* Ids stay in range through every undo, squash and commit, and every undo
\* state holds whole objects.
TypeOK ==
    /\ objs \in Tables
    /\ next_id \in 0 .. MaxId
    /\ stack \in Seq(UndoState)
    /\ revision \in Int
    /\ failed \in BOOLEAN

\* Undoing the youngest session always goes through: every object undo looks
\* up is there, and no key it puts back is held by another object.
UndoNeverFails ==
    /\ ~failed
    /\ Enabled => ~UndoFails(objs, Top)

\* The sessions on the stack are numbered without a gap up to the head
\* revision, whatever order of starts, squashes, undos and commits led here;
\* the chain relies on it when it commits up to a block number.
RevisionsContiguous ==
    \A i \in 1 .. Len(stack) : stack[i].revision = revision - Len(stack) + i

\* What s recorded of x agrees with what x was when the session of s ended.
RecordAgrees(s, x, after) ==
    /\ x \in s.new_ids =>
          /\ after # None
          /\ x >= s.old_next_id
          /\ s.old_values[x] = None
          /\ s.removed_values[x] = None
    /\ s.old_values[x] # None =>
          /\ after # None
          /\ s.removed_values[x] = None
          /\ ~MutableKeys => KeyOf(after) = KeyOf(s.old_values[x])
    /\ s.removed_values[x] # None => after = None

UniqueKeys(t) == \A x \in Ids : t[x] # None => ~Clashes(t, x, t[x])

\* What a session recorded agrees with the table as it was when the next
\* session began (for the youngest: with the table): new and changed objects
\* are there, removed ones are not, a changed object still has its key, and
\* no object is recorded in two ways.  Squash merges two such records.
HistoryWellFormed ==
    \A i \in 1 .. Len(stack), x \in Ids :
       RecordAgrees(stack[i], x, SavedValue(stack, objs, i + 1, x))

\* next_id never falls below the next_id a session will bring back.
NextIdGrows ==
    \A i \in 1 .. Len(stack) :
       SavedNextId(stack, next_id, i) <= SavedNextId(stack, next_id, i + 1)

\* Ids are given out in order and undo returns next_id: an object of the
\* table, or of any table undo can bring back, has an id below the next_id
\* that comes back with it, so that no id is ever given to two objects.
IdsBelowNextId ==
    \A i \in 1 .. Len(stack) + 1, x \in Ids :
       SavedValue(stack, objs, i, x) # None => x < SavedNextId(stack, next_id, i)

\* The unique secondary index stays unique, in the table and in every table
\* that undo can bring back.
KeysUnique ==
    \A i \in 1 .. Len(stack) + 1 : UniqueKeys(SavedTable(stack, objs, i))

\* What the history says of itself, of ids and of keys holds together.
HistoryConsistent == HistoryWellFormed /\ NextIdGrows /\ IdsBelowNextId /\ KeysUnique

\* The index implements a stack of whole-table snapshots: what each session
\* will restore is exactly the table at its start, through any later
\* modification, removal, squash and commit.
ImplementsSnapshotStore == Store!Spec
=============================================================================
