--------------------------- MODULE SnapshotStore ---------------------------
(***************************************************************************)
(* What a chainbase index promises its callers: a table of objects with a  *)
(* stack of whole-table snapshots.  Starting an undo session saves the     *)
(* table, undo puts the youngest snapshot back, squash forgets it, commit  *)
(* forgets the oldest ones.  UndoIndex, which keeps per-session change     *)
(* sets instead of snapshots, is shown to implement this specification.    *)
(***************************************************************************)
EXTENDS Integers, Sequences

CONSTANTS Keys, Data, MaxId, None

VARIABLES objs,      \* id -> object, or None
          next_id,   \* the id the next object gets
          saved,     \* snapshots, oldest first
          revision   \* the head revision

vars == <<objs, next_id, saved, revision>>

Ids    == 0 .. MaxId - 1
Values == Keys \X Data
Tables == [Ids -> Values \cup {None}]

EmptyTable == [x \in Ids |-> None]

Snapshot == [objs |-> objs, next_id |-> next_id]

Init ==
    /\ objs = EmptyTable
    /\ next_id = 0
    /\ saved = <<>>
    /\ revision = 0

\* A session starts: the table is remembered as it is now.
Begin ==
    /\ saved' = Append(saved, Snapshot)
    /\ revision' = revision + 1
    /\ UNCHANGED <<objs, next_id>>

\* Objects come, change and go; no snapshot is touched.
Write ==
    /\ objs' \in Tables
    /\ next_id' \in {next_id, next_id + 1}
    /\ UNCHANGED <<saved, revision>>

\* The youngest session is undone: the table is what it was when it began.
Undo ==
    /\ saved # <<>>
    /\ objs' = saved[Len(saved)].objs
    /\ next_id' = saved[Len(saved)].next_id
    /\ saved' = SubSeq(saved, 1, Len(saved) - 1)
    /\ revision' = revision - 1

\* The youngest session becomes part of the one below it (or of the table).
Squash ==
    /\ saved # <<>>
    /\ saved' = SubSeq(saved, 1, Len(saved) - 1)
    /\ revision' \in {revision, revision - 1}
    /\ UNCHANGED <<objs, next_id>>

\* The k oldest sessions can no longer be undone.
Commit ==
    /\ \E k \in 0 .. Len(saved) : saved' = SubSeq(saved, k + 1, Len(saved))
    /\ UNCHANGED <<objs, next_id, revision>>

SetRevision ==
    /\ saved = <<>>
    /\ revision' \in Nat
    /\ UNCHANGED <<objs, next_id, saved>>

Next == Begin \/ Write \/ Undo \/ Squash \/ Commit \/ SetRevision

Spec == Init /\ [][Next]_vars
=============================================================================
