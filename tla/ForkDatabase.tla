---------------------------- MODULE ForkDatabase ----------------------------
(***************************************************************************)
(* delta::chain::fork_database: the tree of recent blocks.                 *)
(*                                                                         *)
(* Its state is one record f:                                              *)
(*   index    the blocks in _index, found by id and by number;             *)
(*   linked   the blocks whose prev pointer is alive.  prev is a weak      *)
(*            pointer: it is set when a block is pushed onto a known block *)
(*            and dies when that block's item leaves the index;            *)
(*   head     _head, or None; it is not always in the index, since remove  *)
(*            and set_max_size erase items without looking at it;          *)
(*   max_size _max_size.                                                   *)
(* Operations that throw are predicates here (CanPush, CanPop, ...) beside *)
(* the operator that gives the new state.  _unlinked_index is left out:    *)
(* the only insertion into it follows a throw and is never reached.        *)
(***************************************************************************)
EXTENDS Integers, Sequences, FiniteSets

CONSTANTS Blocks,    \* block ids
          Genesis,   \* the zero id that the first block names as previous
          None,      \* null pointer
          Previous,  \* the previous id in a block's header
          Num        \* the number a block id carries; 0 for the zero id

ASSUME ForkDatabaseAssumption ==
    /\ Genesis \notin Blocks
    /\ None \notin Blocks \cup {Genesis}
    /\ Previous \in [Blocks -> Blocks \cup {Genesis}]
    /\ Num \in [Blocks \cup {Genesis} -> Nat]
    /\ Num[Genesis] = 0
    /\ \A b \in Blocks : Num[b] = Num[Previous[b]] + 1

ForkDb == [index : SUBSET Blocks, linked : SUBSET Blocks,
           head : Blocks \cup {None}, max_size : Nat]

Larger(m, n) == IF m > n THEN m ELSE n

\* Items of the index at height n.
AtHeight(f, n) == {b \in f.index : Num[b] = n}

\* The lowest height that push_block and set_max_size still care for.
Floor(f) == Larger(0, Num[f.head] - f.max_size)

-----------------------------------------------------------------------------
\* A fork database after reset(), or of a new process.
EmptyForkDb(size) == [index |-> {}, linked |-> {}, head |-> None, max_size |-> size]

StartBlock(f, b) == [f EXCEPT !.index = @ \cup {b}, !.head = b]

\* Not too old, and, once there is a head, on top of a known block.
CanPush(f, b) ==
    f.head # None =>
       /\ Num[b] > Floor(f)
       /\ Previous[b] # Genesis => Previous[b] \in f.index

\* Slip: a new item does not get its prev pointer.
PushBlock_Unlinked(f, b) ==
    [f EXCEPT !.index = @ \cup {b},
              !.head  = IF f.head = None \/ Num[b] > Num[f.head] THEN b ELSE @]

\* A block that is in the index already is not inserted a second time, but
\* it may still become the head.
PushBlock(f, b) ==
    [f EXCEPT
       !.index  = @ \cup {b},
       !.linked = IF b \in f.index THEN @
                  ELSE IF f.head # None /\ Previous[b] \in f.index THEN @ \cup {b}
                  ELSE @ \ {b},
       !.head   = IF f.head = None \/ Num[b] > Num[f.head] THEN b ELSE @]

CanPop(f) == f.head # None /\ f.head \in f.linked

PopBlock(f) == [f EXCEPT !.head = Previous[@]]

SetHead(f, b) == [f EXCEPT !.head = b]

\* Erasing items: the prev pointers of their children die, and their own
\* unless _head keeps the item alive.
Erase(f, B) ==
    [f EXCEPT !.index  = @ \ B,
              !.linked = {b \in @ : Previous[b] \notin B /\ (b \in B => b = f.head)}]

\* _head is left alone.
Remove(f, B) == Erase(f, B)

SetMaxSize(f, size) ==
    LET g == [f EXCEPT !.max_size = size]
    IN  IF f.head = None THEN g ELSE Erase(g, {b \in f.index : Num[b] < Floor(g)})

-----------------------------------------------------------------------------
\* The item k steps below b along the prev pointers, None past a dead one.
Back(f, b) ==
    LET step[k \in 0 .. Num[b]] ==
          IF k = 0 THEN b
          ELSE IF step[k - 1] \in f.linked THEN Previous[step[k - 1]] ELSE None
    IN  step

\* The item at height h on the branch that ends in b.
ItemAt(f, b, h) == Back(f, b)[Num[b] - h]

\* Every pointer from b down to height h is alive.
Reaches(f, b, h) == \A g \in h .. Num[b] : ItemAt(f, b, g) \in Blocks

\* fetch_branch_from walks both branches down to one height, then together
\* until the two items name the same previous id.  When one block is an
\* ancestor of the other, that is the ancestor itself, on both branches.
Heights(a, b) == 1 .. (IF Num[a] < Num[b] THEN Num[a] ELSE Num[b])

SamePrevious(f, a, b, h) == Previous[ItemAt(f, a, h)] = Previous[ItemAt(f, b, h)]

MeetAt(f, a, b, h) ==
    /\ Reaches(f, a, h)
    /\ Reaches(f, b, h)
    /\ SamePrevious(f, a, b, h)
    /\ \A g \in Heights(a, b) : g > h => ~SamePrevious(f, a, b, g)

CanFetchBranch(f, a, b) ==
    /\ a \in f.index
    /\ b \in f.index
    /\ \E h \in Heights(a, b) : MeetAt(f, a, b, h)

MeetingHeight(f, a, b) == CHOOSE h \in Heights(a, b) : MeetAt(f, a, b, h)

\* The branch ending in b from height h on, oldest block first.
Branch(f, b, h) == [i \in 1 .. Num[b] - h + 1 |-> ItemAt(f, b, h + i - 1)]

\* Slip: the walk from the head goes one step too far.
MainBranchAt_OneFurther(f, n) ==
    LET at == AtHeight(f, n)
    IN  CASE at = {}              -> None
          [] Cardinality(at) = 1  -> CHOOSE b \in at : TRUE
          [] n > Num[f.head]      -> None
          [] OTHER                -> ItemAt(f, f.head, n - 1)

\* fetch_block_on_main_branch_by_number: the only item at that height, on
\* whichever branch it is; with several, the one on the head's branch.
MainBranchAt(f, n) ==
    LET at == AtHeight(f, n)
    IN  CASE at = {}              -> None
          [] Cardinality(at) = 1  -> CHOOSE b \in at : TRUE
          [] n > Num[f.head]      -> None
          [] OTHER                -> ItemAt(f, f.head, n)
=============================================================================
