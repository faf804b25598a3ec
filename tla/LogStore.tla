------------------------------ MODULE LogStore ------------------------------
(***************************************************************************)
(* What the chain database relies on in the block log: blocks are only     *)
(* added at the end, flushed blocks stay, and a crash cuts off part of     *)
(* what was not flushed.  ChainDatabase uses the log this way; BlockLog    *)
(* is shown to implement it.                                               *)
(***************************************************************************)
EXTENDS Integers, Sequences

VARIABLES log,      \* block numbers, oldest first
          flushed   \* how many of them are certain to stay

vars == <<log, flushed>>

Init == log = <<>> /\ flushed = 0

Append1 ==
    /\ log' = Append(log, Len(log) + 1)
    /\ UNCHANGED flushed

Flush ==
    /\ flushed' \in flushed .. Len(log)
    /\ UNCHANGED log

Lose ==
    /\ \E n \in flushed .. Len(log) : log' = SubSeq(log, 1, n) /\ flushed' = n

Next == Append1 \/ Flush \/ Lose

Spec == Init /\ [][Next]_vars
=============================================================================
