--------------------------- MODULE MCSyncBroadcast ---------------------------
(***************************************************************************)
(* Two API threads that race over one transaction, which expires at the    *)
(* time of the second of three slots.                                      *)
(***************************************************************************)
EXTENDS SyncBroadcast

CONSTANTS c1, c2, x1

MCCallers == {c1, c2}
MCTxs == {x1}
MCExpiration == [x \in MCTxs |-> 2]
=============================================================================
