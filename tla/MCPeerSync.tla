----------------------------- MODULE MCPeerSync -----------------------------
(***************************************************************************)
(* Instances of PeerSync: a chain 1 .. 4 and a fork 13, 14, 15 after       *)
(* block 2, where block 10 + n has number n.                               *)
(***************************************************************************)
EXTENDS PeerSync

ForkedBlocks == 1 .. 4 \cup 13 .. 15
ForkedParent == [b \in ForkedBlocks |-> IF b = 13 THEN 2 ELSE b - 1]
FirstBlocks == 1 .. 4 \cup {13}
=============================================================================
