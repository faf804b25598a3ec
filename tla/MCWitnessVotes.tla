---------------------------- MODULE MCWitnessVotes ----------------------------
(***************************************************************************)
(* An instance of WitnessVotes with interchangeable accounts.              *)
(***************************************************************************)
EXTENDS WitnessVotes, TLC

Symmetry == Permutations(Accounts)
=============================================================================
