------------------------------ MODULE MCVesting ------------------------------
(***************************************************************************)
(* An instance of Vesting: five shares for two tokens, so that prices      *)
(* round and the last part of a power-down is a small one.                 *)
(***************************************************************************)
EXTENDS Vesting

MCShares  == [a \in Accounts |-> IF a = 1 THEN 5 ELSE 0]
MCBalance == [a \in Accounts |-> 0]
=============================================================================
