------------------------------- MODULE MCMarket -------------------------------
(***************************************************************************)
(* An instance of Market: prices that round either way.                    *)
(***************************************************************************)
EXTENDS Market, TLC

MCPrices == {<<1, 1>>, <<2, 3>>, <<3, 2>>}
Symmetry == Permutations(Accounts)
=============================================================================
