------------------------------- MODULE MC_RestApi -------------------------------
(* RestApi with two calls under way.                                          *)
EXTENDS RestApi, TLC

CONSTANTS k1, k2

Symmetry == Permutations(Calls)

=============================================================================
