------------------------------- MODULE MC_Trading -------------------------------
(* Small instances of Trading.                                                *)
EXTENDS Trading, TLC

CONSTANTS s1, s2, o1, o2

Symmetry == Permutations(Symbols) \cup Permutations(OrderIds)
=============================================================================
