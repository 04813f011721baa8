--------------------------- MODULE MCMarketplace ---------------------------
(* Small instances of Marketplace for TLC.                                 *)
EXTENDS Marketplace, TLC

Symmetry == Permutations(Crashable) \cup Permutations(Calls \ Crashable)
=============================================================================
