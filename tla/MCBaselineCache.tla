--------------------------- MODULE MCBaselineCache ---------------------------
(* An instance of BaselineCache for TLC.                                     *)
EXTENDS BaselineCache, TLC

Symmetry == Permutations(Keys) \cup Permutations(Results)
=============================================================================
