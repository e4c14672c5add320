----------------------------- MODULE MCLifecycle -----------------------------
(* Two and three start commands.                                           *)
EXTENDS Lifecycle, TLC
CONSTANTS s1, s2, s3
Symmetry == Permutations(Starters)
=============================================================================
