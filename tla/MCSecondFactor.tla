--------------------------- MODULE MCSecondFactor ---------------------------
(* Constants for TLC. *)
EXTENDS SecondFactor, TLC

CONSTANTS k1, k2, c1, c2, p1, p2, s1

Symmetry == Permutations(Secrets) \cup Permutations(Commands)
=============================================================================
