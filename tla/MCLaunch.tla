------------------------------ MODULE MCLaunch ------------------------------
(* Constants for TLC: two daemons and two open commands on two ports.       *)
EXTENDS Launch, TLC

CONSTANTS d1, d2, e1, v1

Symmetry == Permutations(Daemons)
=============================================================================
