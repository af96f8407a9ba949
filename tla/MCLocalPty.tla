----------------------------- MODULE MCLocalPty -----------------------------
(* Constants for TLC: two consoles for one slot, two rounds of each loop.   *)
EXTENDS LocalPty

CONSTANTS s1, s2
=============================================================================
