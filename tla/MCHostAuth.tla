----------------------------- MODULE MCHostAuth -----------------------------
(* Constants for TLC: one or two hosts that only take the password "good",  *)
(* the second one behind the first.                                         *)
EXTENDS HostAuth

CONSTANTS inner, bastion, t1, t2, t3, good, bad

JumpViaBastion == [h \in Hosts |-> IF h = inner THEN bastion ELSE NoHost]
GoodEverywhere == [h \in Hosts |-> good]
=============================================================================
