-------------------------- MODULE MCClientLiveness --------------------------
(* Constants for TLC.  One unit of time is five seconds, so the durations   *)
(* keep the ratios of the code: pings every 5 s, 15 s to answer and to be   *)
(* stale, a reaper pass every 5 s, 10 s and 20 s of grace.                  *)
EXTENDS ClientLiveness

CONSTANTS h1, tab1, tab2, term1, term2, web1

OneHost == [c \in Tabs \cup Terminals |-> h1]
=============================================================================
