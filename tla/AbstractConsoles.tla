-------------------------- MODULE AbstractConsoles --------------------------
(***************************************************************************)
(* What the local consoles promise, without signals, descriptors or loops. *)
(* A console takes one of the slots when it starts to run, is refused only *)
(* while all are taken, runs once, and gives its slot back, if it does, no *)
(* earlier than when nothing of it runs any more.  A server that stops     *)
(* takes no more consoles, and has ended them all when it is down.         *)
(***************************************************************************)
EXTENDS Naturals, FiniteSets

CONSTANTS Sessions, MaxSessions

VARIABLES
    up,       \* the server takes consoles
    fresh,    \* consoles that have not asked yet
    slots,    \* those that hold a slot
    running   \* those with a process or a descriptor left

cvars == <<up, fresh, slots, running>>

Init == up = TRUE /\ fresh = Sessions /\ slots = {} /\ running = {}

Take(s) ==
    /\ up /\ s \in fresh /\ Cardinality(slots) < MaxSessions
    /\ fresh' = fresh \ {s}
    /\ slots' = slots \cup {s} /\ running' = running \cup {s}
    /\ UNCHANGED up

Refuse(s) ==
    /\ up /\ s \in fresh /\ Cardinality(slots) >= MaxSessions
    /\ fresh' = fresh \ {s}
    /\ UNCHANGED <<up, slots, running>>

\* What is left of a console ends, and the slot may be free at once or later.
End(s) ==
    /\ running' = running \ {s} /\ slots' \in {slots, slots \ {s}}
    /\ UNCHANGED <<up, fresh>>

Stop == up' = FALSE /\ UNCHANGED <<fresh, slots, running>>

Down == ~up /\ running = {} /\ slots' = {} /\ UNCHANGED <<up, fresh, running>>

\* A server that takes too long to stop is ended from outside, and does not end
\* what still runs.
Cut == ~up /\ running' \subseteq running /\ UNCHANGED <<up, fresh, slots>>

Next == Stop \/ Down \/ Cut \/ \E s \in Sessions : Take(s) \/ Refuse(s) \/ End(s)

Spec == Init /\ [][Next]_cvars
=============================================================================
