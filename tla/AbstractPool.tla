---------------------------- MODULE AbstractPool ----------------------------
(***************************************************************************)
(* What the connection pool promises to its callers, without locks, stamps *)
(* or frames.  A host has at most one connection, and it comes out of one  *)
(* handshake at a time, made by a caller on the way to its own host.  A    *)
(* caller is answered with an open connection to that host or with an      *)
(* error.  Connections may be dropped, to make room or because they broke, *)
(* at any moment.                                                          *)
(***************************************************************************)
CONSTANTS Hosts, Tasks, NoHost

VARIABLES
    up,       \* hosts with an open connection
    dials,    \* the host each caller is in a handshake with
    request,  \* the host each caller has asked for
    answer    \* what it has been given

avars == <<up, dials, request, answer>>

Init ==
    /\ up = {}
    /\ dials = [t \in Tasks |-> NoHost]
    /\ request = [t \in Tasks |-> NoHost]
    /\ answer = [t \in Tasks |-> "none"]

Unreached(h) == h \notin up /\ \A u \in Tasks : dials[u] # h

\* A caller that has its answer may ask again.
Ask(t, h) ==
    /\ request[t] = NoHost \/ answer[t] # "none"
    /\ request' = [request EXCEPT ![t] = h]
    /\ answer' = [answer EXCEPT ![t] = "none"]
    /\ UNCHANGED <<up, dials>>

Outstanding(t) == request[t] # NoHost /\ answer[t] = "none" /\ dials[t] = NoHost

\* Nobody dials a host that is up or that another caller dials; any of the
\* others may be dropped for it.
Dial(t, h) ==
    /\ Outstanding(t) /\ Unreached(h)
    /\ dials' = [dials EXCEPT ![t] = h]
    /\ up' \subseteq up
    /\ UNCHANGED <<request, answer>>

\* The handshake succeeds, with the host the caller wants or with its way to k.
Established(t) ==
    /\ dials[t] # NoHost
    /\ up' = up \cup {dials[t]}
    /\ \/ /\ request[t] = dials[t]
          /\ dials' = [dials EXCEPT ![t] = NoHost]
          /\ answer' = [answer EXCEPT ![t] = "connection"]
       \/ \E k \in Hosts :
            /\ Unreached(k)
            /\ dials' = [dials EXCEPT ![t] = k]
            /\ UNCHANGED answer
    /\ UNCHANGED request

Failed(t) ==
    /\ dials[t] # NoHost
    /\ dials' = [dials EXCEPT ![t] = NoHost]
    /\ answer' = [answer EXCEPT ![t] = "error"]
    /\ UNCHANGED <<up, request>>

\* The connection is there already.
Serve(t) ==
    /\ Outstanding(t)
    /\ request[t] \in up
    /\ answer' = [answer EXCEPT ![t] = "connection"]
    /\ UNCHANGED <<up, dials, request>>

Refuse(t) ==
    /\ Outstanding(t)
    /\ answer' = [answer EXCEPT ![t] = "error"]
    /\ UNCHANGED <<up, dials, request>>

Leave(t) ==
    /\ answer[t] # "none"
    /\ request' = [request EXCEPT ![t] = NoHost]
    /\ answer' = [answer EXCEPT ![t] = "none"]
    /\ UNCHANGED <<up, dials>>

\* Also while it makes room for a handshake that has yet to begin.
Drop ==
    /\ up' \subseteq up
    /\ UNCHANGED <<dials, request, answer>>

Next ==
    \/ Drop
    \/ \E t \in Tasks :
        \/ \E h \in Hosts : Ask(t, h) \/ Dial(t, h)
        \/ Established(t) \/ Failed(t) \/ Serve(t) \/ Refuse(t) \/ Leave(t)

Spec == Init /\ [][Next]_avars
=============================================================================
