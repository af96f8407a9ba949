------------------------------ MODULE HostAuth ------------------------------
(***************************************************************************)
(* Password authentication: the request handlers of api/hosts.py on top of *)
(* the connection pool.                                                    *)
(*                                                                         *)
(* An auth request checks the rate limit, stores its password and calls    *)
(* get_connection; it answers when the call returns.  Page requests (tree, *)
(* home, status) call get_connection with whatever password is on file.    *)
(* What a handler does before and after its await is one step with it.     *)
(***************************************************************************)
EXTENDS ConnectionPool, Integers

CONSTANT AuthMax  \* AUTH_MAX_ATTEMPTS

ASSUME RateLimit == AuthMax \in Nat \ {0}

VARIABLES
    job,        \* the kind of request each task is serving
    typed,      \* the password of an auth request
    attempts,   \* _auth_attempts: the failures of each host in the last window
    contended   \* history: another auth request for the host overlapped

handlers == <<job, typed, attempts, contended>>
authVars == <<vars, handlers>>

AuthInit ==
    /\ Init
    /\ job = [t \in Tasks |-> "none"]
    /\ typed = [t \in Tasks |-> NoPassword]
    /\ attempts = [h \in Hosts |-> 0]
    /\ contended = [t \in Tasks |-> FALSE]

Authenticating(h) == {t \in Tasks : job[t] = "auth" /\ target[t] = h}

NeverLimited(h) == FALSE  \* mutant

RateLimited(h) == attempts[h] >= AuthMax

PageRequest(t, h) ==
    /\ Call(t, h)
    /\ job' = [job EXCEPT ![t] = "page"]
    /\ UNCHANGED <<typed, attempts, contended>>

\* A limited request is answered 423 at once and changes nothing.
AuthRequest(t, h, p) ==
    /\ ~RateLimited(h)
    /\ StorePassword(h, p)
    /\ Begin(t, h)
    /\ job' = [job EXCEPT ![t] = "auth"]
    /\ typed' = [typed EXCEPT ![t] = p]
    /\ contended' = [u \in Tasks |->
                        IF u = t THEN Authenticating(h) # {}
                        ELSE contended[u] \/ u \in Authenticating(h)]
    /\ UNCHANGED attempts

ForgiveOne(h, success) ==  \* mutant: a success forgives one failure
    attempts' = [attempts EXCEPT ![h] = IF success THEN @ - 1 ELSE @ + 1]

RecordAttempt(h, success) ==
    attempts' = [attempts EXCEPT ![h] = IF success THEN 0 ELSE @ + 1]

\* HostKeyError and ConnectionError drop the password, PasswordRequiredError
\* does not.
AuthReply(t) ==
    /\ job[t] = "auth"
    /\ End(t)
    /\ RecordAttempt(target[t], result[t] = "connection")
    /\ IF result[t] \in {"denied", "host_key_unknown", "error"}
         THEN DropPassword(target[t])
         ELSE UNCHANGED auth
    /\ job' = [job EXCEPT ![t] = "none"]
    /\ typed' = [typed EXCEPT ![t] = NoPassword]
    /\ contended' = [contended EXCEPT ![t] = FALSE]

PageReplyDropsPassword(t) ==  \* mutant
    /\ job[t] = "page"
    /\ End(t)
    /\ IF result[t] = "denied" THEN DropPassword(target[t]) ELSE UNCHANGED auth
    /\ job' = [job EXCEPT ![t] = "none"]
    /\ UNCHANGED <<typed, attempts, contended>>

PageReply(t) ==
    /\ job[t] = "page"
    /\ Finish(t)
    /\ job' = [job EXCEPT ![t] = "none"]
    /\ UNCHANGED <<typed, attempts, contended>>

\* A failure is older than AUTH_WINDOW_SECONDS.
WindowMoves(h) ==
    /\ attempts[h] > 0
    /\ attempts' = [attempts EXCEPT ![h] = @ - 1]
    /\ UNCHANGED <<vars, job, typed, contended>>

AuthNext ==
    \/ \E t \in Tasks :
        \/ \E h \in Hosts : PageRequest(t, h) \/ \E p \in Passwords : AuthRequest(t, h, p)
        \/ Step(t) /\ UNCHANGED handlers
        \/ AuthReply(t) \/ PageReply(t)
    \/ /\ Quiet
       /\ \E h \in Hosts :
            \/ TrustHostKey(h) /\ UNCHANGED handlers
            \/ Lost(h) /\ UNCHANGED handlers
            \/ WindowMoves(h)

\* As in the pool: ready tasks run, handshakes end.
AuthFairness == \A t \in Tasks :
    /\ WF_authVars((Acquire(t) \/ Locked(t)) /\ UNCHANGED handlers)
    /\ WF_authVars(AuthReply(t) \/ PageReply(t))
    /\ SF_authVars(Wake(t) /\ UNCHANGED handlers)
    /\ SF_authVars(HandshakeEnds(t) /\ UNCHANGED handlers)

AuthSpec == AuthInit /\ [][AuthNext]_authVars /\ AuthFairness
-----------------------------------------------------------------------------
(* Properties *)

\* The handlers' variables have their types; a task serves a request exactly
\* while it is in get_connection.
HandlersTypeOK ==
    /\ job \in [Tasks -> {"none", "page", "auth"}]
    /\ typed \in [Tasks -> Passwords \cup {NoPassword}]
    /\ attempts \in [Hosts -> Nat]
    /\ contended \in [Tasks -> BOOLEAN]
    /\ \A t \in Tasks : job[t] = "none" <=> pc[t] = "idle"

\* "Auth attempts are rate-limited per host": the check and the count are on
\* both sides of an await, so that requests in flight slip through, but never
\* more than there are tasks.
FailuresBounded == \A h \in Hosts :
    attempts[h] + Cardinality(Authenticating(h)) < AuthMax + Cardinality(Tasks)

\* A user who types the right password, with no other auth request under way
\* for that host, is not told that it is wrong or missing, whatever the page's
\* own requests do meanwhile.
SoleRightPasswordAccepted == \A t \in Tasks :
    /\ job[t] = "auth" /\ pc[t] = "returned"
    /\ typed[t] = Secret[target[t]] /\ ~contended[t] /\ Jump[target[t]] = NoHost
    => result[t] \notin {"denied", "password_required"}

\* Every request is answered.
EveryRequestAnswered == \A t \in Tasks : job[t] # "none" ~> job[t] = "none"

\* "Pool stores password in memory, retries connect": the answer to an auth
\* request is about the password that request carried.
RightPasswordAccepted == \A t \in Tasks :
    /\ job[t] = "auth" /\ pc[t] = "returned"
    /\ typed[t] = Secret[target[t]] /\ Jump[target[t]] = NoHost
    => result[t] \notin {"denied", "password_required"}
=============================================================================
