--------------------------- MODULE ConnectionPool ---------------------------
(***************************************************************************)
(* One SSH connection per host: get_connection and eviction of             *)
(* ssh/connection_pool.py, called by concurrent request handlers.          *)
(*                                                                         *)
(* A task is a coroutine that calls get_connection; asyncio switches tasks *)
(* at two awaits only, the wait for a host's lock and the SSH handshake.   *)
(* A task in between (pc in Running) is not interrupted.  A ProxyJump is a *)
(* nested call of the same task, which keeps the outer frame's lock.       *)
(***************************************************************************)
EXTENDS Naturals, Sequences, FiniteSets

CONSTANTS
    Hosts,           \* host aliases, those of the config and ad-hoc ones
    Tasks,           \* concurrent callers
    Jump,            \* ProxyJump of each host, NoHost if there is none
    NoHost,
    KeyAuth,         \* hosts whose server accepts the user's keys
    Secret,          \* the password each server accepts
    Passwords,       \* what users type
    NoPassword,
    MaxConnections,
    Free             \* an asyncio.Lock nobody holds

ASSUME HostData ==
    /\ NoHost \notin Hosts /\ NoPassword \notin Passwords /\ Free \notin Tasks
    /\ Jump \in [Hosts -> Hosts \cup {NoHost}]
    /\ KeyAuth \subseteq Hosts
    /\ Secret \in [Hosts -> Passwords]

ASSUME Capacity == MaxConnections \in Nat \ {0}

VARIABLES
    pc, at,      \* each task's control point and its innermost frame's host
    target,      \* the host the task asked for
    offered,     \* the password its handshake carries
    keyKnown,    \* whether its copy of known_hosts has the server's key
    result,      \* what its last call returned or raised
    owner,       \* _locks: the task in each host's critical section
    queue,       \* _locks: the waiters of each host, first come first served
    entries,     \* keys of _connections
    open,        \* those whose connection is not is_closed()
    stamped,     \* keys of _last_access
    older,       \* the order of the stamps of _last_access
    password,    \* _passwords
    authFailed,  \* _auth_failed_hosts
    trusted      \* hosts whose key is in one of the known_hosts files

frames == <<pc, at, target, offered, keyKnown, result>>
locks  == <<owner, queue>>
pool   == <<entries, open, stamped, older>>
auth   == <<password, authFailed, trusted>>
vars   == <<frames, locks, pool, auth>>

Running == {"calling", "locked", "returned"}

\* No other task is between two awaits.
Undisturbed(t) == \A u \in Tasks \ {t} : pc[u] \notin Running

Init ==
    /\ pc = [t \in Tasks |-> "idle"]
    /\ at = [t \in Tasks |-> NoHost]
    /\ target = [t \in Tasks |-> NoHost]
    /\ offered = [t \in Tasks |-> NoPassword]
    /\ keyKnown = [t \in Tasks |-> FALSE]
    /\ result = [t \in Tasks |-> "none"]
    /\ owner = [h \in Hosts |-> Free]
    /\ queue = [h \in Hosts |-> <<>>]
    /\ entries = {} /\ open = {} /\ stamped = {} /\ older = {}
    /\ password = [h \in Hosts |-> NoPassword]
    /\ authFailed = {}
    /\ trusted \in SUBSET Hosts

-----------------------------------------------------------------------------
(* _last_access.  Only the order of the stamps matters to eviction. *)

\* time.monotonic(): h becomes the most recent.
Stamp(h) ==
    /\ stamped' = stamped \cup {h}
    /\ older' = {p \in older : h \notin {p[1], p[2]}} \cup (stamped \ {h}) \X {h}

Newer(S, h) == {k \in S : <<h, k>> \in older}

\* What the second pass of an eviction keeps of S: it takes the oldest stamp
\* out while the pool is full.
MostRecent(S) == {h \in S : Cardinality(Newer(S, h)) < MaxConnections - 1}

\* Stamps older than idle_timeout: some time has passed since the last step.
IdleSets == {I \in SUBSET entries : \A h \in I : \A k \in entries :
                <<k, h>> \in older => k \in I}

EvictKeepingStamps(idle) ==  \* mutant: the stamps of idle hosts stay
    LET kept == IF Cardinality(entries \ idle) < MaxConnections
                  THEN entries \ idle ELSE MostRecent(entries \ idle)
    IN  /\ entries' = kept
        /\ open' = open \cap kept
        /\ UNCHANGED <<stamped, older>>

EvictUnclosed(idle) ==  \* mutant: the entries go, the connections stay open
    LET kept == IF Cardinality(entries \ idle) < MaxConnections
                  THEN entries \ idle ELSE MostRecent(entries \ idle)
    IN  /\ entries' = kept
        /\ stamped' = stamped \cap kept
        /\ older' = older \cap (kept \X kept)
        /\ UNCHANGED open

\* _evict_if_needed: first the idle connections, then the oldest.
Evict(idle) ==
    LET kept == IF Cardinality(entries \ idle) < MaxConnections
                  THEN entries \ idle ELSE MostRecent(entries \ idle)
    IN  /\ entries' = kept
        /\ open' = open \cap kept
        /\ stamped' = stamped \cap kept
        /\ older' = older \cap (kept \X kept)

-----------------------------------------------------------------------------
(* Frames. *)

\* The frame of the same task that called the innermost one as its jump.
Callers(t) == {k \in Hosts \ {at[t]} : owner[k] = t /\ Jump[k] = at[t]}

\* asyncssh.connect, with the password and the known_hosts files of now.
Handshake(t, h) ==
    /\ pc' = [pc EXCEPT ![t] = "connecting"]
    /\ at' = [at EXCEPT ![t] = h]
    /\ offered' = [offered EXCEPT ![t] = password[h]]
    /\ keyKnown' = [keyKnown EXCEPT ![t] = h \in trusted]
    /\ UNCHANGED <<target, result>>

Done(t, r) ==
    /\ pc' = [pc EXCEPT ![t] = "returned"]
    /\ at' = [at EXCEPT ![t] = NoHost]
    /\ offered' = [offered EXCEPT ![t] = NoPassword]
    /\ keyKnown' = [keyKnown EXCEPT ![t] = FALSE]
    /\ result' = [result EXCEPT ![t] = r]
    /\ UNCHANGED target

ReturnTunnel(t) ==  \* mutant: the tunnel is taken for the connection
    /\ owner' = [h \in Hosts |-> IF owner[h] = t THEN Free ELSE owner[h]]
    /\ Done(t, "connection")
    /\ UNCHANGED queue

\* The innermost frame returns its connection: to the handler, or to the
\* frame that wants it as a tunnel, which goes on to its own handshake.
Return(t) ==
    /\ owner' = [owner EXCEPT ![at[t]] = Free]
    /\ IF Callers(t) = {} THEN Done(t, "connection")
       ELSE \E k \in Callers(t) : Handshake(t, k)
    /\ UNCHANGED queue

RaiseReleasingOne(t, r) ==  \* mutant: the outer frames keep their locks
    /\ owner' = [owner EXCEPT ![at[t]] = Free]
    /\ Done(t, r)
    /\ UNCHANGED queue

\* An exception unwinds every frame of the task: no frame catches it.
Raise(t, r) ==
    /\ owner' = [h \in Hosts |-> IF owner[h] = t THEN Free ELSE owner[h]]
    /\ Done(t, r)
    /\ UNCHANGED queue

-----------------------------------------------------------------------------
(* get_connection. *)

Begin(t, h) ==
    /\ pc[t] = "idle" /\ Undisturbed(t)
    /\ pc' = [pc EXCEPT ![t] = "calling"]
    /\ at' = [at EXCEPT ![t] = h]
    /\ target' = [target EXCEPT ![t] = h]
    /\ result' = [result EXCEPT ![t] = "none"]
    /\ UNCHANGED <<offered, keyKnown, locks, pool>>

Call(t, h) == Begin(t, h) /\ UNCHANGED auth

AcquireOwnLock(t) ==  \* mutant: the lock is created per call, not per host
    /\ pc[t] = "calling"
    /\ owner' = [owner EXCEPT ![at[t]] = t]
    /\ pc' = [pc EXCEPT ![t] = "locked"]
    /\ UNCHANGED <<at, target, offered, keyKnown, result, queue, pool, auth>>

\* asyncio.Lock is not reentrant, and does not let a newcomer overtake.
Acquire(t) ==
    /\ pc[t] = "calling"
    /\ LET h == at[t] IN
       IF owner[h] = Free /\ queue[h] = <<>>
         THEN /\ owner' = [owner EXCEPT ![h] = t]
              /\ pc' = [pc EXCEPT ![t] = "locked"]
              /\ UNCHANGED queue
         ELSE /\ queue' = [queue EXCEPT ![h] = Append(@, t)]
              /\ pc' = [pc EXCEPT ![t] = "waiting"]
              /\ UNCHANGED owner
    /\ UNCHANGED <<at, target, offered, keyKnown, result, pool, auth>>

Wake(t) ==
    /\ pc[t] = "waiting" /\ Undisturbed(t)
    /\ owner[at[t]] = Free
    /\ queue[at[t]] # <<>> /\ Head(queue[at[t]]) = t
    /\ owner' = [owner EXCEPT ![at[t]] = t]
    /\ queue' = [queue EXCEPT ![at[t]] = Tail(@)]
    /\ pc' = [pc EXCEPT ![t] = "locked"]
    /\ UNCHANGED <<at, target, offered, keyKnown, result, pool, auth>>

CachedOrClosed(t) ==  \* mutant: is_closed() is not asked
    /\ pc[t] = "locked" /\ at[t] \in entries
    /\ Stamp(at[t])
    /\ Return(t)
    /\ UNCHANGED <<entries, open, auth>>

Cached(t) ==
    /\ pc[t] = "locked" /\ at[t] \in open
    /\ Stamp(at[t])
    /\ Return(t)
    /\ UNCHANGED <<entries, open, auth>>

KnownToNeedPassword(h) == h \in authFailed /\ password[h] = NoPassword

FastFail(t) ==
    /\ pc[t] = "locked" /\ at[t] \notin open
    /\ KnownToNeedPassword(at[t])
    /\ Raise(t, "password_required")
    /\ UNCHANGED <<pool, auth>>

StartAlways(t) ==  \* mutant: no fast-fail
    /\ pc[t] = "locked" /\ at[t] \notin open
    /\ \E idle \in IdleSets : Evict(idle)
    /\ IF Jump[at[t]] = NoHost THEN Handshake(t, at[t])
       ELSE /\ pc' = [pc EXCEPT ![t] = "calling"]
            /\ at' = [at EXCEPT ![t] = Jump[at[t]]]
            /\ UNCHANGED <<target, offered, keyKnown, result>>
    /\ UNCHANGED <<locks, auth>>

\* Make room, then connect, or first ask for the jump host's connection.
Start(t) ==
    /\ pc[t] = "locked" /\ at[t] \notin open
    /\ ~KnownToNeedPassword(at[t])
    /\ \E idle \in IdleSets : Evict(idle)
    /\ IF Jump[at[t]] = NoHost THEN Handshake(t, at[t])
       ELSE /\ pc' = [pc EXCEPT ![t] = "calling"]
            /\ at' = [at EXCEPT ![t] = Jump[at[t]]]
            /\ UNCHANGED <<target, offered, keyKnown, result>>
    /\ UNCHANGED <<locks, auth>>

Connecting(t) == pc[t] = "connecting" /\ Undisturbed(t)

Accepts(h, p) == h \in KeyAuth \/ p = Secret[h]

Connected(t) ==
    /\ Connecting(t)
    /\ keyKnown[t] /\ Accepts(at[t], offered[t])
    /\ entries' = entries \cup {at[t]} /\ open' = open \cup {at[t]}
    /\ Stamp(at[t])
    /\ Return(t)
    /\ UNCHANGED auth

\* PermissionDenied.  The handler looks at the password of now, which need not
\* be the one the handshake carried.
Denied(t) ==
    /\ Connecting(t)
    /\ keyKnown[t] /\ ~Accepts(at[t], offered[t])
    /\ IF password[at[t]] = NoPassword
         THEN authFailed' = authFailed \cup {at[t]} /\ Raise(t, "password_required")
         ELSE UNCHANGED authFailed /\ Raise(t, "denied")
    /\ UNCHANGED <<pool, password, trusted>>

KeyUnknown(t) ==
    /\ Connecting(t)
    /\ ~keyKnown[t]
    /\ Raise(t, "host_key_unknown")
    /\ UNCHANGED <<pool, auth>>

Unreachable(t) ==
    /\ Connecting(t)
    /\ Raise(t, "error")
    /\ UNCHANGED <<pool, auth>>

\* The request handler takes the connection or the exception.
End(t) ==
    /\ pc[t] = "returned"
    /\ pc' = [pc EXCEPT ![t] = "idle"]
    /\ target' = [target EXCEPT ![t] = NoHost]
    /\ UNCHANGED <<at, offered, keyKnown, result, locks, pool>>

Finish(t) == End(t) /\ UNCHANGED auth

-----------------------------------------------------------------------------
(* The pool's other operations, each called by some request handler. *)

StorePassword(h, p) ==
    /\ password' = [password EXCEPT ![h] = p]
    /\ authFailed' = authFailed \ {h}
    /\ UNCHANGED trusted

DropPassword(h) ==
    /\ password' = [password EXCEPT ![h] = NoPassword]
    /\ UNCHANGED <<authFailed, trusted>>

SetPassword(h, p) == StorePassword(h, p) /\ UNCHANGED <<frames, locks, pool>>

ClearPassword(h) == DropPassword(h) /\ UNCHANGED <<frames, locks, pool>>

TrustHostKey(h) ==
    /\ trusted' = trusted \cup {h}
    /\ UNCHANGED <<frames, locks, pool, password, authFailed>>

\* The server, the network or a keepalive ends a connection; the entry stays.
Lost(h) ==
    /\ h \in open
    /\ open' = open \ {h}
    /\ UNCHANGED <<frames, locks, entries, stamped, older, auth>>

Locked(t) == Cached(t) \/ FastFail(t) \/ Start(t)

HandshakeEnds(t) == Connected(t) \/ Denied(t) \/ KeyUnknown(t) \/ Unreachable(t)

Step(t) ==
    \/ Acquire(t)
    \/ Wake(t)
    \/ Locked(t)
    \/ HandshakeEnds(t)

Quiet == \A t \in Tasks : pc[t] \notin Running

Next ==
    \/ \E t \in Tasks : (\E h \in Hosts : Call(t, h)) \/ Step(t) \/ Finish(t)
    \/ /\ Quiet
       /\ \E h \in Hosts :
            \/ \E p \in Passwords : SetPassword(h, p)
            \/ ClearPassword(h)
            \/ TrustHostKey(h)
            \/ Lost(h)

\* The event loop runs what is ready in the order it became ready, and every
\* handshake ends, at the latest by AsyncSSH's login timeout.
Fairness == \A t \in Tasks :
    /\ WF_vars(Acquire(t) \/ Locked(t) \/ Finish(t))
    /\ SF_vars(Wake(t))
    /\ SF_vars(HandshakeEnds(t))

Spec == Init /\ [][Next]_vars /\ Fairness
-----------------------------------------------------------------------------
(* Properties *)

Results == {"none", "connection", "password_required", "denied",
            "host_key_unknown", "error"}

\* The variables have their types.
TypeOK ==
    /\ pc \in [Tasks -> {"idle", "waiting", "connecting"} \cup Running]
    /\ at \in [Tasks -> Hosts \cup {NoHost}]
    /\ target \in [Tasks -> Hosts \cup {NoHost}]
    /\ offered \in [Tasks -> Passwords \cup {NoPassword}]
    /\ keyKnown \in [Tasks -> BOOLEAN]
    /\ result \in [Tasks -> Results]
    /\ owner \in [Hosts -> Tasks \cup {Free}]
    /\ queue \in [Hosts -> Seq(Tasks)]
    /\ entries \subseteq Hosts /\ open \subseteq entries
    /\ stamped \subseteq Hosts /\ older \subseteq Hosts \X Hosts
    /\ password \in [Hosts -> Passwords \cup {NoPassword}]
    /\ authFailed \subseteq Hosts /\ trusted \subseteq Hosts

\* Two concurrent requests never open two connections to one host: while one
\* is in its handshake, no other is, and none reads or evicts for that host.
OneHandshakePerHost == \A t, u \in Tasks :
    t # u /\ pc[t] \in {"connecting", "locked"} /\ pc[u] \in {"connecting", "locked"}
        => at[t] # at[u]

\* Eviction finds a stamp for every connection and a connection for every
\* stamp, and the stamps in a strict order: no KeyError, no leaked entry.
StampsMatchConnections ==
    /\ stamped = entries
    /\ \A h, k \in entries : h # k => (<<h, k>> \in older) # (<<k, h>> \in older)
    /\ \A h \in entries : <<h, h>> \notin older

\* What get_connection hands to a request is an open connection to the host
\* it asked for, whatever was lost, evicted or opened while it waited.
ReturnsOpenConnection == \A t \in Tasks :
    pc[t] = "returned" /\ result[t] = "connection" => target[t] \in open

\* "Concurrent requests fast-fail instead of re-attempting": no handshake
\* without a password is under way with a host that already refused the keys.
RefusedKeysNotRetried == \A t \in Tasks :
    pc[t] = "connecting" /\ offered[t] = NoPassword => at[t] \notin authFailed

-----------------------------------------------------------------------------
(* Refinement *)

Dialed(t) == IF pc[t] = "connecting" THEN at[t] ELSE NoHost

Answer(t) == IF pc[t] # "returned" THEN "none"
             ELSE IF result[t] = "connection" THEN "connection" ELSE "error"

Abstract == INSTANCE AbstractPool WITH
    up      <- open,
    dials   <- [t \in Tasks |-> Dialed(t)],
    request <- target,
    answer  <- [t \in Tasks |-> Answer(t)]

\* Locks, stamps and nested calls keep the pool's promise: one connection per
\* host from one handshake at a time, and every caller is answered with an open
\* connection to its host or an error.
ImplementsAbstractPool == Abstract!Spec
=============================================================================
