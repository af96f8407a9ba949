---------------------------- MODULE HostAuthProofs ----------------------------
(***************************************************************************)
(* What holds of password authentication for any number of hosts, any      *)
(* passwords and any rate limit.                                           *)
(*                                                                         *)
(* The handlers use the pool (every step of theirs is a PoolStep), so its  *)
(* invariants hold under AuthSpec too.  An auth request that nobody else's *)
(* overlaps finds its own password in the pool until it is answered.       *)
(***************************************************************************)
EXTENDS HostAuth, ConnectionPoolProofs, FiniteSetTheorems

CallsHaveTargets == \A t \in Tasks : pc[t] # "idle" => target[t] \in Hosts

AInv == TInv /\ LInv /\ StampsMatchConnections /\ HandlersTypeOK /\ CallsHaveTargets

-----------------------------------------------------------------------------
(* Every step is a use of the pool. *)

LEMMA AuthNextIsPoolStep == TInv /\ CallsHaveTargets /\ [AuthNext]_authVars => PoolStep
<1> SUFFICES ASSUME TInv, CallsHaveTargets, [AuthNext]_authVars PROVE PoolStep
  OBVIOUS
<1>1. ASSUME NEW t \in Tasks, NEW h \in Hosts, PageRequest(t, h) PROVE HandlerMove(t)
  BY <1>1 DEF PageRequest, Call, Begin, HandlerMove, Stores, InCall
<1>2. ASSUME NEW t \in Tasks, NEW h \in Hosts, NEW p \in Passwords, AuthRequest(t, h, p)
      PROVE  HandlerMove(t)
  BY <1>2 DEF AuthRequest, Begin, HandlerMove, Stores, InCall
<1>3. ASSUME NEW t \in Tasks, AuthReply(t) PROVE HandlerMove(t)
  <2>1. target[t] \in Hosts
    BY <1>3 DEF AuthReply, End, CallsHaveTargets
  <2> QED
    BY <1>3, <2>1 DEF AuthReply, End, HandlerMove, Stores, InCall
<1>4. ASSUME NEW t \in Tasks, PageReply(t) PROVE HandlerMove(t)
  BY <1>4 DEF PageReply, Finish, End, HandlerMove, Stores, InCall
<1>5. ASSUME NEW h \in Hosts, WindowMoves(h) PROVE UNCHANGED vars
  BY <1>5 DEF WindowMoves
<1>6. UNCHANGED authVars => UNCHANGED vars
  BY DEF authVars
<1> QED
  BY <1>1, <1>2, <1>3, <1>4, <1>5, <1>6 DEF AuthNext, PoolStep, EnvStep

LEMMA PoolStepTargets == TInv /\ CallsHaveTargets /\ PoolStep => CallsHaveTargets'
<1> SUFFICES ASSUME TInv, CallsHaveTargets, PoolStep PROVE CallsHaveTargets'
  OBVIOUS
<1>1. ASSUME NEW t \in Tasks, HandlerMove(t) PROVE CallsHaveTargets'
  <2>1. pc'[t] = "idle" \/ target'[t] \in Hosts
    BY <1>1 DEF HandlerMove, TInv, TypeOK
  <2>2. \A u \in Tasks \ {t} : pc'[u] = pc[u] /\ target'[u] = target[u]
    BY <1>1 DEF HandlerMove, TInv, TypeOK
  <2> QED
    BY <2>1, <2>2 DEF CallsHaveTargets
<1>2. ASSUME EnvStep \/ UNCHANGED vars PROVE CallsHaveTargets'
  BY <1>2 DEF EnvStep, SetPassword, ClearPassword, TrustHostKey, Lost, vars, frames,
     CallsHaveTargets
<1> QED
  BY <1>1, <1>2, TaskStepInCall DEF PoolStep, CallsHaveTargets

-----------------------------------------------------------------------------
(* The requests. *)

\* What a request changes of its handlers' variables, and of its task.
LEMMA PageRequestMoves ==
    ASSUME TInv, HandlersTypeOK, NEW t \in Tasks, NEW h \in Hosts, PageRequest(t, h)
    PROVE  /\ job[t] = "none" /\ job' = [job EXCEPT ![t] = "page"]
           /\ pc' = [pc EXCEPT ![t] = "calling"] /\ target' = [target EXCEPT ![t] = h]
           /\ UNCHANGED <<typed, attempts, contended, owner, password>>
BY DEF PageRequest, Call, Begin, HandlersTypeOK, locks, auth

LEMMA AuthRequestMoves ==
    ASSUME TInv, HandlersTypeOK, NEW t \in Tasks, NEW h \in Hosts, NEW p \in Passwords,
           AuthRequest(t, h, p)
    PROVE  /\ job[t] = "none" /\ job' = [job EXCEPT ![t] = "auth"]
           /\ pc' = [pc EXCEPT ![t] = "calling"] /\ target' = [target EXCEPT ![t] = h]
           /\ typed' = [typed EXCEPT ![t] = p] /\ password' = [password EXCEPT ![h] = p]
           /\ UNCHANGED <<attempts, owner>>
           /\ attempts[h] < AuthMax
BY RateLimit DEF AuthRequest, Begin, StorePassword, RateLimited, HandlersTypeOK, locks

LEMMA ReplyMoves ==
    ASSUME TInv, HandlersTypeOK, CallsHaveTargets, NEW t \in Tasks, AuthReply(t) \/ PageReply(t)
    PROVE  /\ pc[t] = "returned" /\ pc' = [pc EXCEPT ![t] = "idle"]
           /\ target[t] \in Hosts /\ target' = [target EXCEPT ![t] = NoHost]
           /\ job' = [job EXCEPT ![t] = "none"] /\ UNCHANGED owner
BY DEF AuthReply, PageReply, Finish, End, CallsHaveTargets, locks

LEMMA HandlersTypeKept ==
    TInv /\ HandlersTypeOK /\ CallsHaveTargets /\ [AuthNext]_authVars => HandlersTypeOK'
<1> SUFFICES ASSUME TInv, HandlersTypeOK, CallsHaveTargets, [AuthNext]_authVars
             PROVE  HandlersTypeOK'
  OBVIOUS
<1>1. ASSUME NEW t \in Tasks, NEW h \in Hosts, PageRequest(t, h) PROVE HandlersTypeOK'
  BY <1>1, PageRequestMoves DEF HandlersTypeOK, TInv, TypeOK
<1>2. ASSUME NEW t \in Tasks, NEW h \in Hosts, NEW p \in Passwords, AuthRequest(t, h, p)
      PROVE  HandlersTypeOK'
  <2>1. contended' \in [Tasks -> BOOLEAN]
    BY <1>2 DEF AuthRequest, HandlersTypeOK
  <2>2. /\ job' = [job EXCEPT ![t] = "auth"] /\ pc' = [pc EXCEPT ![t] = "calling"]
        /\ typed' = [typed EXCEPT ![t] = p] /\ attempts' = attempts
    BY <1>2, AuthRequestMoves
  <2> QED
    BY <2>1, <2>2 DEF HandlersTypeOK, TInv, TypeOK
<1>3. ASSUME NEW t \in Tasks, AuthReply(t) \/ PageReply(t) PROVE HandlersTypeOK'
  <2>1. attempts' \in [Hosts -> Nat]
    <3>1. target[t] \in Hosts /\ attempts[target[t]] + 1 \in Nat /\ 0 \in Nat
      BY <1>3, ReplyMoves DEF HandlersTypeOK
    <3>2. CASE AuthReply(t)
      BY <3>1, <3>2 DEF AuthReply, RecordAttempt, HandlersTypeOK
    <3>3. CASE PageReply(t)
      BY <3>3 DEF PageReply, HandlersTypeOK
    <3> QED
      BY <1>3, <3>2, <3>3
  <2>2. typed' \in [Tasks -> Passwords \cup {NoPassword}] /\ contended' \in [Tasks -> BOOLEAN]
    BY <1>3 DEF AuthReply, PageReply, HandlersTypeOK
  <2> QED
    BY <1>3, <2>1, <2>2, ReplyMoves DEF HandlersTypeOK, TInv, TypeOK
<1>4. ASSUME NEW t \in Tasks, Step(t), UNCHANGED handlers PROVE HandlersTypeOK'
  BY <1>4, TaskStepInCall DEF handlers, HandlersTypeOK
<1>5. ASSUME NEW h \in Hosts, WindowMoves(h) PROVE HandlersTypeOK'
  <2>1. attempts[h] - 1 \in Nat
    BY <1>5 DEF WindowMoves, HandlersTypeOK
  <2> QED
    BY <1>5, <2>1 DEF WindowMoves, HandlersTypeOK, vars, frames
<1>6. ASSUME UNCHANGED handlers, UNCHANGED frames PROVE HandlersTypeOK'
  BY <1>6 DEF handlers, frames, HandlersTypeOK
<1> QED
  BY <1>1, <1>2, <1>3, <1>4, <1>5, <1>6 DEF AuthNext, TrustHostKey, Lost, authVars, vars

LEMMA AInvInvariant == AuthSpec => []AInv
<1>1. AuthInit => AInv
  BY InitType, InitLocks, InitStamps
     DEF AuthInit, AInv, Init, HandlersTypeOK, CallsHaveTargets
<1>2. AInv /\ [AuthNext]_authVars => AInv'
  BY AuthNextIsPoolStep, PoolStepType, PoolStepLocks, PoolStepStamps, PoolStepTargets,
     HandlersTypeKept DEF AInv
<1> QED
  BY <1>1, <1>2, PTL DEF AuthSpec

\* A task serves a request exactly while it is in get_connection, and the failures
\* of a host are never fewer than none.
THEOREM HandlersTypeCorrect == AuthSpec => []HandlersTypeOK
<1>1. AInv => HandlersTypeOK
  BY DEF AInv
<1> QED
  BY <1>1, AInvInvariant, PTL

\* With passwords stored and dropped by auth requests, the pool still makes one
\* handshake at a time with a host and retries no refused keys.
THEOREM PoolHoldsUnderAuth ==
    AuthSpec => [](TypeOK /\ OneHandshakePerHost /\ RefusedKeysNotRetried /\ StampsMatchConnections)
<1>1. AInv => TypeOK /\ OneHandshakePerHost /\ RefusedKeysNotRetried /\ StampsMatchConnections
  BY LocksExclude DEF AInv, TInv
<1> QED
  BY <1>1, AInvInvariant, PTL

LEMMA PInvUnderAuth == AcyclicJumps => (AuthSpec => []PInv)
<1> SUFFICES ASSUME AcyclicJumps PROVE AuthSpec => []PInv
  OBVIOUS
<1>1. AuthInit => PInv
  BY InitPInv DEF AuthInit
<1>2. AInv /\ PInv /\ [AuthNext]_authVars => PInv'
  BY AuthNextIsPoolStep, PoolStepKeepsPInv DEF AInv
<1> QED
  BY <1>1, <1>2, AInvInvariant, PTL DEF AuthSpec

\* The pool between the auth requests is the abstract pool: that a password is
\* stored or dropped while others are in get_connection is not seen in it.
THEOREM AuthImplementsAbstract == AcyclicJumps => (AuthSpec => ImplementsAbstractPool)
<1> SUFFICES ASSUME AcyclicJumps PROVE AuthSpec => ImplementsAbstractPool
  OBVIOUS
<1>1. AuthInit => Abstract!Init
  BY InitImplements DEF AuthInit
<1>2. AInv /\ PInv /\ [AuthNext]_authVars => [Abstract!Next]_(Abstract!avars)
  BY AuthNextIsPoolStep, PoolStepImplements DEF AInv
<1> QED
  BY <1>1, <1>2, AInvInvariant, PInvUnderAuth, PTL
     DEF AuthSpec, ImplementsAbstractPool, Abstract!Spec

-----------------------------------------------------------------------------
(* The rate limit. *)

\* A step of a page request, or one that leaves the handlers alone, changes no
\* host's auth requests.
LEMMA SameAuthenticating ==
    ASSUME HandlersTypeOK, NEW t \in Tasks, job[t] # "auth", job'[t] # "auth",
           \A u \in Tasks \ {t} : job'[u] = job[u] /\ target'[u] = target[u]
    PROVE  \A h : Authenticating(h)' = Authenticating(h)
BY DEF Authenticating

LEMMA UntouchedAuthenticating ==
    ASSUME job' = job, target' = target
    PROVE  \A h : Authenticating(h)' = Authenticating(h)
BY DEF Authenticating

LEMMA RequestJoins ==
    ASSUME AInv, NEW t \in Tasks, NEW h \in Hosts, NEW p \in Passwords, AuthRequest(t, h, p)
    PROVE  \A k \in Hosts : Authenticating(k)' =
              IF k = h THEN Authenticating(k) \cup {t} ELSE Authenticating(k)
<1>1. /\ job[t] = "none" /\ job' = [job EXCEPT ![t] = "auth"]
      /\ target' = [target EXCEPT ![t] = h]
  BY AuthRequestMoves DEF AInv
<1>2. job'[t] = "auth" /\ target'[t] = h
      /\ \A u \in Tasks \ {t} : job'[u] = job[u] /\ target'[u] = target[u]
  BY <1>1 DEF AInv, HandlersTypeOK, TInv, TypeOK
<1> QED
  BY <1>1, <1>2 DEF Authenticating

LEMMA ReplyLeaves ==
    ASSUME AInv, NEW t \in Tasks, AuthReply(t)
    PROVE  /\ target[t] \in Hosts /\ t \in Authenticating(target[t])
           /\ \A k \in Hosts : Authenticating(k)' =
                IF k = target[t] THEN Authenticating(k) \ {t} ELSE Authenticating(k)
<1>1. /\ job[t] = "auth" /\ job' = [job EXCEPT ![t] = "none"] /\ target[t] \in Hosts
      /\ target' = [target EXCEPT ![t] = NoHost]
  BY ReplyMoves DEF AInv, AuthReply
<1>2. job'[t] = "none"
      /\ \A u \in Tasks \ {t} : job'[u] = job[u] /\ target'[u] = target[u]
  BY <1>1 DEF AInv, HandlersTypeOK, TInv, TypeOK
<1> QED
  BY <1>1, <1>2 DEF Authenticating

Bounded(h) == attempts[h] + Cardinality(Authenticating(h)) < AuthMax + Cardinality(Tasks)

LEMMA RequestKeepsBound ==
    ASSUME IsFiniteSet(Tasks), AInv, FailuresBounded,
           NEW t \in Tasks, NEW h \in Hosts, NEW p \in Passwords, AuthRequest(t, h, p)
    PROVE  FailuresBounded'
<1>1. attempts' = attempts /\ attempts[h] < AuthMax /\ attempts[h] \in Nat
  BY AuthRequestMoves DEF AInv, HandlersTypeOK
<1>2. Cardinality(Authenticating(h)') <= Cardinality(Tasks)
      /\ Cardinality(Authenticating(h)') \in Nat /\ Cardinality(Tasks) \in Nat
  <2>1. Authenticating(h)' \in SUBSET Tasks
    BY DEF Authenticating
  <2> QED
    BY <2>1, FS_Subset, FS_CardinalityType
<1>3. Bounded(h)'
  BY <1>1, <1>2, RateLimit DEF Bounded
<1>4. \A k \in Hosts \ {h} : Bounded(k)'
  BY <1>1, RequestJoins DEF Bounded, FailuresBounded
<1> QED
  BY <1>3, <1>4 DEF Bounded, FailuresBounded

LEMMA ReplyKeepsBound ==
    ASSUME IsFiniteSet(Tasks), AInv, FailuresBounded, NEW t \in Tasks, AuthReply(t)
    PROVE  FailuresBounded'
<1>1. PICK h \in Hosts : h = target[t]
  BY ReplyLeaves
<1>2. t \in Authenticating(h) /\ Authenticating(h)' = Authenticating(h) \ {t}
  BY <1>1, ReplyLeaves
<1>3. IsFiniteSet(Authenticating(h))
  <2>1. Authenticating(h) \in SUBSET Tasks
    BY DEF Authenticating
  <2> QED
    BY <2>1, FS_Subset
<1>4. /\ Cardinality(Authenticating(h) \ {t}) = Cardinality(Authenticating(h)) - 1
      /\ Cardinality(Authenticating(h)) \in Nat /\ Cardinality(Tasks) \in Nat
  BY <1>2, <1>3, FS_RemoveElement, FS_CardinalityType
<1>5. attempts[h] \in Nat /\ attempts'[h] \in {0, attempts[h] + 1}
      /\ \A k \in Hosts \ {h} : attempts'[k] = attempts[k]
  BY <1>1 DEF AuthReply, RecordAttempt, AInv, HandlersTypeOK
<1>6. Bounded(h)'
  <2>1. attempts[h] + Cardinality(Authenticating(h)) < AuthMax + Cardinality(Tasks)
    BY DEF FailuresBounded
  <2>2. Cardinality(Authenticating(h)') = Cardinality(Authenticating(h)) - 1
    BY <1>2, <1>4
  <2> QED
    BY <1>4, <1>5, <2>1, <2>2, RateLimit DEF Bounded
<1>7. \A k \in Hosts \ {h} : Bounded(k)'
  BY <1>1, <1>5, ReplyLeaves DEF Bounded, FailuresBounded
<1> QED
  BY <1>6, <1>7 DEF Bounded, FailuresBounded

\* However many auth requests are under way when the check of the rate limit lets
\* another one in, the failures of a host stay below AUTH_MAX_ATTEMPTS plus the
\* number of requests that can be under way.
THEOREM FailuresAreBounded == IsFiniteSet(Tasks) => (AuthSpec => []FailuresBounded)
<1> SUFFICES ASSUME IsFiniteSet(Tasks) PROVE AuthSpec => []FailuresBounded
  OBVIOUS
<1>1. AuthInit => FailuresBounded
  <2> SUFFICES ASSUME AuthInit, NEW h \in Hosts PROVE Bounded(h)
    BY DEF FailuresBounded, Bounded
  <2>1. Authenticating(h) = {} /\ attempts[h] = 0
    BY DEF AuthInit, Authenticating
  <2>2. Cardinality({}) = 0 /\ Cardinality(Tasks) \in Nat
    BY FS_EmptySet, FS_CardinalityType
  <2> QED
    BY <2>1, <2>2, RateLimit DEF Bounded
<1>2. AInv /\ FailuresBounded /\ [AuthNext]_authVars => FailuresBounded'
  <2> SUFFICES ASSUME AInv, FailuresBounded, [AuthNext]_authVars PROVE FailuresBounded'
    OBVIOUS
  <2>1. ASSUME UNCHANGED <<job, target, attempts>> PROVE FailuresBounded'
    BY <2>1, UntouchedAuthenticating DEF FailuresBounded
  <2>2. ASSUME NEW t \in Tasks, NEW h \in Hosts, PageRequest(t, h) PROVE FailuresBounded'
    <3>1. /\ job[t] = "none" /\ job' = [job EXCEPT ![t] = "page"] /\ attempts' = attempts
          /\ target' = [target EXCEPT ![t] = h]
      BY <2>2, PageRequestMoves DEF AInv
    <3>2. \A k : Authenticating(k)' = Authenticating(k)
      BY <3>1, SameAuthenticating DEF AInv, HandlersTypeOK, TInv, TypeOK
    <3> QED
      BY <3>1, <3>2 DEF FailuresBounded
  <2>3. ASSUME NEW t \in Tasks, PageReply(t) PROVE FailuresBounded'
    <3>1. /\ job[t] = "page" /\ job' = [job EXCEPT ![t] = "none"] /\ attempts' = attempts
          /\ target' = [target EXCEPT ![t] = NoHost]
      BY <2>3 DEF PageReply, Finish, End
    <3>2. \A k : Authenticating(k)' = Authenticating(k)
      BY <3>1, SameAuthenticating DEF AInv, HandlersTypeOK, TInv, TypeOK
    <3> QED
      BY <3>1, <3>2 DEF FailuresBounded
  <2>4. ASSUME NEW h \in Hosts, WindowMoves(h) PROVE FailuresBounded'
    <3>1. \A k : Authenticating(k)' = Authenticating(k)
      BY <2>4, UntouchedAuthenticating DEF WindowMoves, vars, frames
    <3>2. \A k \in Hosts : attempts'[k] \in Nat /\ attempts[k] \in Nat /\ attempts'[k] <= attempts[k]
      BY <2>4 DEF WindowMoves, AInv, HandlersTypeOK
    <3>3. \A k \in Hosts : Cardinality(Authenticating(k)) \in Nat
      <4>1. \A k \in Hosts : Authenticating(k) \in SUBSET Tasks
        BY DEF Authenticating
      <4> QED
        BY <4>1, FS_Subset, FS_CardinalityType
    <3>4. AuthMax + Cardinality(Tasks) \in Nat
      BY RateLimit, FS_CardinalityType
    <3> QED
      BY <3>1, <3>2, <3>3, <3>4 DEF FailuresBounded
  <2>5. ASSUME NEW t \in Tasks, Step(t), UNCHANGED handlers PROVE FailuresBounded'
    BY <2>1, <2>5, TaskStepInCall DEF handlers, AInv
  <2>6. ASSUME UNCHANGED handlers, UNCHANGED frames PROVE FailuresBounded'
    BY <2>1, <2>6 DEF handlers, frames
  <2> QED
    BY <2>2, <2>3, <2>4, <2>5, <2>6, RequestKeepsBound, ReplyKeepsBound
       DEF AuthNext, TrustHostKey, Lost, authVars, vars
<1> QED
  BY <1>1, <1>2, AInvInvariant, PTL DEF AuthSpec

-----------------------------------------------------------------------------
(* The answer to the only auth request for a host.                          *)

\* A call for a host without a jump has one frame.
Direct(t) == InCall(t) /\ Jump[target[t]] = NoHost =>
    at[t] = target[t] /\ \A k \in Hosts : owner[k] = t => k = target[t]

Sole(t) == job[t] = "auth" /\ ~contended[t]

\* Nobody has stored or dropped its host's password since it began.
FindsItsPassword == \A t \in Tasks, h \in Hosts : Sole(t) /\ target[t] = h =>
    /\ Authenticating(h) = {t}
    /\ typed[t] \in Passwords /\ password[h] = typed[t]

CarriesItsPassword == \A t \in Tasks :
    Sole(t) /\ pc[t] = "connecting" /\ Jump[target[t]] = NoHost => offered[t] = typed[t]

SInv ==
    /\ \A t \in Tasks : Direct(t)
    /\ FindsItsPassword /\ CarriesItsPassword /\ SoleRightPasswordAccepted

\* There is no other frame that could want the connection.
LEMMA NoCallers ==
    ASSUME TInv, NEW t \in Tasks, InCall(t), Direct(t), Jump[target[t]] = NoHost
    PROVE  Callers(t) = {}
BY DEF Direct, Callers

LEMMA TaskStepDirect ==
    ASSUME PInv, \A u \in Tasks : Direct(u), NEW t \in Tasks, Step(t)
    PROVE  \A u \in Tasks : Direct(u)'
<1>1. target' = target
  BY TaskStepInCall DEF PInv
<1>2. ASSUME NEW u \in Tasks, u # t PROVE Direct(u)'
  <2>1. pc'[u] = pc[u] /\ at'[u] = at[u] /\ \A k \in Hosts : owner'[k] = u => owner[k] = u
    BY <1>2, TaskStepOthers, FreeIsNoTask DEF PInv
  <2> QED
    BY <1>1, <2>1 DEF Direct, InCall
<1>3. Direct(t)'
  <2> SUFFICES ASSUME InCall(t)', Jump[target[t]] = NoHost PROVE Direct(t)'
    BY <1>1 DEF Direct
  <2>1. /\ InCall(t) /\ at[t] = target[t] /\ at[t] \in Hosts
        /\ \A k \in Hosts : owner[k] = t => k = target[t]
    BY DEF Direct, Step, Acquire, Wake, Locked, Cached, FastFail, Start, HandshakeEnds,
       Connected, Denied, KeyUnknown, Unreachable, Connecting, InCall, PInv, TInv,
       FramesHaveHosts
  <2>2. Callers(t) = {}
    BY <2>1, NoCallers DEF PInv
  <2>3. CASE Acquire(t) \/ Wake(t)
    BY <1>1, <2>1, <2>3 DEF Acquire, Wake, Direct, PInv, TInv, TypeOK
  <2>4. CASE Start(t)
    BY <1>1, <2>1, <2>4 DEF Start, Handshake, locks, Direct, PInv, TInv, TypeOK
  <2>5. ~(Cached(t) \/ Connected(t))
    BY <2>2 DEF Cached, Connected, Return, Done, InCall, PInv, TInv, TypeOK
  <2>6. ~(FastFail(t) \/ Denied(t) \/ KeyUnknown(t) \/ Unreachable(t))
    BY DEF FastFail, Denied, KeyUnknown, Unreachable, Raise, Done, InCall, PInv, TInv, TypeOK
  <2> QED
    BY <2>3, <2>4, <2>5, <2>6 DEF Step, Locked, HandshakeEnds
<1> QED
  BY <1>2, <1>3

LEMMA PoolStepDirect ==
    PInv /\ (\A t \in Tasks : Direct(t)) /\ PoolStep => \A t \in Tasks : Direct(t)'
<1>1. ASSUME PInv, \A u \in Tasks : Direct(u), NEW t \in Tasks, HandlerMove(t)
      PROVE  \A u \in Tasks : Direct(u)'
  <2>1. owner' = owner /\ at[t] \notin Hosts
    BY <1>1, HostData DEF HandlerMove, locks, PInv, TInv, FramesHaveHosts
  <2>2. \A k \in Hosts : owner'[k] # t
    BY <1>1, <2>1 DEF HandlerMove, PInv, RInv, WellNested
  <2>3. InCall(t)' => at'[t] = target'[t]
    BY <1>1 DEF HandlerMove, InCall, PInv, TInv, TypeOK
  <2>4. \A u \in Tasks \ {t} : pc'[u] = pc[u] /\ at'[u] = at[u] /\ target'[u] = target[u]
    BY <1>1 DEF HandlerMove, PInv, TInv, TypeOK
  <2>5. Direct(t)'
    BY <2>2, <2>3 DEF Direct
  <2>6. \A u \in Tasks \ {t} : Direct(u)'
    BY <1>1, <2>1, <2>4 DEF Direct, InCall
  <2> QED
    BY <2>5, <2>6
<1>2. ASSUME EnvStep \/ UNCHANGED vars PROVE UNCHANGED <<frames, locks>>
  BY <1>2 DEF EnvStep, SetPassword, ClearPassword, TrustHostKey, Lost, vars
<1>3. ASSUME \A u \in Tasks : Direct(u), UNCHANGED <<frames, locks>>
      PROVE  \A u \in Tasks : Direct(u)'
  BY <1>3 DEF Direct, InCall, frames, locks
<1> QED
  BY <1>1, <1>2, <1>3, TaskStepDirect DEF PoolStep

LEMMA TaskStepCarries ==
    ASSUME PInv, AInv, SInv, NEW t \in Tasks, Step(t), UNCHANGED handlers
    PROVE  FindsItsPassword' /\ CarriesItsPassword' /\ SoleRightPasswordAccepted'
<1>1. /\ target' = target /\ password' = password /\ job' = job /\ typed' = typed
      /\ contended' = contended
  BY TaskStepInCall, TaskStepOthers DEF PInv, handlers
<1>2. FindsItsPassword'
  BY <1>1 DEF FindsItsPassword, SInv, Sole, Authenticating
<1>3. \A u \in Tasks \ {t} : pc'[u] = pc[u] /\ offered'[u] = offered[u] /\ result'[u] = result[u]
  BY TaskStepOthers DEF PInv
<1> SUFFICES ASSUME Sole(t), Jump[target[t]] = NoHost
             PROVE  /\ pc'[t] = "connecting" => offered'[t] = typed[t]
                    /\ pc'[t] = "returned" /\ typed[t] = Secret[target[t]] =>
                         result'[t] \notin {"denied", "password_required"}
  BY <1>1, <1>2, <1>3 DEF SInv, Sole, CarriesItsPassword, SoleRightPasswordAccepted
<1>4. InCall(t)
  BY DEF Step, Acquire, Wake, Locked, Cached, FastFail, Start, HandshakeEnds,
     Connected, Denied, KeyUnknown, Unreachable, Connecting, InCall
<1>5. at[t] = target[t] /\ at[t] \in Hosts /\ Callers(t) = {}
  BY <1>4, NoCallers DEF SInv, Direct, PInv, TInv, FramesHaveHosts
<1>6. password[at[t]] = typed[t] /\ typed[t] # NoPassword
  BY <1>5, HostData DEF SInv, FindsItsPassword
<1>7. CASE Acquire(t) \/ Wake(t)
  BY <1>7 DEF Acquire, Wake, PInv, TInv, TypeOK
<1>8. CASE Cached(t) \/ Connected(t)
  BY <1>5, <1>8 DEF Cached, Connected, Return, Done, PInv, TInv, TypeOK
<1>9. CASE FastFail(t)
  BY <1>6, <1>9 DEF FastFail, KnownToNeedPassword
<1>10. CASE Start(t)
  BY <1>5, <1>6, <1>10 DEF Start, Handshake, PInv, TInv, TypeOK
<1>11. CASE Denied(t)
  <2>1. offered[t] = typed[t]
    BY <1>11 DEF Denied, Connecting, SInv, CarriesItsPassword
  <2>2. typed[t] # Secret[target[t]]
    BY <1>5, <1>11, <2>1 DEF Denied, Accepts
  <2>3. pc'[t] = "returned"
    BY <1>11 DEF Denied, Raise, Done, PInv, TInv, TypeOK
  <2> QED
    BY <2>2, <2>3
<1>12. CASE KeyUnknown(t) \/ Unreachable(t)
  BY <1>12 DEF KeyUnknown, Unreachable, Raise, Done, PInv, TInv, TypeOK
<1> QED
  BY <1>7, <1>8, <1>9, <1>10, <1>11, <1>12 DEF Step, Locked, HandshakeEnds

\* A request that begins contends with those under way for its host.
LEMMA AuthRequestCarries ==
    ASSUME PInv, AInv, SInv, NEW t \in Tasks, NEW h \in Hosts, NEW p \in Passwords,
           AuthRequest(t, h, p)
    PROVE  FindsItsPassword' /\ CarriesItsPassword' /\ SoleRightPasswordAccepted'
<1>1. /\ job[t] = "none" /\ job'[t] = "auth" /\ pc'[t] = "calling" /\ target'[t] = h
      /\ typed'[t] = p /\ password' = [password EXCEPT ![h] = p]
      /\ \A u \in Tasks \ {t} : /\ job'[u] = job[u] /\ pc'[u] = pc[u] /\ target'[u] = target[u]
                               /\ typed'[u] = typed[u]
  BY AuthRequestMoves DEF AInv, HandlersTypeOK, TInv, TypeOK
<1>2. /\ contended'[t] = (Authenticating(h) # {})
      /\ \A u \in Tasks \ {t} : contended'[u] = (contended[u] \/ u \in Authenticating(h))
  BY DEF AuthRequest
<1>3. \A u \in Tasks : offered'[u] = offered[u] /\ result'[u] = IF u = t THEN "none" ELSE result[u]
  BY DEF AuthRequest, Begin, AInv, TInv, TypeOK
<1>4. \A u \in Tasks \ {t} : Sole(u)' => Sole(u) /\ target[u] # h
  BY <1>1, <1>2 DEF Sole, Authenticating
<1>5. FindsItsPassword'
  <2> SUFFICES ASSUME NEW u \in Tasks, NEW k \in Hosts, Sole(u)', target'[u] = k
               PROVE  /\ Authenticating(k)' = {u}
                      /\ typed'[u] \in Passwords /\ password'[k] = typed'[u]
    BY DEF FindsItsPassword
  <2>1. CASE u = t
    <3>1. Authenticating(h) = {}
      BY <1>2, <2>1 DEF Sole
    <3>2. Authenticating(h)' = {t}
      BY <3>1, RequestJoins
    <3>3. k = h /\ password'[h] = p
      BY <1>1, <2>1 DEF AInv, TInv, TypeOK
    <3> QED
      BY <1>1, <2>1, <3>2, <3>3
  <2>2. CASE u # t
    <3>1. Sole(u) /\ target[u] = k /\ k # h
      BY <1>1, <1>4, <2>2
    <3>2. Authenticating(k)' = Authenticating(k)
      BY <3>1, RequestJoins
    <3>3. Authenticating(k) = {u} /\ typed[u] \in Passwords /\ password[k] = typed[u]
      BY <3>1 DEF SInv, FindsItsPassword
    <3>4. typed'[u] = typed[u] /\ password'[k] = password[k]
      BY <1>1, <2>2, <3>1 DEF AInv, TInv, TypeOK
    <3> QED
      BY <3>2, <3>3, <3>4
  <2> QED
    BY <2>1, <2>2
<1>6. CarriesItsPassword'
  BY <1>1, <1>3, <1>4 DEF SInv, CarriesItsPassword
<1>7. SoleRightPasswordAccepted'
  BY <1>1, <1>2, <1>3 DEF SInv, SoleRightPasswordAccepted
<1> QED
  BY <1>5, <1>6, <1>7

\* A reply drops the password of its own host only.
LEMMA ReplyCarries ==
    ASSUME PInv, AInv, SInv, NEW t \in Tasks, AuthReply(t)
    PROVE  FindsItsPassword' /\ CarriesItsPassword' /\ SoleRightPasswordAccepted'
<1>1. PICK h \in Hosts : h = target[t] /\ t \in Authenticating(h)
  BY ReplyLeaves
<1>2. /\ job'[t] = "none" /\ pc'[t] = "idle"
      /\ \A u \in Tasks \ {t} : /\ job'[u] = job[u] /\ pc'[u] = pc[u] /\ target'[u] = target[u]
  BY ReplyMoves DEF AInv, HandlersTypeOK, TInv, TypeOK
<1>3. /\ \A u \in Tasks \ {t} : typed'[u] = typed[u] /\ contended'[u] = contended[u]
      /\ offered' = offered /\ result' = result
      /\ \A k \in Hosts \ {h} : password'[k] = password[k]
  BY <1>1 DEF AuthReply, End, DropPassword, auth, AInv, HandlersTypeOK, TInv, TypeOK
<1>4. \A u \in Tasks : Sole(u)' => u # t /\ Sole(u)
  BY <1>2, <1>3 DEF Sole
<1>5. FindsItsPassword'
  <2> SUFFICES ASSUME NEW u \in Tasks, NEW k \in Hosts, Sole(u)', target'[u] = k
               PROVE  /\ Authenticating(k)' = {u}
                      /\ typed'[u] \in Passwords /\ password'[k] = typed'[u]
    BY DEF FindsItsPassword
  <2>1. u # t /\ Sole(u) /\ target[u] = k
    BY <1>2, <1>4
  <2>2. Authenticating(k) = {u} /\ typed[u] \in Passwords /\ password[k] = typed[u]
    BY <2>1 DEF SInv, FindsItsPassword
  <2>3. k # h
    BY <1>1, <2>1, <2>2
  <2>4. Authenticating(k)' = Authenticating(k)
    BY <1>1, <2>3, ReplyLeaves
  <2> QED
    BY <1>3, <2>1, <2>2, <2>3, <2>4
<1>6. CarriesItsPassword' /\ SoleRightPasswordAccepted'
  BY <1>2, <1>3, <1>4 DEF SInv, CarriesItsPassword, SoleRightPasswordAccepted, Sole
<1> QED
  BY <1>5, <1>6

\* The page's own requests store and drop nothing.
LEMMA PageCarries ==
    ASSUME PInv, AInv, SInv, NEW t \in Tasks, PageReply(t) \/ \E h \in Hosts : PageRequest(t, h)
    PROVE  FindsItsPassword' /\ CarriesItsPassword' /\ SoleRightPasswordAccepted'
<1>1. /\ job[t] # "auth" /\ job'[t] # "auth"
      /\ \A u \in Tasks \ {t} : /\ job'[u] = job[u] /\ pc'[u] = pc[u] /\ target'[u] = target[u]
                               /\ result'[u] = result[u]
      /\ UNCHANGED <<typed, contended, offered, password>>
  BY DEF PageReply, PageRequest, Call, Begin, Finish, End, auth, AInv, HandlersTypeOK,
     TInv, TypeOK
<1>2. \A h : Authenticating(h)' = Authenticating(h)
  BY <1>1, SameAuthenticating DEF AInv
<1> QED
  BY <1>1, <1>2 DEF SInv, FindsItsPassword, CarriesItsPassword, SoleRightPasswordAccepted, Sole

\* With an acyclic configuration, a user who types the right password and whose
\* request no other auth request for the host overlaps is not told that the
\* password is wrong or missing.
THEOREM SoleRightPasswordIsAccepted ==
    AcyclicJumps => (AuthSpec => []SoleRightPasswordAccepted)
<1> SUFFICES ASSUME AcyclicJumps PROVE AuthSpec => []SoleRightPasswordAccepted
  OBVIOUS
<1>1. AuthInit => SInv
  BY DEF AuthInit, Init, SInv, Direct, InCall, Sole, FindsItsPassword,
     CarriesItsPassword, SoleRightPasswordAccepted
<1>2. AInv /\ PInv /\ SInv /\ [AuthNext]_authVars => SInv'
  <2> SUFFICES ASSUME AInv, PInv, SInv, [AuthNext]_authVars PROVE SInv'
    OBVIOUS
  <2>1. \A t \in Tasks : Direct(t)'
    BY AuthNextIsPoolStep, PoolStepDirect DEF AInv, SInv
  <2>2. ASSUME UNCHANGED <<frames, password, job, typed, contended>>
        PROVE  FindsItsPassword' /\ CarriesItsPassword' /\ SoleRightPasswordAccepted'
    BY <2>2, UntouchedAuthenticating DEF frames, SInv, FindsItsPassword, CarriesItsPassword,
       SoleRightPasswordAccepted, Sole
  <2>3. FindsItsPassword' /\ CarriesItsPassword' /\ SoleRightPasswordAccepted'
    BY <2>2, TaskStepCarries, AuthRequestCarries, ReplyCarries, PageCarries
       DEF AuthNext, TrustHostKey, Lost, WindowMoves, authVars, vars, auth, handlers
  <2> QED
    BY <2>1, <2>3 DEF SInv
<1>3. SInv => SoleRightPasswordAccepted
  BY DEF SInv
<1> QED
  BY <1>1, <1>2, <1>3, AInvInvariant, PInvUnderAuth, PTL DEF AuthSpec
=============================================================================
