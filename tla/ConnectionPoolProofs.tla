------------------------ MODULE ConnectionPoolProofs ------------------------
(***************************************************************************)
(* What holds of ConnectionPool for any number of hosts and tasks, any     *)
(* jumps and any capacity.                                                 *)
(*                                                                         *)
(* The inductive invariant says who holds which lock, that one task at a   *)
(* time is between two awaits, and that a frame that has passed the check  *)
(* of _auth_failed_hosts is not overtaken by it.  The second half shows    *)
(* that the pool implements AbstractPool.                                  *)
(***************************************************************************)
EXTENDS ConnectionPool, TLAPS

InCall(t) == pc[t] \in {"calling", "waiting", "locked", "connecting"}

InSection(t) == pc[t] \in {"locked", "connecting"}

FramesHaveHosts == \A t \in Tasks :
    /\ InCall(t) => at[t] \in Hosts
    /\ ~InCall(t) => at[t] = NoHost

LockHeld == \A t \in Tasks : InSection(t) => owner[at[t]] = t

OneRunning == \A t, u \in Tasks :
    pc[t] \in Running /\ pc[u] \in Running => t = u

FailedHaveNoPassword == \A h \in authFailed : password[h] = NoPassword

\* A frame that waits for its jump host, or for its handshake, is for a host
\* that has not refused the keys.
PastCheck == \A t \in Tasks : \A k \in Hosts :
    owner[k] = t /\ (k # at[t] \/ pc[t] = "connecting") => k \notin authFailed

TInv == TypeOK /\ FramesHaveHosts

-----------------------------------------------------------------------------
(* Uses of the pool.  The specifications of the request handlers restrict   *)
(* when calls are made, and store passwords together with them.  Whatever   *)
(* they do is a step of this kind, and so are the steps of Spec.            *)

\* A handler stores or drops a password, as it calls or as it answers.
Stores ==
    \/ UNCHANGED auth
    \/ \E h \in Hosts : DropPassword(h) \/ \E p \in Passwords : StorePassword(h, p)

\* A handler that is not in get_connection calls it, perhaps right after another
\* call has returned, or is through with it.
HandlerMove(t) ==
    /\ ~InCall(t) /\ (pc[t] = "returned" \/ Undisturbed(t))
    /\ \/ \E h \in Hosts :
            /\ pc' = [pc EXCEPT ![t] = "calling"]
            /\ at' = [at EXCEPT ![t] = h]
            /\ target' = [target EXCEPT ![t] = h]
            /\ result' = [result EXCEPT ![t] = "none"]
       \/ /\ pc' = [pc EXCEPT ![t] = "idle"]
          /\ target' = [target EXCEPT ![t] = NoHost]
          /\ UNCHANGED <<at, result>>
    /\ Stores
    /\ UNCHANGED <<offered, keyKnown, locks, pool>>

EnvStep == \E h \in Hosts :
    \/ \E p \in Passwords : SetPassword(h, p)
    \/ ClearPassword(h)
    \/ TrustHostKey(h)
    \/ Lost(h)

PoolStep ==
    \/ \E t \in Tasks : Step(t) \/ HandlerMove(t)
    \/ Quiet /\ EnvStep
    \/ UNCHANGED vars

LEMMA NextIsPoolStep == TInv /\ [Next]_vars => PoolStep
<1> SUFFICES ASSUME TInv, [Next]_vars PROVE PoolStep
  OBVIOUS
<1>1. ASSUME NEW t \in Tasks, NEW h \in Hosts, Call(t, h) PROVE HandlerMove(t)
  BY <1>1 DEF Call, Begin, HandlerMove, Stores, InCall
<1>2. ASSUME NEW t \in Tasks, Finish(t) PROVE HandlerMove(t)
  BY <1>2 DEF Finish, End, HandlerMove, Stores, InCall
<1> QED
  BY <1>1, <1>2 DEF Next, PoolStep, EnvStep

-----------------------------------------------------------------------------
(* Types. *)

LEMMA DoneType ==
    ASSUME TInv, NEW t \in Tasks, NEW r \in Results, Done(t, r)
    PROVE  /\ pc' \in [Tasks -> {"idle", "waiting", "connecting"} \cup Running]
           /\ at' \in [Tasks -> Hosts \cup {NoHost}]
           /\ target' \in [Tasks -> Hosts \cup {NoHost}]
           /\ offered' \in [Tasks -> Passwords \cup {NoPassword}]
           /\ keyKnown' \in [Tasks -> BOOLEAN]
           /\ result' \in [Tasks -> Results]
           /\ FramesHaveHosts'
BY DEF Done, TInv, TypeOK, Running, FramesHaveHosts, InCall

LEMMA HandshakeType ==
    ASSUME TInv, NEW t \in Tasks, NEW h \in Hosts, Handshake(t, h)
    PROVE  /\ pc' \in [Tasks -> {"idle", "waiting", "connecting"} \cup Running]
           /\ at' \in [Tasks -> Hosts \cup {NoHost}]
           /\ target' \in [Tasks -> Hosts \cup {NoHost}]
           /\ offered' \in [Tasks -> Passwords \cup {NoPassword}]
           /\ keyKnown' \in [Tasks -> BOOLEAN]
           /\ result' \in [Tasks -> Results]
           /\ FramesHaveHosts'
BY DEF Handshake, TInv, TypeOK, Running, FramesHaveHosts, InCall

LEMMA ReturnType ==
    ASSUME TInv, NEW t \in Tasks, Return(t)
    PROVE  /\ pc' \in [Tasks -> {"idle", "waiting", "connecting"} \cup Running]
           /\ at' \in [Tasks -> Hosts \cup {NoHost}]
           /\ target' \in [Tasks -> Hosts \cup {NoHost}]
           /\ offered' \in [Tasks -> Passwords \cup {NoPassword}]
           /\ keyKnown' \in [Tasks -> BOOLEAN]
           /\ result' \in [Tasks -> Results]
           /\ FramesHaveHosts'
           /\ owner' \in [Hosts -> Tasks \cup {Free}] /\ queue' = queue
<1>1. Done(t, "connection") \/ \E k \in Hosts : Handshake(t, k)
  BY DEF Return, Callers
<1>2. "connection" \in Results
  BY DEF Results
<1>3. owner' \in [Hosts -> Tasks \cup {Free}] /\ queue' = queue
  BY DEF Return, TInv, TypeOK
<1> QED
  BY <1>1, <1>2, <1>3, DoneType, HandshakeType

LEMMA RaiseType ==
    ASSUME TInv, NEW t \in Tasks, NEW r \in Results, Raise(t, r)
    PROVE  /\ pc' \in [Tasks -> {"idle", "waiting", "connecting"} \cup Running]
           /\ at' \in [Tasks -> Hosts \cup {NoHost}]
           /\ target' \in [Tasks -> Hosts \cup {NoHost}]
           /\ offered' \in [Tasks -> Passwords \cup {NoPassword}]
           /\ keyKnown' \in [Tasks -> BOOLEAN]
           /\ result' \in [Tasks -> Results]
           /\ FramesHaveHosts'
           /\ owner' \in [Hosts -> Tasks \cup {Free}] /\ queue' = queue
<1>1. owner' \in [Hosts -> Tasks \cup {Free}] /\ queue' = queue
  BY DEF Raise, TInv, TypeOK
<1> QED
  BY <1>1, DoneType DEF Raise

LEMMA StampType ==
    ASSUME TypeOK, NEW h \in Hosts, Stamp(h)
    PROVE  stamped' \subseteq Hosts /\ older' \subseteq Hosts \X Hosts
BY DEF TypeOK, Stamp

LEMMA EvictType ==
    ASSUME TypeOK, NEW I, Evict(I)
    PROVE  /\ entries' \subseteq entries /\ open' \subseteq entries'
           /\ open' \subseteq open
           /\ stamped' \subseteq Hosts /\ older' \subseteq Hosts \X Hosts
<1> DEFINE kept == IF Cardinality(entries \ I) < MaxConnections
                     THEN entries \ I ELSE MostRecent(entries \ I)
<1>1. kept \subseteq entries
  BY DEF MostRecent
<1>2. entries' = kept /\ open' = open \cap kept
      /\ stamped' = stamped \cap kept /\ older' = older \cap (kept \X kept)
  BY DEF Evict
<1> HIDE DEF kept
<1> QED
  BY <1>1, <1>2 DEF TypeOK

LEMMA TaskStepType ==
    ASSUME TInv, NEW t \in Tasks, Step(t)
    PROVE  TInv'
<1>1. CASE Acquire(t)
  <2>1. at[t] \in Hosts
    BY <1>1 DEF Acquire, TInv, FramesHaveHosts, InCall
  <2>2. owner' \in [Hosts -> Tasks \cup {Free}] /\ queue' \in [Hosts -> Seq(Tasks)]
    <3>1. CASE owner[at[t]] = Free /\ queue[at[t]] = <<>>
      BY <1>1, <2>1, <3>1 DEF Acquire, TInv, TypeOK
    <3>2. CASE ~(owner[at[t]] = Free /\ queue[at[t]] = <<>>)
      <4>1. Append(queue[at[t]], t) \in Seq(Tasks)
        BY <2>1 DEF TInv, TypeOK
      <4> QED
        BY <1>1, <2>1, <3>2, <4>1 DEF Acquire, TInv, TypeOK
    <3> QED
      BY <3>1, <3>2
  <2>3. pc' = [pc EXCEPT ![t] = "locked"] \/ pc' = [pc EXCEPT ![t] = "waiting"]
    BY <1>1 DEF Acquire
  <2>4. UNCHANGED <<at, target, offered, keyKnown, result, pool, auth>>
    BY <1>1 DEF Acquire
  <2> QED
    BY <2>1, <2>2, <2>3, <2>4
       DEF TInv, TypeOK, FramesHaveHosts, InCall, Running, pool, auth
<1>2. CASE Wake(t)
  <2>1. at[t] \in Hosts
    BY <1>2 DEF Wake, TInv, FramesHaveHosts, InCall
  <2>2. Tail(queue[at[t]]) \in Seq(Tasks)
    BY <1>2, <2>1 DEF Wake, TInv, TypeOK
  <2>3. owner' \in [Hosts -> Tasks \cup {Free}] /\ queue' \in [Hosts -> Seq(Tasks)]
    BY <1>2, <2>1, <2>2 DEF Wake, TInv, TypeOK
  <2>4. UNCHANGED <<at, target, offered, keyKnown, result, pool, auth>>
        /\ pc' = [pc EXCEPT ![t] = "locked"]
    BY <1>2 DEF Wake
  <2> QED
    BY <2>1, <2>3, <2>4
       DEF TInv, TypeOK, FramesHaveHosts, InCall, Running, pool, auth
<1>3. CASE Cached(t)
  <2>1. at[t] \in Hosts
    BY <1>3 DEF Cached, TInv, TypeOK
  <2>2. stamped' \subseteq Hosts /\ older' \subseteq Hosts \X Hosts
    BY <1>3, <2>1, StampType DEF Cached, TInv
  <2> QED
    BY <1>3, <2>2, ReturnType DEF Cached, TInv, TypeOK, auth
<1>4. CASE FastFail(t)
  <2>1. "password_required" \in Results
    BY DEF Results
  <2> QED
    BY <1>4, <2>1, RaiseType DEF FastFail, TInv, TypeOK, pool, auth
<1>5. CASE Start(t)
  <2>1. at[t] \in Hosts
    BY <1>5 DEF Start, TInv, FramesHaveHosts, InCall
  <2>2. /\ entries' \subseteq Hosts /\ open' \subseteq entries'
        /\ stamped' \subseteq Hosts /\ older' \subseteq Hosts \X Hosts
    BY <1>5, EvictType DEF Start, TInv, TypeOK
  <2>3. CASE Jump[at[t]] = NoHost
    BY <1>5, <2>1, <2>2, <2>3, HandshakeType DEF Start, TInv, TypeOK, locks, auth
  <2>4. CASE Jump[at[t]] # NoHost
    <3>1. Jump[at[t]] \in Hosts
      BY <2>1, <2>4, HostData
    <3> QED
      BY <1>5, <2>2, <2>4, <3>1
         DEF Start, TInv, TypeOK, FramesHaveHosts, InCall, Running, locks, auth
  <2> QED
    BY <2>3, <2>4
<1>6. CASE Connected(t)
  <2>1. at[t] \in Hosts
    BY <1>6 DEF Connected, Connecting, TInv, FramesHaveHosts, InCall
  <2>2. stamped' \subseteq Hosts /\ older' \subseteq Hosts \X Hosts
    BY <1>6, <2>1, StampType DEF Connected, TInv
  <2> QED
    BY <1>6, <2>1, <2>2, ReturnType DEF Connected, TInv, TypeOK, auth
<1>7. CASE Denied(t)
  <2>1. at[t] \in Hosts
    BY <1>7 DEF Denied, Connecting, TInv, FramesHaveHosts, InCall
  <2>2. "password_required" \in Results /\ "denied" \in Results
    BY DEF Results
  <2>3. authFailed' \subseteq Hosts
    BY <1>7, <2>1 DEF Denied, TInv, TypeOK
  <2>4. Raise(t, "password_required") \/ Raise(t, "denied")
    BY <1>7 DEF Denied
  <2> QED
    BY <1>7, <2>2, <2>3, <2>4, RaiseType DEF Denied, TInv, TypeOK, pool
<1>8. CASE KeyUnknown(t) \/ Unreachable(t)
  <2>1. "host_key_unknown" \in Results /\ "error" \in Results
    BY DEF Results
  <2> QED
    BY <1>8, <2>1, RaiseType DEF KeyUnknown, Unreachable, TInv, TypeOK, pool, auth
<1> QED
  BY <1>1, <1>2, <1>3, <1>4, <1>5, <1>6, <1>7, <1>8 DEF Step, Locked, HandshakeEnds

\* A step of get_connection neither begins nor ends a request.
LEMMA TaskStepInCall ==
    ASSUME TInv, NEW t \in Tasks, Step(t)
    PROVE  target' = target /\ \A u \in Tasks : pc'[u] = "idle" <=> pc[u] = "idle"
<1>1. pc[t] # "idle" /\ target' = target
  BY DEF Step, Acquire, Wake, Locked, Cached, FastFail, Start, HandshakeEnds,
     Connected, Denied, KeyUnknown, Unreachable, Connecting, Return, Raise, Done, Handshake
<1>2. /\ pc'[t] # "idle"
      /\ \A u \in Tasks \ {t} : pc'[u] = pc[u]
  BY DEF Step, Acquire, Wake, Locked, Cached, FastFail, Start, HandshakeEnds,
     Connected, Denied, KeyUnknown, Unreachable, Return, Raise, Done, Handshake, TInv, TypeOK
<1> QED
  BY <1>1, <1>2

\* Nor does it change the frames of another task, or take its locks.
LEMMA TaskStepOthers ==
    ASSUME TInv, NEW t \in Tasks, Step(t)
    PROVE  /\ \A u \in Tasks \ {t} : /\ pc'[u] = pc[u] /\ at'[u] = at[u]
                                    /\ offered'[u] = offered[u] /\ result'[u] = result[u]
           /\ \A k \in Hosts : owner'[k] \in {owner[k], t, Free}
           /\ password' = password
BY DEF Step, Acquire, Wake, Locked, Cached, FastFail, Start, HandshakeEnds,
   Connected, Denied, KeyUnknown, Unreachable, Return, Raise, Done, Handshake,
   locks, auth, TInv, TypeOK

LEMMA StoresType ==
    ASSUME TypeOK, Stores
    PROVE  /\ password' \in [Hosts -> Passwords \cup {NoPassword}]
           /\ authFailed' \subseteq Hosts /\ trusted' \subseteq Hosts
BY DEF Stores, StorePassword, DropPassword, TypeOK, auth

LEMMA HandlerMoveType ==
    ASSUME TInv, NEW t \in Tasks, HandlerMove(t)
    PROVE  TInv'
<1>1. /\ password' \in [Hosts -> Passwords \cup {NoPassword}]
      /\ authFailed' \subseteq Hosts /\ trusted' \subseteq Hosts
  BY StoresType DEF TInv, HandlerMove
<1>2. /\ pc' \in [Tasks -> {"idle", "waiting", "connecting"} \cup Running]
      /\ at' \in [Tasks -> Hosts \cup {NoHost}]
      /\ target' \in [Tasks -> Hosts \cup {NoHost}]
      /\ result' \in [Tasks -> Results]
  <2>1. CASE \E h \in Hosts : /\ pc' = [pc EXCEPT ![t] = "calling"]
                             /\ at' = [at EXCEPT ![t] = h]
                             /\ target' = [target EXCEPT ![t] = h]
                             /\ result' = [result EXCEPT ![t] = "none"]
    BY <2>1 DEF TInv, TypeOK, Running, Results
  <2>2. CASE /\ pc' = [pc EXCEPT ![t] = "idle"]
             /\ target' = [target EXCEPT ![t] = NoHost]
             /\ UNCHANGED <<at, result>>
    BY <2>2 DEF TInv, TypeOK, Running
  <2> QED
    BY <2>1, <2>2 DEF HandlerMove
<1>3. FramesHaveHosts'
  <2>1. CASE \E h \in Hosts : pc' = [pc EXCEPT ![t] = "calling"] /\ at' = [at EXCEPT ![t] = h]
    BY <2>1 DEF TInv, TypeOK, FramesHaveHosts, InCall
  <2>2. CASE pc' = [pc EXCEPT ![t] = "idle"] /\ at' = at
    BY <2>2 DEF HandlerMove, TInv, TypeOK, FramesHaveHosts, InCall
  <2> QED
    BY <2>1, <2>2 DEF HandlerMove
<1> QED
  BY <1>1, <1>2, <1>3 DEF HandlerMove, TInv, TypeOK, locks, pool

LEMMA EnvStepType ==
    ASSUME TInv, EnvStep
    PROVE  TInv'
BY DEF EnvStep, SetPassword, StorePassword, ClearPassword, DropPassword,
   TrustHostKey, Lost, TInv, TypeOK, FramesHaveHosts, InCall,
   frames, locks, pool, auth

LEMMA PoolStepType == TInv /\ PoolStep => TInv'
<1>1. TInv /\ UNCHANGED vars => TInv'
  BY DEF vars, frames, locks, pool, auth, TInv, TypeOK, FramesHaveHosts, InCall
<1> QED
  BY <1>1, TaskStepType, HandlerMoveType, EnvStepType DEF PoolStep

LEMMA InitType == Init => TInv
BY DEF Init, TInv, TypeOK, FramesHaveHosts, InCall, Results, Running

LEMMA TInvInvariant == Spec => []TInv
BY InitType, NextIsPoolStep, PoolStepType, PTL DEF Spec

\* The variables keep their types: every frame has a host, every open
\* connection an entry of the pool.
THEOREM PoolTypeCorrect == Spec => []TypeOK
<1>1. TInv => TypeOK
  BY DEF TInv
<1> QED
  BY <1>1, TInvInvariant, PTL

-----------------------------------------------------------------------------
(* Locks, and the hosts whose keys were refused. *)

LInv == LockHeld /\ PastCheck /\ FailedHaveNoPassword /\ OneRunning

LEMMA FreeIsNoTask == \A t \in Tasks : t # Free
BY HostData

\* Giving one lock back, to the handler or to the frame that waits for it.
LEMMA ReturnKeepsLocks ==
    ASSUME TInv, LockHeld, PastCheck, NEW t \in Tasks, InSection(t), Return(t),
           authFailed' = authFailed
    PROVE  LockHeld' /\ PastCheck'
<1>1. at[t] \in Hosts /\ owner[at[t]] = t
  BY DEF TInv, FramesHaveHosts, InCall, InSection, LockHeld
<1>2. owner' = [owner EXCEPT ![at[t]] = Free]
  BY DEF Return
<1>3. ASSUME NEW u \in Tasks, u # t
      PROVE  pc'[u] = pc[u] /\ at'[u] = at[u]
  BY <1>3 DEF Return, Handshake, Done, TInv, TypeOK
<1>4. \/ pc'[t] = "returned" /\ at'[t] = NoHost
      \/ \E k \in Callers(t) : pc'[t] = "connecting" /\ at'[t] = k
  BY DEF Return, Handshake, Done, TInv, TypeOK
<1>5. LockHeld'
  <2> SUFFICES ASSUME NEW u \in Tasks, InSection(u)' PROVE owner'[at'[u]] = u
    BY DEF LockHeld
  <2>1. CASE u = t
    <3>1. PICK k \in Callers(t) : at'[t] = k
      BY <1>4, <2>1 DEF InSection
    <3> QED
      BY <1>2, <2>1, <3>1 DEF Callers, TInv, TypeOK
  <2>2. CASE u # t
    <3>1. owner[at[u]] = u /\ at'[u] = at[u] /\ at[u] \in Hosts
      BY <1>3, <2>2 DEF LockHeld, InSection, TInv, FramesHaveHosts, InCall
    <3> QED
      BY <1>1, <1>2, <2>2, <3>1 DEF TInv, TypeOK
  <2> QED
    BY <2>1, <2>2
<1>6. PastCheck'
  <2> SUFFICES ASSUME NEW u \in Tasks, NEW k \in Hosts, owner'[k] = u,
                      k # at'[u] \/ pc'[u] = "connecting"
               PROVE  k \notin authFailed
    BY DEF PastCheck
  <2>1. k # at[t] /\ owner[k] = u
    BY <1>1, <1>2, FreeIsNoTask DEF TInv, TypeOK
  <2>2. CASE u = t
    BY <2>1, <2>2 DEF PastCheck
  <2>3. CASE u # t
    BY <1>3, <2>1, <2>3 DEF PastCheck
  <2> QED
    BY <2>2, <2>3
<1> QED
  BY <1>5, <1>6

\* An exception gives all of them back; a denial concerns a host whose lock
\* the task holds, so no other frame has passed the check for it.
LEMMA RaiseKeepsLocks ==
    ASSUME TInv, LockHeld, PastCheck, NEW t \in Tasks, NEW r, InSection(t), Raise(t, r),
           authFailed' \subseteq authFailed \cup {at[t]}
    PROVE  LockHeld' /\ PastCheck'
<1>1. at[t] \in Hosts /\ owner[at[t]] = t
  BY DEF TInv, FramesHaveHosts, InCall, InSection, LockHeld
<1>2. owner' = [h \in Hosts |-> IF owner[h] = t THEN Free ELSE owner[h]]
  BY DEF Raise
<1>3. ASSUME NEW u \in Tasks, u # t
      PROVE  pc'[u] = pc[u] /\ at'[u] = at[u]
  BY <1>3 DEF Raise, Done, TInv, TypeOK
<1>4. pc'[t] = "returned"
  BY DEF Raise, Done, TInv, TypeOK
<1>5. LockHeld'
  <2> SUFFICES ASSUME NEW u \in Tasks, InSection(u)' PROVE owner'[at'[u]] = u
    BY DEF LockHeld
  <2>1. u # t
    BY <1>4 DEF InSection
  <2>2. owner[at[u]] = u /\ at'[u] = at[u] /\ at[u] \in Hosts
    BY <1>3, <2>1 DEF LockHeld, InSection, TInv, FramesHaveHosts, InCall
  <2> QED
    BY <1>2, <2>1, <2>2
<1>6. PastCheck'
  <2> SUFFICES ASSUME NEW u \in Tasks, NEW k \in Hosts, owner'[k] = u,
                      k # at'[u] \/ pc'[u] = "connecting"
               PROVE  k \notin authFailed'
    BY DEF PastCheck
  <2>1. u # t /\ owner[k] = u
    BY <1>2, FreeIsNoTask
  <2>2. k # at[t]
    BY <1>1, <2>1
  <2>3. k \notin authFailed
    BY <1>3, <2>1 DEF PastCheck
  <2> QED
    BY <2>2, <2>3
<1> QED
  BY <1>5, <1>6

LEMMA AcquireKeepsLocks ==
    ASSUME TInv, LockHeld, PastCheck, NEW t \in Tasks, Acquire(t) \/ Wake(t)
    PROVE  LockHeld' /\ PastCheck'
<1>1. at[t] \in Hosts /\ at' = at /\ authFailed' = authFailed
  BY DEF Acquire, Wake, TInv, FramesHaveHosts, InCall, auth
<1>2. \/ owner' = owner /\ pc' = [pc EXCEPT ![t] = "waiting"]
      \/ /\ owner[at[t]] = Free /\ owner' = [owner EXCEPT ![at[t]] = t]
         /\ pc' = [pc EXCEPT ![t] = "locked"]
  BY DEF Acquire, Wake
<1>3. LockHeld'
  <2> SUFFICES ASSUME NEW u \in Tasks, InSection(u)' PROVE owner'[at[u]] = u
    BY <1>1 DEF LockHeld
  <2>1. CASE u = t
    BY <1>1, <1>2, <2>1 DEF InSection, TInv, TypeOK
  <2>2. CASE u # t
    <3>1. InSection(u)
      BY <1>2, <2>2 DEF InSection, TInv, TypeOK
    <3>2. owner[at[u]] = u /\ at[u] \in Hosts
      BY <3>1 DEF LockHeld, InSection, TInv, FramesHaveHosts, InCall
    <3>3. CASE owner' = owner
      BY <3>2, <3>3
    <3>4. CASE owner[at[t]] = Free /\ owner' = [owner EXCEPT ![at[t]] = t]
      BY <3>2, <3>4, FreeIsNoTask DEF TInv, TypeOK
    <3> QED
      BY <1>2, <3>3, <3>4
  <2> QED
    BY <2>1, <2>2
<1>4. PastCheck'
  BY <1>1, <1>2 DEF PastCheck, TInv, TypeOK
<1> QED
  BY <1>3, <1>4

\* Past the check, the host is not on the list: an entry of the list has no
\* password.
LEMMA StartKeepsLocks ==
    ASSUME TInv, LockHeld, PastCheck, FailedHaveNoPassword, NEW t \in Tasks, Start(t)
    PROVE  LockHeld' /\ PastCheck'
<1>1. at[t] \in Hosts /\ owner[at[t]] = t /\ at[t] \notin authFailed
  BY DEF Start, KnownToNeedPassword, FailedHaveNoPassword,
     TInv, FramesHaveHosts, InCall, InSection, LockHeld
<1>2. owner' = owner /\ authFailed' = authFailed
  BY DEF Start, locks, auth
<1>3. ASSUME NEW u \in Tasks, u # t
      PROVE  pc'[u] = pc[u] /\ at'[u] = at[u]
  BY <1>3 DEF Start, Handshake, TInv, TypeOK
<1>4. \/ pc'[t] = "calling"
      \/ pc'[t] = "connecting" /\ at'[t] = at[t]
  BY DEF Start, Handshake, TInv, TypeOK
<1>5. LockHeld'
  BY <1>1, <1>2, <1>3, <1>4 DEF LockHeld, InSection
<1>6. PastCheck'
  BY <1>1, <1>2, <1>3, <1>4 DEF PastCheck
<1> QED
  BY <1>5, <1>6

LEMMA TaskStepLocks ==
    ASSUME TInv, LInv, NEW t \in Tasks, Step(t)
    PROVE  LockHeld' /\ PastCheck'
<1>1. CASE Cached(t) \/ Connected(t)
  BY <1>1, ReturnKeepsLocks DEF LInv, Cached, Connected, Connecting, InSection, auth
<1>2. CASE FastFail(t) \/ KeyUnknown(t) \/ Unreachable(t)
  BY <1>2, RaiseKeepsLocks
     DEF LInv, FastFail, KeyUnknown, Unreachable, Connecting, InSection, auth
<1>3. CASE Denied(t)
  BY <1>3, RaiseKeepsLocks DEF LInv, Denied, Connecting, InSection
<1> QED
  BY <1>1, <1>2, <1>3, AcquireKeepsLocks, StartKeepsLocks
     DEF Step, Locked, HandshakeEnds, LInv

LEMMA TaskStepPasswords ==
    ASSUME TInv, LInv, NEW t \in Tasks, Step(t)
    PROVE  FailedHaveNoPassword'
<1>1. CASE Denied(t)
  BY <1>1 DEF Denied, FailedHaveNoPassword, LInv
<1>2. CASE ~Denied(t)
  BY <1>2 DEF Step, Acquire, Wake, Locked, Cached, FastFail, Start, HandshakeEnds,
     Connected, KeyUnknown, Unreachable, FailedHaveNoPassword, LInv, auth
<1> QED
  BY <1>1, <1>2

\* Only the task that runs may go on, and a task starts to run only when none does.
LEMMA TaskStepRuns ==
    ASSUME TInv, LInv, NEW t \in Tasks, Step(t) \/ HandlerMove(t)
    PROVE  OneRunning'
<1>1. pc[t] \in Running \/ Undisturbed(t)
  BY DEF Step, Acquire, Wake, Locked, Cached, FastFail, Start, HandshakeEnds,
     Connected, Denied, KeyUnknown, Unreachable, Connecting, HandlerMove,
     Running
<1>2. \A u \in Tasks \ {t} : pc[u] \notin Running
  BY <1>1 DEF LInv, OneRunning, Undisturbed
<1>3. \E v : pc' = [pc EXCEPT ![t] = v]
  BY DEF Step, Acquire, Wake, Locked, Cached, FastFail, Start, HandshakeEnds,
     Connected, Denied, KeyUnknown, Unreachable, HandlerMove,
     Return, Raise, Done, Handshake
<1> QED
  BY <1>2, <1>3 DEF OneRunning, TInv, TypeOK

LEMMA HandlerMoveLocks ==
    ASSUME TInv, LInv, NEW t \in Tasks, HandlerMove(t)
    PROVE  LInv'
<1>1. owner' = owner /\ authFailed' \subseteq authFailed
  BY DEF HandlerMove, Stores, StorePassword, DropPassword, locks, auth
<1>2. at[t] \notin Hosts
  BY HostData DEF HandlerMove, TInv, FramesHaveHosts
<1>3. /\ \A u \in Tasks \ {t} : pc'[u] = pc[u] /\ at'[u] = at[u]
      /\ ~InSection(t)'
  BY DEF HandlerMove, TInv, TypeOK, InSection
<1>4. LockHeld'
  BY <1>1, <1>3 DEF LInv, LockHeld, InSection
<1>5. PastCheck'
  BY <1>1, <1>2, <1>3 DEF LInv, PastCheck, InSection
<1>6. FailedHaveNoPassword'
  BY DEF HandlerMove, Stores, StorePassword, DropPassword, auth, LInv, FailedHaveNoPassword,
     TInv, TypeOK
<1> QED
  BY <1>4, <1>5, <1>6, TaskStepRuns DEF LInv

LEMMA EnvStepLocks ==
    ASSUME TInv, LInv, EnvStep
    PROVE  LInv'
<1>1. UNCHANGED <<frames, locks>> /\ authFailed' \subseteq authFailed
  BY DEF EnvStep, SetPassword, StorePassword, ClearPassword, DropPassword,
     TrustHostKey, Lost, auth
<1>2. FailedHaveNoPassword'
  BY DEF EnvStep, SetPassword, StorePassword, ClearPassword, DropPassword,
     TrustHostKey, Lost, auth, LInv, FailedHaveNoPassword, TInv, TypeOK
<1> QED
  BY <1>1, <1>2 DEF LInv, LockHeld, InSection, PastCheck, OneRunning, frames, locks

LEMMA PoolStepLocks == TInv /\ LInv /\ PoolStep => LInv'
<1>1. LInv /\ UNCHANGED vars => LInv'
  BY DEF vars, frames, locks, auth, LInv, LockHeld, InSection, PastCheck,
     FailedHaveNoPassword, OneRunning
<1> QED
  BY <1>1, TaskStepLocks, TaskStepPasswords, TaskStepRuns, HandlerMoveLocks, EnvStepLocks
     DEF PoolStep, LInv

LEMMA InitLocks == Init => LInv
BY HostData DEF Init, LInv, LockHeld, InSection, PastCheck, FailedHaveNoPassword,
   OneRunning, Running

LEMMA LInvInvariant == Spec => [](TInv /\ LInv)
BY InitLocks, NextIsPoolStep, PoolStepLocks, TInvInvariant, PTL DEF Spec

LEMMA LocksExclude == TInv /\ LInv => OneHandshakePerHost /\ RefusedKeysNotRetried
BY DEF LInv, LockHeld, InSection, PastCheck, OneHandshakePerHost, RefusedKeysNotRetried,
   TInv, FramesHaveHosts, InCall

\* However many requests ask for a host at once, one of them connects: the
\* host's lock is held from the look at the pool to the end of the handshake.
THEOREM OneHandshakeAtATime == Spec => []OneHandshakePerHost
BY LocksExclude, LInvInvariant, PTL

\* A host that has refused the keys is not asked again without a password,
\* through any jumps, whatever is stored or cleared in the meantime.
THEOREM RefusedKeysAreNotRetried == Spec => []RefusedKeysNotRetried
BY LocksExclude, LInvInvariant, PTL

-----------------------------------------------------------------------------
(* Eviction. *)

LEMMA StampKeepsMatch ==
    ASSUME TInv, StampsMatchConnections, NEW h \in Hosts, Stamp(h),
           entries' = entries \cup {h}
    PROVE  StampsMatchConnections'
BY DEF Stamp, StampsMatchConnections

LEMMA EvictKeepsMatch ==
    ASSUME TInv, StampsMatchConnections, NEW I, Evict(I)
    PROVE  StampsMatchConnections'
<1> DEFINE kept == IF Cardinality(entries \ I) < MaxConnections
                     THEN entries \ I ELSE MostRecent(entries \ I)
<1>1. kept \subseteq entries
  BY DEF MostRecent
<1>2. entries' = kept /\ stamped' = stamped \cap kept /\ older' = older \cap (kept \X kept)
  BY DEF Evict
<1> HIDE DEF kept
<1> QED
  BY <1>1, <1>2 DEF StampsMatchConnections

LEMMA PoolStepStamps ==
    TInv /\ StampsMatchConnections /\ PoolStep => StampsMatchConnections'
<1> SUFFICES ASSUME TInv, StampsMatchConnections, PoolStep
             PROVE  StampsMatchConnections'
  OBVIOUS
<1>1. ASSUME NEW t \in Tasks, Cached(t) \/ Connected(t) PROVE StampsMatchConnections'
  <2>1. at[t] \in Hosts /\ Stamp(at[t]) /\ entries' = entries \cup {at[t]}
    BY <1>1 DEF Cached, Connected, Connecting, TInv, TypeOK, FramesHaveHosts, InCall
  <2> QED
    BY <2>1, StampKeepsMatch
<1>2. ASSUME NEW t \in Tasks, Start(t) PROVE StampsMatchConnections'
  BY <1>2, EvictKeepsMatch DEF Start
<1>3. CASE UNCHANGED <<entries, stamped, older>>
  BY <1>3 DEF StampsMatchConnections
<1>4. \/ \E t \in Tasks : Cached(t) \/ Connected(t) \/ Start(t)
      \/ UNCHANGED <<entries, stamped, older>>
  BY DEF PoolStep, EnvStep, Step, Acquire, Wake, Locked, FastFail, HandshakeEnds, Denied,
     KeyUnknown, Unreachable, HandlerMove, SetPassword, ClearPassword,
     TrustHostKey, Lost, vars, pool
<1> QED
  BY <1>1, <1>2, <1>3, <1>4

LEMMA InitStamps == Init => StampsMatchConnections
BY DEF Init, StampsMatchConnections

\* _connections and _last_access have the same keys, and the stamps a strict
\* order, on every path through get_connection and eviction.
THEOREM StampsAlwaysMatch == Spec => []StampsMatchConnections
BY InitStamps, NextIsPoolStep, PoolStepStamps, TInvInvariant, PTL DEF Spec

-----------------------------------------------------------------------------
(* Frames: what a call hands back belongs to the host it was made for.  The *)
(* frames of a task are the hosts whose locks it holds, and the innermost   *)
(* one's host.  No jumps lead in a circle: such a call waits for its own    *)
(* lock, and returns nothing at all.                                        *)

IsDepth(d) == \A h \in Hosts : Jump[h] # NoHost => d[h] = d[Jump[h]] + 1

AcyclicJumps == \E d \in [Hosts -> Nat] : IsDepth(d)

\* The number of jumps behind each host.
Depth == CHOOSE d \in [Hosts -> Nat] : IsDepth(d)

LEMMA DepthType ==
    ASSUME AcyclicJumps
    PROVE  /\ Depth \in [Hosts -> Nat]
           /\ \A h \in Hosts : Jump[h] # NoHost => Depth[h] = Depth[Jump[h]] + 1
BY DEF AcyclicJumps, Depth, IsDepth

\* h is what the request asked for, or some frame of the task wants it as its tunnel.
IsWanted(t, h) == h = target[t] \/ \E k \in Hosts : owner[k] = t /\ Jump[k] = h

WellNested(t) ==
    /\ \A k \in Hosts : owner[k] = t /\ k # at[t] => InCall(t) /\ Depth[at[t]] < Depth[k]
    /\ \A k, l \in Hosts : owner[k] = t /\ owner[l] = t /\ Depth[k] = Depth[l] => k = l
    /\ \A k \in Hosts : owner[k] = t => IsWanted(t, k) /\ Depth[k] <= Depth[target[t]]
    /\ InCall(t) => /\ target[t] \in Hosts /\ IsWanted(t, at[t])
                    /\ Depth[at[t]] <= Depth[target[t]]

RInv == (\A t \in Tasks : WellNested(t)) /\ ReturnsOpenConnection

LEMMA OthersKeepFrames ==
    ASSUME NEW u \in Tasks, WellNested(u),
           pc'[u] = pc[u], at'[u] = at[u], target'[u] = target[u],
           \A k \in Hosts : owner'[k] = u <=> owner[k] = u
    PROVE  WellNested(u)'
BY DEF WellNested, IsWanted, InCall

\* The connection of the innermost frame goes to the one that wants it, if
\* there is one; else that frame was the request's own.
LEMMA ReturnKeepsFrames ==
    ASSUME AcyclicJumps, TInv, LockHeld, NEW t \in Tasks, InSection(t), Return(t),
           \A u \in Tasks : WellNested(u)
    PROVE  /\ \A u \in Tasks : WellNested(u)'
           /\ target' = target
           /\ pc'[t] = "returned" => at[t] = target[t]
<1>1. /\ at[t] \in Hosts /\ owner[at[t]] = t /\ InCall(t)
      /\ WellNested(t) /\ target' = target
  BY DEF TInv, FramesHaveHosts, InCall, InSection, LockHeld, Return, Done, Handshake
<1>2. owner' = [owner EXCEPT ![at[t]] = Free]
  BY DEF Return
<1>3. \A k \in Hosts : owner'[k] = t <=> owner[k] = t /\ k # at[t]
  BY <1>1, <1>2, FreeIsNoTask DEF TInv, TypeOK
<1>4. ASSUME NEW u \in Tasks, u # t PROVE WellNested(u)'
  <2>1. pc'[u] = pc[u] /\ at'[u] = at[u] /\ target'[u] = target[u]
    BY <1>4 DEF Return, Handshake, Done, TInv, TypeOK
  <2>2. \A k \in Hosts : owner'[k] = u <=> owner[k] = u
    BY <1>1, <1>2, <1>4, FreeIsNoTask DEF TInv, TypeOK
  <2> QED
    BY <2>1, <2>2, OthersKeepFrames
<1>5. CASE Callers(t) = {}
  <2>1. at[t] = target[t]
    <3>1. \A k \in Hosts : Jump[k] = at[t] => k # at[t]
      BY <1>1, DepthType, HostData
    <3> QED
      BY <1>1, <1>5, <3>1 DEF Callers, WellNested, IsWanted
  <2>2. \A k \in Hosts : owner'[k] # t
    BY <1>1, <1>3, <2>1, DepthType DEF WellNested
  <2>3. pc'[t] = "returned"
    BY <1>5 DEF Return, Done, TInv, TypeOK
  <2> QED
    BY <1>1, <1>4, <2>1, <2>2, <2>3 DEF WellNested, InCall
<1>6. CASE Callers(t) # {}
  <2>1. PICK k \in Callers(t) : Handshake(t, k)
    BY <1>6 DEF Return
  <2>2. k \in Hosts /\ k # at[t] /\ owner[k] = t /\ Jump[k] = at[t]
    BY <2>1 DEF Callers
  <2>3. pc'[t] = "connecting" /\ at'[t] = k
    BY <2>1 DEF Handshake, TInv, TypeOK
  <2>4. Depth[k] = Depth[at[t]] + 1
    BY <1>1, <2>2, DepthType, HostData
  <2>5. ASSUME NEW l \in Hosts, owner'[l] = t
        PROVE  /\ l # k => Depth[k] < Depth[l]
               /\ IsWanted(t, l)' /\ Depth[l] <= Depth[target[t]]
    <3>1. owner[l] = t /\ Depth[at[t]] < Depth[l] /\ Depth[l] <= Depth[target[t]]
      BY <1>1, <1>3, <2>5 DEF WellNested
    <3>2. l # k => Depth[l] # Depth[k]
      BY <1>1, <2>2, <3>1 DEF WellNested
    <3>3. Jump[at[t]] # l
      BY <1>1, <3>1, DepthType, HostData
    <3>4. IsWanted(t, l)'
      BY <1>1, <1>3, <3>1, <3>3 DEF WellNested, IsWanted
    <3> QED
      BY <1>1, <2>2, <2>4, <3>1, <3>2, <3>4, DepthType
  <2>6. owner'[k] = t
    BY <1>3, <2>2
  <2>7. \A l, m \in Hosts : owner'[l] = t /\ owner'[m] = t /\ Depth[l] = Depth[m] => l = m
    BY <1>1, <1>3 DEF WellNested
  <2>8. target'[t] = target[t] /\ target[t] \in Hosts
    BY <1>1 DEF WellNested
  <2>9. WellNested(t)'
    BY <2>2, <2>3, <2>5, <2>6, <2>7, <2>8 DEF WellNested, InCall
  <2> QED
    BY <1>1, <1>4, <2>3, <2>9
<1> QED
  BY <1>5, <1>6

\* An exception ends every frame.
LEMMA RaiseKeepsFrames ==
    ASSUME TInv, NEW t \in Tasks, NEW r, Raise(t, r), \A u \in Tasks : WellNested(u)
    PROVE  (\A u \in Tasks : WellNested(u)') /\ target' = target
<1>1. \A k \in Hosts : owner'[k] # t
  BY FreeIsNoTask DEF Raise, TInv, TypeOK
<1>2. pc'[t] = "returned" /\ target' = target
  BY DEF Raise, Done, TInv, TypeOK
<1>3. WellNested(t)'
  BY <1>1, <1>2 DEF WellNested, InCall
<1>4. ASSUME NEW u \in Tasks, u # t PROVE WellNested(u)'
  <2>1. pc'[u] = pc[u] /\ at'[u] = at[u] /\ target'[u] = target[u]
    BY <1>4 DEF Raise, Done, TInv, TypeOK
  <2>2. \A k \in Hosts : owner'[k] = u <=> owner[k] = u
    BY <1>4, FreeIsNoTask DEF Raise, TInv, TypeOK
  <2> QED
    BY <2>1, <2>2, OthersKeepFrames
<1> QED
  BY <1>2, <1>3, <1>4

LEMMA AcquireKeepsFrames ==
    ASSUME AcyclicJumps, TInv, NEW t \in Tasks, Acquire(t) \/ Wake(t),
           \A u \in Tasks : WellNested(u)
    PROVE  \A u \in Tasks : WellNested(u)'
<1>1. at[t] \in Hosts /\ at' = at /\ target' = target /\ InCall(t) /\ WellNested(t)
  BY DEF Acquire, Wake, TInv, FramesHaveHosts, InCall
<1>2. \/ owner' = owner /\ pc' = [pc EXCEPT ![t] = "waiting"]
      \/ /\ owner[at[t]] = Free /\ owner' = [owner EXCEPT ![at[t]] = t]
         /\ pc' = [pc EXCEPT ![t] = "locked"]
  BY DEF Acquire, Wake
<1>3. ASSUME NEW u \in Tasks, u # t PROVE WellNested(u)'
  <2>1. pc'[u] = pc[u] /\ at'[u] = at[u] /\ target'[u] = target[u]
    BY <1>1, <1>2, <1>3 DEF TInv, TypeOK
  <2>2. \A k \in Hosts : owner'[k] = u <=> owner[k] = u
    BY <1>1, <1>2, <1>3, FreeIsNoTask DEF TInv, TypeOK
  <2> QED
    BY <2>1, <2>2, OthersKeepFrames
<1>4. WellNested(t)'
  <2>1. CASE owner' = owner /\ pc' = [pc EXCEPT ![t] = "waiting"]
    BY <1>1, <2>1 DEF WellNested, IsWanted, InCall, TInv, TypeOK
  <2>2. CASE /\ owner[at[t]] = Free /\ owner' = [owner EXCEPT ![at[t]] = t]
             /\ pc' = [pc EXCEPT ![t] = "locked"]
    <3>1. \A k \in Hosts : owner'[k] = t <=> owner[k] = t \/ k = at[t]
      BY <1>1, <2>2 DEF TInv, TypeOK
    <3>2. owner[at[t]] # t
      BY <2>2, FreeIsNoTask
    <3>3. \A k \in Hosts : owner[k] = t =>
              Depth[at[t]] < Depth[k] /\ Depth[k] <= Depth[target[t]] /\ IsWanted(t, k)
      BY <1>1, <3>2 DEF WellNested
    <3>4. \A k, l \in Hosts : owner'[k] = t /\ owner'[l] = t /\ Depth[k] = Depth[l] => k = l
      BY <1>1, <3>1, <3>3, DepthType DEF WellNested
    <3>5. \A h : IsWanted(t, h) => IsWanted(t, h)'
      BY <1>1, <3>1 DEF IsWanted
    <3>6. target[t] \in Hosts /\ IsWanted(t, at[t]) /\ Depth[at[t]] <= Depth[target[t]]
      BY <1>1 DEF WellNested
    <3>7. InCall(t)'
      BY <2>2 DEF InCall, TInv, TypeOK
    <3> QED
      BY <1>1, <3>1, <3>3, <3>4, <3>5, <3>6, <3>7 DEF WellNested
  <2> QED
    BY <1>2, <2>1, <2>2
<1> QED
  BY <1>3, <1>4

\* A jump host has one jump less behind it than every frame that is open.
LEMMA StartKeepsFrames ==
    ASSUME AcyclicJumps, TInv, LockHeld, NEW t \in Tasks, Start(t),
           \A u \in Tasks : WellNested(u)
    PROVE  \A u \in Tasks : WellNested(u)'
<1>1. /\ at[t] \in Hosts /\ owner[at[t]] = t /\ InCall(t) /\ WellNested(t)
      /\ owner' = owner /\ target' = target
  BY DEF Start, Handshake, locks, TInv, FramesHaveHosts, InCall, InSection, LockHeld
<1>2. ASSUME NEW u \in Tasks, u # t PROVE WellNested(u)'
  <2>1. pc'[u] = pc[u] /\ at'[u] = at[u]
    BY <1>2 DEF Start, Handshake, TInv, TypeOK
  <2> QED
    BY <1>1, <2>1, OthersKeepFrames
<1>3. CASE Jump[at[t]] = NoHost
  <2>1. pc'[t] = "connecting" /\ at'[t] = at[t]
    BY <1>3 DEF Start, Handshake, TInv, TypeOK
  <2>2. WellNested(t)'
    BY <1>1, <2>1 DEF WellNested, IsWanted, InCall
  <2> QED
    BY <1>2, <2>2
<1>4. CASE Jump[at[t]] # NoHost
  <2>1. PICK j \in Hosts : j = Jump[at[t]]
    BY <1>1, <1>4, HostData
  <2>2. pc'[t] = "calling" /\ at'[t] = j
    BY <1>4, <2>1 DEF Start, TInv, TypeOK
  <2>3. Depth[at[t]] = Depth[j] + 1
    BY <1>1, <1>4, <2>1, DepthType
  <2>4. \A k \in Hosts : owner[k] = t => Depth[j] < Depth[k]
    <3>1. \A k \in Hosts : owner[k] = t => Depth[at[t]] <= Depth[k]
      BY <1>1, DepthType DEF WellNested
    <3> QED
      BY <1>1, <2>3, <3>1, DepthType
  <2>5. target[t] \in Hosts /\ Depth[j] <= Depth[target[t]]
    <3>1. target[t] \in Hosts /\ Depth[at[t]] <= Depth[target[t]]
      BY <1>1 DEF WellNested
    <3> QED
      BY <1>1, <2>3, <3>1, DepthType
  <2>6. IsWanted(t, j)' /\ \A k \in Hosts : IsWanted(t, k) => IsWanted(t, k)'
    BY <1>1, <2>1 DEF IsWanted
  <2>7. WellNested(t)'
    BY <1>1, <2>2, <2>4, <2>5, <2>6 DEF WellNested, InCall
  <2> QED
    BY <1>2, <2>7
<1> QED
  BY <1>3, <1>4

LEMMA TaskStepFrames ==
    ASSUME AcyclicJumps, TInv, LInv, RInv, NEW t \in Tasks, Step(t)
    PROVE  RInv'
<1>1. ASSUME NEW u \in Tasks, u # t PROVE pc'[u] = pc[u] /\ result'[u] = result[u]
  BY <1>1 DEF Step, Acquire, Wake, Locked, Cached, FastFail, Start, HandshakeEnds,
     Connected, Denied, KeyUnknown, Unreachable, Return, Raise, Done, Handshake, TInv, TypeOK
<1>2. pc[t] \in Running \/ Undisturbed(t)
  BY DEF Step, Acquire, Wake, Locked, Cached, FastFail, Start, HandshakeEnds,
     Connected, Denied, KeyUnknown, Unreachable, Connecting, Running
<1>3. ASSUME NEW u \in Tasks, u # t PROVE pc'[u] # "returned"
  BY <1>1, <1>2, <1>3 DEF LInv, OneRunning, Undisturbed, Running
<1>4. CASE Cached(t) \/ Connected(t)
  <2>1. InSection(t) /\ Return(t) /\ at[t] \in open'
    BY <1>4 DEF Cached, Connected, Connecting, InSection
  <2>2. (\A u \in Tasks : WellNested(u)') /\ target' = target
        /\ (pc'[t] = "returned" => at[t] = target[t])
    BY <2>1, ReturnKeepsFrames DEF LInv, RInv
  <2> QED
    BY <1>3, <2>1, <2>2 DEF RInv, ReturnsOpenConnection
<1>5. CASE FastFail(t) \/ KeyUnknown(t) \/ Unreachable(t) \/ Denied(t)
  <2>1. \E r \in Results \ {"connection", "none"} : Raise(t, r)
    BY <1>5 DEF FastFail, KeyUnknown, Unreachable, Denied, Results
  <2>2. \A u \in Tasks : WellNested(u)'
    BY <2>1, RaiseKeepsFrames DEF RInv
  <2>3. result'[t] # "connection"
    BY <2>1 DEF Raise, Done, TInv, TypeOK
  <2> QED
    BY <1>3, <2>2, <2>3 DEF RInv, ReturnsOpenConnection
<1>6. CASE Acquire(t) \/ Wake(t) \/ Start(t)
  <2>1. \A u \in Tasks : WellNested(u)'
    BY <1>6, AcquireKeepsFrames, StartKeepsFrames DEF RInv, LInv
  <2>2. pc'[t] # "returned"
    BY <1>6 DEF Acquire, Wake, Start, Handshake, TInv, TypeOK
  <2> QED
    BY <1>3, <2>1, <2>2 DEF RInv, ReturnsOpenConnection
<1> QED
  BY <1>4, <1>5, <1>6 DEF Step, Locked, HandshakeEnds

LEMMA HandlerMoveFrames ==
    ASSUME AcyclicJumps, TInv, LInv, RInv, NEW t \in Tasks, HandlerMove(t)
    PROVE  RInv'
<1>1. /\ owner' = owner /\ open' = open /\ at[t] \notin Hosts
      /\ \A u \in Tasks \ {t} : /\ pc'[u] = pc[u] /\ at'[u] = at[u]
                               /\ target'[u] = target[u] /\ result'[u] = result[u]
  BY HostData DEF HandlerMove, locks, pool, TInv, TypeOK, FramesHaveHosts
<1>2. \A k \in Hosts : owner[k] # t
  BY <1>1 DEF RInv, WellNested, HandlerMove
<1>3. \/ \E h \in Hosts : pc'[t] = "calling" /\ at'[t] = h /\ target'[t] = h
      \/ pc'[t] = "idle"
  BY DEF HandlerMove, TInv, TypeOK
<1>4. WellNested(t)'
  <2>1. CASE pc'[t] = "idle"
    BY <1>1, <1>2, <2>1 DEF WellNested, InCall
  <2>2. ASSUME NEW h \in Hosts, at'[t] = h, target'[t] = h PROVE WellNested(t)'
    BY <1>1, <1>2, <2>2, DepthType DEF WellNested, IsWanted
  <2> QED
    BY <1>3, <2>1, <2>2
<1>5. \A u \in Tasks \ {t} : WellNested(u)'
  BY <1>1, OthersKeepFrames DEF RInv
<1> QED
  BY <1>1, <1>3, <1>4, <1>5 DEF RInv, ReturnsOpenConnection

\* A connection is only lost while no task runs, so not between the return of
\* get_connection and its caller's next step.
LEMMA EnvStepFrames ==
    ASSUME TInv, RInv, EnvStep, Quiet
    PROVE  RInv'
<1>1. UNCHANGED <<frames, locks>>
  BY DEF EnvStep, SetPassword, ClearPassword, TrustHostKey, Lost
<1>2. \A u \in Tasks : WellNested(u)'
  BY <1>1, OthersKeepFrames DEF frames, locks, RInv
<1>3. \A u \in Tasks : pc'[u] # "returned"
  BY <1>1 DEF Quiet, Running, frames
<1> QED
  BY <1>2, <1>3 DEF RInv, ReturnsOpenConnection

LEMMA PoolStepFrames == AcyclicJumps => (TInv /\ LInv /\ RInv /\ PoolStep => RInv')
<1>1. RInv /\ UNCHANGED vars => RInv'
  BY OthersKeepFrames DEF vars, frames, locks, pool, RInv, ReturnsOpenConnection
<1> QED
  BY <1>1, TaskStepFrames, HandlerMoveFrames, EnvStepFrames DEF PoolStep

LEMMA InitFrames == Init => RInv
BY FreeIsNoTask DEF Init, RInv, WellNested, InCall, ReturnsOpenConnection

LEMMA RInvInvariant == AcyclicJumps => (Spec => [](TInv /\ LInv /\ RInv))
<1> SUFFICES ASSUME AcyclicJumps PROVE Spec => [](TInv /\ LInv /\ RInv)
  OBVIOUS
<1>1. TInv /\ LInv /\ RInv /\ PoolStep => RInv'
  BY PoolStepFrames
<1> QED
  BY <1>1, InitFrames, NextIsPoolStep, LInvInvariant, PTL DEF Spec

\* Unless jumps lead in a circle, get_connection returns an open connection to
\* the host it was asked for, through any number of jumps, whatever was lost,
\* evicted or opened while it waited.
THEOREM ReturnsAreOpen == AcyclicJumps => (Spec => []ReturnsOpenConnection)
<1>1. RInv => ReturnsOpenConnection
  BY DEF RInv
<1> QED
  BY <1>1, RInvInvariant, PTL

-----------------------------------------------------------------------------
(***************************************************************************)
(* ConnectionPool implements AbstractPool.                                 *)
(*                                                                         *)
(* Each step of the code is a step of the abstract pool or none.  What     *)
(* makes it so is who holds which lock: a host that a task is about to     *)
(* dial, now or when its jump host is up, is neither open nor dialled by   *)
(* another, and the last frame to return is the one of the host asked for. *)
(***************************************************************************)

\* A frame that waits for its jump host, or for its handshake, is for a host
\* without an open connection, until it gives its lock back.
HeldNotOpen == \A t \in Tasks : \A k \in Hosts :
    owner[k] = t /\ (k # at[t] \/ pc[t] = "connecting") => k \notin open

IdleAskNothing == \A t \in Tasks : pc[t] = "idle" => target[t] = NoHost

HInv == HeldNotOpen /\ IdleAskNothing

PInv == TInv /\ LInv /\ RInv /\ HInv

Dials == [t \in Tasks |-> Dialed(t)]

Answers == [t \in Tasks |-> Answer(t)]

-----------------------------------------------------------------------------
(* The frames that wait are for hosts that are not open. *)

LEMMA ReturnKeepsClosed ==
    ASSUME TInv, LInv, HeldNotOpen, NEW t \in Tasks, InSection(t), Return(t),
           open' \subseteq open \cup {at[t]}
    PROVE  HeldNotOpen'
<1>1. at[t] \in Hosts /\ owner' = [owner EXCEPT ![at[t]] = Free]
  BY DEF TInv, FramesHaveHosts, InCall, InSection, Return
<1> SUFFICES ASSUME NEW u \in Tasks, NEW k \in Hosts, owner'[k] = u,
                    k # at'[u] \/ pc'[u] = "connecting"
             PROVE  k \notin open'
  BY DEF HeldNotOpen
<1>2. k # at[t] /\ owner[k] = u
  BY <1>1, FreeIsNoTask DEF TInv, TypeOK
<1>3. u # t => pc'[u] = pc[u] /\ at'[u] = at[u]
  BY DEF Return, Handshake, Done, TInv, TypeOK
<1>4. k \notin open
  BY <1>2, <1>3 DEF HeldNotOpen
<1> QED
  BY <1>2, <1>4

LEMMA TaskStepClosed ==
    ASSUME TInv, LInv, HeldNotOpen, NEW t \in Tasks, Step(t)
    PROVE  HeldNotOpen'
<1>1. CASE Cached(t) \/ Connected(t)
  BY <1>1, ReturnKeepsClosed DEF Cached, Connected, Connecting, InSection
<1>2. CASE FastFail(t) \/ Denied(t) \/ KeyUnknown(t) \/ Unreachable(t)
  <2>1. open' = open /\ \E r \in Results : Raise(t, r)
    BY <1>2 DEF FastFail, Denied, KeyUnknown, Unreachable, pool, Results
  <2>2. \A u \in Tasks, k \in Hosts : owner'[k] = u => u # t /\ owner[k] = u
    BY <2>1, FreeIsNoTask DEF Raise, TInv, TypeOK
  <2>3. \A u \in Tasks \ {t} : pc'[u] = pc[u] /\ at'[u] = at[u]
    BY <2>1 DEF Raise, Done, TInv, TypeOK
  <2> QED
    BY <2>1, <2>2, <2>3 DEF HeldNotOpen
<1>3. CASE Acquire(t) \/ Wake(t)
  <2>1. at' = at /\ open' = open /\ pc'[t] # "connecting"
        /\ \A u \in Tasks \ {t} : pc'[u] = pc[u]
    BY <1>3 DEF Acquire, Wake, pool, TInv, TypeOK
  <2>2. \A k \in Hosts : owner'[k] = owner[k] \/ (k = at[t] /\ owner'[k] = t)
    BY <1>3 DEF Acquire, Wake, TInv, TypeOK
  <2> QED
    BY <2>1, <2>2 DEF HeldNotOpen
<1>4. CASE Start(t)
  <2>1. owner' = owner /\ open' \subseteq open /\ at[t] \notin open
    BY <1>4, EvictType DEF Start, locks, TInv
  <2>2. \A u \in Tasks \ {t} : pc'[u] = pc[u] /\ at'[u] = at[u]
    BY <1>4 DEF Start, Handshake, TInv, TypeOK
  <2>3. \A k \in Hosts : owner[k] = t => k \notin open
    BY <2>1 DEF HeldNotOpen
  <2> QED
    BY <2>1, <2>2, <2>3 DEF HeldNotOpen
<1> QED
  BY <1>1, <1>2, <1>3, <1>4 DEF Step, Locked, HandshakeEnds

LEMMA TaskStepIdle ==
    ASSUME TInv, IdleAskNothing, NEW t \in Tasks, Step(t)
    PROVE  IdleAskNothing'
BY TaskStepInCall DEF IdleAskNothing

LEMMA HandlerMoveClosed ==
    ASSUME TInv, HInv, NEW t \in Tasks, HandlerMove(t)
    PROVE  HInv'
<1>1. owner' = owner /\ open' = open /\ at[t] \notin Hosts
  BY HostData DEF HandlerMove, locks, pool, TInv, FramesHaveHosts
<1>2. \A u \in Tasks \ {t} : pc'[u] = pc[u] /\ at'[u] = at[u] /\ target'[u] = target[u]
  BY DEF HandlerMove, TInv, TypeOK
<1>3. pc'[t] # "connecting" /\ (pc'[t] = "idle" => target'[t] = NoHost)
  BY DEF HandlerMove, TInv, TypeOK
<1>4. \A k \in Hosts : owner[k] = t => k \notin open
  BY <1>1 DEF HInv, HeldNotOpen
<1> QED
  BY <1>1, <1>2, <1>3, <1>4 DEF HInv, HeldNotOpen, IdleAskNothing

LEMMA EnvStepClosed ==
    ASSUME TInv, HInv, EnvStep
    PROVE  HInv'
<1>1. UNCHANGED <<frames, locks>> /\ open' \subseteq open
  BY DEF EnvStep, SetPassword, ClearPassword, TrustHostKey, Lost, pool
<1> QED
  BY <1>1 DEF HInv, HeldNotOpen, IdleAskNothing, frames, locks

LEMMA PoolStepClosed == TInv /\ LInv /\ HInv /\ PoolStep => HInv'
<1>1. HInv /\ UNCHANGED vars => HInv'
  BY DEF HInv, HeldNotOpen, IdleAskNothing, vars, frames, locks, pool
<1> QED
  BY <1>1, TaskStepClosed, TaskStepIdle, HandlerMoveClosed, EnvStepClosed DEF PoolStep, HInv

LEMMA PoolStepKeepsPInv == AcyclicJumps => (PInv /\ PoolStep => PInv')
BY PoolStepType, PoolStepLocks, PoolStepFrames, PoolStepClosed DEF PInv

LEMMA InitPInv == Init => PInv
<1>1. Init => HInv
  BY DEF Init, HInv, HeldNotOpen, IdleAskNothing
<1> QED
  BY <1>1, InitType, InitLocks, InitFrames DEF PInv

LEMMA PInvInvariant == AcyclicJumps => (Spec => []PInv)
<1> SUFFICES ASSUME AcyclicJumps PROVE Spec => []PInv
  OBVIOUS
<1>1. PInv /\ [Next]_vars => PInv'
  BY NextIsPoolStep, PoolStepKeepsPInv DEF PInv
<1> QED
  BY <1>1, InitPInv, PTL DEF Spec

-----------------------------------------------------------------------------
(* Every step is a step of the abstract pool, or changes nothing of it. *)

\* A step of one task leaves what the others dial and were answered.
LEMMA OneMoves ==
    ASSUME NEW t \in Tasks,
           \A u \in Tasks \ {t} : pc'[u] = pc[u] /\ at'[u] = at[u] /\ result'[u] = result[u]
    PROVE  /\ Dials' = [Dials EXCEPT ![t] = Dialed(t)']
           /\ Answers' = [Answers EXCEPT ![t] = Answer(t)']
<1>1. \A u \in Tasks \ {t} : Dialed(u)' = Dialed(u) /\ Answer(u)' = Answer(u)
  BY DEF Dialed, Answer
<1> HIDE DEF Dialed, Answer
<1> QED
  BY <1>1 DEF Dials, Answers

LEMMA DialsAnswers ==
    ASSUME NEW t \in Tasks
    PROVE  /\ Dials[t] = IF pc[t] = "connecting" THEN at[t] ELSE NoHost
           /\ pc[t] # "returned" => Answers[t] = "none"
           /\ pc[t] = "returned" /\ result[t] = "connection" => Answers[t] = "connection"
           /\ pc[t] = "returned" /\ result[t] # "connection" => Answers[t] = "error"
BY DEF Dials, Answers, Dialed, Answer

\* A host that is dialled has its lock held, and by the task that dials.
LEMMA DialledIsHeld ==
    ASSUME PInv, NEW t \in Tasks, NEW k \in Hosts, Dials[t] = k
    PROVE  pc[t] = "connecting" /\ at[t] = k /\ owner[k] = t /\ k \notin open
<1>1. pc[t] = "connecting" /\ at[t] = k
  BY HostData, DialsAnswers
<1> QED
  BY <1>1 DEF PInv, LInv, LockHeld, InSection, HInv, HeldNotOpen

\* A frame of t that is not its innermost one is for a host nobody has reached.
LEMMA HeldIsUnreached ==
    ASSUME PInv, NEW t \in Tasks, NEW k \in Callers(t)
    PROVE  k \in Hosts /\ Abstract!Unreached(k)
<1>1. k \in Hosts /\ k # at[t] /\ owner[k] = t
  BY DEF Callers
<1>2. k \notin open
  BY <1>1 DEF PInv, HInv, HeldNotOpen
<1>3. \A u \in Tasks : Dials[u] # k
  BY <1>1, DialledIsHeld
<1> QED
  BY <1>1, <1>2, <1>3 DEF Abstract!Unreached, Dials

\* So is the host of a frame that found no connection for it.
LEMMA LockedIsUnreached ==
    ASSUME PInv, NEW t \in Tasks, pc[t] = "locked", at[t] \notin open
    PROVE  Abstract!Unreached(at[t])
<1>1. at[t] \in Hosts /\ owner[at[t]] = t
  BY DEF PInv, TInv, FramesHaveHosts, InCall, LInv, LockHeld, InSection
<1>2. \A u \in Tasks : Dials[u] # at[t]
  BY <1>1, DialledIsHeld
<1> QED
  BY <1>2 DEF Abstract!Unreached, Dials

LEMMA InCallOutstanding ==
    ASSUME PInv, NEW t \in Tasks, pc[t] \in {"calling", "waiting", "locked"}
    PROVE  Abstract!Outstanding(t)
<1>1. target[t] \in Hosts
  BY DEF PInv, RInv, WellNested, InCall
<1>2. Dials[t] = NoHost /\ Answers[t] = "none"
  BY DialsAnswers
<1> QED
  BY <1>1, <1>2, HostData DEF Abstract!Outstanding, Dials, Answers

\* What a return, an exception and a handshake do to the two functions.
LEMMA ReturnMoves ==
    ASSUME PInv, NEW t \in Tasks, Return(t)
    PROVE  /\ target' = target
           /\ \/ /\ Callers(t) = {} /\ pc'[t] = "returned"
                 /\ Dials' = [Dials EXCEPT ![t] = NoHost]
                 /\ Answers' = [Answers EXCEPT ![t] = "connection"]
              \/ \E k \in Callers(t) :
                 /\ Dials' = [Dials EXCEPT ![t] = k]
                 /\ Answers' = [Answers EXCEPT ![t] = "none"]
<1>1. \A u \in Tasks \ {t} : pc'[u] = pc[u] /\ at'[u] = at[u] /\ result'[u] = result[u]
  BY DEF Return, Handshake, Done, PInv, TInv, TypeOK
<1>2. \/ Callers(t) = {} /\ pc'[t] = "returned" /\ result'[t] = "connection"
      \/ \E k \in Callers(t) : pc'[t] = "connecting" /\ at'[t] = k
  BY DEF Return, Handshake, Done, PInv, TInv, TypeOK
<1>3. target' = target
  BY DEF Return, Handshake, Done
<1>4. /\ Dials' = [Dials EXCEPT ![t] = Dialed(t)']
      /\ Answers' = [Answers EXCEPT ![t] = Answer(t)']
  BY <1>1, OneMoves
<1> QED
  BY <1>2, <1>3, <1>4 DEF Dialed, Answer

LEMMA RaiseMoves ==
    ASSUME PInv, NEW t \in Tasks, NEW r \in Results \ {"connection"}, Raise(t, r)
    PROVE  /\ target' = target
           /\ Dials' = [Dials EXCEPT ![t] = NoHost]
           /\ Answers' = [Answers EXCEPT ![t] = "error"]
<1>1. \A u \in Tasks \ {t} : pc'[u] = pc[u] /\ at'[u] = at[u] /\ result'[u] = result[u]
  BY DEF Raise, Done, PInv, TInv, TypeOK
<1>2. pc'[t] = "returned" /\ result'[t] = r /\ target' = target
  BY DEF Raise, Done, PInv, TInv, TypeOK
<1>3. /\ Dials' = [Dials EXCEPT ![t] = Dialed(t)']
      /\ Answers' = [Answers EXCEPT ![t] = Answer(t)']
  BY <1>1, OneMoves
<1> QED
  BY <1>2, <1>3 DEF Dialed, Answer

LEMMA CachedImplements ==
    ASSUME AcyclicJumps, PInv, NEW t \in Tasks, Cached(t)
    PROVE  Abstract!Next
<1>1. Return(t) /\ open' = open /\ InSection(t) /\ at[t] \in open
  BY DEF Cached, InSection
<1>2. Abstract!Outstanding(t)
  BY InCallOutstanding DEF Cached
<1>3. pc'[t] = "returned" => at[t] = target[t]
  BY <1>1, ReturnKeepsFrames DEF PInv, LInv, RInv
<1>4. CASE /\ pc'[t] = "returned"
           /\ Dials' = [Dials EXCEPT ![t] = NoHost]
           /\ Answers' = [Answers EXCEPT ![t] = "connection"]
  <2>1. Dials' = Dials
    BY <1>4, DialsAnswers DEF Dials, Cached
  <2>2. Abstract!Serve(t)
    BY <1>1, <1>2, <1>3, <1>4, <2>1, ReturnMoves DEF Abstract!Serve, Dials, Answers
  <2> QED
    BY <2>2 DEF Abstract!Next
<1>5. ASSUME NEW k \in Callers(t),
             Dials' = [Dials EXCEPT ![t] = k], Answers' = [Answers EXCEPT ![t] = "none"]
      PROVE  Abstract!Next
  <2>1. Answers' = Answers
    BY <1>5, DialsAnswers DEF Answers, Cached
  <2>2. k \in Hosts /\ Abstract!Dial(t, k)
    BY <1>1, <1>2, <1>5, <2>1, HeldIsUnreached, ReturnMoves
       DEF Abstract!Dial, Dials, Answers
  <2> QED
    BY <2>2 DEF Abstract!Next
<1> QED
  BY <1>1, <1>4, <1>5, ReturnMoves

LEMMA ConnectedImplements ==
    ASSUME AcyclicJumps, PInv, NEW t \in Tasks, Connected(t)
    PROVE  Abstract!Next
<1>1. /\ pc[t] = "connecting" /\ Return(t) /\ InSection(t)
      /\ open' = open \cup {at[t]} /\ at[t] \in Hosts
  BY DEF Connected, Connecting, InSection, PInv, TInv, FramesHaveHosts, InCall
<1>2. Dials[t] = at[t] /\ at[t] # NoHost
  BY <1>1, DialsAnswers, HostData
<1>3. pc'[t] = "returned" => at[t] = target[t]
  BY <1>1, ReturnKeepsFrames DEF PInv, LInv, RInv
<1>4. CASE /\ pc'[t] = "returned"
           /\ Dials' = [Dials EXCEPT ![t] = NoHost]
           /\ Answers' = [Answers EXCEPT ![t] = "connection"]
  <2>1. Abstract!Established(t)
    BY <1>1, <1>2, <1>3, <1>4, ReturnMoves DEF Abstract!Established, Dials, Answers
  <2> QED
    BY <2>1 DEF Abstract!Next
<1>5. ASSUME NEW k \in Callers(t),
             Dials' = [Dials EXCEPT ![t] = k], Answers' = [Answers EXCEPT ![t] = "none"]
      PROVE  Abstract!Next
  <2>1. Answers' = Answers
    BY <1>1, <1>5, DialsAnswers DEF Answers
  <2>2. Abstract!Established(t)
    BY <1>1, <1>2, <1>5, <2>1, HeldIsUnreached, ReturnMoves
       DEF Abstract!Established, Dials, Answers
  <2> QED
    BY <2>2 DEF Abstract!Next
<1> QED
  BY <1>1, <1>4, <1>5, ReturnMoves

\* Before its handshake a call is refused, after it it has failed.
LEMMA ErrorImplements ==
    ASSUME PInv, NEW t \in Tasks,
           FastFail(t) \/ Denied(t) \/ KeyUnknown(t) \/ Unreachable(t)
    PROVE  Abstract!Next
<1>1. open' = open /\ \E r \in Results \ {"connection"} : Raise(t, r)
  BY DEF FastFail, Denied, KeyUnknown, Unreachable, pool, Results
<1>2. /\ target' = target
      /\ Dials' = [Dials EXCEPT ![t] = NoHost]
      /\ Answers' = [Answers EXCEPT ![t] = "error"]
  BY <1>1, RaiseMoves
<1>3. CASE FastFail(t)
  <2>1. Dials' = Dials
    BY <1>2, <1>3, DialsAnswers DEF Dials, FastFail
  <2>2. Abstract!Outstanding(t)
    BY <1>3, InCallOutstanding DEF FastFail
  <2>3. Abstract!Refuse(t)
    BY <1>1, <1>2, <2>1, <2>2 DEF Abstract!Refuse, Dials, Answers
  <2> QED
    BY <2>3 DEF Abstract!Next
<1>4. CASE ~FastFail(t)
  <2>1. pc[t] = "connecting" /\ at[t] \in Hosts
    BY <1>4 DEF Denied, KeyUnknown, Unreachable, Connecting, PInv, TInv, FramesHaveHosts,
       InCall
  <2>2. Dials[t] # NoHost
    BY <2>1, DialsAnswers, HostData
  <2>3. Abstract!Failed(t)
    BY <1>1, <1>2, <2>2 DEF Abstract!Failed, Dials, Answers
  <2> QED
    BY <2>3 DEF Abstract!Next
<1> QED
  BY <1>3, <1>4

LEMMA StartImplements ==
    ASSUME PInv, NEW t \in Tasks, Start(t)
    PROVE  Abstract!Next
<1>1. open' \subseteq open /\ target' = target /\ pc[t] = "locked" /\ at[t] \notin open
  BY EvictType DEF Start, Handshake, PInv, TInv
<1>2. \A u \in Tasks \ {t} : pc'[u] = pc[u] /\ at'[u] = at[u] /\ result'[u] = result[u]
  BY DEF Start, Handshake, PInv, TInv, TypeOK
<1>3. /\ Dials' = [Dials EXCEPT ![t] = Dialed(t)']
      /\ Answers' = [Answers EXCEPT ![t] = Answer(t)']
  BY <1>2, OneMoves
<1>4. pc'[t] # "returned"
  BY DEF Start, Handshake, PInv, TInv, TypeOK
<1>5. Answers' = Answers
  BY <1>1, <1>3, <1>4, DialsAnswers DEF Answers, Answer
<1>6. CASE Jump[at[t]] = NoHost
  <2>1. Dialed(t)' = at[t]
    BY <1>6 DEF Start, Handshake, Dialed, PInv, TInv, TypeOK
  <2>2. at[t] \in Hosts
    BY <1>1 DEF PInv, TInv, FramesHaveHosts, InCall
  <2>3. Abstract!Dial(t, at[t])
    BY <1>1, <1>3, <1>5, <2>1, LockedIsUnreached, InCallOutstanding
       DEF Abstract!Dial, Dials, Answers
  <2> QED
    BY <2>2, <2>3 DEF Abstract!Next
<1>7. CASE Jump[at[t]] # NoHost
  <2>1. Dialed(t)' = NoHost
    BY <1>7 DEF Start, Dialed, PInv, TInv, TypeOK
  <2>2. Dials' = Dials
    BY <1>1, <1>3, <2>1, DialsAnswers DEF Dials
  <2>3. Abstract!Drop
    BY <1>1, <1>5, <2>2 DEF Abstract!Drop, Dials, Answers
  <2> QED
    BY <2>3 DEF Abstract!Next
<1> QED
  BY <1>6, <1>7

LEMMA AcquireStutters ==
    ASSUME PInv, NEW t \in Tasks, Acquire(t) \/ Wake(t)
    PROVE  UNCHANGED Abstract!avars
<1>1. open' = open /\ target' = target /\ result' = result
  BY DEF Acquire, Wake, pool
<1>2. \A u \in Tasks : (pc[u] # "connecting" /\ pc'[u] # "connecting"
                        /\ pc[u] # "returned" /\ pc'[u] # "returned")
                       \/ (pc'[u] = pc[u] /\ at'[u] = at[u])
  BY DEF Acquire, Wake, PInv, TInv, TypeOK
<1>3. \A u \in Tasks : Dialed(u)' = Dialed(u) /\ Answer(u)' = Answer(u)
  BY <1>1, <1>2 DEF Dialed, Answer
<1> HIDE DEF Dialed, Answer
<1>4. Dials' = Dials /\ Answers' = Answers
  BY <1>3 DEF Dials, Answers
<1> QED
  BY <1>1, <1>4 DEF Abstract!avars, Dials, Answers

\* A handler that calls again at once leaves and asks in one step; one that was
\* not in get_connection has nothing to leave.
LEMMA HandlerImplements ==
    ASSUME PInv, NEW t \in Tasks, HandlerMove(t)
    PROVE  Abstract!Next \/ UNCHANGED Abstract!avars
<1>1. /\ open' = open
      /\ \A u \in Tasks \ {t} : pc'[u] = pc[u] /\ at'[u] = at[u] /\ result'[u] = result[u]
      /\ pc[t] \in {"idle", "returned"} /\ pc'[t] \in {"idle", "calling"}
  BY DEF HandlerMove, pool, PInv, TInv, TypeOK, InCall, Running
<1>2. /\ Dials' = [Dials EXCEPT ![t] = Dialed(t)']
      /\ Answers' = [Answers EXCEPT ![t] = Answer(t)']
  BY <1>1, OneMoves
<1>3. Answers' = [Answers EXCEPT ![t] = "none"]
  BY <1>1, <1>2 DEF Answer
<1>4. Dials' = Dials
  BY <1>1, <1>2, DialsAnswers DEF Dials, Dialed
<1>5. pc[t] = "idle" => target[t] = NoHost /\ Answers[t] = "none"
  BY DialsAnswers DEF PInv, HInv, IdleAskNothing
<1>6. pc[t] = "returned" => Answers[t] # "none"
  BY DialsAnswers
<1>7. ASSUME NEW h \in Hosts, target' = [target EXCEPT ![t] = h] PROVE Abstract!Next
  <2>1. Abstract!Ask(t, h)
    BY <1>1, <1>3, <1>4, <1>5, <1>6, <1>7 DEF Abstract!Ask, Dials, Answers
  <2> QED
    BY <2>1 DEF Abstract!Next
<1>8. CASE target' = [target EXCEPT ![t] = NoHost]
  <2>1. CASE pc[t] = "returned"
    <3>1. Abstract!Leave(t)
      BY <1>1, <1>3, <1>4, <1>6, <1>8, <2>1 DEF Abstract!Leave, Dials, Answers
    <3> QED
      BY <3>1 DEF Abstract!Next
  <2>2. CASE pc[t] = "idle"
    <3>1. target' = target /\ Answers' = Answers
      BY <1>3, <1>5, <1>8, <2>2 DEF PInv, TInv, TypeOK, Answers
    <3> QED
      BY <1>1, <1>4, <3>1 DEF Abstract!avars, Dials, Answers
  <2> QED
    BY <1>1, <2>1, <2>2
<1> QED
  BY <1>7, <1>8 DEF HandlerMove

LEMMA EnvImplements ==
    ASSUME PInv, EnvStep
    PROVE  Abstract!Drop
<1>1. UNCHANGED <<pc, at, target, result>> /\ open' \subseteq open
  BY DEF EnvStep, SetPassword, ClearPassword, TrustHostKey, Lost, frames, pool
<1>2. Dials' = Dials /\ Answers' = Answers
  BY <1>1 DEF Dials, Answers, Dialed, Answer
<1> QED
  BY <1>1, <1>2 DEF Abstract!Drop, Dials, Answers

LEMMA PoolStepImplements ==
    AcyclicJumps => (PInv /\ PoolStep => [Abstract!Next]_(Abstract!avars))
<1>1. UNCHANGED vars => UNCHANGED Abstract!avars
  BY DEF vars, frames, pool, Abstract!avars, Dialed, Answer
<1>2. ASSUME AcyclicJumps, PInv, NEW t \in Tasks, Step(t)
      PROVE  [Abstract!Next]_(Abstract!avars)
  BY <1>2, CachedImplements, ConnectedImplements, ErrorImplements, StartImplements,
     AcquireStutters DEF Step, Locked, HandshakeEnds
<1>3. ASSUME PInv, EnvStep PROVE Abstract!Next
  BY <1>3, EnvImplements DEF Abstract!Next
<1> QED
  BY <1>1, <1>2, <1>3, HandlerImplements DEF PoolStep

LEMMA InitImplements == Init => Abstract!Init
BY DEF Init, Abstract!Init, Dialed, Answer

\* Whatever the numbers of hosts and callers, the jumps (unless they lead in a
\* circle) and the capacity, get_connection with its locks, nested calls,
\* stamps and eviction does what the abstract pool may do: one connection per
\* host, out of one handshake at a time, and an open connection to the host
\* asked for or an error for every caller.
THEOREM PoolImplementsAbstract == AcyclicJumps => (Spec => ImplementsAbstractPool)
<1> SUFFICES ASSUME AcyclicJumps PROVE Spec => ImplementsAbstractPool
  OBVIOUS
<1>1. PInv /\ [Next]_vars => [Abstract!Next]_(Abstract!avars)
  BY NextIsPoolStep, PoolStepImplements DEF PInv
<1> QED
  BY <1>1, InitImplements, PInvInvariant, PTL
     DEF Spec, ImplementsAbstractPool, Abstract!Spec
=============================================================================
