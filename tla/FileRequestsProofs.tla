-------------------------- MODULE FileRequestsProofs --------------------------
(***************************************************************************)
(* What holds of the page's requests for any number of hosts, requests and *)
(* tasks, any number of permits and any capacity of the pool.              *)
(*                                                                         *)
(* Every step of a request is a use of the pool (PoolStep), so the pool's  *)
(* invariants hold under FileSpec too.  The invariant of the permits says  *)
(* who has one: the tasks with an open channel, and those that were passed *)
(* one while they queued.                                                  *)
(***************************************************************************)
EXTENDS FileRequests, ConnectionPoolProofs, FiniteSetTheorems, SequenceTheorems,
        WellFoundedInduction

Endpoints == {"tree", "file", "stat", "download", "home"}

Stages == {"none", "resolve", "look", "read", "stream"}

Replies == {0, 200, 401, 413, 419, 500, 503}

\* A task serves a request as long as it is in get_connection or has to do with
\* a channel, never both.
Busy(t) ==
    /\ page[t] = "none" <=> on[t] = NoHost
    /\ channel[t] # "none" => page[t] # "none" /\ pc[t] = "idle"
    /\ page[t] # "none" <=> pc[t] # "idle" \/ channel[t] # "none"

PageTypes ==
    /\ page \in [Tasks -> {w[2] : w \in Wanted} \cup {"none"}]
    /\ on \in [Tasks -> Hosts \cup {NoHost}]
    /\ stage \in [Tasks -> Stages]
    /\ channel \in [Tasks -> {"none", "queued", "open"}]
    /\ reply \in [Tasks -> Replies]

Reqs == PageTypes /\ \A t \in Tasks : Busy(t)

-----------------------------------------------------------------------------
(* What the end of an operation may do to its request. *)

GoesOn(t) ==
    \/ /\ \E s \in {"look", "read", "stream"} : Operation(t, s)
       /\ UNCHANGED reply \/ reply' = [reply EXCEPT ![t] = 200]
    \/ \E status \in Replies : Answered(t, status)

LEMMA FailsGoesOn == ASSUME NEW t, NEW r, Fails(t, r) PROVE GoesOn(t)
<1>1. Status(page[t], r) \in Replies /\ 419 \in Replies
  BY DEF Status, Replies
<1> QED
  BY <1>1 DEF Fails, GoesOn

LEMMA SucceedsGoesOn == ASSUME NEW t, Succeeds(t) PROVE GoesOn(t)
<1>1. 200 \in Replies /\ 413 \in Replies
  BY DEF Replies
<1> QED
  BY <1>1 DEF Succeeds, GoesOn

LEMMA GoesOnIsHandlerMove ==
    ASSUME TInv, Reqs, NEW t \in Tasks, GoesOn(t), page[t] # "none",
           pc[t] = "returned" \/ (pc[t] = "idle" /\ Undisturbed(t)),
           UNCHANGED <<locks, pool, auth>>
    PROVE  HandlerMove(t)
<1>1. on[t] \in Hosts
  BY DEF Reqs, PageTypes, Busy
<1>2. ~InCall(t)
  BY DEF InCall
<1>3. \/ \E h \in Hosts :
            /\ pc' = [pc EXCEPT ![t] = "calling"]
            /\ at' = [at EXCEPT ![t] = h]
            /\ target' = [target EXCEPT ![t] = h]
            /\ result' = [result EXCEPT ![t] = "none"]
      \/ /\ pc' = [pc EXCEPT ![t] = "idle"]
         /\ target' = [target EXCEPT ![t] = NoHost]
         /\ UNCHANGED <<at, result>>
  BY <1>1 DEF GoesOn, Operation, Answered
<1>4. UNCHANGED <<offered, keyKnown>>
  BY DEF GoesOn, Operation, Answered
<1> QED
  BY <1>2, <1>3, <1>4 DEF HandlerMove, Stores

LEMMA GoesOnKeepsReqs ==
    ASSUME TInv, Reqs, NEW t \in Tasks, GoesOn(t), page[t] # "none"
    PROVE  /\ Reqs' /\ channel'[t] = "none"
           /\ \A u \in Tasks \ {t} : channel'[u] = channel[u] /\ on'[u] = on[u]
<1>1. CASE /\ \E s \in {"look", "read", "stream"} : Operation(t, s)
           /\ UNCHANGED reply \/ reply' = [reply EXCEPT ![t] = 200]
  <2>1. PageTypes'
    BY <1>1 DEF Operation, Reqs, PageTypes, Stages, Replies
  <2>2. Busy(t)'
    BY <1>1 DEF Operation, Reqs, PageTypes, Busy, TInv, TypeOK
  <2>3. \A u \in Tasks \ {t} : Busy(u)'
    BY <1>1 DEF Operation, Reqs, PageTypes, Busy, TInv, TypeOK
  <2> QED
    BY <1>1, <2>1, <2>2, <2>3 DEF Reqs, PageTypes, Operation
<1>2. ASSUME NEW status \in Replies, Answered(t, status)
      PROVE  /\ Reqs' /\ channel'[t] = "none"
             /\ \A u \in Tasks \ {t} : channel'[u] = channel[u] /\ on'[u] = on[u]
  <2>1. PageTypes'
    BY <1>2 DEF Answered, Reqs, PageTypes, Stages, Replies
  <2>2. Busy(t)'
    BY <1>2 DEF Answered, Reqs, PageTypes, Busy, TInv, TypeOK
  <2>3. \A u \in Tasks \ {t} : Busy(u)'
    BY <1>2 DEF Answered, Reqs, PageTypes, Busy, TInv, TypeOK
  <2> QED
    BY <1>2, <2>1, <2>2, <2>3 DEF Reqs, PageTypes, Answered
<1> QED
  BY <1>1, <1>2 DEF GoesOn

-----------------------------------------------------------------------------
(* Every step is a use of the pool. *)

LEMMA FileNextIsPoolStep == TInv /\ Reqs /\ [FileNext]_fileVars => PoolStep
<1> SUFFICES ASSUME TInv, Reqs, [FileNext]_fileVars PROVE PoolStep
  OBVIOUS
<1>1. ASSUME NEW t \in Tasks, NEW w \in Wanted, Request(t, w[1], w[2])
      PROVE  HandlerMove(t)
  <2>1. w[1] \in Hosts
    BY Requests
  <2> QED
    BY <1>1, <2>1 DEF Request, Call, Begin, HandlerMove, Stores, InCall
<1>2. ASSUME NEW t \in Tasks, Take(t) PROVE HandlerMove(t)
  BY <1>2 DEF Take, End, HandlerMove, Stores, InCall
<1>3. ASSUME NEW t \in Tasks, Raised(t) PROVE HandlerMove(t)
  BY <1>3, FailsGoesOn, GoesOnIsHandlerMove DEF Raised
<1>4. ASSUME NEW t \in Tasks, ChannelEnds(t) PROVE HandlerMove(t)
  <2>1. GoesOn(t)
    BY <1>4, FailsGoesOn, SucceedsGoesOn DEF ChannelEnds
  <2>2. page[t] # "none" /\ pc[t] = "idle"
    BY <1>4 DEF ChannelEnds, Reqs, Busy
  <2> QED
    BY <1>4, <2>1, <2>2, GoesOnIsHandlerMove DEF ChannelEnds
<1>5. ASSUME NEW t \in Tasks, Admitted(t) PROVE UNCHANGED vars
  BY <1>5 DEF Admitted
<1>6. UNCHANGED fileVars => UNCHANGED vars
  BY DEF fileVars
<1> QED
  BY <1>1, <1>2, <1>3, <1>4, <1>5, <1>6 DEF FileNext, FileStep, PoolStep, EnvStep

-----------------------------------------------------------------------------
(* The requests. *)

LEMMA RequestKeepsReqs ==
    ASSUME TInv, Reqs, NEW t \in Tasks, NEW w \in Wanted, Request(t, w[1], w[2])
    PROVE  /\ Reqs' /\ channel' = channel /\ channel[t] = "none"
           /\ \A u \in Tasks \ {t} : on'[u] = on[u]
<1>1. w[1] \in Hosts /\ w[1] # NoHost /\ w[2] \in Endpoints /\ w[2] # "none"
  BY Requests, HostData DEF Endpoints
<1>2. channel' = channel /\ channel[t] = "none"
  BY DEF Request, Reqs, PageTypes, Busy
<1>3. PageTypes'
  BY <1>1, <1>2 DEF Request, Reqs, PageTypes, Stages, Replies, FirstStage
<1>4. Busy(t)'
  BY <1>1, <1>2 DEF Request, Call, Begin, Reqs, PageTypes, Busy, TInv, TypeOK
<1>5. \A u \in Tasks \ {t} : Busy(u)' /\ on'[u] = on[u]
  BY <1>2 DEF Request, Call, Begin, Reqs, PageTypes, Busy, TInv, TypeOK
<1> QED
  BY <1>2, <1>3, <1>4, <1>5 DEF Reqs

LEMMA TakeKeepsReqs ==
    ASSUME TInv, Reqs, NEW t \in Tasks, Take(t)
    PROVE  /\ Reqs' /\ on' = on /\ on[t] \in Hosts /\ channel[t] = "none"
           /\ \E c \in {"open", "queued"} : channel' = [channel EXCEPT ![t] = c]
<1>1. UNCHANGED <<page, on, stage, reply>> /\ pc' = [pc EXCEPT ![t] = "idle"]
      /\ pc[t] = "returned" /\ page[t] # "none"
  BY DEF Take, End
<1>2. on[t] \in Hosts /\ channel[t] = "none"
  BY <1>1 DEF Reqs, PageTypes, Busy
<1>3. PICK c \in {"open", "queued"} : channel' = [channel EXCEPT ![t] = c]
  BY DEF Take
<1>4. PageTypes'
  BY <1>1, <1>3 DEF Reqs, PageTypes
<1>5. \A u \in Tasks : Busy(u)'
  BY <1>1, <1>3 DEF Reqs, PageTypes, Busy, TInv, TypeOK
<1> QED
  BY <1>1, <1>2, <1>3, <1>4, <1>5 DEF Reqs

LEMMA RaisedKeepsReqs ==
    ASSUME TInv, Reqs, NEW t \in Tasks, Raised(t)
    PROVE  /\ Reqs' /\ channel[t] = "none" /\ channel'[t] = "none"
           /\ \A u \in Tasks \ {t} : channel'[u] = channel[u] /\ on'[u] = on[u]
<1>1. channel[t] = "none"
  BY DEF Raised, Reqs, PageTypes, Busy
<1> QED
  BY <1>1, FailsGoesOn, GoesOnKeepsReqs DEF Raised

LEMMA AdmittedKeepsReqs ==
    ASSUME TInv, Reqs, NEW t \in Tasks, Admitted(t)
    PROVE  Reqs'
<1>1. UNCHANGED <<page, on, stage, reply, pc>> /\ channel' = [channel EXCEPT ![t] = "open"]
      /\ channel[t] = "queued"
  BY DEF Admitted, vars, frames
<1>2. PageTypes'
  BY <1>1 DEF Reqs, PageTypes
<1>3. \A u \in Tasks : Busy(u)'
  BY <1>1 DEF Reqs, PageTypes, Busy
<1> QED
  BY <1>2, <1>3 DEF Reqs

LEMMA ChannelEndsKeepsReqs ==
    ASSUME TInv, Reqs, NEW t \in Tasks, ChannelEnds(t)
    PROVE  /\ Reqs' /\ on[t] \in Hosts /\ channel[t] = "open" /\ channel'[t] = "none"
           /\ \A u \in Tasks \ {t} : channel'[u] = channel[u] /\ on'[u] = on[u]
<1>1. GoesOn(t)
  BY FailsGoesOn, SucceedsGoesOn DEF ChannelEnds
<1>2. channel[t] = "open" /\ page[t] # "none" /\ on[t] \in Hosts
  BY DEF ChannelEnds, Reqs, PageTypes, Busy
<1> QED
  BY <1>1, <1>2, GoesOnKeepsReqs

LEMMA PoolOnlyKeepsReqs ==
    ASSUME TInv, Reqs, UNCHANGED requests,
           \A t \in Tasks : pc'[t] = "idle" <=> pc[t] = "idle"
    PROVE  Reqs'
BY DEF requests, Reqs, PageTypes, Busy

LEMMA ReqsKept == TInv /\ Reqs /\ [FileNext]_fileVars => Reqs'
<1> SUFFICES ASSUME TInv, Reqs, [FileNext]_fileVars PROVE Reqs'
  OBVIOUS
<1>1. ASSUME NEW t \in Tasks, Step(t), UNCHANGED requests PROVE Reqs'
  BY <1>1, TaskStepInCall, PoolOnlyKeepsReqs
<1>2. ASSUME EnvStep, UNCHANGED requests PROVE Reqs'
  <2>1. pc' = pc
    BY <1>2 DEF EnvStep, SetPassword, ClearPassword, TrustHostKey, Lost, frames
  <2> QED
    BY <1>2, <2>1, PoolOnlyKeepsReqs
<1>3. CASE UNCHANGED fileVars
  BY <1>3, PoolOnlyKeepsReqs DEF fileVars, vars, frames
<1> QED
  BY <1>1, <1>2, <1>3, RequestKeepsReqs, TakeKeepsReqs, RaisedKeepsReqs, AdmittedKeepsReqs,
     ChannelEndsKeepsReqs DEF FileNext, FileStep, EnvStep

LEMMA InitReqs == FileInit => Reqs
BY DEF FileInit, Init, Reqs, PageTypes, Busy, Stages, Replies

-----------------------------------------------------------------------------
(* The permits. *)

\* The tasks that have one of h's permits.
Holders(h) == {t \in Tasks : on[t] = h /\ HoldsPermit(t)}

\* Who waits does so for this host, once, and only while no permit is free.
LineOK(h) ==
    /\ \A i \in 1..Len(line[h]) : channel[line[h][i]] = "queued" /\ on[line[h][i]] = h
    /\ \A i, j \in 1..Len(line[h]) : line[h][i] = line[h][j] => i = j
    /\ line[h] # <<>> => permits[h] = 0

PermitsOK(h) ==
    /\ IsFiniteSet(Holders(h))
    /\ permits[h] + Cardinality(Holders(h)) = MaxChannels

Sems ==
    /\ permits \in [Hosts -> 0..MaxChannels] /\ line \in [Hosts -> Seq(Tasks)]
    /\ \A h \in Hosts : LineOK(h) /\ PermitsOK(h)

\* A task without a channel holds no permit and waits for none.
LEMMA NoChannelNoPermit ==
    ASSUME Sems, NEW t \in Tasks, channel[t] = "none"
    PROVE  /\ ~HoldsPermit(t)
           /\ \A h \in Hosts : \A i \in 1..Len(line[h]) : line[h][i] # t
BY DEF Sems, LineOK, HoldsPermit

LEMMA InLineIsIndex ==
    ASSUME Sems, NEW t \in Tasks, on[t] \in Hosts
    PROVE  InLine(t) <=> \E i \in 1..Len(line[on[t]]) : line[on[t]][i] = t
BY DEF InLine, Sems

\* The semaphores stay as they are, and so does what each task has of them.
LEMMA SemsUntouched ==
    ASSUME Sems, UNCHANGED sftp, NEW t \in Tasks,
           \A u \in Tasks \ {t} : channel'[u] = channel[u] /\ on'[u] = on[u],
           \A h \in Hosts : \A i \in 1..Len(line[h]) : line[h][i] # t,
           \A h \in Hosts : on[t] = h /\ HoldsPermit(t) <=> on'[t] = h /\ HoldsPermit(t)'
    PROVE  Sems'
<1>1. permits' = permits /\ line' = line
  BY DEF sftp
<1>2. ASSUME NEW h \in Hosts PROVE LineOK(h)'
  <2>1. \A i \in 1..Len(line[h]) : line[h][i] \in Tasks \ {t}
    BY DEF Sems
  <2> QED
    BY <1>1, <2>1 DEF Sems, LineOK
<1>3. ASSUME NEW h \in Hosts PROVE PermitsOK(h)'
  <2>1. \A u \in Tasks \ {t} : on[u] = h /\ HoldsPermit(u) <=> on'[u] = h /\ HoldsPermit(u)'
    BY <1>1 DEF HoldsPermit, InLine
  <2>2. Holders(h)' = Holders(h)
    BY <2>1 DEF Holders
  <2> QED
    BY <1>1, <2>2 DEF Sems, PermitsOK
<1> QED
  BY <1>1, <1>2, <1>3 DEF Sems

\* A step of a request that neither has nor gets a channel.
LEMMA WithoutChannelKeepsSems ==
    ASSUME Sems, UNCHANGED sftp, NEW t \in Tasks, channel[t] = "none", channel'[t] = "none",
           \A u \in Tasks \ {t} : channel'[u] = channel[u] /\ on'[u] = on[u]
    PROVE  Sems'
<1>1. ~HoldsPermit(t) /\ ~HoldsPermit(t)'
  BY DEF HoldsPermit
<1> QED
  BY <1>1, SemsUntouched, NoChannelNoPermit

LEMMA AdmittedKeepsSems ==
    ASSUME Reqs, Sems, NEW t \in Tasks, Admitted(t)
    PROVE  Sems'
<1>1. /\ UNCHANGED sftp /\ on' = on /\ channel[t] = "queued" /\ ~InLine(t)
      /\ channel' = [channel EXCEPT ![t] = "open"] /\ on[t] \in Hosts
  BY DEF Admitted, Reqs, PageTypes, Busy
<1>2. \A u \in Tasks \ {t} : channel'[u] = channel[u]
  BY <1>1 DEF Reqs, PageTypes
<1>3. HoldsPermit(t) /\ HoldsPermit(t)'
  BY <1>1 DEF HoldsPermit, Reqs, PageTypes
<1>4. \A h \in Hosts : \A i \in 1..Len(line[h]) : line[h][i] # t
  BY <1>1, InLineIsIndex DEF Sems, LineOK
<1> QED
  BY <1>1, <1>2, <1>3, <1>4, SemsUntouched

LEMMA TakeKeepsSems ==
    ASSUME TInv, Reqs, Sems, NEW t \in Tasks, Take(t)
    PROVE  Sems'
<1>0. PICK h \in Hosts : on[t] = h
  BY TakeKeepsReqs
<1>1. /\ on' = on /\ channel[t] = "none"
      /\ \A u \in Tasks \ {t} : channel'[u] = channel[u]
  BY TakeKeepsReqs DEF Reqs, PageTypes
<1>2. /\ ~HoldsPermit(t)
      /\ \A k \in Hosts : \A i \in 1..Len(line[k]) : line[k][i] # t
  BY <1>0, <1>1, NoChannelNoPermit
<1>3. \A k \in Hosts \ {h} : LineOK(k) /\ PermitsOK(k) /\ line[k] \in Seq(Tasks)
  BY DEF Sems
<1>4. permits[h] \in Nat /\ MaxChannels \in Nat /\ Cardinality(Holders(h)) \in Nat
  BY <1>0, <1>1, Requests, FS_CardinalityType DEF Sems, PermitsOK
<1>5. CASE /\ permits[h] > 0
           /\ permits' = [permits EXCEPT ![h] = @ - 1]
           /\ channel' = [channel EXCEPT ![t] = "open"]
           /\ line' = line
  <2>1. permits' \in [Hosts -> 0..MaxChannels] /\ channel'[t] = "open"
    <3>1. permits[h] - 1 \in 0..MaxChannels
      BY <1>4, <1>5 DEF Sems
    <3> QED
      BY <1>5, <3>1 DEF Sems, Reqs, PageTypes
  <2>2. \A u \in Tasks \ {t} : HoldsPermit(u)' <=> HoldsPermit(u)
    BY <1>0, <1>1, <1>5 DEF HoldsPermit, InLine
  <2>3. HoldsPermit(t)'
    BY <2>1 DEF HoldsPermit
  <2>4. \A k \in Hosts : Holders(k)' = IF k = h THEN Holders(k) \cup {t} ELSE Holders(k)
    BY <1>0, <1>1, <1>2, <2>2, <2>3 DEF Holders
  <2>5. t \notin Holders(h)
    BY <1>2 DEF Holders
  <2>6. PermitsOK(h)'
    <3>1. /\ IsFiniteSet(Holders(h) \cup {t})
          /\ Cardinality(Holders(h) \cup {t}) = Cardinality(Holders(h)) + 1
      BY <1>0, <1>1, <2>5, FS_AddElement DEF Sems, PermitsOK
    <3>2. permits'[h] = permits[h] - 1
      BY <1>0, <1>1, <1>5 DEF Sems
    <3>3. permits[h] + Cardinality(Holders(h)) = MaxChannels
      BY <1>0, <1>1 DEF Sems, PermitsOK
    <3>4. /\ IsFiniteSet(Holders(h)')
          /\ Cardinality(Holders(h)') = Cardinality(Holders(h)) + 1
      BY <1>0, <1>1, <2>4, <3>1
    <3> QED
      BY <1>0, <1>1, <1>4, <3>2, <3>3, <3>4 DEF PermitsOK
  <2>7. \A k \in Hosts \ {h} : PermitsOK(k)'
    BY <1>3, <1>5, <2>4 DEF PermitsOK, Sems
  <2>8. \A k \in Hosts : LineOK(k)'
    <3> SUFFICES ASSUME NEW k \in Hosts PROVE LineOK(k)'
      OBVIOUS
    <3>1. \A i \in 1..Len(line[k]) : line[k][i] \in Tasks \ {t}
      BY <1>2 DEF Sems
    <3>2. line[k] # <<>> => permits'[k] = 0
      BY <1>0, <1>1, <1>5 DEF Sems, LineOK
    <3> QED
      BY <1>0, <1>1, <1>5, <3>1, <3>2 DEF Sems, LineOK
  <2> QED
    BY <1>0, <1>1, <1>5, <2>1, <2>6, <2>7, <2>8 DEF Sems
<1>6. CASE /\ ~(permits[h] > 0)
           /\ line' = [line EXCEPT ![h] = Append(@, t)]
           /\ channel' = [channel EXCEPT ![t] = "queued"]
           /\ permits' = permits
  <2>1. line' \in [Hosts -> Seq(Tasks)] /\ channel'[t] = "queued"
    BY <1>0, <1>1, <1>6 DEF Sems, Reqs, PageTypes
  <2>2. /\ Len(line'[h]) = Len(line[h]) + 1 /\ Len(line[h]) \in Nat
        /\ \A i \in 1..Len(line[h]) : line'[h][i] = line[h][i]
        /\ line'[h][Len(line[h]) + 1] = t
    BY <1>0, <1>1, <1>6 DEF Sems
  <2>3. \A k \in Hosts \ {h} : line'[k] = line[k]
    BY <1>6 DEF Sems
  <2>4. InLine(t)'
    BY <1>0, <1>1, <2>1, <2>2 DEF InLine
  <2>5. \A u \in Tasks \ {t} : on[u] \in Hosts => (InLine(u)' <=> InLine(u))
    <3> SUFFICES ASSUME NEW u \in Tasks \ {t}, on[u] \in Hosts PROVE InLine(u)' <=> InLine(u)
      OBVIOUS
    <3>1. CASE on[u] = h
      <4>1. DOMAIN line[h] = 1..Len(line[h]) /\ DOMAIN line'[h] = 1..Len(line'[h])
        BY <2>1 DEF Sems
      <4>2. \A i \in 1..Len(line'[h]) : i \in 1..Len(line[h]) \/ line'[h][i] = t
        BY <2>2
      <4>3. 1..Len(line[h]) \subseteq 1..Len(line'[h])
        BY <2>2
      <4> QED
        BY <1>1, <2>2, <3>1, <4>1, <4>2, <4>3 DEF InLine
    <3>2. CASE on[u] # h
      BY <1>0, <1>1, <2>3, <3>2 DEF InLine
    <3> QED
      BY <3>1, <3>2
  <2>6. \A k \in Hosts : Holders(k)' = Holders(k)
    <3>1. ~HoldsPermit(t)'
      BY <2>1, <2>4 DEF HoldsPermit
    <3>2. \A u \in Tasks \ {t} : on[u] \in Hosts => (HoldsPermit(u)' <=> HoldsPermit(u))
      BY <1>0, <1>1, <2>5 DEF HoldsPermit
    <3> QED
      BY <1>0, <1>1, <1>2, <3>1, <3>2 DEF Holders
  <2>7. \A k \in Hosts : PermitsOK(k)'
    BY <1>6, <2>6 DEF PermitsOK, Sems
  <2>8. \A k \in Hosts \ {h} : LineOK(k)'
    <3> SUFFICES ASSUME NEW k \in Hosts \ {h} PROVE LineOK(k)'
      OBVIOUS
    <3>1. \A i \in 1..Len(line[k]) : line[k][i] \in Tasks \ {t}
      BY <1>2 DEF Sems
    <3> QED
      BY <1>0, <1>1, <1>3, <1>6, <2>3, <3>1 DEF LineOK
  <2>9. LineOK(h)'
    <3>1. \A i \in 1..Len(line'[h]) :
            \/ i \in 1..Len(line[h]) /\ line'[h][i] = line[h][i]
                                         /\ line[h][i] \in Tasks \ {t}
            \/ i = Len(line[h]) + 1 /\ line'[h][i] = t
      BY <1>0, <1>1, <1>2, <2>2 DEF Sems
    <3>2. permits'[h] = 0
      BY <1>4, <1>6
    <3>3. LineOK(h)
      BY <1>0, <1>1 DEF Sems
    <3>4. \A i \in 1..Len(line'[h]) :
            channel'[line'[h][i]] = "queued" /\ on[line'[h][i]] = h
      BY <1>0, <1>1, <2>1, <3>1, <3>3 DEF LineOK
    <3>5. \A i, j \in 1..Len(line'[h]) : line'[h][i] = line'[h][j] => i = j
      BY <3>1, <3>3 DEF LineOK
    <3> QED
      BY <1>0, <1>1, <3>2, <3>4, <3>5 DEF LineOK
  <2> QED
    BY <1>0, <1>1, <1>6, <2>1, <2>7, <2>8, <2>9 DEF Sems
<1> QED
  BY <1>0, <1>5, <1>6 DEF Take

\* The permit of a channel that ends goes to the first waiter, or becomes free.
LEMMA ChannelEndsKeepsSems ==
    ASSUME TInv, Reqs, Sems, NEW t \in Tasks, ChannelEnds(t)
    PROVE  Sems'
<1>1. PICK h \in Hosts : on[t] = h
  BY ChannelEndsKeepsReqs
<1>2. /\ channel[t] = "open" /\ channel'[t] = "none"
      /\ \A u \in Tasks \ {t} : channel'[u] = channel[u] /\ on'[u] = on[u]
  BY ChannelEndsKeepsReqs
<1>3. t \in Holders(h) /\ ~HoldsPermit(t)'
  BY <1>1, <1>2 DEF Holders, HoldsPermit
<1>4. \A k \in Hosts : \A i \in 1..Len(line[k]) : line[k][i] \in Tasks \ {t}
  BY <1>2 DEF Sems, LineOK
<1>5. /\ permits[h] \in 0..MaxChannels /\ MaxChannels \in Nat
      /\ IsFiniteSet(Holders(h)) /\ Cardinality(Holders(h)) \in Nat
      /\ permits[h] + Cardinality(Holders(h)) = MaxChannels
      /\ LineOK(h) /\ line[h] \in Seq(Tasks)
  BY Requests, FS_CardinalityType DEF Sems, PermitsOK
<1>6. /\ IsFiniteSet(Holders(h) \ {t})
      /\ Cardinality(Holders(h) \ {t}) = Cardinality(Holders(h)) - 1
      /\ Cardinality(Holders(h) \ {t}) \in Nat
  BY <1>3, <1>5, FS_RemoveElement, FS_CardinalityType
<1>7. CASE line[h] = <<>> /\ permits' = [permits EXCEPT ![h] = @ + 1] /\ line' = line
  <2>1. permits[h] + 1 \in 0..MaxChannels
    BY <1>5, <1>6
  <2>2. permits' \in [Hosts -> 0..MaxChannels] /\ permits'[h] = permits[h] + 1
    BY <1>7, <2>1 DEF Sems
  <2>3. \A u \in Tasks \ {t} : HoldsPermit(u)' <=> HoldsPermit(u)
    BY <1>2, <1>7 DEF HoldsPermit, InLine
  <2>4. Holders(h)' = Holders(h) \ {t}
    BY <1>2, <1>3, <2>3 DEF Holders
  <2>5. \A k \in Hosts \ {h} : Holders(k)' = Holders(k) /\ permits'[k] = permits[k]
    BY <1>1, <1>2, <1>3, <1>7, <2>3 DEF Holders, Sems
  <2>6. \A k \in Hosts : PermitsOK(k)'
    <3>1. PermitsOK(h)'
      BY <1>5, <1>6, <2>2, <2>4 DEF PermitsOK
    <3>2. \A k \in Hosts \ {h} : PermitsOK(k)'
      BY <2>5 DEF PermitsOK, Sems
    <3> QED
      BY <3>1, <3>2
  <2>7. \A k \in Hosts : LineOK(k)'
    <3> SUFFICES ASSUME NEW k \in Hosts PROVE LineOK(k)'
      OBVIOUS
    <3>1. LineOK(k) /\ line'[k] = line[k]
      BY <1>7 DEF Sems
    <3>2. line'[k] # <<>> => permits'[k] = 0
      BY <1>7, <2>5, <3>1 DEF LineOK
    <3> QED
      BY <1>2, <1>4, <3>1, <3>2 DEF LineOK
  <2> QED
    BY <1>7, <2>2, <2>6, <2>7 DEF Sems
<1>8. CASE line[h] # <<>> /\ line' = [line EXCEPT ![h] = Tail(@)] /\ permits' = permits
  <2>1. /\ Len(line[h]) \in Nat \ {0} /\ Tail(line[h]) \in Seq(Tasks)
        /\ Len(Tail(line[h])) = Len(line[h]) - 1
        /\ \A i \in 1..Len(Tail(line[h])) : Tail(line[h])[i] = line[h][i + 1]
    BY <1>5, <1>8, HeadTailProperties
  <2>2. /\ line' \in [Hosts -> Seq(Tasks)] /\ line'[h] = Tail(line[h])
        /\ \A k \in Hosts \ {h} : line'[k] = line[k]
    BY <1>8, <2>1 DEF Sems
  <2>3. PICK u \in Tasks \ {t} : u = line[h][1]
    BY <1>4, <2>1
  <2>4. channel[u] = "queued" /\ on[u] = h /\ channel'[u] = "queued" /\ on'[u] = h
    BY <1>2, <1>5, <2>1, <2>3 DEF LineOK
  <2>5. \A i \in 1..Len(Tail(line[h])) : Tail(line[h])[i] # u
    BY <1>5, <2>1, <2>3 DEF LineOK
  <2>6. InLine(u) /\ ~InLine(u)'
    <3>1. InLine(u)
      BY <1>5, <2>1, <2>3, <2>4 DEF InLine
    <3>2. DOMAIN line'[h] = 1..Len(Tail(line[h]))
      BY <2>1, <2>2
    <3> QED
      BY <2>2, <2>4, <2>5, <3>1, <3>2 DEF InLine
  <2>7. \A v \in Tasks \ {t, u} : on[v] \in Hosts => (InLine(v)' <=> InLine(v))
    <3> SUFFICES ASSUME NEW v \in Tasks \ {t, u}, on[v] \in Hosts
                 PROVE  InLine(v)' <=> InLine(v)
      OBVIOUS
    <3>1. CASE on[v] = h
      <4>1. DOMAIN line[h] = 1..Len(line[h]) /\ DOMAIN line'[h] = 1..(Len(line[h]) - 1)
        BY <1>5, <2>1, <2>2
      <4>2. \A i \in 1..(Len(line[h]) - 1) :
              line'[h][i] = line[h][i + 1] /\ i + 1 \in 1..Len(line[h])
        BY <2>1, <2>2
      <4>3. \A i \in 1..Len(line[h]) : line[h][i] = v =>
              i - 1 \in 1..(Len(line[h]) - 1) /\ line'[h][i - 1] = v
        BY <2>1, <2>2, <2>3
      <4>4. on'[v] = h
        BY <1>2, <3>1
      <4>5. InLine(v) => InLine(v)'
        BY <3>1, <4>1, <4>3, <4>4 DEF InLine
      <4>6. InLine(v)' => InLine(v)
        BY <3>1, <4>1, <4>2, <4>4 DEF InLine
      <4> QED
        BY <4>5, <4>6
    <3>2. CASE on[v] # h
      BY <1>2, <2>2, <3>2 DEF InLine
    <3> QED
      BY <3>1, <3>2
  <2>8. \A v \in Tasks \ {t, u} : on[v] \in Hosts => (HoldsPermit(v)' <=> HoldsPermit(v))
    BY <1>2, <2>7 DEF HoldsPermit
  <2>9. ~HoldsPermit(u) /\ HoldsPermit(u)'
    BY <2>4, <2>6 DEF HoldsPermit
  <2>10. Holders(h)' = (Holders(h) \ {t}) \cup {u} /\ u \notin Holders(h) \ {t}
    BY <1>2, <1>3, <2>4, <2>8, <2>9 DEF Holders
  <2>11. \A k \in Hosts \ {h} : Holders(k)' = Holders(k)
    BY <1>1, <1>2, <1>3, <2>4, <2>8 DEF Holders
  <2>12. \A k \in Hosts : PermitsOK(k)'
    <3>1. /\ IsFiniteSet((Holders(h) \ {t}) \cup {u})
          /\ Cardinality((Holders(h) \ {t}) \cup {u}) = Cardinality(Holders(h) \ {t}) + 1
      BY <1>6, <2>10, FS_AddElement
    <3>2. PermitsOK(h)'
      BY <1>5, <1>6, <1>8, <2>10, <3>1 DEF PermitsOK
    <3>3. \A k \in Hosts \ {h} : PermitsOK(k)'
      BY <1>8, <2>11 DEF PermitsOK, Sems
    <3> QED
      BY <3>2, <3>3
  <2>13. \A k \in Hosts \ {h} : LineOK(k)'
    <3> SUFFICES ASSUME NEW k \in Hosts \ {h} PROVE LineOK(k)'
      OBVIOUS
    <3>1. LineOK(k) /\ line'[k] = line[k] /\ permits'[k] = permits[k]
      BY <1>8, <2>2 DEF Sems
    <3> QED
      BY <1>2, <1>4, <3>1 DEF LineOK
  <2>14. LineOK(h)'
    <3>1. \A i \in 1..Len(line'[h]) :
            i + 1 \in 1..Len(line[h]) /\ line'[h][i] = line[h][i + 1] /\ i \in Nat
      BY <2>1, <2>2
    <3>2. \A i \in 1..Len(line'[h]) :
            channel'[line'[h][i]] = "queued" /\ on'[line'[h][i]] = h
      BY <1>2, <1>4, <1>5, <3>1 DEF LineOK
    <3>3. \A i, j \in 1..Len(line'[h]) : line'[h][i] = line'[h][j] => i = j
      BY <1>5, <3>1 DEF LineOK
    <3>4. permits'[h] = 0
      BY <1>5, <1>8 DEF LineOK
    <3> QED
      BY <3>2, <3>3, <3>4 DEF LineOK
  <2> QED
    BY <1>8, <2>2, <2>12, <2>13, <2>14 DEF Sems
<1> QED
  BY <1>1, <1>7, <1>8 DEF ChannelEnds, Release

LEMMA SemsKept == TInv /\ Reqs /\ Sems /\ [FileNext]_fileVars => Sems'
<1> SUFFICES ASSUME TInv, Reqs, Sems, [FileNext]_fileVars PROVE Sems'
  OBVIOUS
<1>1. ASSUME UNCHANGED <<requests, sftp>> PROVE Sems'
  <2>1. UNCHANGED <<on, channel, permits, line>>
    BY <1>1 DEF requests, sftp
  <2>2. \A h : Holders(h)' = Holders(h)
    BY <2>1 DEF Holders, HoldsPermit, InLine
  <2> QED
    BY <2>1, <2>2 DEF Sems, LineOK, PermitsOK
<1>2. ASSUME NEW t \in Tasks, NEW w \in Wanted, Request(t, w[1], w[2]) PROVE Sems'
  BY <1>2, RequestKeepsReqs, WithoutChannelKeepsSems DEF Request
<1>3. ASSUME NEW t \in Tasks, Raised(t) PROVE Sems'
  BY <1>3, RaisedKeepsReqs, WithoutChannelKeepsSems DEF Raised
<1>4. CASE UNCHANGED fileVars
  BY <1>1, <1>4 DEF fileVars
<1> QED
  BY <1>1, <1>2, <1>3, <1>4, TakeKeepsSems, AdmittedKeepsSems, ChannelEndsKeepsSems
     DEF FileNext, FileStep

LEMMA InitSems == FileInit => Sems
<1> SUFFICES ASSUME FileInit PROVE Sems
  OBVIOUS
<1>1. permits = [h \in Hosts |-> MaxChannels] /\ line = [h \in Hosts |-> <<>>]
      /\ on = [t \in Tasks |-> NoHost]
  BY DEF FileInit
<1>2. MaxChannels \in 0..MaxChannels /\ MaxChannels \in Nat
  BY Requests
<1>3. \A h \in Hosts : Holders(h) = {}
  BY <1>1, HostData DEF Holders
<1>4. \A h \in Hosts : PermitsOK(h)
  <2> SUFFICES ASSUME NEW h \in Hosts PROVE PermitsOK(h)
    OBVIOUS
  <2>1. IsFiniteSet(Holders(h)) /\ Cardinality(Holders(h)) = 0
    BY <1>3, FS_EmptySet
  <2>2. permits[h] = MaxChannels
    BY <1>1
  <2> QED
    BY <1>2, <2>1, <2>2 DEF PermitsOK
<1>5. \A h \in Hosts : LineOK(h)
  BY <1>1 DEF LineOK
<1> QED
  BY <1>1, <1>2, <1>4, <1>5 DEF Sems

-----------------------------------------------------------------------------
(* The theorems. *)

FInv == TInv /\ LInv /\ StampsMatchConnections /\ Reqs /\ Sems

LEMMA FInvInvariant == FileSpec => []FInv
<1>1. FileInit => FInv
  BY InitType, InitLocks, InitStamps, InitReqs, InitSems DEF FileInit, FInv
<1>2. FInv /\ [FileNext]_fileVars => FInv'
  BY FileNextIsPoolStep, PoolStepType, PoolStepLocks, PoolStepStamps, ReqsKept, SemsKept
     DEF FInv
<1> QED
  BY <1>1, <1>2, PTL DEF FileSpec

\* A request is in get_connection or at its channel, and never at both; every
\* status it is answered with is one the page knows.
THEOREM FilesTypeCorrect == FileSpec => []FilesTypeOK
<1>1. FInv => FilesTypeOK
  BY DEF FInv, Reqs, PageTypes, Busy, Sems, FilesTypeOK, Stages, Replies
<1> QED
  BY <1>1, FInvInvariant, PTL

\* Whatever fails on the way and whoever queues, the free permits of a host and
\* the held ones add up to max_sftp_channels.
THEOREM PermitsAreConserved == FileSpec => []PermitsConserved
<1>1. FInv => PermitsConserved
  BY DEF FInv, Sems, PermitsOK, Holders, PermitsConserved
<1> QED
  BY <1>1, FInvInvariant, PTL

\* Under the page's requests, which call get_connection again the moment a call
\* has returned, the pool still makes one handshake at a time with a host,
\* retries no refused keys and keeps a stamp for every connection.
THEOREM PoolHoldsUnderRequests ==
    FileSpec => [](TypeOK /\ OneHandshakePerHost /\ RefusedKeysNotRetried /\ StampsMatchConnections)
<1>1. FInv => TypeOK /\ OneHandshakePerHost /\ RefusedKeysNotRetried /\ StampsMatchConnections
  BY LocksExclude DEF FInv, TInv
<1> QED
  BY <1>1, FInvInvariant, PTL

LEMMA PInvUnderRequests == AcyclicJumps => (FileSpec => [](FInv /\ PInv))
<1> SUFFICES ASSUME AcyclicJumps PROVE FileSpec => [](FInv /\ PInv)
  OBVIOUS
<1>1. FileInit => PInv
  BY InitPInv DEF FileInit
<1>2. FInv /\ PInv /\ [FileNext]_fileVars => PInv'
  BY FileNextIsPoolStep, PoolStepKeepsPInv DEF FInv
<1> QED
  BY <1>1, <1>2, FInvInvariant, PTL DEF FileSpec

\* What a request gets from the pool is an open connection to its own host,
\* though the calls of other requests evict and lose connections meanwhile.
THEOREM RequestsGetOpenConnections == AcyclicJumps => (FileSpec => []ReturnsOpenConnection)
<1>1. PInv => ReturnsOpenConnection
  BY DEF PInv, RInv
<1> QED
  BY <1>1, PInvUnderRequests, PTL

\* The pool under the page's requests is the abstract pool: an operation's end
\* and the call that follows it are one Ask.
THEOREM RequestsImplementAbstract == AcyclicJumps => (FileSpec => ImplementsAbstractPool)
<1> SUFFICES ASSUME AcyclicJumps PROVE FileSpec => ImplementsAbstractPool
  OBVIOUS
<1>1. FileInit => Abstract!Init
  BY InitImplements DEF FileInit
<1>2. FInv /\ PInv /\ [FileNext]_fileVars => [Abstract!Next]_(Abstract!avars)
  BY FileNextIsPoolStep, PoolStepImplements DEF FInv
<1> QED
  BY <1>1, <1>2, PInvUnderRequests, PTL
     DEF FileSpec, ImplementsAbstractPool, Abstract!Spec

-----------------------------------------------------------------------------
(* Nobody waits for ever.  A call never waits for a lock of its own frames,  *)
(* and the holder of a lock waits, if it does, for a host with fewer jumps   *)
(* behind it.                                                               *)

WaitsForAnother == \A t \in Tasks :
    pc[t] \in {"calling", "waiting"} => owner[at[t]] # t

LEMMA TaskStepWaits ==
    ASSUME AcyclicJumps, PInv, WaitsForAnother, NEW t \in Tasks, Step(t)
    PROVE  WaitsForAnother'
<1>1. /\ at[t] \in Hosts /\ InCall(t) /\ WellNested(t)
      /\ InSection(t) => owner[at[t]] = t
  BY DEF Step, Acquire, Wake, Locked, Cached, FastFail, Start, HandshakeEnds,
     Connected, Denied, KeyUnknown, Unreachable, Connecting, InCall,
     PInv, TInv, FramesHaveHosts, RInv, LInv, LockHeld
<1>2. \A u \in Tasks \ {t} : pc'[u] = pc[u] /\ at'[u] = at[u]
  BY TaskStepOthers DEF PInv
<1>3. \A k \in Hosts : owner'[k] \in {owner[k], t, Free}
  BY TaskStepOthers DEF PInv
<1>4. ASSUME NEW u \in Tasks, u # t, pc'[u] \in {"calling", "waiting"}
      PROVE  owner'[at'[u]] # u
  <2>1. at[u] \in Hosts /\ owner[at[u]] # u
    BY <1>2, <1>4 DEF PInv, TInv, FramesHaveHosts, InCall, WaitsForAnother
  <2> QED
    BY <1>2, <1>3, <1>4, <2>1, FreeIsNoTask
<1>5. CASE pc'[t] \notin {"calling", "waiting"}
  BY <1>4, <1>5 DEF WaitsForAnother
<1>6. CASE Acquire(t) /\ pc'[t] = "waiting"
  <2>1. owner' = owner /\ at' = at /\ pc[t] = "calling"
    BY <1>6 DEF Acquire, PInv, TInv, TypeOK
  <2> QED
    BY <1>4, <2>1 DEF WaitsForAnother
<1>7. CASE Start(t) /\ pc'[t] = "calling"
  <2>1. /\ at'[t] = Jump[at[t]] /\ Jump[at[t]] # NoHost /\ owner' = owner
        /\ owner[at[t]] = t
    BY <1>1, <1>7 DEF Start, Handshake, locks, InSection, PInv, TInv, TypeOK
  <2>2. PICK j \in Hosts : j = Jump[at[t]]
    BY <1>1, <2>1, HostData
  <2>3. Depth[at[t]] = Depth[j] + 1
    BY <1>1, <2>1, <2>2, DepthType
  <2>4. owner[j] # t
    BY <1>1, <2>3, <2>2, DepthType DEF WellNested
  <2> QED
    BY <1>4, <2>1, <2>2, <2>4 DEF WaitsForAnother
<1>8. pc'[t] \in {"calling", "waiting"} => Acquire(t) \/ Start(t)
  BY DEF Step, Wake, Locked, Cached, FastFail, HandshakeEnds,
     Connected, Denied, KeyUnknown, Unreachable, Return, Raise, Done, Handshake,
     PInv, TInv, TypeOK
<1>9. (Acquire(t) => pc'[t] # "calling") /\ (Start(t) => pc'[t] # "waiting")
  BY DEF Acquire, Start, Handshake, PInv, TInv, TypeOK
<1> QED
  BY <1>5, <1>6, <1>7, <1>8, <1>9

LEMMA HandlerMoveWaits ==
    ASSUME PInv, WaitsForAnother, NEW t \in Tasks, HandlerMove(t)
    PROVE  WaitsForAnother'
<1>1. owner' = owner /\ at[t] \notin Hosts /\ ~InCall(t)
  BY HostData DEF HandlerMove, locks, PInv, TInv, FramesHaveHosts
<1>2. \A u \in Tasks \ {t} : pc'[u] = pc[u] /\ at'[u] = at[u]
  BY DEF HandlerMove, PInv, TInv, TypeOK
<1>3. \A k \in Hosts : owner[k] # t
  BY <1>1 DEF PInv, RInv, WellNested
<1>4. pc'[t] \in {"calling", "waiting"} => at'[t] \in Hosts
  BY DEF HandlerMove, PInv, TInv, TypeOK
<1> QED
  BY <1>1, <1>2, <1>3, <1>4 DEF WaitsForAnother

LEMMA PoolStepWaits == AcyclicJumps => (PInv /\ WaitsForAnother /\ PoolStep => WaitsForAnother')
<1>1. ASSUME WaitsForAnother, EnvStep PROVE WaitsForAnother'
  BY <1>1 DEF EnvStep, SetPassword, ClearPassword, TrustHostKey, Lost, frames, locks,
     WaitsForAnother
<1>2. ASSUME WaitsForAnother, UNCHANGED vars PROVE WaitsForAnother'
  BY <1>2 DEF vars, frames, locks, WaitsForAnother
<1> QED
  BY <1>1, <1>2, TaskStepWaits, HandlerMoveWaits DEF PoolStep

\* The holder of a lock somebody waits for is in a call itself.
LEMMA HolderInCall ==
    ASSUME PInv, NEW t \in Tasks, WaitsForLock(t)
    PROVE  at[t] \in Hosts /\ owner[at[t]] \in Tasks /\ InCall(owner[at[t]])
<1>1. at[t] \in Hosts
  BY DEF WaitsForLock, PInv, TInv, FramesHaveHosts, InCall
<1>2. owner[at[t]] \in Tasks
  BY <1>1 DEF WaitsForLock, PInv, TInv, TypeOK
<1>3. PICK u \in Tasks : u = owner[at[t]]
  BY <1>2
<1>4. InCall(u)
  <2>1. CASE at[t] = at[u]
    BY <1>1, <2>1, HostData DEF PInv, TInv, FramesHaveHosts
  <2>2. CASE at[t] # at[u]
    BY <1>1, <1>3, <2>2 DEF PInv, RInv, WellNested
  <2> QED
    BY <2>1, <2>2
<1> QED
  BY <1>1, <1>3, <1>4

LEMMA LeastNat ==
    ASSUME NEW S, S \subseteq Nat, S # {}
    PROVE  \E x \in S : \A y \in S : x <= y
<1> DEFINE R == OpToRel(<, Nat)
<1>1. \A x, y \in Nat : <<x, y>> \in R <=> x < y
  BY DEF OpToRel
<1>2. IsWellFoundedOn(R, Nat)
  BY NatLessThanWellFounded
<1> HIDE DEF R
<1>3. PICK x \in S : \A y \in S : ~ (<<y, x>> \in R)
  BY <1>2, WFMin
<1>4. \A y \in S : ~ (y < x)
  BY <1>1, <1>3
<1> QED
  BY <1>4

\* Of the tasks that wait for a lock, the one whose host has the fewest jumps
\* behind it waits for a task that does not.
LEMMA SomeHolderRuns ==
    ASSUME AcyclicJumps, FInv, PInv, WaitsForAnother, NEW t \in Tasks, WaitsForLock(t)
    PROVE  \E u \in Tasks : InCall(u) /\ ~WaitsForLock(u)
<1> DEFINE D == {Depth[at[u]] : u \in {v \in Tasks : WaitsForLock(v)}}
<1>1. \A u \in Tasks : WaitsForLock(u) => Depth[at[u]] \in Nat
  BY HolderInCall, DepthType
<1>2. D \subseteq Nat /\ D # {}
  BY <1>1
<1>3. PICK u \in Tasks : /\ WaitsForLock(u)
                        /\ \A v \in Tasks : WaitsForLock(v) => Depth[at[u]] <= Depth[at[v]]
  <2>1. PICK d \in D : \A e \in D : d <= e
    BY <1>2, LeastNat
  <2> QED
    BY <2>1
<1>4. PICK w \in Tasks : w = owner[at[u]] /\ InCall(w) /\ at[u] \in Hosts
  BY <1>3, HolderInCall
<1>5. ~WaitsForLock(w)
  <2> SUFFICES ASSUME WaitsForLock(w) PROVE FALSE
    OBVIOUS
  <2>1. at[w] \in Hosts /\ owner[at[w]] # w
    BY HolderInCall DEF WaitsForLock, WaitsForAnother
  <2>2. at[u] # at[w]
    BY <1>4, <2>1
  <2>3. Depth[at[w]] < Depth[at[u]]
    BY <1>4, <2>2 DEF PInv, RInv, WellNested
  <2> QED
    BY <1>1, <1>3, <2>3
<1> QED
  BY <1>4, <1>5

\* A permit that somebody waits for is held, by a task with an open channel or
\* by one that was passed it.
LEMMA SomePermitHeld ==
    ASSUME FInv, NEW t \in Tasks, WaitsForPermit(t)
    PROVE  permits[on[t]] = 0 /\ \E u \in Tasks : HoldsPermit(u)
<1>1. PICK h \in Hosts : h = on[t]
  BY DEF WaitsForPermit, FInv, Reqs, PageTypes, Busy
<1>2. line[h] # <<>>
  BY <1>1 DEF WaitsForPermit, InLine
<1>3. permits[h] = 0
  BY <1>2 DEF FInv, Sems, LineOK
<1>4. Cardinality(Holders(h)) = MaxChannels /\ IsFiniteSet(Holders(h)) /\ MaxChannels # 0
  BY <1>3, Requests, FS_CardinalityType DEF FInv, Sems, PermitsOK
<1>5. Holders(h) # {}
  BY <1>4, FS_EmptySet
<1> QED
  BY <1>1, <1>3, <1>5 DEF Holders

\* Unless jumps lead in a circle, the locks of nested calls and the permits of
\* channels never leave everybody waiting: some request can always go on.
THEOREM SomebodyAlwaysGoesOn == AcyclicJumps => (FileSpec => []SomebodyGoesOn)
<1> SUFFICES ASSUME AcyclicJumps PROVE FileSpec => []SomebodyGoesOn
  OBVIOUS
<1>1. FileInit => WaitsForAnother
  BY DEF FileInit, Init, WaitsForAnother
<1>2. FInv /\ PInv /\ WaitsForAnother /\ [FileNext]_fileVars => WaitsForAnother'
  BY FileNextIsPoolStep, PoolStepWaits DEF FInv
<1>3. FInv /\ PInv /\ WaitsForAnother => SomebodyGoesOn
  <2> SUFFICES ASSUME FInv, PInv, WaitsForAnother PROVE SomebodyGoesOn
    OBVIOUS
  <2>1. ASSUME NEW t \in Tasks, WaitsForLock(t)
        PROVE  pc[owner[at[t]]] \notin {"idle", "returned"}
    BY <2>1, HolderInCall DEF InCall
  <2>2. ASSUME NEW t \in Tasks, WaitsForPermit(t) PROVE permits[on[t]] = 0
    BY <2>2, SomePermitHeld
  <2>3. ASSUME NEW t \in Tasks, InCall(t), ~WaitsForLock(t)
        PROVE  page[t] # "none" /\ ~WaitsForPermit(t)
    BY <2>3 DEF InCall, WaitsForPermit, FInv, Reqs, Busy
  <2>4. ASSUME NEW t \in Tasks, HoldsPermit(t)
        PROVE  page[t] # "none" /\ ~WaitsForLock(t) /\ ~WaitsForPermit(t)
    BY <2>4 DEF HoldsPermit, WaitsForPermit, WaitsForLock, FInv, Reqs, Busy
  <2>5. ASSUME NEW t \in Tasks, WaitsForLock(t) \/ WaitsForPermit(t)
        PROVE  \E u \in Tasks : page[u] # "none" /\ ~WaitsForLock(u) /\ ~WaitsForPermit(u)
    <3>1. CASE WaitsForLock(t)
      BY <2>3, <3>1, SomeHolderRuns
    <3>2. CASE WaitsForPermit(t)
      BY <2>4, <3>2, SomePermitHeld
    <3> QED
      BY <2>5, <3>1, <3>2
  <2> QED
    BY <2>1, <2>2, <2>5 DEF SomebodyGoesOn
<1> QED
  BY <1>1, <1>2, <1>3, PInvUnderRequests, PTL DEF FileSpec

-----------------------------------------------------------------------------
(* The statuses of the page's own tree and home. *)

ReturnedSaysSo == \A t \in Tasks : pc[t] = "returned" => result[t] # "none"

LEMMA PoolStepSaysSo == TInv /\ ReturnedSaysSo /\ PoolStep => ReturnedSaysSo'
<1> SUFFICES ASSUME TInv, ReturnedSaysSo, PoolStep PROVE ReturnedSaysSo'
  OBVIOUS
<1>1. ASSUME NEW t \in Tasks, Step(t) PROVE ReturnedSaysSo'
  <2>1. \/ pc'[t] # "returned"
        \/ \E r \in Results \ {"none"} : Done(t, r)
    BY <1>1 DEF Step, Acquire, Wake, Locked, Cached, FastFail, Start, HandshakeEnds,
       Connected, Denied, KeyUnknown, Unreachable, Return, Raise, Handshake,
       Results, TInv, TypeOK
  <2>2. pc'[t] = "returned" => result'[t] # "none"
    BY <2>1 DEF Done, TInv, TypeOK
  <2>3. \A u \in Tasks \ {t} : pc'[u] = pc[u] /\ result'[u] = result[u]
    BY <1>1, TaskStepOthers
  <2> QED
    BY <2>2, <2>3 DEF ReturnedSaysSo
<1>2. ASSUME NEW t \in Tasks, HandlerMove(t) PROVE ReturnedSaysSo'
  <2>1. /\ pc'[t] # "returned"
        /\ \A u \in Tasks \ {t} : pc'[u] = pc[u] /\ result'[u] = result[u]
    BY <1>2 DEF HandlerMove, TInv, TypeOK
  <2> QED
    BY <2>1 DEF ReturnedSaysSo
<1>3. ASSUME EnvStep \/ UNCHANGED vars PROVE ReturnedSaysSo'
  BY <1>3 DEF EnvStep, SetPassword, ClearPassword, TrustHostKey, Lost, vars, frames,
     ReturnedSaysSo
<1> QED
  BY <1>1, <1>2, <1>3 DEF PoolStep

LEMMA StatusInTaxonomy ==
    ASSUME NEW e \in {"tree", "home"}, NEW r \in (Results \ {"connection", "none"}) \cup {"sftp"}
    PROVE  Status(e, r) # 500
BY DEF Status, Results

Taxonomic(t) == page[t] \in {"tree", "home"} /\ page'[t] = "none" => reply'[t] # 500

LEMMA FailsInTaxonomy ==
    ASSUME Reqs, NEW t \in Tasks, NEW r \in (Results \ {"connection", "none"}) \cup {"sftp"},
           Fails(t, r)
    PROVE  Taxonomic(t)
<1>1. CASE Operation(t, "look")
  BY <1>1 DEF Operation, Taxonomic
<1>2. CASE Answered(t, IF stage[t] = "resolve" THEN 419 ELSE Status(page[t], r))
  <2>1. reply'[t] \in {200, 419, Status(page[t], r)}
    BY <1>2 DEF Answered, Reqs, PageTypes
  <2> QED
    BY <2>1, StatusInTaxonomy DEF Taxonomic
<1> QED
  BY <1>1, <1>2 DEF Fails

LEMMA SucceedsInTaxonomy ==
    ASSUME Reqs, NEW t \in Tasks, Succeeds(t)
    PROVE  Taxonomic(t)
<1>1. ASSUME NEW s, Operation(t, s) PROVE Taxonomic(t)
  BY <1>1 DEF Operation, Taxonomic
<1>2. ASSUME NEW status \in {200, 413}, Answered(t, status) PROVE Taxonomic(t)
  BY <1>2 DEF Answered, Reqs, PageTypes, Taxonomic
<1> QED
  BY <1>1, <1>2 DEF Succeeds

\* Whatever happens to the connection, the password or the key between the
\* operations of a request, the page's tree and home are never answered with an
\* internal error.
THEOREM TreeStaysInTaxonomy == FileSpec => TreeAnswersInTaxonomy
<1>1. FileInit => ReturnedSaysSo
  BY DEF FileInit, Init, ReturnedSaysSo
<1>2. FInv /\ ReturnedSaysSo /\ [FileNext]_fileVars => ReturnedSaysSo'
  BY FileNextIsPoolStep, PoolStepSaysSo DEF FInv
<1>3. FInv /\ ReturnedSaysSo /\ [FileNext]_fileVars => \A t \in Tasks : Taxonomic(t)
  <2> SUFFICES ASSUME FInv, ReturnedSaysSo, [FileNext]_fileVars, NEW t \in Tasks
               PROVE  Taxonomic(t)
    OBVIOUS
  <2>1. CASE page' = page
    BY <2>1 DEF Taxonomic
  <2>2. ASSUME NEW w \in Wanted, NEW u \in Tasks, Request(u, w[1], w[2]) PROVE Taxonomic(t)
    <3>1. page'[u] # "none" /\ (t # u => page'[t] = page[t])
      BY <2>2, Requests DEF Request, FInv, Reqs, PageTypes
    <3> QED
      BY <3>1 DEF Taxonomic
  <2>3. ASSUME NEW u \in Tasks, Raised(u) \/ ChannelEnds(u) PROVE Taxonomic(t)
    <3>1. CASE u = t
      <4>1. CASE Raised(t)
        <5>1. result[t] \in Results \ {"connection", "none"}
          BY <4>1 DEF Raised, ReturnedSaysSo, FInv, TInv, TypeOK
        <5> QED
          BY <4>1, <5>1, FailsInTaxonomy DEF Raised, FInv
      <4>2. CASE ChannelEnds(t)
        BY <4>2, FailsInTaxonomy, SucceedsInTaxonomy DEF ChannelEnds, FInv
      <4> QED
        BY <2>3, <3>1, <4>1, <4>2
    <3>2. CASE u # t
      <4>1. GoesOn(u)
        BY <2>3, FailsGoesOn, SucceedsGoesOn DEF Raised, ChannelEnds
      <4>2. page'[t] = page[t]
        BY <3>2, <4>1 DEF GoesOn, Operation, Answered, FInv, Reqs, PageTypes
      <4> QED
        BY <4>2 DEF Taxonomic
    <3> QED
      BY <3>1, <3>2
  <2>4. \/ page' = page
        \/ \E u \in Tasks : \/ \E w \in Wanted : Request(u, w[1], w[2])
                           \/ Raised(u) \/ ChannelEnds(u)
    BY DEF FileNext, FileStep, Take, Admitted, fileVars, requests
  <2> QED
    BY <2>1, <2>2, <2>3, <2>4
<1>4. FInv /\ ReturnedSaysSo /\ [FileNext]_fileVars =>
        [\A t \in Tasks : page[t] \in {"tree", "home"} /\ page'[t] = "none"
                           => reply'[t] # 500]_fileVars
  BY <1>3 DEF Taxonomic
<1> QED
  BY <1>1, <1>2, <1>4, FInvInvariant, PTL DEF FileSpec, TreeAnswersInTaxonomy
=============================================================================
