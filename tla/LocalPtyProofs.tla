--------------------------- MODULE LocalPtyProofs ---------------------------
(***************************************************************************)
(* What holds of LocalPty for any number of consoles and any limits.       *)
(*                                                                         *)
(* The inductive invariant follows a session through close(): how far it   *)
(* has come says what may be left of the shell, and a session that is not  *)
(* registered has nothing left.  So the cap on registrations is one on     *)
(* shells, and an empty registry means that nothing runs.                  *)
(* The watchdog of an auto-exit outlasts the shutdown, as every second the *)
(* closing sleeps is a try of one of the sessions left.                    *)
(***************************************************************************)
EXTENDS LocalPty, FiniteSetTheorems, TLAPS

NothingLeft(s) == leader[s] \in {"none", "reaped"} /\ s \notin group /\ s \notin master

\* Before Open there is no process, and afterwards there has been one.
Started(s) ==
    /\ handler[s] = "new" => leader[s] = "none"
    /\ leader[s] = "none" => handler[s] \in {"new", "ended"} /\ closing[s] = "no"
    /\ s \in group => leader[s] \in {"shell", "zombie", "reaped"}

\* How far close() has come.
Closed(s) ==
    /\ closing[s] = "term" => tries[s] \in 1..TermTries
    /\ closing[s] = "wait" => tries[s] \in 1..WaitTries
    /\ closing[s] \in {"reader", "done"} => leader[s] = "reaped" /\ NothingLeft(s)
    /\ s \notin sessions => NothingLeft(s)

Registry ==
    /\ IsFiniteSet(sessions) /\ Cardinality(sessions) <= MaxSessions
    /\ server = "down" => sessions = {}

PtyInv == TypeOK /\ (\A s \in Sessions : Started(s) /\ Closed(s)) /\ Registry

-----------------------------------------------------------------------------
(* What a step of close() does. *)

\* The shell is reaped, its group killed and the descriptor closed: close() waits
\* for the reader or returns, and then the handler may end too.
Ends(s) ==
    /\ leader' = [leader EXCEPT ![s] = "reaped"]
    /\ group' = group \ {s} /\ master' = master \ {s}
    /\ tries' = [tries EXCEPT ![s] = 0] /\ slept' = slept \ {s}
    /\ \/ closing' = [closing EXCEPT ![s] = "reader"] /\ UNCHANGED <<handler, sessions>>
       \/ /\ closing' = [closing EXCEPT ![s] = "done"]
          /\ handler[s] # "leaving" /\ UNCHANGED <<handler, sessions>>
       \/ /\ closing' = [closing EXCEPT ![s] = "done"]
          /\ handler[s] = "leaving"
          /\ handler' = [handler EXCEPT ![s] = "ended"] /\ sessions' = sessions \ {s}

\* Another round of a loop, with what has become of the child.
GoesOn(s, l, where, n) ==
    /\ leader' = [leader EXCEPT ![s] = l]
    /\ closing' = [closing EXCEPT ![s] = where] /\ tries' = [tries EXCEPT ![s] = n]
    /\ slept' = slept \ {s}
    /\ UNCHANGED <<group, master, handler, sessions>>

\* What SIGTERM may make of a child.
AfterTerm(s) == {leader[s]} \cup (IF leader[s] = "shell" THEN {"zombie"} ELSE {})

LEMMA CloseMasterEnds ==
    ASSUME NEW s, leader' = [leader EXCEPT ![s] = "reaped"], group' = group \ {s},
           CloseMaster(s)
    PROVE  Ends(s)
BY DEF CloseMaster, CloseReturns, Goto, Ends

LEMMA KillAndReapDoes ==
    ASSUME NEW s, NEW l, KillAndReap(s, l)
    PROVE  Ends(s) \/ (l = "forked" /\ GoesOn(s, l, "blocked", 0))
<1>1. CASE l = "forked"
  BY <1>1 DEF KillAndReap, GoesOn, Goto
<1>2. CASE l # "forked"
  BY <1>2, CloseMasterEnds DEF KillAndReap
<1> QED
  BY <1>1, <1>2

LEMMA LookForChildDoes ==
    ASSUME NEW s, NEW l, NEW n, LookForChild(s, l, n)
    PROVE  \/ l \in {"zombie", "reaped"} /\ Ends(s)
           \/ l \notin {"zombie", "reaped"} /\ GoesOn(s, l, "wait", n)
<1>1. CASE l \in {"zombie", "reaped"}
  BY <1>1, KillAndReapDoes DEF LookForChild
<1>2. CASE l \notin {"zombie", "reaped"}
  BY <1>2 DEF LookForChild, GoesOn, Goto
<1> QED
  BY <1>1, <1>2

LEMMA SignalGroupDoes ==
    ASSUME TypeOK, NEW s \in Sessions, NEW n, SignalGroup(s, n)
    PROVE  /\ UNCHANGED daemon \/ Interrupted
           /\ \/ Ends(s) /\ UNCHANGED daemon
              \/ n # TermTries /\ ~GroupExists(s) /\ GoesOn(s, leader[s], "term", n + 1)
              \/ /\ GroupExists(s) \/ n = TermTries
                 /\ \E l \in AfterTerm(s) : GoesOn(s, l, "wait", 1)
<1>1. CASE GroupExists(s) \/ n = TermTries
  <2>1. SendTerm(s)
    BY <1>1 DEF SignalGroup
  <2>2. PICK l \in AfterTerm(s) : LookForChild(s, l, 1)
    BY <2>1 DEF SendTerm, AfterTerm
  <2>3. Ends(s) /\ l \in {"zombie", "reaped"} => UNCHANGED daemon
    BY <2>1 DEF SendTerm, AfterTerm
  <2> QED
    BY <1>1, <2>1, <2>2, <2>3, LookForChildDoes DEF SendTerm
<1>2. CASE ~(GroupExists(s) \/ n = TermTries)
  <2>1. UNCHANGED <<daemon, leader, group>> /\ s \notin group
    BY <1>2 DEF SignalGroup, GroupExists
  <2>2. leader = [leader EXCEPT ![s] = leader[s]]
    BY DEF TypeOK
  <2>3. CASE leader[s] = "reaped"
    <3>1. group' = group \ {s} /\ CloseMaster(s)
      BY <1>2, <2>1, <2>3 DEF SignalGroup
    <3> QED
      BY <2>1, <2>2, <2>3, <3>1, CloseMasterEnds
  <2>4. CASE leader[s] # "reaped"
    BY <1>2, <2>1, <2>2, <2>4 DEF SignalGroup, GoesOn, Goto
  <2> QED
    BY <2>1, <2>3, <2>4
<1> QED
  BY <1>1, <1>2

-----------------------------------------------------------------------------
(* The invariant. *)

\* A step about session s leaves the others alone.
LEMMA OthersKeep ==
    ASSUME NEW s \in Sessions, NEW u \in Sessions, u # s, Started(u), Closed(u),
           leader'[u] = leader[u], handler'[u] = handler[u], closing'[u] = closing[u],
           tries'[u] = tries[u], u \in group' <=> u \in group,
           u \in master' <=> u \in master, u \in sessions' <=> u \in sessions
    PROVE  Started(u)' /\ Closed(u)'
BY DEF Started, Closed, NothingLeft

LEMMA FewerSessions ==
    ASSUME Registry, NEW S, S \subseteq sessions
    PROVE  IsFiniteSet(S) /\ Cardinality(S) <= MaxSessions
<1>1. IsFiniteSet(S) /\ Cardinality(S) <= Cardinality(sessions)
  BY FS_Subset DEF Registry
<1>2. Cardinality(S) \in Nat /\ Cardinality(sessions) \in Nat /\ MaxSessions \in Nat
  BY <1>1, FS_CardinalityType, Bounds DEF Registry
<1> QED
  BY <1>1, <1>2 DEF Registry

LEMMA EndsKeepsInv ==
    ASSUME PtyInv, NEW s \in Sessions, Ends(s), leader[s] # "none",
           UNCHANGED <<client, queued, reader, output>>,
           UNCHANGED daemon \/ Interrupted
    PROVE  PtyInv'
<1>1. TypeOK'
  BY Bounds DEF PtyInv, TypeOK, Sleeping, Ends, daemon, Interrupted
<1>2. ASSUME NEW u \in Sessions, u # s PROVE Started(u)' /\ Closed(u)'
  BY <1>2, OthersKeep DEF PtyInv, TypeOK, Ends
<1>3. /\ leader'[s] = "reaped" /\ s \notin group' /\ s \notin master'
      /\ closing'[s] \in {"reader", "done"} /\ handler'[s] \in {handler[s], "ended"}
  BY DEF PtyInv, TypeOK, Ends
<1>4. Started(s)' /\ Closed(s)'
  BY <1>3 DEF PtyInv, Started, Closed, NothingLeft
<1>5. Registry'
  <2>1. sessions' \subseteq sessions
    BY DEF Ends
  <2> QED
    BY <2>1, FewerSessions DEF PtyInv, Registry, daemon, Interrupted
<1> QED
  BY <1>1, <1>2, <1>4, <1>5 DEF PtyInv

\* Unless it is a zombie already, the child may be any.
LEMMA GoesOnKeepsInv ==
    ASSUME PtyInv, NEW s \in Sessions, leader[s] # "none", NEW l \in AfterTerm(s),
           closing[s] \in {"no", "term", "wait"},
           NEW where, NEW n, GoesOn(s, l, where, n),
           \/ where = "term" /\ n \in 1..TermTries
           \/ where = "wait" /\ n \in 1..WaitTries
           \/ where = "blocked" /\ n = 0,
           UNCHANGED <<client, queued, reader, output>>,
           UNCHANGED daemon \/ Interrupted
    PROVE  PtyInv'
<1>0. TermTries \in Nat /\ WaitTries \in Nat /\ SignalPatience \in Nat
  BY Bounds
<1>1. l \in {"forked", "grouped", "shell", "zombie", "reaped"}
      /\ (l = leader[s] \/ (leader[s] = "shell" /\ l = "zombie"))
  BY DEF PtyInv, TypeOK, AfterTerm
<1>2. n \in 0..TermTries + WaitTries
  BY <1>0
<1>3. TypeOK'
  BY <1>0, <1>1, <1>2 DEF PtyInv, TypeOK, Sleeping, GoesOn, daemon, Interrupted
<1>4. ASSUME NEW u \in Sessions, u # s PROVE Started(u)' /\ Closed(u)'
  BY <1>4, OthersKeep DEF PtyInv, TypeOK, GoesOn
<1>5. /\ leader'[s] = l /\ closing'[s] = where /\ tries'[s] = n
      /\ UNCHANGED <<group, master, handler, sessions>>
  BY DEF PtyInv, TypeOK, GoesOn
<1>6. Started(s)' /\ Closed(s)'
  BY <1>1, <1>5 DEF PtyInv, Started, Closed, NothingLeft
<1>7. Registry'
  BY <1>5 DEF PtyInv, Registry, daemon, Interrupted
<1> QED
  BY <1>3, <1>4, <1>6, <1>7 DEF PtyInv

LEMMA SignalKeepsInv ==
    ASSUME PtyInv, NEW s \in Sessions, leader[s] # "none",
           closing[s] \in {"no", "term"}, NEW n \in 0..TermTries, SignalGroup(s, n),
           UNCHANGED <<client, queued, reader, output>>
    PROVE  PtyInv'
<1>0. TermTries \in Nat \ {0} /\ WaitTries \in Nat \ {0}
  BY Bounds
<1>1. UNCHANGED daemon \/ Interrupted
  BY SignalGroupDoes DEF PtyInv
<1>2. CASE Ends(s)
  BY <1>1, <1>2, EndsKeepsInv
<1>3. CASE n # TermTries /\ GoesOn(s, leader[s], "term", n + 1)
  <2>1. n + 1 \in 1..TermTries /\ leader[s] \in AfterTerm(s)
    BY <1>0, <1>3 DEF AfterTerm
  <2> QED
    BY <1>1, <1>3, <2>1, GoesOnKeepsInv
<1>4. ASSUME NEW l \in AfterTerm(s), GoesOn(s, l, "wait", 1) PROVE PtyInv'
  <2>1. 1 \in 1..WaitTries
    BY <1>0
  <2> QED
    BY <1>1, <1>4, <2>1, GoesOnKeepsInv
<1> QED
  BY <1>2, <1>3, <1>4, SignalGroupDoes DEF PtyInv

LEMMA CloseKeepsInv ==
    ASSUME PtyInv, NEW s \in Sessions, CloseSession(s) \/ CloseNext(s)
    PROVE  PtyInv'
<1>1. Close(s) /\ leader[s] # "none"
  BY DEF CloseSession, CloseNext, PtyInv, TypeOK, Started
<1>2. 0 \in 0..TermTries
  BY Bounds
<1> QED
  BY <1>1, <1>2, SignalKeepsInv DEF Close, relay

LEMMA TermAgainKeepsInv ==
    ASSUME PtyInv, NEW s \in Sessions, TermAgain(s)
    PROVE  PtyInv'
<1>1. closing[s] = "term" /\ leader[s] # "none" /\ tries[s] \in 0..TermTries
  BY Bounds DEF TermAgain, PtyInv, Started, Closed
<1> QED
  BY <1>1, SignalKeepsInv DEF TermAgain, relay

LEMMA WaitAgainKeepsInv ==
    ASSUME PtyInv, NEW s \in Sessions, WaitAgain(s)
    PROVE  PtyInv'
<1>1. /\ closing[s] = "wait" /\ leader[s] # "none" /\ tries[s] \in 1..WaitTries
      /\ leader[s] \in AfterTerm(s) /\ UNCHANGED <<daemon, client, queued, reader, output>>
  BY DEF WaitAgain, PtyInv, Started, Closed, AfterTerm, relay
<1>2. CASE Ends(s)
  BY <1>1, <1>2, EndsKeepsInv
<1>3. CASE GoesOn(s, leader[s], "blocked", 0)
  BY <1>1, <1>3, GoesOnKeepsInv
<1>4. CASE tries[s] # WaitTries /\ GoesOn(s, leader[s], "wait", tries[s] + 1)
  <2>1. tries[s] + 1 \in 1..WaitTries
    BY <1>1, <1>4, Bounds
  <2> QED
    BY <1>1, <1>4, <2>1, GoesOnKeepsInv
<1> QED
  BY <1>2, <1>3, <1>4, KillAndReapDoes, LookForChildDoes DEF WaitAgain

LEMMA ReaderCancelledKeepsInv ==
    ASSUME PtyInv, NEW s \in Sessions, ReaderCancelled(s)
    PROVE  PtyInv'
<1>1. /\ closing[s] = "reader" /\ UNCHANGED <<daemon, client, kernel, queued, output>>
      /\ closing' = [closing EXCEPT ![s] = "done"] /\ tries' = [tries EXCEPT ![s] = 0]
      /\ slept' = slept \ {s}
      /\ reader' = [reader EXCEPT ![s] = "ended"]
      /\ \/ UNCHANGED <<handler, sessions>>
         \/ handler' = [handler EXCEPT ![s] = "ended"] /\ sessions' = sessions \ {s}
  BY DEF ReaderCancelled, CloseReturns, Goto
<1>2. TypeOK'
  BY <1>1, Bounds DEF PtyInv, TypeOK, Sleeping, kernel, daemon
<1>3. ASSUME NEW u \in Sessions, u # s PROVE Started(u)' /\ Closed(u)'
  BY <1>1, <1>3, OthersKeep DEF PtyInv, TypeOK, kernel
<1>4. Started(s)' /\ Closed(s)'
  BY <1>1 DEF PtyInv, TypeOK, Started, Closed, NothingLeft, kernel
<1>5. Registry'
  BY <1>1, FewerSessions DEF PtyInv, Registry, daemon
<1> QED
  BY <1>2, <1>3, <1>4, <1>5 DEF PtyInv

LEMMA ProcessStepKeepsInv ==
    ASSUME PtyInv, NEW s \in Sessions, ProcessStep(s)
    PROVE  PtyInv'
<1>1. /\ UNCHANGED <<daemon, client, handler, sessions, master, queued, reader, output,
                     killer>>
      /\ \/ /\ leader[s] = "forked" /\ group' = group
            /\ leader' = [leader EXCEPT ![s] = "grouped"]
         \/ /\ leader[s] = "grouped" /\ group' = group
            /\ leader' = [leader EXCEPT ![s] = "shell"]
         \/ leader[s] = "shell" /\ group' = group \cup {s} /\ leader' = leader
         \/ /\ leader[s] = "shell" /\ group' = group
            /\ leader' = [leader EXCEPT ![s] = "zombie"]
         \/ group' = group \ {s} /\ leader' = leader
  BY DEF ProcessStep, Setsid, Exec, Spawns, ShellExits, OthersExit, ws, relay
<1>2. TypeOK'
  BY <1>1 DEF PtyInv, TypeOK, Sleeping, daemon, killer
<1>3. ASSUME NEW u \in Sessions, u # s PROVE Started(u)' /\ Closed(u)'
  BY <1>1, <1>3, OthersKeep DEF PtyInv, TypeOK, killer
<1>4. Started(s)' /\ Closed(s)'
  BY <1>1 DEF PtyInv, TypeOK, Started, Closed, NothingLeft, killer
<1>5. Registry'
  BY <1>1 DEF PtyInv, Registry, daemon
<1> QED
  BY <1>2, <1>3, <1>4, <1>5 DEF PtyInv

LEMMA RelayStepKeepsInv ==
    ASSUME PtyInv, NEW s \in Sessions, RelayStep(s)
    PROVE  PtyInv'
<1>1. /\ UNCHANGED <<daemon, client, handler, sessions, group, master, killer>>
      /\ \/ leader' = leader
         \/ /\ closing[s] # "no"
            /\ leader' = [leader EXCEPT ![s] = IF @ = "zombie" THEN "reaped" ELSE @]
  BY DEF RelayStep, ReadData, ReadFails, Forward, ForwardExit, ws, kernel
<1>2. queued' \subseteq Sessions
  BY DEF RelayStep, ReadData, ReadFails, Forward, ForwardExit, PtyInv, TypeOK
<1>3. reader' \in [Sessions -> {"none", "reading", "ended"}]
  BY DEF RelayStep, ReadData, ReadFails, Forward, ForwardExit, PtyInv, TypeOK
<1>4. output' \in [Sessions -> {"none", "forwarding", "exited", "failed", "cancelled"}]
  BY DEF RelayStep, ReadData, ReadFails, Forward, ForwardExit, PtyInv, TypeOK
<1>5. TypeOK'
  BY <1>1, <1>2, <1>3, <1>4 DEF PtyInv, TypeOK, Sleeping, daemon, killer
<1>6. ASSUME NEW u \in Sessions, u # s PROVE Started(u)' /\ Closed(u)'
  BY <1>1, <1>6, OthersKeep DEF PtyInv, TypeOK, killer
<1>7. Started(s)' /\ Closed(s)'
  BY <1>1 DEF PtyInv, TypeOK, Started, Closed, NothingLeft, killer
<1>8. Registry'
  BY <1>1 DEF PtyInv, Registry, daemon
<1> QED
  BY <1>5, <1>6, <1>7, <1>8 DEF PtyInv

\* A slot is only taken while there is one.
LEMMA OpenKeepsInv ==
    ASSUME PtyInv, NEW s \in Sessions, Open(s)
    PROVE  PtyInv'
<1>1. /\ server = "up" /\ handler[s] = "new" /\ Cardinality(sessions) < MaxSessions
      /\ UNCHANGED <<daemon, client, group, queued, output, killer>>
      /\ sessions' = sessions \cup {s} /\ master' = master \cup {s}
      /\ handler' = [handler EXCEPT ![s] = "starting"]
      /\ leader' = [leader EXCEPT ![s] = "forked"]
      /\ reader' = [reader EXCEPT ![s] = "reading"]
  BY DEF Open
<1>2. TypeOK'
  BY <1>1 DEF PtyInv, TypeOK, Sleeping, daemon, killer
<1>3. ASSUME NEW u \in Sessions, u # s PROVE Started(u)' /\ Closed(u)'
  BY <1>1, <1>3, OthersKeep DEF PtyInv, TypeOK, killer
<1>4. Started(s)' /\ Closed(s)'
  BY <1>1 DEF PtyInv, TypeOK, Started, Closed, killer
<1>5. Registry'
  <2>0. IsFiniteSet(sessions) /\ Cardinality(sessions) \in Nat
    BY FS_CardinalityType DEF PtyInv, Registry
  <2>1. IsFiniteSet(sessions') /\ Cardinality(sessions') <= Cardinality(sessions) + 1
    <3>1. /\ IsFiniteSet(sessions \cup {s})
          /\ Cardinality(sessions \cup {s}) =
               IF s \in sessions THEN Cardinality(sessions) ELSE Cardinality(sessions) + 1
      BY <2>0, FS_AddElement
    <3> QED
      BY <1>1, <2>0, <3>1
  <2>2. Cardinality(sessions') \in Nat /\ MaxSessions \in Nat
    BY <2>1, FS_CardinalityType, Bounds
  <2> QED
    BY <1>1, <2>0, <2>1, <2>2 DEF Registry, daemon
<1> QED
  BY <1>2, <1>3, <1>4, <1>5 DEF PtyInv

LEMMA HandlerStepKeepsInv ==
    ASSUME PtyInv, NEW s \in Sessions,
           Refused(s) \/ Ready(s) \/ LeftByClient(s) \/ HandlerFails(s) \/ ClientLeaves(s)
    PROVE  PtyInv'
<1>1. UNCHANGED <<daemon, sessions, kernel, reader, queued, killer>>
  BY DEF Refused, Ready, LeftByClient, HandlerFails, Leave, ClientLeaves, relay
<1>2. \/ UNCHANGED handler
      \/ handler[s] = "new" /\ handler' = [handler EXCEPT ![s] = "ended"]
      \/ /\ handler[s] \in {"starting", "serving"}
         /\ \E v \in {"serving", "leaving", "ended"} : handler' = [handler EXCEPT ![s] = v]
  BY DEF Refused, Ready, LeftByClient, HandlerFails, Leave, ClientLeaves
<1>3. client' \subseteq Sessions
      /\ output' \in [Sessions -> {"none", "forwarding", "exited", "failed", "cancelled"}]
  BY DEF Refused, Ready, LeftByClient, HandlerFails, Leave, ClientLeaves, relay, PtyInv, TypeOK
<1>4. TypeOK'
  BY <1>1, <1>2, <1>3 DEF PtyInv, TypeOK, Sleeping, daemon, kernel, killer
<1>5. ASSUME NEW u \in Sessions PROVE Started(u)' /\ Closed(u)'
  BY <1>1, <1>2 DEF PtyInv, TypeOK, Started, Closed, NothingLeft, kernel, killer
<1>6. Registry'
  BY <1>1 DEF PtyInv, Registry, daemon
<1> QED
  BY <1>4, <1>5, <1>6 DEF PtyInv

LEMMA ServerStepKeepsInv ==
    ASSUME PtyInv, Interrupt \/ AutoExit \/ CloseAll \/ Clear \/ Tick \/ ForceExit
    PROVE  PtyInv'
<1>1. CASE Interrupt \/ AutoExit \/ CloseAll
  <2>1. /\ server' \in {"stopping", "closing"} \/ (server' = server /\ server # "up")
        /\ cause' \in {"auto-exit", "signal"} \/ (cause' = cause /\ server # "up")
        /\ patience' \in {patience, SignalPatience, ExitPatience}
        /\ UNCHANGED <<ws, kernel, relay, killer>>
    BY <1>1 DEF Interrupt, Interrupted, AutoExit, CloseAll
  <2>2. TypeOK'
    BY <2>1, Bounds DEF PtyInv, TypeOK, Sleeping, ws, kernel, relay, killer
  <2>3. \A s \in Sessions : Started(s)' /\ Closed(s)'
    BY <2>1 DEF PtyInv, Started, Closed, NothingLeft, ws, kernel, killer
  <2> QED
    BY <2>1, <2>2, <2>3 DEF PtyInv, Registry, ws
<1>2. CASE Clear
  <2>1. /\ server = "closing" /\ \A s \in sessions : closing[s] = "done"
        /\ sessions' = {} /\ server' = "down"
        /\ UNCHANGED <<cause, patience, handler, client, kernel, relay, killer>>
    BY <1>2 DEF Clear
  <2>2. TypeOK'
    BY <2>1 DEF PtyInv, TypeOK, Sleeping, kernel, relay, killer
  <2>3. \A s \in Sessions : Started(s)' /\ Closed(s)'
    BY <2>1 DEF PtyInv, Started, Closed, NothingLeft, kernel, killer
  <2>4. Registry'
    BY <2>1, FewerSessions DEF PtyInv, Registry
  <2> QED
    BY <2>2, <2>3, <2>4 DEF PtyInv
<1>3. CASE Tick
  <2>1. /\ slept' = Sleeping /\ patience' \in Nat
        /\ UNCHANGED <<server, cause, ws, kernel, relay, closing, tries>>
    BY <1>3 DEF Tick, PtyInv, TypeOK
  <2>2. TypeOK'
    BY <2>1 DEF PtyInv, TypeOK, Sleeping, ws, kernel, relay
  <2>3. \A s \in Sessions : Started(s)' /\ Closed(s)'
    BY <2>1 DEF PtyInv, Started, Closed, NothingLeft, ws, kernel
  <2> QED
    BY <2>1, <2>2, <2>3 DEF PtyInv, Registry, ws
<1>4. CASE ForceExit
  <2>1. /\ server # "up" /\ server' = "killed" /\ master' = {}
        /\ \A s \in Sessions :
             leader'[s] = IF leader[s] = "zombie" THEN "reaped" ELSE leader[s]
        /\ UNCHANGED <<cause, patience, ws, group, relay, killer>>
    BY <1>4 DEF ForceExit
  <2>2. leader' \in [Sessions -> {"none", "forked", "grouped", "shell", "zombie", "reaped"}]
    BY <1>4 DEF ForceExit, PtyInv, TypeOK
  <2>3. TypeOK'
    BY <2>1, <2>2 DEF PtyInv, TypeOK, Sleeping, ws, relay, killer
  <2>4. \A s \in Sessions : Started(s)' /\ Closed(s)'
    BY <2>1 DEF PtyInv, TypeOK, Started, Closed, NothingLeft, ws, killer
  <2> QED
    BY <2>1, <2>3, <2>4 DEF PtyInv, Registry, ws
<1> QED
  BY <1>1, <1>2, <1>3, <1>4

LEMMA PtyInvInvariant == Spec => []PtyInv
<1>1. Init => PtyInv
  <2>1. IsFiniteSet({}) /\ Cardinality({}) <= MaxSessions
    BY FS_EmptySet, Bounds
  <2> QED
    BY <2>1, Bounds DEF Init, PtyInv, TypeOK, Started, Closed, NothingLeft, Registry
<1>2. PtyInv /\ [Next]_vars => PtyInv'
  <2>1. ASSUME PtyInv, Next PROVE PtyInv'
    BY <2>1, CloseKeepsInv, TermAgainKeepsInv, WaitAgainKeepsInv, ReaderCancelledKeepsInv,
       ProcessStepKeepsInv, RelayStepKeepsInv, OpenKeepsInv, HandlerStepKeepsInv,
       ServerStepKeepsInv
       DEF Next, HandlerStep, CloseStep, ServerStep
  <2>2. ASSUME PtyInv, UNCHANGED vars PROVE PtyInv'
    BY <2>2 DEF vars, daemon, ws, kernel, relay, killer, PtyInv, TypeOK, Sleeping, Started,
       Closed, NothingLeft, Registry
  <2> QED
    BY <2>1, <2>2
<1> QED
  BY <1>1, <1>2, PTL DEF Spec

-----------------------------------------------------------------------------
(* The properties. *)

\* The variables keep their types, and a registered session has a process,
\* through every interleaving of handlers, read loops, closings and signals.
THEOREM PtyTypeCorrect == Spec => []TypeOK
<1>1. PtyInv => TypeOK
  BY DEF PtyInv
<1> QED
  BY <1>1, PtyInvInvariant, PTL

\* When close() has returned nothing of the session is left: neither shell nor
\* what it started nor the descriptor, whoever reaped the shell first.
THEOREM ClosedSessionsAreGone == Spec => []ClosedLeavesNothing
<1>1. PtyInv => ClosedLeavesNothing
  BY DEF PtyInv, Closed, NothingLeft, ClosedLeavesNothing
<1> QED
  BY <1>1, PtyInvInvariant, PTL

\* A slot is given back only when its shell is gone, so that no more than
\* max_sessions shells live at a time, however many clients ask.
THEOREM ShellsAreCapped == Spec => []LiveShellsCapped
<1>1. ASSUME PtyInv PROVE LiveShellsCapped
  <2>1. {s \in Sessions : Alive(s) \/ s \in group} \subseteq sessions
    BY <1>1 DEF PtyInv, Closed, NothingLeft, Alive
  <2> QED
    BY <1>1, <2>1, FewerSessions DEF PtyInv, LiveShellsCapped
<1> QED
  BY <1>1, PtyInvInvariant, PTL

\* A shutdown that comes to its orderly end leaves no shell, no group and no
\* descriptor behind, those of sessions whose handlers forgot them included.
THEOREM ShutdownIsClean == Spec => []ShutdownLeavesNothing
<1>1. PtyInv => ShutdownLeavesNothing
  BY DEF PtyInv, Registry, Closed, NothingLeft, ShutdownLeavesNothing
<1> QED
  BY <1>1, PtyInvInvariant, PTL

\* A forked child calls setsid within the rounds in which close() looks for its
\* group: about a second in the code, 20 rounds with a sleep of 0.05 s between.
PromptFork == SetsidWithin <= TermTries

\* The child that close() waits for has a group, which SIGKILL reaches.
WaitsForGroup == \A s \in Sessions : closing[s] = "wait" => leader[s] # "forked"

\* If forked children are that prompt, the blocking waitpid is only ever reached
\* after a SIGKILL that the child got: the event loop is never stopped by it.
THEOREM LoopIsNeverBlocked == PromptFork => (Spec => []NeverBlocked)
<1> SUFFICES ASSUME PromptFork PROVE Spec => []NeverBlocked
  OBVIOUS
<1> DEFINE Inv == NeverBlocked /\ WaitsForGroup
<1>1. Init => Inv
  BY DEF Init, NeverBlocked, LoopRuns, WaitsForGroup
<1>2. PtyInv /\ Inv /\ [Next]_vars => Inv'
  <2> SUFFICES ASSUME PtyInv, Inv, [Next]_vars PROVE Inv'
    OBVIOUS
  <2>1. ASSUME NEW s \in Sessions, Ends(s) PROVE Inv'
    BY <2>1 DEF PtyInv, TypeOK, Ends, NeverBlocked, LoopRuns, WaitsForGroup
  <2>2. ASSUME NEW s \in Sessions, NEW l, NEW where \in {"term", "wait"}, NEW n,
               where = "wait" => l # "forked", GoesOn(s, l, where, n)
        PROVE  Inv'
    BY <2>2 DEF PtyInv, TypeOK, GoesOn, NeverBlocked, LoopRuns, WaitsForGroup
  <2>3. ASSUME NEW s \in Sessions, NEW n, SignalGroup(s, n),
               leader[s] = "forked" => n # TermTries
        PROVE  Inv'
    <3>1. GroupExists(s) \/ n = TermTries => leader[s] # "forked"
      BY <2>3 DEF GroupExists, PtyInv, Started
    <3>2. leader[s] # "forked" => \A l \in AfterTerm(s) : l # "forked"
      BY DEF AfterTerm
    <3>3. CASE Ends(s)
      BY <2>1, <3>3
    <3>4. CASE GoesOn(s, leader[s], "term", n + 1)
      BY <2>2, <3>4
    <3>5. ASSUME GroupExists(s) \/ n = TermTries, NEW l \in AfterTerm(s),
                 GoesOn(s, l, "wait", 1)
          PROVE  Inv'
      BY <2>2, <3>1, <3>2, <3>5
    <3> QED
      BY <2>3, <3>3, <3>4, <3>5, SignalGroupDoes DEF PtyInv
  <2>4. ASSUME NEW s \in Sessions, CloseSession(s) \/ CloseNext(s) PROVE Inv'
    <3>1. SignalGroup(s, 0) /\ 0 # TermTries
      BY <2>4, Bounds DEF CloseSession, CloseNext, Close
    <3> QED
      BY <2>3, <3>1
  <2>5. ASSUME NEW s \in Sessions, TermAgain(s) PROVE Inv'
    <3>1. leader[s] = "forked" => tries[s] # TermTries
      BY <2>5, Bounds DEF TermAgain, PromptFork, PtyInv, Closed
    <3> QED
      BY <2>3, <2>5, <3>1 DEF TermAgain
  <2>6. ASSUME NEW s \in Sessions, WaitAgain(s) PROVE Inv'
    <3>1. leader[s] # "forked"
      BY <2>6 DEF WaitAgain, WaitsForGroup
    <3>2. Ends(s) \/ GoesOn(s, leader[s], "wait", tries[s] + 1)
      BY <2>6, <3>1, KillAndReapDoes, LookForChildDoes DEF WaitAgain
    <3> QED
      BY <2>1, <2>2, <3>1, <3>2
  <2>7. ASSUME NEW s \in Sessions, ReaderCancelled(s) PROVE Inv'
    BY <2>7 DEF ReaderCancelled, CloseReturns, Goto, kernel, PtyInv, TypeOK, NeverBlocked,
       LoopRuns, WaitsForGroup
  <2>8. ASSUME NEW s \in Sessions, ProcessStep(s) \/ RelayStep(s) PROVE Inv'
    BY <2>8 DEF ProcessStep, Setsid, Exec, Spawns, ShellExits, OthersExit, RelayStep, ReadData,
       ReadFails, Forward, ForwardExit, kernel, killer, PtyInv, TypeOK, NeverBlocked,
       LoopRuns, WaitsForGroup
  <2>9. ASSUME NEW s \in Sessions, Open(s) PROVE Inv'
    BY <2>9 DEF Open, killer, PtyInv, TypeOK, Started, NeverBlocked, LoopRuns, WaitsForGroup
  <2>10. CASE UNCHANGED <<leader, closing>>
    BY <2>10 DEF NeverBlocked, LoopRuns, WaitsForGroup
  <2>11. ASSUME NEW s \in Sessions,
                Refused(s) \/ Ready(s) \/ LeftByClient(s) \/ HandlerFails(s) \/ ClientLeaves(s)
         PROVE  Inv'
    BY <2>10, <2>11 DEF Refused, Ready, LeftByClient, HandlerFails, Leave, ClientLeaves,
       kernel, killer
  <2>12. CASE \/ Interrupt \/ AutoExit \/ CloseAll \/ Clear \/ Tick \/ UNCHANGED vars
    BY <2>10, <2>12 DEF Interrupt, AutoExit, CloseAll, Clear, Tick, vars, kernel, killer
  <2>13. CASE ForceExit
    BY <2>13 DEF ForceExit, killer, PtyInv, TypeOK, NeverBlocked, LoopRuns, WaitsForGroup
  <2> QED
    BY <2>4, <2>5, <2>6, <2>7, <2>8, <2>9, <2>11, <2>12, <2>13
       DEF Next, HandlerStep, CloseStep, ServerStep
<1>3. Inv => NeverBlocked
  OBVIOUS
<1> QED
  BY <1>1, <1>2, <1>3, PtyInvInvariant, PTL DEF Spec

-----------------------------------------------------------------------------
(* The watchdog of the auto-exit.  A close() takes no more sleeps than its *)
(* loops have rounds, those of the handlers are at once, and those of      *)
(* close_all one after the other: the patience that is left is always      *)
(* enough for the sessions that still wait for it.                         *)

Rounds == TermTries + WaitTries

\* Ten seconds in the code, for three consoles of forty sleeps of 0.05 s each.
EnoughPatience == ExitPatience > MaxSessions * Rounds

\* The sleeps that close() has behind it.
Behind(s) ==
    (IF closing[s] = "term" THEN 0 ELSE TermTries) + tries[s] - (IF s \in slept THEN 0 ELSE 1)

\* Until close_all, a session is registered, and is closed by its handler only.
Serving(s) ==
    /\ handler[s] \in {"starting", "serving", "leaving"} => s \in sessions
    /\ closing[s] \in {"term", "wait", "reader"} => handler[s] = "leaving"
    /\ closing[s] = "done" => s \notin sessions

Idle(s) == closing[s] \in {"no", "done"}

Forgotten == {s \in sessions : handler[s] = "ended"}

Left == {s \in sessions : closing[s] # "done"}

\* The handlers end, and leave enough for the sessions that they forget.
HandlersEnd ==
    \/ patience = ExitPatience
    \/ /\ patience > Rounds * Cardinality(Forgotten)
       /\ \A s \in Sleeping : patience + Behind(s) > Rounds * (Cardinality(Forgotten) + 1)
       /\ \A s \in Sessions : /\ handler[s] \notin {"starting", "serving"}
                              /\ handler[s] = "leaving" => closing[s] # "no"

\* close_all has one session at a time, and enough for the others.
OneByOne ==
    /\ \A s \in Sessions : handler[s] \in {"new", "ended"}
    /\ \A s \in Sessions :
         ~Idle(s) => s \in sessions /\ \A u \in Sessions : u = s \/ Idle(u)
    /\ (\A s \in Sessions : Idle(s)) => patience > Rounds * Cardinality(Left)
    /\ \A s \in Sleeping : patience + Behind(s) > Rounds * Cardinality(Left)
    /\ \A s \in Sessions :
         closing[s] = "reader" => patience + Rounds > Rounds * Cardinality(Left)

ServingInv == server \in {"up", "stopping"} => \A s \in Sessions : Serving(s)

PatienceInv ==
    /\ server = "stopping" /\ cause = "auto-exit" => HandlersEnd
    /\ server = "closing" /\ cause = "auto-exit" => OneByOne

LEMMA Products ==
    ASSUME NEW a \in Nat, NEW b \in Nat, a <= b
    PROVE  /\ Rounds \in Nat /\ Rounds * a \in Nat /\ Rounds * b \in Nat
           /\ Rounds * a <= Rounds * b
           /\ Rounds * (a + 1) = Rounds * a + Rounds /\ Rounds * (a + 1) \in Nat
<1>1. Rounds \in Nat
  BY Bounds DEF Rounds
<1>2. PICK d \in Nat : b = a + d
  <2>1. b - a \in Nat /\ b = a + (b - a)
    OBVIOUS
  <2> QED
    BY <2>1
<1>3. Rounds * a \in Nat /\ Rounds * d \in Nat
  BY <1>1
<1>4. Rounds * b = Rounds * a + Rounds * d
  BY <1>1, <1>2
<1>5. Rounds * (a + 1) = Rounds * a + Rounds
  BY <1>1
<1> QED
  BY <1>1, <1>3, <1>4, <1>5

\* How many sessions there may be of those that are counted.
LEMMA Counts ==
    ASSUME PtyInv, NEW S, S \subseteq sessions
    PROVE  /\ IsFiniteSet(S) /\ Cardinality(S) \in Nat /\ MaxSessions \in Nat
           /\ Cardinality(S) <= MaxSessions
           /\ \A s \in sessions \ S : Cardinality(S) + 1 <= MaxSessions
           /\ \A s \in S : Cardinality(S \ {s}) \in Nat
                           /\ Cardinality(S) = Cardinality(S \ {s}) + 1
<1>1. IsFiniteSet(S) /\ Cardinality(S) <= MaxSessions /\ Cardinality(S) \in Nat
      /\ MaxSessions \in Nat
  BY FewerSessions, FS_CardinalityType, Bounds DEF PtyInv
<1>2. ASSUME NEW s \in sessions \ S PROVE Cardinality(S) + 1 <= MaxSessions
  <2>1. Cardinality(S \cup {s}) = Cardinality(S) + 1
    BY <1>1, <1>2, FS_AddElement
  <2>2. S \cup {s} \subseteq sessions
    BY <1>2
  <2> QED
    BY <2>1, <2>2, FewerSessions DEF PtyInv
<1>3. ASSUME NEW s \in S
      PROVE  Cardinality(S \ {s}) \in Nat /\ Cardinality(S) = Cardinality(S \ {s}) + 1
  <2>1. IsFiniteSet(S \ {s}) /\ Cardinality(S \ {s}) = Cardinality(S) - 1
    BY <1>1, <1>3, FS_RemoveElement
  <2>2. Cardinality(S \ {s}) \in Nat
    BY <2>1, FS_CardinalityType
  <2> QED
    BY <1>1, <2>1, <2>2
<1> QED
  BY <1>1, <1>2, <1>3

\* No close() sleeps more often than there are rounds.
LEMMA BehindIsBounded ==
    ASSUME PtyInv, NEW s \in Sleeping
    PROVE  /\ Behind(s) \in Nat /\ Behind(s) <= Rounds
           /\ s \notin slept => Behind(s) + 1 <= Rounds
<1>1. /\ TermTries \in Nat /\ WaitTries \in Nat
      /\ \/ closing[s] = "term" /\ tries[s] \in 1..TermTries
         \/ closing[s] = "wait" /\ tries[s] \in 1..WaitTries
  BY Bounds DEF PtyInv, Closed, Sleeping
<1> QED
  BY <1>1 DEF Behind, Rounds


\* A step of close() in one of the two loops, or its first: what it does to the
\* session, and how many sleeps are behind it afterwards.
ClosingStep(s) ==
    \/ Ends(s)
    \/ \E l, where, n :
         /\ GoesOn(s, l, where, n) /\ where \in {"term", "wait"} /\ n \in Nat \ {0}
         /\ closing[s] \in {"term", "wait"} =>
              Behind(s) <= (IF where = "term" THEN 0 ELSE TermTries) + n - 1

LEMMA ClosesInSteps ==
    ASSUME PtyInv, NeverBlocked', NEW s \in Sessions,
           CloseSession(s) \/ CloseNext(s) \/ TermAgain(s) \/ WaitAgain(s)
    PROVE  /\ ClosingStep(s) /\ (UNCHANGED daemon \/ Interrupted)
           /\ \/ closing[s] = "no" /\ (handler[s] = "leaving" \/ CloseNext(s))
              \/ s \in slept /\ closing[s] \in {"term", "wait"}
<1>0. TermTries \in Nat \ {0} /\ WaitTries \in Nat \ {0}
  BY Bounds
<1>1. ASSUME NEW n \in 0..TermTries, SignalGroup(s, n),
             closing[s] = "no" \/ (closing[s] = "term" /\ n = tries[s] /\ s \in slept)
      PROVE  ClosingStep(s) /\ (UNCHANGED daemon \/ Interrupted)
  <2>1. CASE Ends(s)
    BY <1>1, <2>1, SignalGroupDoes DEF PtyInv, ClosingStep
  <2>2. CASE GoesOn(s, leader[s], "term", n + 1)
    <3>1. n + 1 \in Nat \ {0} /\ (closing[s] \in {"term", "wait"} => Behind(s) <= 0 + (n + 1) - 1)
      BY <1>0, <1>1 DEF Behind
    <3> QED
      BY <1>1, <2>2, <3>1, SignalGroupDoes DEF PtyInv, ClosingStep
  <2>3. ASSUME NEW l \in AfterTerm(s), GoesOn(s, l, "wait", 1)
        PROVE  ClosingStep(s)
    <3>1. closing[s] \in {"term", "wait"} => Behind(s) <= TermTries + 1 - 1
      BY <1>0, <1>1 DEF Behind
    <3> QED
      BY <2>3, <3>1 DEF ClosingStep
  <2> QED
    BY <1>1, <2>1, <2>2, <2>3, SignalGroupDoes DEF PtyInv
<1>2. CASE CloseSession(s) \/ CloseNext(s)
  <2>1. SignalGroup(s, 0) /\ 0 \in 0..TermTries /\ closing[s] = "no"
    BY <1>0, <1>2 DEF CloseSession, CloseNext, Close
  <2> QED
    BY <1>1, <1>2, <2>1 DEF CloseSession
<1>3. CASE TermAgain(s)
  <2>1. closing[s] = "term" /\ s \in slept /\ tries[s] \in 0..TermTries
    BY <1>0, <1>3 DEF TermAgain, PtyInv, Closed
  <2> QED
    BY <1>1, <1>3, <2>1 DEF TermAgain
<1>4. CASE WaitAgain(s)
  <2>1. closing[s] = "wait" /\ s \in slept /\ tries[s] \in 1..WaitTries /\ UNCHANGED daemon
    BY <1>4 DEF WaitAgain, PtyInv, Closed
  <2>2. CASE Ends(s)
    BY <2>1, <2>2 DEF ClosingStep
  <2>3. CASE GoesOn(s, leader[s], "blocked", 0)
    BY <2>3 DEF GoesOn, NeverBlocked, LoopRuns, PtyInv, TypeOK
  <2>4. CASE GoesOn(s, leader[s], "wait", tries[s] + 1)
    <3>1. tries[s] + 1 \in Nat \ {0} /\ Behind(s) <= TermTries + (tries[s] + 1) - 1
      BY <1>0, <2>1 DEF Behind
    <3> QED
      BY <2>1, <2>4, <3>1 DEF ClosingStep
  <2> QED
    BY <1>4, <2>1, <2>2, <2>3, <2>4, KillAndReapDoes, LookForChildDoes DEF WaitAgain
<1> QED
  BY <1>2, <1>3, <1>4

LEMMA ServingInvKept ==
    ASSUME PtyInv, NeverBlocked', ServingInv, [Next]_vars
    PROVE  ServingInv'
<1> SUFFICES ASSUME server' \in {"up", "stopping"}, NEW u \in Sessions PROVE Serving(u)'
  BY DEF ServingInv
<1>1. ASSUME NEW s \in Sessions,
             CloseSession(s) \/ CloseNext(s) \/ TermAgain(s) \/ WaitAgain(s)
      PROVE  Serving(u)'
  <2>1. server \in {"up", "stopping"} /\ Serving(u) /\ Serving(s)
    BY <1>1, ClosesInSteps DEF daemon, Interrupted, ServingInv
  <2>2. handler[s] = "leaving" /\ s \in sessions
    BY <1>1, <2>1, ClosesInSteps DEF CloseNext, Serving
  <2> QED
    BY <1>1, <2>1, <2>2, ClosesInSteps
       DEF ClosingStep, Ends, GoesOn, Serving, PtyInv, TypeOK
<1>2. ASSUME NEW s \in Sessions, ReaderCancelled(s) PROVE Serving(u)'
  BY <1>2 DEF ReaderCancelled, CloseReturns, Goto, daemon, ServingInv, Serving, PtyInv, TypeOK
<1>3. ASSUME NEW s \in Sessions, ProcessStep(s) \/ RelayStep(s) \/ ClientLeaves(s)
      PROVE  Serving(u)'
  BY <1>3 DEF ProcessStep, Setsid, Exec, Spawns, ShellExits, OthersExit, RelayStep, ReadData,
     ReadFails, Forward, ForwardExit, ClientLeaves, daemon, ws, killer, ServingInv, Serving
<1>4. ASSUME NEW s \in Sessions,
             Open(s) \/ Refused(s) \/ Ready(s) \/ LeftByClient(s) \/ HandlerFails(s)
      PROVE  Serving(u)'
  BY <1>4 DEF Open, Refused, Ready, LeftByClient, HandlerFails, Leave, daemon, killer,
     ServingInv, Serving, PtyInv, TypeOK, Started
<1>5. CASE Interrupt \/ AutoExit \/ CloseAll \/ Clear \/ Tick \/ ForceExit \/ UNCHANGED vars
  BY <1>5 DEF Interrupt, Interrupted, AutoExit, CloseAll, Clear, Tick, ForceExit, vars, daemon,
     ws, killer, ServingInv, Serving
<1> QED
  BY <1>1, <1>2, <1>3, <1>4, <1>5 DEF Next, HandlerStep, CloseStep, ServerStep


\* A round of a loop, or the end of the loops, while the handlers end.
LEMMA HandlersEndThroughSteps ==
    ASSUME PtyInv, \A v \in Sessions : Serving(v), HandlersEnd, NEW s \in Sessions,
           ClosingStep(s), UNCHANGED daemon, handler[s] = "leaving",
           closing[s] = "no" \/ (s \in slept /\ closing[s] \in {"term", "wait"})
    PROVE  HandlersEnd'
<1>1. CASE patience = ExitPatience
  BY <1>1 DEF HandlersEnd, daemon
<1>2. CASE patience # ExitPatience
  <2>1. s \in slept /\ closing[s] \in {"term", "wait"} /\ s \in Sleeping /\ s \in sessions
    BY <1>2 DEF HandlersEnd, Serving, Sleeping
  <2>2. Forgotten' = Forgotten
    <3>1. CASE Ends(s)
      BY <3>1 DEF Ends, Forgotten, PtyInv, TypeOK
    <3>2. ASSUME NEW l, NEW where, NEW n, GoesOn(s, l, where, n) PROVE Forgotten' = Forgotten
      BY <3>2 DEF GoesOn, Forgotten
    <3> QED
      BY <3>1, <3>2 DEF ClosingStep
  <2>3. ASSUME NEW u \in Sleeping', u # s PROVE u \in Sleeping /\ Behind(u)' = Behind(u)
    BY <2>3 DEF ClosingStep, Ends, GoesOn, Sleeping, Behind, PtyInv, TypeOK
  <2>4. Behind(s) \in Nat /\ patience \in Nat
    BY <2>1, BehindIsBounded DEF PtyInv, TypeOK
  <2>5. s \in Sleeping' => Behind(s)' \in Int /\ Behind(s)' >= Behind(s)
    <3>1. CASE Ends(s)
      BY <3>1 DEF Ends, Sleeping, PtyInv, TypeOK
    <3>2. ASSUME NEW l, NEW where \in {"term", "wait"}, NEW n \in Nat \ {0},
                 GoesOn(s, l, where, n),
                 Behind(s) <= (IF where = "term" THEN 0 ELSE TermTries) + n - 1
          PROVE  Behind(s)' \in Int /\ Behind(s)' >= Behind(s)
      <4>1. closing'[s] = where /\ tries'[s] = n /\ s \notin slept'
        BY <3>2 DEF GoesOn, PtyInv, TypeOK
      <4>2. Behind(s)' = (IF where = "term" THEN 0 ELSE TermTries) + n - 1
        BY <4>1 DEF Behind
      <4> QED
        BY <2>4, <3>2, <4>2, Bounds
    <3> QED
      BY <2>1, <3>1, <3>2 DEF ClosingStep
  <2>6. Cardinality(Forgotten) \in Nat
    BY Counts DEF Forgotten
  <2>7. /\ patience > Rounds * Cardinality(Forgotten)
        /\ \A v \in Sleeping : patience + Behind(v) > Rounds * (Cardinality(Forgotten) + 1)
        /\ \A v \in Sessions : /\ handler[v] \notin {"starting", "serving"}
                               /\ handler[v] = "leaving" => closing[v] # "no"
    BY <1>2 DEF HandlersEnd
  <2>8. ASSUME NEW u \in Sleeping'
        PROVE  patience + Behind(u)' > Rounds * (Cardinality(Forgotten) + 1)
    <3>1. CASE u # s
      BY <2>3, <2>7, <2>8, <3>1
    <3>2. CASE u = s
      <4>1. patience + Behind(s) > Rounds * (Cardinality(Forgotten) + 1)
        BY <2>1, <2>7
      <4>2. Rounds * (Cardinality(Forgotten) + 1) \in Nat
        <5>1. Cardinality(Forgotten) <= Cardinality(Forgotten)
          BY <2>6
        <5> QED
          BY <2>6, <5>1, Products
      <4> QED
        BY <2>4, <2>5, <2>8, <3>2, <4>1, <4>2
    <3> QED
      BY <3>1, <3>2
  <2>9. \A v \in Sessions : /\ handler'[v] \notin {"starting", "serving"}
                            /\ handler'[v] = "leaving" => closing'[v] # "no"
    BY <2>7 DEF ClosingStep, Ends, GoesOn, PtyInv, TypeOK
  <2> QED
    BY <2>2, <2>7, <2>8, <2>9 DEF HandlersEnd, daemon
<1> QED
  BY <1>1, <1>2

\* The same while close_all closes what is left.
LEMMA OneByOneThroughSteps ==
    ASSUME PtyInv, OneByOne, NEW s \in Sessions, ClosingStep(s), UNCHANGED daemon,
           s \in sessions, \A u \in Sessions : u = s \/ Idle(u),
           closing[s] = "no" \/ (s \in slept /\ closing[s] \in {"term", "wait"})
    PROVE  OneByOne'
<1>1. UNCHANGED <<handler, sessions>> /\ handler[s] # "leaving"
  BY DEF ClosingStep, Ends, GoesOn, OneByOne
<1>2. \A u \in Sessions : u # s => closing'[u] = closing[u]
  BY DEF ClosingStep, Ends, GoesOn, PtyInv, TypeOK
<1>3. \A u \in Sessions : u # s => Idle(u)' /\ u \notin Sleeping' /\ closing'[u] # "reader"
  BY <1>2 DEF Idle, Sleeping
<1>4. s \in Left /\ Left \subseteq sessions /\ Cardinality(Left) \in Nat /\ patience \in Nat
      /\ Rounds * Cardinality(Left) \in Nat
  <2>1. s \in Left /\ Left \subseteq sessions /\ patience \in Nat
    BY DEF Left, PtyInv, TypeOK
  <2>2. Cardinality(Left) \in Nat
    BY <2>1, Counts
  <2> QED
    BY <2>1, <2>2, Products
\* What is left before the step, for each way the session stands.
<1>5. /\ closing[s] = "no" => patience > Rounds * Cardinality(Left)
      /\ closing[s] \in {"term", "wait"} =>
           /\ patience + Behind(s) > Rounds * Cardinality(Left)
           /\ Behind(s) \in Nat /\ Behind(s) <= Rounds
  BY BehindIsBounded DEF OneByOne, Idle, Sleeping
<1>6. Rounds \in Nat /\ patience + Rounds > Rounds * Cardinality(Left)
  <2>1. Rounds \in Nat
    BY <1>4, Products
  <2> QED
    BY <1>4, <1>5, <2>1
\* The other sessions are idle, so that the rest depends on this one.
<1>7. ASSUME Idle(s)' => patience > Rounds * Cardinality(Left'),
             s \in Sleeping' => patience + Behind(s)' > Rounds * Cardinality(Left'),
             closing'[s] = "reader" => patience + Rounds > Rounds * Cardinality(Left')
      PROVE  OneByOne'
  <2>1. \A u \in Sessions : handler'[u] \in {"new", "ended"}
    BY <1>1 DEF OneByOne
  <2>2. \A u \in Sessions : ~Idle(u)' =>
          u \in sessions' /\ \A v \in Sessions : v = u \/ Idle(v)'
    BY <1>1, <1>3
  <2>3. patience' = patience /\ Sleeping' \subseteq Sessions
    BY DEF daemon, Sleeping
  <2>4. \A u \in Sleeping' : patience' + Behind(u)' > Rounds * Cardinality(Left')
    BY <1>3, <1>7, <2>3
  <2>5. \A u \in Sessions :
          closing'[u] = "reader" => patience' + Rounds > Rounds * Cardinality(Left')
    BY <1>3, <1>7, <2>3
  <2> QED
    BY <1>7, <2>1, <2>2, <2>3, <2>4, <2>5 DEF OneByOne
<1>8. CASE Ends(s) /\ closing'[s] = "reader"
  <2>1. Left' = Left /\ s \notin Sleeping' /\ ~Idle(s)'
    BY <1>1, <1>2, <1>4, <1>8 DEF Left, Sleeping, Idle, PtyInv, TypeOK
  <2> QED
    BY <1>6, <1>7, <2>1
<1>9. CASE Ends(s) /\ closing'[s] = "done"
  <2>1. Left' = Left \ {s} /\ s \notin Sleeping' /\ Idle(s)' /\ closing'[s] # "reader"
    BY <1>1, <1>2, <1>4, <1>9 DEF Left, Sleeping, Idle, PtyInv, TypeOK
  <2>2. Cardinality(Left') \in Nat /\ Cardinality(Left) = Cardinality(Left') + 1
    BY <1>4, <2>1, Counts
  <2>3. Rounds * Cardinality(Left) = Rounds * Cardinality(Left') + Rounds
        /\ Rounds * Cardinality(Left') \in Nat
    BY <2>2, Products
  <2>4. patience > Rounds * Cardinality(Left')
    BY <1>4, <1>6, <2>3
  <2> QED
    BY <1>7, <2>1, <2>4
<1>10. ASSUME NEW l, NEW where \in {"term", "wait"}, NEW n \in Nat \ {0},
             GoesOn(s, l, where, n),
             closing[s] \in {"term", "wait"} =>
               Behind(s) <= (IF where = "term" THEN 0 ELSE TermTries) + n - 1
      PROVE  OneByOne'
  <2>1. closing'[s] = where /\ tries'[s] = n /\ s \notin slept'
    BY <1>10 DEF GoesOn, PtyInv, TypeOK
  <2>2. Behind(s)' = (IF where = "term" THEN 0 ELSE TermTries) + n - 1
    BY <2>1 DEF Behind
  <2>3. Left' = Left /\ ~Idle(s)' /\ closing'[s] # "reader"
    BY <1>1, <1>2, <1>4, <1>10, <2>1 DEF Left, Idle, PtyInv, TypeOK
  <2>4. patience + Behind(s)' > Rounds * Cardinality(Left)
    BY <1>4, <1>5, <1>10, <2>2, Bounds
  <2> QED
    BY <1>7, <2>3, <2>4
<1> QED
  BY <1>8, <1>9, <1>10 DEF ClosingStep, Ends, PtyInv, TypeOK


LEMMA PatienceThroughReader ==
    ASSUME PtyInv, ServingInv, PatienceInv, NEW s \in Sessions, ReaderCancelled(s)
    PROVE  PatienceInv'
<1>1. /\ UNCHANGED daemon /\ closing[s] = "reader"
      /\ closing' = [closing EXCEPT ![s] = "done"]
      /\ tries' = [tries EXCEPT ![s] = 0] /\ slept' = slept \ {s}
      /\ \/ handler[s] # "leaving" /\ UNCHANGED <<handler, sessions>>
         \/ /\ handler[s] = "leaving"
            /\ handler' = [handler EXCEPT ![s] = "ended"] /\ sessions' = sessions \ {s}
  BY DEF ReaderCancelled, CloseReturns, Goto
<1>2. Sleeping' = Sleeping /\ \A u \in Sleeping : Behind(u)' = Behind(u)
  BY <1>1 DEF Sleeping, Behind, PtyInv, TypeOK
<1>3. CASE server = "stopping" /\ cause = "auto-exit"
  <2>1. handler[s] = "leaving"
    BY <1>1, <1>3 DEF ServingInv, Serving
  <2>2. Forgotten' = Forgotten
    BY <1>1, <2>1 DEF Forgotten, PtyInv, TypeOK
  <2>3. HandlersEnd
    BY <1>3 DEF PatienceInv
  <2>4. HandlersEnd'
    <3>1. CASE patience = ExitPatience
      BY <1>1, <3>1 DEF HandlersEnd, daemon
    <3>2. CASE patience # ExitPatience
      <4>1. \A u \in Sessions : /\ handler'[u] \notin {"starting", "serving"}
                                /\ handler'[u] = "leaving" => closing'[u] # "no"
        BY <1>1, <2>3, <3>2 DEF HandlersEnd, PtyInv, TypeOK
      <4> QED
        BY <1>1, <1>2, <2>2, <2>3, <3>2, <4>1 DEF HandlersEnd, daemon
    <3> QED
      BY <3>1, <3>2
  <2> QED
    BY <1>1, <1>3, <2>4 DEF PatienceInv, daemon
<1>4. CASE server = "closing" /\ cause = "auto-exit"
  <2>1. OneByOne
    BY <1>4 DEF PatienceInv
  <2>2. UNCHANGED <<handler, sessions>> /\ s \in sessions
        /\ \A u \in Sessions : u = s \/ Idle(u)
    BY <1>1, <2>1 DEF OneByOne, Idle
  <2>3. Left' = Left \ {s} /\ s \in Left /\ Left \subseteq sessions
    BY <1>1, <2>2 DEF Left, PtyInv, TypeOK
  <2>4. \A u \in Sessions : Idle(u)' /\ closing'[u] # "reader" /\ u \notin Sleeping'
    BY <1>1, <2>2 DEF Idle, Sleeping, PtyInv, TypeOK
  <2>5. Cardinality(Left') \in Nat /\ Cardinality(Left) = Cardinality(Left') + 1
        /\ patience \in Nat
    BY <2>3, Counts DEF PtyInv, TypeOK
  <2>6. Rounds * Cardinality(Left) = Rounds * Cardinality(Left') + Rounds
        /\ Rounds * Cardinality(Left') \in Nat /\ Rounds \in Nat
    BY <2>5, Products
  <2>7. patience > Rounds * Cardinality(Left')
    BY <1>1, <2>1, <2>5, <2>6 DEF OneByOne
  <2>8. \A u \in Sessions : handler'[u] \in {"new", "ended"}
    BY <2>1, <2>2 DEF OneByOne
  <2>9. OneByOne'
    BY <1>1, <2>4, <2>7, <2>8 DEF OneByOne, daemon, Sleeping
  <2> QED
    BY <1>1, <1>4, <2>9 DEF PatienceInv, daemon
<1> QED
  BY <1>1, <1>3, <1>4 DEF PatienceInv, daemon

\* Handlers are asked to end before the first sleep of a shutdown.
LEMMA PatienceThroughHandlers ==
    ASSUME PtyInv, PatienceInv, NEW s \in Sessions,
           \/ Open(s) \/ Refused(s) \/ Ready(s) \/ LeftByClient(s) \/ HandlerFails(s)
    PROVE  PatienceInv'
<1>1. UNCHANGED daemon /\ (server = "up" \/ handler[s] \in {"starting", "serving"})
  BY DEF Open, Refused, Ready, LeftByClient, HandlerFails, Leave
<1>2. CASE server = "stopping" /\ cause = "auto-exit"
  BY <1>1, <1>2 DEF PatienceInv, HandlersEnd, daemon
<1>3. CASE server = "closing" /\ cause = "auto-exit"
  BY <1>1, <1>3 DEF PatienceInv, OneByOne
<1> QED
  BY <1>1, <1>2, <1>3 DEF PatienceInv, daemon

\* A process, a relay or a client concerns neither the sleeps nor the slots.
LEMMA PatienceThroughOthers ==
    ASSUME PatienceInv,
           \/ \E s \in Sessions : ProcessStep(s) \/ RelayStep(s) \/ ClientLeaves(s)
           \/ UNCHANGED vars
    PROVE  PatienceInv'
<1>1. UNCHANGED <<daemon, handler, sessions, killer>>
  BY DEF ProcessStep, Setsid, Exec, Spawns, ShellExits, OthersExit, RelayStep, ReadData,
     ReadFails, Forward, ForwardExit, ClientLeaves, vars, ws
<1>2. Sleeping' = Sleeping /\ Forgotten' = Forgotten /\ Left' = Left
  BY <1>1 DEF Sleeping, Forgotten, Left, killer
<1>3. \A u : Behind(u)' = Behind(u) /\ (Idle(u)' <=> Idle(u))
  BY <1>1 DEF Behind, Idle, killer
<1>4. HandlersEnd => HandlersEnd'
  BY <1>1, <1>2, <1>3 DEF HandlersEnd, daemon, killer
<1>5. OneByOne => OneByOne'
  BY <1>1, <1>2, <1>3 DEF OneByOne, daemon, killer
<1> QED
  BY <1>1, <1>4, <1>5 DEF PatienceInv, daemon


\* The handlers have left enough for every session that they forgot.
LEMMA PatienceAtCloseAll ==
    ASSUME EnoughPatience, PtyInv, ServingInv, PatienceInv, NeverBlocked, CloseAll
    PROVE  PatienceInv'
<1>1. /\ server = "stopping" /\ server' = "closing"
      /\ UNCHANGED <<cause, patience, ws, kernel, relay, killer>>
      /\ \A s \in Sessions : handler[s] \in {"new", "ended"}
  BY DEF CloseAll
<1> SUFFICES ASSUME cause = "auto-exit" PROVE OneByOne'
  BY <1>1 DEF PatienceInv
<1>2. \A s \in Sessions : Idle(s) /\ closing[s] # "reader"
  BY <1>1 DEF ServingInv, Serving, NeverBlocked, LoopRuns, Idle, PtyInv, TypeOK
<1>3. Left \subseteq Forgotten /\ Forgotten \subseteq sessions
  BY <1>1 DEF Left, Forgotten, PtyInv, TypeOK, Started
<1>4. /\ Cardinality(Left) \in Nat /\ Cardinality(Forgotten) \in Nat /\ patience \in Nat
      /\ MaxSessions \in Nat /\ Cardinality(Left) <= Cardinality(Forgotten)
      /\ Cardinality(Left) <= MaxSessions
  BY <1>3, Counts, FS_Subset DEF PtyInv, TypeOK
<1>5. patience > Rounds * Cardinality(Left)
  <2>1. HandlersEnd
    BY <1>1 DEF PatienceInv
  <2>2. CASE patience = ExitPatience
    <3>1. Rounds * Cardinality(Left) <= Rounds * MaxSessions
          /\ Rounds * Cardinality(Left) \in Nat /\ Rounds * MaxSessions \in Nat /\ Rounds \in Nat
      BY <1>4, Products
    <3>2. Rounds * MaxSessions = MaxSessions * Rounds
      BY <1>4, <3>1
    <3> QED
      BY <1>4, <2>2, <3>1, <3>2 DEF EnoughPatience
  <2>3. CASE patience # ExitPatience
    <3>1. patience > Rounds * Cardinality(Forgotten)
      BY <2>1, <2>3 DEF HandlersEnd
    <3>2. Rounds * Cardinality(Left) <= Rounds * Cardinality(Forgotten)
          /\ Rounds * Cardinality(Left) \in Nat /\ Rounds * Cardinality(Forgotten) \in Nat
      BY <1>4, Products
    <3> QED
      BY <1>4, <3>1, <3>2
  <2> QED
    BY <2>2, <2>3
<1>6. Left' = Left /\ Sleeping' = {} /\ \A s \in Sessions : Idle(s)' /\ closing'[s] # "reader"
  BY <1>1, <1>2 DEF Left, Sleeping, Idle, ws, killer
<1> QED
  BY <1>1, <1>5, <1>6 DEF OneByOne, ws

\* A sleep costs no more than it brings the sleepers on.
LEMMA PatienceThroughTick ==
    ASSUME EnoughPatience, PtyInv, ServingInv, PatienceInv, Tick
    PROVE  PatienceInv'
<1>1. /\ slept = {} /\ Sleeping # {} /\ slept' = Sleeping
      /\ server # "up" => NothingReady /\ patience > 0 /\ patience' = patience - 1
      /\ UNCHANGED <<server, cause, ws, kernel, relay, closing, tries>>
  BY DEF Tick
<1>2. Sleeping' = Sleeping /\ Forgotten' = Forgotten /\ Left' = Left
  BY <1>1 DEF Sleeping, Forgotten, Left, ws
<1>3. \A s \in Sleeping : /\ Behind(s) \in Nat /\ Behind(s)' = Behind(s) + 1
                          /\ Behind(s) + 1 <= Rounds
  <2> SUFFICES ASSUME NEW s \in Sleeping
               PROVE  Behind(s) \in Nat /\ Behind(s)' = Behind(s) + 1 /\ Behind(s) + 1 <= Rounds
    OBVIOUS
  <2>1. Behind(s) \in Nat /\ Behind(s) + 1 <= Rounds
    BY <1>1, BehindIsBounded
  <2>2. TermTries \in Nat /\ tries[s] \in Int
    BY Bounds DEF PtyInv, TypeOK, Sleeping
  <2> QED
    BY <1>1, <2>1, <2>2 DEF Behind
<1>4. patience \in Nat
  BY DEF PtyInv, TypeOK
<1>5. CASE server = "stopping" /\ cause = "auto-exit"
  <2>1. HandlersEnd /\ NothingReady
    BY <1>1, <1>5 DEF PatienceInv
  <2>2. PICK a \in Sleeping : a \in sessions /\ a \notin Forgotten
    BY <1>1, <1>5 DEF Sleeping, ServingInv, Serving, Forgotten
  <2>3. /\ Cardinality(Forgotten) \in Nat /\ MaxSessions \in Nat
        /\ Cardinality(Forgotten) + 1 \in Nat /\ Cardinality(Forgotten) + 1 <= MaxSessions
    BY <2>2, Counts DEF Forgotten
  <2>4. /\ Rounds \in Nat
        /\ Rounds * (Cardinality(Forgotten) + 1) \in Nat /\ Rounds * Cardinality(Forgotten) \in Nat
        /\ Rounds * (Cardinality(Forgotten) + 1) <= Rounds * MaxSessions
        /\ Rounds * MaxSessions = MaxSessions * Rounds
        /\ Rounds * (Cardinality(Forgotten) + 1) = Rounds * Cardinality(Forgotten) + Rounds
    <3>1. /\ Rounds \in Nat
          /\ Rounds * (Cardinality(Forgotten) + 1) \in Nat
          /\ Rounds * (Cardinality(Forgotten) + 1) <= Rounds * MaxSessions
      BY <2>3, Products
    <3>2. /\ Rounds * Cardinality(Forgotten) \in Nat
          /\ Rounds * (Cardinality(Forgotten) + 1) = Rounds * Cardinality(Forgotten) + Rounds
      BY <2>3, <3>1
    <3>3. Rounds * MaxSessions = MaxSessions * Rounds
      BY <2>3, <3>1
    <3> QED
      BY <3>1, <3>2, <3>3
  <2>5. \A s \in Sleeping : patience + Behind(s) > Rounds * (Cardinality(Forgotten) + 1)
    <3>1. CASE patience = ExitPatience
      <4>1. patience > Rounds * (Cardinality(Forgotten) + 1)
        BY <1>4, <2>3, <2>4, <3>1 DEF EnoughPatience
      <4> QED
        BY <1>3, <1>4, <2>4, <4>1
    <3>2. CASE patience # ExitPatience
      BY <2>1, <3>2 DEF HandlersEnd
    <3> QED
      BY <3>1, <3>2
  <2>6. patience' = patience - 1 /\ \A s \in Sleeping : patience' + Behind(s)' = patience + Behind(s)
    BY <1>1, <1>3, <1>4, <1>5
  <2>7. patience' > Rounds * Cardinality(Forgotten)
    <3>1. patience + Behind(a) > Rounds * Cardinality(Forgotten) + Rounds
      BY <2>4, <2>5
    <3> QED
      BY <1>3, <1>4, <2>4, <2>6, <3>1
  <2>8. HandlersEnd'
    BY <1>1, <1>2, <2>1, <2>5, <2>6, <2>7 DEF HandlersEnd, NothingReady, ws
  <2> QED
    BY <1>1, <1>5, <2>8 DEF PatienceInv
<1>6. CASE server = "closing" /\ cause = "auto-exit"
  <2>1. OneByOne /\ NothingReady
    BY <1>1, <1>6 DEF PatienceInv
  <2>2. patience' = patience - 1 /\ \A s \in Sleeping : patience' + Behind(s)' = patience + Behind(s)
    BY <1>1, <1>3, <1>4, <1>6
  <2>3. \E a \in Sessions : ~Idle(a)
    BY <1>1 DEF Sleeping, Idle
  <2>4. \A s \in Sessions : (Idle(s)' <=> Idle(s)) /\ closing[s] # "reader"
    BY <1>1, <2>1 DEF Idle, NothingReady
  <2>5. OneByOne'
    BY <1>1, <1>2, <2>1, <2>2, <2>3, <2>4 DEF OneByOne, ws
  <2> QED
    BY <1>1, <1>6, <2>5 DEF PatienceInv
<1> QED
  BY <1>1, <1>5, <1>6 DEF PatienceInv

LEMMA PatienceInvKept ==
    ASSUME EnoughPatience, PtyInv, NeverBlocked, NeverBlocked', ServingInv, PatienceInv,
           [Next]_vars
    PROVE  PatienceInv'
<1>1. ASSUME NEW s \in Sessions,
             CloseSession(s) \/ CloseNext(s) \/ TermAgain(s) \/ WaitAgain(s)
      PROVE  PatienceInv'
  <2>1. ClosingStep(s) /\ (UNCHANGED daemon \/ Interrupted)
        /\ \/ closing[s] = "no" /\ (handler[s] = "leaving" \/ CloseNext(s))
           \/ s \in slept /\ closing[s] \in {"term", "wait"}
    BY <1>1, ClosesInSteps
  <2>2. CASE Interrupted
    BY <2>2 DEF Interrupted, PatienceInv
  <2>3. CASE UNCHANGED daemon /\ server = "stopping" /\ cause = "auto-exit"
    <3>1. HandlersEnd /\ \A v \in Sessions : Serving(v)
      BY <2>3 DEF PatienceInv, ServingInv
    <3>2. handler[s] = "leaving"
      BY <2>1, <2>3, <3>1 DEF CloseNext, Serving
    <3>3. HandlersEnd'
      BY <2>1, <2>3, <3>1, <3>2, HandlersEndThroughSteps
    <3> QED
      BY <2>3, <3>3 DEF PatienceInv, daemon
  <2>4. CASE UNCHANGED daemon /\ server = "closing" /\ cause = "auto-exit"
    <3>1. OneByOne
      BY <2>4 DEF PatienceInv
    <3>2. s \in sessions /\ \A u \in Sessions : u = s \/ Idle(u)
      BY <2>1, <3>1 DEF CloseNext, OneByOne, Idle
    <3>3. OneByOne'
      BY <2>1, <2>4, <3>1, <3>2, OneByOneThroughSteps
    <3> QED
      BY <2>4, <3>3 DEF PatienceInv, daemon
  <2> QED
    BY <2>1, <2>2, <2>3, <2>4 DEF PatienceInv, daemon
<1>2. CASE Interrupt \/ AutoExit \/ Clear \/ ForceExit
  BY <1>2 DEF Interrupt, Interrupted, AutoExit, Clear, ForceExit, PatienceInv, HandlersEnd
<1> QED
  BY <1>1, <1>2, PatienceThroughReader, PatienceThroughHandlers, PatienceThroughOthers,
     PatienceAtCloseAll, PatienceThroughTick
     DEF Next, HandlerStep, CloseStep, ServerStep

\* Some patience is left while there is something to do.
LEMMA PatienceIsLeft ==
    ASSUME EnoughPatience, PtyInv, NeverBlocked, ServingInv, PatienceInv,
           server \in {"stopping", "closing"}, cause = "auto-exit"
    PROVE  patience > 0
<1>0. /\ patience \in Nat /\ Rounds \in Nat \ {0} /\ MaxSessions \in Nat \ {0}
      /\ MaxSessions * Rounds \in Nat
  <2>1. Rounds \in Nat \ {0} /\ MaxSessions \in Nat \ {0}
    BY Bounds DEF Rounds
  <2> QED
    BY <2>1 DEF PtyInv, TypeOK
<1>1. CASE server = "stopping"
  <2>1. Cardinality(Forgotten) \in Nat
    BY Counts DEF Forgotten
  <2>2. Rounds * Cardinality(Forgotten) \in Nat
    BY <1>0, <2>1
  <2> QED
    BY <1>0, <1>1, <2>2, Bounds DEF PatienceInv, HandlersEnd, EnoughPatience
<1>2. CASE server = "closing"
  <2>1. OneByOne
    BY <1>2 DEF PatienceInv
  <2>2. Left \subseteq sessions /\ Cardinality(Left) \in Nat
        /\ Rounds * Cardinality(Left) \in Nat
    <3>1. Left \subseteq sessions /\ Cardinality(Left) \in Nat
      BY Counts DEF Left
    <3> QED
      BY <1>0, <3>1
  <2>3. CASE \A s \in Sessions : Idle(s)
    BY <1>0, <2>1, <2>2, <2>3 DEF OneByOne
  <2>4. ASSUME NEW s \in Sessions, ~Idle(s) PROVE patience > 0
    <3>1. s \in Left
      BY <2>1, <2>4 DEF OneByOne, Left, Idle
    <3>2. Cardinality(Left \ {s}) \in Nat /\ Cardinality(Left) = Cardinality(Left \ {s}) + 1
      BY <2>2, <3>1, Counts
    <3>3. Rounds * Cardinality(Left) = Rounds * Cardinality(Left \ {s}) + Rounds
          /\ Rounds * Cardinality(Left \ {s}) \in Nat
      BY <3>2, Products
    <3>4. CASE closing[s] = "reader"
      BY <1>0, <2>1, <3>3, <3>4 DEF OneByOne
    <3>5. CASE s \in Sleeping
      <4>1. patience + Behind(s) > Rounds * Cardinality(Left) /\ Behind(s) \in Nat
            /\ Behind(s) <= Rounds
        BY <2>1, <3>5, BehindIsBounded DEF OneByOne
      <4> QED
        BY <1>0, <3>3, <4>1
    <3> QED
      BY <2>4, <3>4, <3>5 DEF Idle, Sleeping, NeverBlocked, LoopRuns, PtyInv, TypeOK
  <2> QED
    BY <2>3, <2>4
<1> QED
  BY <1>1, <1>2

\* With forked children that prompt, and a patience of more sleeps than max_sessions
\* closings take one after the other, the watchdog never cuts an auto-exit short: every
\* shutdown that nobody interrupts comes to its end, however many shells ignore SIGTERM.
THEOREM AutoExitIsNotCutShort ==
    PromptFork /\ EnoughPatience => (Spec => []AutoExitIsGraceful)
<1> SUFFICES ASSUME PromptFork, EnoughPatience PROVE Spec => []AutoExitIsGraceful
  OBVIOUS
<1> DEFINE Inv == ServingInv /\ PatienceInv /\ AutoExitIsGraceful
<1>1. Init => Inv
  BY DEF Init, ServingInv, Serving, PatienceInv, AutoExitIsGraceful
<1>2. PtyInv /\ NeverBlocked /\ NeverBlocked' /\ Inv /\ [Next]_vars => Inv'
  <2> SUFFICES ASSUME PtyInv, NeverBlocked, NeverBlocked', Inv, [Next]_vars PROVE Inv'
    OBVIOUS
  <2>1. ServingInv' /\ PatienceInv'
    BY ServingInvKept, PatienceInvKept
  <2>2. CASE ForceExit
    <3>1. cause = "signal"
      BY <2>2, PatienceIsLeft DEF ForceExit, NeverBlocked, PtyInv, TypeOK
    <3> QED
      BY <2>1, <2>2, <3>1 DEF ForceExit, AutoExitIsGraceful
  <2>3. CASE ~ForceExit
    <3>1. server' # "killed" \/ UNCHANGED daemon
      <4>1. ASSUME NEW s \in Sessions,
                   CloseSession(s) \/ CloseNext(s) \/ TermAgain(s) \/ WaitAgain(s)
            PROVE  server' \in {server, "stopping"} \/ UNCHANGED daemon
        BY <4>1, ClosesInSteps DEF Interrupted
      <4>2. ASSUME NEW s \in Sessions,
                   ProcessStep(s) \/ RelayStep(s) \/ ClientLeaves(s) \/ ReaderCancelled(s)
            PROVE  UNCHANGED daemon
        BY <4>2 DEF ProcessStep, Setsid, Exec, Spawns, ShellExits, OthersExit, RelayStep,
           ReadData, ReadFails, Forward, ForwardExit, ClientLeaves, ReaderCancelled
      <4>3. ASSUME NEW s \in Sessions,
                   Open(s) \/ Refused(s) \/ Ready(s) \/ LeftByClient(s) \/ HandlerFails(s)
            PROVE  UNCHANGED daemon
        BY <4>3 DEF Open, Refused, Ready, LeftByClient, HandlerFails, Leave
      <4>4. ASSUME Interrupt \/ AutoExit \/ CloseAll \/ Clear \/ Tick
            PROVE  server' \in {server, "stopping", "closing", "down"}
        BY <4>4 DEF Interrupt, Interrupted, AutoExit, CloseAll, Clear, Tick
      <4>5. CASE UNCHANGED vars
        BY <4>5 DEF vars
      <4>6. CASE Next
        BY <2>3, <4>1, <4>2, <4>3, <4>4, <4>6 DEF Next, HandlerStep, CloseStep, ServerStep
      <4> QED
        BY <4>5, <4>6
    <3> QED
      BY <2>1, <3>1 DEF AutoExitIsGraceful, daemon
  <2> QED
    BY <2>2, <2>3
<1> QED
  BY <1>1, <1>2, PtyInvInvariant, LoopIsNeverBlocked, PTL DEF Spec

-----------------------------------------------------------------------------
(* The refinement of AbstractConsoles. *)

\* A step that neither starts nor ends a console leaves the promises alone.
LEMMA NothingStartsOrEnds ==
    ASSUME \A u \in Sessions : (Runs(u)' <=> Runs(u))
                               /\ (handler'[u] = "new" <=> handler[u] = "new"),
           UNCHANGED sessions,
           server' = server \/ server' # "up"
    PROVE  [Abstract!Next]_Abstract!cvars
<1>1. /\ {u \in Sessions : Runs(u)}' = {u \in Sessions : Runs(u)}
      /\ {u \in Sessions : handler[u] = "new"}' = {u \in Sessions : handler[u] = "new"}
  OBVIOUS
<1>2. CASE server' = server
  BY <1>1, <1>2 DEF Abstract!cvars
<1>3. CASE server' # "up"
  BY <1>1, <1>3 DEF Abstract!Next, Abstract!Stop
<1> QED
  BY <1>2, <1>3

\* A step of close() that ends a console.
LEMMA EndsAbstractly ==
    ASSUME PtyInv, NEW s \in Sessions, Ends(s), UNCHANGED daemon
    PROVE  Abstract!Next
<1>1. /\ leader'[s] = "reaped" /\ s \notin group' /\ s \notin master'
      /\ sessions' \in {sessions, sessions \ {s}}
  BY DEF PtyInv, TypeOK, Ends
<1>2. \A u \in Sessions : u # s => (Runs(u)' <=> Runs(u))
  BY DEF PtyInv, TypeOK, Ends, Runs
<1>3. \A u \in Sessions : handler'[u] = "new" <=> handler[u] = "new"
  BY DEF PtyInv, TypeOK, Ends
<1>4. ~Runs(s)'
  BY <1>1 DEF Runs
<1>5. /\ {u \in Sessions : Runs(u)}' = {u \in Sessions : Runs(u)} \ {s}
      /\ {u \in Sessions : handler[u] = "new"}' = {u \in Sessions : handler[u] = "new"}
  BY <1>2, <1>3, <1>4
<1>6. Abstract!End(s)
  BY <1>1, <1>5 DEF Abstract!End, daemon
<1> QED
  BY <1>6 DEF Abstract!Next

\* A round of a loop: SIGTERM may make a zombie of the shell, which still counts.
LEMMA GoesOnAbstractly ==
    ASSUME PtyInv, NEW s \in Sessions, NEW l \in AfterTerm(s), NEW where, NEW n,
           GoesOn(s, l, where, n),
           UNCHANGED daemon \/ Interrupted
    PROVE  [Abstract!Next]_Abstract!cvars
<1>1. \A u \in Sessions : leader'[u] = IF u = s THEN l ELSE leader[u]
  BY DEF PtyInv, TypeOK, GoesOn
<1>2. \A u \in Sessions : Runs(u)' <=> Runs(u)
  BY <1>1 DEF GoesOn, Runs, AfterTerm
<1>3. server' = server \/ server' # "up"
  BY DEF PtyInv, TypeOK, daemon, Interrupted
<1> QED
  BY <1>2, <1>3, NothingStartsOrEnds DEF GoesOn

LEMMA SignalAbstractly ==
    ASSUME PtyInv, NEW s \in Sessions, NEW n, SignalGroup(s, n)
    PROVE  [Abstract!Next]_Abstract!cvars
<1>1. leader[s] \in AfterTerm(s)
  BY DEF AfterTerm
<1> QED
  BY <1>1, SignalGroupDoes, EndsAbstractly, GoesOnAbstractly DEF PtyInv

LEMMA CloseStepAbstractly ==
    ASSUME PtyInv, NEW s \in Sessions,
           CloseSession(s) \/ CloseNext(s) \/ TermAgain(s) \/ WaitAgain(s)
    PROVE  [Abstract!Next]_Abstract!cvars
<1>1. CASE CloseSession(s) \/ CloseNext(s) \/ TermAgain(s)
  BY <1>1, SignalAbstractly DEF CloseSession, CloseNext, Close, TermAgain
<1>2. CASE WaitAgain(s)
  <2>1. UNCHANGED daemon /\ leader[s] \in AfterTerm(s)
    BY <1>2 DEF WaitAgain, AfterTerm
  <2>2. \/ Ends(s) \/ GoesOn(s, leader[s], "blocked", 0)
        \/ GoesOn(s, leader[s], "wait", tries[s] + 1)
    BY <1>2, KillAndReapDoes, LookForChildDoes DEF WaitAgain
  <2> QED
    BY <2>1, <2>2, EndsAbstractly, GoesOnAbstractly
<1> QED
  BY <1>1, <1>2

\* The reader was the last thing of a session that close() waited for.
LEMMA ReaderCancelledAbstractly ==
    ASSUME PtyInv, NEW s \in Sessions, ReaderCancelled(s)
    PROVE  Abstract!Next
<1>1. /\ UNCHANGED <<server, leader, group, master>> /\ ~Runs(s)
      /\ sessions' \in {sessions, sessions \ {s}}
      /\ handler' = handler
         \/ (handler[s] = "leaving" /\ handler' = [handler EXCEPT ![s] = "ended"])
  BY DEF ReaderCancelled, CloseReturns, Goto, daemon, kernel, PtyInv, Closed, NothingLeft,
     Runs
<1>2. \A u \in Sessions : (Runs(u)' <=> Runs(u))
                          /\ (handler'[u] = "new" <=> handler[u] = "new")
  BY <1>1 DEF PtyInv, TypeOK, Runs
<1>3. /\ {u \in Sessions : Runs(u)}' = {u \in Sessions : Runs(u)} \ {s}
      /\ {u \in Sessions : handler[u] = "new"}' = {u \in Sessions : handler[u] = "new"}
  BY <1>1, <1>2
<1>4. Abstract!End(s)
  BY <1>1, <1>3 DEF Abstract!End
<1> QED
  BY <1>4 DEF Abstract!Next

\* Processes come and go; a console ends with the last process of its group only
\* if its shell is reaped and its descriptor closed.
LEMMA ProcessOrRelayAbstractly ==
    ASSUME PtyInv, NEW s \in Sessions, ProcessStep(s) \/ RelayStep(s)
    PROVE  [Abstract!Next]_Abstract!cvars
<1>1. UNCHANGED <<server, handler, sessions, master>>
  BY DEF ProcessStep, Setsid, Exec, Spawns, ShellExits, OthersExit, RelayStep, ReadData,
     ReadFails, Forward, ForwardExit, daemon, ws, kernel
<1>2. \A u \in Sessions : u # s => (Runs(u)' <=> Runs(u))
  BY <1>1 DEF ProcessStep, Setsid, Exec, Spawns, ShellExits, OthersExit, RelayStep, ReadData,
     ReadFails, Forward, ForwardExit, ws, kernel, PtyInv, TypeOK, Runs
<1>3. Runs(s)' => Runs(s)
  BY <1>1 DEF ProcessStep, Setsid, Exec, Spawns, ShellExits, OthersExit, RelayStep, ReadData,
     ReadFails, Forward, ForwardExit, ws, kernel, PtyInv, TypeOK, Runs
<1>4. CASE Runs(s)'
  BY <1>1, <1>2, <1>3, <1>4, NothingStartsOrEnds
<1>5. CASE ~Runs(s)'
  <2>1. /\ {u \in Sessions : Runs(u)}' = {u \in Sessions : Runs(u)} \ {s}
        /\ {u \in Sessions : handler[u] = "new"}' = {u \in Sessions : handler[u] = "new"}
    BY <1>1, <1>2, <1>5
  <2>2. Abstract!End(s)
    BY <1>1, <2>1 DEF Abstract!End
  <2> QED
    BY <2>2 DEF Abstract!Next
<1> QED
  BY <1>4, <1>5

\* The abstract module counts with the same operator.
LEMMA SameCardinality == ASSUME NEW S PROVE Abstract!Cardinality(S) = Cardinality(S)
BY DEF Abstract!Cardinality, Cardinality, Abstract!IsFiniteSet, IsFiniteSet

\* A console is taken in, or refused, under the limit's condition.
LEMMA AskedAbstractly ==
    ASSUME PtyInv, NEW s \in Sessions, Open(s) \/ Refused(s)
    PROVE  Abstract!Next
<1>1. server = "up" /\ UNCHANGED server /\ s \in {u \in Sessions : handler[u] = "new"}
  BY DEF Open, Refused, daemon
<1>2. {u \in Sessions : handler[u] = "new"}' = {u \in Sessions : handler[u] = "new"} \ {s}
  BY DEF Open, Refused, PtyInv, TypeOK
<1>3. CASE Open(s)
  <2>1. \A u \in Sessions : Runs(u)' <=> Runs(u) \/ u = s
    BY <1>3 DEF Open, PtyInv, TypeOK, Runs
  <2>2. {u \in Sessions : Runs(u)}' = {u \in Sessions : Runs(u)} \cup {s}
    BY <2>1
  <2>3. Abstract!Take(s)
    BY <1>1, <1>2, <1>3, <2>2, SameCardinality DEF Open, Abstract!Take
  <2> QED
    BY <2>3 DEF Abstract!Next
<1>4. CASE Refused(s)
  <2>1. {u \in Sessions : Runs(u)}' = {u \in Sessions : Runs(u)}
    BY <1>4 DEF Refused, kernel, Runs
  <2>2. Abstract!Refuse(s)
    BY <1>1, <1>2, <1>4, <2>1, SameCardinality DEF Refused, Abstract!Refuse
  <2> QED
    BY <2>2 DEF Abstract!Next
<1> QED
  BY <1>3, <1>4

LEMMA HandlerAbstractly ==
    ASSUME PtyInv, NEW s \in Sessions,
           Ready(s) \/ LeftByClient(s) \/ HandlerFails(s) \/ ClientLeaves(s)
    PROVE  [Abstract!Next]_Abstract!cvars
<1>1. UNCHANGED <<server, sessions, leader, group, master>>
  BY DEF Ready, LeftByClient, HandlerFails, Leave, ClientLeaves, daemon, kernel
<1>2. \A u \in Sessions : handler'[u] = "new" <=> handler[u] = "new"
  BY DEF Ready, LeftByClient, HandlerFails, Leave, ClientLeaves, PtyInv, TypeOK
<1>3. \A u \in Sessions : Runs(u)' <=> Runs(u)
  BY <1>1 DEF Runs
<1> QED
  BY <1>1, <1>2, <1>3, NothingStartsOrEnds

LEMMA ServerAbstractly ==
    ASSUME PtyInv, Interrupt \/ AutoExit \/ CloseAll \/ Clear \/ Tick
    PROVE  [Abstract!Next]_Abstract!cvars
<1>1. UNCHANGED <<handler, leader, group, master>>
  BY DEF Interrupt, AutoExit, CloseAll, Clear, Tick, ws, kernel
<1>2. \A u \in Sessions : (Runs(u)' <=> Runs(u))
                          /\ (handler'[u] = "new" <=> handler[u] = "new")
  BY <1>1 DEF Runs
<1>3. CASE Interrupt \/ AutoExit \/ CloseAll \/ Tick
  BY <1>2, <1>3, NothingStartsOrEnds DEF Interrupt, Interrupted, AutoExit, CloseAll, Tick, ws
<1>4. CASE Clear
  <2>1. \A u \in Sessions : ~Runs(u)
    BY <1>4 DEF Clear, PtyInv, Closed, NothingLeft, Runs
  <2>2. server # "up" /\ server' # "up" /\ sessions' = {}
    BY <1>4 DEF Clear
  <2>3. /\ {u \in Sessions : Runs(u)} = {}
        /\ {u \in Sessions : Runs(u)}' = {u \in Sessions : Runs(u)}
        /\ {u \in Sessions : handler[u] = "new"}' = {u \in Sessions : handler[u] = "new"}
    BY <1>2, <2>1
  <2>4. Abstract!Down
    BY <2>2, <2>3 DEF Abstract!Down
  <2> QED
    BY <2>4 DEF Abstract!Next
<1> QED
  BY <1>3, <1>4

\* The watchdog ends no console, but the kernel ends what is only the daemon's.
LEMMA ForceExitAbstractly ==
    ASSUME PtyInv, ForceExit
    PROVE  Abstract!Next
<1>1. /\ server # "up" /\ server' # "up" /\ UNCHANGED <<handler, sessions, group>>
      /\ master' = {}
      /\ \A u \in Sessions :
           leader'[u] = IF leader[u] = "zombie" THEN "reaped" ELSE leader[u]
  BY DEF ForceExit, ws
<1>2. \A u \in Sessions : Runs(u)' => Runs(u)
  BY <1>1 DEF Runs
<1>3. /\ {u \in Sessions : Runs(u)}' \subseteq {u \in Sessions : Runs(u)}
      /\ {u \in Sessions : handler[u] = "new"}' = {u \in Sessions : handler[u] = "new"}
  BY <1>1, <1>2
<1>4. Abstract!Cut
  BY <1>1, <1>3 DEF Abstract!Cut
<1> QED
  BY <1>4 DEF Abstract!Next

\* The consoles are what AbstractConsoles promises, for any number of sessions
\* and any limits: nothing of a console runs without a slot, a free slot is never
\* refused, and a shutdown is over when nothing runs.
THEOREM ConsolesImplementAbstract == Spec => ImplementsAbstractConsoles
<1>1. Init => Abstract!Init
  BY DEF Init, Abstract!Init, Runs
<1>2. PtyInv /\ [Next]_vars => [Abstract!Next]_Abstract!cvars
  <2>1. ASSUME PtyInv, Next PROVE [Abstract!Next]_Abstract!cvars
    BY <2>1, CloseStepAbstractly, ReaderCancelledAbstractly, ProcessOrRelayAbstractly,
       AskedAbstractly, HandlerAbstractly, ServerAbstractly, ForceExitAbstractly
       DEF Next, HandlerStep, CloseStep, ServerStep
  <2>2. ASSUME UNCHANGED vars PROVE [Abstract!Next]_Abstract!cvars
    BY <2>2, NothingStartsOrEnds DEF vars, daemon, ws, kernel, Runs
  <2> QED
    BY <2>1, <2>2
<1> QED
  BY <1>1, <1>2, PtyInvInvariant, PTL DEF Spec, ImplementsAbstractConsoles, Abstract!Spec

\* What SlotsReturned is violated by, for every instance: the slot of a session
\* whose handler has ended without giving it back is never free again before the
\* server is down, so each such session costs one of max_sessions for good.
THEOREM LeakedSlotsStay ==
    Spec => [][\A s \in Sessions : s \in sessions /\ handler[s] = "ended"
                                     => s \in sessions' \/ server' = "down"]_vars
<1>1. ASSUME PtyInv, Next, NEW s \in sessions, handler[s] = "ended"
      PROVE  s \in sessions' \/ server' = "down"
  <2>1. s \in Sessions
    BY <1>1 DEF PtyInv, TypeOK
  <2>2. ASSUME NEW u \in Sessions, Ends(u) PROVE s \in sessions'
    BY <1>1, <2>2 DEF Ends
  <2>3. ASSUME NEW u \in Sessions, NEW n, SignalGroup(u, n) PROVE s \in sessions'
    BY <1>1, <2>2, <2>3, SignalGroupDoes DEF GoesOn, PtyInv
  <2>4. ASSUME NEW u \in Sessions,
               CloseSession(u) \/ CloseNext(u) \/ TermAgain(u)
        PROVE  s \in sessions'
    BY <2>3, <2>4 DEF CloseSession, CloseNext, Close, TermAgain
  <2>5. ASSUME NEW u \in Sessions, WaitAgain(u) PROVE s \in sessions'
    BY <1>1, <2>2, <2>5, KillAndReapDoes, LookForChildDoes DEF WaitAgain, GoesOn
  <2>6. ASSUME NEW u \in Sessions, ReaderCancelled(u) PROVE s \in sessions'
    BY <1>1, <2>6 DEF ReaderCancelled, CloseReturns
  <2>7. ASSUME NEW u \in Sessions,
               \/ ProcessStep(u) \/ RelayStep(u) \/ ClientLeaves(u) \/ Open(u)
               \/ Refused(u) \/ Ready(u) \/ LeftByClient(u) \/ HandlerFails(u)
        PROVE  s \in sessions'
    BY <1>1, <2>7 DEF ProcessStep, Setsid, Exec, Spawns, ShellExits, OthersExit, RelayStep,
       ReadData, ReadFails, Forward, ForwardExit, ClientLeaves, Open, Refused, Ready,
       LeftByClient, HandlerFails, Leave, ws
  <2>8. CASE Interrupt \/ AutoExit \/ CloseAll \/ Clear \/ Tick \/ ForceExit
    BY <1>1, <2>8 DEF Interrupt, AutoExit, CloseAll, Clear, Tick, ForceExit, ws
  <2> QED
    BY <1>1, <2>4, <2>5, <2>6, <2>7, <2>8 DEF Next, HandlerStep, CloseStep, ServerStep
<1>2. PtyInv /\ [Next]_vars
        => [\A s \in Sessions : s \in sessions /\ handler[s] = "ended"
                                  => s \in sessions' \/ server' = "down"]_vars
  BY <1>1
<1> QED
  BY <1>2, PtyInvInvariant, PTL DEF Spec
=============================================================================
