---------------------------- MODULE LaunchProofs ----------------------------
(***************************************************************************)
(* What holds for any number of surf-ssh processes and ports.              *)
(***************************************************************************)
EXTENDS Launch, TLAPS

-----------------------------------------------------------------------------
(* Types.  Daemons and open commands do not share their places.            *)

OpenPlaces == {"naming", "appending", "searching", "removing"}
DaemonPlaces == {"checking", "testing", "probing", "unlinking", "listening",
                 "closing", "leaving"}

PlacesByKind ==
    /\ \A p \in Daemons : pc[p] \notin OpenPlaces
    /\ \A p \in Opens : pc[p] \notin DaemonPlaces
    /\ \A p \in Procs : pc[p] = "removing" => p \in Ephemeral

TInv == TypeOK /\ PlacesByKind

\* The actions of one process.
Actions(p) ==
    \/ Begin(p) \/ CleanUp(p) \/ AppendReads(p) \/ Append(p)
    \/ FindPort(p) \/ CheckHealth(p) \/ TestPort(p) \/ Bind(p)
    \/ Probe(p) \/ Unlink(p) \/ Listen(p) \/ HangUp(p) \/ Leave(p)
    \/ Stop(p) \/ Drained(p) \/ Remove(p) \/ Die(p)

LEMMA StepIsAction == \A p \in Procs : Step(p) => Actions(p)
BY DEF Step, Actions, EditStep, PortStep, SocketStep, EndStep

LEMMA TypeInit == Init => TInv
<1> SUFFICES ASSUME Init PROVE TInv
    OBVIOUS
<1>1. pc \in [Procs -> Places] /\ \A p \in Procs : pc[p] = "new"
    BY DEF Init, Places
<1>2. /\ status \in [Daemons -> {"none", "ok", "error", "lingered", "found", "killed"}]
      /\ copy \in [Procs -> SUBSET Opens] /\ tailCopy \in [Procs -> Opens \cup {Nobody, Ragged}]
      /\ before \in [Procs -> SUBSET Ephemeral]
    BY DEF Init
<1>3. \A n \in Ports : listener[n] = Nobody
    BY DEF Init
<1>4. listener \in [Ports -> Procs \cup {Nobody}]
    BY DEF Init
<1>5. TypeOK
    BY Kinds, <1>1, <1>2, <1>3, <1>4 DEF Init, TypeOK, Procs
<1>6. PlacesByKind
    BY <1>1 DEF PlacesByKind, OpenPlaces, DaemonPlaces, Procs
<1> QED
    BY <1>5, <1>6 DEF TInv

LEMMA TypeNext == TInv /\ [Next]_vars => TInv'
<1> SUFFICES ASSUME TInv, [Next]_vars PROVE TInv'
    OBVIOUS
<1> USE Kinds DEF TInv, TypeOK, PlacesByKind, Places, OpenPlaces, DaemonPlaces, Procs, Opens
<1>1. CASE UNCHANGED vars
    BY <1>1 DEF vars, fs, net, TInv, TypeOK, PlacesByKind
<1>2. ASSUME NEW p \in Procs, Step(p), Observe(p) PROVE TInv'
    <2>0. raced' \in BOOLEAN /\ mixed' \subseteq Daemons /\ before' \in [Procs -> SUBSET Ephemeral]
        BY <1>2 DEF Observe
    <2> USE <2>0 DEF Goto, Exits, net, fs, Read, Replace, Marked, LeavesConnections
    <2>1. CASE Begin(p)
        BY <2>1 DEF Begin, AfterCleanup
    <2>2. CASE CleanUp(p)
        BY <2>2 DEF CleanUp, AfterCleanup
    <2>3. CASE AppendReads(p)
        BY <2>3 DEF AppendReads
    <2>4. CASE Append(p)
        BY <2>4 DEF Append
    <2>5. CASE FindPort(p)
        BY <2>5 DEF FindPort
    <2>6. CASE CheckHealth(p)
        BY <2>6 DEF CheckHealth
    <2>7. CASE TestPort(p)
        BY <2>7 DEF TestPort
    <2>8. CASE Bind(p)
        BY <2>8 DEF Bind, Finish
    <2>9. CASE Probe(p)
        BY <2>9 DEF Probe
    <2>10. CASE Unlink(p)
        BY <2>10 DEF Unlink
    <2>11. CASE Listen(p)
        BY <2>11 DEF Listen
    <2>12. CASE HangUp(p)
        BY <2>12 DEF HangUp
    <2>13. CASE Leave(p)
        BY <2>13 DEF Leave
    <2>14. CASE Stop(p)
        BY <2>14 DEF Stop
    <2>15. CASE Drained(p)
        BY <2>15 DEF Drained, Finish
    <2>16. CASE Remove(p)
        BY <2>16 DEF Remove
    <2>17. CASE Die(p)
        <3>1. lingering' \subseteq Ports
            <4>1. chosen[p] \in Ports /\ lingering \subseteq Ports
                OBVIOUS
            <4>2. lingering' = lingering \/ lingering' = lingering \cup {chosen[p]}
                BY <2>17 DEF Die
            <4> HIDE DEF TInv, TypeOK
            <4>3. {chosen[p]} \subseteq Ports
                BY <4>1
            <4> QED
                BY <4>1, <4>2, <4>3, Zenon
        <3>2. listener' \in [Ports -> Procs \cup {Nobody}] /\ accepting' \subseteq Daemons
            BY <2>17 DEF Die
        <3>3. /\ copy' \in [Procs -> SUBSET Opens]
              /\ tailCopy' \in [Procs -> Opens \cup {Nobody, Ragged}]
            BY <2>17 DEF Die
        <3>4. /\ pc' = [pc EXCEPT ![p] = "gone"] /\ UNCHANGED <<chosen, config, tail, lost, sock>>
              /\ status' \in [Daemons -> {"none", "ok", "error", "lingered", "found", "killed"}]
            BY <2>17 DEF Die
        <3>5. \A n \in Ports, q \in Procs :
                 listener'[n] = q <=> pc'[q] = "serving" /\ chosen'[q] = n
            BY <2>17, <3>4 DEF Die
        <3>6. \A q \in Daemons : q \in accepting' <=>
                 pc'[q] \in {"binding", "serving", "draining", "closing"}
            BY <2>17, <3>4 DEF Die
        <3> QED
            BY <3>1, <3>2, <3>3, <3>4, <3>5, <3>6
    <2> QED
        BY <1>2, StepIsAction, <2>1, <2>2, <2>3, <2>4, <2>5, <2>6, <2>7, <2>8, <2>9, <2>10,
           <2>11, <2>12, <2>13, <2>14, <2>15, <2>16, <2>17 DEF Actions
<1>3. ASSUME NEW n \in Ports, Forgotten(n) PROVE TInv'
    BY <1>3 DEF Forgotten, fs
<1> QED
    BY <1>1, <1>2, <1>3 DEF Next

\* The variables of every instance have their types; ports and control servers
\* are held exactly by the processes that are in the right place.
THEOREM LaunchTypeCorrect == Spec => []TypeOK
<1>1. TInv => TypeOK
    BY DEF TInv
<1> QED
    BY <1>1, TypeInit, TypeNext, PTL DEF Spec

-----------------------------------------------------------------------------
(* The control socket.  A daemon holds it from Listen to HangUp.  As long  *)
(* as no two processes have been in the window at once, nobody is in it    *)
(* while the socket is held: a process enters it by finding nobody that    *)
(* accepts, or by giving the socket up.                                    *)

Held(p) == pc[p] \in {"binding", "serving", "draining", "closing"}

SocketInv == ~raced =>
    /\ \A p, q \in Daemons : InWindow(pc[p]) /\ InWindow(pc[q]) => p = q
    /\ \A p \in Daemons : Held(p) => sock = p
    /\ \A p, q \in Daemons : InWindow(pc[p]) => ~Held(q)

LEMMA SocketInit == Init => SocketInv
BY DEF Init, SocketInv, InWindow, Held, Procs

LEMMA SocketNext == TInv /\ SocketInv /\ [Next]_vars => SocketInv'
<1> SUFFICES ASSUME TInv, SocketInv, [Next]_vars, ~raced' PROVE SocketInv'
    BY DEF SocketInv
<1> USE Kinds DEF SocketInv, InWindow, Held, TInv, TypeOK, PlacesByKind, Places, OpenPlaces,
        DaemonPlaces, Procs, Opens
<1>1. CASE UNCHANGED vars
    BY <1>1 DEF vars, net
<1>2. ASSUME NEW p \in Procs, Step(p), Observe(p) PROVE SocketInv'
    <2>0. ~raced /\ \A q \in Procs \ {p} : ~(InWindow(pc'[p]) /\ InWindow(pc[q]))
        BY <1>2 DEF Observe
    <2> USE <2>0 DEF Goto, Exits, net, fs, Marked, LeavesConnections
    <2>1. CASE Begin(p)
        BY <2>1 DEF Begin, AfterCleanup
    <2>2. CASE CleanUp(p)
        BY <2>2 DEF CleanUp, AfterCleanup
    <2>3. CASE AppendReads(p)
        BY <2>3 DEF AppendReads
    <2>4. CASE Append(p)
        BY <2>4 DEF Append
    <2>5. CASE FindPort(p)
        BY <2>5 DEF FindPort
    <2>6. CASE CheckHealth(p)
        BY <2>6 DEF CheckHealth
    <2>7. CASE TestPort(p)
        BY <2>7 DEF TestPort
    <2>8. CASE Bind(p)
        BY <2>8 DEF Bind, Finish
    <2>9. CASE Probe(p)
        BY <2>9 DEF Probe
    <2>10. CASE Unlink(p)
        BY <2>10 DEF Unlink
    <2>11. CASE Listen(p)
        BY <2>11 DEF Listen
    <2>12. CASE HangUp(p)
        BY <2>12 DEF HangUp
    <2>13. CASE Leave(p)
        BY <2>13 DEF Leave
    <2>14. CASE Stop(p)
        BY <2>14 DEF Stop
    <2>15. CASE Drained(p)
        BY <2>15 DEF Drained, Finish
    <2>16. CASE Remove(p)
        BY <2>16 DEF Remove
    <2>17. CASE Die(p)
        BY <2>17 DEF Die, Running
    <2> QED
        BY <1>2, StepIsAction, <2>1, <2>2, <2>3, <2>4, <2>5, <2>6, <2>7, <2>8, <2>9, <2>10,
           <2>11, <2>12, <2>13, <2>14, <2>15, <2>16, <2>17 DEF Actions
<1>3. ASSUME NEW n \in Ports, Forgotten(n) PROVE SocketInv'
    BY <1>3 DEF Forgotten, fs
<1> QED
    BY <1>1, <1>2, <1>3 DEF Next

\* "The daemon listens on a local control channel": the socket leads to the daemon
\* that serves, unless two processes changed it at once.
THEOREM ServingDaemonsAreReachable == Spec => []ServingDaemonReachable
<1>1. TInv /\ SocketInv => ServingDaemonReachable
    BY DEF TInv, TypeOK, SocketInv, Held, ServingDaemonReachable
<1> QED
    BY <1>1, TypeInit, TypeNext, SocketInit, SocketNext, PTL DEF Spec

\* "If a live daemon still owns it, refuse to steal it": whatever ports daemons
\* ask for, the socket lets one of them serve at a time.
THEOREM AtMostOneDaemon == Spec => []OneDaemon
<1>1. SocketInv => OneDaemon
    BY DEF SocketInv, Held, OneDaemon
<1> QED
    BY <1>1, TypeInit, TypeNext, SocketInit, SocketNext, PTL DEF Spec

-----------------------------------------------------------------------------
(* The marked blocks.  An edit that overwrites nothing adds or removes     *)
(* what the editing process is entitled to, and a process that has ended   *)
(* edits no more.                                                          *)

ConfigInv ==
    /\ \A p, q \in Procs : q \in before[p] => pc[q] = "gone"
    /\ \A p \in Procs : pc[p] = "new" => before[p] = {}
    /\ LeftoversRemoved

LEMMA ConfigInit == Init => ConfigInv
BY DEF Init, ConfigInv, LeftoversRemoved

LEMMA ConfigNext == TInv /\ ConfigInv /\ [Next]_vars => ConfigInv'
<1> SUFFICES ASSUME TInv, ConfigInv, [Next]_vars PROVE ConfigInv'
    OBVIOUS
<1> USE Kinds DEF ConfigInv, LeftoversRemoved, TInv, TypeOK, PlacesByKind, Places, OpenPlaces,
        DaemonPlaces, Procs, Opens
<1>1. CASE UNCHANGED vars
    BY <1>1 DEF vars, fs
<1>2. ASSUME NEW p \in Procs, Step(p), Observe(p) PROVE ConfigInv'
    <2> USE <1>2 DEF Goto, Exits, net, fs, Read, Replace, Observe, Running, Marked
    <2>1. CASE Begin(p)
        BY <2>1 DEF Begin, AfterCleanup
    <2>2. CASE CleanUp(p)
        BY <2>2 DEF CleanUp, AfterCleanup
    <2>3. CASE AppendReads(p)
        BY <2>3 DEF AppendReads
    <2>4. CASE Append(p)
        <3>1. before' = before /\ pc' = [pc EXCEPT ![p] = "searching"]
            BY <2>4 DEF Append
        <3>2. ~lost' => /\ ~lost /\ config' = config \cup {p}
                        /\ tail' = IF tail = Ragged THEN p ELSE tail
            BY <2>4 DEF Append
        <3>3. \A q \in Procs : p \notin before[q]
            BY <2>4 DEF Append
        <3> QED
            <4>1. \A q, x \in Procs : x \in before'[q] => pc'[x] = "gone"
                BY <1>2, <2>4, <3>1, <3>3 DEF Append
            <4>2. \A q \in Procs : pc'[q] = "new" => before'[q] = {}
                BY <3>1
            <4>3. ASSUME NEW q \in Procs, pc'[q] \notin {"new", "cleaning", "gone"}, ~lost',
                         NEW x \in before'[q], x \in config', x # tail'
                  PROVE  FALSE
                <5>1. x # p /\ x \in before[q] /\ x \in config /\ ~lost
                    BY <3>1, <3>2, <3>3, <4>3
                <5>2. x # tail
                    BY <3>2, <4>3
                <5>3. pc[q] \notin {"new", "cleaning", "gone"}
                    BY <2>4, <3>1, <4>3 DEF Append
                <5> QED
                    BY <5>1, <5>2, <5>3
            <4> QED
                BY <4>1, <4>2, <4>3
    <2>5. CASE FindPort(p)
        BY <2>5 DEF FindPort
    <2>6. CASE CheckHealth(p)
        BY <2>6 DEF CheckHealth
    <2>7. CASE TestPort(p)
        BY <2>7 DEF TestPort
    <2>8. CASE Bind(p)
        BY <2>8 DEF Bind, Finish
    <2>9. CASE Probe(p)
        BY <2>9 DEF Probe
    <2>10. CASE Unlink(p)
        BY <2>10 DEF Unlink
    <2>11. CASE Listen(p)
        BY <2>11 DEF Listen
    <2>12. CASE HangUp(p)
        BY <2>12 DEF HangUp
    <2>13. CASE Leave(p)
        BY <2>13 DEF Leave
    <2>14. CASE Stop(p)
        BY <2>14 DEF Stop
    <2>15. CASE Drained(p)
        BY <2>15 DEF Drained, Finish
    <2>16. CASE Remove(p)
        <3>1. before' = before /\ pc' = [pc EXCEPT ![p] = "gone"]
            BY <2>16 DEF Remove
        <3>2. ~lost' => ~lost /\ config' = config \ {p} /\ tail' = tail
            BY <2>16 DEF Remove
        <3> QED
            BY <2>16, <3>1, <3>2 DEF Remove
    <2>17. CASE Die(p)
        BY <2>17 DEF Die, Running
    <2> QED
        BY <1>2, StepIsAction, <2>1, <2>2, <2>3, <2>4, <2>5, <2>6, <2>7, <2>8, <2>9, <2>10,
           <2>11, <2>12, <2>13, <2>14, <2>15, <2>16, <2>17 DEF Actions
<1>3. ASSUME NEW n \in Ports, Forgotten(n) PROVE ConfigInv'
    BY <1>3 DEF Forgotten, fs
<1> QED
    BY <1>1, <1>2, <1>3 DEF Next

\* "Startup pass covers crashes": a process past its cleanup sees no leftover of a
\* process that ended before it started, unless an edit overwrote another one.
THEOREM LeftoversAreRemoved == Spec => []LeftoversRemoved
<1>1. ConfigInv => LeftoversRemoved
    BY DEF ConfigInv
<1> QED
    BY <1>1, TypeInit, TypeNext, ConfigInit, ConfigNext, PTL DEF Spec

LEMMA SavedStep ==
    TInv /\ [Next]_vars => [~lost' => config \cap Saved \subseteq config']_vars
<1> SUFFICES ASSUME TInv, [Next]_vars, ~lost' PROVE config \cap Saved \subseteq config'
    OBVIOUS
<1> USE Kinds DEF TInv, TypeOK, PlacesByKind, Places, OpenPlaces, DaemonPlaces, Procs, Opens
<1>1. CASE UNCHANGED vars
    BY <1>1 DEF vars, fs
<1>2. ASSUME NEW p \in Procs, Step(p) PROVE config \cap Saved \subseteq config'
    <2> USE DEF Goto, Exits, net, fs, Read, Replace, Marked
    <2>1. CASE Begin(p)
        BY <2>1 DEF Begin, AfterCleanup
    <2>2. CASE CleanUp(p)
        BY <2>2 DEF CleanUp, AfterCleanup
    <2>3. CASE AppendReads(p)
        BY <2>3 DEF AppendReads
    <2>4. CASE Append(p)
        BY <2>4 DEF Append
    <2>5. CASE FindPort(p)
        BY <2>5 DEF FindPort
    <2>6. CASE CheckHealth(p)
        BY <2>6 DEF CheckHealth
    <2>7. CASE TestPort(p)
        BY <2>7 DEF TestPort
    <2>8. CASE Bind(p)
        BY <2>8 DEF Bind, Finish
    <2>9. CASE Probe(p)
        BY <2>9 DEF Probe
    <2>10. CASE Unlink(p)
        BY <2>10 DEF Unlink
    <2>11. CASE Listen(p)
        BY <2>11 DEF Listen
    <2>12. CASE HangUp(p)
        BY <2>12 DEF HangUp
    <2>13. CASE Leave(p)
        BY <2>13 DEF Leave
    <2>14. CASE Stop(p)
        BY <2>14 DEF Stop
    <2>15. CASE Drained(p)
        BY <2>15 DEF Drained, Finish
    <2>16. CASE Remove(p)
        BY <2>16 DEF Remove
    <2>17. CASE Die(p)
        BY <2>17 DEF Die, Running
    <2> QED
        BY <1>2, StepIsAction, <2>1, <2>2, <2>3, <2>4, <2>5, <2>6, <2>7, <2>8, <2>9, <2>10,
           <2>11, <2>12, <2>13, <2>14, <2>15, <2>16, <2>17 DEF Actions
<1>3. ASSUME NEW n \in Ports, Forgotten(n) PROVE config \cap Saved \subseteq config'
    BY <1>3 DEF Forgotten, fs
<1> QED
    BY <1>1, <1>2, <1>3 DEF Next

\* "Saved permanently": no cleanup, removal or crash takes a saved block away,
\* unless an edit overwrote another one.
THEOREM SavedEntriesAreKept == Spec => SavedEntriesKept
BY TypeInit, TypeNext, SavedStep, PTL DEF Spec, SavedEntriesKept

-----------------------------------------------------------------------------
(* A process that runs alone finds nobody but itself behind the ports and  *)
(* the socket, and the file it has just removed stays away.                *)

AloneInv ==
    /\ \A p \in Daemons, q \in Procs : p # q /\ Running(p) /\ Running(q) => p \in mixed
    /\ \A p \in Daemons \ mixed : pc[p] = "listening" => sock = Nobody
    /\ SoleStartSucceeds

LEMMA AloneInit == Init => AloneInv
BY DEF Init, AloneInv, SoleStartSucceeds, Running, Procs

LEMMA ServedByAnother ==
    ASSUME TInv, AloneInv, NEW p \in Daemons, Running(p), pc[p] # "serving",
           listener[chosen[p]] # Nobody
    PROVE  p \in mixed
<1> DEFINE q == listener[chosen[p]]
<1>1. chosen[p] \in Ports
    BY DEF TInv, TypeOK, Procs
<1>2. q \in Procs
    BY <1>1 DEF TInv, TypeOK
<1>3. pc[q] = "serving"
    BY <1>1, <1>2 DEF TInv, TypeOK
<1>4. q # p /\ Running(q)
    BY <1>3 DEF Running
<1> QED
    BY <1>2, <1>4 DEF AloneInv

LEMMA AloneNext == TInv /\ AloneInv /\ [Next]_vars => AloneInv'
<1> SUFFICES ASSUME TInv, AloneInv, [Next]_vars PROVE AloneInv'
    OBVIOUS
<1> USE Kinds DEF AloneInv, SoleStartSucceeds, Running, TInv, TypeOK, PlacesByKind, Places,
        OpenPlaces, DaemonPlaces, Procs, Opens
<1>1. CASE UNCHANGED vars
    BY <1>1 DEF vars, net
<1>2. ASSUME NEW p \in Procs, Step(p), Observe(p) PROVE AloneInv'
    <2> USE <1>2 DEF Goto, Exits, net, fs, Observe
    <2>1. CASE Begin(p)
        BY <2>1 DEF Begin, AfterCleanup
    <2>2. CASE CleanUp(p)
        BY <2>2 DEF CleanUp, AfterCleanup
    <2>3. CASE AppendReads(p)
        BY <2>3 DEF AppendReads
    <2>4. CASE Append(p)
        BY <2>4 DEF Append
    <2>5. CASE FindPort(p)
        BY <2>5 DEF FindPort
    <2>6. CASE CheckHealth(p)
        BY <2>6, ServedByAnother DEF CheckHealth
    <2>7. CASE TestPort(p)
        BY <2>7, ServedByAnother DEF TestPort
    <2>8. CASE Bind(p)
        BY <2>8 DEF Bind, Finish
    <2>9. CASE Probe(p)
        BY <2>9 DEF Probe
    <2>10. CASE Unlink(p)
        BY <2>10 DEF Unlink
    <2>11. CASE Listen(p)
        BY <2>11 DEF Listen
    <2>12. CASE HangUp(p)
        BY <2>12 DEF HangUp
    <2>13. CASE Leave(p)
        BY <2>13 DEF Leave
    <2>14. CASE Stop(p)
        BY <2>14 DEF Stop
    <2>15. CASE Drained(p)
        BY <2>15 DEF Drained, Finish
    <2>16. CASE Remove(p)
        BY <2>16 DEF Remove
    <2>17. CASE Die(p)
        BY <2>17 DEF Die
    <2> QED
        BY <1>2, StepIsAction, <2>1, <2>2, <2>3, <2>4, <2>5, <2>6, <2>7, <2>8, <2>9, <2>10,
           <2>11, <2>12, <2>13, <2>14, <2>15, <2>16, <2>17 DEF Actions
<1>3. ASSUME NEW n \in Ports, Forgotten(n) PROVE AloneInv'
    BY <1>3 DEF Forgotten, fs
<1> QED
    BY <1>1, <1>2, <1>3 DEF Next

\* "Otherwise remove the corpse": of all that stopped and killed processes leave
\* behind, only connections of its own port make a daemon fail that is started alone.
THEOREM SoleStartsSucceed == Spec => []SoleStartSucceeds
<1>1. AloneInv => SoleStartSucceeds
    BY DEF AloneInv
<1> QED
    BY <1>1, TypeInit, TypeNext, AloneInit, AloneNext, PTL DEF Spec
=============================================================================
