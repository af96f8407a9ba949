------------------------------ MODULE LocalPty ------------------------------
(***************************************************************************)
(* Local consoles: api/local_terminal.py and daemon/local_pty.py on Unix.  *)
(*                                                                         *)
(* Each session is a WebSocket handler, a shell in a process group of its  *)
(* own behind a PTY, a read loop whose os.read runs in an executor thread, *)
(* a task that forwards the output, and close, which the handler or the    *)
(* shutdown's close_all runs.  One action is the code between two awaits,  *)
(* or a step of a process.  The kernel is Linux: reading the master of a   *)
(* PTY that nobody holds any more fails, it does not return end of file.   *)
(***************************************************************************)
EXTENDS Naturals, FiniteSets

CONSTANTS
    Sessions,      \* WebSocket connections
    MaxSessions,   \* max_sessions of the registry
    TermTries,     \* attempts to find the process group
    WaitTries,     \* looks at the child after SIGTERM
    SetsidWithin,  \* the attempts after which a new child has called setsid
    SignalPatience, ExitPatience  \* the watchdog's delays, in sleeps of close()

ASSUME Bounds ==
    /\ {MaxSessions, TermTries, WaitTries} \subseteq Nat \ {0}
    /\ {SetsidWithin, SignalPatience, ExitPatience} \subseteq Nat

VARIABLES
    server,      \* uvicorn and the lifespan's shutdown
    cause,       \* what the shutdown was begun, or hastened, by
    patience,    \* the sleeps that are left before the watchdog ends the process
    handler,     \* local_terminal_ws of each session
    client,      \* sessions whose browser is connected
    sessions,    \* _sessions of the registry
    leader,      \* the forked child, which becomes the session's shell
    group,       \* sessions with other processes in the shell's group
    master,      \* sessions whose master_fd is open
    reader,      \* _read_loop
    queued,      \* sessions with output in _output_queue
    output,      \* forward_output
    closing,     \* where close() is; "no" while _closed is False
    tries,       \* the round of close()'s current loop
    slept        \* sessions whose sleep in it is over

ws     == <<handler, client, sessions>>
kernel == <<leader, group, master>>
relay  == <<reader, queued, output>>
killer == <<closing, tries, slept>>
daemon == <<server, cause, patience>>
vars   == <<daemon, ws, kernel, relay, killer>>

Init ==
    /\ server = "up" /\ cause = "none" /\ patience = ExitPatience
    /\ handler = [s \in Sessions |-> "new"]
    /\ client = Sessions
    /\ sessions = {}
    /\ leader = [s \in Sessions |-> "none"]
    /\ group = {}
    /\ master = {}
    /\ reader = [s \in Sessions |-> "none"]
    /\ queued = {}
    /\ output = [s \in Sessions |-> "none"]
    /\ closing = [s \in Sessions |-> "no"]
    /\ tries = [s \in Sessions |-> 0]
    /\ slept = {}

\* A waitpid without WNOHANG stops the event loop while the child is alive; the
\* model does not follow such a daemon further.
LoopRuns == \A s \in Sessions : closing[s] # "blocked"

-----------------------------------------------------------------------------
(* The processes. *)

Alive(s) == leader[s] \in {"forked", "grouped", "shell"}

\* killpg finds a group while any member, a zombie included, is left.
GroupExists(s) == leader[s] \in {"grouped", "shell", "zombie"} \/ s \in group

Setsid(s) ==
    /\ leader[s] = "forked"
    /\ leader' = [leader EXCEPT ![s] = "grouped"]
    /\ UNCHANGED <<daemon, ws, group, master, relay, killer>>

Exec(s) ==
    /\ leader[s] = "grouped"
    /\ leader' = [leader EXCEPT ![s] = "shell"]
    /\ UNCHANGED <<daemon, ws, group, master, relay, killer>>

Spawns(s) ==
    /\ leader[s] = "shell"
    /\ group' = group \cup {s}
    /\ UNCHANGED <<daemon, ws, leader, master, relay, killer>>

ShellExits(s) ==
    /\ leader[s] = "shell"
    /\ leader' = [leader EXCEPT ![s] = "zombie"]
    /\ UNCHANGED <<daemon, ws, group, master, relay, killer>>

OthersExit(s) ==
    /\ s \in group
    /\ group' = group \ {s}
    /\ UNCHANGED <<daemon, ws, leader, master, relay, killer>>

ProcessStep(s) == Setsid(s) \/ Exec(s) \/ Spawns(s) \/ ShellExits(s) \/ OthersExit(s)

-----------------------------------------------------------------------------
(* close().  The session's next step after _terminate_pgrp is part of the  *)
(* step that ends it, as there is no await in between.                     *)

Goto(s, where, n) ==
    /\ closing' = [closing EXCEPT ![s] = where]
    /\ tries' = [tries EXCEPT ![s] = n]
    /\ slept' = slept \ {s}

\* The end of close(), and of the handler if it is the one that called it.
CloseReturns(s) ==
    /\ Goto(s, "done", 0)
    /\ IF handler[s] = "leaving"
         THEN handler' = [handler EXCEPT ![s] = "ended"] /\ sessions' = sessions \ {s}
         ELSE UNCHANGED <<handler, sessions>>

\* os.close, then the read task is cancelled unless it is done.
CloseMaster(s) ==
    /\ master' = master \ {s}
    /\ IF reader[s] = "ended" THEN CloseReturns(s)
       ELSE Goto(s, "reader", 0) /\ UNCHANGED <<handler, sessions>>

ReturnIfReaped(s, l) ==  \* mutant: a child that went in time ends the procedure
    IF l = "zombie"
      THEN leader' = [leader EXCEPT ![s] = "reaped"] /\ UNCHANGED group /\ CloseMaster(s)
      ELSE /\ leader' = [leader EXCEPT ![s] = "reaped"]
           /\ group' = group \ {s}
           /\ CloseMaster(s)

\* SIGKILL to what is left of the group, and a blocking waitpid for a leader
\* that l says has not been reaped.
KillAndReap(s, l) ==
    IF l = "forked"
      THEN /\ leader' = [leader EXCEPT ![s] = l]
           /\ Goto(s, "blocked", 0)
           /\ UNCHANGED <<group, master, handler, sessions>>
      ELSE /\ leader' = [leader EXCEPT ![s] = "reaped"]
           /\ group' = group \ {s}
           /\ CloseMaster(s)

\* One look at the child, which may have died of SIGTERM or ignores it.
LookForChild(s, l, n) ==
    IF l \in {"zombie", "reaped"}
      THEN KillAndReap(s, l)
      ELSE /\ leader' = [leader EXCEPT ![s] = l]
           /\ Goto(s, "wait", n)
           /\ UNCHANGED <<group, master, handler, sessions>>

\* _on_sigint: the watchdog of a signal is added to that of the auto-exit.
Interrupted ==
    /\ server' = IF server = "up" THEN "stopping" ELSE server
    /\ cause' = "signal"
    /\ patience' = IF patience > SignalPatience THEN SignalPatience ELSE patience

\* Before it executes the shell, the child has the daemon's signal handlers
\* and shares the pipe that wakes its event loop: SIGTERM does not end it,
\* and may be taken by the daemon for its own.
SendTerm(s) ==
    /\ \E l \in {leader[s]} \cup (IF leader[s] = "shell" THEN {"zombie"} ELSE {}) :
          LookForChild(s, l, 1)
    /\ \/ UNCHANGED daemon
       \/ leader[s] \in {"forked", "grouped"} /\ Interrupted

GiveUpAtOnce(s, n) ==  \* mutant: no second look for the group
    IF GroupExists(s) THEN SendTerm(s)
    ELSE /\ UNCHANGED daemon
         /\ IF leader[s] = "reaped"
              THEN UNCHANGED <<leader, group>> /\ CloseMaster(s)
              ELSE LookForChild(s, "forked", WaitTries)

\* Round n of the first loop: no group yet, no child any more, or SIGTERM.
SignalGroup(s, n) ==
    IF GroupExists(s) \/ n = TermTries THEN SendTerm(s)
    ELSE /\ UNCHANGED <<daemon, leader, group>>
         /\ IF leader[s] = "reaped" THEN CloseMaster(s)
            ELSE /\ Goto(s, "term", n + 1)
                 /\ UNCHANGED <<master, handler, sessions>>

\* The next round, after a sleep.  SetsidWithin is the promptness of fork.
TermAgain(s) ==
    /\ LoopRuns /\ closing[s] = "term" /\ s \in slept
    /\ leader[s] = "forked" => tries[s] < SetsidWithin
    /\ SignalGroup(s, tries[s])
    /\ UNCHANGED <<client, relay>>

WaitUncounted(s) ==  \* mutant: the rounds are not counted
    /\ LoopRuns /\ closing[s] = "wait" /\ s \in slept
    /\ LookForChild(s, leader[s], tries[s] + 1)
    /\ UNCHANGED <<daemon, client, relay>>

WaitForEver(s) ==  \* mutant: waits until the shell is gone
    /\ LoopRuns /\ closing[s] = "wait" /\ s \in slept
    /\ LookForChild(s, leader[s], tries[s])
    /\ UNCHANGED <<daemon, client, relay>>

WaitAgain(s) ==
    /\ LoopRuns /\ closing[s] = "wait" /\ s \in slept
    /\ IF tries[s] = WaitTries THEN KillAndReap(s, leader[s])
       ELSE LookForChild(s, leader[s], tries[s] + 1)
    /\ UNCHANGED <<daemon, client, relay>>

\* The cancelled read task puts its end mark and is done.
ReaderCancelled(s) ==
    /\ LoopRuns /\ closing[s] = "reader"
    /\ reader' = [reader EXCEPT ![s] = "ended"]
    /\ CloseReturns(s)
    /\ UNCHANGED <<daemon, client, kernel, queued, output>>

CloseStep(s) == TermAgain(s) \/ WaitAgain(s) \/ ReaderCancelled(s)

-----------------------------------------------------------------------------
(* The read loop and the forwarding task. *)

\* A session that is being closed leaves the loop, and may reap the child.
ReadData(s) ==
    /\ LoopRuns /\ reader[s] = "reading" /\ closing[s] # "reader"
    /\ s \notin queued
    /\ queued' = queued \cup {s}
    /\ IF closing[s] = "no" THEN UNCHANGED <<reader, leader>>
       ELSE /\ reader' = [reader EXCEPT ![s] = "ended"]
            /\ leader' = [leader EXCEPT ![s] = IF @ = "zombie" THEN "reaped" ELSE @]
    /\ UNCHANGED <<daemon, ws, group, master, output, killer>>

\* EIO, which ends the loop without a look at the child.
ReadFails(s) ==
    /\ LoopRuns /\ reader[s] = "reading" /\ closing[s] # "reader"
    /\ ~Alive(s) /\ s \notin group
    /\ reader' = [reader EXCEPT ![s] = "ended"]
    /\ UNCHANGED <<daemon, ws, kernel, queued, output, killer>>

\* Sending to a client that has gone raises, and ends the task.
Forward(s) ==
    /\ LoopRuns /\ output[s] = "forwarding" /\ s \in queued
    /\ queued' = queued \ {s}
    /\ output' = [output EXCEPT ![s] = IF s \in client THEN @ ELSE "failed"]
    /\ UNCHANGED <<daemon, ws, kernel, reader, killer>>

ForwardExit(s) ==
    /\ LoopRuns /\ output[s] = "forwarding" /\ s \notin queued /\ reader[s] = "ended"
    /\ output' = [output EXCEPT ![s] = IF s \in client THEN "exited" ELSE "failed"]
    /\ UNCHANGED <<daemon, ws, kernel, reader, queued, killer>>

RelayStep(s) == ReadData(s) \/ ReadFails(s) \/ Forward(s) \/ ForwardExit(s)

-----------------------------------------------------------------------------
(* The handler. *)

Refused(s) ==
    /\ LoopRuns /\ server = "up" /\ handler[s] = "new"
    /\ Cardinality(sessions) >= MaxSessions
    /\ handler' = [handler EXCEPT ![s] = "ended"]
    /\ UNCHANGED <<daemon, client, sessions, kernel, relay, killer>>

\* acquire_slot, register and start, up to the sending of "ready".
Open(s) ==
    /\ LoopRuns /\ server = "up" /\ handler[s] = "new"
    /\ Cardinality(sessions) < MaxSessions
    /\ sessions' = sessions \cup {s}
    /\ handler' = [handler EXCEPT ![s] = "starting"]
    /\ leader' = [leader EXCEPT ![s] = "forked"]
    /\ master' = master \cup {s}
    /\ reader' = [reader EXCEPT ![s] = "reading"]
    /\ UNCHANGED <<daemon, client, group, queued, output, killer>>

Ready(s) ==
    /\ LoopRuns /\ handler[s] = "starting" /\ s \in client
    /\ handler' = [handler EXCEPT ![s] = "serving"]
    /\ output' = [output EXCEPT ![s] = "forwarding"]
    /\ UNCHANGED <<daemon, client, sessions, kernel, reader, queued, killer>>

LeaveUnregistered(s) ==  \* mutant: the slot is given back before the shell is gone
    /\ LoopRuns /\ handler[s] \in {"starting", "serving"}
    /\ IF output[s] = "failed" THEN handler' = [handler EXCEPT ![s] = "ended"]
       ELSE handler' = [handler EXCEPT ![s] = "leaving"]
    /\ sessions' = sessions \ {s}
    /\ output' = [output EXCEPT ![s] = IF @ = "forwarding" THEN "cancelled" ELSE @]
    /\ UNCHANGED <<daemon, client, kernel, reader, queued, killer>>

\* The finally clause, up to the await of the cancelled output task.  If that
\* has failed, its exception ends the clause: nothing is closed or unregistered.
Leave(s) ==
    /\ LoopRuns /\ handler[s] \in {"starting", "serving"}
    /\ IF output[s] = "failed" THEN handler' = [handler EXCEPT ![s] = "ended"]
       ELSE handler' = [handler EXCEPT ![s] = "leaving"]
    /\ output' = [output EXCEPT ![s] = IF @ = "forwarding" THEN "cancelled" ELSE @]
    /\ UNCHANGED <<daemon, client, sessions, kernel, reader, queued, killer>>

\* WebSocketDisconnect.
LeftByClient(s) == s \notin client /\ Leave(s)

\* A message that is not JSON, or an error of write or resize.
HandlerFails(s) == s \in client /\ handler[s] = "serving" /\ Leave(s)

\* close() and its first round.
Close(s) ==
    /\ LoopRuns /\ closing[s] = "no"
    /\ SignalGroup(s, 0)
    /\ UNCHANGED <<client, relay>>

CloseSession(s) == handler[s] = "leaving" /\ Close(s)

ClientLeaves(s) ==
    /\ s \in client /\ handler[s] # "new"
    /\ client' = client \ {s}
    /\ UNCHANGED <<daemon, handler, sessions, kernel, relay, killer>>

HandlerStep(s) ==
    \/ Refused(s) \/ Open(s) \/ Ready(s)
    \/ LeftByClient(s) \/ HandlerFails(s) \/ CloseSession(s)

-----------------------------------------------------------------------------
(* Shutdown.  uvicorn closes the WebSockets, and the lifespan goes on when *)
(* their handlers have ended.                                              *)

\* Ctrl+C, or the SIGTERM of a service manager.
Interrupt ==
    /\ LoopRuns /\ cause # "signal"
    /\ Interrupted
    /\ UNCHANGED <<ws, kernel, relay, killer>>

AutoExitInHaste ==  \* mutant: with the watchdog of a signal
    /\ LoopRuns /\ server = "up"
    /\ server' = "stopping" /\ cause' = "auto-exit" /\ patience' = SignalPatience
    /\ UNCHANGED <<ws, kernel, relay, killer>>

AutoExit ==
    /\ LoopRuns /\ server = "up"
    /\ server' = "stopping" /\ cause' = "auto-exit" /\ patience' = ExitPatience
    /\ UNCHANGED <<ws, kernel, relay, killer>>

CloseAll ==
    /\ LoopRuns /\ server = "stopping"
    /\ \A s \in Sessions : handler[s] \in {"new", "ended"}
    /\ server' = "closing"
    /\ UNCHANGED <<cause, patience, ws, kernel, relay, killer>>

\* One after the other.
CloseNext(s) ==
    /\ server = "closing" /\ s \in sessions
    /\ \A u \in Sessions : closing[u] \in {"no", "done"}
    /\ Close(s)

ClearWithoutClosing ==  \* mutant: the handlers are trusted to have closed
    /\ LoopRuns /\ server = "closing"
    /\ sessions' = {}
    /\ server' = "down"
    /\ UNCHANGED <<cause, patience, handler, client, kernel, relay, killer>>

Clear ==
    /\ LoopRuns /\ server = "closing"
    /\ \A s \in sessions : closing[s] = "done"
    /\ sessions' = {}
    /\ server' = "down"
    /\ UNCHANGED <<cause, patience, handler, client, kernel, relay, killer>>

Sleeping == {s \in Sessions : closing[s] \in {"term", "wait"}}

\* What a shutdown does between the sleeps takes no time.
NothingReady == \A s \in Sessions :
    /\ handler[s] \notin {"starting", "serving"}
    /\ handler[s] = "leaving" => closing[s] # "no"
    /\ closing[s] # "reader"

\* The sleeps of all sessions are as long, and the next ones begin together.
Tick ==
    /\ LoopRuns /\ slept = {} /\ Sleeping # {}
    /\ server # "up" => NothingReady /\ patience > 0
    /\ slept' = Sleeping
    /\ patience' = IF server = "up" THEN patience ELSE patience - 1
    /\ UNCHANGED <<server, cause, ws, kernel, relay, closing, tries>>

\* os._exit from the watchdog's thread, whatever the loop does.  The kernel closes
\* the descriptors, and init reaps the zombies.
ForceExit ==
    /\ server \in {"stopping", "closing"} /\ (patience = 0 \/ ~LoopRuns)
    /\ server' = "killed"
    /\ master' = {}
    /\ leader' = [s \in Sessions |-> IF leader[s] = "zombie" THEN "reaped" ELSE leader[s]]
    /\ UNCHANGED <<cause, patience, ws, group, relay, killer>>

ServerStep ==
    \/ Interrupt \/ AutoExit \/ CloseAll \/ (\E s \in Sessions : CloseNext(s)) \/ Clear
    \/ Tick \/ ForceExit

Next ==
    /\ server \notin {"down", "killed"}
    /\ \/ \E s \in Sessions :
            ProcessStep(s) \/ HandlerStep(s) \/ RelayStep(s) \/ CloseStep(s) \/ ClientLeaves(s)
       \/ ServerStep

\* The event loop runs what is ready, its timers fire, a forked child goes on,
\* and uvicorn closes every WebSocket when it stops.  Nobody promises that a
\* shell exits or produces output.
Fairness ==
    /\ \A s \in Sessions :
         /\ WF_vars(Ready(s)) /\ WF_vars(LeftByClient(s)) /\ WF_vars(CloseSession(s))
         /\ WF_vars(CloseStep(s)) /\ WF_vars(Setsid(s))
         /\ WF_vars(server = "stopping" /\ ClientLeaves(s))
         /\ WF_vars(CloseNext(s))
    /\ WF_vars(CloseAll \/ Clear) /\ WF_vars(Tick) /\ WF_vars(ForceExit)

Spec == Init /\ [][Next]_vars /\ Fairness
-----------------------------------------------------------------------------
(* Properties *)

\* The variables have their types, and a registered session has a process.
TypeOK ==
    /\ server \in {"up", "stopping", "closing", "down", "killed"}
    /\ cause \in {"none", "auto-exit", "signal"} /\ (cause = "none" <=> server = "up")
    /\ patience \in Nat /\ slept \subseteq Sleeping
    /\ handler \in [Sessions -> {"new", "starting", "serving", "leaving", "ended"}]
    /\ client \subseteq Sessions /\ sessions \subseteq Sessions
    /\ leader \in [Sessions -> {"none", "forked", "grouped", "shell", "zombie", "reaped"}]
    /\ group \subseteq Sessions /\ master \subseteq Sessions
    /\ reader \in [Sessions -> {"none", "reading", "ended"}]
    /\ queued \subseteq Sessions
    /\ output \in [Sessions -> {"none", "forwarding", "exited", "failed", "cancelled"}]
    /\ closing \in [Sessions -> {"no", "term", "wait", "blocked", "reader", "done"}]
    /\ tries \in [Sessions -> 0..TermTries + WaitTries]
    /\ \A s \in sessions : leader[s] # "none"

\* "Child is gone (killed and reaped, not a zombie)": when close() has returned,
\* nothing of the session is left, neither shell nor what it started nor the
\* descriptor, whoever reaped the shell and whatever ignored SIGTERM.
ClosedLeavesNothing == \A s \in Sessions :
    closing[s] = "done" =>
        leader[s] = "reaped" /\ s \notin group /\ s \notin master

\* The cap is on shells: a slot is not free before its shell is gone.
LiveShellsCapped ==
    Cardinality({s \in Sessions : Alive(s) \/ s \in group}) <= MaxSessions

\* "SIGKILL guarantees the child exits, so a blocking wait returns
\* near-instantly": the event loop never waits for a child it has not killed.
NeverBlocked == LoopRuns

\* A shutdown that comes to its end leaves no shell behind, those of forgotten
\* sessions included.
ShutdownLeavesNothing ==
    server = "down" => \A s \in Sessions :
        leader[s] \in {"none", "reaped"} /\ s \notin group /\ s \notin master

\* "Graceful shutdown, with a hard force-exit watchdog": the auto-exit's watchdog
\* does not cut short what does not hang, however many shells ignore SIGTERM and are
\* closed one after the other.
AutoExitIsGraceful == server = "killed" => cause = "signal"

\* The shutdown comes to that end, whatever the shells ignore: only the watchdog of a
\* signal may be faster.
ShutdownEnds == server = "stopping" ~> server = "down" \/ (server = "killed" /\ cause = "signal")

\* A process of the session, its group or its descriptor is left.
Runs(s) == leader[s] \notin {"none", "reaped"} \/ s \in group \/ s \in master

\* Over signals, loops and processes the module does what AbstractConsoles says:
\* a console is refused only for want of a slot, and its slot is free no earlier
\* than everything of it is gone, whichever way the handler and close() end.
Abstract == INSTANCE AbstractConsoles WITH
    up <- server = "up",
    fresh <- {s \in Sessions : handler[s] = "new"},
    slots <- sessions,
    running <- {s \in Sessions : Runs(s)}

ImplementsAbstractConsoles == Abstract!Spec

\* The registry "tracks active local PTY sessions": a session whose handler has
\* ended does not keep its slot.
SlotsReturned == \A s \in Sessions :
    handler[s] = "ended" /\ server \notin {"down", "killed"} => s \notin sessions
=============================================================================
