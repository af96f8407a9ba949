------------------------------- MODULE Launch -------------------------------
(***************************************************************************)
(* The surf-ssh processes of one user: `surf-ssh daemon` and `surf-ssh     *)
(* open --cmd` (main.py), the control socket (daemon/control.py) and the   *)
(* entries in ~/.ssh/config (ssh/config_editor.py), on POSIX.              *)
(*                                                                         *)
(* Processes share nothing but the file system and the ports, and each of  *)
(* their accesses is a step: a check and the use of what it found are      *)
(* separate, and a process may die between any two.  A process runs once.  *)
(***************************************************************************)
EXTENDS Naturals, FiniteSets

CONSTANTS
    Daemons,     \* processes started as `surf-ssh daemon`
    Ephemeral,   \* as `surf-ssh open --cmd`
    Saved,       \* as `surf-ssh open --cmd --save`, each with its own name
    Ports,       \* the local ports that are tried, in ascending order
    Nobody,
    Ragged       \* a last line of ~/.ssh/config that does not end with a newline

Opens == Ephemeral \cup Saved
Procs == Daemons \cup Opens

ASSUME Kinds ==
    /\ Daemons \cap Opens = {} /\ Ephemeral \cap Saved = {}
    /\ Nobody \notin Procs /\ Ragged \notin Procs \cup {Nobody} /\ Ports \subseteq Nat /\ Ports # {}

VARIABLES
    pc,          \* where each process is
    status,      \* how each daemon ended
    chosen,      \* the port it is going to serve
    config,      \* processes whose block is in ~/.ssh/config
    tail,        \* the user's last line: Ragged, or the block glued to it, or Nobody
    copy,        \* the blocks a process has read and not yet written back
    tailCopy,    \* the last line it has read
    listener,    \* the process that serves each port
    lingering,   \* ports that still have connections of a process that stopped
    sock,        \* the process that created the file control.sock
    accepting,   \* processes whose control server accepts connections
    lost,        \* history: an edit overwrote another one
    raced,       \* history: two processes changed control.sock at once
    mixed,       \* history: daemons that ran at the same time as another process
    before       \* history: ephemeral hosts' processes that had ended when one started

fs   == <<config, tail, copy, tailCopy, lost>>
net  == <<listener, lingering, sock, accepting>>
vars == <<pc, status, chosen, fs, net, raced, mixed, before>>

Init ==
    /\ pc = [p \in Procs |-> "new"]
    /\ status = [p \in Daemons |-> "none"]
    /\ chosen \in [Procs -> Ports]   \* the option --port
    /\ \A p \in Opens, n \in Ports : chosen[p] <= n
    /\ config = {}
    /\ tail \in {Nobody, Ragged}
    /\ copy = [p \in Procs |-> {}]
    /\ tailCopy = [p \in Procs |-> Nobody]
    /\ listener = [n \in Ports |-> Nobody]
    /\ lingering = {}
    /\ sock = Nobody
    /\ accepting = {}
    /\ lost = FALSE
    /\ raced = FALSE
    /\ mixed = {}
    /\ before = [p \in Procs |-> {}]

Running(p) == pc[p] \notin {"new", "gone"}

Goto(p, where) == pc' = [pc EXCEPT ![p] = where] /\ UNCHANGED status

Exits(p, how) ==
    /\ pc' = [pc EXCEPT ![p] = "gone"]
    /\ status' = [d \in Daemons |-> IF d = p THEN how ELSE status[d]]

-----------------------------------------------------------------------------
(* ConfigEditor: the file is read, and replaced as a whole.  A block is     *)
(* recognised by its marker, unless that is glued to the user's last line. *)

Marked(blocks, last) == blocks \ {last}

Read(p) ==
    /\ copy' = [copy EXCEPT ![p] = config] /\ tailCopy' = [tailCopy EXCEPT ![p] = tail]
    /\ UNCHANGED <<config, tail, lost>>

Replace(p, blocks, last) ==
    /\ config' = blocks /\ tail' = last
    /\ lost' = (lost \/ config # copy[p] \/ tail # tailCopy[p])
    /\ copy' = [copy EXCEPT ![p] = {}] /\ tailCopy' = [tailCopy EXCEPT ![p] = Nobody]

AfterCleanup(p) == IF p \in Daemons THEN "checking" ELSE "naming"

BeginUncleaned(p) ==  \* mutant: a daemon does not clean up
    /\ pc[p] = "new"
    /\ IF p \in Daemons \/ Marked(config, tail) \cap Ephemeral = {}
         THEN Goto(p, AfterCleanup(p)) /\ UNCHANGED fs
         ELSE Goto(p, "cleaning") /\ Read(p)
    /\ UNCHANGED <<chosen, net>>

\* remove_all_ephemeral writes only if it has found a block.
Begin(p) ==
    /\ pc[p] = "new"
    /\ IF Marked(config, tail) \cap Ephemeral = {}
         THEN Goto(p, AfterCleanup(p)) /\ UNCHANGED fs
         ELSE Goto(p, "cleaning") /\ Read(p)
    /\ UNCHANGED <<chosen, net>>

CleanUpEverything(p) ==  \* mutant: the tag is not looked at
    /\ pc[p] = "cleaning"
    /\ Replace(p, {}, tailCopy[p])
    /\ Goto(p, AfterCleanup(p))
    /\ UNCHANGED <<chosen, net>>

CleanUp(p) ==
    /\ pc[p] = "cleaning"
    /\ LET found == Marked(copy[p], tailCopy[p]) \cap Ephemeral IN
       Replace(p, copy[p] \ found, tailCopy[p])
    /\ Goto(p, AfterCleanup(p))
    /\ UNCHANGED <<chosen, net>>

AppendReads(p) ==
    /\ pc[p] = "naming"
    /\ Read(p)
    /\ Goto(p, "appending")
    /\ UNCHANGED <<chosen, net>>

\* The block follows whatever the file ends with.
Append(p) ==
    /\ pc[p] = "appending"
    /\ Replace(p, copy[p] \cup {p}, IF tailCopy[p] = Ragged THEN p ELSE tailCopy[p])
    /\ Goto(p, "searching")
    /\ UNCHANGED <<chosen, net>>

EditStep(p) == CleanUp(p) \/ AppendReads(p) \/ Append(p)

-----------------------------------------------------------------------------
(* Ports. *)

\* Without SO_REUSEADDR also the connections of a listener that is gone keep others
\* from binding its port.
Occupied(n) == listener[n] # Nobody \/ n \in lingering

\* `open` takes the first free port, and gives up outside of its try clause.
FindPort(p) ==
    /\ pc[p] = "searching"
    /\ \/ \E n \in Ports :
            /\ ~Occupied(n) /\ \A m \in Ports : m < n => Occupied(m)
            /\ chosen' = [chosen EXCEPT ![p] = n]
            /\ Goto(p, "binding")
       \/ /\ \A n \in Ports : Occupied(n)
          /\ Exits(p, "error")
          /\ UNCHANGED chosen
    /\ UNCHANGED <<fs, net>>

\* Whoever serves the port answers the health check, an `open` too.
CheckHealth(p) ==
    /\ pc[p] = "checking"
    /\ IF listener[chosen[p]] # Nobody THEN Exits(p, "found")
       ELSE Goto(p, "testing")
    /\ UNCHANGED <<chosen, fs, net>>

\* An error, "in use by another process", also when nobody serves the port.
TestPort(p) ==
    /\ pc[p] = "testing"
    /\ CASE listener[chosen[p]] # Nobody -> Exits(p, "error")
         [] chosen[p] \in lingering -> Exits(p, "lingered")
         [] OTHER -> Goto(p, "probing")
    /\ UNCHANGED <<chosen, fs, net>>

\* The way out after serving: control_server.stop() of a daemon, the finally
\* clause of `open`.
Finish(p) ==
    IF p \in Daemons THEN Goto(p, "closing") /\ UNCHANGED fs
    ELSE IF p \in Ephemeral \cap Marked(config, tail) THEN Goto(p, "removing") /\ Read(p)
    ELSE Exits(p, "ok") /\ UNCHANGED fs

\* uvicorn sets SO_REUSEADDR.
Bind(p) ==
    /\ pc[p] = "binding"
    /\ IF listener[chosen[p]] = Nobody
         THEN /\ listener' = [listener EXCEPT ![chosen[p]] = p]
              /\ Goto(p, "serving")
              /\ UNCHANGED fs
         ELSE Finish(p) /\ UNCHANGED listener
    /\ UNCHANGED <<chosen, lingering, sock, accepting>>

PortStep(p) == FindPort(p) \/ CheckHealth(p) \/ TestPort(p) \/ Bind(p)

-----------------------------------------------------------------------------
(* The control socket. *)

ProbeNothing(p) ==  \* mutant: a socket file is always taken for a corpse
    /\ pc[p] = "probing"
    /\ Goto(p, "unlinking")
    /\ UNCHANGED <<chosen, fs, net>>

ProbeThenStop(p) ==  \* mutant: start() inside of the try clause
    /\ pc[p] = "probing"
    /\ Goto(p, IF sock \in accepting THEN "closing" ELSE "unlinking")
    /\ UNCHANGED <<chosen, fs, net>>

\* A connection that succeeds means a live daemon.
Probe(p) ==
    /\ pc[p] = "probing"
    /\ IF sock \in accepting THEN Exits(p, "error") ELSE Goto(p, "unlinking")
    /\ UNCHANGED <<chosen, fs, net>>

UnlinkNothing(p) ==  \* mutant: a corpse stays where it is
    /\ pc[p] = "unlinking"
    /\ Goto(p, "listening")
    /\ UNCHANGED <<chosen, fs, net>>

\* Also asyncio removes the socket file it finds before it binds.
Unlink(p) ==
    /\ pc[p] = "unlinking"
    /\ sock' = Nobody
    /\ Goto(p, "listening")
    /\ UNCHANGED <<chosen, fs, listener, lingering, accepting>>

Listen(p) ==
    /\ pc[p] = "listening"
    /\ IF sock = Nobody
         THEN /\ sock' = p /\ accepting' = accepting \cup {p}
              /\ Goto(p, "binding")
         ELSE Exits(p, "error") /\ UNCHANGED <<sock, accepting>>
    /\ UNCHANGED <<chosen, fs, listener, lingering>>

HangUp(p) ==
    /\ pc[p] = "closing"
    /\ accepting' = accepting \ {p}
    /\ Goto(p, "leaving")
    /\ UNCHANGED <<chosen, fs, listener, lingering, sock>>

\* The file goes, whoever created it.
Leave(p) ==
    /\ pc[p] = "leaving"
    /\ sock' = Nobody
    /\ Exits(p, "ok")
    /\ UNCHANGED <<chosen, fs, listener, lingering, accepting>>

SocketStep(p) == Probe(p) \/ Unlink(p) \/ Listen(p) \/ HangUp(p) \/ Leave(p)

-----------------------------------------------------------------------------
(* The end of a process. *)

StopHoldingPort(p) ==  \* mutant: the port is closed at the very end
    /\ pc[p] = "serving"
    /\ Goto(p, "draining")
    /\ UNCHANGED <<chosen, fs, net>>

\* The browser's connections may outlive the listener, closed from this side.
LeavesConnections(n) == lingering' \in {lingering, lingering \cup {n}}

\* A signal or the auto-exit: uvicorn closes the port first of all.
Stop(p) ==
    /\ pc[p] = "serving"
    /\ LeavesConnections(chosen[p])
    /\ listener' = [listener EXCEPT ![chosen[p]] = Nobody]
    /\ Goto(p, "draining")
    /\ UNCHANGED <<chosen, fs, sock, accepting>>

\* The lifespan's shutdown is over.
Drained(p) ==
    /\ pc[p] = "draining"
    /\ Finish(p)
    /\ UNCHANGED <<chosen, net>>

Remove(p) ==
    /\ pc[p] = "removing"
    /\ Replace(p, copy[p] \ {p}, tailCopy[p])
    /\ Exits(p, "ok")
    /\ UNCHANGED <<chosen, net>>

\* The force-exit watchdog, a signal without a handler, or a crash.
Die(p) ==
    /\ Running(p)
    /\ Exits(p, "killed")
    /\ listener' = [n \in Ports |-> IF listener[n] = p THEN Nobody ELSE listener[n]]
    /\ accepting' = accepting \ {p}
    /\ IF pc[p] = "serving" THEN LeavesConnections(chosen[p]) ELSE UNCHANGED lingering
    /\ copy' = [copy EXCEPT ![p] = {}] /\ tailCopy' = [tailCopy EXCEPT ![p] = Nobody]
    /\ UNCHANGED <<chosen, config, tail, lost, sock>>

EndStep(p) == Stop(p) \/ Drained(p) \/ Remove(p) \/ Die(p)

-----------------------------------------------------------------------------

\* A process is about to change control.sock, having decided so before.
InWindow(where) == where \in {"unlinking", "listening", "leaving"}

\* The history variables.
Observe(p) ==
    /\ raced' = (raced \/ \E q \in Procs \ {p} : InWindow(pc'[p]) /\ InWindow(pc[q]))
    /\ IF pc[p] = "new"
         THEN LET others == {q \in Procs \ {p} : Running(q)} IN
              /\ mixed' = IF others = {} THEN mixed
                          ELSE mixed \cup ((others \cup {p}) \cap Daemons)
              /\ before' = [before EXCEPT ![p] = {q \in Ephemeral : pc[q] = "gone"}]
         ELSE UNCHANGED <<mixed, before>>

Step(p) == Begin(p) \/ EditStep(p) \/ PortStep(p) \/ SocketStep(p) \/ EndStep(p)

\* The kernel forgets the connections of a port.
Forgotten(n) ==
    /\ n \in lingering
    /\ lingering' = lingering \ {n}
    /\ UNCHANGED <<pc, status, chosen, fs, listener, sock, accepting, raced, mixed, before>>

Next ==
    \/ \E p \in Procs : Step(p) /\ Observe(p)
    \/ \E n \in Ports : Forgotten(n)

Spec == Init /\ [][Next]_vars
-----------------------------------------------------------------------------
(* Properties *)

Places == {"new", "cleaning", "naming", "appending", "searching", "checking", "testing",
           "probing", "unlinking", "listening", "binding", "serving", "draining",
           "closing", "leaving", "removing", "gone"}

\* The variables have their types; a port is held exactly while it is served,
\* and a control server accepts from start() to stop().
TypeOK ==
    /\ pc \in [Procs -> Places]
    /\ status \in [Daemons -> {"none", "ok", "error", "lingered", "found", "killed"}]
    /\ chosen \in [Procs -> Ports]
    /\ config \subseteq Opens /\ copy \in [Procs -> SUBSET Opens]
    /\ tail \in Opens \cup {Nobody, Ragged} /\ tailCopy \in [Procs -> Opens \cup {Nobody, Ragged}]
    /\ listener \in [Ports -> Procs \cup {Nobody}]
    /\ lingering \subseteq Ports /\ sock \in Daemons \cup {Nobody} /\ accepting \subseteq Daemons
    /\ lost \in BOOLEAN /\ raced \in BOOLEAN
    /\ mixed \subseteq Daemons /\ before \in [Procs -> SUBSET Ephemeral]
    /\ \A n \in Ports, p \in Procs :
         listener[n] = p <=> pc[p] = "serving" /\ chosen[p] = n
    /\ \A p \in Daemons :
         p \in accepting <=> pc[p] \in {"binding", "serving", "draining", "closing"}

\* "The daemon listens on a local control channel and mints fresh tokens on
\* demand": a client that connects to control.sock reaches the daemon that
\* serves, however many were started or died before, unless two of them
\* changed the socket file at the same time.
ServingDaemonReachable == \A p \in Daemons :
    pc[p] = "serving" /\ ~raced => sock = p /\ p \in accepting

\* "If a live daemon still owns it, refuse to steal it": the socket keeps
\* daemons apart also when they serve different ports.
OneDaemon == \A p, q \in Daemons :
    pc[p] = "serving" /\ pc[q] = "serving" /\ ~raced => p = q

\* "Otherwise remove the corpse": of all that stopped and killed processes leave
\* behind, socket file, blocks and connections, only connections of its own port make
\* a daemon fail that is started alone.
SoleStartSucceeds == \A p \in Daemons \ mixed :
    status[p] \in {"none", "ok", "killed", "lingered"}

\* "Startup pass covers crashes": a process that is past its cleanup does not see
\* the block of an ephemeral host whose process had ended before it started,
\* unless an edit overwrote another one or the marker is glued to the user's line.
LeftoversRemoved == \A p \in Procs :
    pc[p] \notin {"new", "cleaning", "gone"} /\ ~lost
        => before[p] \cap Marked(config, tail) = {}

\* "Saved permanently": no cleanup, removal or crash takes a saved block away,
\* unless an edit overwrote another one.
SavedEntriesKept == [][~lost' => config \cap Saved \subseteq config']_vars

\* "Ephemeral - will be removed on exit": the block is there as long as its
\* process serves.
EphemeralEntryWhileServing == \A p \in Ephemeral : pc[p] = "serving" => p \in config
=============================================================================
