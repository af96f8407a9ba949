--------------------------- MODULE ClientLiveness ---------------------------
(***************************************************************************)
(* Who is alive, who holds a terminal slot, and when the daemon gives up.  *)
(*                                                                         *)
(* The client registry of ssh/connection_pool.py, its reaper, and the four *)
(* kinds of handler that feed it: the liveness WebSocket                   *)
(* (api/liveness.py), the terminal WebSocket (api/terminal.py), the HTTP   *)
(* middleware (daemon/server.py) and the auto-exit callback.               *)
(*                                                                         *)
(* One action is the code between two awaits of one coroutine: asyncio     *)
(* runs it without interleaving.  Time is a discrete clock; a timer that   *)
(* is due fires at most MaxDelay late, in any order with the other steps   *)
(* of the same instant.  A reaper pass takes no time.                      *)
(***************************************************************************)
EXTENDS Integers, FiniteSets

CONSTANTS
    Hosts,          \* SSH host aliases
    Tabs,           \* liveness WebSockets, one fresh client id each
    Terminals,      \* terminal WebSockets, one fresh client id each
    Browsers,       \* client ids of plain HTTP requests (X-Client-ID or token)
    HostOf,         \* the host in the URL of each WebSocket
    Replies,        \* what a browser answers to a ping; the UI only says "pong"
    PingInterval,   \* pause between two pings of the liveness loop
    PongTimeout,    \* how long the liveness loop waits for an answer
    PingTimeout,    \* age at which the registry holds a client to be stale
    ReaperInterval, \* pause between two reaper passes
    GracePeriod,    \* from the last client's leaving to the closing of the host
    AutoExitGrace,  \* from the first empty sample to the shutdown
    MaxTerminals,   \* terminal slots of one host
    AutoExit,       \* FALSE in daemon mode: no shutdown callback is set
    MaxDelay,       \* how late a timer may fire when the event loop is busy
    MaxTime,        \* bound on the clock
    Never           \* the None of the code's timestamps

Clients == Tabs \cup Terminals \cup Browsers

ASSUME ClientKinds ==
    /\ Tabs \cap Terminals = {} /\ Tabs \cap Browsers = {}
    /\ Terminals \cap Browsers = {}
    /\ HostOf \in [Tabs \cup Terminals -> Hosts]

ASSUME Durations ==
    /\ {PingInterval, PongTimeout, PingTimeout, ReaperInterval,
        GracePeriod, AutoExitGrace} \subseteq Nat \ {0}
    /\ MaxTerminals \in Nat /\ MaxDelay \in Nat /\ MaxTime \in Nat

ASSUME NeverIsNoTime == Never \notin Nat

ASSUME Switches == AutoExit \in BOOLEAN /\ "pong" \in Replies

VARIABLES
    now,         \* time.monotonic()
    reg,         \* ClientRegistry._clients: last_seen of each <<host, client>>
    left,        \* _last_client_left
    slots,       \* _terminal_slots
    conns,       \* hosts with an open pooled SSH connection
    tab, due,    \* the liveness handler of each tab and its running timer
    connected,   \* tabs whose browser has not closed the WebSocket
    term,        \* the handler of each terminal
    reapDue,     \* when the reaper's sleep ends
    allGone,     \* _all_gone_since
    everHad,     \* _ever_had_clients
    exit,        \* the shutdown callback has been called
    lastLive     \* history: the last instant at which each host had a live client

registry == <<reg, left>>
reaper   == <<reapDue, allGone, everHad, exit>>
vars == <<now, registry, slots, conns, tab, due, connected, term, reaper, lastLive>>

-----------------------------------------------------------------------------
(* ClientRegistry.  A host is a key of _clients exactly when it has a      *)
(* registered client: register adds the first one with the key, unregister *)
(* deletes the key with the last one.                                      *)

Register(r, h, c, t) ==
    [p \in DOMAIN r \cup {<<h, c>>} |-> IF p = <<h, c>> THEN t ELSE r[p]]

Unregister(r, h, c) == [p \in DOMAIN r \ {<<h, c>>} |-> r[p]]

TouchLost(r, h, c, t) == r  \* mutant

\* A touch of an unregistered client does nothing.
Touch(r, h, c, t) ==
    IF <<h, c>> \in DOMAIN r THEN [r EXCEPT ![<<h, c>>] = t] ELSE r

FreshStrict(r, t) == {p \in DOMAIN r : t - r[p] < PingTimeout}  \* mutant

Fresh(r, t) == {p \in DOMAIN r : t - r[p] <= PingTimeout}

EvictNone(r, t) == r  \* mutant

EvictStale(r, t) == [p \in Fresh(r, t) |-> r[p]]

Live(r, t, h) == {c \in Clients : <<h, c>> \in Fresh(r, t)}

HostsWithZeroClients(r, t) ==
    {h \in Hosts : Live(r, t, h) = {} /\ \E c \in Clients : <<h, c>> \in DOMAIN r}

AnyLive(r, t) == \E h \in Hosts : Live(r, t, h) # {}

\* The pool's wrappers: registering forgets, the last leaving records, when
\* the host was left.
RegisterClient(h, c) ==
    /\ reg' = Register(reg, h, c, now)
    /\ left' = [left EXCEPT ![h] = Never]

UnregisterClient(h, c) ==
    /\ reg' = Unregister(reg, h, c)
    /\ left' = [left EXCEPT ![h] = IF Live(reg', now, h) = {} THEN now ELSE @]

-----------------------------------------------------------------------------
Init ==
    /\ now = 0
    /\ reg = [p \in {} |-> 0]
    /\ left = [h \in Hosts |-> Never]
    /\ slots = [h \in Hosts |-> {}]
    /\ conns = {}
    /\ tab = [c \in Tabs |-> "new"]
    /\ due = [c \in Tabs |-> 0]
    /\ connected = {}
    /\ term = [c \in Terminals |-> "new"]
    /\ reapDue = ReaperInterval
    /\ allGone = Never
    /\ everHad = FALSE
    /\ exit = FALSE
    /\ lastLive = [h \in Hosts |-> 0]

(* The liveness WebSocket. *)

TabOpen(c) ==
    /\ tab[c] = "new"
    /\ RegisterClient(HostOf[c], c)
    /\ tab' = [tab EXCEPT ![c] = "sleeping"]
    /\ due' = [due EXCEPT ![c] = now + PingInterval]
    /\ connected' = connected \cup {c}
    /\ UNCHANGED <<now, slots, conns, term, reaper>>

\* The browser closes the tab.  The handler learns it at its next send or
\* receive, not in its sleep.
TabLeaves(c) ==
    /\ c \in connected
    /\ connected' = connected \ {c}
    /\ UNCHANGED <<now, registry, slots, conns, tab, due, term, reaper>>

TabPing(c) ==
    /\ tab[c] = "sleeping" /\ due[c] <= now
    /\ c \in connected
    /\ reg' = Touch(reg, HostOf[c], c, now)
    /\ tab' = [tab EXCEPT ![c] = "awaiting"]
    /\ due' = [due EXCEPT ![c] = now + PongTimeout]
    /\ UNCHANGED <<now, left, slots, conns, connected, term, reaper>>

TabReply(c, msg) ==
    /\ tab[c] = "awaiting"
    /\ c \in connected
    /\ reg' = IF msg = "pong" THEN Touch(reg, HostOf[c], c, now) ELSE reg
    /\ tab' = [tab EXCEPT ![c] = "sleeping"]
    /\ due' = [due EXCEPT ![c] = now + PingInterval]
    /\ UNCHANGED <<now, left, slots, conns, connected, term, reaper>>

\* No pong in time, or the socket is found closed: the finally clause.
TabCloses(c) ==
    /\ \/ tab[c] = "awaiting" /\ (due[c] <= now \/ c \notin connected)
       \/ tab[c] = "sleeping" /\ due[c] <= now /\ c \notin connected
    /\ UnregisterClient(HostOf[c], c)
    /\ tab' = [tab EXCEPT ![c] = "closed"]
    /\ connected' = connected \ {c}
    /\ UNCHANGED <<now, slots, conns, due, term, reaper>>

(* The terminal WebSocket.  Nothing in it ever touches its client. *)

AcquireAnonymousSlot(h, c) ==  \* mutant: the default client_id
    /\ Cardinality(slots[h]) < MaxTerminals
    /\ slots' = [slots EXCEPT ![h] = @ \cup {""}]

AcquireTerminalSlot(h, c) ==
    /\ Cardinality(slots[h]) < MaxTerminals
    /\ slots' = [slots EXCEPT ![h] = @ \cup {c}]

ReleaseNothing(h, c) == UNCHANGED slots  \* mutant

ReleaseTerminalSlot(h, c) == slots' = [slots EXCEPT ![h] = @ \ {c}]

TermOpen(c) ==
    /\ term[c] = "new"
    /\ AcquireTerminalSlot(HostOf[c], c)
    /\ RegisterClient(HostOf[c], c)
    /\ term' = [term EXCEPT ![c] = "connecting"]
    /\ UNCHANGED <<now, conns, tab, due, connected, reaper>>

TermRejected(c) ==
    /\ term[c] = "new"
    /\ Cardinality(slots[HostOf[c]]) >= MaxTerminals
    /\ term' = [term EXCEPT ![c] = "closed"]
    /\ UNCHANGED <<now, registry, slots, conns, tab, due, connected, reaper>>

TermConnected(c) ==
    /\ term[c] = "connecting"
    /\ term' = [term EXCEPT ![c] = "running"]
    /\ conns' = conns \cup {HostOf[c]}
    /\ UNCHANGED <<now, registry, slots, tab, due, connected, reaper>>

\* get_connection raises ConnectionError, HostKeyError or
\* PasswordRequiredError, which the handler does not catch: slot and
\* registration stay for the reaper.
TermConnectFails(c) ==
    /\ term[c] = "connecting"
    /\ term' = [term EXCEPT ![c] = "closed"]
    /\ UNCHANGED <<now, registry, slots, conns, tab, due, connected, reaper>>

TermEnds(c) ==
    /\ term[c] = "running"
    /\ ReleaseTerminalSlot(HostOf[c], c)
    /\ UnregisterClient(HostOf[c], c)
    /\ term' = [term EXCEPT ![c] = "closed"]
    /\ UNCHANGED <<now, conns, tab, due, connected, reaper>>

(* HTTP. *)

\* A host-scoped request: the middleware touches the client, registers it if
\* the host has no live client, and the endpoint may open a connection.
HttpRequest(h, b, opens) ==
    LET touched == Touch(reg, h, b, now) IN
    /\ IF Live(touched, now, h) = {}
         THEN RegisterClient(h, b)
         ELSE reg' = touched /\ UNCHANGED left
    /\ conns' = IF opens THEN conns \cup {h} ELSE conns
    /\ UNCHANGED <<now, slots, tab, due, connected, term, reaper>>

\* The SSH server or the network ends a connection.
ConnectionLost(h) ==
    /\ h \in conns
    /\ conns' = conns \ {h}
    /\ UNCHANGED <<now, registry, slots, tab, due, connected, term, reaper>>

-----------------------------------------------------------------------------
(* The reaper: one pass of _reap, in the order of its three parts. *)

\* Part 1: hosts that lost a client to the eviction and have none left.
LeftByEviction(h) ==
    /\ \E c \in Clients : <<h, c>> \in DOMAIN reg \ Fresh(reg, now)
    /\ Live(reg, now, h) = {}

\* Part 2: hosts whose grace period is over, except those a terminal holds.
Closable(r, l, s) ==
    {h \in HostsWithZeroClients(r, now) :
        /\ l[h] # Never /\ now - l[h] >= GracePeriod
        /\ h \in conns => s[h] = {}}

CloseDeadHosts(r, l, s) ==
    LET dead == Closable(r, l, s) IN
    /\ conns' = conns \ dead
    /\ reg' = [p \in {q \in DOMAIN r : q[1] \notin dead} |-> r[p]]
    /\ left' = [h \in Hosts |-> IF h \in dead THEN Never ELSE l[h]]

SampleRestarts(live) ==  \* mutant: every empty sample restarts the grace period
    IF ~AutoExit THEN UNCHANGED <<allGone, everHad, exit>>
    ELSE /\ everHad' = (everHad \/ live)
         /\ allGone' = IF live \/ ~everHad THEN Never ELSE now
         /\ exit' = (/\ ~live /\ everHad
                     /\ allGone # Never /\ now - allGone >= AutoExitGrace)

\* Part 3: the sample of the live clients that arms and fires the auto-exit.
SampleAutoExit(live) ==
    IF ~AutoExit THEN UNCHANGED <<allGone, everHad, exit>>
    ELSE /\ everHad' = (everHad \/ live)
         /\ allGone' = IF live THEN Never
                       ELSE IF everHad /\ allGone = Never THEN now ELSE allGone
         /\ exit' = (/\ ~live /\ everHad
                     /\ allGone # Never /\ now - allGone >= AutoExitGrace)

Reap ==
    /\ reapDue <= now
    /\ slots' = [h \in Hosts |-> {c \in slots[h] :
                    <<h, c>> \notin DOMAIN reg \ Fresh(reg, now)}]
    /\ CloseDeadHosts(EvictStale(reg, now),
                      [h \in Hosts |-> IF LeftByEviction(h) THEN now ELSE left[h]],
                      slots')
    /\ SampleAutoExit(AnyLive(reg', now))
    /\ reapDue' = now + ReaperInterval
    /\ UNCHANGED <<now, tab, due, connected, term>>

-----------------------------------------------------------------------------
\* Time passes unless a timer is already MaxDelay late.
OnTime(d) == now < d + MaxDelay

Tick ==
    /\ now < MaxTime
    /\ OnTime(reapDue)
    /\ \A c \in Tabs : tab[c] \in {"sleeping", "awaiting"} => OnTime(due[c])
    /\ now' = now + 1
    /\ UNCHANGED <<registry, slots, conns, tab, due, connected, term, reaper>>

\* The finally clause awaits the output task first.  If that died sending to
\* a socket that is gone, its exception ends the clause, with the same effect.
TermAborted(c) ==
    /\ term[c] = "running"
    /\ term' = [term EXCEPT ![c] = "closed"]
    /\ UNCHANGED <<now, registry, slots, conns, tab, due, connected, reaper>>

\* The history variable follows every step.
Observe ==
    lastLive' = [h \in Hosts |-> IF Live(reg', now', h) # {} THEN now' ELSE lastLive[h]]

TabStep == \E c \in Tabs :
    \/ TabOpen(c)
    \/ TabLeaves(c)
    \/ TabPing(c)
    \/ \E msg \in Replies : TabReply(c, msg)
    \/ TabCloses(c)

TermStep == \E c \in Terminals :
    \/ TermOpen(c)
    \/ TermRejected(c)
    \/ TermConnected(c)
    \/ TermConnectFails(c)
    \/ TermEnds(c)
    \/ TermAborted(c)

HostStep == \E h \in Hosts :
    \/ \E b \in Browsers, opens \in BOOLEAN : HttpRequest(h, b, opens)
    \/ ConnectionLost(h)

\* The callback sets uvicorn's should_exit: nothing is modelled after it.
Next ==
    /\ ~exit
    /\ TabStep \/ TermStep \/ HostStep \/ Reap \/ Tick
    /\ Observe

Spec == Init /\ [][Next]_vars
-----------------------------------------------------------------------------
(* Properties *)

\* The variables have their types; a registered client is registered with the
\* host of its own WebSocket.
TypeOK ==
    /\ now \in Nat
    /\ DOMAIN reg \subseteq Hosts \X Clients /\ reg \in [DOMAIN reg -> Nat]
    /\ left \in [Hosts -> Nat \cup {Never}]
    /\ slots \in [Hosts -> SUBSET Terminals]
    /\ conns \in SUBSET Hosts
    /\ tab \in [Tabs -> {"new", "sleeping", "awaiting", "closed"}]
    /\ due \in [Tabs -> Nat]
    /\ connected \in SUBSET Tabs
    /\ term \in [Terminals -> {"new", "connecting", "running", "closed"}]
    /\ reapDue \in Nat
    /\ allGone \in Nat \cup {Never}
    /\ everHad \in BOOLEAN /\ exit \in BOOLEAN
    /\ lastLive \in [Hosts -> Nat]

\* No dead client lingers: the registry never holds a client older than the
\* ping timeout and one reaper round, with the lateness of the loop.
StaleClientsEvictedInTime ==
    \A p \in DOMAIN reg : now - reg[p] <= PingTimeout + ReaperInterval + MaxDelay

\* A terminal that failed to connect or froze gives its slot back in bounded
\* time.  Whoever holds a slot, its handler dead or not, is in the registry,
\* where the reaper looks for stale clients, and was heard of that recently:
\* acquiring and registering, releasing and unregistering never come apart.
SlotsReclaimedInTime ==
    \A h \in Hosts : \A c \in slots[h] :
        /\ <<h, c>> \in DOMAIN reg
        /\ now - reg[<<h, c>>] <= PingTimeout + ReaperInterval + MaxDelay

\* An open tab that has not missed its pong deadline counts as a live client
\* of its host at every instant: neither the reaper nor another handler of the
\* host can make it disappear.
OpenTabIsLive ==
    \A c \in Tabs : tab[c] \in {"sleeping", "awaiting"} /\ now <= due[c]
                       => c \in Live(reg, now, HostOf[c])

\* The daemon never exits under an open tab.
NoExitUnderOpenTab ==
    exit => \A c \in Tabs : tab[c] \notin {"sleeping", "awaiting"}

\* Once armed, the daemon does exit: the last live client of any host was seen
\* at most two samples and the grace period ago.
ExitsInTime ==
    AutoExit /\ everHad /\ ~exit =>
        \E h \in Hosts : now - lastLive[h] <=
            AutoExitGrace + 2 * (ReaperInterval + MaxDelay)

\* "Cap max concurrent terminals per host": the sessions that really run, not
\* the slots that are held.
RunningTerminalsCapped ==
    \A h \in Hosts :
        Cardinality({c \in Terminals : HostOf[c] = h /\ term[c] = "running"})
            <= MaxTerminals

\* "A background reaper closes SSH connections for dead clients": a host whose
\* last live client is long gone, and which no terminal uses, is disconnected
\* after the grace period and two reaper rounds.
DeadHostsDisconnected ==
    \A h \in conns :
        (\A c \in Terminals : HostOf[c] = h => term[c] \in {"new", "closed"})
            => now - lastLive[h] <= GracePeriod + 3 * (ReaperInterval + MaxDelay)
=============================================================================
