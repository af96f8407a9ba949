------------------------ MODULE ClientLivenessProofs ------------------------
(***************************************************************************)
(* What holds of ClientLiveness for any number of hosts, tabs, terminals   *)
(* and browsers, and any durations.                                        *)
(*                                                                         *)
(* The inductive invariant adds to TypeOK where the reaper's timer stands  *)
(* with respect to the clock, and that every entry of the registry was     *)
(* young enough at the last pass.  Each property then is arithmetic.       *)
(***************************************************************************)
EXTENDS ClientLiveness, TLAPS

ReaperOnTime ==
    /\ reapDue - ReaperInterval <= now
    /\ now <= reapDue + MaxDelay

FreshAtLastPass ==
    \A p \in DOMAIN reg : reg[p] >= reapDue - ReaperInterval - PingTimeout

SlotHoldersRegistered ==
    \A h \in Hosts : \A c \in slots[h] : <<h, c>> \in DOMAIN reg

IInv == TypeOK /\ ReaperOnTime /\ FreshAtLastPass /\ SlotHoldersRegistered

-----------------------------------------------------------------------------
(* The registry's operators. *)

RegType(r) == DOMAIN r \subseteq Hosts \X Clients /\ r \in [DOMAIN r -> Nat]

\* No entry of r1 is older than its entry in r: it is as it was, or new at t.
YoungerThan(r1, r, t) == \A p \in DOMAIN r1 :
    r1[p] = t \/ (p \in DOMAIN r /\ r1[p] = r[p])

LEMMA RegisterType ==
    ASSUME NEW r, RegType(r), NEW h \in Hosts, NEW c \in Clients, NEW t \in Nat
    PROVE  RegType(Register(r, h, c, t))
BY DEF RegType, Register

LEMMA UnregisterType ==
    ASSUME NEW r, RegType(r), NEW h \in Hosts, NEW c \in Clients
    PROVE  RegType(Unregister(r, h, c))
BY DEF RegType, Unregister

LEMMA TouchType ==
    ASSUME NEW r, RegType(r), NEW h \in Hosts, NEW c \in Clients, NEW t \in Nat
    PROVE  RegType(Touch(r, h, c, t))
BY DEF RegType, Touch

LEMMA EvictFacts ==
    ASSUME NEW r, RegType(r), NEW t \in Nat
    PROVE  /\ RegType(EvictStale(r, t))
           /\ DOMAIN EvictStale(r, t) = Fresh(r, t)
           /\ Fresh(r, t) \subseteq DOMAIN r
           /\ \A p \in Fresh(r, t) : EvictStale(r, t)[p] = r[p]
           /\ \A p \in Fresh(r, t) : t - r[p] <= PingTimeout
BY DEF RegType, EvictStale, Fresh

-----------------------------------------------------------------------------
(* Type correctness. *)

\* The history variable keeps its type whatever the step does.
LEMMA ObserveType ==
    ASSUME TypeOK, Observe, now' \in Nat
    PROVE  lastLive' \in [Hosts -> Nat]
BY DEF TypeOK, Observe

LEMMA TabStepType ==
    ASSUME TypeOK, TabStep, Observe
    PROVE  TypeOK'
<1> USE DEF RegType
<1>1. ASSUME NEW c \in Tabs, TabOpen(c) PROVE TypeOK'
  <2>1. HostOf[c] \in Hosts /\ c \in Clients
    BY ClientKinds DEF Clients
  <2>2. RegType(reg') /\ left' \in [Hosts -> Nat \cup {Never}]
    BY <1>1, <2>1, RegisterType DEF TypeOK, TabOpen, RegisterClient
  <2>3. now' \in Nat /\ due' \in [Tabs -> Nat]
    BY <1>1, Durations DEF TypeOK, TabOpen
  <2> QED
    BY <1>1, <2>2, <2>3, ObserveType DEF TypeOK, TabOpen, reaper
<1>2. ASSUME NEW c \in Tabs, TabLeaves(c) PROVE TypeOK'
  BY <1>2, ObserveType DEF TypeOK, TabLeaves, registry, reaper
<1>3. ASSUME NEW c \in Tabs, TabPing(c) PROVE TypeOK'
  <2>1. HostOf[c] \in Hosts /\ c \in Clients
    BY ClientKinds DEF Clients
  <2>2. RegType(reg')
    BY <1>3, <2>1, TouchType DEF TypeOK, TabPing
  <2>3. now' \in Nat /\ due' \in [Tabs -> Nat]
    BY <1>3, Durations DEF TypeOK, TabPing
  <2> QED
    BY <1>3, <2>2, <2>3, ObserveType DEF TypeOK, TabPing, reaper
<1>4. ASSUME NEW c \in Tabs, NEW msg \in Replies, TabReply(c, msg) PROVE TypeOK'
  <2>1. HostOf[c] \in Hosts /\ c \in Clients
    BY ClientKinds DEF Clients
  <2>2. RegType(reg')
    BY <1>4, <2>1, TouchType DEF TypeOK, TabReply
  <2>3. now' \in Nat /\ due' \in [Tabs -> Nat]
    BY <1>4, Durations DEF TypeOK, TabReply
  <2> QED
    BY <1>4, <2>2, <2>3, ObserveType DEF TypeOK, TabReply, reaper
<1>5. ASSUME NEW c \in Tabs, TabCloses(c) PROVE TypeOK'
  <2>1. HostOf[c] \in Hosts /\ c \in Clients
    BY ClientKinds DEF Clients
  <2>2. RegType(reg') /\ left' \in [Hosts -> Nat \cup {Never}]
    BY <1>5, <2>1, UnregisterType DEF TypeOK, TabCloses, UnregisterClient
  <2> QED
    BY <1>5, <2>2, ObserveType DEF TypeOK, TabCloses, reaper
<1> QED
  BY <1>1, <1>2, <1>3, <1>4, <1>5 DEF TabStep

LEMMA TermStepType ==
    ASSUME TypeOK, TermStep, Observe
    PROVE  TypeOK'
<1> USE DEF RegType
<1>1. ASSUME NEW c \in Terminals, TermOpen(c) PROVE TypeOK'
  <2>1. HostOf[c] \in Hosts /\ c \in Clients
    BY ClientKinds DEF Clients
  <2>2. RegType(reg') /\ left' \in [Hosts -> Nat \cup {Never}]
    BY <1>1, <2>1, RegisterType DEF TypeOK, TermOpen, RegisterClient
  <2>3. slots' \in [Hosts -> SUBSET Terminals]
    BY <1>1, <2>1 DEF TypeOK, TermOpen, AcquireTerminalSlot
  <2> QED
    BY <1>1, <2>2, <2>3, ObserveType DEF TypeOK, TermOpen, reaper
<1>2. ASSUME NEW c \in Terminals, TermRejected(c) PROVE TypeOK'
  BY <1>2, ObserveType DEF TypeOK, TermRejected, registry, reaper
<1>3. ASSUME NEW c \in Terminals, TermConnected(c) PROVE TypeOK'
  <2>1. HostOf[c] \in Hosts
    BY ClientKinds
  <2> QED
    BY <1>3, <2>1, ObserveType DEF TypeOK, TermConnected, registry, reaper
<1>4. ASSUME NEW c \in Terminals, TermConnectFails(c) \/ TermAborted(c) PROVE TypeOK'
  BY <1>4, ObserveType DEF TypeOK, TermConnectFails, TermAborted, registry, reaper
<1>5. ASSUME NEW c \in Terminals, TermEnds(c) PROVE TypeOK'
  <2>1. HostOf[c] \in Hosts /\ c \in Clients
    BY ClientKinds DEF Clients
  <2>2. RegType(reg') /\ left' \in [Hosts -> Nat \cup {Never}]
    BY <1>5, <2>1, UnregisterType DEF TypeOK, TermEnds, UnregisterClient
  <2>3. slots' \in [Hosts -> SUBSET Terminals]
    BY <1>5, <2>1 DEF TypeOK, TermEnds, ReleaseTerminalSlot
  <2> QED
    BY <1>5, <2>2, <2>3, ObserveType DEF TypeOK, TermEnds, reaper
<1> QED
  BY <1>1, <1>2, <1>3, <1>4, <1>5 DEF TermStep

LEMMA HostStepType ==
    ASSUME TypeOK, HostStep, Observe
    PROVE  TypeOK'
<1> USE DEF RegType
<1>1. ASSUME NEW h \in Hosts, NEW b \in Browsers, NEW opens \in BOOLEAN,
             HttpRequest(h, b, opens)
      PROVE  TypeOK'
  <2>1. b \in Clients
    BY DEF Clients
  <2>2. \/ RegisterClient(h, b)
        \/ reg' = Touch(reg, h, b, now) /\ UNCHANGED left
    BY <1>1 DEF HttpRequest
  <2>3. RegType(reg') /\ left' \in [Hosts -> Nat \cup {Never}]
    <3>1. CASE RegisterClient(h, b)
      BY <2>1, <3>1, RegisterType DEF TypeOK, RegisterClient
    <3>2. CASE reg' = Touch(reg, h, b, now) /\ UNCHANGED left
      BY <2>1, <3>2, TouchType DEF TypeOK
    <3> QED
      BY <2>2, <3>1, <3>2
  <2> QED
    BY <1>1, <2>3, ObserveType DEF TypeOK, HttpRequest, reaper
<1>2. ASSUME NEW h \in Hosts, ConnectionLost(h) PROVE TypeOK'
  BY <1>2, ObserveType DEF TypeOK, ConnectionLost, registry, reaper
<1> QED
  BY <1>1, <1>2 DEF HostStep

\* What a reaper pass leaves of the registry and the slots.
LEMMA ReapFacts ==
    ASSUME TypeOK, Reap
    PROVE  /\ RegType(reg')
           /\ DOMAIN reg' \subseteq Fresh(reg, now)
           /\ \A p \in DOMAIN reg' : reg'[p] = reg[p] /\ now - reg'[p] <= PingTimeout
<1>1. RegType(reg) /\ now \in Nat
  BY DEF TypeOK, RegType
<1>2. /\ DOMAIN EvictStale(reg, now) = Fresh(reg, now)
      /\ RegType(EvictStale(reg, now))
      /\ \A p \in Fresh(reg, now) : EvictStale(reg, now)[p] = reg[p]
      /\ \A p \in Fresh(reg, now) : now - reg[p] <= PingTimeout
  BY <1>1, EvictFacts
<1>3. PICK dead : reg' = [p \in {q \in DOMAIN EvictStale(reg, now) : q[1] \notin dead}
                            |-> EvictStale(reg, now)[p]]
  BY DEF Reap, CloseDeadHosts
<1> QED
  BY <1>2, <1>3 DEF RegType

LEMMA ReapType ==
    ASSUME TypeOK, Reap, Observe
    PROVE  TypeOK'
<1>1. RegType(reg')
  BY ReapFacts
<1>2. left' \in [Hosts -> Nat \cup {Never}] /\ conns' \in SUBSET Hosts
  BY DEF TypeOK, Reap, CloseDeadHosts
<1>3. slots' \in [Hosts -> SUBSET Terminals]
  BY DEF TypeOK, Reap
<1>4. allGone' \in Nat \cup {Never} /\ everHad' \in BOOLEAN /\ exit' \in BOOLEAN
  <2>1. AnyLive(reg', now) \in BOOLEAN
    BY DEF AnyLive
  <2> QED
    BY <2>1 DEF TypeOK, Reap, SampleAutoExit
<1>5. now' \in Nat /\ reapDue' \in Nat
  BY Durations DEF TypeOK, Reap
<1> QED
  BY <1>1, <1>2, <1>3, <1>4, <1>5, ObserveType DEF TypeOK, Reap, RegType

LEMMA TickType ==
    ASSUME TypeOK, Tick, Observe
    PROVE  TypeOK'
BY ObserveType DEF TypeOK, Tick, registry, reaper

\* Every variable keeps its type: clients are registered with known hosts and
\* time stamps are times.
THEOREM TypeCorrect == Spec => []TypeOK
<1>1. ASSUME Init PROVE TypeOK
  <2>1. DOMAIN reg \subseteq Hosts \X Clients /\ reg \in [DOMAIN reg -> Nat]
    BY <1>1 DEF Init
  <2>2. reapDue \in Nat
    BY <1>1, Durations DEF Init
  <2> QED
    BY <1>1, <2>1, <2>2 DEF Init, TypeOK
<1>2. TypeOK /\ [Next]_vars => TypeOK'
  <2> SUFFICES ASSUME TypeOK, [Next]_vars PROVE TypeOK'
    OBVIOUS
  <2>1. CASE Next
    BY <2>1, TabStepType, TermStepType, HostStepType, ReapType, TickType DEF Next
  <2>2. CASE UNCHANGED vars
    BY <2>2 DEF vars, registry, reaper, TypeOK
  <2> QED
    BY <2>1, <2>2
<1> QED
  BY <1>1, <1>2, PTL DEF Spec

-----------------------------------------------------------------------------
(* Dead clients and their slots. *)

HandlerStep == TabStep \/ TermStep \/ HostStep

\* No handler back-dates an entry of the registry.
Younger == YoungerThan(reg', reg, now)

\* Handlers leave the clock and the reaper alone, only freshen the registry,
\* and unregister a slot's holder only when they release the slot.
LEMMA HandlersFreshen ==
    ASSUME TypeOK, SlotHoldersRegistered, HandlerStep
    PROVE  now' = now /\ reapDue' = reapDue /\ Younger /\ SlotHoldersRegistered'
<1>2. ASSUME NEW c \in Tabs, NEW msg \in Replies,
             TabOpen(c) \/ TabPing(c) \/ TabReply(c, msg)
      PROVE  now' = now /\ reapDue' = reapDue /\ Younger /\ SlotHoldersRegistered'
  <2>1. HostOf[c] \in Hosts /\ c \in Clients
    BY ClientKinds DEF Clients
  <2>2. \/ reg' = Register(reg, HostOf[c], c, now)
        \/ reg' = Touch(reg, HostOf[c], c, now)
        \/ reg' = reg
    BY <1>2 DEF TabOpen, RegisterClient, TabPing, TabReply
  <2>3. Younger /\ DOMAIN reg \subseteq DOMAIN reg'
    <3>1. /\ YoungerThan(Register(reg, HostOf[c], c, now), reg, now)
          /\ DOMAIN reg \subseteq DOMAIN Register(reg, HostOf[c], c, now)
      BY DEF YoungerThan, Register
    <3>2. /\ YoungerThan(Touch(reg, HostOf[c], c, now), reg, now)
          /\ DOMAIN reg \subseteq DOMAIN Touch(reg, HostOf[c], c, now)
      BY DEF YoungerThan, Touch
    <3>3. YoungerThan(reg, reg, now)
      BY DEF YoungerThan
    <3> QED
      BY <2>2, <3>1, <3>2, <3>3 DEF Younger
  <2>4. now' = now /\ reapDue' = reapDue /\ slots' = slots
    BY <1>2 DEF TabOpen, TabPing, TabReply, reaper
  <2> QED
    BY <2>3, <2>4 DEF SlotHoldersRegistered
<1>3. ASSUME NEW c \in Tabs, TabOpen(c) \/ TabPing(c)
      PROVE  now' = now /\ reapDue' = reapDue /\ Younger /\ SlotHoldersRegistered'
  BY <1>2, <1>3, Switches
<1>4. ASSUME NEW c \in Tabs, TabCloses(c)
      PROVE  now' = now /\ reapDue' = reapDue /\ Younger /\ SlotHoldersRegistered'
  <2>1. HostOf[c] \in Hosts /\ c \in Clients
    BY ClientKinds DEF Clients
  <2>2. reg' = Unregister(reg, HostOf[c], c) /\ slots' = slots
    BY <1>4 DEF TabCloses, UnregisterClient
  <2>3. Younger /\ DOMAIN reg' = DOMAIN reg \ {<<HostOf[c], c>>}
    BY <2>2 DEF Younger, YoungerThan, Unregister
  <2>4. \A h \in Hosts : c \notin slots[h]
    BY ClientKinds DEF TypeOK
  <2>5. now' = now /\ reapDue' = reapDue
    BY <1>4 DEF TabCloses, reaper
  <2> QED
    BY <2>2, <2>3, <2>4, <2>5 DEF SlotHoldersRegistered
<1>5. ASSUME NEW c \in Terminals, TermOpen(c)
      PROVE  now' = now /\ reapDue' = reapDue /\ Younger /\ SlotHoldersRegistered'
  <2>1. HostOf[c] \in Hosts /\ c \in Clients
    BY ClientKinds DEF Clients
  <2>2. /\ reg' = Register(reg, HostOf[c], c, now)
        /\ slots' = [slots EXCEPT ![HostOf[c]] = @ \cup {c}]
    BY <1>5 DEF TermOpen, RegisterClient, AcquireTerminalSlot
  <2>3. Younger /\ DOMAIN reg' = DOMAIN reg \cup {<<HostOf[c], c>>}
    <3>1. /\ YoungerThan(Register(reg, HostOf[c], c, now), reg, now)
          /\ DOMAIN Register(reg, HostOf[c], c, now) = DOMAIN reg \cup {<<HostOf[c], c>>}
      BY DEF YoungerThan, Register
    <3> QED
      BY <2>2, <3>1 DEF Younger
  <2>4. now' = now /\ reapDue' = reapDue
    BY <1>5 DEF TermOpen, reaper
  <2>5. SlotHoldersRegistered'
    BY <2>1, <2>2, <2>3 DEF SlotHoldersRegistered, TypeOK
  <2> QED
    BY <2>3, <2>4, <2>5
<1>6. ASSUME NEW c \in Terminals, TermEnds(c)
      PROVE  now' = now /\ reapDue' = reapDue /\ Younger /\ SlotHoldersRegistered'
  <2>1. HostOf[c] \in Hosts /\ c \in Clients
    BY ClientKinds DEF Clients
  <2>2. /\ reg' = Unregister(reg, HostOf[c], c)
        /\ slots' = [slots EXCEPT ![HostOf[c]] = @ \ {c}]
    BY <1>6 DEF TermEnds, UnregisterClient, ReleaseTerminalSlot
  <2>3. Younger /\ DOMAIN reg' = DOMAIN reg \ {<<HostOf[c], c>>}
    BY <2>2 DEF Younger, YoungerThan, Unregister
  <2>4. now' = now /\ reapDue' = reapDue
    BY <1>6 DEF TermEnds, reaper
  <2>5. SlotHoldersRegistered'
    BY <2>1, <2>2, <2>3 DEF SlotHoldersRegistered, TypeOK
  <2> QED
    BY <2>3, <2>4, <2>5
<1>7. ASSUME NEW h \in Hosts, NEW b \in Browsers, NEW opens \in BOOLEAN,
             HttpRequest(h, b, opens)
      PROVE  now' = now /\ reapDue' = reapDue /\ Younger /\ SlotHoldersRegistered'
  <2>1. b \in Clients
    BY DEF Clients
  <2>2. reg' = Register(reg, h, b, now) \/ reg' = Touch(reg, h, b, now)
    BY <1>7 DEF HttpRequest, RegisterClient
  <2>3. Younger /\ DOMAIN reg \subseteq DOMAIN reg'
    <3>1. /\ YoungerThan(Register(reg, h, b, now), reg, now)
          /\ DOMAIN reg \subseteq DOMAIN Register(reg, h, b, now)
      BY DEF YoungerThan, Register
    <3>2. /\ YoungerThan(Touch(reg, h, b, now), reg, now)
          /\ DOMAIN reg \subseteq DOMAIN Touch(reg, h, b, now)
      BY DEF YoungerThan, Touch
    <3>3. YoungerThan(reg, reg, now)
      BY DEF YoungerThan
    <3> QED
      BY <2>2, <3>1, <3>2, <3>3 DEF Younger
  <2>4. now' = now /\ reapDue' = reapDue /\ slots' = slots
    BY <1>7 DEF HttpRequest, reaper
  <2> QED
    BY <2>3, <2>4 DEF SlotHoldersRegistered
<1>8. ASSUME UNCHANGED <<now, registry, slots, reaper>>
      PROVE  now' = now /\ reapDue' = reapDue /\ Younger /\ SlotHoldersRegistered'
  BY <1>8 DEF registry, reaper, Younger, YoungerThan, SlotHoldersRegistered
<1>9. CASE TabStep
  BY <1>2, <1>3, <1>4, <1>8, <1>9 DEF TabStep, TabLeaves
<1>10. CASE TermStep
  BY <1>5, <1>6, <1>8, <1>10
     DEF TermStep, TermRejected, TermConnected, TermConnectFails, TermAborted
<1>11. CASE HostStep
  BY <1>7, <1>8, <1>11 DEF HostStep, ConnectionLost
<1> QED
  BY <1>9, <1>10, <1>11 DEF HandlerStep

\* A pass that evicts a client takes its slot with it.
LEMMA ReapKeepsHolders ==
    ASSUME TypeOK, SlotHoldersRegistered, Reap,
           HostsWithZeroClients(EvictStale(reg, now), now) = {}
    PROVE  SlotHoldersRegistered' /\ DOMAIN reg' = Fresh(reg, now)
<1>1. RegType(reg) /\ now \in Nat
  BY DEF TypeOK, RegType
<1>2. DOMAIN reg' = Fresh(reg, now)
  <2>1. DOMAIN EvictStale(reg, now) = Fresh(reg, now)
    BY <1>1, EvictFacts
  <2>2. PICK l, s : CloseDeadHosts(EvictStale(reg, now), l, s)
    BY DEF Reap
  <2>3. Closable(EvictStale(reg, now), l, s) = {}
    BY DEF Closable
  <2> QED
    BY <2>1, <2>2, <2>3 DEF CloseDeadHosts
<1>3. slots' = [h \in Hosts |-> {c \in slots[h] : <<h, c>> \notin DOMAIN reg \ Fresh(reg, now)}]
  BY DEF Reap
<1> QED
  BY <1>2, <1>3 DEF SlotHoldersRegistered

\* Once the stale clients are out, every host that is left has a live client:
\* the second part of a pass finds no host to close.
LEMMA NoHostWithZeroClients ==
    ASSUME NEW r, RegType(r), NEW t \in Nat
    PROVE  HostsWithZeroClients(EvictStale(r, t), t) = {}
<1> DEFINE e == EvictStale(r, t)
<1>1. /\ DOMAIN e = Fresh(r, t)
      /\ \A p \in DOMAIN e : t - e[p] <= PingTimeout
  BY EvictFacts DEF RegType
<1>2. \A p \in DOMAIN e : p \in Fresh(e, t)
  BY <1>1 DEF Fresh
<1> QED
  BY <1>2 DEF HostsWithZeroClients, Live

LEMMA IInvStep == IInv /\ [Next]_vars => IInv'
<1> SUFFICES ASSUME IInv, [Next]_vars PROVE IInv'
  OBVIOUS
<1>0. TypeOK'
  <2>1. CASE Next
    BY <2>1, TabStepType, TermStepType, HostStepType, ReapType, TickType DEF Next, IInv
  <2>2. CASE UNCHANGED vars
    BY <2>2 DEF vars, registry, reaper, TypeOK, IInv
  <2> QED
    BY <2>1, <2>2
<1>1. CASE HandlerStep
  <2>1. now' = now /\ reapDue' = reapDue /\ Younger /\ SlotHoldersRegistered'
    BY <1>1, HandlersFreshen DEF IInv
  <2>2. ReaperOnTime'
    BY <2>1 DEF IInv, ReaperOnTime
  <2>3. FreshAtLastPass'
    BY <2>1, Durations DEF IInv, TypeOK, ReaperOnTime, FreshAtLastPass, Younger, YoungerThan
  <2> QED
    BY <1>0, <2>1, <2>2, <2>3 DEF IInv
<1>2. CASE Reap
  <2>1. SlotHoldersRegistered'
    BY <1>2, ReapKeepsHolders, NoHostWithZeroClients DEF IInv, TypeOK, RegType
  <2>2. now' = now /\ reapDue' = now + ReaperInterval
    BY <1>2 DEF Reap
  <2>3. ReaperOnTime'
    BY <2>2, Durations DEF IInv, TypeOK, ReaperOnTime
  <2>4. FreshAtLastPass'
    <3>1. \A p \in DOMAIN reg' : reg'[p] \in Nat /\ now - reg'[p] <= PingTimeout
      BY <1>0, <1>2, ReapFacts DEF IInv, TypeOK
    <3> QED
      BY <2>2, <3>1, Durations DEF IInv, TypeOK, FreshAtLastPass
  <2> QED
    BY <1>0, <2>1, <2>3, <2>4 DEF IInv
<1>3. CASE Tick
  BY <1>0, <1>3, Durations DEF Tick, OnTime, registry, reaper, IInv, TypeOK,
     ReaperOnTime, FreshAtLastPass, SlotHoldersRegistered
<1>4. CASE UNCHANGED vars
  BY <1>0, <1>4 DEF vars, registry, reaper, IInv,
     ReaperOnTime, FreshAtLastPass, SlotHoldersRegistered
<1> QED
  BY <1>1, <1>2, <1>3, <1>4 DEF Next, HandlerStep

LEMMA IInvInit == Init => IInv
<1> SUFFICES ASSUME Init PROVE IInv
  OBVIOUS
<1>1. TypeOK
  <2>1. DOMAIN reg \subseteq Hosts \X Clients /\ reg \in [DOMAIN reg -> Nat]
    BY DEF Init
  <2>2. reapDue \in Nat
    BY Durations DEF Init
  <2> QED
    BY <2>1, <2>2 DEF Init, TypeOK
<1>2. ReaperOnTime
  BY Durations DEF Init, ReaperOnTime
<1>3. FreshAtLastPass /\ SlotHoldersRegistered
  BY DEF Init, FreshAtLastPass, SlotHoldersRegistered
<1> QED
  BY <1>1, <1>2, <1>3 DEF IInv

LEMMA Invariance == Spec => []IInv
BY IInvInit, IInvStep, PTL DEF Spec

\* An entry of the registry is never older than a timeout and a round.
LEMMA AgeBound ==
    ASSUME IInv, NEW p \in DOMAIN reg
    PROVE  now - reg[p] <= PingTimeout + ReaperInterval + MaxDelay
<1>1. reg[p] \in Nat
  BY DEF IInv, TypeOK
<1> QED
  BY <1>1, Durations DEF IInv, TypeOK, ReaperOnTime, FreshAtLastPass

\* However the handlers interleave with the reaper, no client stays in the
\* registry for longer than the ping timeout and one reaper round after it was
\* last heard of.
THEOREM StaleClientsAreEvicted == Spec => []StaleClientsEvictedInTime
<1>1. IInv => StaleClientsEvictedInTime
  BY AgeBound DEF StaleClientsEvictedInTime
<1> QED
  BY <1>1, Invariance, PTL

\* A terminal slot is never lost: its holder is in the registry and young
\* enough, so that the next passes reclaim what its handler did not release.
THEOREM SlotsAreReclaimed == Spec => []SlotsReclaimedInTime
<1>1. IInv => SlotsReclaimedInTime
  BY AgeBound DEF SlotsReclaimedInTime, IInv, SlotHoldersRegistered
<1> QED
  BY <1>1, Invariance, PTL

-----------------------------------------------------------------------------
(* Open tabs.  The theorems of this part assume what the code's constants   *)
(* and the UI give: the timeouts cover the pauses of the liveness loop, the *)
(* browser only answers "pong", and no timer is late.                       *)

LoopWithinTimeout ==
    /\ PingInterval <= PingTimeout /\ PongTimeout <= PingTimeout
    /\ Replies = {"pong"}
    /\ MaxDelay = 0

Active(c) == tab[c] \in {"sleeping", "awaiting"}

\* The loop's last touch is as old as its running timer says.
Wait(c) == IF tab[c] = "sleeping" THEN PingInterval ELSE PongTimeout

TabInTime(c) ==
    /\ now <= due[c] /\ due[c] - Wait(c) <= now
    /\ <<HostOf[c], c>> \in DOMAIN reg
    /\ reg[<<HostOf[c], c>>] >= due[c] - Wait(c)

TabsInTime == \A c \in Tabs : Active(c) => TabInTime(c)

NoExitWhileActive == exit => \A c \in Tabs : ~Active(c)

LEMMA InTimeIsLive ==
    ASSUME LoopWithinTimeout, TypeOK, TabsInTime, NEW c \in Tabs, Active(c)
    PROVE  c \in Live(reg, now, HostOf[c])
<1>1. TabInTime(c)
  BY DEF TabsInTime
<1>2. reg[<<HostOf[c], c>>] \in Nat
  BY <1>1 DEF TypeOK, TabInTime
<1>3. now - reg[<<HostOf[c], c>>] <= PingTimeout
  BY <1>1, <1>2, Durations DEF TabInTime, Wait, LoopWithinTimeout, TypeOK
<1> QED
  BY <1>1, <1>3 DEF Live, Fresh, Clients, TabInTime

\* What no handler but its own does to a tab: its entry survives, unaged.
LEMMA OthersKeepTab ==
    ASSUME TypeOK, TabsInTime, NEW d \in Tabs, Active(d),
           tab'[d] = tab[d], due'[d] = due[d], now' = now,
           <<HostOf[d], d>> \in DOMAIN reg',
           reg'[<<HostOf[d], d>>] \in {reg[<<HostOf[d], d>>], now}
    PROVE  TabInTime(d)'
<1>1. TabInTime(d)
  BY DEF TabsInTime
<1>2. Wait(d)' = Wait(d) /\ Wait(d) \in Nat
  BY Durations DEF Wait
<1>3. reg'[<<HostOf[d], d>>] >= due[d] - Wait(d)
  <2>1. CASE reg'[<<HostOf[d], d>>] = reg[<<HostOf[d], d>>]
    BY <1>1, <2>1 DEF TabInTime
  <2>2. CASE reg'[<<HostOf[d], d>>] = now
    BY <1>1, <1>2, <2>2 DEF TabInTime, TypeOK
  <2> QED
    BY <2>1, <2>2
<1>4. now <= due[d] /\ due[d] - Wait(d) <= now
  BY <1>1 DEF TabInTime
<1> QED
  BY <1>2, <1>3, <1>4 DEF TabInTime

LEMMA TabStepInTime ==
    ASSUME LoopWithinTimeout, TypeOK, TypeOK', TabsInTime, TabStep
    PROVE  TabsInTime'
<1> SUFFICES ASSUME NEW d \in Tabs, Active(d)' PROVE TabInTime(d)'
  BY DEF TabsInTime
<1>1. ASSUME NEW c \in Tabs, TabOpen(c) PROVE TabInTime(d)'
  <2>1. CASE d = c
    BY <1>1, <2>1, Durations
       DEF TabOpen, RegisterClient, Register, TabInTime, Wait, TypeOK
  <2>2. CASE d # c
    <3>1. /\ Active(d) /\ tab'[d] = tab[d] /\ due'[d] = due[d] /\ now' = now
          /\ reg' = Register(reg, HostOf[c], c, now)
      BY <1>1, <2>2 DEF TabOpen, RegisterClient, TypeOK, Active
    <3>2. <<HostOf[d], d>> \in DOMAIN reg
      BY <3>1 DEF TabsInTime, TabInTime
    <3> QED
      BY <2>2, <3>1, <3>2, OthersKeepTab DEF Register
  <2> QED
    BY <2>1, <2>2
<1>2. ASSUME NEW c \in Tabs, TabLeaves(c) PROVE TabInTime(d)'
  BY <1>2 DEF TabLeaves, registry, Active, TabsInTime, TabInTime, Wait
<1>3. ASSUME NEW c \in Tabs, NEW w \in {PingInterval, PongTimeout},
             NEW s \in {"sleeping", "awaiting"},
             w = (IF s = "sleeping" THEN PingInterval ELSE PongTimeout),
             Active(c),
             reg' = Touch(reg, HostOf[c], c, now),
             tab' = [tab EXCEPT ![c] = s],
             due' = [due EXCEPT ![c] = now + w],
             now' = now
      PROVE  TabInTime(d)'
  <2>1. CASE d = c
    <3>1. <<HostOf[c], c>> \in DOMAIN reg
      BY <1>3 DEF TabsInTime, TabInTime
    <3>2. <<HostOf[c], c>> \in DOMAIN reg' /\ reg'[<<HostOf[c], c>>] = now
      BY <1>3, <3>1 DEF Touch
    <3>3. tab'[c] = s /\ due'[c] = now + w
      BY <1>3 DEF TypeOK
    <3> QED
      BY <1>3, <2>1, <3>2, <3>3, Durations DEF TabInTime, Wait, TypeOK
  <2>2. CASE d # c
    <3>1. Active(d) /\ tab'[d] = tab[d] /\ due'[d] = due[d]
      BY <1>3, <2>2 DEF TypeOK, Active
    <3>2. <<HostOf[d], d>> \in DOMAIN reg
      BY <3>1 DEF TabsInTime, TabInTime
    <3> QED
      BY <1>3, <2>2, <3>1, <3>2, OthersKeepTab DEF Touch
  <2> QED
    BY <2>1, <2>2
<1>4. ASSUME NEW c \in Tabs, TabPing(c) PROVE TabInTime(d)'
  BY <1>3, <1>4 DEF TabPing, Active
<1>5. ASSUME NEW c \in Tabs, NEW msg \in Replies, TabReply(c, msg) PROVE TabInTime(d)'
  BY <1>3, <1>5 DEF TabReply, Active, LoopWithinTimeout
<1>6. ASSUME NEW c \in Tabs, TabCloses(c) PROVE TabInTime(d)'
  <2>1. d # c
    BY <1>6 DEF TabCloses, Active, TypeOK
  <2>2. /\ Active(d) /\ tab'[d] = tab[d] /\ due'[d] = due[d] /\ now' = now
        /\ reg' = Unregister(reg, HostOf[c], c)
    BY <1>6, <2>1 DEF TabCloses, UnregisterClient, TypeOK, Active
  <2>3. <<HostOf[d], d>> \in DOMAIN reg
    BY <2>2 DEF TabsInTime, TabInTime
  <2> QED
    BY <2>1, <2>2, <2>3, OthersKeepTab DEF Unregister
<1> QED
  BY <1>1, <1>2, <1>4, <1>5, <1>6 DEF TabStep

LEMMA TermStepInTime ==
    ASSUME LoopWithinTimeout, TypeOK, TabsInTime, TermStep
    PROVE  TabsInTime'
<1> SUFFICES ASSUME NEW d \in Tabs, Active(d)' PROVE TabInTime(d)'
  BY DEF TabsInTime
<1>1. ASSUME NEW c \in Terminals,
             TermOpen(c) \/ TermRejected(c) \/ TermConnected(c)
                \/ TermConnectFails(c) \/ TermEnds(c) \/ TermAborted(c)
      PROVE  TabInTime(d)'
  <2>1. d # c
    BY ClientKinds
  <2>2. tab' = tab /\ due' = due /\ now' = now
    BY <1>1 DEF TermOpen, TermRejected, TermConnected, TermConnectFails, TermAborted, TermEnds
  <2>3. Active(d) /\ <<HostOf[d], d>> \in DOMAIN reg
    BY <2>2 DEF Active, TabsInTime, TabInTime
  <2>4. \/ reg' = reg
        \/ reg' = Register(reg, HostOf[c], c, now)
        \/ reg' = Unregister(reg, HostOf[c], c)
    BY <1>1 DEF TermOpen, TermRejected, TermConnected, TermConnectFails, TermAborted, TermEnds,
       registry, RegisterClient, UnregisterClient
  <2>5. /\ <<HostOf[d], d>> \in DOMAIN reg'
        /\ reg'[<<HostOf[d], d>>] = reg[<<HostOf[d], d>>]
    BY <2>1, <2>3, <2>4 DEF Register, Unregister
  <2> QED
    BY <2>2, <2>3, <2>5, OthersKeepTab
<1> QED
  BY <1>1 DEF TermStep

LEMMA HostStepInTime ==
    ASSUME LoopWithinTimeout, TypeOK, TabsInTime, HostStep
    PROVE  TabsInTime'
<1> SUFFICES ASSUME NEW d \in Tabs, Active(d)' PROVE TabInTime(d)'
  BY DEF TabsInTime
<1>1. tab' = tab /\ due' = due /\ now' = now
  BY DEF HostStep, HttpRequest, ConnectionLost
<1>2. Active(d) /\ <<HostOf[d], d>> \in DOMAIN reg
  BY <1>1 DEF Active, TabsInTime, TabInTime
<1>3. /\ <<HostOf[d], d>> \in DOMAIN reg'
      /\ reg'[<<HostOf[d], d>>] \in {reg[<<HostOf[d], d>>], now}
  <2>1. ASSUME NEW h \in Hosts, NEW b \in Browsers, NEW opens \in BOOLEAN,
               HttpRequest(h, b, opens)
        PROVE  reg' = Register(reg, h, b, now) \/ reg' = Touch(reg, h, b, now)
    BY <2>1 DEF HttpRequest, RegisterClient
  <2>2. ASSUME NEW h \in Hosts, ConnectionLost(h) PROVE reg' = reg
    BY <2>2 DEF ConnectionLost, registry
  <2>3. \/ reg' = reg
        \/ \E h \in Hosts, b \in Browsers :
              reg' = Register(reg, h, b, now) \/ reg' = Touch(reg, h, b, now)
    BY <2>1, <2>2 DEF HostStep
  <2> QED
    BY <1>2, <2>3 DEF Register, Touch
<1> QED
  BY <1>1, <1>2, <1>3, OthersKeepTab

\* A pass evicts no tab that is in time.
LEMMA ReapInTime ==
    ASSUME LoopWithinTimeout, TypeOK, SlotHoldersRegistered, TabsInTime, Reap
    PROVE  TabsInTime'
<1> SUFFICES ASSUME NEW d \in Tabs, Active(d)' PROVE TabInTime(d)'
  BY DEF TabsInTime
<1>1. tab' = tab /\ due' = due /\ now' = now
  BY DEF Reap
<1>2. Active(d)
  BY <1>1 DEF Active
<1>3. <<HostOf[d], d>> \in Fresh(reg, now)
  BY <1>2, InTimeIsLive DEF Live
<1>4. DOMAIN reg' = Fresh(reg, now)
  BY ReapKeepsHolders, NoHostWithZeroClients DEF TypeOK, RegType
<1>5. reg'[<<HostOf[d], d>>] = reg[<<HostOf[d], d>>]
  BY <1>3, <1>4, ReapFacts
<1> QED
  BY <1>1, <1>2, <1>3, <1>4, <1>5, OthersKeepTab

LEMMA TickInTime ==
    ASSUME LoopWithinTimeout, TypeOK, TabsInTime, Tick
    PROVE  TabsInTime'
<1> SUFFICES ASSUME NEW d \in Tabs, Active(d)' PROVE TabInTime(d)'
  BY DEF TabsInTime
<1>1. tab' = tab /\ due' = due /\ now' = now + 1 /\ reg' = reg
  BY DEF Tick, registry
<1>2. Active(d) /\ TabInTime(d)
  BY <1>1 DEF Active, TabsInTime
<1>3. now < due[d]
  BY <1>2, Durations DEF Tick, OnTime, Active, LoopWithinTimeout, TypeOK
<1>4. Wait(d)' = Wait(d) /\ Wait(d) \in Nat
  BY <1>1, Durations DEF Wait
<1> QED
  BY <1>1, <1>2, <1>3, <1>4 DEF TabInTime, TypeOK

LEMMA TabsInvariance ==
    ASSUME LoopWithinTimeout
    PROVE  Spec => [](IInv /\ TabsInTime)
<1>1. Init => TabsInTime
  BY DEF Init, TabsInTime, Active
<1>2. IInv /\ IInv' /\ TabsInTime /\ [Next]_vars => TabsInTime'
  <2> SUFFICES ASSUME IInv, IInv', TabsInTime, [Next]_vars PROVE TabsInTime'
    OBVIOUS
  <2>1. CASE Next
    BY <2>1, TabStepInTime, TermStepInTime, HostStepInTime, ReapInTime, TickInTime
       DEF Next, IInv
  <2>2. CASE UNCHANGED vars
    BY <2>2 DEF vars, registry, TabsInTime, TabInTime, Active, Wait
  <2> QED
    BY <2>1, <2>2
<1> QED
  BY <1>1, <1>2, Invariance, PTL DEF Spec

\* An open tab is a live client of its host at every instant: no interleaving
\* of the loop's touches with the reaper and the other handlers evicts it.
THEOREM OpenTabsAreLive ==
    ASSUME LoopWithinTimeout
    PROVE  Spec => []OpenTabIsLive
<1>1. IInv /\ TabsInTime => OpenTabIsLive
  BY InTimeIsLive DEF IInv, OpenTabIsLive, Active
<1> QED
  BY <1>1, TabsInvariance, PTL

\* The daemon does not exit while a tab is open: a pass that fires the
\* auto-exit has just seen no live client, and an open tab is one.
THEOREM NoExitUnderOpenTabs ==
    ASSUME LoopWithinTimeout
    PROVE  Spec => []NoExitUnderOpenTab
<1>1. Init => NoExitUnderOpenTab
  BY DEF Init, NoExitUnderOpenTab
<1>2. ASSUME IInv, TabsInTime, [Next]_vars, NoExitUnderOpenTab
      PROVE  NoExitUnderOpenTab'
  <2>1. CASE Next /\ Reap
    <3>1. SUFFICES ASSUME exit', NEW c \in Tabs, Active(c)' PROVE FALSE
      BY DEF NoExitUnderOpenTab, Active
    <3>2. c \in Live(reg', now, HostOf[c])
      <4>1. Active(c)
        BY <2>1, <3>1 DEF Reap, Active
      <4>2. <<HostOf[c], c>> \in DOMAIN reg'
        BY <1>2, <2>1, <4>1, InTimeIsLive, ReapKeepsHolders, NoHostWithZeroClients
           DEF IInv, TypeOK, RegType, Live
      <4>3. now - reg'[<<HostOf[c], c>>] <= PingTimeout
        BY <1>2, <2>1, <4>2, ReapFacts DEF IInv
      <4> QED
        BY <4>2, <4>3 DEF Live, Fresh, Clients
    <3>3. ~AnyLive(reg', now)
      BY <2>1, <3>1 DEF Next, Reap, SampleAutoExit, reaper
    <3> QED
      BY <2>1, <3>2, <3>3, ClientKinds DEF AnyLive, Reap
  <2>2. CASE Next /\ ~Reap
    <3>1. exit' = exit /\ ~exit
      BY <2>2 DEF Next, TabStep, TermStep, HostStep, TabOpen, TabLeaves, TabPing,
         TabReply, TabCloses, TermOpen, TermRejected, TermConnected,
         TermConnectFails, TermAborted, TermEnds, HttpRequest, ConnectionLost, Tick, reaper
    <3> QED
      BY <3>1 DEF NoExitUnderOpenTab
  <2>3. CASE UNCHANGED vars
    BY <1>2, <2>3 DEF vars, reaper, NoExitUnderOpenTab
  <2> QED
    BY <1>2, <2>1, <2>2, <2>3
<1> QED
  BY <1>1, <1>2, TabsInvariance, PTL DEF Spec

-----------------------------------------------------------------------------
(* The auto-exit. *)

\* The last pass was at reapDue - ReaperInterval.  It saw a live client, or it was
\* still within the grace period, which began at a pass that saw none although the
\* pass before it did.
ArmedInTime == AutoExit /\ everHad /\ ~exit =>
    /\ allGone = Never => \E h \in Hosts : lastLive[h] >= reapDue - ReaperInterval
    /\ allGone # Never =>
         /\ reapDue - ReaperInterval - allGone < AutoExitGrace
         /\ \E h \in Hosts : lastLive[h] >= allGone - (ReaperInterval + MaxDelay)

LastLiveIsPast == \A h \in Hosts : lastLive[h] <= now

\* What a host's last live client was seen at never moves back.
LEMMA LastLiveGrows ==
    ASSUME TypeOK, LastLiveIsPast, Observe, now' \in Nat, now' >= now
    PROVE  /\ LastLiveIsPast'
           /\ \A h \in Hosts : lastLive'[h] >= lastLive[h] /\ lastLive'[h] \in Nat
BY DEF TypeOK, LastLiveIsPast, Observe

\* Only a pass touches the reaper's variables.
LEMMA OnlyReapSamples ==
    ASSUME Next
    PROVE  Reap \/ UNCHANGED reaper
BY DEF Next, TabStep, TermStep, HostStep, TabOpen, TabLeaves, TabPing, TabReply, TabCloses,
   TermOpen, TermRejected, TermConnected, TermConnectFails, TermAborted, TermEnds, HttpRequest,
   ConnectionLost, Tick

LEMMA ClockGoesOn ==
    ASSUME TypeOK, Next
    PROVE  Observe /\ now' \in Nat /\ now' >= now
<1>1. now' = now \/ now' = now + 1
  BY DEF Next, TabStep, TermStep, HostStep, TabOpen, TabLeaves, TabPing, TabReply, TabCloses,
     TermOpen, TermRejected, TermConnected, TermConnectFails, TermAborted, TermEnds, HttpRequest,
     ConnectionLost, Reap, Tick
<1> QED
  BY <1>1 DEF Next, TypeOK

LEMMA ReapArms ==
    ASSUME IInv, TypeOK', LastLiveIsPast, ArmedInTime, Next, Reap
    PROVE  ArmedInTime'
<1> SUFFICES ASSUME AutoExit, everHad', ~exit'
             PROVE  /\ allGone' = Never => \E h \in Hosts : lastLive'[h] >= reapDue' - ReaperInterval
                    /\ allGone' # Never =>
                         /\ reapDue' - ReaperInterval - allGone' < AutoExitGrace
                         /\ \E h \in Hosts : lastLive'[h] >= allGone' - (ReaperInterval + MaxDelay)
  BY DEF ArmedInTime
<1> DEFINE live == AnyLive(reg', now)
<1>1. /\ now' = now /\ reapDue' - ReaperInterval = now /\ now \in Nat
      /\ now <= reapDue + MaxDelay /\ reapDue \in Nat
  BY Durations DEF Reap, IInv, TypeOK, ReaperOnTime
<1>2. /\ ~exit /\ everHad' = (everHad \/ live)
      /\ allGone' = (IF live THEN Never ELSE IF everHad /\ allGone = Never THEN now ELSE allGone)
  BY DEF Next, Reap, SampleAutoExit
<1>3. ~live /\ everHad /\ allGone # Never => ~(now - allGone >= AutoExitGrace)
  BY DEF Reap, SampleAutoExit
<1>4. ReaperInterval \in Nat /\ MaxDelay \in Nat /\ AutoExitGrace \in Nat \ {0} /\ Never \notin Nat
  BY Durations, NeverIsNoTime
<1>5. \A h \in Hosts : lastLive[h] \in Nat /\ lastLive'[h] \in Nat /\ lastLive'[h] >= lastLive[h]
  BY LastLiveGrows, ClockGoesOn DEF IInv, TypeOK
<1>6. CASE live
  <2>1. PICK h \in Hosts : Live(reg', now, h) # {}
    BY <1>6 DEF AnyLive
  <2>2. lastLive'[h] = now
    BY <1>1, <2>1 DEF Next, Observe
  <2> QED
    BY <1>1, <1>2, <1>6, <2>1, <2>2
<1>7. CASE ~live /\ allGone = Never
  <2>1. everHad /\ allGone' = now
    BY <1>7, <1>2
  <2>2. PICK h \in Hosts : lastLive[h] >= reapDue - ReaperInterval
    BY <1>2, <1>7, <2>1 DEF ArmedInTime
  <2>3. lastLive'[h] >= now - (ReaperInterval + MaxDelay)
    BY <1>1, <1>4, <1>5, <2>2
  <2> QED
    BY <1>1, <1>4, <2>1, <2>3
<1>8. CASE ~live /\ allGone # Never
  <2>1. everHad /\ allGone' = allGone /\ allGone \in Nat /\ now - allGone < AutoExitGrace
    BY <1>1, <1>4, <1>8, <1>2, <1>3 DEF IInv, TypeOK
  <2>2. PICK h \in Hosts : lastLive[h] >= allGone - (ReaperInterval + MaxDelay)
    BY <1>2, <1>8, <2>1 DEF ArmedInTime
  <2>3. lastLive'[h] >= allGone - (ReaperInterval + MaxDelay)
    BY <1>4, <1>5, <2>1, <2>2
  <2> QED
    BY <1>1, <1>8, <2>1, <2>3
<1> QED
  BY <1>6, <1>7, <1>8

\* Once it has had a client, the daemon of open --cmd lives on for at most the grace
\* period and two passes after the last live client of any host, however late its
\* timers fire.
THEOREM ExitComesInTime == Spec => []ExitsInTime
<1>1. Init => LastLiveIsPast /\ ArmedInTime
  BY DEF Init, LastLiveIsPast, ArmedInTime
<1>2. IInv /\ TypeOK' /\ LastLiveIsPast /\ ArmedInTime /\ [Next]_vars => LastLiveIsPast' /\ ArmedInTime'
  <2> SUFFICES ASSUME IInv, TypeOK', LastLiveIsPast, ArmedInTime, [Next]_vars
               PROVE  LastLiveIsPast' /\ ArmedInTime'
    OBVIOUS
  <2>1. CASE UNCHANGED vars
    BY <2>1 DEF vars, reaper, LastLiveIsPast, ArmedInTime
  <2>2. ASSUME Next PROVE LastLiveIsPast' /\ \A h \in Hosts : lastLive'[h] >= lastLive[h] /\ lastLive'[h] \in Nat
    BY <2>2, LastLiveGrows, ClockGoesOn DEF IInv
  <2>3. CASE Next /\ Reap
    BY <2>2, <2>3, ReapArms
  <2>4. CASE Next /\ UNCHANGED reaper
    <3> SUFFICES ASSUME AutoExit, everHad, ~exit PROVE ArmedInTime'
      BY <2>2, <2>4 DEF ArmedInTime, reaper
    <3>1. \A h \in Hosts : lastLive[h] \in Nat /\ lastLive'[h] \in Nat /\ lastLive'[h] >= lastLive[h]
      BY <2>2, <2>4 DEF IInv, TypeOK
    <3>2. UNCHANGED <<reapDue, allGone, everHad, exit>> /\ reapDue \in Nat
          /\ (allGone # Never => allGone \in Nat) /\ ReaperInterval \in Nat /\ MaxDelay \in Nat
      BY <2>4, Durations DEF reaper, IInv, TypeOK
    <3>3. CASE allGone = Never
      <4>1. PICK h \in Hosts : lastLive[h] >= reapDue - ReaperInterval
        BY <3>3 DEF ArmedInTime
      <4>2. lastLive'[h] >= reapDue - ReaperInterval
        BY <3>1, <3>2, <4>1
      <4> QED
        BY <3>2, <3>3, <4>2 DEF ArmedInTime
    <3>4. CASE allGone # Never
      <4>1. PICK h \in Hosts : lastLive[h] >= allGone - (ReaperInterval + MaxDelay)
        BY <3>4 DEF ArmedInTime
      <4>2. lastLive'[h] >= allGone - (ReaperInterval + MaxDelay)
        BY <3>1, <3>2, <3>4, <4>1
      <4>3. reapDue - ReaperInterval - allGone < AutoExitGrace
        BY <3>4 DEF ArmedInTime
      <4> QED
        BY <3>2, <3>4, <4>2, <4>3 DEF ArmedInTime
    <3> QED
      BY <3>3, <3>4, <2>2, <2>4
  <2> QED
    BY <2>1, <2>2, <2>3, <2>4, OnlyReapSamples
<1>3. IInv /\ ArmedInTime => ExitsInTime
  <2> SUFFICES ASSUME IInv, ArmedInTime, AutoExit, everHad, ~exit
               PROVE  \E h \in Hosts : now - lastLive[h] <= AutoExitGrace + 2 * (ReaperInterval + MaxDelay)
    BY DEF ExitsInTime
  <2>1. /\ now \in Nat /\ reapDue \in Nat /\ now <= reapDue + MaxDelay
        /\ \A h \in Hosts : lastLive[h] \in Nat
        /\ ReaperInterval \in Nat /\ MaxDelay \in Nat /\ AutoExitGrace \in Nat
    BY Durations DEF IInv, TypeOK, ReaperOnTime
  <2>2. CASE allGone = Never
    <3>1. PICK h \in Hosts : lastLive[h] >= reapDue - ReaperInterval
      BY <2>2 DEF ArmedInTime
    <3> QED
      BY <2>1, <3>1
  <2>3. CASE allGone # Never
    <3>1. PICK h \in Hosts : lastLive[h] >= allGone - (ReaperInterval + MaxDelay)
      BY <2>3 DEF ArmedInTime
    <3>2. allGone \in Nat /\ reapDue - ReaperInterval - allGone < AutoExitGrace
      BY <2>3 DEF ArmedInTime, IInv, TypeOK
    <3> QED
      BY <2>1, <3>1, <3>2
  <2> QED
    BY <2>2, <2>3
<1>4. IInv => TypeOK
  BY DEF IInv
<1> QED
  BY <1>1, <1>2, <1>3, <1>4, Invariance, PTL DEF Spec

\* What DeadHostsDisconnected is violated by, for every instance: the hosts with
\* registered clients but no live one, which a pass of the reaper is to close, are
\* those whose clients it has just evicted, so that no pass ever closes one.
THEOREM ReaperClosesNothing == Spec => [][Reap => UNCHANGED conns]_vars
<1>1. ASSUME TypeOK, Reap PROVE UNCHANGED conns
  <2>1. HostsWithZeroClients(EvictStale(reg, now), now) = {}
    BY <1>1, NoHostWithZeroClients DEF TypeOK, RegType
  <2> QED
    BY <1>1, <2>1 DEF Reap, CloseDeadHosts, Closable
<1>2. TypeOK /\ [Next]_vars => [Reap => UNCHANGED conns]_vars
  BY <1>1
<1> QED
  BY <1>2, TypeCorrect, PTL DEF Spec
=============================================================================
