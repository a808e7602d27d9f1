---------------------------- MODULE EspNowRouting ----------------------------
(***************************************************************************)
(* The ESP-NOW tree network: how a Smart Node finds an Upstream Node, how  *)
(* reports climb to the Central and commands come down, and what restarts  *)
(* and a change of the Central's radio channel do to the tree.             *)
(*                                                                         *)
(* Each Node runs the service task of EspNowCommunication (discovery and   *)
(* handshakes), fed by the receive callback through the queue raw, and the *)
(* application task, fed through the queue app.  A Smart Node's            *)
(* application task (espNowCommunicationTask of the Smart firmware) is     *)
(* idle, in a discovery window, about to try the next channel of a sweep,  *)
(* or has just joined an Upstream Node.                                    *)
(*                                                                         *)
(* A packet is heard only in range and on the same channel, and may always *)
(* be lost.  The sender of a unicast learns whether the next hop's radio   *)
(* took it, not whether it was dropped there by a full queue.              *)
(***************************************************************************)
EXTENDS Integers, Sequences, FiniteSets, Functions

CONSTANTS
    Central,                     \* the Central
    Smart,                       \* the Smart Nodes
    NONE,                        \* no Node
    NumChannels,                 \* radio channels are 1..NumChannels (13 in the code)
    DefaultChannel,              \* KILOWATTS_RADIO_CHANNEL
    Scenarios,                   \* [links, home, restarts, faults]: who is in range of
                                 \* whom, channels the Central may start on, bounds on
                                 \* restarts after failed reports (-1: none) and on
                                 \* faults (power cycles, restarts of the Central)
    Ids,                         \* discovery identifiers (esp_random in the code)
    HopLimit,                    \* DEFAULT_HOP_LIMIT (16 in the code)
    QueueLength,                 \* both receive queues (12 in the code)
    DiscoveryFailuresBeforeSweep,
    ReportFailuresBeforeRestart,
    MaxHop,                      \* bound: a deeper Node does not advertise
    MaxTravelling                \* bound: no report or command with so many packets queued

Node     == Smart \cup {Central}
Channels == 1..NumChannels

UnknownHop == 65535              \* UNKNOWN_HOP_COUNT

ASSUME NodesAssumption == Central \notin Smart /\ NONE \notin Node /\ IsFiniteSet(Smart)
ASSUME ChannelsAssumption ==
    /\ NumChannels \in Nat \ {0}
    /\ DefaultChannel \in Channels
ASSUME LimitsAssumption ==
    /\ {HopLimit, QueueLength, DiscoveryFailuresBeforeSweep,
        ReportFailuresBeforeRestart} \subseteq Nat \ {0}
    /\ MaxTravelling \in Nat
    /\ MaxHop \in Nat /\ MaxHop + 1 < UnknownHop
    /\ Ids \subseteq Nat \ {0}
ASSUME ScenariosAssumption ==
    \A s \in Scenarios : s.restarts \in Nat \cup {-1} /\ s.faults \in Nat

VARIABLES
    links,          \* pairs of Nodes in range of each other; never changes
    radio,          \* the channel each Node's radio is on
    upstream, hop,  \* upstreamNodeMacAddress_, hopCountToCentral_
    peerChannel,    \* channel of each unicast peer a Smart Node has; 0: no such peer
    downstream,     \* directDownstreamNodes_
    discovery,      \* discoveryInProgress_, activeDiscoveryId_ and the best candidate
    raw, app,       \* rawReceivedPackets_, applicationMessages_
    task,           \* where the Smart Node's application task is
    sweep,          \* channel a sweep is at, 0 outside a sweep
    discoveryFailures, reportFailures,
    registry,       \* the Upstream Node the Central's registry holds for each Smart Node
    restartsLeft, faultsLeft,       \* what the scenario's bounds still allow
    restarted       \* history: the Nodes that have restarted

routeVars     == <<upstream, hop, peerChannel>>
failureVars   == <<sweep, discoveryFailures, reportFailures>>
envVars       == <<links, restartsLeft, faultsLeft, restarted>>
vars == <<links, radio, upstream, hop, peerChannel, downstream, discovery, raw, app, task,
          sweep, discoveryFailures, reportFailures, registry, restartsLeft, faultsLeft,
          restarted>>

-----------------------------------------------------------------------------
(* Packets: discovery traffic, the handshake, a Node report and a command.  *)

NoCandidate == [node |-> NONE, hop |-> UnknownHop]
Closed      == [open |-> FALSE, id |-> 0, best |-> NoCandidate]
Hops        == 0..(MaxHop + 1) \cup {UnknownHop}

Request(n, id)        == [type |-> "request", from |-> n, id |-> id]
Response(n, m, id)    == [type |-> "response", from |-> n, to |-> m, id |-> id, hop |-> hop[n]]
Handshake(n)          == [type |-> "handshake", from |-> n, hop |-> hop[n]]
Report(n)             == [type |-> "report", from |-> n, origin |-> n, dest |-> Central,
                          hops |-> HopLimit, parent |-> upstream[n]]
Command(d)            == [type |-> "command", from |-> Central, origin |-> Central, dest |-> d,
                          hops |-> HopLimit, parent |-> NONE]

Contents(q) == {q[i] : i \in 1..Len(q)}
Travelling(kind) ==
    {p \in UNION {Contents(raw[n]) \cup Contents(app[n]) : n \in Node} : p.type = kind}

\* Bound: a report or a command is started only with few packets still queued.
Quiet == FoldFunctionOnSet(+, 0, [n \in Node |-> Len(raw[n]) + Len(app[n])], Node) < MaxTravelling

-----------------------------------------------------------------------------
(* Faulty variants of operators of this module, put in their place to show  *)
(* that the properties tell them apart.                                     *)
SameHop(h) == h
SkipsLastChannel(c) == c + 1 < NumChannels
PeersAsAdded(n) == peerChannel
AlwaysUp(n, p) == IF upstream[n] # NONE THEN upstream[n] ELSE p.dest
-----------------------------------------------------------------------------

\* A full queue drops what arrives (xQueueSend with no wait).
Push(q, p) == IF Len(q) < QueueLength THEN Append(q, p) ELSE q

InRange(n, m) == <<n, m>> \in links \/ <<m, n>> \in links
Powered(n)    == \E m \in Node : InRange(n, m)

\* Nodes whose radio can take a packet that n sends on channel c.
Listeners(n, c) == {m \in Node \ {n} : InRange(n, m) /\ radio[m] = c}

\* A unicast goes out only when the peer's channel is the radio's.  The Central
\* adds its peers on the channel it was started on.
PeerReady(n, m, peers) == n # Central => peers[n][m] = radio[n]

\* addPeer: an unknown peer is added on the channel the object was built with.
WithPeer(n, m) ==
    IF n = Central \/ peerChannel[n][m] # 0 THEN peerChannel
    ELSE [peerChannel EXCEPT ![n][m] = DefaultChannel]

CanReach(n, m, peers) == PeerReady(n, m, peers) /\ m \in Listeners(n, radio[n])

\* sendMessageTo, receiveCallback and processRawReceivedPacket for an application
\* packet.  The stay in the raw queue is left out: a packet that waits there is one
\* that waits in the application queue, and one that is dropped there is a lost one.
Delivered(n, m, p, queues) ==
    /\ CanReach(n, m, WithPeer(n, m))
    /\ app' = [queues EXCEPT ![m] = Push(@, p)]

\* sendTo: a packet of the application's own.
sendTo(n, m, p) == Delivered(n, m, p, app)

-----------------------------------------------------------------------------
\* begin: the radio starts on the channel the object was built with, or was set to
\* before begin (the Central's); nothing of the network is remembered.
StartChannel(n, home) == IF n = Central THEN home ELSE DefaultChannel
StartHop(n) == IF n = Central THEN 0 ELSE UnknownHop

Init ==
    /\ \E s \in Scenarios, c \in Channels :
          /\ links = s.links /\ restartsLeft = s.restarts /\ faultsLeft = s.faults
          /\ c \in s.home
          /\ radio = [n \in Node |-> StartChannel(n, c)]
    /\ upstream = [n \in Node |-> NONE]
    /\ hop = [n \in Node |-> StartHop(n)]
    /\ peerChannel = [n \in Smart |-> [m \in Node |-> 0]]
    /\ downstream = [n \in Node |-> {}]
    /\ discovery = [n \in Smart |-> Closed]
    /\ raw = [n \in Node |-> <<>>]
    /\ app = [n \in Node |-> <<>>]
    /\ task = [n \in Smart |-> "idle"]
    /\ sweep = [n \in Smart |-> 0]
    /\ discoveryFailures = [n \in Smart |-> 0]
    /\ reportFailures = [n \in Smart |-> 0]
    /\ registry = [n \in Smart |-> NONE]
    /\ restarted = {}

\* esp_random: an identifier that no open window and no packet carries.
FreshIds == Ids \ ({discovery[n].id : n \in Smart}
                    \cup {p.id : p \in Travelling("request") \cup Travelling("response")})

(* discoverUpstreamNode, up to its delay: the window is opened under a new  *)
(* random identifier and the request is broadcast on channel c.             *)
OpenWindow(n, c, hearers) ==
    /\ hearers \subseteq Listeners(n, c)
    /\ FreshIds # {}
    /\ LET id == CHOOSE i \in FreshIds : \A j \in FreshIds : i <= j
       IN  /\ discovery' = [discovery EXCEPT
                  ![n] = [open |-> TRUE, id |-> id, best |-> NoCandidate]]
           /\ raw' = [m \in Node |-> IF m \in hearers THEN Push(raw[m], Request(n, id)) ELSE raw[m]]
    /\ radio' = [radio EXCEPT ![n] = c]
    /\ task' = [task EXCEPT ![n] = "window"]
    /\ UNCHANGED <<routeVars, failureVars, envVars, downstream, app, registry>>

\* The retry of a Node without an Upstream Node, on the channel its radio is on.
StartDiscovery(n, hearers) ==
    /\ Powered(n)
    /\ task[n] = "idle"
    /\ upstream[n] = NONE
    /\ OpenWindow(n, radio[n], hearers)

\* setSmartRadioChannel and the discovery of one channel of a sweep.
SweepChannel(n, hearers) ==
    /\ task[n] = "sweep"
    /\ OpenWindow(n, sweep[n], hearers)

\* The window is far longer than the service task needs for the packets already
\* queued: it does not end on a packet that waits in this Node's own queue.
WindowOver(n) == task[n] = "window" /\ raw[n] = <<>>

MoreChannels(c) == c < NumChannels

\* The window ends without a candidate: a failed retry may start a sweep, a
\* failed channel is followed by the next one; after the last the radio stays there.
WindowFailed(n) ==
    LET again == sweep[n] # 0 /\ MoreChannels(sweep[n])
        tired == sweep[n] = 0 /\ discoveryFailures[n] + 1 >= DiscoveryFailuresBeforeSweep
    IN  /\ WindowOver(n)
        /\ discovery[n].best = NoCandidate
        /\ discovery' = [discovery EXCEPT ![n] = Closed]
        /\ sweep' = [sweep EXCEPT ![n] = IF again THEN @ + 1 ELSE IF tired THEN 1 ELSE 0]
        /\ discoveryFailures' = [discoveryFailures EXCEPT
               ![n] = IF sweep[n] # 0 \/ tired THEN 0 ELSE @ + 1]
        /\ task' = [task EXCEPT ![n] = IF again \/ tired THEN "sweep" ELSE "idle"]
        /\ UNCHANGED <<routeVars, envVars, radio, downstream, raw, app, reportFailures, registry>>

HopBelow(h) == h + 1

\* The window ends with a candidate: it becomes a peer and the Upstream Node.
SelectUpstream(n) ==
    LET best == discovery[n].best
    IN  /\ WindowOver(n)
        /\ best # NoCandidate
        /\ discovery' = [discovery EXCEPT ![n] = Closed]
        /\ peerChannel' = WithPeer(n, best.node)
        /\ upstream' = [upstream EXCEPT ![n] = best.node]
        /\ hop' = [hop EXCEPT ![n] = HopBelow(best.hop)]
        /\ task' = [task EXCEPT ![n] = "joined"]
        /\ UNCHANGED <<failureVars, envVars, radio, downstream, raw, app, registry>>

\* syncUpstreamPeerChannel
SyncedPeers(n) == [peerChannel EXCEPT ![n][upstream[n]] = radio[n]]

\* The handshake goes out before syncUpstreamPeerChannel moves the peer to the
\* channel of the sweep; whether it arrives changes nothing here.
JoinUpstream(n) ==
    /\ task[n] = "joined"
    /\ \/ UNCHANGED raw
       \/ /\ CanReach(n, upstream[n], peerChannel)
          /\ raw' = [raw EXCEPT ![upstream[n]] = Push(@, Handshake(n))]
    /\ peerChannel' = SyncedPeers(n)
    /\ sweep' = [sweep EXCEPT ![n] = 0]
    /\ discoveryFailures' = [discoveryFailures EXCEPT ![n] = 0]
    /\ reportFailures' = [reportFailures EXCEPT ![n] = 0]
    /\ task' = [task EXCEPT ![n] = "idle"]
    /\ UNCHANGED <<envVars, radio, upstream, hop, downstream, discovery, app, registry>>

-----------------------------------------------------------------------------
(* The service task: one packet of the raw queue.                           *)

\* serviceLoop: the oldest packet of the queue.
ServiceHead(n, kind) == raw[n] # <<>> /\ Head(raw[n]).type = kind

RouteKnown(n) == hop[n] # UnknownHop

\* processDiscoveryRequest: only a Node with a route answers.
AnswerRequest(n) ==
    LET p == Head(raw[n])
        taken == [raw EXCEPT ![n] = Tail(@)]
        answer == Response(n, p.from, p.id)
    IN  /\ ServiceHead(n, "request")
        /\ \/ raw' = taken
           \/ /\ RouteKnown(n)
              /\ hop[n] <= MaxHop
              /\ p.from \in Listeners(n, radio[n])
              /\ raw' = [taken EXCEPT ![p.from] = Push(@, answer)]
        /\ UNCHANGED <<routeVars, failureVars, envVars, radio, downstream, discovery, app,
                       task, registry>>

\* processDiscoveryResponse: the response of the running discovery with the
\* fewest hops; between equals the stronger signal, which may be either.
Acceptable(n, p) ==
    /\ discovery[n].open
    /\ p.id = discovery[n].id
    /\ p.hop # UnknownHop
    /\ hop[n] # UnknownHop => p.hop < hop[n]

RecordResponse(n) ==
    LET p == Head(raw[n])
        best == discovery[n].best
        candidate == [node |-> p.from, hop |-> p.hop]
    IN  /\ n \in Smart
        /\ ServiceHead(n, "response")
        /\ raw' = [raw EXCEPT ![n] = Tail(@)]
        /\ \/ /\ Acceptable(n, p)
              /\ p.hop <= best.hop
              /\ discovery' = [discovery EXCEPT ![n].best = candidate]
           \/ /\ ~(Acceptable(n, p) /\ p.hop < best.hop)
              /\ UNCHANGED discovery
        /\ UNCHANGED <<routeVars, failureVars, envVars, radio, downstream, app, task, registry>>

\* A Node that is listed already is only updated.
registerOrUpdateDirectDownstreamNode(n, m) ==
    downstream' = [downstream EXCEPT ![n] = @ \cup {m}]

\* processConnectionHandshake: accepted from a Node exactly one hop deeper.
RegisterDownstream(n) ==
    LET p == Head(raw[n])
        accepted == RouteKnown(n) /\ p.hop = hop[n] + 1
    IN  /\ ServiceHead(n, "handshake")
        /\ raw' = [raw EXCEPT ![n] = Tail(@)]
        /\ IF accepted
           THEN /\ registerOrUpdateDirectDownstreamNode(n, p.from)
                /\ peerChannel' = WithPeer(n, p.from)
           ELSE UNCHANGED <<downstream, peerChannel>>
        /\ UNCHANGED <<failureVars, envVars, radio, upstream, hop, discovery, app, task, registry>>

-----------------------------------------------------------------------------
(* The application tasks.                                                   *)

\* forwardMessageTo, of the packet just taken from the queue: one hop less, from
\* this Node; without hops left it is not sent.
Forward(n, m, p) ==
    LET taken == [app EXCEPT ![n] = Tail(@)]
    IN  /\ peerChannel' = IF p.hops = 0 THEN peerChannel ELSE WithPeer(n, m)
        /\ \/ app' = taken
           \/ /\ p.hops > 0
              /\ Delivered(n, m, [p EXCEPT !.from = n, !.hops = @ - 1], taken)

\* The application takes the oldest message of its queue.
Received(n) == app[n] # <<>>

isMessageForThisNode(n, p) == p.dest = n

Consume(n) == app' = [app EXCEPT ![n] = Tail(@)] /\ UNCHANGED peerChannel

\* What did not come from the Upstream Node goes up, the rest straight to its destination.
NextHopFromSmart(n, p) ==
    IF upstream[n] # NONE /\ p.from # upstream[n] THEN upstream[n] ELSE p.dest

SmartReceive(n) ==
    LET p == Head(app[n])
    IN  /\ task[n] = "idle"
        /\ Received(n)
        /\ IF isMessageForThisNode(n, p) THEN Consume(n) ELSE Forward(n, NextHopFromSmart(n, p), p)
        /\ UNCHANGED <<failureVars, envVars, radio, upstream, hop, downstream, discovery, raw,
                       task, registry>>

\* What a restart leaves of a Smart Node: nothing of the network is persisted.
Forgotten(n) ==
    /\ radio' = [radio EXCEPT ![n] = StartChannel(n, DefaultChannel)]
    /\ upstream' = [upstream EXCEPT ![n] = NONE]
    /\ hop' = [hop EXCEPT ![n] = StartHop(n)]
    /\ peerChannel' = [peerChannel EXCEPT ![n] = [m \in Node |-> 0]]
    /\ downstream' = [downstream EXCEPT ![n] = {}]
    /\ discovery' = [discovery EXCEPT ![n] = Closed]
    /\ raw' = [raw EXCEPT ![n] = <<>>]
    /\ app' = [app EXCEPT ![n] = <<>>]
    /\ task' = [task EXCEPT ![n] = "idle"]
    /\ sweep' = [sweep EXCEPT ![n] = 0]
    /\ discoveryFailures' = [discoveryFailures EXCEPT ![n] = 0]
    /\ reportFailures' = [reportFailures EXCEPT ![n] = 0]
    /\ restarted' = restarted \cup {n}

\* The periodic report of a Node with an Upstream Node.  Only its MAC-layer
\* delivery to the next hop is known; enough failures in a row restart the Node.
ReportDelivered(n) ==
    /\ task[n] = "idle"
    /\ upstream[n] # NONE
    /\ Quiet
    /\ sendTo(n, upstream[n], Report(n))
    /\ reportFailures' = [reportFailures EXCEPT ![n] = 0]
    /\ UNCHANGED <<routeVars, envVars, radio, downstream, discovery, raw, task, sweep,
                   discoveryFailures, registry>>

ReportFailed(n) ==
    /\ task[n] = "idle"
    /\ upstream[n] # NONE
    /\ IF reportFailures[n] + 1 < ReportFailuresBeforeRestart
       THEN /\ reportFailures' = [reportFailures EXCEPT ![n] = @ + 1]
            /\ UNCHANGED <<routeVars, radio, downstream, discovery, raw, app, task, sweep,
                           discoveryFailures, restarted, restartsLeft>>
       ELSE /\ restartsLeft # 0
            /\ restartsLeft' = IF restartsLeft > 0 THEN restartsLeft - 1 ELSE restartsLeft
            /\ Forgotten(n)
    /\ UNCHANGED <<links, faultsLeft, registry>>

\* findNextHopFromCentral: from the destination upwards through the registry.
NextHopFromCentral(d) ==
    LET up[k \in 0..Cardinality(Smart)] ==
            IF k = 0 THEN d
            ELSE IF up[k - 1] \in Smart THEN registry[up[k - 1]] ELSE NONE
        first == {up[k] : k \in {j \in 0..Cardinality(Smart) :
                                    up[j] \in Smart /\ registry[up[j]] = Central}}
    IN  IF first = {} THEN NONE ELSE CHOOSE m \in first : TRUE

\* A report updates the registry; what is not for the Central is routed again.
CentralReceive ==
    LET p == Head(app[Central])
    IN  /\ Received(Central)
        /\ IF isMessageForThisNode(Central, p)
           THEN registry' = [registry EXCEPT ![p.origin] = p.parent] /\ Consume(Central)
           ELSE /\ UNCHANGED registry
                /\ IF NextHopFromCentral(p.dest) = NONE THEN Consume(Central)
                   ELSE Forward(Central, NextHopFromCentral(p.dest), p)
        /\ UNCHANGED <<failureVars, envVars, radio, upstream, hop, downstream, discovery, raw,
                       task>>

\* A command to a Smart Node the registry has a route to. 
SendCommand(d) ==
    /\ Quiet
    /\ NextHopFromCentral(d) # NONE
    /\ sendTo(Central, NextHopFromCentral(d), Command(d))
    /\ UNCHANGED <<routeVars, failureVars, envVars, radio, downstream, discovery, raw, task, registry>>

-----------------------------------------------------------------------------
(* The environment.                                                         *)

PowerCycle(n) ==
    /\ Powered(n)
    /\ faultsLeft > 0
    /\ faultsLeft' = faultsLeft - 1
    /\ Forgotten(n)
    /\ UNCHANGED <<links, restartsLeft, registry>>

\* The Central starts again, on the channel saved for it, with an empty registry.
RestartCentral(c) ==
    /\ faultsLeft > 0
    /\ faultsLeft' = faultsLeft - 1
    /\ radio' = [radio EXCEPT ![Central] = StartChannel(Central, c)]
    /\ downstream' = [downstream EXCEPT ![Central] = {}]
    /\ raw' = [raw EXCEPT ![Central] = <<>>]
    /\ app' = [app EXCEPT ![Central] = <<>>]
    /\ registry' = [n \in Smart |-> NONE]
    /\ restarted' = restarted \cup {Central}
    /\ UNCHANGED <<routeVars, failureVars, links, discovery, task, restartsLeft>>

Service(n) ==
    \/ AnswerRequest(n)
    \/ RecordResponse(n)
    \/ RegisterDownstream(n)

Next ==
    \/ \E n \in Node : Service(n)
    \/ \E n \in Smart, hearers \in SUBSET Node : StartDiscovery(n, hearers)
    \/ \E n \in Smart, hearers \in SUBSET Node : SweepChannel(n, hearers)
    \/ \E n \in Smart : WindowFailed(n) \/ SelectUpstream(n) \/ JoinUpstream(n)
    \/ \E n \in Smart : SmartReceive(n) \/ ReportDelivered(n) \/ ReportFailed(n)
    \/ CentralReceive
    \/ \E d \in Smart : SendCommand(d)
    \/ \E n \in Smart : PowerCycle(n)
    \/ \E c \in Channels : RestartCentral(c)

Spec == Init /\ [][Next]_vars

(***************************************************************************)
(* Fairness.  The tasks run and their periods pass.  The radio and the     *)
(* scheduler lose much but not everything: a request on the Central's own  *)
(* channel is heard, and answered inside its window, infinitely often if   *)
(* each of these is possible infinitely often.                             *)
(***************************************************************************)
HeardBy(n, m) == \E hearers \in SUBSET Node :
    /\ StartDiscovery(n, hearers) \/ SweepChannel(n, hearers)
    /\ raw'[m] # raw[m]

AnsweredInTime(n, m) ==
    /\ AnswerRequest(m)
    /\ discovery[n].open
    /\ Head(raw[m]).id = discovery[n].id
    /\ raw'[n] # raw[n]

TaskSteps(n) ==
    \/ WindowFailed(n) \/ SelectUpstream(n) \/ JoinUpstream(n)
    \/ \E hearers \in SUBSET Node : StartDiscovery(n, hearers) \/ SweepChannel(n, hearers)

Fairness ==
    /\ \A n \in Node : WF_vars(Service(n))
    /\ WF_vars(CentralReceive)
    /\ \A n \in Smart :
          /\ WF_vars(TaskSteps(n))
          /\ SF_vars(SmartReceive(n))
          /\ WF_vars(ReportDelivered(n) \/ ReportFailed(n))
          /\ SF_vars(HeardBy(n, Central))
          /\ SF_vars(AnsweredInTime(n, Central))

FairSpec == Spec /\ Fairness

-----------------------------------------------------------------------------
(* Type invariant of the routing state, the queues and the failure counts.  *)
RadioPacket ==
    [type : {"request"}, from : Smart, id : Ids]
    \cup [type : {"response"}, from : Node, to : Smart, id : Ids, hop : Hops]
    \cup [type : {"handshake"}, from : Smart, hop : Hops]
AppPacket == [type : {"report", "command"}, from : Node, origin : Node, dest : Node,
              hops : 0..HopLimit, parent : Node \cup {NONE}]

TypeOK ==
    /\ \E s \in Scenarios : /\ links = s.links
                            /\ restartsLeft \in -1..s.restarts /\ faultsLeft \in 0..s.faults
    /\ radio \in [Node -> Channels]
    /\ upstream \in [Node -> Node \cup {NONE}]
    /\ hop \in [Node -> Hops]
    /\ peerChannel \in [Smart -> [Node -> Channels \cup {0}]]
    /\ downstream \in [Node -> SUBSET Smart]
    /\ discovery \in [Smart -> [open : BOOLEAN, id : Ids \cup {0},
                               best : [node : Node \cup {NONE}, hop : Hops]]]
    /\ \A n \in Node : /\ Len(raw[n]) <= QueueLength /\ Contents(raw[n]) \subseteq RadioPacket
                      /\ Len(app[n]) <= QueueLength /\ Contents(app[n]) \subseteq AppPacket
    /\ task \in [Smart -> {"idle", "window", "sweep", "joined"}]
    /\ sweep \in [Smart -> Channels \cup {0}]
    /\ discoveryFailures \in [Smart -> 0..DiscoveryFailuresBeforeSweep - 1]
    /\ reportFailures \in [Smart -> 0..ReportFailuresBeforeRestart - 1]
    /\ registry \in [Smart -> Node \cup {NONE}]
    /\ restarted \subseteq Node

(* As long as nobody has restarted the Upstream Nodes form a tree: every    *)
(* Node is exactly one hop deeper than its Upstream Node, and a Node listed *)
(* as directly downstream has chosen the Node that lists it.                *)
TreeUntilRestart == restarted = {} =>
    \A n \in Node :
        /\ upstream[n] # NONE => RouteKnown(upstream[n]) /\ hop[n] = hop[upstream[n]] + 1
        /\ \A m \in downstream[n] : upstream[m] = n

(* A Node that is not in the middle of joining talks to its Upstream Node   *)
(* on the channel its radio is on, whichever channel a sweep found it on    *)
(* (syncUpstreamPeerChannel), so that its reports can leave at all.         *)
UpstreamPeerOnChannel ==
    \A n \in Smart : upstream[n] # NONE /\ task[n] # "joined" =>
        peerChannel[n][upstream[n]] = radio[n]

(* As long as nobody has restarted a command only visits Nodes on its way:  *)
(* its destination and the Central's own child above it; none turns back.   *)
CommandsStayOnPath == restarted = {} =>
    \A n \in Node : \A p \in Contents(app[n]) :
        p.type = "command" => n = p.dest \/ upstream[n] = Central

(* A Smart Node alone with the Central finds it again and again, whichever  *)
(* channel the Central has moved to: failed reports restart the Node, failed *)
(* retries start a sweep, the sweep stops on the Central's channel.         *)
Alone(n) == Powered(n) /\ \A m \in Smart \ {n} : ~InRange(n, m)
CentralFoundAgain ==
    \A n \in Smart : []<>(Alone(n) => upstream[n] = Central /\ radio[n] = radio[Central])

\* The tree the Central shows: under each Node those that report it as their next
\* hop, not deeper than there are Nodes.
Children(parent) == {n \in Smart : registry[n] = parent}

ShownInTree ==
    LET numberOfNodes == 1 + Cardinality({n \in Smart : registry[n] # NONE})
        level[k \in 0..numberOfNodes] ==
            IF k = 0 THEN Children(Central) ELSE UNION {Children(n) : n \in level[k - 1]}
    IN  UNION {level[k] : k \in 0..numberOfNodes}

(* The tree shown to the user has exactly the Smart Nodes to which the      *)
(* Central finds a next hop, whatever order reports and restarts have left  *)
(* the registry in: buildTreeJson walks down from the Central, a route is   *)
(* sought from its destination upwards (findNextHopFromCentral).  Which way *)
(* a command takes beyond the next hop is for the Nodes to say.             *)
TreeShowsRoutes == ShownInTree = {d \in Smart : NextHopFromCentral(d) # NONE}

(* No Node is its own ancestor: what processDiscoveryRequest's comment and  *)
(* the README of the library say discovery guarantees.                      *)
Ancestors(n) ==
    LET up[k \in 0..Cardinality(Smart)] ==
            IF k = 0 THEN upstream[n]
            ELSE IF up[k - 1] = NONE THEN NONE ELSE upstream[up[k - 1]]
    IN  {up[k] : k \in 0..Cardinality(Smart)}
NoDescendantUpstream == \A n \in Node : n \notin Ancestors(n)
=============================================================================
