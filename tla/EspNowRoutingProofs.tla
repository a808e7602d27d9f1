------------------------- MODULE EspNowRoutingProofs -------------------------
(***************************************************************************)
(* Proofs about EspNowRouting, for any Smart Nodes in any positions, any   *)
(* number of channels, any limits, and any number of faults.               *)
(***************************************************************************)
EXTENDS EspNowRouting, FiniteSetTheorems, WellFoundedInduction, TLAPS

-----------------------------------------------------------------------------
(***************************************************************************)
(* The inductive invariant: where the task of a Smart Node is says what it *)
(* knows of its Upstream Node.                                             *)
(***************************************************************************)

\* The types of TypeOK, by what they are about.
EnvType ==
    /\ \E s \in Scenarios : /\ links = s.links
                            /\ restartsLeft \in -1..s.restarts /\ faultsLeft \in 0..s.faults
    /\ restarted \subseteq Node

RouteType ==
    /\ radio \in [Node -> Channels]
    /\ upstream \in [Node -> Node \cup {NONE}]
    /\ hop \in [Node -> Hops]
    /\ peerChannel \in [Smart -> [Node -> Channels \cup {0}]]
    /\ downstream \in [Node -> SUBSET Smart]
    /\ registry \in [Smart -> Node \cup {NONE}]

TaskType ==
    /\ discovery \in [Smart -> [open : BOOLEAN, id : Ids \cup {0},
                               best : [node : Node \cup {NONE}, hop : Hops]]]
    /\ task \in [Smart -> {"idle", "window", "sweep", "joined"}]
    /\ sweep \in [Smart -> Channels \cup {0}]
    /\ discoveryFailures \in [Smart -> 0..DiscoveryFailuresBeforeSweep - 1]
    /\ reportFailures \in [Smart -> 0..ReportFailuresBeforeRestart - 1]

\* The queues of the Nodes, and what is in them.
QueuesOf(queues, packets) ==
    /\ queues \in [Node -> Seq(packets)]
    /\ \A n \in Node : Len(queues[n]) <= QueueLength

Queues == QueuesOf(raw, RadioPacket) /\ QueuesOf(app, AppPacket)

\* The Central is the root; a Smart Node has a route when it has an Upstream Node.
RouteOfUpstream ==
    /\ upstream[Central] = NONE
    /\ \A n \in Smart : upstream[n] = NONE => hop[n] = UnknownHop

\* It looks for one only as long as it has none, has one when it has joined,
\* and then has the peer on its own channel.
TaskOfUpstream ==
    \A n \in Smart :
        /\ task[n] \in {"window", "sweep"} => upstream[n] = NONE
        /\ task[n] = "sweep" => sweep[n] # 0
        /\ task[n] = "joined" => upstream[n] # NONE
        /\ upstream[n] # NONE /\ task[n] # "joined" => peerChannel[n][upstream[n]] = radio[n]

\* What answers, and what a Smart Node may select, has a route and is not too
\* deep.
CandidatesAreShallow ==
    /\ \A n \in Node : \A p \in Contents(raw[n]) : p.type = "response" => p.hop \in 0..MaxHop
    /\ \A n \in Smart : discovery[n].best # NoCandidate =>
          discovery[n].best.node \in Node /\ discovery[n].best.hop \in 0..MaxHop

Shape ==
    /\ EnvType /\ RouteType /\ TaskType /\ Queues
    /\ RouteOfUpstream /\ TaskOfUpstream /\ CandidatesAreShallow

(***************************************************************************)
(* Until the first restart a Node keeps the Upstream Node that it has      *)
(* selected, so whatever a packet, a candidate, a list or the registry     *)
(* says of the tree stays true.                                            *)
(***************************************************************************)

\* A response has the hop count of its sender, and a handshake is with the
\* Upstream Node of its sender.
RadioTrue(n, p) ==
    /\ p.type = "response" => hop[p.from] = p.hop
    /\ p.type = "handshake" => upstream[p.from] = n

\* A report has the Upstream Node of its origin; a command has arrived, or is
\* with the Central's own child above its destination.
AppTrue(n, p) ==
    /\ p.type = "report" => /\ p.origin \in Smart /\ p.dest = Central
                            /\ p.parent = upstream[p.origin] /\ p.parent # NONE
    /\ p.type = "command" => /\ p.dest \in Smart
                             /\ n = p.dest \/ (upstream[n] = Central /\ p.from = Central)

NodesTrue ==
    \A n \in Node :
        /\ upstream[n] # NONE => RouteKnown(upstream[n]) /\ hop[n] = hop[upstream[n]] + 1
        /\ \A m \in downstream[n] : upstream[m] = n

CandidatesTrue ==
    \A n \in Smart : discovery[n].best # NoCandidate =>
        hop[discovery[n].best.node] = discovery[n].best.hop

PacketsTrue ==
    \A n \in Node : /\ \A p \in Contents(raw[n]) : RadioTrue(n, p)
                    /\ \A p \in Contents(app[n]) : AppTrue(n, p)

RegistryTrue == \A n \in Smart : registry[n] # NONE => registry[n] = upstream[n]

Truth == NodesTrue /\ CandidatesTrue /\ PacketsTrue /\ RegistryTrue

Inv == Shape /\ (restarted = {} => Truth)

-----------------------------------------------------------------------------
(***************************************************************************)
(* The operators of the specification.                                     *)
(***************************************************************************)

\* The Central is no Smart Node, and NONE is no Node.
LEMMA NodeFacts == Central \in Node /\ Smart \subseteq Node /\ NONE \notin Node /\ Central \notin Smart
BY NodesAssumption DEF Node

\* The limits of the queues, hops and failures as numbers.
LEMMA LimitFacts ==
    /\ QueueLength \in Nat \ {0} /\ HopLimit \in Nat \ {0}
    /\ DiscoveryFailuresBeforeSweep \in Nat \ {0} /\ ReportFailuresBeforeRestart \in Nat \ {0}
    /\ MaxHop \in Nat /\ UnknownHop \in Nat /\ MaxHop + 1 < UnknownHop
    /\ Ids \subseteq Nat
<1>1. /\ {HopLimit, QueueLength, DiscoveryFailuresBeforeSweep,
          ReportFailuresBeforeRestart} \subseteq Nat \ {0}
      /\ MaxHop \in Nat /\ MaxHop + 1 < UnknownHop
      /\ Ids \subseteq Nat \ {0}
    BY LimitsAssumption, Zenon
<1>2. /\ QueueLength \in Nat \ {0} /\ HopLimit \in Nat \ {0}
      /\ DiscoveryFailuresBeforeSweep \in Nat \ {0} /\ ReportFailuresBeforeRestart \in Nat \ {0}
    BY <1>1, Zenon
<1>3. Ids \subseteq Nat
    BY <1>1, Zenon
<1>4. UnknownHop \in Nat
    BY DEF UnknownHop
<1> QED
    BY <1>1, <1>2, <1>3, <1>4

\* What is in a queue of which the first packet was taken, or to which one
\* was pushed.
LEMMA QueueOps ==
    ASSUME NEW S, NEW q \in Seq(S), Len(q) <= QueueLength
    PROVE  /\ \A p \in Contents(q) : p \in S
           /\ q # <<>> => /\ Head(q) \in Contents(q) /\ Head(q) \in S
                          /\ Tail(q) \in Seq(S) /\ Len(Tail(q)) <= QueueLength
                          /\ Contents(Tail(q)) \subseteq Contents(q)
           /\ \A p \in S : /\ Push(q, p) \in Seq(S) /\ Len(Push(q, p)) <= QueueLength
                           /\ Contents(Push(q, p)) \subseteq Contents(q) \cup {p}
<1>1. \A p \in Contents(q) : p \in S
    BY DEF Contents
<1>2. ASSUME q # <<>>
      PROVE  /\ Head(q) \in Contents(q) /\ Head(q) \in S
             /\ Tail(q) \in Seq(S) /\ Len(Tail(q)) <= QueueLength
             /\ Contents(Tail(q)) \subseteq Contents(q)
    <2>1. /\ Head(q) = q[1] /\ 1 \in 1..Len(q) /\ q[1] \in S
          /\ Tail(q) \in Seq(S) /\ Len(Tail(q)) = Len(q) - 1 /\ Len(q) \in Nat
          /\ \A i \in 1..Len(Tail(q)) : Tail(q)[i] = q[i + 1] /\ i + 1 \in 1..Len(q)
        BY <1>2
    <2>2. Len(Tail(q)) <= QueueLength
        BY <2>1, LimitFacts
    <2>3. Contents(Tail(q)) \subseteq Contents(q) /\ Head(q) \in Contents(q)
        BY <2>1 DEF Contents
    <2> QED
        BY <2>1, <2>2, <2>3
<1>3. ASSUME NEW p \in S
      PROVE  /\ Push(q, p) \in Seq(S) /\ Len(Push(q, p)) <= QueueLength
             /\ Contents(Push(q, p)) \subseteq Contents(q) \cup {p}
    <2>1. CASE Len(q) < QueueLength
        <3>1. /\ Append(q, p) \in Seq(S) /\ Len(Append(q, p)) = Len(q) + 1 /\ Len(q) \in Nat
              /\ \A i \in 1..Len(q) + 1 : Append(q, p)[i] = IF i = Len(q) + 1 THEN p ELSE q[i]
            OBVIOUS
        <3>2. \A i \in 1..Len(q) + 1 : Append(q, p)[i] \in Contents(q) \cup {p}
            BY <3>1 DEF Contents
        <3>3. Push(q, p) = Append(q, p) /\ Len(Append(q, p)) <= QueueLength
            BY <2>1, <3>1, LimitFacts DEF Push
        <3>4. Contents(Append(q, p)) \subseteq Contents(q) \cup {p}
            BY <3>1, <3>2 DEF Contents
        <3> QED
            BY <3>1, <3>3, <3>4
    <2>2. CASE ~ (Len(q) < QueueLength)
        BY <2>2 DEF Push
    <2> QED
        BY <2>1, <2>2
<1> QED
    BY <1>1, <1>2, <1>3

\* The same of the queues of all Nodes.
LEMMA TakeOne ==
    ASSUME NEW S, NEW queues, QueuesOf(queues, S), NEW n \in Node, queues[n] # <<>>
    PROVE  LET taken == [queues EXCEPT ![n] = Tail(@)]
           IN  /\ QueuesOf(taken, S)
               /\ \A m \in Node : \A p \in Contents(taken[m]) : p \in Contents(queues[m])
<1> DEFINE taken == [queues EXCEPT ![n] = Tail(@)]
<1>1. /\ queues[n] \in Seq(S) /\ Len(queues[n]) <= QueueLength
      /\ queues \in [Node -> Seq(S)]
    BY DEF QueuesOf
<1>2. /\ Tail(queues[n]) \in Seq(S) /\ Len(Tail(queues[n])) <= QueueLength
      /\ Contents(Tail(queues[n])) \subseteq Contents(queues[n])
    BY <1>1, QueueOps
<1>3. taken \in [Node -> Seq(S)]
    BY <1>1, <1>2
<1>4. \A m \in Node : taken[m] = IF m = n THEN Tail(queues[n]) ELSE queues[m]
    BY <1>1
<1> HIDE DEF taken
<1> QED
    BY <1>2, <1>3, <1>4 DEF QueuesOf

\* A packet pushed to one queue is the only new one, or is dropped.
LEMMA PushOne ==
    ASSUME NEW S, NEW queues, QueuesOf(queues, S), NEW n \in Node, NEW packet \in S
    PROVE  LET longer == [queues EXCEPT ![n] = Push(@, packet)]
           IN  /\ QueuesOf(longer, S)
               /\ \A m \in Node : \A p \in Contents(longer[m]) :
                     p \in Contents(queues[m]) \/ (m = n /\ p = packet)
<1> DEFINE longer == [queues EXCEPT ![n] = Push(@, packet)]
<1>1. /\ queues[n] \in Seq(S) /\ Len(queues[n]) <= QueueLength
      /\ queues \in [Node -> Seq(S)]
    BY DEF QueuesOf
<1>2. /\ Push(queues[n], packet) \in Seq(S) /\ Len(Push(queues[n], packet)) <= QueueLength
      /\ Contents(Push(queues[n], packet)) \subseteq Contents(queues[n]) \cup {packet}
    BY <1>1, QueueOps
<1>3. longer \in [Node -> Seq(S)]
    BY <1>1, <1>2
<1>4. \A m \in Node : longer[m] = IF m = n THEN Push(queues[n], packet) ELSE queues[m]
    BY <1>1
<1> HIDE DEF longer
<1> QED
    BY <1>2, <1>3, <1>4 DEF QueuesOf

\* A queue that is emptied.
LEMMA EmptyOne ==
    ASSUME NEW S, NEW queues, QueuesOf(queues, S), NEW n \in Node
    PROVE  LET rest == [queues EXCEPT ![n] = <<>>]
           IN  /\ QueuesOf(rest, S)
               /\ \A m \in Node : \A p \in Contents(rest[m]) : p \in Contents(queues[m])
<1> DEFINE rest == [queues EXCEPT ![n] = <<>>]
<1>1. <<>> \in Seq(S) /\ Len(<<>>) = 0 /\ Contents(<<>>) = {}
    BY DEF Contents
<1>2. queues \in [Node -> Seq(S)]
    BY DEF QueuesOf
<1>3. \A m \in Node : rest[m] = IF m = n THEN <<>> ELSE queues[m]
    BY <1>2
<1>4. rest \in [Node -> Seq(S)]
    BY <1>1, <1>2
<1> HIDE DEF rest
<1> QED
    BY <1>1, <1>3, <1>4, LimitFacts DEF QueuesOf

\* Some naturals have a smallest.
LEMMA LeastExists ==
    ASSUME NEW S, S \subseteq Nat, S # {}
    PROVE  \E i \in S : \A j \in S : i <= j
<1> DEFINE Less == OpToRel(<, Nat)
<1>1. PICK i \in S : \A j \in S : <<j, i>> \notin Less
    <2>1. IsWellFoundedOn(Less, Nat)
        BY NatLessThanWellFounded
    <2> HIDE DEF Less
    <2> QED
        BY <2>1, WFMin
<1>2. \A j \in S : ~ (j < i)
    BY <1>1 DEF OpToRel
<1>3. \A j \in S : i <= j
    BY <1>2
<1> QED
    BY <1>3

\* Induction, for a set of naturals.
LEMMA AllNaturals ==
    ASSUME NEW S, 0 \in S, \A n \in Nat : n \in S => n + 1 \in S
    PROVE  Nat \subseteq S
<1> SUFFICES ASSUME Nat \ S # {} PROVE FALSE
    OBVIOUS
<1>1. PICK i \in Nat \ S : \A j \in Nat \ S : i <= j
    BY LeastExists
<1>2. i - 1 \in Nat /\ i - 1 \in S
    BY <1>1
<1> QED
    BY <1>1, <1>2

\* The smallest of some numbers is one of them.
LEMMA SmallestId ==
    ASSUME NEW S, S \subseteq Nat, S # {}
    PROVE  (CHOOSE i \in S : \A j \in S : i <= j) \in S
BY LeastExists

\* The id that a discovery takes is an id.
LEMMA FreshIsId == FreshIds # {} => (CHOOSE i \in FreshIds : \A j \in FreshIds : i <= j) \in Ids
<1>1. FreshIds \subseteq Ids
    BY Zenon DEF FreshIds
<1>2. FreshIds \subseteq Nat
    BY <1>1, LimitFacts
<1> HIDE DEF FreshIds
<1> QED
    BY <1>1, <1>2, SmallestId

\* A peer that is added is on the channel of its Node, and others stay.
LEMMA WithPeerType ==
    ASSUME Shape, NEW n \in Node, NEW m \in Node
    PROVE  /\ WithPeer(n, m) \in [Smart -> [Node -> Channels \cup {0}]]
           /\ \A k \in Smart, j \in Node : peerChannel[k][j] # 0 => WithPeer(n, m)[k][j] = peerChannel[k][j]
<1>1. peerChannel \in [Smart -> [Node -> Channels \cup {0}]] /\ DefaultChannel \in Channels
    BY ChannelsAssumption DEF Shape, RouteType
<1>2. CASE n = Central \/ peerChannel[n][m] # 0
    BY <1>1, <1>2 DEF WithPeer
<1>3. CASE ~ (n = Central \/ peerChannel[n][m] # 0)
    <2>1. n \in Smart /\ WithPeer(n, m) = [peerChannel EXCEPT ![n][m] = DefaultChannel]
        BY <1>3 DEF WithPeer, Node
    <2> QED
        BY <1>1, <1>3, <2>1
<1> QED
    BY <1>2, <1>3

\* The shape of the routes and queues is all that TypeOK asks.
LEMMA ShapeIsTyped == Shape => TypeOK
<1>1. Queues => \A n \in Node :
         /\ Len(raw[n]) <= QueueLength /\ Contents(raw[n]) \subseteq RadioPacket
         /\ Len(app[n]) <= QueueLength /\ Contents(app[n]) \subseteq AppPacket
    BY DEF Queues, QueuesOf, Contents
<1> QED
    BY <1>1 DEF Shape, TypeOK, EnvType, RouteType, TaskType

\* What the packets of the radio carry.
LEMMA RadioFields ==
    ASSUME NEW p \in RadioPacket
    PROVE  /\ p.type = "request" => p.from \in Smart /\ p.id \in Ids
           /\ p.type = "response" => p.from \in Node /\ p.hop \in Hops
           /\ p.type = "handshake" => p.from \in Smart /\ p.hop \in Hops
BY DEF RadioPacket

\* What the radio functions make are radio packets.
LEMMA RadioMade ==
    ASSUME Shape, NEW n \in Node
    PROVE  /\ \A m \in Smart, id \in Ids : Response(n, m, id) \in RadioPacket
           /\ n \in Smart => Handshake(n) \in RadioPacket /\ \A id \in Ids : Request(n, id) \in RadioPacket
<1>1. hop[n] \in Hops
    BY DEF Shape, RouteType
<1> QED
    BY <1>1 DEF Response, Handshake, Request, RadioPacket

\* The oldest packet of a queue, and the queues without it.
LEMMA ServiceFacts ==
    ASSUME Shape, NEW n \in Node, NEW kind, ServiceHead(n, kind)
    PROVE  /\ Head(raw[n]) \in RadioPacket /\ Head(raw[n]) \in Contents(raw[n])
           /\ Head(raw[n]).type = kind
           /\ QueuesOf([raw EXCEPT ![n] = Tail(@)], RadioPacket)
           /\ \A m \in Node : \A p \in Contents([raw EXCEPT ![n] = Tail(@)][m]) : p \in Contents(raw[m])
<1>1. QueuesOf(raw, RadioPacket) /\ raw[n] # <<>>
    BY DEF Shape, Queues, ServiceHead
<1>2. raw[n] \in Seq(RadioPacket) /\ Len(raw[n]) <= QueueLength
    BY <1>1 DEF QueuesOf
<1> QED
    BY <1>1, <1>2, QueueOps, TakeOne DEF ServiceHead

(***************************************************************************)
(* The truth is kept by a step that leaves every Node its route, when what *)
(* is new is true.                                                         *)
(***************************************************************************)
LEMMA TruthKept ==
    ASSUME Truth, UNCHANGED <<upstream, hop>>,
           \A n \in Node : \A p \in Contents(raw'[n]) : p \in Contents(raw[n]) \/ RadioTrue(n, p),
           \A n \in Node : \A p \in Contents(app'[n]) : p \in Contents(app[n]) \/ AppTrue(n, p),
           \A n \in Node : \A m \in downstream'[n] : m \in downstream[n] \/ upstream[m] = n,
           \A n \in Smart : registry'[n] = registry[n] \/ registry'[n] = upstream[n],
           \A n \in Smart : discovery'[n].best # NoCandidate =>
               discovery'[n].best = discovery[n].best
                 \/ hop[discovery'[n].best.node] = discovery'[n].best.hop
    PROVE  Truth'
<1>1. NodesTrue'
    BY DEF Truth, NodesTrue, RouteKnown
<1>2. CandidatesTrue'
    BY DEF Truth, CandidatesTrue
<1>3. PacketsTrue'
    BY DEF Truth, PacketsTrue, RadioTrue, AppTrue
<1>4. RegistryTrue'
    BY DEF Truth, RegistryTrue
<1> QED
    BY <1>1, <1>2, <1>3, <1>4 DEF Truth

-----------------------------------------------------------------------------
(***************************************************************************)
(* The service task.                                                       *)
(***************************************************************************)

\* A step of the service task that changes no more than the radio queues.
LEMMA RadioStep ==
    ASSUME Inv, QueuesOf(raw', RadioPacket),
           UNCHANGED <<routeVars, failureVars, envVars, radio, downstream, app, task, registry, discovery>>,
           \A n \in Node : \A p \in Contents(raw'[n]) :
              \/ p \in Contents(raw[n])
              \/ /\ RadioTrue(n, p)
                 /\ p.type = "response" => p.hop \in 0..MaxHop
    PROVE  Inv'
<1>1. EnvType' /\ RouteType' /\ TaskType' /\ Queues' /\ RouteOfUpstream' /\ TaskOfUpstream'
    BY DEF Inv, Shape, EnvType, RouteType, TaskType, Queues, QueuesOf, RouteOfUpstream, TaskOfUpstream,
           routeVars, failureVars, envVars
<1>2. CandidatesAreShallow'
    BY DEF Inv, Shape, CandidatesAreShallow
<1>3. ASSUME restarted' = {}
      PROVE  Truth'
    BY <1>3, TruthKept DEF Inv, routeVars, envVars
<1> QED
    BY <1>1, <1>2, <1>3 DEF Inv, Shape

\* AnswerRequest(): the answer to a discovery goes to the asker's queue.
LEMMA AnswerStep ==
    ASSUME Inv, NEW n \in Node, AnswerRequest(n)
    PROVE  Inv'
<1> DEFINE p      == Head(raw[n])
           taken  == [raw EXCEPT ![n] = Tail(@)]
           answer == Response(n, p.from, p.id)
<1>1. ServiceHead(n, "request")
    BY DEF AnswerRequest
<1>2. /\ p \in RadioPacket /\ p.type = "request"
      /\ QueuesOf(taken, RadioPacket)
      /\ \A m \in Node : \A q \in Contents(taken[m]) : q \in Contents(raw[m])
    BY <1>1, ServiceFacts DEF Inv
<1>3. p.from \in Smart /\ p.id \in Ids /\ p.from \in Node
    BY <1>2, RadioFields, NodeFacts
<1>4. UNCHANGED <<routeVars, failureVars, envVars, radio, downstream, app, task, registry, discovery>>
    BY DEF AnswerRequest
<1>5. CASE raw' = taken
    BY <1>2, <1>4, <1>5, RadioStep
<1>6. CASE hop[n] <= MaxHop /\ raw' = [taken EXCEPT ![p.from] = Push(@, answer)]
    <2>1. answer \in RadioPacket
        BY <1>3, RadioMade DEF Inv
    <2>2. answer.type = "response" /\ answer.from = n /\ answer.hop = hop[n]
        BY DEF Response
    <2>3. hop[n] \in 0..MaxHop
        <3>1. hop[n] \in Hops /\ hop[n] <= MaxHop
            BY <1>6 DEF Inv, Shape, RouteType
        <3> QED
            BY <3>1, LimitFacts DEF Hops
    <2> HIDE DEF p, taken, answer
    <2>4. /\ QueuesOf(raw', RadioPacket)
          /\ \A m \in Node : \A q \in Contents(raw'[m]) : q \in Contents(taken[m]) \/ q = answer
        <3> DEFINE longer == [taken EXCEPT ![p.from] = Push(@, answer)]
        <3>1. QueuesOf(taken, RadioPacket) /\ p.from \in Node
            BY <1>2, <1>3
        <3>2. /\ QueuesOf(longer, RadioPacket)
              /\ \A m \in Node : \A q \in Contents(longer[m]) :
                    q \in Contents(taken[m]) \/ (m = p.from /\ q = answer)
            BY <2>1, <3>1, PushOne
        <3> QED
            BY <1>6, <3>2
    <2>5. \A m \in Node : RadioTrue(m, answer)
        BY <2>2 DEF RadioTrue
    <2> QED
        BY <1>2, <1>4, <2>2, <2>3, <2>4, <2>5, RadioStep
<1> QED
    BY <1>5, <1>6 DEF AnswerRequest

\* RecordResponse(): a candidate is added to the window.
LEMMA ResponseStep ==
    ASSUME Inv, NEW n \in Node, RecordResponse(n)
    PROVE  Inv'
<1> DEFINE p == Head(raw[n])
           candidate == [node |-> p.from, hop |-> p.hop]
<1>1. n \in Smart /\ ServiceHead(n, "response") /\ raw' = [raw EXCEPT ![n] = Tail(@)]
      /\ UNCHANGED <<routeVars, failureVars, envVars, radio, downstream, app, task, registry>>
    BY DEF RecordResponse
<1>2. /\ p \in RadioPacket /\ p \in Contents(raw[n]) /\ p.type = "response"
      /\ QueuesOf(raw', RadioPacket)
      /\ \A m \in Node : \A q \in Contents(raw'[m]) : q \in Contents(raw[m])
    BY <1>1, ServiceFacts DEF Inv
<1>3. CASE UNCHANGED discovery
    BY <1>1, <1>2, <1>3, RadioStep
<1>4. CASE discovery' = [discovery EXCEPT ![n].best = candidate]
    <2>1. p.from \in Node /\ p.hop \in Hops /\ p.hop \in 0..MaxHop
        BY <1>2, RadioFields DEF Inv, Shape, CandidatesAreShallow
    <2>2. restarted = {} => hop[p.from] = p.hop
        BY <1>2 DEF Inv, Truth, PacketsTrue, RadioTrue
    <2>3. candidate \in [node : Node \cup {NONE}, hop : Hops]
        BY <2>1
    <2>4. candidate.node = p.from /\ candidate.hop = p.hop
        OBVIOUS
    <2> HIDE DEF p, candidate
    <2>5. TaskType'
        <3>1. TaskType
            BY DEF Inv, Shape
        <3>2. discovery' \in [Smart -> [open : BOOLEAN, id : Ids \cup {0},
                                       best : [node : Node \cup {NONE}, hop : Hops]]]
            <4>1. \A m \in Smart : discovery'[m] = IF m = n THEN [discovery[n] EXCEPT !.best = candidate]
                                                    ELSE discovery[m]
                BY <1>4, <3>1 DEF TaskType
            <4>2. [discovery[n] EXCEPT !.best = candidate] \in
                    [open : BOOLEAN, id : Ids \cup {0}, best : [node : Node \cup {NONE}, hop : Hops]]
                <5> DEFINE Candidates == [node : Node \cup {NONE}, hop : Hops]
                <5>1. discovery[n] \in [open : BOOLEAN, id : Ids \cup {0}, best : Candidates]
                    BY <1>1, <3>1 DEF TaskType
                <5> HIDE DEF Candidates
                <5>2. candidate \in Candidates
                    BY <2>3 DEF Candidates
                <5>3. [discovery[n] EXCEPT !.best = candidate] \in
                        [open : BOOLEAN, id : Ids \cup {0}, best : Candidates]
                    BY <5>1, <5>2
                <5> QED
                    BY <5>3 DEF Candidates
            <4> QED
                BY <1>4, <3>1, <4>1, <4>2 DEF TaskType
        <3>3. UNCHANGED <<task, sweep, discoveryFailures, reportFailures>>
            BY <1>1 DEF failureVars
        <3> QED
            BY <3>1, <3>2, <3>3 DEF TaskType
    <2>6. \A m \in Smart : discovery'[m].best = IF m = n THEN candidate ELSE discovery[m].best
        BY <1>1, <1>4 DEF Inv, Shape, TaskType
    <2>7. EnvType' /\ RouteType' /\ Queues' /\ RouteOfUpstream' /\ TaskOfUpstream'
        BY <1>1, <1>2 DEF Inv, Shape, EnvType, RouteType, Queues, QueuesOf, RouteOfUpstream,
                          TaskOfUpstream, routeVars, failureVars, envVars
    <2>8. CandidatesAreShallow'
        BY <1>2, <2>1, <2>4, <2>6 DEF Inv, Shape, CandidatesAreShallow
    <2>9. ASSUME restarted' = {}
          PROVE  Truth'
        BY <1>1, <1>2, <2>2, <2>4, <2>6, <2>9, TruthKept DEF Inv, routeVars, envVars
    <2> QED
        BY <2>5, <2>7, <2>8, <2>9 DEF Inv, Shape
<1> QED
    BY <1>3, <1>4 DEF RecordResponse

\* RegisterDownstream(): the sender may become a downstream peer.
LEMMA HandshakeStep ==
    ASSUME Inv, NEW n \in Node, RegisterDownstream(n)
    PROVE  Inv'
<1> DEFINE p == Head(raw[n])
<1>1. ServiceHead(n, "handshake") /\ raw' = [raw EXCEPT ![n] = Tail(@)]
      /\ UNCHANGED <<failureVars, envVars, radio, upstream, hop, discovery, app, task, registry>>
    BY DEF RegisterDownstream
<1>2. /\ p \in RadioPacket /\ p \in Contents(raw[n]) /\ p.type = "handshake"
      /\ QueuesOf(raw', RadioPacket)
      /\ \A m \in Node : \A q \in Contents(raw'[m]) : q \in Contents(raw[m])
    BY <1>1, ServiceFacts DEF Inv
<1>3. CASE UNCHANGED <<downstream, peerChannel>>
    BY <1>1, <1>2, <1>3, RadioStep DEF routeVars
<1>4. CASE downstream' = [downstream EXCEPT ![n] = @ \cup {p.from}] /\ peerChannel' = WithPeer(n, p.from)
    <2>1. p.from \in Smart /\ p.from \in Node
        BY <1>2, RadioFields, NodeFacts
    <2>2. restarted = {} => upstream[p.from] = n
        BY <1>2 DEF Inv, Truth, PacketsTrue, RadioTrue
    <2> HIDE DEF p
    <2>3. /\ peerChannel' \in [Smart -> [Node -> Channels \cup {0}]]
          /\ \A k \in Smart, j \in Node : peerChannel[k][j] # 0 => peerChannel'[k][j] = peerChannel[k][j]
        BY <1>4, <2>1, WithPeerType DEF Inv
    <2>4. /\ downstream' \in [Node -> SUBSET Smart]
          /\ \A k \in Node : \A m \in downstream'[k] : m \in downstream[k] \/ (k = n /\ m = p.from)
        BY <1>4, <2>1 DEF Inv, Shape, RouteType
    <2>5. EnvType' /\ TaskType' /\ Queues' /\ RouteOfUpstream'
        BY <1>1, <1>2 DEF Inv, Shape, EnvType, TaskType, Queues, QueuesOf, RouteOfUpstream,
                          failureVars, envVars
    <2>6. RouteType'
        BY <1>1, <2>3, <2>4 DEF Inv, Shape, RouteType
    <2>7. TaskOfUpstream'
        <3>1. \A k \in Smart : upstream[k] # NONE /\ task[k] # "joined" =>
                upstream[k] \in Node /\ peerChannel[k][upstream[k]] # 0
            BY NodeFacts DEF Inv, Shape, TaskOfUpstream, RouteType, Channels
        <3> QED
            BY <1>1, <2>3, <3>1 DEF Inv, Shape, TaskOfUpstream, failureVars
    <2>8. CandidatesAreShallow'
        BY <1>1, <1>2 DEF Inv, Shape, CandidatesAreShallow
    <2>9. ASSUME restarted' = {}
          PROVE  Truth'
        BY <1>1, <1>2, <2>2, <2>4, <2>9, TruthKept DEF Inv, envVars
    <2> QED
        BY <2>5, <2>6, <2>7, <2>8, <2>9 DEF Inv, Shape
<1> QED
    BY <1>3, <1>4 DEF RegisterDownstream, registerOrUpdateDirectDownstreamNode

-----------------------------------------------------------------------------
(***************************************************************************)
(* The task of a Smart Node.                                               *)
(***************************************************************************)

\* A window is opened by a Node without an Upstream Node.
LEMMA WindowStep ==
    ASSUME Inv, NEW n \in Smart, NEW c \in Channels, NEW hearers, upstream[n] = NONE,
           OpenWindow(n, c, hearers)
    PROVE  Inv'
<1> DEFINE id == CHOOSE i \in FreshIds : \A j \in FreshIds : i <= j
<1>1. /\ discovery' = [discovery EXCEPT ![n] = [open |-> TRUE, id |-> id, best |-> NoCandidate]]
      /\ raw' = [m \in Node |-> IF m \in hearers THEN Push(raw[m], Request(n, id)) ELSE raw[m]]
      /\ radio' = [radio EXCEPT ![n] = c]
      /\ task' = [task EXCEPT ![n] = "window"]
      /\ UNCHANGED <<routeVars, failureVars, envVars, downstream, app, registry>>
    BY DEF OpenWindow
<1>2. id \in Ids
    BY FreshIsId DEF OpenWindow
<1> HIDE DEF id
<1>3. Request(n, id) \in RadioPacket /\ Request(n, id).type = "request"
    BY <1>2, RadioMade, NodeFacts DEF Inv, Request
<1>4. \A m \in Node : /\ raw'[m] \in Seq(RadioPacket) /\ Len(raw'[m]) <= QueueLength
                      /\ \A p \in Contents(raw'[m]) : p \in Contents(raw[m]) \/ p.type = "request"
    <2> SUFFICES ASSUME NEW m \in Node
                 PROVE  /\ raw'[m] \in Seq(RadioPacket) /\ Len(raw'[m]) <= QueueLength
                        /\ \A p \in Contents(raw'[m]) : p \in Contents(raw[m]) \/ p.type = "request"
        OBVIOUS
    <2>1. raw'[m] = raw[m] \/ raw'[m] = Push(raw[m], Request(n, id))
        BY <1>1
    <2>2. raw[m] \in Seq(RadioPacket) /\ Len(raw[m]) <= QueueLength
        BY DEF Inv, Shape, Queues, QueuesOf
    <2>3. /\ Push(raw[m], Request(n, id)) \in Seq(RadioPacket)
          /\ Len(Push(raw[m], Request(n, id))) <= QueueLength
          /\ Contents(Push(raw[m], Request(n, id))) \subseteq Contents(raw[m]) \cup {Request(n, id)}
        BY <1>3, <2>2, QueueOps
    <2>4. CASE raw'[m] = raw[m]
        BY <2>2, <2>4
    <2>5. CASE raw'[m] = Push(raw[m], Request(n, id))
        BY <1>3, <2>3, <2>5
    <2> QED
        BY <2>1, <2>4, <2>5
<1>5. Queues'
    <2>1. raw' \in [Node -> Seq(RadioPacket)]
        BY <1>1, <1>4
    <2> QED
        BY <1>1, <1>4, <2>1 DEF Inv, Shape, Queues, QueuesOf
<1>6. NoCandidate \in [node : Node \cup {NONE}, hop : Hops]
    BY DEF NoCandidate, Hops
<1>7. TaskType'
    BY <1>1, <1>2, <1>6 DEF Inv, Shape, TaskType, failureVars
<1>8. RouteType'
    BY <1>1, NodeFacts DEF Inv, Shape, RouteType, routeVars
<1>9. EnvType' /\ RouteOfUpstream'
    BY <1>1 DEF Inv, Shape, EnvType, RouteOfUpstream, routeVars, envVars
<1>10. TaskOfUpstream'
    BY <1>1, NodeFacts
       DEF Inv, Shape, TaskType, RouteType, TaskOfUpstream, routeVars, failureVars
<1>11. \A m \in Smart : discovery'[m].best = IF m = n THEN NoCandidate ELSE discovery[m].best
    BY <1>1 DEF Inv, Shape, TaskType
<1>12. CandidatesAreShallow'
    BY <1>4, <1>11 DEF Inv, Shape, CandidatesAreShallow
<1>13. ASSUME restarted' = {}
       PROVE  Truth'
    <2>1. \A m \in Node : \A p \in Contents(raw'[m]) : p \in Contents(raw[m]) \/ RadioTrue(m, p)
        BY <1>4 DEF RadioTrue
    <2> QED
        BY <1>1, <1>11, <1>13, <2>1, TruthKept DEF Inv, routeVars, envVars
<1> QED
    BY <1>5, <1>7, <1>8, <1>9, <1>10, <1>12, <1>13 DEF Inv, Shape

\* A discovery starts, on the channel in use or the next of a sweep.
LEMMA DiscoverStep ==
    ASSUME Inv, NEW n \in Smart, NEW hearers, StartDiscovery(n, hearers) \/ SweepChannel(n, hearers)
    PROVE  Inv'
<1>1. CASE StartDiscovery(n, hearers)
    <2>1. radio[n] \in Channels
        BY NodeFacts DEF Inv, Shape, RouteType
    <2> QED
        BY <1>1, <2>1, WindowStep DEF StartDiscovery
<1>2. CASE SweepChannel(n, hearers)
    <2>1. upstream[n] = NONE /\ sweep[n] \in Channels
        BY <1>2 DEF SweepChannel, Inv, Shape, TaskType, TaskOfUpstream
    <2> QED
        BY <1>2, <2>1, WindowStep DEF SweepChannel
<1> QED
    BY <1>1, <1>2

\* WindowFailed(): the next channel, a sweep, or back to discovery.
LEMMA FailureStep ==
    ASSUME Inv, NEW n \in Smart, WindowFailed(n)
    PROVE  Inv'
<1> DEFINE again == sweep[n] # 0 /\ MoreChannels(sweep[n])
           tired == sweep[n] = 0 /\ discoveryFailures[n] + 1 >= DiscoveryFailuresBeforeSweep
<1>1. /\ task[n] = "window"
      /\ discovery' = [discovery EXCEPT ![n] = Closed]
      /\ sweep' = [sweep EXCEPT ![n] = IF again THEN @ + 1 ELSE IF tired THEN 1 ELSE 0]
      /\ discoveryFailures' = [discoveryFailures EXCEPT
             ![n] = IF sweep[n] # 0 \/ tired THEN 0 ELSE @ + 1]
      /\ task' = [task EXCEPT ![n] = IF again \/ tired THEN "sweep" ELSE "idle"]
      /\ UNCHANGED <<routeVars, envVars, radio, downstream, raw, app, reportFailures, registry>>
    BY DEF WindowFailed, WindowOver
<1>2. upstream[n] = NONE
    BY <1>1 DEF Inv, Shape, TaskOfUpstream
<1>3. /\ (IF again THEN sweep[n] + 1 ELSE IF tired THEN 1 ELSE 0) \in Channels \cup {0}
      /\ again => sweep[n] + 1 # 0
    BY ChannelsAssumption DEF Inv, Shape, TaskType, MoreChannels, Channels
<1>4. (IF sweep[n] # 0 \/ tired THEN 0 ELSE discoveryFailures[n] + 1)
         \in 0..DiscoveryFailuresBeforeSweep - 1
    BY LimitFacts DEF Inv, Shape, TaskType, Channels
<1>5. Closed \in [open : BOOLEAN, id : Ids \cup {0}, best : [node : Node \cup {NONE}, hop : Hops]]
      /\ Closed.best = NoCandidate
    BY DEF Closed, NoCandidate, Hops
<1> HIDE DEF again, tired
<1>6. TaskType'
    <2>1. discovery' \in [Smart -> [open : BOOLEAN, id : Ids \cup {0},
                                    best : [node : Node \cup {NONE}, hop : Hops]]]
        BY <1>1, <1>5 DEF Inv, Shape, TaskType
    <2>2. sweep' \in [Smart -> Channels \cup {0}]
        BY <1>1, <1>3 DEF Inv, Shape, TaskType
    <2>3. discoveryFailures' \in [Smart -> 0..DiscoveryFailuresBeforeSweep - 1]
        BY <1>1, <1>4 DEF Inv, Shape, TaskType
    <2>4. task' \in [Smart -> {"idle", "window", "sweep", "joined"}]
        BY <1>1 DEF Inv, Shape, TaskType
    <2> QED
        BY <1>1, <2>1, <2>2, <2>3, <2>4 DEF Inv, Shape, TaskType
<1>7. EnvType' /\ RouteType' /\ Queues' /\ RouteOfUpstream'
    BY <1>1 DEF Inv, Shape, EnvType, RouteType, Queues, QueuesOf, RouteOfUpstream, routeVars, envVars
<1>8. TaskOfUpstream'
    <2>1. \A m \in Smart \ {n} : task'[m] = task[m] /\ sweep'[m] = sweep[m]
        BY <1>1 DEF Inv, Shape, TaskType
    <2>2. task'[n] = "sweep" => sweep'[n] # 0
        BY <1>1, <1>3 DEF Inv, Shape, TaskType
    <2> QED
        BY <1>1, <1>2, <2>1, <2>2 DEF Inv, Shape, TaskType, TaskOfUpstream, routeVars
<1>9. \A m \in Smart : discovery'[m].best = IF m = n THEN NoCandidate ELSE discovery[m].best
    BY <1>1, <1>5 DEF Inv, Shape, TaskType
<1>10. CandidatesAreShallow'
    BY <1>1, <1>9 DEF Inv, Shape, CandidatesAreShallow
<1>11. ASSUME restarted' = {}
       PROVE  Truth'
    BY <1>1, <1>9, <1>11, TruthKept DEF Inv, routeVars, envVars
<1> QED
    BY <1>6, <1>7, <1>8, <1>10, <1>11 DEF Inv, Shape


\* Whoever has a route is left alone by a Node that gets one: nothing that is
\* said of the tree is about a Node without a route.
LEMMA SelectStep ==
    ASSUME Inv, NEW n \in Smart, SelectUpstream(n)
    PROVE  Inv'
<1> DEFINE best == discovery[n].best
<1>1. /\ task[n] = "window" /\ best # NoCandidate
      /\ discovery' = [discovery EXCEPT ![n] = Closed]
      /\ peerChannel' = WithPeer(n, best.node)
      /\ upstream' = [upstream EXCEPT ![n] = best.node]
      /\ hop' = [hop EXCEPT ![n] = HopBelow(best.hop)]
      /\ task' = [task EXCEPT ![n] = "joined"]
      /\ UNCHANGED <<failureVars, envVars, radio, downstream, raw, app, registry>>
    BY DEF SelectUpstream, WindowOver
<1>2. n \in Node /\ n # Central /\ upstream[n] = NONE /\ hop[n] = UnknownHop
    BY <1>1, NodeFacts DEF Inv, Shape, TaskOfUpstream, RouteOfUpstream
<1>3. best.node \in Node /\ best.hop \in 0..MaxHop /\ best.hop # UnknownHop
    BY <1>1, LimitFacts DEF Inv, Shape, CandidatesAreShallow
<1>4. HopBelow(best.hop) \in Hops /\ HopBelow(best.hop) = best.hop + 1
    BY <1>3, LimitFacts DEF HopBelow, Hops
<1>5. restarted = {} => hop[best.node] = best.hop
    BY <1>1 DEF Inv, Truth, CandidatesTrue
<1>6. Closed \in [open : BOOLEAN, id : Ids \cup {0}, best : [node : Node \cup {NONE}, hop : Hops]]
      /\ Closed.best = NoCandidate
    BY DEF Closed, NoCandidate, Hops
<1> HIDE DEF best
<1>7. \A m \in Smart : discovery'[m].best = IF m = n THEN NoCandidate ELSE discovery[m].best
    BY <1>1, <1>6 DEF Inv, Shape, TaskType
<1>8. /\ \A m \in Node : upstream'[m] = IF m = n THEN best.node ELSE upstream[m]
      /\ \A m \in Node : hop'[m] = IF m = n THEN best.hop + 1 ELSE hop[m]
    BY <1>1, <1>4 DEF Inv, Shape, RouteType
<1>9. TaskType'
    <2>1. discovery' \in [Smart -> [open : BOOLEAN, id : Ids \cup {0},
                                    best : [node : Node \cup {NONE}, hop : Hops]]]
        BY <1>1, <1>6 DEF Inv, Shape, TaskType
    <2> QED
        BY <1>1, <2>1 DEF Inv, Shape, TaskType, failureVars
<1>10. /\ peerChannel' \in [Smart -> [Node -> Channels \cup {0}]]
       /\ \A k \in Smart, j \in Node : peerChannel[k][j] # 0 => peerChannel'[k][j] = peerChannel[k][j]
    BY <1>1, <1>2, <1>3, WithPeerType DEF Inv
<1>11. RouteType'
    BY <1>1, <1>3, <1>4, <1>10 DEF Inv, Shape, RouteType
<1>12. EnvType' /\ Queues' /\ RouteOfUpstream'
    <2>1. EnvType' /\ Queues'
        BY <1>1 DEF Inv, Shape, EnvType, Queues, QueuesOf, envVars
    <2>2. RouteOfUpstream'
        BY <1>2, <1>3, <1>8, NodeFacts DEF Inv, Shape, RouteOfUpstream
    <2> QED
        BY <2>1, <2>2
<1>13. TaskOfUpstream'
    <2> SUFFICES ASSUME NEW m \in Smart
                 PROVE  /\ task'[m] \in {"window", "sweep"} => upstream'[m] = NONE
                        /\ task'[m] = "sweep" => sweep'[m] # 0
                        /\ task'[m] = "joined" => upstream'[m] # NONE
                        /\ upstream'[m] # NONE /\ task'[m] # "joined" =>
                              peerChannel'[m][upstream'[m]] = radio'[m]
        BY DEF TaskOfUpstream
    <2>1. CASE m = n
        BY <1>1, <1>3, <1>8, <2>1, NodeFacts DEF Inv, Shape, TaskType
    <2>2. CASE m # n
        <3>1. upstream'[m] = upstream[m] /\ task'[m] = task[m] /\ sweep'[m] = sweep[m]
              /\ radio'[m] = radio[m]
            BY <1>1, <1>8, <2>2, NodeFacts DEF Inv, Shape, TaskType, failureVars
        <3>2. upstream[m] # NONE /\ task[m] # "joined" =>
                 upstream[m] \in Node /\ peerChannel[m][upstream[m]] # 0
            BY NodeFacts DEF Inv, Shape, TaskOfUpstream, RouteType, Channels
        <3> QED
            BY <1>10, <3>1, <3>2 DEF Inv, Shape, TaskOfUpstream
    <2> QED
        BY <2>1, <2>2
<1>14. CandidatesAreShallow'
    BY <1>1, <1>7 DEF Inv, Shape, CandidatesAreShallow
<1>15. ASSUME restarted' = {}
       PROVE  Truth'
    <2>1. Truth /\ hop[best.node] = best.hop /\ best.node # n
        BY <1>1, <1>2, <1>3, <1>5, <1>15 DEF Inv, envVars
    <2>2. NodesTrue'
        <3>1. ASSUME NEW m \in Node
              PROVE  /\ upstream'[m] # NONE =>
                           hop'[upstream'[m]] # UnknownHop /\ hop'[m] = hop'[upstream'[m]] + 1
                     /\ \A k \in downstream'[m] : upstream'[k] = m
            <4>1. \A k \in downstream[m] : k \in Node /\ upstream[k] = m /\ k # n
                BY <1>2, <2>1, NodeFacts DEF Truth, NodesTrue, Inv, Shape, RouteType
            <4>2. CASE m = n
                BY <1>1, <1>3, <1>8, <2>1, <4>1, <4>2
            <4>3. CASE m # n
                <5>1. upstream[m] # NONE => /\ upstream[m] \in Node /\ upstream[m] # n
                                            /\ hop[upstream[m]] # UnknownHop
                                            /\ hop[m] = hop[upstream[m]] + 1
                    BY <1>2, <2>1 DEF Truth, NodesTrue, RouteKnown, Inv, Shape, RouteType
                <5> QED
                    BY <1>1, <1>8, <4>1, <4>3, <5>1
            <4> QED
                BY <4>2, <4>3
        <3> QED
            BY <3>1 DEF NodesTrue, RouteKnown
    <2>3. CandidatesTrue'
        <3>1. ASSUME NEW m \in Smart, discovery'[m].best # NoCandidate
              PROVE  hop'[discovery'[m].best.node] = discovery'[m].best.hop
            <4>1. discovery'[m].best = discovery[m].best
                BY <1>7, <3>1
            <4>2. /\ discovery[m].best.node \in Node /\ discovery[m].best.hop # UnknownHop
                  /\ hop[discovery[m].best.node] = discovery[m].best.hop
                BY <2>1, <3>1, <4>1, LimitFacts
                   DEF Truth, CandidatesTrue, Inv, Shape, CandidatesAreShallow
            <4> QED
                BY <1>2, <1>8, <4>1, <4>2
        <3> QED
            BY <3>1 DEF CandidatesTrue
    <2>4. PacketsTrue'
        <3>1. ASSUME NEW m \in Node, NEW q \in Contents(raw[m])
              PROVE  /\ q.type = "response" => hop'[q.from] = q.hop
                     /\ q.type = "handshake" => upstream'[q.from] = m
            <4>1. RadioTrue(m, q)
                BY <2>1, <3>1 DEF Truth, PacketsTrue
            <4>2. q \in RadioPacket
                <5>1. raw[m] \in Seq(RadioPacket) /\ Len(raw[m]) <= QueueLength
                    BY DEF Inv, Shape, Queues, QueuesOf
                <5> QED
                    BY <3>1, <5>1, QueueOps
            <4>3. q.type = "response" => q.from \in Node /\ q.hop # UnknownHop
                BY <3>1, <4>2, RadioFields, LimitFacts DEF Inv, Shape, CandidatesAreShallow
            <4>4. q.type = "handshake" => q.from \in Node
                BY <4>2, RadioFields, NodeFacts
            <4> QED
                BY <1>2, <1>8, <4>1, <4>3, <4>4, NodeFacts DEF RadioTrue
        <3>2. ASSUME NEW m \in Node, NEW q \in Contents(app[m])
              PROVE  AppTrue(m, q)'
            <4>1. AppTrue(m, q)
                BY <2>1, <3>2 DEF Truth, PacketsTrue
            <4> QED
                BY <1>2, <1>8, <4>1, NodeFacts DEF AppTrue
        <3> QED
            BY <1>1, <3>1, <3>2 DEF PacketsTrue, RadioTrue
    <2>5. RegistryTrue'
        BY <1>1, <1>2, <1>8, <2>1, NodeFacts DEF Truth, RegistryTrue
    <2> QED
        BY <2>2, <2>3, <2>4, <2>5 DEF Truth
<1> QED
    BY <1>9, <1>11, <1>12, <1>13, <1>14, <1>15 DEF Inv, Shape

\* JoinUpstream(): the peer of the upstream is put on the channel in use.
LEMMA JoinStep ==
    ASSUME Inv, NEW n \in Smart, JoinUpstream(n)
    PROVE  Inv'
<1>1. /\ task[n] = "joined"
      /\ peerChannel' = [peerChannel EXCEPT ![n][upstream[n]] = radio[n]]
      /\ sweep' = [sweep EXCEPT ![n] = 0]
      /\ discoveryFailures' = [discoveryFailures EXCEPT ![n] = 0]
      /\ reportFailures' = [reportFailures EXCEPT ![n] = 0]
      /\ task' = [task EXCEPT ![n] = "idle"]
      /\ UNCHANGED <<envVars, radio, upstream, hop, downstream, discovery, app, registry>>
    BY DEF JoinUpstream, SyncedPeers
<1>2. upstream[n] \in Node /\ upstream[n] # NONE /\ radio[n] \in Channels
    BY <1>1, NodeFacts DEF Inv, Shape, TaskOfUpstream, RouteType
<1>3. /\ QueuesOf(raw', RadioPacket)
      /\ \A m \in Node : \A p \in Contents(raw'[m]) :
            p \in Contents(raw[m]) \/ (p.type = "handshake" /\ RadioTrue(m, p))
    <2>1. QueuesOf(raw, RadioPacket)
        BY DEF Inv, Shape, Queues
    <2>2. CASE UNCHANGED raw
        BY <2>1, <2>2
    <2>3. CASE raw' = [raw EXCEPT ![upstream[n]] = Push(@, Handshake(n))]
        <3>1. /\ Handshake(n) \in RadioPacket /\ Handshake(n).type = "handshake"
              /\ Handshake(n).from = n
            BY RadioMade, NodeFacts DEF Inv, Handshake
        <3> DEFINE longer == [raw EXCEPT ![upstream[n]] = Push(@, Handshake(n))]
        <3>2. /\ QueuesOf(longer, RadioPacket)
              /\ \A m \in Node : \A p \in Contents(longer[m]) :
                    p \in Contents(raw[m]) \/ (m = upstream[n] /\ p = Handshake(n))
            BY <1>2, <2>1, <3>1, PushOne
        <3>3. RadioTrue(upstream[n], Handshake(n))
            BY <3>1 DEF RadioTrue
        <3> QED
            BY <2>3, <3>1, <3>2, <3>3
    <2> QED
        BY <2>2, <2>3 DEF JoinUpstream
<1>4. TaskType'
    BY <1>1, LimitFacts DEF Inv, Shape, TaskType
<1>5. RouteType' /\ EnvType' /\ RouteOfUpstream'
    BY <1>1, <1>2 DEF Inv, Shape, RouteType, EnvType, RouteOfUpstream, envVars
<1>6. Queues'
    BY <1>1, <1>3 DEF Inv, Shape, Queues, QueuesOf
<1>7. TaskOfUpstream'
    BY <1>1, <1>2 DEF Inv, Shape, TaskOfUpstream, TaskType, RouteType
<1>8. CandidatesAreShallow'
    BY <1>1, <1>3 DEF Inv, Shape, CandidatesAreShallow
<1>9. ASSUME restarted' = {}
      PROVE  Truth'
    BY <1>1, <1>3, <1>9, TruthKept DEF Inv, envVars
<1> QED
    BY <1>4, <1>5, <1>6, <1>7, <1>8, <1>9 DEF Inv, Shape

-----------------------------------------------------------------------------
(***************************************************************************)
(* The application tasks.                                                  *)
(***************************************************************************)

\* A step of an application task that leaves the Nodes their routes.
LEMMA AppStep ==
    ASSUME Inv, QueuesOf(app', AppPacket),
           UNCHANGED <<envVars, radio, upstream, hop, downstream, discovery, raw, task, sweep,
                       discoveryFailures>>,
           reportFailures' \in [Smart -> 0..ReportFailuresBeforeRestart - 1],
           peerChannel' \in [Smart -> [Node -> Channels \cup {0}]],
           \A k \in Smart, j \in Node : peerChannel[k][j] # 0 => peerChannel'[k][j] = peerChannel[k][j],
           registry' \in [Smart -> Node \cup {NONE}],
           restarted = {} =>
              /\ \A n \in Node : \A p \in Contents(app'[n]) : p \in Contents(app[n]) \/ AppTrue(n, p)
              /\ \A n \in Smart : registry'[n] = registry[n] \/ registry'[n] = upstream[n]
    PROVE  Inv'
<1>1. EnvType' /\ RouteType' /\ TaskType' /\ Queues' /\ RouteOfUpstream' /\ CandidatesAreShallow'
    BY DEF Inv, Shape, EnvType, RouteType, TaskType, Queues, QueuesOf, RouteOfUpstream,
           CandidatesAreShallow, envVars
<1>2. TaskOfUpstream'
    <2>1. \A k \in Smart : upstream[k] # NONE /\ task[k] # "joined" =>
            upstream[k] \in Node /\ peerChannel[k][upstream[k]] # 0
        BY NodeFacts DEF Inv, Shape, TaskOfUpstream, RouteType, Channels
    <2> QED
        BY <2>1 DEF Inv, Shape, TaskOfUpstream
<1>3. ASSUME restarted' = {}
      PROVE  Truth'
    BY <1>3, TruthKept DEF Inv, envVars
<1> QED
    BY <1>1, <1>2, <1>3 DEF Inv, Shape

\* The oldest message of an application's queue, and the queues without it.
LEMMA AppFacts ==
    ASSUME Inv, NEW n \in Node, Received(n)
    PROVE  /\ Head(app[n]) \in AppPacket
           /\ restarted = {} => AppTrue(n, Head(app[n]))
           /\ QueuesOf([app EXCEPT ![n] = Tail(@)], AppPacket)
           /\ \A m \in Node : \A p \in Contents([app EXCEPT ![n] = Tail(@)][m]) : p \in Contents(app[m])
<1>1. QueuesOf(app, AppPacket) /\ app[n] # <<>>
    BY DEF Inv, Shape, Queues, Received
<1>2. app[n] \in Seq(AppPacket) /\ Len(app[n]) <= QueueLength
    BY <1>1 DEF QueuesOf
<1>3. Head(app[n]) \in AppPacket /\ Head(app[n]) \in Contents(app[n])
    BY <1>1, <1>2, QueueOps
<1>4. restarted = {} => AppTrue(n, Head(app[n]))
    BY <1>3 DEF Inv, Truth, PacketsTrue
<1> QED
    BY <1>1, <1>3, <1>4, TakeOne

\* What a Node sends is heard by one Node, as it was sent.
LEMMA DeliveredFacts ==
    ASSUME NEW n \in Node, NEW m \in Node, NEW packet \in AppPacket, NEW queues,
           QueuesOf(queues, AppPacket), Delivered(n, m, packet, queues)
    PROVE  /\ QueuesOf(app', AppPacket)
           /\ \A k \in Node : \A p \in Contents(app'[k]) :
                 p \in Contents(queues[k]) \/ (k = m /\ p = packet)
<1>1. app' = [queues EXCEPT ![m] = Push(@, packet)]
    BY DEF Delivered
<1>2. LET longer == [queues EXCEPT ![m] = Push(@, packet)]
      IN  /\ QueuesOf(longer, AppPacket)
          /\ \A k \in Node : \A p \in Contents(longer[k]) :
                p \in Contents(queues[k]) \/ (k = m /\ p = packet)
    BY PushOne
<1> QED
    BY <1>1, <1>2

\* A packet that is forwarded differs in its sender and its hops only.
LEMMA OnwardFacts ==
    ASSUME NEW p \in AppPacket, NEW n \in Node, p.hops > 0
    PROVE  LET onward == [p EXCEPT !.from = n, !.hops = @ - 1]
           IN  /\ onward \in AppPacket /\ onward.type = p.type /\ onward.origin = p.origin
               /\ onward.dest = p.dest /\ onward.parent = p.parent
<1> DEFINE relayed == [p EXCEPT !.from = n]
           onward == [p EXCEPT !.from = n, !.hops = @ - 1]
<1>1. relayed \in AppPacket /\ relayed.hops = p.hops /\ relayed.type = p.type /\ relayed.origin = p.origin
      /\ relayed.dest = p.dest /\ relayed.parent = p.parent
    BY DEF AppPacket
<1>2. onward = [relayed EXCEPT !.hops = p.hops - 1]
    BY Zenon
<1> HIDE DEF relayed
<1>3. /\ [relayed EXCEPT !.hops = p.hops - 1] \in AppPacket
    BY <1>1, LimitFacts DEF AppPacket
<1>4. /\ [relayed EXCEPT !.hops = p.hops - 1].type = relayed.type
      /\ [relayed EXCEPT !.hops = p.hops - 1].origin = relayed.origin
      /\ [relayed EXCEPT !.hops = p.hops - 1].dest = relayed.dest
      /\ [relayed EXCEPT !.hops = p.hops - 1].parent = relayed.parent
    BY <1>1, LimitFacts DEF AppPacket
<1> HIDE DEF onward
<1> QED
    BY <1>1, <1>2, <1>3, <1>4 DEF onward

\* A packet is handed on; a command only to the next Node of its path.
LEMMA ForwardStep ==
    ASSUME Inv, NEW n \in Node, NEW m \in Node, Received(n), Forward(n, m, Head(app[n])),
           UNCHANGED <<envVars, radio, upstream, hop, downstream, discovery, raw, task, sweep,
                       discoveryFailures, reportFailures, registry>>,
           restarted = {} /\ Head(app[n]).type = "command" => m = Head(app[n]).dest
    PROVE  Inv'
<1> DEFINE p == Head(app[n])
           taken == [app EXCEPT ![n] = Tail(@)]
           onward == [p EXCEPT !.from = n, !.hops = @ - 1]
<1>1. /\ p \in AppPacket
      /\ restarted = {} => AppTrue(n, p)
      /\ QueuesOf(taken, AppPacket)
      /\ \A k \in Node : \A q \in Contents(taken[k]) : q \in Contents(app[k])
    BY AppFacts
<1>2. /\ peerChannel' = IF p.hops = 0 THEN peerChannel ELSE WithPeer(n, m)
      /\ app' = taken \/ (p.hops > 0 /\ Delivered(n, m, onward, taken))
    BY DEF Forward
<1>3. /\ peerChannel' \in [Smart -> [Node -> Channels \cup {0}]]
      /\ \A k \in Smart, j \in Node : peerChannel[k][j] # 0 => peerChannel'[k][j] = peerChannel[k][j]
    BY <1>2, WithPeerType DEF Inv, Shape, RouteType
<1>4. CASE app' = taken
    <2> HIDE DEF p, taken, onward
    <2> QED
        BY <1>1, <1>3, <1>4, AppStep DEF Inv, Shape, RouteType, TaskType
<1>5. CASE p.hops > 0 /\ Delivered(n, m, onward, taken)
    <2>1. /\ onward \in AppPacket /\ onward.type = p.type /\ onward.origin = p.origin
          /\ onward.dest = p.dest /\ onward.parent = p.parent
        <3> HIDE DEF p
        <3> QED
            BY <1>1, <1>5, OnwardFacts
    <2> HIDE DEF p, taken, onward
    <2>2. /\ QueuesOf(app', AppPacket)
          /\ \A k \in Node : \A q \in Contents(app'[k]) :
                q \in Contents(taken[k]) \/ (k = m /\ q = onward)
        BY <1>1, <1>5, <2>1, DeliveredFacts
    <2>3. restarted = {} => AppTrue(m, onward)
        BY <1>1, <2>1 DEF AppTrue, p
    <2> QED
        BY <1>1, <1>3, <2>2, <2>3, AppStep DEF Inv, Shape, RouteType, TaskType
<1> QED
    BY <1>2, <1>4, <1>5

\* A packet ends here; the registry learns from reports alone.
LEMMA ConsumeStep ==
    ASSUME Inv, NEW n \in Node, Received(n), Consume(n),
           UNCHANGED <<envVars, radio, upstream, hop, downstream, discovery, raw, task, sweep,
                       discoveryFailures, reportFailures>>,
           registry' \in [Smart -> Node \cup {NONE}],
           restarted = {} => \A k \in Smart : registry'[k] = registry[k] \/ registry'[k] = upstream[k]
    PROVE  Inv'
<1>1. app' = [app EXCEPT ![n] = Tail(@)] /\ UNCHANGED peerChannel
    BY DEF Consume
<1>2. QueuesOf(app', AppPacket) /\ \A k \in Node : \A q \in Contents(app'[k]) : q \in Contents(app[k])
    BY <1>1, AppFacts
<1> QED
    BY <1>1, <1>2, AppStep DEF Inv, Shape, RouteType, TaskType

\* A command that is not at its destination came to this Node from the
\* Central, which is its Upstream Node: it goes straight on.
LEMMA SmartReceiveStep ==
    ASSUME Inv, NEW n \in Smart, SmartReceive(n)
    PROVE  Inv'
<1> DEFINE p == Head(app[n])
           next == NextHopFromSmart(n, p)
<1>1. /\ n \in Node /\ Received(n)
      /\ IF isMessageForThisNode(n, p) THEN Consume(n) ELSE Forward(n, next, p)
      /\ UNCHANGED <<envVars, radio, upstream, hop, downstream, discovery, raw, task, sweep,
                     discoveryFailures, reportFailures, registry>>
    BY NodeFacts DEF SmartReceive, failureVars
<1>2. p \in AppPacket /\ (restarted = {} => AppTrue(n, p))
    BY <1>1, AppFacts
<1>3. next \in Node
    BY <1>1, <1>2 DEF NextHopFromSmart, AppPacket, Inv, Shape, RouteType
<1>4. restarted = {} /\ p.type = "command" /\ p.dest # n => next = p.dest
    BY <1>2 DEF AppTrue, NextHopFromSmart
<1> HIDE DEF p, next
<1>5. CASE isMessageForThisNode(n, p)
    BY <1>1, <1>5, ConsumeStep DEF Inv, Shape, RouteType
<1>6. CASE ~ isMessageForThisNode(n, p)
    BY <1>1, <1>3, <1>4, <1>6, ForwardStep DEF isMessageForThisNode, p
<1> QED
    BY <1>5, <1>6

\* A message that a task sends of its own.
LEMMA SendStep ==
    ASSUME Inv, NEW n \in Node, NEW m \in Node, NEW packet \in AppPacket, sendTo(n, m, packet),
           UNCHANGED <<envVars, radio, upstream, hop, peerChannel, downstream, discovery, raw,
                       task, sweep, discoveryFailures, registry>>,
           reportFailures' \in [Smart -> 0..ReportFailuresBeforeRestart - 1],
           restarted = {} => AppTrue(m, packet)
    PROVE  Inv'
<1>1. QueuesOf(app, AppPacket)
    BY DEF Inv, Shape, Queues
<1>2. /\ QueuesOf(app', AppPacket)
      /\ \A k \in Node : \A q \in Contents(app'[k]) : q \in Contents(app[k]) \/ (k = m /\ q = packet)
    BY <1>1, DeliveredFacts DEF sendTo
<1> QED
    BY <1>2, AppStep DEF Inv, Shape, RouteType

\* ReportDelivered(): a report starts on its way.
LEMMA ReportStep ==
    ASSUME Inv, NEW n \in Smart, ReportDelivered(n)
    PROVE  Inv'
<1>1. /\ n \in Node /\ upstream[n] \in Node /\ upstream[n] # NONE
      /\ sendTo(n, upstream[n], Report(n))
      /\ reportFailures' = [reportFailures EXCEPT ![n] = 0]
      /\ UNCHANGED <<envVars, radio, upstream, hop, peerChannel, downstream, discovery, raw,
                     task, sweep, discoveryFailures, registry>>
    BY NodeFacts DEF ReportDelivered, routeVars, Inv, Shape, RouteType
<1>2. Report(n) \in AppPacket /\ AppTrue(upstream[n], Report(n))
    BY <1>1, NodeFacts, LimitFacts DEF Report, AppPacket, AppTrue
<1>3. reportFailures' \in [Smart -> 0..ReportFailuresBeforeRestart - 1]
    BY <1>1, LimitFacts DEF Inv, Shape, TaskType
<1> QED
    BY <1>1, <1>2, <1>3, SendStep

\* The next hop of a command is a child of the Central.
LEMMA NextHopFacts ==
    ASSUME NEW d, NextHopFromCentral(d) # NONE
    PROVE  NextHopFromCentral(d) \in Smart /\ registry[NextHopFromCentral(d)] = Central
<1> DEFINE up[k \in 0..Cardinality(Smart)] ==
               IF k = 0 THEN d
               ELSE IF up[k - 1] \in Smart THEN registry[up[k - 1]] ELSE NONE
           first == {up[k] : k \in {j \in 0..Cardinality(Smart) :
                                       up[j] \in Smart /\ registry[up[j]] = Central}}
<1>1. NextHopFromCentral(d) = IF first = {} THEN NONE ELSE CHOOSE m \in first : TRUE
    BY Zenon DEF NextHopFromCentral
<1>2. \A m \in first : m \in Smart /\ registry[m] = Central
    <2> HIDE DEF up
    <2> QED
        OBVIOUS
<1> HIDE DEF first
<1> QED
    BY <1>1, <1>2

\* SendCommand(): a command goes to the first Node of its path.
LEMMA CommandStep ==
    ASSUME Inv, NEW d \in Smart, SendCommand(d)
    PROVE  Inv'
<1> DEFINE next == NextHopFromCentral(d)
<1>1. /\ next # NONE /\ sendTo(Central, next, Command(d))
      /\ UNCHANGED <<envVars, radio, upstream, hop, peerChannel, downstream, discovery, raw,
                     task, sweep, discoveryFailures, reportFailures, registry>>
    BY DEF SendCommand, routeVars, failureVars
<1>2. next \in Smart /\ registry[next] = Central
    BY <1>1, NextHopFacts
<1>3. restarted = {} => upstream[next] = Central
    BY <1>2, NodeFacts DEF Inv, Truth, RegistryTrue
<1>4. Command(d) \in AppPacket /\ (restarted = {} => AppTrue(next, Command(d)))
    BY <1>3, NodeFacts, LimitFacts DEF Command, AppPacket, AppTrue
<1>5. next \in Node /\ Central \in Node
    BY <1>2, NodeFacts
<1> HIDE DEF next
<1> QED
    BY <1>1, <1>4, <1>5, SendStep DEF Inv, Shape, TaskType

\* CentralReceive(): the Central takes a report or hands a command on.
LEMMA CentralReceiveStep ==
    ASSUME Inv, CentralReceive
    PROVE  Inv'
<1> DEFINE p == Head(app[Central])
           next == NextHopFromCentral(p.dest)
<1>1. /\ Central \in Node /\ Received(Central)
      /\ UNCHANGED <<envVars, radio, upstream, hop, downstream, discovery, raw, task, sweep,
                     discoveryFailures, reportFailures>>
    BY NodeFacts DEF CentralReceive, failureVars
<1>2. p \in AppPacket /\ (restarted = {} => AppTrue(Central, p))
    BY <1>1, AppFacts
<1>3. restarted = {} => p.type = "report"
    BY <1>2, NodeFacts DEF AppTrue, AppPacket, Inv, Shape, RouteOfUpstream
<1>4. CASE isMessageForThisNode(Central, p) /\ Consume(Central)
           /\ registry' = [registry EXCEPT ![p.origin] = p.parent]
    <2>1. registry' \in [Smart -> Node \cup {NONE}]
        BY <1>2, <1>4 DEF AppPacket, Inv, Shape, RouteType
    <2>2. restarted = {} => \A k \in Smart : registry'[k] = registry[k] \/ registry'[k] = upstream[k]
        BY <1>2, <1>3, <1>4 DEF AppTrue, Inv, Shape, RouteType
    <2> QED
        BY <1>1, <1>4, <2>1, <2>2, ConsumeStep
<1>5. CASE UNCHANGED registry /\ Consume(Central)
    BY <1>1, <1>5, ConsumeStep DEF Inv, Shape, RouteType
<1>6. CASE UNCHANGED registry /\ next # NONE /\ Forward(Central, next, p)
    <2>1. next \in Node
        BY <1>6, NextHopFacts, NodeFacts
    <2>2. restarted = {} => p.type # "command"
        BY <1>3
    <2> HIDE DEF next
    <2> QED
        BY <1>1, <1>6, <2>1, <2>2, ForwardStep
<1> QED
    BY <1>4, <1>5, <1>6 DEF CentralReceive

-----------------------------------------------------------------------------
(***************************************************************************)
(* Restarts: what was true of the tree need not be any more.               *)
(***************************************************************************)
LEMMA ForgottenStep ==
    ASSUME Inv, NEW n \in Smart, Forgotten(n), EnvType', UNCHANGED registry
    PROVE  Inv'
<1>1. /\ radio' = [radio EXCEPT ![n] = DefaultChannel]
      /\ upstream' = [upstream EXCEPT ![n] = NONE]
      /\ hop' = [hop EXCEPT ![n] = UnknownHop]
      /\ peerChannel' = [peerChannel EXCEPT ![n] = [m \in Node |-> 0]]
      /\ downstream' = [downstream EXCEPT ![n] = {}]
      /\ discovery' = [discovery EXCEPT ![n] = Closed]
      /\ raw' = [raw EXCEPT ![n] = <<>>]
      /\ app' = [app EXCEPT ![n] = <<>>]
      /\ task' = [task EXCEPT ![n] = "idle"]
      /\ sweep' = [sweep EXCEPT ![n] = 0]
      /\ discoveryFailures' = [discoveryFailures EXCEPT ![n] = 0]
      /\ reportFailures' = [reportFailures EXCEPT ![n] = 0]
      /\ restarted' # {}
    BY NodesAssumption DEF Forgotten, StartChannel, StartHop
<1>2. n \in Node /\ n # Central
    BY NodeFacts
<1>3. Closed \in [open : BOOLEAN, id : Ids \cup {0}, best : [node : Node \cup {NONE}, hop : Hops]]
      /\ Closed.best = NoCandidate
    BY DEF Closed, NoCandidate, Hops
<1>4. RouteType'
    <2>1. radio' \in [Node -> Channels] /\ downstream' \in [Node -> SUBSET Smart]
        BY <1>1, ChannelsAssumption DEF Inv, Shape, RouteType
    <2>2. upstream' \in [Node -> Node \cup {NONE}] /\ hop' \in [Node -> Hops]
        BY <1>1 DEF Inv, Shape, RouteType, Hops
    <2>3. peerChannel' \in [Smart -> [Node -> Channels \cup {0}]]
        BY <1>1 DEF Inv, Shape, RouteType
    <2>4. registry' \in [Smart -> Node \cup {NONE}]
        BY DEF Inv, Shape, RouteType
    <2> QED
        BY <2>1, <2>2, <2>3, <2>4 DEF RouteType
<1>5. TaskType'
    <2>1. discovery' \in [Smart -> [open : BOOLEAN, id : Ids \cup {0},
                                    best : [node : Node \cup {NONE}, hop : Hops]]]
        BY <1>1, <1>3 DEF Inv, Shape, TaskType
    <2>2. /\ discoveryFailures' \in [Smart -> 0..DiscoveryFailuresBeforeSweep - 1]
          /\ reportFailures' \in [Smart -> 0..ReportFailuresBeforeRestart - 1]
        BY <1>1, LimitFacts DEF Inv, Shape, TaskType
    <2> QED
        BY <1>1, <2>1, <2>2 DEF Inv, Shape, TaskType
<1>6. /\ QueuesOf(raw', RadioPacket) /\ QueuesOf(app', AppPacket)
      /\ \A m \in Node : \A p \in Contents(raw'[m]) : p \in Contents(raw[m])
    <2>1. QueuesOf(raw, RadioPacket) /\ QueuesOf(app, AppPacket)
        BY DEF Inv, Shape, Queues
    <2>2. /\ QueuesOf([raw EXCEPT ![n] = <<>>], RadioPacket)
          /\ \A m \in Node : \A p \in Contents([raw EXCEPT ![n] = <<>>][m]) : p \in Contents(raw[m])
        BY <1>2, <2>1, EmptyOne
    <2>3. QueuesOf([app EXCEPT ![n] = <<>>], AppPacket)
        BY <1>2, <2>1, EmptyOne
    <2> QED
        BY <1>1, <2>2, <2>3
<1>7. Queues'
    BY <1>6 DEF Queues, QueuesOf
<1>8. RouteOfUpstream'
    BY <1>1, <1>2, NodeFacts DEF Inv, Shape, RouteType, RouteOfUpstream
<1>9. TaskOfUpstream'
    <2> SUFFICES ASSUME NEW m \in Smart
                 PROVE  /\ task'[m] \in {"window", "sweep"} => upstream'[m] = NONE
                        /\ task'[m] = "sweep" => sweep'[m] # 0
                        /\ task'[m] = "joined" => upstream'[m] # NONE
                        /\ upstream'[m] # NONE /\ task'[m] # "joined" =>
                              peerChannel'[m][upstream'[m]] = radio'[m]
        BY DEF TaskOfUpstream
    <2>1. CASE m = n
        BY <1>1, <1>2, <2>1 DEF Inv, Shape, TaskType, RouteType
    <2>2. CASE m # n
        <3>1. /\ upstream'[m] = upstream[m] /\ task'[m] = task[m] /\ sweep'[m] = sweep[m]
              /\ radio'[m] = radio[m] /\ peerChannel'[m] = peerChannel[m]
            BY <1>1, <2>2, NodeFacts DEF Inv, Shape, TaskType, RouteType
        <3> QED
            BY <3>1 DEF Inv, Shape, TaskOfUpstream
    <2> QED
        BY <2>1, <2>2
<1>10. CandidatesAreShallow'
    <2>1. \A m \in Smart : discovery'[m].best = IF m = n THEN NoCandidate ELSE discovery[m].best
        BY <1>1, <1>3 DEF Inv, Shape, TaskType
    <2> QED
        BY <1>6, <2>1 DEF Inv, Shape, CandidatesAreShallow
<1> QED
    BY <1>1, <1>4, <1>5, <1>7, <1>8, <1>9, <1>10 DEF Inv, Shape

\* ReportFailed(): one failure more, another search, or a restart.
LEMMA ReportFailedStep ==
    ASSUME Inv, NEW n \in Smart, ReportFailed(n)
    PROVE  Inv'
<1>1. UNCHANGED <<links, faultsLeft, registry>>
    BY DEF ReportFailed
<1>2. CASE /\ reportFailures[n] + 1 < ReportFailuresBeforeRestart
           /\ reportFailures' = [reportFailures EXCEPT ![n] = @ + 1]
           /\ UNCHANGED <<routeVars, radio, downstream, discovery, raw, app, task, sweep,
                          discoveryFailures, restarted, restartsLeft>>
    <2>1. reportFailures' \in [Smart -> 0..ReportFailuresBeforeRestart - 1]
        BY <1>2, LimitFacts DEF Inv, Shape, TaskType
    <2> QED
        BY <1>1, <1>2, <2>1, AppStep DEF Inv, Shape, Queues, RouteType, routeVars, envVars
<1>3. CASE /\ restartsLeft # 0
           /\ restartsLeft' = IF restartsLeft > 0 THEN restartsLeft - 1 ELSE restartsLeft
           /\ Forgotten(n)
    <2>1. PICK s \in Scenarios : /\ links = s.links
                                 /\ restartsLeft \in -1..s.restarts /\ faultsLeft \in 0..s.faults
        BY DEF Inv, Shape, EnvType
    <2>2. s.restarts \in Nat \cup {-1}
        BY ScenariosAssumption
    <2>3. restartsLeft' \in -1..s.restarts
        BY <1>3, <2>1, <2>2
    <2>4. restarted' \subseteq Node
        BY <1>3, NodeFacts DEF Forgotten, Inv, Shape, EnvType
    <2>5. EnvType'
        BY <1>1, <2>1, <2>3, <2>4 DEF EnvType
    <2> QED
        BY <1>1, <1>3, <2>5, ForgottenStep
<1> QED
    BY <1>2, <1>3 DEF ReportFailed

\* A fault is one less of those that the scenario allows.
LEMMA FaultFacts ==
    ASSUME Inv, NEW n \in Node, UNCHANGED <<links, restartsLeft>>, faultsLeft > 0,
           faultsLeft' = faultsLeft - 1, restarted' = restarted \cup {n}
    PROVE  EnvType'
<1>1. PICK s \in Scenarios : /\ links = s.links
                             /\ restartsLeft \in -1..s.restarts /\ faultsLeft \in 0..s.faults
    BY DEF Inv, Shape, EnvType
<1>2. s.faults \in Nat
    BY ScenariosAssumption
<1>3. faultsLeft' \in 0..s.faults
    BY <1>1, <1>2
<1>4. restarted' \subseteq Node
    BY DEF Inv, Shape, EnvType
<1> QED
    BY <1>1, <1>3, <1>4 DEF EnvType

\* A Smart Node that lost its power has forgotten its routes.
LEMMA PowerCycleStep ==
    ASSUME Inv, NEW n \in Smart, PowerCycle(n)
    PROVE  Inv'
<1>1. /\ UNCHANGED <<links, restartsLeft, registry>> /\ faultsLeft > 0
      /\ faultsLeft' = faultsLeft - 1 /\ Forgotten(n) /\ n \in Node
    BY NodeFacts DEF PowerCycle
<1>2. restarted' = restarted \cup {n}
    BY <1>1 DEF Forgotten
<1>3. EnvType'
    BY <1>1, <1>2, FaultFacts
<1> QED
    BY <1>1, <1>3, ForgottenStep

\* A Central that restarts forgets its registry, maybe on another channel.
LEMMA RestartCentralStep ==
    ASSUME Inv, NEW c \in Channels, RestartCentral(c)
    PROVE  Inv'
<1>1. /\ UNCHANGED <<links, restartsLeft>> /\ faultsLeft > 0
      /\ faultsLeft' = faultsLeft - 1 /\ restarted' = restarted \cup {Central}
      /\ radio' = [radio EXCEPT ![Central] = c]
      /\ downstream' = [downstream EXCEPT ![Central] = {}]
      /\ raw' = [raw EXCEPT ![Central] = <<>>]
      /\ app' = [app EXCEPT ![Central] = <<>>]
      /\ registry' = [n \in Smart |-> NONE]
      /\ UNCHANGED <<routeVars, failureVars, discovery, task>>
    BY DEF RestartCentral, StartChannel
<1>2. Central \in Node /\ Central \notin Smart
    BY NodeFacts
<1>3. EnvType'
    BY <1>1, <1>2, FaultFacts
<1>4. RouteType' /\ TaskType' /\ RouteOfUpstream'
    BY <1>1 DEF Inv, Shape, RouteType, TaskType, RouteOfUpstream, routeVars, failureVars
<1>5. /\ QueuesOf(raw', RadioPacket) /\ QueuesOf(app', AppPacket)
      /\ \A m \in Node : \A p \in Contents(raw'[m]) : p \in Contents(raw[m])
    <2>1. QueuesOf(raw, RadioPacket) /\ QueuesOf(app, AppPacket)
        BY DEF Inv, Shape, Queues
    <2>2. /\ QueuesOf([raw EXCEPT ![Central] = <<>>], RadioPacket)
          /\ \A m \in Node : \A p \in Contents([raw EXCEPT ![Central] = <<>>][m]) : p \in Contents(raw[m])
        BY <1>2, <2>1, EmptyOne
    <2>3. QueuesOf([app EXCEPT ![Central] = <<>>], AppPacket)
        BY <1>2, <2>1, EmptyOne
    <2> QED
        BY <1>1, <2>2, <2>3
<1>6. Queues'
    BY <1>5 DEF Queues, QueuesOf
<1>7. TaskOfUpstream'
    <2>1. \A m \in Smart : radio'[m] = radio[m]
        BY <1>1, <1>2, NodeFacts DEF Inv, Shape, RouteType
    <2> QED
        BY <1>1, <2>1 DEF Inv, Shape, TaskOfUpstream, routeVars, failureVars
<1>8. CandidatesAreShallow'
    BY <1>1, <1>5 DEF Inv, Shape, CandidatesAreShallow
<1>9. restarted' # {}
    BY <1>1
<1> QED
    BY <1>3, <1>4, <1>6, <1>7, <1>8, <1>9 DEF Inv, Shape

-----------------------------------------------------------------------------
(***************************************************************************)
(* The tree that is shown, and the Nodes that a command can be sent to.    *)
(***************************************************************************)
Known == {n \in Smart : registry[n] # NONE}

\* The ways from a Smart Node up to the Central, over k others.
Ways(d, k) ==
    {f \in [0..k -> Smart] : /\ f[0] = d
                             /\ \A i \in 1..k : f[i] = registry[f[i - 1]]
                             /\ registry[f[k]] = Central}

\* The values of start, step[start], step[step[start]], ...
Iteration(S, step, start, N) ==
    {f \in [0..N -> S] : f[0] = start /\ \A k \in 1..N : f[k] = step[f[k - 1]]}

\* A function can be applied any number of times, with every value on the way kept.
LEMMA Iterates ==
    ASSUME NEW S, NEW step \in [S -> S], NEW start \in S, NEW N \in Nat
    PROVE  Iteration(S, step, start, N) # {}
<1> DEFINE Iterated(f, n) == f[0] = start /\ \A k \in 1..n : f[k] = step[f[k - 1]]
           Good == {n \in Nat : \E f \in [0..n -> S] : Iterated(f, n)}
<1>1. 0 \in Good
    <2> DEFINE f == [k \in 0..0 |-> start]
    <2>1. f \in [0..0 -> S] /\ Iterated(f, 0)
        OBVIOUS
    <2> QED
        BY <2>1
<1>2. ASSUME NEW n \in Nat, n \in Good
      PROVE  n + 1 \in Good
    <2>1. PICK g \in [0..n -> S] : Iterated(g, n)
        BY <1>2
    <2> DEFINE f == [k \in 0..n + 1 |-> IF k = n + 1 THEN step[g[n]] ELSE g[k]]
    <2>2. f \in [0..n + 1 -> S]
        OBVIOUS
    <2>3. Iterated(f, n + 1)
        BY <2>1
    <2> HIDE DEF f, Iterated
    <2>4. n + 1 \in Nat
        OBVIOUS
    <2> QED
        BY <2>2, <2>3, <2>4
<1> HIDE DEF Good
<1>3. N \in Good
    BY <1>1, <1>2, AllNaturals
<1> QED
    BY <1>3 DEF Good, Iteration

\* A way never comes to a Node twice: after the second time it would go on as
\* after the first, and not end.  So it is shorter than there are Nodes.
LEMMA WayIsShort ==
    ASSUME RouteType, NEW d, NEW k \in Nat, NEW f \in Ways(d, k)
    PROVE  /\ Cardinality(Known) \in Nat /\ Cardinality(Smart) \in Nat
           /\ k < Cardinality(Known) /\ Cardinality(Known) <= Cardinality(Smart)
<1>1. /\ f \in [0..k -> Smart] /\ f[0] = d
      /\ \A i \in 1..k : f[i] = registry[f[i - 1]]
      /\ registry[f[k]] = Central
    BY DEF Ways
<1>2. ASSUME NEW i \in 0..k, NEW j \in 0..k, i < j, f[i] = f[j]
      PROVE  FALSE
    <2> DEFINE Same == {m \in Nat : j + m <= k => f[i + m] = f[j + m]}
    <2>1. 0 \in Same
        BY <1>2
    <2>2. ASSUME NEW m \in Nat, m \in Same
          PROVE  m + 1 \in Same
        <3>1. ASSUME j + (m + 1) <= k
              PROVE  f[i + (m + 1)] = f[j + (m + 1)]
            <4>1. /\ i + (m + 1) \in 1..k /\ j + (m + 1) \in 1..k
                  /\ (i + (m + 1)) - 1 = i + m /\ (j + (m + 1)) - 1 = j + m
                  /\ j + m <= k
                BY <1>2, <3>1
            <4>2. f[i + m] = f[j + m]
                BY <2>2, <4>1
            <4> QED
                BY <1>1, <4>1, <4>2
        <3> QED
            BY <3>1
    <2> HIDE DEF Same
    <2>3. k - j \in Same
        <3>1. k - j \in Nat
            OBVIOUS
        <3> QED
            BY <2>1, <2>2, <3>1, AllNaturals
    <2>4. f[i + (k - j)] = f[k]
        BY <2>3 DEF Same
    <2>5. i + (k - j) + 1 \in 1..k /\ (i + (k - j) + 1) - 1 = i + (k - j)
        BY <1>2
    <2>6. f[i + (k - j) + 1] = Central /\ f[i + (k - j) + 1] \in Smart
        BY <1>1, <2>4, <2>5
    <2> QED
        BY <2>6, NodeFacts
<1>3. \A i \in 0..k : f[i] \in Known
    <2>1. ASSUME NEW i \in 0..k
          PROVE  registry[f[i]] # NONE
        <3>1. CASE i = k
            BY <1>1, <3>1, NodeFacts
        <3>2. CASE i # k
            <4>1. i + 1 \in 1..k /\ (i + 1) - 1 = i
                BY <3>2
            <4>2. f[i + 1] = registry[f[i]] /\ f[i + 1] \in Smart
                BY <1>1, <4>1
            <4> QED
                BY <4>2, NodeFacts
        <3> QED
            BY <3>1, <3>2
    <2> QED
        BY <1>1, <2>1 DEF Known
<1>4. f \in Injection(0..k, Known)
    <2>1. f \in [0..k -> Known]
        BY <1>1, <1>3
    <2>2. \A i, j \in 0..k : f[i] = f[j] => i = j
        <3>1. ASSUME NEW i \in 0..k, NEW j \in 0..k, f[i] = f[j], i # j
              PROVE  FALSE
            <4>1. i < j \/ j < i
                BY <3>1
            <4> QED
                BY <1>2, <3>1, <4>1
        <3> QED
            BY <3>1
    <2> QED
        BY <2>1, <2>2 DEF Injection, IsInjective
<1>5. /\ IsFiniteSet(Known) /\ Cardinality(Known) <= Cardinality(Smart)
      /\ Cardinality(Known) \in Nat /\ Cardinality(Smart) \in Nat
    <2>1. Known \in SUBSET Smart /\ IsFiniteSet(Smart)
        BY NodesAssumption DEF Known
    <2>2. IsFiniteSet(Known) /\ Cardinality(Known) <= Cardinality(Smart)
        BY <2>1, FS_Subset
    <2> QED
        BY <2>1, <2>2, FS_CardinalityType
<1>6. Cardinality(0..k) <= Cardinality(Known)
    BY <1>4, <1>5, FS_Injection
<1>7. Cardinality(0..k) = k + 1
    <2>1. 0 \in Int /\ k \in Int /\ ~ (0 > k)
        OBVIOUS
    <2> QED
        BY <2>1, FS_Interval
<1> QED
    BY <1>5, <1>6, <1>7

\* findNextHopFromCentral walks the only way there can be.
LEMMA SeekFinds ==
    ASSUME RouteType, NEW d \in Smart
    PROVE  NextHopFromCentral(d) # NONE <=> \E k \in 0..Cardinality(Smart) : Ways(d, k) # {}
<1> DEFINE N == Cardinality(Smart)
           up[k \in 0..N] ==
               IF k = 0 THEN d
               ELSE IF up[k - 1] \in Smart THEN registry[up[k - 1]] ELSE NONE
           first == {up[k] : k \in {j \in 0..N : up[j] \in Smart /\ registry[up[j]] = Central}}
           Walk(f) == [k \in 0..N |->
               IF k = 0 THEN d
               ELSE IF f[k - 1] \in Smart THEN registry[f[k - 1]] ELSE NONE]
<1>1. NextHopFromCentral(d) = IF first = {} THEN NONE ELSE CHOOSE m \in first : TRUE
    BY Zenon DEF NextHopFromCentral
<1>2. N \in Nat
    BY NodesAssumption, FS_CardinalityType
<1>3. \E f : f = Walk(f)
    <2> DEFINE S == Node \cup {NONE}
               step == [x \in S |-> IF x \in Smart THEN registry[x] ELSE NONE]
    <2>1. step \in [S -> S] /\ d \in S
        BY NodeFacts DEF RouteType
    <2> HIDE DEF S, N, step
    <2>2. PICK f : f \in Iteration(S, step, d, N)
        BY <1>2, <2>1, Iterates
    <2>3. /\ f \in [0..N -> S] /\ f[0] = d
          /\ \A k \in 1..N : f[k] = step[f[k - 1]]
        BY <2>2 DEF Iteration
    <2>4. \A k \in 1..N : f[k] = IF f[k - 1] \in Smart THEN registry[f[k - 1]] ELSE NONE
        <3>1. \A k \in 1..N : f[k - 1] \in S
            BY <1>2, <2>3
        <3> QED
            BY <2>3, <3>1 DEF step
    <2>5. f = Walk(f)
        <3>1. \A k \in 0..N : f[k] = Walk(f)[k]
            BY <1>2, <2>3, <2>4
        <3> QED
            BY <2>3, <3>1
    <2> QED
        BY <2>5
<1>4. up = Walk(up)
    <2>1. up = CHOOSE f : f = Walk(f)
        BY Zenon
    <2> HIDE DEF up, Walk
    <2> QED
        BY <1>3, <2>1
<1> HIDE DEF up, N
<1>5. /\ up[0] = d
      /\ \A k \in 1..N : up[k] = IF up[k - 1] \in Smart THEN registry[up[k - 1]] ELSE NONE
    BY <1>2, <1>4
<1> HIDE DEF Walk
<1>6. ASSUME NEW k \in 0..N, up[k] \in Smart, registry[up[k]] = Central
      PROVE  Ways(d, k) # {}
    <2> DEFINE Good == {m \in Nat : m <= k => up[k - m] \in Smart}
    <2>1. 0 \in Good
        BY <1>6
    <2>2. ASSUME NEW m \in Nat, m \in Good
          PROVE  m + 1 \in Good
        <3>1. ASSUME m + 1 <= k, up[k - (m + 1)] \notin Smart
              PROVE  FALSE
            <4>1. k - m \in 1..N /\ (k - m) - 1 = k - (m + 1) /\ m <= k
                BY <1>2, <3>1
            <4>2. up[k - m] = NONE
                BY <1>5, <3>1, <4>1
            <4>3. up[k - m] \in Smart
                BY <2>2, <4>1
            <4> QED
                BY <4>2, <4>3, NodeFacts
        <3> QED
            BY <3>1
    <2> HIDE DEF Good
    <2>3. Nat \subseteq Good
        BY <2>1, <2>2, AllNaturals
    <2>4. \A i \in 0..k : up[i] \in Smart
        <3>1. ASSUME NEW i \in 0..k
              PROVE  up[i] \in Smart
            <4>1. k - i \in Nat /\ k - i <= k /\ k - (k - i) = i
                BY <1>2
            <4> QED
                BY <2>3, <4>1 DEF Good
        <3> QED
            BY <3>1
    <2> DEFINE f == [i \in 0..k |-> up[i]]
    <2>5. f \in [0..k -> Smart] /\ f[0] = d /\ registry[f[k]] = Central
        BY <1>2, <1>5, <1>6, <2>4
    <2>6. \A i \in 1..k : f[i] = registry[f[i - 1]]
        BY <1>2, <1>5, <2>4
    <2> HIDE DEF f
    <2>7. f \in Ways(d, k)
        BY <2>5, <2>6 DEF Ways
    <2> QED
        BY <2>7
<1>7. ASSUME NEW k \in 0..N, NEW f \in Ways(d, k)
      PROVE  up[k] \in Smart /\ registry[up[k]] = Central
    <2>1. /\ f \in [0..k -> Smart] /\ f[0] = d
          /\ \A i \in 1..k : f[i] = registry[f[i - 1]]
          /\ registry[f[k]] = Central
        BY <1>7 DEF Ways
    <2> DEFINE Good == {m \in Nat : m <= k => up[m] = f[m]}
    <2>2. 0 \in Good
        BY <1>5, <2>1
    <2>3. ASSUME NEW m \in Nat, m \in Good
          PROVE  m + 1 \in Good
        <3>1. ASSUME m + 1 <= k
              PROVE  up[m + 1] = f[m + 1]
            <4>1. m + 1 \in 1..k /\ m + 1 \in 1..N /\ (m + 1) - 1 = m /\ m \in 0..k
                BY <1>2, <3>1
            <4>2. up[m] = f[m] /\ f[m] \in Smart
                BY <2>1, <2>3, <4>1
            <4> QED
                BY <1>5, <2>1, <4>1, <4>2
        <3> QED
            BY <3>1
    <2> HIDE DEF Good
    <2>4. k \in Nat /\ k \in Good
        BY <1>2, <2>2, <2>3, AllNaturals
    <2>5. up[k] = f[k]
        BY <2>4 DEF Good
    <2> QED
        BY <2>1, <2>4, <2>5
<1>8. first # {} <=> \E k \in 0..N : Ways(d, k) # {}
    BY <1>6, <1>7
<1>9. \A m \in first : m # NONE
    BY NodeFacts
<1> HIDE DEF first
<1> QED
    BY <1>1, <1>8, <1>9 DEF N

\* buildTreeJson comes down every way there is.
LEMMA TreeFinds ==
    ASSUME RouteType, NEW d
    PROVE  d \in ShownInTree <=> \E k \in 0..1 + Cardinality(Known) : Ways(d, k) # {}
<1> DEFINE M == 1 + Cardinality(Known)
           level[k \in 0..M] ==
               IF k = 0 THEN Children(Central) ELSE UNION {Children(n) : n \in level[k - 1]}
           Below(f) == [k \in 0..M |->
               IF k = 0 THEN Children(Central) ELSE UNION {Children(n) : n \in f[k - 1]}]
<1>1. ShownInTree = UNION {level[k] : k \in 0..M}
    BY Zenon DEF ShownInTree, Known
<1>2. M \in Nat
    <2>1. Known \in SUBSET Smart /\ IsFiniteSet(Smart)
        BY NodesAssumption DEF Known
    <2>2. Cardinality(Known) \in Nat
        BY <2>1, FS_Subset, FS_CardinalityType
    <2> QED
        BY <2>2
<1>3. \E f : f = Below(f)
    <2> DEFINE S == SUBSET Smart
               step == [L \in S |-> UNION {Children(n) : n \in L}]
    <2>1. step \in [S -> S] /\ Children(Central) \in S
        BY DEF Children
    <2> HIDE DEF S, M, step
    <2>2. PICK f : f \in Iteration(S, step, Children(Central), M)
        BY <1>2, <2>1, Iterates
    <2>3. /\ f \in [0..M -> S] /\ f[0] = Children(Central)
          /\ \A k \in 1..M : f[k] = step[f[k - 1]]
        BY <2>2 DEF Iteration
    <2>4. \A k \in 1..M : f[k] = UNION {Children(n) : n \in f[k - 1]}
        <3>1. \A k \in 1..M : f[k - 1] \in S
            BY <1>2, <2>3
        <3> QED
            BY <2>3, <3>1 DEF step
    <2>5. f = Below(f)
        <3>1. \A k \in 0..M : f[k] = Below(f)[k]
            BY <1>2, <2>3, <2>4
        <3> QED
            BY <2>3, <3>1
    <2> QED
        BY <2>5
<1>4. level = Below(level)
    <2>1. level = CHOOSE f : f = Below(f)
        BY Zenon
    <2> HIDE DEF level, Below
    <2> QED
        BY <1>3, <2>1
<1> HIDE DEF level, M
<1>5. /\ level[0] = Children(Central)
      /\ \A k \in 1..M : level[k] = UNION {Children(n) : n \in level[k - 1]}
    <2> DEFINE At(k) == IF k = 0 THEN Children(Central)
                        ELSE UNION {Children(n) : n \in level[k - 1]}
    <2>1. Below(level) = [k \in 0..M |-> At(k)]
        BY Zenon
    <2>2. At(0) = Children(Central)
        OBVIOUS
    <2>3. \A k \in 1..M : At(k) = UNION {Children(n) : n \in level[k - 1]}
        BY <1>2
    <2>4. 0 \in 0..M /\ \A k \in 1..M : k \in 0..M
        BY <1>2
    <2> HIDE DEF At, Below
    <2>5. \A k \in 0..M : level[k] = At(k)
        BY <1>4, <2>1, Zenon
    <2> QED
        BY <2>2, <2>3, <2>4, <2>5, Zenon
<1> HIDE DEF Below
<1>6. ASSUME NEW k \in 0..M, NEW c \in level[k]
      PROVE  Ways(c, k) # {}
    <2> DEFINE Good == {m \in Nat : m <= M => \A n \in level[m] : Ways(n, m) # {}}
    <2>1. 0 \in Good
        <3>1. ASSUME NEW n \in level[0]
              PROVE  Ways(n, 0) # {}
            <4>1. n \in Smart /\ registry[n] = Central
                BY <1>5, <3>1 DEF Children
            <4> DEFINE f == [i \in 0..0 |-> n]
            <4>2. f \in Ways(n, 0)
                BY <4>1 DEF Ways
            <4> QED
                BY <4>2
        <3> QED
            BY <3>1
    <2>2. ASSUME NEW m \in Nat, m \in Good
          PROVE  m + 1 \in Good
        <3>1. ASSUME m + 1 <= M, NEW n \in level[m + 1]
              PROVE  Ways(n, m + 1) # {}
            <4>1. m + 1 \in 1..M /\ (m + 1) - 1 = m /\ m <= M
                BY <1>2, <3>1
            <4>2. PICK above \in level[m] : n \in Children(above)
                BY <1>5, <3>1, <4>1
            <4>3. n \in Smart /\ registry[n] = above
                BY <4>2 DEF Children
            <4>4. PICK g : g \in Ways(above, m)
                BY <2>2, <4>1, <4>2
            <4>5. /\ g \in [0..m -> Smart] /\ g[0] = above
                  /\ \A i \in 1..m : g[i] = registry[g[i - 1]]
                  /\ registry[g[m]] = Central
                BY <4>4 DEF Ways
            <4> DEFINE f == [i \in 0..m + 1 |-> IF i = 0 THEN n ELSE g[i - 1]]
            <4>6. f \in [0..m + 1 -> Smart] /\ f[0] = n /\ registry[f[m + 1]] = Central
                BY <4>3, <4>5
            <4>7. \A i \in 1..m + 1 : f[i] = registry[f[i - 1]]
                <5>1. ASSUME NEW i \in 1..m + 1
                      PROVE  f[i] = registry[f[i - 1]]
                    <6>1. CASE i = 1
                        BY <4>3, <4>5, <6>1
                    <6>2. CASE i # 1
                        <7>1. i - 1 \in 1..m /\ i - 1 # 0 /\ i # 0 /\ i - 1 \in 0..m + 1
                            BY <6>2
                        <7>2. g[i - 1] = registry[g[(i - 1) - 1]]
                            BY <4>5, <7>1
                        <7> QED
                            BY <7>1, <7>2
                    <6> QED
                        BY <6>1, <6>2
                <5> QED
                    BY <5>1
            <4> HIDE DEF f
            <4>8. f \in Ways(n, m + 1)
                BY <4>6, <4>7 DEF Ways
            <4> QED
                BY <4>8
        <3> QED
            BY <3>1
    <2> HIDE DEF Good
    <2>3. k \in Nat /\ k <= M /\ k \in Good
        BY <1>2, <2>1, <2>2, AllNaturals
    <2> QED
        BY <1>6, <2>3 DEF Good
<1>7. ASSUME NEW k \in 0..M, NEW f \in Ways(d, k)
      PROVE  d \in level[k]
    <2>1. /\ f \in [0..k -> Smart] /\ f[0] = d
          /\ \A i \in 1..k : f[i] = registry[f[i - 1]]
          /\ registry[f[k]] = Central
        BY <1>7 DEF Ways
    <2> DEFINE Good == {m \in Nat : m <= k => f[k - m] \in level[m]}
    <2>2. 0 \in Good
        BY <1>2, <1>5, <2>1 DEF Children
    <2>3. ASSUME NEW m \in Nat, m \in Good
          PROVE  m + 1 \in Good
        <3>1. ASSUME m + 1 <= k
              PROVE  f[k - (m + 1)] \in level[m + 1]
            <4>1. /\ m + 1 \in 1..M /\ (m + 1) - 1 = m
                  /\ k - m \in 1..k /\ (k - m) - 1 = k - (m + 1) /\ k - (m + 1) \in 0..k /\ m <= k
                BY <1>2, <3>1
            <4>2. f[k - m] \in level[m]
                BY <2>3, <4>1
            <4>3. f[k - (m + 1)] \in Children(f[k - m])
                BY <2>1, <4>1 DEF Children
            <4> QED
                BY <1>5, <4>1, <4>2, <4>3
        <3> QED
            BY <3>1
    <2> HIDE DEF Good
    <2>4. k \in Nat /\ k \in Good
        BY <1>2, <2>2, <2>3, AllNaturals
    <2>5. f[k - k] \in level[k] /\ k - k = 0
        BY <2>4 DEF Good
    <2> QED
        BY <2>1, <2>5
<1>8. d \in ShownInTree <=> \E k \in 0..M : d \in level[k]
    BY <1>1
<1> QED
    BY <1>6, <1>7, <1>8 DEF M

\* The tree shows a Node exactly when a next hop leads to it.
LEMMA ShownIsReachable == RouteType => TreeShowsRoutes
<1> SUFFICES ASSUME RouteType, NEW d
             PROVE  d \in ShownInTree <=> d \in Smart /\ NextHopFromCentral(d) # NONE
    BY DEF TreeShowsRoutes
<1>1. ASSUME NEW k \in Nat, Ways(d, k) # {}
      PROVE  /\ d \in Smart
             /\ k \in 0..Cardinality(Smart) /\ k \in 0..1 + Cardinality(Known)
    <2>1. PICK f : f \in Ways(d, k)
        BY <1>1
    <2>2. d \in Smart
        BY <2>1 DEF Ways
    <2>3. /\ Cardinality(Known) \in Nat /\ Cardinality(Smart) \in Nat
          /\ k < Cardinality(Known) /\ Cardinality(Known) <= Cardinality(Smart)
        BY <2>1, WayIsShort
    <2> QED
        BY <2>2, <2>3
<1>2. d \in ShownInTree <=> \E k \in Nat : Ways(d, k) # {}
    BY <1>1, TreeFinds
<1>3. d \in Smart => (NextHopFromCentral(d) # NONE <=> \E k \in Nat : Ways(d, k) # {})
    BY <1>1, SeekFinds
<1> QED
    BY <1>1, <1>2, <1>3

-----------------------------------------------------------------------------
(***************************************************************************)
(* The theorems.                                                           *)
(***************************************************************************)
LEMMA InitInv == Init => Inv
<1> SUFFICES ASSUME Init PROVE Inv
    OBVIOUS
<1>1. EnvType
    <2>1. PICK s \in Scenarios : links = s.links /\ restartsLeft = s.restarts /\ faultsLeft = s.faults
        BY DEF Init
    <2>2. s.restarts \in Nat \cup {-1} /\ s.faults \in Nat
        BY ScenariosAssumption
    <2>3. restartsLeft \in -1..s.restarts /\ faultsLeft \in 0..s.faults
        BY <2>1, <2>2
    <2> QED
        BY <2>1, <2>3 DEF EnvType, Init
<1>2. RouteType
    <2>1. radio \in [Node -> Channels]
        BY ChannelsAssumption DEF Init, StartChannel
    <2>2. hop \in [Node -> Hops]
        BY LimitFacts DEF Init, StartHop, Hops
    <2> QED
        BY <2>1, <2>2 DEF Init, RouteType
<1>3. Closed \in [open : BOOLEAN, id : Ids \cup {0}, best : [node : Node \cup {NONE}, hop : Hops]]
      /\ Closed.best = NoCandidate
    BY DEF Closed, NoCandidate, Hops
<1>4. TaskType
    BY <1>3, LimitFacts DEF Init, TaskType
<1>5. /\ \A n \in Node : raw[n] = <<>> /\ app[n] = <<>>
      /\ Contents(<<>>) = {} /\ Len(<<>>) = 0
      /\ \A S : <<>> \in Seq(S)
    BY DEF Init, Contents
<1>6. Queues
    BY <1>5, LimitFacts DEF Init, Queues, QueuesOf
<1>7. RouteOfUpstream /\ TaskOfUpstream
    BY NodeFacts DEF Init, RouteOfUpstream, TaskOfUpstream, StartHop
<1>8. CandidatesAreShallow /\ CandidatesTrue
    BY <1>3, <1>5 DEF Init, CandidatesAreShallow, CandidatesTrue
<1>9. NodesTrue /\ PacketsTrue /\ RegistryTrue
    BY <1>5 DEF Init, NodesTrue, PacketsTrue, RegistryTrue
<1> QED
    BY <1>1, <1>2, <1>4, <1>6, <1>7, <1>8, <1>9 DEF Inv, Shape, Truth

\* Every step keeps the invariant.
LEMMA NextInv == Inv /\ [Next]_vars => Inv'
<1> SUFFICES ASSUME Inv, [Next]_vars PROVE Inv'
    OBVIOUS
<1>1. ASSUME NEW n \in Node, Service(n) PROVE Inv'
    BY <1>1, AnswerStep, ResponseStep, HandshakeStep DEF Service
<1>2. ASSUME NEW n \in Smart, NEW hearers \in SUBSET Node,
             StartDiscovery(n, hearers) \/ SweepChannel(n, hearers)
      PROVE  Inv'
    BY <1>2, DiscoverStep
<1>3. ASSUME NEW n \in Smart, WindowFailed(n) \/ SelectUpstream(n) \/ JoinUpstream(n) PROVE Inv'
    BY <1>3, FailureStep, SelectStep, JoinStep
<1>4. ASSUME NEW n \in Smart, SmartReceive(n) \/ ReportDelivered(n) \/ ReportFailed(n) PROVE Inv'
    BY <1>4, SmartReceiveStep, ReportStep, ReportFailedStep
<1>5. CASE CentralReceive
    BY <1>5, CentralReceiveStep
<1>6. ASSUME NEW d \in Smart, SendCommand(d) PROVE Inv'
    BY <1>6, CommandStep
<1>7. ASSUME NEW n \in Smart, PowerCycle(n) PROVE Inv'
    BY <1>7, PowerCycleStep
<1>8. ASSUME NEW c \in Channels, RestartCentral(c) PROVE Inv'
    BY <1>8, RestartCentralStep
<1>9. CASE UNCHANGED vars
    BY <1>9, RadioStep DEF vars, routeVars, failureVars, envVars, Inv, Shape, Queues
<1> QED
    BY <1>1, <1>2, <1>3, <1>4, <1>5, <1>6, <1>7, <1>8, <1>9 DEF Next

(* The invariant holds in every reachable state of the network, with any    *)
(* number of Nodes, channels, restarts and faults of EspNowCommunication.   *)
THEOREM Inductive == Spec => []Inv
BY InitInv, NextInv, PTL DEF Spec

(* Routes, peers, windows, queues (never over QueueLength) and failure      *)
(* counts have their types.                                                 *)
THEOREM TypeCorrect == Spec => []TypeOK
<1>1. Inv => TypeOK
    BY ShapeIsTyped DEF Inv
<1> QED
    BY <1>1, Inductive, PTL

(* As long as nobody has restarted, the Upstream Nodes that the discovery   *)
(* windows select form a tree of any depth, and every list of direct        *)
(* downstream Nodes agrees with it.                                         *)
THEOREM TreeIsTrue == Spec => []TreeUntilRestart
<1>1. Inv => TreeUntilRestart
    BY DEF Inv, Truth, NodesTrue, TreeUntilRestart
<1> QED
    BY <1>1, Inductive, PTL

(* A Node that has joined talks to its Upstream Node on its radio's channel *)
(* (syncUpstreamPeerChannel), whatever sweeps, restarts and faults there    *)
(* were.                                                                    *)
THEOREM PeerIsOnChannel == Spec => []UpstreamPeerOnChannel
<1>1. Inv => UpstreamPeerOnChannel
    BY DEF Inv, Shape, TaskOfUpstream, UpstreamPeerOnChannel
<1> QED
    BY <1>1, Inductive, PTL

(* As long as nobody has restarted, a command visits only its destination   *)
(* and the child of the Central above it.                                   *)
THEOREM CommandsAreOnPath == Spec => []CommandsStayOnPath
<1>1. Inv => CommandsStayOnPath
    BY DEF Inv, Truth, PacketsTrue, AppTrue, CommandsStayOnPath
<1> QED
    BY <1>1, Inductive, PTL

(* The tree shown to the user (buildTreeJson, from the Central downwards)   *)
(* has exactly the Smart Nodes to which findNextHopFromCentral, from the    *)
(* destination upwards, finds a way, whatever the registry holds, circles   *)
(* included, and neither bound on the number of levels cuts a way short.    *)
THEOREM TreeIsWhatCanBeReached == Spec => []TreeShowsRoutes
<1>1. Inv => TreeShowsRoutes
    BY ShownIsReachable DEF Inv, Shape
<1> QED
    BY <1>1, Inductive, PTL
=============================================================================
