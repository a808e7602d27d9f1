-------------------------- MODULE ConnectionProofs ---------------------------
(***************************************************************************)
(* Proofs about the Central's connection to the outside: first of its MQTT *)
(* client (MqttSession), for any commands and any number of breaks, power  *)
(* cuts, changes of the account and repetitions of the status; then of the *)
(* station, and of the manager that starts the client (Connectivity), for  *)
(* any networks, brokers, channels and failures.                           *)
(***************************************************************************)
EXTENDS MqttSession, Connectivity, FiniteSetTheorems, SequenceTheorems, WellFoundedInduction, TLAPS

-----------------------------------------------------------------------------
(***************************************************************************)
(* The records of the client, its task and the broker, field by field.     *)
(***************************************************************************)
Client(run, state, app, outbox, link, up, down, accepted) ==
    [run |-> run, state |-> state, app |-> app, outbox |-> outbox,
     link |-> link, up |-> up, down |-> down, accepted |-> accepted]

IsClient(c) ==
    c = Client(c.run, c.state, c.app, c.outbox, c.link, c.up, c.down, c.accepted)

IsTask(k) == k = [step |-> k.step, command |-> k.command, result |-> k.result]

IsBroker(b) ==
    b = [alive |-> b.alive, subscribed |-> b.subscribed, unacked |-> b.unacked,
         retained |-> b.retained, goodbye |-> b.goodbye]

\* What the functions on the client's record make of it.
LEMMA AbortedFacts ==
    ASSUME NEW c, IsClient(c)
    PROVE  Aborted(c) = Client(c.run, "WAIT_RECONNECT", "DISCONNECTED", c.outbox, "closed",
                               <<>>, <<>>, c.accepted)
<1> DEFINE closed == [c EXCEPT !.state = "WAIT_RECONNECT", !.link = "closed", !.up = <<>>, !.down = <<>>]
<1>1. closed = Client(c.run, "WAIT_RECONNECT", c.app, c.outbox, "closed", <<>>, <<>>, c.accepted)
    <2>1. closed = [Client(c.run, c.state, c.app, c.outbox, c.link, c.up, c.down, c.accepted)
                      EXCEPT !.state = "WAIT_RECONNECT", !.link = "closed", !.up = <<>>, !.down = <<>>]
        BY Zenon DEF IsClient
    <2> HIDE DEF closed
    <2> QED
        BY <2>1, Zenon DEF Client
<1>2. Aborted(c) = [closed EXCEPT !.app = "DISCONNECTED"]
    BY Zenon DEF Aborted, esp_mqtt_dispatch_event, handleMqttEvent
<1> HIDE DEF closed
<1> QED
    BY <1>1, <1>2, Zenon DEF Client

\* A record made of these fields has these fields.
LEMMA ClientFields ==
    ASSUME NEW run, NEW state, NEW app, NEW outbox, NEW link, NEW up, NEW down, NEW accepted
    PROVE  LET c == Client(run, state, app, outbox, link, up, down, accepted)
           IN  /\ IsClient(c)
               /\ c.run = run /\ c.state = state /\ c.app = app /\ c.outbox = outbox
               /\ c.link = link /\ c.up = up /\ c.down = down /\ c.accepted = accepted
    BY DEF Client, IsClient

\* MQTT_EVENT_CONNECTED changes state_ and nothing else.
LEMMA ConnectedApp ==
    ASSUME NEW c, IsClient(c)
    PROVE  esp_mqtt_dispatch_event(c, "MQTT_EVENT_CONNECTED")
             = Client(c.run, c.state, "CONNECTED", c.outbox, c.link, c.up, c.down, c.accepted)
<1>1. esp_mqtt_dispatch_event(c, "MQTT_EVENT_CONNECTED")
        = [Client(c.run, c.state, c.app, c.outbox, c.link, c.up, c.down, c.accepted)
             EXCEPT !.app = "CONNECTED"]
    BY Zenon DEF IsClient, esp_mqtt_dispatch_event, handleMqttEvent
<1> QED
    BY <1>1, Zenon DEF Client

\* A write adds to what is on its way when the link is up.
LEMMA WrittenFacts ==
    ASSUME NEW c, IsClient(c), NEW m
    PROVE  Written(c, m) = Client(c.run, c.state, c.app, c.outbox, c.link,
                                  IF c.link = "up" THEN Append(c.up, m) ELSE c.up,
                                  c.down, c.accepted)
<1>1. CASE c.link = "up"
    <2>1. Written(c, m) = [Client(c.run, c.state, c.app, c.outbox, c.link, c.up, c.down, c.accepted)
                             EXCEPT !.up = Append(c.up, m)]
        BY <1>1, Zenon DEF IsClient, Written
    <2> QED
        BY <1>1, <2>1, Zenon DEF Client
<1>2. CASE c.link # "up"
    BY <1>2, Zenon DEF IsClient, Written
<1> QED
    BY <1>1, <1>2

\* Another outbox, and nothing else changed.
LEMMA OutboxFacts ==
    ASSUME NEW c, IsClient(c), NEW o
    PROVE  [c EXCEPT !.outbox = o]
             = Client(c.run, c.state, c.app, o, c.link, c.up, c.down, c.accepted)
<1> DEFINE e == [c EXCEPT !.outbox = o]
<1>1. e = [Client(c.run, c.state, c.app, c.outbox, c.link, c.up, c.down, c.accepted) EXCEPT !.outbox = o]
    BY Zenon DEF IsClient
<1> HIDE DEF e
<1>2. e = Client(c.run, c.state, c.app, o, c.link, c.up, c.down, c.accepted)
    BY <1>1, Zenon DEF Client
<1> QED
    BY <1>2 DEF e

\* Something else on its way down, and nothing else changed.
LEMMA DownFacts ==
    ASSUME NEW c, IsClient(c), NEW d
    PROVE  LET e == [c EXCEPT !.down = d]
           IN  /\ e = Client(c.run, c.state, c.app, c.outbox, c.link, c.up, d, c.accepted)
               /\ IsClient(e) /\ e.down = d
<1> DEFINE e == [c EXCEPT !.down = d]
<1>1. e = [Client(c.run, c.state, c.app, c.outbox, c.link, c.up, c.down, c.accepted) EXCEPT !.down = d]
    BY Zenon DEF IsClient
<1> HIDE DEF e
<1>2. e = Client(c.run, c.state, c.app, c.outbox, c.link, c.up, d, c.accepted)
    BY <1>1, Zenon DEF Client
<1>3. IsClient(e) /\ e.down = d
    BY <1>2, ClientFields
<1> QED
    BY <1>2, <1>3 DEF e

\* The outbox and the connection after a publication.
LEMMA PublishedFacts ==
    ASSUME NEW c, IsClient(c), NEW m, NEW ok \in BOOLEAN
    PROVE  LET queued == Append(c.outbox, Item(m, "QUEUED"))
               p == Published(c, m, ok)
           IN  /\ IsClient(p) /\ p.down \in {c.down, <<>>}
               /\ c.state = "CONNECTED" /\ c.link = "up" /\ ok
                  => p = Client(c.run, c.state, c.app, Transmitted(queued, Len(queued)), c.link,
                                Append(c.up, m), c.down, c.accepted)
<1> DEFINE queued == Append(c.outbox, Item(m, "QUEUED"))
           q == Client(c.run, c.state, c.app, queued, c.link, c.up, c.down, c.accepted)
           t == Client(c.run, c.state, c.app, Transmitted(queued, Len(queued)), c.link, c.up, c.down, c.accepted)
<1>1. Enqueued(c, m) = q
    <2>1. Enqueued(c, m) = [c EXCEPT !.outbox = queued]
        BY Zenon DEF Enqueued, mqtt_enqueue
    <2> HIDE DEF queued
    <2> QED
        BY <2>1, OutboxFacts
<1> HIDE DEF queued
<1>2. IsClient(q) /\ q.outbox = queued /\ q.down = c.down /\ q.up = c.up /\ q.link = c.link
      /\ q.run = c.run /\ q.state = c.state /\ q.app = c.app /\ q.accepted = c.accepted
    BY ClientFields
<1>3. IsClient(t) /\ t.down = c.down /\ t.up = c.up /\ t.link = c.link /\ t.outbox = Transmitted(queued, Len(queued))
      /\ t.run = c.run /\ t.state = c.state /\ t.app = c.app /\ t.accepted = c.accepted
    BY ClientFields
<1>4. [q EXCEPT !.outbox = Transmitted(@, Len(@))] = t
    <2>1. [q EXCEPT !.outbox = Transmitted(@, Len(@))] = [q EXCEPT !.outbox = Transmitted(queued, Len(queued))]
        BY <1>2, Zenon
    <2> HIDE DEF q
    <2> DEFINE o == Transmitted(queued, Len(queued))
    <2> HIDE DEF o, queued
    <2>2. [q EXCEPT !.outbox = o] = Client(q.run, q.state, q.app, o, q.link, q.up, q.down, q.accepted)
        BY <1>2, OutboxFacts
    <2> QED
        BY <1>2, <2>1, <2>2 DEF o
<1> HIDE DEF q, t
<1> USE DEF queued
<1>5. CASE c.state # "CONNECTED"
    <2>1. Published(c, m, ok) = q
        BY <1>1, <1>5 DEF Published
    <2> QED
        BY <1>2, <1>5, <2>1
<1>6. CASE c.state = "CONNECTED" /\ ok
    <2>1. Published(c, m, ok) = Written(t, m)
        BY <1>1, <1>4, <1>6 DEF Published
    <2>2. Written(t, m) = Client(c.run, c.state, c.app, Transmitted(queued, Len(queued)), c.link,
                                 IF c.link = "up" THEN Append(c.up, m) ELSE c.up, c.down, c.accepted)
        BY <1>3, WrittenFacts
    <2> DEFINE up == IF c.link = "up" THEN Append(c.up, m) ELSE c.up
               o  == Transmitted(queued, Len(queued))
    <2> HIDE DEF up, o
    <2>3. Published(c, m, ok) = Client(c.run, c.state, c.app, o, c.link, up, c.down, c.accepted)
        BY <2>1, <2>2 DEF up, o
    <2>4. IsClient(Published(c, m, ok)) /\ Published(c, m, ok).down = c.down
        BY <2>3, ClientFields
    <2> QED
        BY <2>3, <2>4 DEF up, o
<1>7. CASE c.state = "CONNECTED" /\ ~ok
    <2>1. Published(c, m, ok) = Aborted(q)
        BY <1>1, <1>7 DEF Published
    <2>2. Aborted(q) = Client(q.run, "WAIT_RECONNECT", "DISCONNECTED", q.outbox, "closed", <<>>, <<>>, q.accepted)
        BY <1>2, AbortedFacts
    <2> QED
        BY <1>7, <2>1, <2>2, ClientFields
<1> QED
    BY <1>5, <1>6, <1>7

\* The outbox and the connection after a subscription.
LEMMA SubscribedFacts ==
    ASSUME NEW c, IsClient(c), NEW ok \in BOOLEAN
    PROVE  /\ IsClient(Subscribed(c, ok)) /\ Subscribed(c, ok).down = c.down
           /\ c.state = "CONNECTED" /\ c.link = "up" /\ ok
              => Subscribed(c, ok) = Client(c.run, c.state, c.app, Append(c.outbox, Item(Subscribe, "TRANSMITTED")),
                                            c.link, Append(c.up, Subscribe), c.down, c.accepted)
<1> DEFINE o == Append(c.outbox, Item(Subscribe, "TRANSMITTED"))
           q == Client(c.run, c.state, c.app, o, c.link, c.up, c.down, c.accepted)
           up == IF c.link = "up" THEN Append(c.up, Subscribe) ELSE c.up
<1>1. [c EXCEPT !.outbox = mqtt_enqueue(@, Subscribe, "TRANSMITTED")] = q
    <2>1. [c EXCEPT !.outbox = mqtt_enqueue(@, Subscribe, "TRANSMITTED")] = [c EXCEPT !.outbox = o]
        BY Zenon DEF mqtt_enqueue
    <2> HIDE DEF o
    <2> QED
        BY <2>1, OutboxFacts
<1> HIDE DEF o
<1>2. IsClient(q) /\ q.outbox = o /\ q.down = c.down /\ q.up = c.up /\ q.link = c.link
      /\ q.run = c.run /\ q.state = c.state /\ q.app = c.app /\ q.accepted = c.accepted
    BY ClientFields
<1> HIDE DEF q
<1>3. Written(q, Subscribe) = Client(c.run, c.state, c.app, o, c.link, up, c.down, c.accepted)
    BY <1>2, WrittenFacts
<1>4. Subscribed(c, ok) = IF c.state # "CONNECTED" THEN c ELSE IF ok THEN Written(q, Subscribe) ELSE q
    BY <1>1 DEF Subscribed
<1> HIDE DEF up
<1>5. IsClient(Written(q, Subscribe)) /\ Written(q, Subscribe).down = c.down
    BY <1>3, ClientFields
<1>6. IsClient(Subscribed(c, ok)) /\ Subscribed(c, ok).down = c.down
    BY <1>2, <1>4, <1>5
<1> QED
    BY <1>3, <1>4, <1>6 DEF o, up

\* The end of a turn of the loop.
LEMMA ResentFacts ==
    ASSUME NEW c, IsClient(c), NEW due, NEW ok \in BOOLEAN
    PROVE  LET i == Resendable(c, due)
               r == Resent(c, due, ok)
           IN  /\ IsClient(r) /\ r.down \in {c.down, <<>>}
               /\ c.link = "up" /\ ok /\ i # 0
                  => r = Client(c.run, c.state, c.app, Transmitted(c.outbox, i), c.link,
                                Append(c.up, c.outbox[i].message), c.down, c.accepted)
               /\ i = 0 => r = c
<1> DEFINE i == Resendable(c, due)
           o == Transmitted(c.outbox, i)
           m == c.outbox[i].message
           t == Client(c.run, c.state, c.app, o, c.link, c.up, c.down, c.accepted)
           up == IF c.link = "up" THEN Append(c.up, m) ELSE c.up
<1>1. [c EXCEPT !.outbox = Transmitted(@, i)] = t
    <2>1. [c EXCEPT !.outbox = Transmitted(@, i)] = [c EXCEPT !.outbox = o]
        BY Zenon
    <2> HIDE DEF o
    <2> QED
        BY <2>1, OutboxFacts
<1>2. IsClient(t) /\ t.outbox = o /\ t.down = c.down /\ t.up = c.up /\ t.link = c.link
      /\ t.run = c.run /\ t.state = c.state /\ t.app = c.app /\ t.accepted = c.accepted
    BY ClientFields
<1>3. Resent(c, due, ok) = IF i = 0 THEN c ELSE IF ok THEN Written(t, m) ELSE Aborted(c)
    BY <1>1 DEF Resent
<1> HIDE DEF i, o, m, t
<1>4. Written(t, m) = Client(c.run, c.state, c.app, o, c.link, up, c.down, c.accepted)
    BY <1>2, WrittenFacts
<1> HIDE DEF up
<1>5. IsClient(Written(t, m)) /\ Written(t, m).down = c.down
    BY <1>4, ClientFields
<1>6. IsClient(Aborted(c)) /\ Aborted(c).down = <<>>
    BY AbortedFacts, ClientFields
<1>7. IsClient(Resent(c, due, ok)) /\ Resent(c, due, ok).down \in {c.down, <<>>}
    BY <1>3, <1>5, <1>6
<1>8. ASSUME c.link = "up", ok, i # 0
      PROVE  Resent(c, due, ok) = Client(c.run, c.state, c.app, o, c.link, Append(c.up, m), c.down, c.accepted)
    BY <1>3, <1>4, <1>8 DEF up
<1>9. i = 0 => Resent(c, due, ok) = c
    BY <1>3
<1> QED
    BY <1>7, <1>8, <1>9 DEF i, o, m

\* The end of a turn brings nothing new from the broker.
LEMMA TurnEndsFacts ==
    ASSUME NEW c, IsClient(c), TurnEnds(c)
    PROVE  /\ task' = Idle
           /\ IsClient(client') /\ client'.down \in {c.down, <<>>}
<1>1. PICK due \in {FALSE, Due(c)}, ok \in WriteResults(c) :
          client' = IF c.state = "CONNECTED" THEN Resent(c, due, ok) ELSE c
    BY DEF TurnEnds
<1>2. ok \in BOOLEAN
    BY <1>1 DEF WriteResults
<1>3. IsClient(Resent(c, due, ok)) /\ Resent(c, due, ok).down \in {c.down, <<>>}
    BY <1>2, ResentFacts
<1> QED
    BY <1>1, <1>3 DEF TurnEnds

-----------------------------------------------------------------------------
(***************************************************************************)
(* What is on its way to the Central.                                      *)
(***************************************************************************)
Packets == {Status, Subscribe, Disconnect} \cup Acks
Incomings == {CommandMessage(c) : c \in Commands} \cup {Acknowledged(m) : m \in Packets}

\* The commands among the messages of a connection.
Arriving(d) == {c \in Commands : \E i \in DOMAIN d : d[i] = CommandMessage(c)}

\* A connection brings no command twice.
DownOK(d) ==
    /\ d \in Seq(Incomings)
    /\ \A c \in Commands : \A i, j \in DOMAIN d :
          d[i] = CommandMessage(c) /\ d[j] = CommandMessage(c) => i = j

\* Messages of different kinds differ, and a command is told by its message.
LEMMA KindsDiffer ==
    /\ \A c, d : CommandMessage(c) = CommandMessage(d) => c = d
    /\ \A c, m : CommandMessage(c) # Acknowledged(m)
    /\ \A c : CommandMessage(c).type = "command"
    /\ \A m : Acknowledged(m).type = "acknowledged"
    /\ \A c : CommandMessage(c).command = c
<1>1. \A c : CommandMessage(c).type = "command" /\ CommandMessage(c).command = c
    BY DEF CommandMessage
<1>2. \A m : Acknowledged(m).type = "acknowledged"
    BY DEF Acknowledged
<1> QED
    BY <1>1, <1>2

\* Without messages no command arrives.
LEMMA NothingArrives == DownOK(<<>>) /\ Arriving(<<>>) = {}
    BY DEF DownOK, Arriving

\* The next message is taken; what is left arrives as before.
LEMMA TailArrives ==
    ASSUME NEW d, DownOK(d), d # <<>>
    PROVE  /\ DownOK(Tail(d)) /\ Arriving(Tail(d)) \subseteq Arriving(d)
           /\ Head(d) \in Incomings
           /\ \A c \in Commands : Head(d) = CommandMessage(c) => c \in Arriving(d) \ Arriving(Tail(d))
<1>1. /\ d \in Seq(Incomings) /\ Tail(d) \in Seq(Incomings) /\ Len(Tail(d)) = Len(d) - 1
      /\ \A i \in 1..Len(Tail(d)) : Tail(d)[i] = d[i + 1]
      /\ Head(d) = d[1] /\ 1 \in 1..Len(d) /\ Head(d) \in Incomings
      /\ DOMAIN d = 1..Len(d) /\ DOMAIN Tail(d) = 1..Len(Tail(d)) /\ Len(d) \in Nat
    BY DEF DownOK
<1>2. \A i \in DOMAIN Tail(d) : i + 1 \in DOMAIN d /\ Tail(d)[i] = d[i + 1] /\ i \in Nat /\ i + 1 # 1
    BY <1>1
<1>3. ASSUME NEW c \in Commands, NEW i \in DOMAIN Tail(d), NEW j \in DOMAIN Tail(d),
             Tail(d)[i] = CommandMessage(c), Tail(d)[j] = CommandMessage(c)
      PROVE  i = j
    <2>1. i + 1 = j + 1
        BY <1>2, <1>3 DEF DownOK
    <2> QED
        BY <1>2, <2>1
<1>4. Arriving(Tail(d)) \subseteq Arriving(d)
    BY <1>2 DEF Arriving
<1>5. ASSUME NEW c \in Commands, Head(d) = CommandMessage(c)
      PROVE  c \in Arriving(d) \ Arriving(Tail(d))
    <2>1. c \in Arriving(d)
        BY <1>1, <1>5 DEF Arriving
    <2>2. ASSUME NEW i \in DOMAIN Tail(d) PROVE Tail(d)[i] # CommandMessage(c)
        BY <1>1, <1>2, <1>5 DEF DownOK
    <2> QED
        BY <2>1, <2>2 DEF Arriving
<1> QED
    BY <1>1, <1>3, <1>4, <1>5 DEF DownOK

\* A message more, of a command that was not arriving.
LEMMA OneMoreArrives ==
    ASSUME NEW d, DownOK(d), NEW x \in Incomings,
           \A c \in Commands : x = CommandMessage(c) => c \notin Arriving(d)
    PROVE  /\ DownOK(Append(d, x))
           /\ \A c \in Arriving(Append(d, x)) : c \in Arriving(d) \/ x = CommandMessage(c)
<1> DEFINE e == Append(d, x)
<1>1. /\ d \in Seq(Incomings) /\ e \in Seq(Incomings) /\ Len(e) = Len(d) + 1
      /\ \A i \in 1..Len(d) : e[i] = d[i]
      /\ e[Len(d) + 1] = x
      /\ DOMAIN d = 1..Len(d) /\ DOMAIN e = 1..Len(e) /\ Len(d) \in Nat
    BY DEF DownOK
<1> HIDE DEF e
<1>2. \A i \in DOMAIN e : i = Len(d) + 1 \/ (i \in DOMAIN d /\ e[i] = d[i])
    BY <1>1
<1>3. ASSUME NEW c \in Commands, NEW i \in DOMAIN e, NEW j \in DOMAIN e,
             e[i] = CommandMessage(c), e[j] = CommandMessage(c)
      PROVE  i = j
    <2>1. CASE i = Len(d) + 1 \/ j = Len(d) + 1
        <3>1. c \notin Arriving(d)
            BY <1>1, <1>3, <2>1
        <3> QED
            BY <1>2, <1>3, <3>1 DEF Arriving
    <2>2. CASE i # Len(d) + 1 /\ j # Len(d) + 1
        BY <1>2, <1>3, <2>2 DEF DownOK
    <2> QED
        BY <2>1, <2>2
<1>4. \A c \in Arriving(e) : c \in Arriving(d) \/ x = CommandMessage(c)
    BY <1>1, <1>2 DEF Arriving
<1> QED
    BY <1>1, <1>3, <1>4 DEF DownOK, e

\* What a clean session leaves is no message.
LEMMA NothingRepeated == SetToSeq({CommandMessage(c) : c \in {}}) = <<>>
<1>1. Cardinality({}) = 0
    BY FS_EmptySet
<1>2. {CommandMessage(c) : c \in {}} = {}
    OBVIOUS
<1>3. <<>> \in [1..0 -> {}] /\ IsInjective(<<>>)
    BY DEF IsInjective
<1>4. \A f \in [1..0 -> {}] : f = <<>>
    OBVIOUS
<1>5. SetToSeq({}) = CHOOSE f \in [1..0 -> {}] : IsInjective(f)
    BY <1>1, Zenon DEF SetToSeq
<1>6. SetToSeq({}) \in [1..0 -> {}]
    BY <1>3, <1>5
<1> QED
    BY <1>2, <1>4, <1>6

-----------------------------------------------------------------------------
(***************************************************************************)
(* A command is on its way to the Central, or with the handler, or has     *)
(* been handled, and never two of these: the broker forgets what was not   *)
(* acknowledged when a connection ends, and a new one starts with nothing. *)
(***************************************************************************)
Handling(c) == task.step = "handler" /\ task.command = c

Shape ==
    /\ IsClient(client) /\ IsTask(task) /\ IsBroker(broker)
    /\ DownOK(client.down)
    /\ content \in [Commands -> Messages \cup {Nothing, Lost}]
    /\ handled \in [Commands -> Nat]
    /\ task.step \in {"handler", "note", "answer"} => task.command \in Commands
    /\ faults \in Nat /\ rebinds \in Nat

Once ==
    /\ ~broker.alive => broker.unacked = {}
    /\ \A c \in Arriving(client.down) : handled[c] = 0 /\ ~Handling(c)
    /\ \A c \in Commands : Handling(c) => handled[c] = 0
    /\ \A c \in Commands : handled[c] <= 1
    /\ \A c \in Commands :
          content[c] = Nothing => c \notin Arriving(client.down) /\ ~Handling(c) /\ handled[c] = 0

OnceInv == Shape /\ Once

\* What the frontend sends is neither nothing nor a loss.
LEMMA CommandIsSomething == \A m \in Messages : m # Nothing /\ Lost # Nothing
<1>1. \A m \in Messages : DOMAIN m = {"type", "id", "target", "action", "settings"}
    BY MessagesAssumption
<1>2. DOMAIN Nothing = {"type"}
    BY DEF Nothing
<1>3. Lost # Nothing
    BY DEF Lost, Nothing
<1> QED
    BY <1>1, <1>2, <1>3

\* What brings no command, starts no handler and lets the broker be.
LEMMA QuietStep ==
    ASSUME OnceInv, UNCHANGED <<content, handled>>,
           IsClient(client'), DownOK(client.down'), Arriving(client.down') \subseteq Arriving(client.down),
           IsTask(task'), UNCHANGED task \/ task.step' \notin {"handler", "note", "answer"},
           IsBroker(broker'), (~broker.alive => broker.unacked = {})',
           faults' \in Nat, rebinds' \in Nat
    PROVE  OnceInv'
<1>1. Arriving(client.down)' \subseteq Arriving(client.down)
    BY DEF Arriving
<1>2. \A c \in Commands : Handling(c)' => Handling(c)
    BY DEF Handling
<1>3. Shape'
    BY DEF OnceInv, Shape, DownOK, IsClient, Client, IsTask, IsBroker
<1>4. Once'
    BY <1>1, <1>2 DEF OnceInv, Once, Arriving
<1> QED
    BY <1>3, <1>4 DEF OnceInv

\* The same, for a step that leaves the broker alone.
LEMMA ClientStep ==
    ASSUME OnceInv, UNCHANGED <<content, handled, broker>>,
           IsClient(client'), client.down' \in {client.down, <<>>},
           IsTask(task'), UNCHANGED task \/ task.step' \notin {"handler", "note", "answer"},
           faults' \in {faults, faults + 1}, rebinds' \in {rebinds, rebinds + 1}
    PROVE  OnceInv'
<1>1. DownOK(client.down') /\ Arriving(client.down') \subseteq Arriving(client.down)
    BY NothingArrives DEF OnceInv, Shape
<1>2. IsBroker(broker') /\ (~broker.alive => broker.unacked = {})'
    BY DEF OnceInv, Shape, Once, IsBroker
<1>3. faults' \in Nat /\ rebinds' \in Nat
    BY DEF OnceInv, Shape
<1> QED
    BY <1>1, <1>2, <1>3, QuietStep

\* And for one that leaves the client alone, too.
LEMMA ElsewhereStep ==
    ASSUME OnceInv, UNCHANGED <<content, handled, broker, client, task, rebinds>>,
           faults' \in {faults, faults + 1}
    PROVE  OnceInv'
<1>1. IsClient(client') /\ client.down' \in {client.down, <<>>} /\ IsTask(task')
    BY DEF OnceInv, Shape, IsClient, IsTask, Client
<1> QED
    BY <1>1, ClientStep

\* The task at the start of its loop, and at a step outside it.
LEMMA IdleFacts ==
    /\ IsTask(Idle) /\ Idle.step = "loop"
    /\ LET e == [Idle EXCEPT !.step = "event"] IN IsTask(e) /\ e.step = "event"
    /\ \A c : LET h == [Idle EXCEPT !.step = "handler", !.command = c]
              IN  IsTask(h) /\ h.step = "handler" /\ h.command = c
<1>1. IsTask(Idle) /\ Idle.step = "loop"
    BY DEF IsTask, Idle
<1>2. LET e == [Idle EXCEPT !.step = "event"] IN IsTask(e) /\ e.step = "event"
    BY DEF IsTask, Idle
<1>3. ASSUME NEW c
      PROVE  LET h == [Idle EXCEPT !.step = "handler", !.command = c]
             IN  IsTask(h) /\ h.step = "handler" /\ h.command = c
    <2> DEFINE h == [Idle EXCEPT !.step = "handler", !.command = c]
    <2>1. h = [[step |-> "loop", command |-> Nothing, result |-> "none"]
                 EXCEPT !.step = "handler", !.command = c]
        BY Zenon DEF Idle
    <2> HIDE DEF h
    <2>2. h = [step |-> "handler", command |-> c, result |-> "none"]
        BY <2>1, Zenon
    <2>3. IsTask(h) /\ h.step = "handler" /\ h.command = c
        BY <2>2 DEF IsTask
    <2> QED
        BY <2>3 DEF h
<1> QED
    BY <1>1, <1>2, <1>3

\* The broker forgets the commands of a connection that ends.
LEMMA EndedFacts ==
    ASSUME NEW b, IsBroker(b), NEW r
    PROVE  Ended(b, r) = [alive |-> FALSE, subscribed |-> b.subscribed /\ FALSE, unacked |-> {},
                          retained |-> r, goodbye |-> b.goodbye]
<1> DEFINE s == b.subscribed /\ FALSE
<1>1. Ended(b, r) = [b EXCEPT !.alive = FALSE, !.retained = r, !.subscribed = b.subscribed /\ ~TRUE, !.unacked = {}]
    BY Zenon DEF Ended, CleanSession
<1>2. ~TRUE <=> FALSE
    OBVIOUS
<1> DEFINE e == Ended(b, r)
<1> DEFINE w == b.subscribed /\ ~TRUE
<1>3. e = [[alive |-> b.alive, subscribed |-> b.subscribed, unacked |-> b.unacked,
            retained |-> b.retained, goodbye |-> b.goodbye]
              EXCEPT !.alive = FALSE, !.retained = r, !.subscribed = w, !.unacked = {}]
    BY <1>1, Zenon DEF IsBroker
<1>4. w = s
    OBVIOUS
<1> HIDE DEF e, w, s
<1>5. e = [alive |-> FALSE, subscribed |-> w, unacked |-> {}, retained |-> r, goodbye |-> b.goodbye]
    BY <1>3, Zenon
<1> QED
    BY <1>4, <1>5 DEF e, s

\* Connects: a clean session starts without commands.
LEMMA ConnectsStep == OnceInv /\ Connects => OnceInv'
<1> SUFFICES ASSUME OnceInv, Connects PROVE OnceInv'
    OBVIOUS
<1> DEFINE old == IF broker.alive THEN Ended(broker, LastWill) ELSE broker
           e   == [client EXCEPT !.state = "CONNECTED", !.link = "up", !.up = <<>>,
                                 !.down = SetToSeq({CommandMessage(c) : c \in {}})]
           b   == [old EXCEPT !.alive = TRUE, !.goodbye = FALSE]
<1>1. /\ broker' = b /\ client' = Connected(old.unacked)
      /\ task' = [Idle EXCEPT !.step = "event"]
      /\ UNCHANGED <<content, handled, faults, rebinds>>
    BY DEF Connects, commands, bounds
<1>2. IsBroker(old) /\ old.unacked = {}
    <2>1. CASE broker.alive
        BY <2>1, EndedFacts DEF OnceInv, Shape, IsBroker
    <2>2. CASE ~broker.alive
        BY <2>2 DEF OnceInv, Shape, Once
    <2> QED
        BY <2>1, <2>2
<1>3. client' = e
    BY <1>1, <1>2, Zenon DEF Connected
<1>4. IsClient(e) /\ e.down = SetToSeq({CommandMessage(c) : c \in {}})
    <2> DEFINE d == SetToSeq({CommandMessage(c) : c \in {}})
    <2> HIDE DEF d
    <2>1. e = [Client(client.run, client.state, client.app, client.outbox, client.link,
                      client.up, client.down, client.accepted)
                 EXCEPT !.state = "CONNECTED", !.link = "up", !.up = <<>>, !.down = d]
        BY Zenon DEF OnceInv, Shape, IsClient, d
    <2> HIDE DEF e
    <2>2. e = Client(client.run, "CONNECTED", client.app, client.outbox, "up", <<>>, d, client.accepted)
        BY <2>1, Zenon DEF Client
    <2> QED
        BY <2>2, ClientFields DEF d
<1>5. IsBroker(b) /\ b.alive = TRUE
    <2> HIDE DEF old
    <2>1. b = [[alive |-> old.alive, subscribed |-> old.subscribed, unacked |-> old.unacked,
                retained |-> old.retained, goodbye |-> old.goodbye] EXCEPT !.alive = TRUE, !.goodbye = FALSE]
        BY <1>2, Zenon DEF IsBroker
    <2> HIDE DEF b
    <2>2. b = [alive |-> TRUE, subscribed |-> old.subscribed, unacked |-> old.unacked,
               retained |-> old.retained, goodbye |-> FALSE]
        BY <2>1, Zenon
    <2> QED
        BY <2>2 DEF IsBroker
<1> HIDE DEF e, b, old
<1>6. IsClient(client') /\ client.down' = <<>>
    BY <1>3, <1>4, NothingRepeated
<1>7. DownOK(client.down') /\ Arriving(client.down') \subseteq Arriving(client.down)
    BY <1>6, NothingArrives
<1>8. IsBroker(broker') /\ (~broker.alive => broker.unacked = {})'
    BY <1>1, <1>5
<1>9. IsTask(task') /\ task.step' = "event"
    BY <1>1, IdleFacts
<1> QED
    BY <1>1, <1>6, <1>7, <1>8, <1>9, QuietStep DEF OnceInv, Shape

\* A connection that fails or is tried again, and what follows a connection.
LEMMA ConnectingSteps == OnceInv /\ (ConnectFails \/ Reconnects \/ onConnected) => OnceInv'
<1> SUFFICES ASSUME OnceInv PROVE ConnectFails \/ Reconnects \/ onConnected => OnceInv'
    OBVIOUS
<1>1. IsClient(client) /\ IsTask(task)
    BY DEF OnceInv, Shape
<1>2. ASSUME ConnectFails PROVE OnceInv'
    <2>1. /\ client' = Aborted(client) /\ faults' \in {faults, faults + 1}
          /\ UNCHANGED <<content, handled, broker, task, rebinds>>
        BY <1>2 DEF ConnectFails, commands
    <2>2. IsClient(client') /\ client.down' = <<>>
        BY <1>1, <2>1, AbortedFacts, ClientFields
    <2>3. IsTask(task')
        BY <1>1, <2>1 DEF IsTask
    <2> QED
        BY <2>1, <2>2, <2>3, ClientStep
<1>3. ASSUME Reconnects PROVE OnceInv'
    <2>1. /\ client' = [client EXCEPT !.state = "INIT"]
          /\ UNCHANGED <<content, handled, broker, task, faults, rebinds>>
        BY <1>3 DEF Reconnects, commands, bounds
    <2>2. IsClient(client') /\ client.down' = client.down
        BY <1>1, <2>1 DEF IsClient, Client
    <2>3. IsTask(task')
        BY <1>1, <2>1 DEF IsTask
    <2> QED
        BY <2>1, <2>2, <2>3, ClientStep
<1>4. ASSUME onConnected PROVE OnceInv'
    <2> DEFINE told == esp_mqtt_dispatch_event(client, "MQTT_EVENT_CONNECTED")
    <2>1. /\ task' = Idle
          /\ \E ok \in WriteResults(told) : \E again \in WriteResults(Published(told, Status, ok)) :
                client' = Subscribed(Published(told, Status, ok), again)
          /\ UNCHANGED <<content, handled, broker, faults, rebinds>>
        BY <1>4 DEF onConnected, commands, bounds
    <2>2. IsClient(told) /\ told.down = client.down
        BY <1>1, ConnectedApp, ClientFields
    <2> HIDE DEF told
    <2>3. PICK ok \in BOOLEAN, again \in BOOLEAN :
             client' = Subscribed(Published(told, Status, ok), again)
        <3>1. \A c : WriteResults(c) \subseteq BOOLEAN
            BY DEF WriteResults
        <3> QED
            BY <2>1, <3>1
    <2> DEFINE p == Published(told, Status, ok)
    <2>4. IsClient(p) /\ p.down \in {told.down, <<>>}
        BY <2>2, PublishedFacts
    <2>5. client' = Subscribed(p, again)
        BY <2>3
    <2> HIDE DEF p
    <2>6. IsClient(client') /\ client.down' = p.down
        BY <2>4, <2>5, SubscribedFacts
    <2>7. IsTask(task') /\ task.step' = "loop"
        BY <2>1, IdleFacts
    <2> QED
        BY <2>1, <2>2, <2>4, <2>6, <2>7, ClientStep
<1> QED
    BY <1>2, <1>3, <1>4

\* The turns of the loop that receive or repeat, and the end of a handler.
LEMMA ReceivingSteps ==
    OnceInv /\ (ReceivesSuback \/ ReceivesPuback \/ Retransmits \/ answerCommand) => OnceInv'
<1> SUFFICES ASSUME OnceInv PROVE ReceivesSuback \/ ReceivesPuback \/ Retransmits \/ answerCommand => OnceInv'
    OBVIOUS
<1>1. IsClient(client) /\ IsBroker(broker) /\ (~broker.alive => broker.unacked = {}) /\ DownOK(client.down)
      /\ faults \in Nat /\ rebinds \in Nat
    BY DEF OnceInv, Shape, Once
<1>2. ASSUME NEW m, client.down # <<>>, Acknowledge(m) PROVE OnceInv'
    <2> DEFINE o == Deleted(client.outbox, m)
               d == Tail(client.down)
               c == [client EXCEPT !.down = d, !.outbox = o]
    <2>1. TurnEnds(c) /\ UNCHANGED <<content, handled, broker, faults, rebinds>>
        BY <1>2, Zenon DEF Acknowledge, commands, bounds
    <2>2. IsClient(c) /\ c.down = d
        <3> HIDE DEF o, d
        <3>1. c = [Client(client.run, client.state, client.app, client.outbox, client.link,
                          client.up, client.down, client.accepted) EXCEPT !.down = d, !.outbox = o]
            BY <1>1, Zenon DEF IsClient
        <3> HIDE DEF c
        <3>2. c = Client(client.run, client.state, client.app, o, client.link, client.up, d, client.accepted)
            BY <3>1, Zenon DEF Client
        <3> QED
            BY <3>2, ClientFields
    <2> HIDE DEF c
    <2>3. task' = Idle /\ IsClient(client') /\ client.down' \in {d, <<>>}
        BY <2>1, <2>2, TurnEndsFacts
    <2>4. DownOK(client.down') /\ Arriving(client.down') \subseteq Arriving(client.down)
        BY <1>1, <1>2, <2>3, TailArrives, NothingArrives
    <2>5. IsTask(task') /\ task.step' = "loop"
        BY <2>3, IdleFacts
    <2>6. IsBroker(broker') /\ (~broker.alive => broker.unacked = {})'
        BY <1>1, <2>1 DEF IsBroker
    <2> HIDE DEF o, d
    <2> QED
        BY <1>1, <2>1, <2>3, <2>4, <2>5, <2>6, QuietStep
<1>3. ReceivesSuback \/ ReceivesPuback => OnceInv'
    BY <1>2 DEF ReceivesSuback, ReceivesPuback, Receives
<1>4. ASSUME NEW c, IsClient(c), c.down \in {client.down, <<>>}, TurnEnds(c),
             UNCHANGED <<content, handled, broker, faults, rebinds>>
      PROVE  OnceInv'
    <2>1. task' = Idle /\ IsClient(client') /\ client.down' \in {c.down, <<>>}
        BY <1>4, TurnEndsFacts
    <2>2. IsTask(task') /\ task.step' = "loop"
        BY <2>1, IdleFacts
    <2> QED
        BY <1>4, <2>1, <2>2, ClientStep
<1>5. Retransmits => OnceInv'
    BY <1>1, <1>4 DEF Retransmits, commands, bounds
<1>6. ASSUME answerCommand PROVE OnceInv'
    <2> DEFINE m == Ack(IF Named(content[task.command]) THEN task.command ELSE NoId, task.result)
    <2>a. \A c : WriteResults(c) \subseteq BOOLEAN
        BY DEF WriteResults
    <2>b. PICK ok \in WriteResults(client) :
             \E acked \in WriteResults(Answered(client, m, ok)) :
                TurnEnds(IF acked THEN Written(Answered(client, m, ok), Acknowledged(CommandMessage(task.command)))
                         ELSE Aborted(Answered(client, m, ok)))
        BY <1>6, Zenon DEF answerCommand
    <2> HIDE DEF m
    <2>1. PICK acked \in BOOLEAN :
             TurnEnds(IF acked THEN Written(Answered(client, m, ok), Acknowledged(CommandMessage(task.command)))
                      ELSE Aborted(Answered(client, m, ok)))
        BY <2>a, <2>b
    <2> DEFINE a == Answered(client, m, ok)
               w == Written(a, Acknowledged(CommandMessage(task.command)))
    <2>2. IsClient(a) /\ a.down \in {client.down, <<>>}
        BY <1>1, <2>a, <2>b, PublishedFacts DEF Answered
    <2> HIDE DEF a
    <2>3. IsClient(w) /\ w.down = a.down
        BY <2>2, WrittenFacts, ClientFields
    <2>4. IsClient(Aborted(a)) /\ Aborted(a).down = <<>>
        BY <2>2, AbortedFacts, ClientFields
    <2> DEFINE c == IF acked THEN w ELSE Aborted(a)
    <2>5. IsClient(c) /\ c.down \in {client.down, <<>>}
        BY <2>2, <2>3, <2>4
    <2>6. TurnEnds(c)
        BY <2>1 DEF a
    <2>7. UNCHANGED <<content, handled, broker, faults, rebinds>>
        BY <1>6 DEF answerCommand, commands, bounds
    <2> HIDE DEF c
    <2> QED
        BY <1>4, <2>5, <2>6, <2>7
<1> QED
    BY <1>3, <1>5, <1>6

\* A command that arrives is handled, once.
LEMMA HandlerSteps == OnceInv /\ (ReceivesCommand \/ handleCommand \/ notePending) => OnceInv'
<1> SUFFICES ASSUME OnceInv PROVE ReceivesCommand \/ handleCommand \/ notePending => OnceInv'
    OBVIOUS
<1>1. ASSUME ReceivesCommand PROVE OnceInv'
    <2> DEFINE d == client.down
    <2>1. /\ LockFree /\ d # <<>> /\ Head(d).type = "command"
          /\ task' = [Idle EXCEPT !.step = "handler", !.command = Head(d).command]
          /\ client' = [client EXCEPT !.down = Tail(d)]
          /\ UNCHANGED <<broker, content, handled, faults, rebinds>>
        BY <1>1 DEF ReceivesCommand, Receives, Incoming, commands, bounds
    <2>2. DownOK(d) /\ IsClient(client)
        BY DEF OnceInv, Shape
    <2>3. /\ DownOK(Tail(d)) /\ Arriving(Tail(d)) \subseteq Arriving(d)
          /\ Head(d) \in Incomings
          /\ \A c \in Commands : Head(d) = CommandMessage(c) => c \in Arriving(d) \ Arriving(Tail(d))
        BY <2>1, <2>2, TailArrives
    <2>4. PICK c \in Commands : Head(d) = CommandMessage(c)
        BY <2>1, <2>3, KindsDiffer DEF Incomings
    <2>5. Head(d).command = c /\ c \in Arriving(d) \ Arriving(Tail(d))
        BY <2>3, <2>4, KindsDiffer
    <2>6. IsClient(client') /\ client.down' = Tail(d)
        <3> DEFINE rest == Tail(d)
        <3> HIDE DEF rest
        <3>1. client' = [client EXCEPT !.down = rest]
            BY <2>1 DEF rest
        <3>2. IsClient(client') /\ client'.down = rest
            BY <2>2, <3>1, DownFacts
        <3> QED
            BY <3>2 DEF rest
    <2>7. IsTask(task') /\ task.step' = "handler" /\ task.command' = c
        BY <2>1, <2>5, IdleFacts
    <2>8. /\ handled[c] = 0 /\ content[c] # Nothing
          /\ \A e \in Commands : ~Handling(e)
        BY <2>1, <2>5 DEF OnceInv, Once, Arriving, Handling, LockFree
    <2>9. \A e \in Commands : Handling(e)' => e = c
        BY <2>7 DEF Handling
    <2> HIDE DEF d
    <2>10. Shape'
        BY <2>1, <2>3, <2>6, <2>7 DEF OnceInv, Shape, DownOK, IsBroker
    <2>11. \A e \in Arriving(client.down)' : e \in Arriving(client.down) /\ e # c /\ e \in Commands
        <3>1. Arriving(client.down)' = Arriving(Tail(d)) /\ Arriving(client.down) \subseteq Commands
            BY <2>6 DEF Arriving
        <3> QED
            BY <2>3, <2>5, <3>1 DEF d
    <2>12. Once'
        BY <2>1, <2>8, <2>9, <2>11 DEF OnceInv, Once
    <2> QED
        BY <2>10, <2>12 DEF OnceInv
<1>2. ASSUME handleCommand PROVE OnceInv'
    <2> DEFINE c == task.command
               m == content[c]
    <2>1. PICK r : /\ handled' = [handled EXCEPT ![c] = @ + 1]
                   /\ task' = [task EXCEPT !.result = r,
                                  !.step = IF r = "ACCEPTED" /\ RemovesLoad(m) THEN "note" ELSE "answer"]
        BY <1>2, Zenon DEF handleCommand
    <2>2. task.step = "handler" /\ UNCHANGED <<client, broker, content, faults, rebinds>>
        BY <1>2 DEF handleCommand, bounds
    <2>3. IsTask(task) /\ c \in Commands /\ handled \in [Commands -> Nat]
        BY <2>2 DEF OnceInv, Shape
    <2> DEFINE s == IF r = "ACCEPTED" /\ RemovesLoad(m) THEN "note" ELSE "answer"
    <2>4. s \in {"note", "answer"}
        OBVIOUS
    <2> HIDE DEF s
    <2>5. task' = [step |-> s, command |-> c, result |-> r]
        <3>1. task' = [[step |-> task.step, command |-> task.command, result |-> task.result]
                         EXCEPT !.result = r, !.step = s]
            BY <2>1, <2>3, Zenon DEF IsTask, s
        <3> QED
            BY <3>1, Zenon
    <2>6. IsTask(task') /\ task.step' \in {"note", "answer"} /\ task.command' = c
        BY <2>4, <2>5 DEF IsTask
    <2>7. Handling(c) /\ \A e \in Commands : ~Handling(e)'
        BY <2>2, <2>6 DEF Handling
    <2>8. /\ handled[c] = 0 /\ handled' \in [Commands -> Nat] /\ handled'[c] = 1
          /\ \A e \in Commands : e # c => handled'[e] = handled[e]
        BY <2>1, <2>3, <2>7 DEF OnceInv, Once
    <2>9. c \notin Arriving(client.down) /\ content[c] # Nothing
        BY <2>3, <2>7 DEF OnceInv, Once
    <2>10. Shape'
        BY <2>2, <2>3, <2>6, <2>8 DEF OnceInv, Shape, DownOK, IsBroker, IsClient, Client
    <2>11. Arriving(client.down)' = Arriving(client.down) /\ Arriving(client.down) \subseteq Commands
        BY <2>2 DEF Arriving
    <2> HIDE DEF c, m
    <2>12. Once'
        BY <2>2, <2>7, <2>8, <2>9, <2>11 DEF OnceInv, Once
    <2> QED
        BY <2>10, <2>12 DEF OnceInv
<1>3. ASSUME notePending PROVE OnceInv'
    <2>1. /\ task.step = "note" /\ task' = [task EXCEPT !.step = "answer"]
          /\ UNCHANGED <<client, broker, content, handled, faults, rebinds>>
        BY <1>3 DEF notePending, bounds
    <2>2. IsTask(task') /\ task.step' = "answer" /\ task.command' = task.command
        BY <2>1 DEF OnceInv, Shape, IsTask
    <2>3. \A e \in Commands : ~Handling(e)'
        BY <2>2 DEF Handling
    <2>4. Shape'
        BY <2>1, <2>2 DEF OnceInv, Shape, DownOK, IsBroker, IsClient, Client
    <2>5. Arriving(client.down)' = Arriving(client.down) /\ Arriving(client.down) \subseteq Commands
        BY <2>1 DEF Arriving
    <2>6. Once'
        BY <2>1, <2>3, <2>5 DEF OnceInv, Once
    <2> QED
        BY <2>4, <2>6 DEF OnceInv
<1> QED
    BY <1>1, <1>2, <1>3

\* BrokerReceives: what the broker makes of the client's packets.
LEMMA BrokerStep == OnceInv /\ BrokerReceives => OnceInv'
<1> SUFFICES ASSUME OnceInv, BrokerReceives PROVE OnceInv'
    OBVIOUS
<1> DEFINE m == Head(client.up)
           acknowledges == m \in {Status, Subscribe} \cup Acks
           e == IF acknowledges /\ client.link = "up" THEN Append(client.down, Acknowledged(m)) ELSE client.down
           up == Tail(client.up)
           c == [client EXCEPT !.up = up, !.down = e]
<1>1. /\ broker.alive /\ faults' \in {faults, faults + 1}
      /\ client' = [client EXCEPT !.up = Tail(@),
                       !.down = IF acknowledges /\ client.link = "up"
                                THEN Append(@, Acknowledged(m)) ELSE @]
      /\ UNCHANGED <<task, content, handled, rebinds>>
    BY DEF BrokerReceives, commands
<1>2. IsClient(client) /\ DownOK(client.down) /\ IsBroker(broker) /\ IsTask(task)
      /\ faults \in Nat /\ rebinds \in Nat
    BY DEF OnceInv, Shape
<1>3. client' = c
    BY <1>1, Zenon
<1>4. IsClient(c) /\ c.down = e
    <2> HIDE DEF e, up
    <2>1. c = [Client(client.run, client.state, client.app, client.outbox, client.link,
                      client.up, client.down, client.accepted) EXCEPT !.up = up, !.down = e]
        BY <1>2, Zenon DEF IsClient
    <2> HIDE DEF c
    <2>2. c = Client(client.run, client.state, client.app, client.outbox, client.link, up, e, client.accepted)
        BY <2>1, Zenon DEF Client
    <2> QED
        BY <2>2, ClientFields
<1> HIDE DEF c
<1>5. DownOK(e) /\ Arriving(e) \subseteq Arriving(client.down)
    <2>1. CASE e = client.down
        BY <1>2, <2>1
    <2>2. CASE acknowledges /\ e = Append(client.down, Acknowledged(m))
        <3>1. Acknowledged(m) \in Incomings
            BY <2>2 DEF Incomings, Packets
        <3> DEFINE x == Acknowledged(m)
        <3>2. \A k : x # CommandMessage(k)
            BY KindsDiffer
        <3> HIDE DEF x
        <3>3. /\ DownOK(Append(client.down, x))
              /\ \A k \in Arriving(Append(client.down, x)) : k \in Arriving(client.down) \/ x = CommandMessage(k)
            BY <1>2, <3>1, <3>2, OneMoreArrives DEF x
        <3> QED
            BY <2>2, <3>2, <3>3 DEF x
    <2> QED
        BY <2>1, <2>2
<1> HIDE DEF e
<1>6. IsBroker(broker') /\ (broker.alive \/ broker.unacked = {})'
    <2>1. PICK granted \in BOOLEAN :
             broker' =
                CASE m = Status -> [broker EXCEPT !.retained = "online"]
                  [] m = Subscribe -> [broker EXCEPT !.subscribed = granted]
                  [] m = Disconnect -> [Ended(broker, broker.retained) EXCEPT !.goodbye = TRUE]
                  [] m \in Acks -> broker
                  [] OTHER -> [broker EXCEPT !.unacked = @ \ {m.message.command}]
        BY DEF BrokerReceives
    <2> HIDE DEF m
    <2>2. \/ broker' = [broker EXCEPT !.retained = "online"]
          \/ broker' = [broker EXCEPT !.subscribed = granted]
          \/ broker' = [Ended(broker, broker.retained) EXCEPT !.goodbye = TRUE]
          \/ broker' = broker
          \/ broker' = [broker EXCEPT !.unacked = broker.unacked \ {m.message.command}]
        BY <2>1
    <2>3. IsBroker(Ended(broker, broker.retained)) /\ Ended(broker, broker.retained).unacked = {}
        BY <1>2, EndedFacts DEF IsBroker
    <2> DEFINE b == Ended(broker, broker.retained)
    <2> HIDE DEF b
    <2>4. CASE broker' = [b EXCEPT !.goodbye = TRUE]
        BY <2>3, <2>4 DEF IsBroker, b
    <2>5. CASE broker' = [broker EXCEPT !.retained = "online"]
        BY <1>1, <1>2, <2>5 DEF IsBroker
    <2>6. CASE broker' = [broker EXCEPT !.subscribed = granted]
        BY <1>1, <1>2, <2>6 DEF IsBroker
    <2>7. CASE broker' = [broker EXCEPT !.unacked = broker.unacked \ {m.message.command}]
        BY <1>1, <1>2, <2>7 DEF IsBroker
    <2>8. CASE broker' = broker
        BY <1>1, <1>2, <2>8 DEF IsBroker
    <2> QED
        BY <2>2, <2>4, <2>5, <2>6, <2>7, <2>8 DEF b
<1>7. IsTask(task')
    BY <1>1, <1>2 DEF IsTask
<1>8. IsClient(client') /\ client.down' = e
    BY <1>3, <1>4
<1>9. DownOK(client.down') /\ Arriving(client.down') \subseteq Arriving(client.down)
    BY <1>5, <1>8
<1>10. (~broker.alive => broker.unacked = {})'
    BY <1>6
<1>11. faults' \in Nat /\ rebinds' \in Nat
    BY <1>1, <1>2
<1> HIDE DEF m, acknowledges, up
<1> QED
    BY <1>1, <1>6, <1>7, <1>8, <1>9, <1>10, <1>11, QuietStep

\* FrontendSends: a command is sent once.
LEMMA FrontendStep ==
    ASSUME OnceInv, NEW c \in Commands, NEW m \in Messages, FrontendSends(c, m)
    PROVE  OnceInv'
<1>1. /\ content[c] = Nothing /\ UNCHANGED <<task, handled, faults, rebinds>>
      /\ content' \in [Commands -> Messages \cup {Nothing, Lost}]
      /\ content'[c] # Nothing /\ \A k \in Commands : k # c => content'[k] = content[k]
    BY CommandIsSomething DEF FrontendSends, OnceInv, Shape, bounds
<1>2. c \notin Arriving(client.down) /\ ~Handling(c) /\ handled[c] = 0
    BY <1>1 DEF OnceInv, Once
<1>3. IsBroker(broker') /\ (~broker.alive => broker.unacked = {})'
    <2>1. \/ broker' = broker
          \/ broker' = [broker EXCEPT !.unacked = broker.unacked \cup {c}] /\ broker.alive
        BY DEF FrontendSends
    <2> QED
        BY <2>1 DEF OnceInv, Shape, Once, IsBroker
<1>4. /\ IsClient(client') /\ DownOK(client.down')
      /\ \A k \in Arriving(client.down') : k \in Arriving(client.down) \/ k = c
    <2>1. IsClient(client) /\ DownOK(client.down)
        BY DEF OnceInv, Shape
    <2>2. \/ client' = client
          \/ client' = [client EXCEPT !.down = Append(client.down, CommandMessage(c))]
        BY DEF FrontendSends
    <2> DEFINE x == CommandMessage(c)
               d == Append(client.down, x)
    <2>3. x \in Incomings /\ \A k : x = CommandMessage(k) => k = c
        BY KindsDiffer DEF Incomings
    <2> HIDE DEF x
    <2>4. DownOK(d) /\ \A k \in Arriving(d) : k \in Arriving(client.down) \/ x = CommandMessage(k)
        BY <1>2, <2>1, <2>3, OneMoreArrives
    <2> HIDE DEF d
    <2>5. CASE client' = [client EXCEPT !.down = d]
        <3>1. IsClient(client') /\ client'.down = d
            BY <2>1, <2>5, DownFacts
        <3> QED
            BY <2>3, <2>4, <3>1
    <2>6. CASE client' = client
        BY <2>1, <2>6
    <2> QED
        BY <2>2, <2>5, <2>6 DEF d, x
<1>5. Shape'
    BY <1>1, <1>3, <1>4 DEF OnceInv, Shape, DownOK
<1>6. Arriving(client.down)' = Arriving(client.down') /\ \A k \in Commands : Handling(k)' <=> Handling(k)
    BY <1>1 DEF Arriving, Handling
<1>7. Once'
    BY <1>1, <1>2, <1>3, <1>4, <1>6 DEF OnceInv, Once, Arriving
<1> QED
    BY <1>5, <1>7 DEF OnceInv

\* A new client has received nothing.
LEMMA NewClientFacts ==
    ASSUME NEW ok, NEW u
    PROVE  /\ IsClient(NewClient(ok)) /\ NewClient(ok).down = <<>>
           /\ IsClient(Started(NewClient(ok))) /\ Started(NewClient(ok)).down = <<>>
           /\ LET s == [Started(NewClient(ok)) EXCEPT !.up = u] IN IsClient(s) /\ s.down = <<>>
<1>1. NewClient(ok) = Client(FALSE, "OFF", "DISCONNECTED", <<>>, "closed", <<>>, <<>>, ok)
    BY Zenon DEF NewClient, Client
<1> DEFINE s == Started(NewClient(ok))
<1>2. s = [[run |-> FALSE, state |-> "OFF", app |-> "DISCONNECTED", outbox |-> <<>>, link |-> "closed",
            up |-> <<>>, down |-> <<>>, accepted |-> ok]
              EXCEPT !.run = TRUE, !.state = "INIT", !.app = "CONNECTING"]
    BY Zenon DEF Started, NewClient
<1> HIDE DEF s
<1>3. s = Client(TRUE, "INIT", "CONNECTING", <<>>, "closed", <<>>, <<>>, ok)
    BY <1>2, Zenon DEF Client
<1> DEFINE e == [s EXCEPT !.up = u]
<1>4. e = [Client(TRUE, "INIT", "CONNECTING", <<>>, "closed", <<>>, <<>>, ok) EXCEPT !.up = u]
    BY <1>3
<1> HIDE DEF e
<1>5. e = Client(TRUE, "INIT", "CONNECTING", <<>>, "closed", u, <<>>, ok)
    BY <1>4, Zenon DEF Client
<1> DEFINE n == NewClient(ok)
<1> HIDE DEF n
<1>a. n = Client(FALSE, "OFF", "DISCONNECTED", <<>>, "closed", <<>>, <<>>, ok)
    BY <1>1 DEF n
<1>6. IsClient(n) /\ n.down = <<>>
    BY <1>a, Zenon DEF IsClient, Client
<1>7. IsClient(s) /\ s.down = <<>>
    BY <1>3, Zenon DEF IsClient, Client
<1>8. IsClient(e) /\ e.down = <<>>
    BY <1>5, Zenon DEF IsClient, Client
<1> QED
    BY <1>6, <1>7, <1>8 DEF n, s, e

\* A client that starts has what it had.
LEMMA StartedFacts ==
    ASSUME NEW c, IsClient(c)
    PROVE  IsClient(Started(c)) /\ Started(c).down = c.down
<1> DEFINE s == Started(c)
<1>1. s = [Client(c.run, c.state, c.app, c.outbox, c.link, c.up, c.down, c.accepted)
             EXCEPT !.run = TRUE, !.state = "INIT", !.app = "CONNECTING"]
    BY Zenon DEF Started, IsClient
<1> HIDE DEF s
<1>2. s = Client(TRUE, "INIT", "CONNECTING", c.outbox, c.link, c.up, c.down, c.accepted)
    BY <1>1, Zenon DEF Client
<1>3. IsClient(s) /\ s.down = c.down
    BY <1>2, Zenon DEF IsClient, Client
<1> QED
    BY <1>3 DEF s

\* The steps that start, stop or break the client.
LEMMA LifeSteps ==
    OnceInv /\ (StopsClient \/ TaskEnds \/ StartsClient \/ Breaks \/ PowerCut \/ PowerReturns) => OnceInv'
<1> SUFFICES ASSUME OnceInv
             PROVE  StopsClient \/ TaskEnds \/ StartsClient \/ Breaks \/ PowerCut \/ PowerReturns => OnceInv'
    OBVIOUS
<1>1. IsClient(client) /\ IsTask(task)
    BY DEF OnceInv, Shape
<1>2. ASSUME StopsClient PROVE OnceInv'
    <2> DEFINE c == IF client.state = "CONNECTED" THEN Written(client, Disconnect) ELSE client
               e == [c EXCEPT !.run = FALSE, !.state = "DISCONNECTED"]
    <2>1. /\ client' = e /\ rebinds' = rebinds + 1
          /\ UNCHANGED <<content, handled, broker, task, faults>>
        BY <1>2, Zenon DEF StopsClient, commands
    <2>2. IsClient(c) /\ c.down = client.down
        BY <1>1, WrittenFacts, ClientFields
    <2> HIDE DEF c
    <2>3. e = [Client(c.run, c.state, c.app, c.outbox, c.link, c.up, c.down, c.accepted)
                 EXCEPT !.run = FALSE, !.state = "DISCONNECTED"]
        BY <2>2, Zenon DEF IsClient
    <2> HIDE DEF e
    <2>4. e = Client(FALSE, "DISCONNECTED", c.app, c.outbox, c.link, c.up, c.down, c.accepted)
        BY <2>3, Zenon DEF Client
    <2>5. IsClient(client') /\ client'.down = client.down
        <3>1. IsClient(e) /\ e.down = c.down
            BY <2>4, Zenon DEF IsClient, Client
        <3> QED
            BY <2>1, <2>2, <3>1
    <2>6. IsTask(task')
        BY <1>1, <2>1 DEF IsTask
    <2> QED
        BY <2>1, <2>5, <2>6, ClientStep
<1>3. ASSUME TaskEnds PROVE OnceInv'
    <2> DEFINE e == [client EXCEPT !.state = "ENDED", !.link = "closed", !.down = <<>>, !.outbox = <<>>]
    <2>1. /\ client' = e
          /\ UNCHANGED <<content, handled, broker, task, faults, rebinds>>
        BY <1>3, Zenon DEF TaskEnds, commands, bounds
    <2>2. e = [Client(client.run, client.state, client.app, client.outbox, client.link, client.up,
                      client.down, client.accepted)
                 EXCEPT !.state = "ENDED", !.link = "closed", !.down = <<>>, !.outbox = <<>>]
        BY <1>1, Zenon DEF IsClient
    <2> HIDE DEF e
    <2>3. e = Client(client.run, "ENDED", client.app, <<>>, "closed", client.up, <<>>, client.accepted)
        BY <2>2, Zenon DEF Client
    <2>4. IsClient(client') /\ client'.down = <<>>
        BY <2>1, <2>3, ClientFields
    <2>5. IsTask(task')
        BY <1>1, <2>1 DEF IsTask
    <2> QED
        BY <2>1, <2>4, <2>5, ClientStep
<1>4. ASSUME StartsClient PROVE OnceInv'
    <2>1. /\ \E ok \in BOOLEAN : client' = [Started(NewClient(ok)) EXCEPT !.up = client.up]
          /\ UNCHANGED <<content, handled, broker, task, faults, rebinds>>
        BY <1>4 DEF StartsClient, commands, bounds
    <2>2. IsClient(client') /\ client'.down = <<>>
        <3>1. PICK ok \in BOOLEAN : client' = [Started(NewClient(ok)) EXCEPT !.up = client.up]
            BY <2>1
        <3> DEFINE s == [Started(NewClient(ok)) EXCEPT !.up = client.up]
        <3>2. IsClient(s) /\ s.down = <<>>
            BY NewClientFacts
        <3>3. client' = s
            BY <3>1
        <3> HIDE DEF s
        <3> QED
            BY <3>2, <3>3
    <2>3. IsTask(task')
        BY <1>1, <2>1 DEF IsTask
    <2> QED
        BY <2>1, <2>2, <2>3, ClientStep
<1>5. ASSUME Breaks PROVE OnceInv'
    <2> DEFINE e == [client EXCEPT !.link = "cut", !.up = <<>>, !.down = <<>>]
    <2>1. /\ client' = e /\ faults' = faults + 1
          /\ UNCHANGED <<content, handled, broker, task, rebinds>>
        BY <1>5, Zenon DEF Breaks, commands
    <2>2. e = [Client(client.run, client.state, client.app, client.outbox, client.link, client.up,
                      client.down, client.accepted)
                 EXCEPT !.link = "cut", !.up = <<>>, !.down = <<>>]
        BY <1>1, Zenon DEF IsClient
    <2> HIDE DEF e
    <2>3. e = Client(client.run, client.state, client.app, client.outbox, "cut", <<>>, <<>>, client.accepted)
        BY <2>2, Zenon DEF Client
    <2>4. IsClient(client') /\ client'.down = <<>>
        BY <2>1, <2>3, ClientFields
    <2>5. IsTask(task')
        BY <1>1, <2>1 DEF IsTask
    <2> QED
        BY <2>1, <2>4, <2>5, ClientStep
<1>6. ASSUME PowerCut PROVE OnceInv'
    <2>1. /\ client' = NewClient(client.accepted) /\ task' = Idle /\ faults' = faults + 1
          /\ UNCHANGED <<content, handled, broker, rebinds>>
        BY <1>6 DEF PowerCut
    <2>2. IsClient(client') /\ client'.down = <<>>
        BY <2>1, NewClientFacts
    <2>3. IsTask(task') /\ task'.step = "loop"
        BY <2>1, IdleFacts
    <2> QED
        BY <2>1, <2>2, <2>3, ClientStep
<1>7. ASSUME PowerReturns PROVE OnceInv'
    <2>1. /\ client' = Started(client)
          /\ UNCHANGED <<content, handled, broker, task, faults, rebinds>>
        BY <1>7 DEF PowerReturns, commands, bounds
    <2>2. IsClient(client') /\ client'.down = client.down
        BY <1>1, <2>1, StartedFacts
    <2>3. IsTask(task')
        BY <1>1, <2>1 DEF IsTask
    <2> QED
        BY <2>1, <2>2, <2>3, ClientStep
<1> QED
    BY <1>2, <1>3, <1>4, <1>5, <1>6, <1>7

\* The other tasks, and the broker that loses its client.
LEMMA OtherSteps ==
    ASSUME OnceInv
    PROVE  /\ LossNoticed \/ Expires \/ publishStatus \/ BrokerLosesClient => OnceInv'
           /\ \A c \in Commands : NodeAnswers(c) => OnceInv'
           /\ \A t \in Publishers : Publishes(t) => OnceInv'
<1>1. IsClient(client) /\ IsTask(task) /\ IsBroker(broker) /\ DownOK(client.down)
      /\ faults \in Nat /\ rebinds \in Nat
    BY DEF OnceInv, Shape
<1>2. ASSUME LossNoticed PROVE OnceInv'
    <2>1. client' = Aborted(client) /\ UNCHANGED <<content, handled, broker, task, faults, rebinds>>
        BY <1>2 DEF LossNoticed, commands, bounds
    <2>2. IsClient(client') /\ client'.down = <<>> /\ IsTask(task')
        BY <1>1, <2>1, AbortedFacts, ClientFields DEF IsTask
    <2> QED
        BY <2>1, <2>2, ClientStep
<1>3. ASSUME Expires PROVE OnceInv'
    <2>1. PICK o : client' = [client EXCEPT !.outbox = o]
        BY <1>3 DEF Expires
    <2>2. UNCHANGED <<content, handled, broker, task, faults, rebinds>>
        BY <1>3 DEF Expires, commands, bounds
    <2>3. client' = Client(client.run, client.state, client.app, o, client.link, client.up,
                           client.down, client.accepted)
        BY <1>1, <2>1, OutboxFacts
    <2>4. IsClient(client') /\ client'.down = client.down /\ IsTask(task')
        BY <1>1, <2>2, <2>3, ClientFields DEF IsTask
    <2> QED
        BY <2>2, <2>4, ClientStep
<1>4. ASSUME publishStatus PROVE OnceInv'
    <2>1. UNCHANGED <<content, handled, broker, client, task, rebinds, faults>>
        BY <1>4 DEF publishStatus, commands
    <2> QED
        BY <2>1, ElsewhereStep
<1>5. ASSUME BrokerLosesClient PROVE OnceInv'
    <2>1. broker' = Ended(broker, LastWill) /\ UNCHANGED <<content, handled, client, task, faults, rebinds>>
        BY <1>5 DEF BrokerLosesClient, commands, bounds
    <2>2. IsBroker(broker') /\ (~broker.alive => broker.unacked = {})'
        BY <1>1, <2>1, EndedFacts DEF IsBroker
    <2>3. IsClient(client') /\ DownOK(client.down') /\ IsTask(task')
        BY <1>1, <2>1 DEF IsTask
    <2> QED
        BY <1>1, <2>1, <2>2, <2>3, QuietStep
<1>6. ASSUME NEW c \in Commands, NodeAnswers(c) PROVE OnceInv'
    <2>1. UNCHANGED <<content, handled, broker, client, task, rebinds, faults>>
        BY <1>6 DEF NodeAnswers, bounds
    <2> QED
        BY <2>1, ElsewhereStep
<1>7. ASSUME NEW t \in Publishers, Publishes(t) PROVE OnceInv'
    <2>1. /\ \E ok \in BOOLEAN : client' = Published(client, waiting[t], ok)
          /\ UNCHANGED <<content, handled, broker, task, faults, rebinds>>
        BY <1>7 DEF Publishes, WriteResults, commands, bounds
    <2>2. IsClient(client') /\ client'.down \in {client.down, <<>>} /\ IsTask(task')
        BY <1>1, <2>1, PublishedFacts DEF IsTask
    <2> QED
        BY <2>1, <2>2, ClientStep
<1> QED
    BY <1>2, <1>3, <1>4, <1>5, <1>6, <1>7

\* Every step keeps the commands where they belong.
LEMMA StepOnceInv == OnceInv /\ [Next]_vars => OnceInv'
<1> SUFFICES ASSUME OnceInv, [Next]_vars PROVE OnceInv'
    OBVIOUS
<1>1. CASE ClientTask
    BY <1>1, ConnectsStep, ConnectingSteps, ReceivingSteps, HandlerSteps DEF ClientTask
<1>2. CASE Environment
    BY <1>2, OtherSteps, ConnectingSteps, LifeSteps, FrontendStep DEF Environment
<1>3. CASE UNCHANGED vars
    BY <1>3, ElsewhereStep DEF vars
<1> QED
    BY <1>1, <1>2, <1>3, OtherSteps, LifeSteps, BrokerStep DEF Next

\* At the start no command has been sent.
LEMMA InitOnceInv == Init => OnceInv
<1> SUFFICES ASSUME Init PROVE OnceInv
    OBVIOUS
<1>1. IsClient(client) /\ client.down = <<>>
    BY NewClientFacts DEF Init
<1>2. IsTask(task) /\ task.step = "loop"
    BY IdleFacts DEF Init
<1>3. IsBroker(broker) /\ broker.unacked = {}
    BY DEF Init, IsBroker
<1>4. DownOK(client.down) /\ Arriving(client.down) = {}
    BY <1>1, NothingArrives
<1>5. /\ content \in [Commands -> Messages \cup {Nothing, Lost}]
      /\ handled \in [Commands -> Nat] /\ \A c \in Commands : handled[c] = 0
      /\ faults \in Nat /\ rebinds \in Nat
    BY DEF Init
<1>6. Shape
    BY <1>1, <1>2, <1>3, <1>4, <1>5 DEF Shape
<1>7. Once
    BY <1>2, <1>3, <1>4, <1>5 DEF Once, Handling
<1> QED
    BY <1>6, <1>7 DEF OnceInv

-----------------------------------------------------------------------------
(***************************************************************************)
(* While nothing has disturbed the connection: wherever it is reported     *)
(* that a Node applied a command, the acceptance of that command is ahead  *)
(* on the same way, or has arrived, or the handler's turn is about to      *)
(* write it, before which nobody else can publish.                         *)
(***************************************************************************)
Undisturbed == faults = 0 /\ rebinds = 0

UpPackets == Packets \cup {Acknowledged(CommandMessage(c)) : c \in Commands}
Items == [message : Packets, pending : {"QUEUED", "TRANSMITTED"}]

\* Given what commands there were and what has been sent before, m may be sent.
Founded(m, commandOf, before) ==
    \A c \in Commands :
        m = Ack(c, "APPLIED") =>
            /\ commandOf[c] # Nothing
            /\ Remote(commandOf[c]) => Ack(c, "ACCEPTED") \in before

UpInOrder(up, commandOf, arrived) ==
    /\ up \in Seq(UpPackets)
    /\ \A i \in DOMAIN up : Founded(up[i], commandOf, arrived \cup {up[j] : j \in 1..(i - 1)})

OutboxInOrder(outbox, commandOf, sent) ==
    /\ outbox \in Seq(Items)
    /\ \A i \in DOMAIN outbox : Founded(outbox[i].message, commandOf, sent)

Flow(c, commandOf, arrived) ==
    /\ IsClient(c)
    /\ UpInOrder(c.up, commandOf, arrived)
    /\ OutboxInOrder(c.outbox, commandOf, arrived \cup Range(c.up))

\* Before the first connection.
Fresh ==
    /\ client.state = "INIT" /\ client.app = "CONNECTING"
    /\ client.outbox = <<>> /\ client.up = <<>>
    /\ task.step = "loop" /\ waiting = [t \in Publishers |-> Nothing]
    /\ dispatched = {} /\ seen = {}

\* From then on.
Held ==
    /\ client.state = "CONNECTED" /\ client.link = "up"
    /\ task.step = "event" \/ client.app = "CONNECTED"

\* The handler has accepted c, and is about to say so.
Accepting(c) ==
    /\ task.step \in {"note", "answer"} /\ task.command = c
    /\ task.result = "ACCEPTED" /\ Named(content[c])

AcceptedOrAccepting(c) ==
    /\ content[c] # Nothing
    /\ Remote(content[c]) => Ack(c, "ACCEPTED") \in seen \cup Range(client.up) \/ Accepting(c)

Order ==
    /\ client.run = TRUE /\ client.accepted = TRUE /\ (Fresh \/ Held)
    /\ Flow(client, content, seen)
    /\ \A m \in seen : Founded(m, content, seen)
    /\ waiting \in [Publishers -> Acks \cup {Status, Nothing}]
    /\ \A c \in Commands : (\E t \in Publishers : waiting[t] = Ack(c, "APPLIED")) => AcceptedOrAccepting(c)
    /\ dispatched \subseteq Commands /\ \A c \in dispatched : AcceptedOrAccepting(c)
    /\ task.step \in {"note", "answer"} =>
          /\ task.result \in Results /\ content[task.command] # Nothing
          /\ task.result = "APPLIED" => Named(content[task.command]) /\ ~Remote(content[task.command])

OrderInv == Undisturbed => Order
Inv == OnceInv /\ OrderInv

\* What was founded stays so when more acknowledgements have been sent.
LEMMA FoundedMore ==
    ASSUME NEW m, NEW k, NEW V, NEW W, Founded(m, k, V), V \cap Acks \subseteq W
    PROVE  Founded(m, k, W)
<1>1. \A c \in Commands : Ack(c, "ACCEPTED") \in Acks
    BY DEF Acks, Results
<1> QED
    BY <1>1 DEF Founded

\* Only acknowledgements ask for others before them.
LEMMA OthersAreFounded ==
    ASSUME NEW k, NEW W
    PROVE  /\ Founded(Status, k, W) /\ Founded(Subscribe, k, W)
           /\ \A m : Founded(Acknowledged(m), k, W)
<1>1. \A c, r : Ack(c, r).type = "ack"
    BY DEF Ack
<1>2. Status.type = "status" /\ Subscribe.type = "subscribe"
    BY DEF Status, Subscribe
<1>3. \A m : Acknowledged(m).type = "acknowledged"
    BY DEF Acknowledged
<1> QED
    BY <1>1, <1>2, <1>3 DEF Founded

\* A packet founded in what is ahead of it may follow.
LEMMA OneMoreUp ==
    ASSUME NEW u, NEW k, NEW s, UpInOrder(u, k, s), NEW m \in UpPackets,
           Founded(m, k, s \cup Range(u))
    PROVE  UpInOrder(Append(u, m), k, s) /\ Range(Append(u, m)) = Range(u) \cup {m}
<1> DEFINE v == Append(u, m)
<1>1. /\ u \in Seq(UpPackets) /\ v \in Seq(UpPackets) /\ Len(v) = Len(u) + 1 /\ Len(u) \in Nat
      /\ \A i \in 1..Len(u) : v[i] = u[i]
      /\ v[Len(u) + 1] = m
      /\ DOMAIN u = 1..Len(u) /\ DOMAIN v = 1..Len(v)
    BY DEF UpInOrder
<1> HIDE DEF v
<1>2. Range(v) = Range(u) \cup {m}
    BY <1>1 DEF Range
<1>3. ASSUME NEW i \in DOMAIN v
      PROVE  Founded(v[i], k, s \cup {v[j] : j \in 1..(i - 1)})
    <2>1. \A j \in 1..(i - 1) : v[j] = u[j] /\ j \in DOMAIN u
        BY <1>1
    <2>2. CASE i = Len(u) + 1
        <3>1. Range(u) \subseteq {v[j] : j \in 1..(i - 1)}
            BY <1>1, <2>1, <2>2 DEF Range
        <3>2. s \cup Range(u) \subseteq s \cup {v[j] : j \in 1..(i - 1)}
            BY <3>1
        <3> QED
            BY <1>1, <2>2, <3>2 DEF Founded
    <2>3. CASE i # Len(u) + 1
        <3>1. i \in DOMAIN u /\ v[i] = u[i]
            BY <1>1, <2>3
        <3>2. {v[j] : j \in 1..(i - 1)} = {u[j] : j \in 1..(i - 1)}
            BY <2>1
        <3>3. Founded(u[i], k, s \cup {u[j] : j \in 1..(i - 1)})
            BY <3>1 DEF UpInOrder
        <3> QED
            BY <3>1, <3>2, <3>3
    <2> QED
        BY <2>2, <2>3
<1> QED
    BY <1>1, <1>2, <1>3 DEF UpInOrder, v

\* The broker takes the first packet; the rest stays in order.
LEMMA FirstUp ==
    ASSUME NEW u, NEW k, NEW s, UpInOrder(u, k, s), u # <<>>,
           NEW t, t = s \cup ({Head(u)} \cap Acks)
    PROVE  /\ Head(u) \in UpPackets /\ Founded(Head(u), k, s)
           /\ UpInOrder(Tail(u), k, t)
           /\ (s \cup Range(u)) \cap Acks \subseteq t \cup Range(Tail(u))
<1> DEFINE v == Tail(u)
<1>1. /\ u \in Seq(UpPackets) /\ v \in Seq(UpPackets) /\ Len(v) = Len(u) - 1 /\ Len(u) \in Nat
      /\ \A i \in 1..Len(v) : v[i] = u[i + 1]
      /\ Head(u) = u[1] /\ 1 \in 1..Len(u) /\ Head(u) \in UpPackets
      /\ DOMAIN u = 1..Len(u) /\ DOMAIN v = 1..Len(v)
    BY DEF UpInOrder
<1> HIDE DEF v
<1>2. Founded(Head(u), k, s)
    <2>1. Founded(u[1], k, s \cup {u[j] : j \in 1..(1 - 1)})
        BY <1>1 DEF UpInOrder
    <2>2. s \cup {u[j] : j \in 1..(1 - 1)} = s
        OBVIOUS
    <2> QED
        BY <1>1, <2>1, <2>2
<1>3. ASSUME NEW i \in DOMAIN v
      PROVE  Founded(v[i], k, t \cup {v[j] : j \in 1..(i - 1)})
    <2>1. i \in Nat /\ i + 1 \in DOMAIN u /\ v[i] = u[i + 1]
        BY <1>1
    <2>2. Founded(v[i], k, s \cup {u[j] : j \in 1..i})
        <3>1. Founded(u[i + 1], k, s \cup {u[j] : j \in 1..((i + 1) - 1)})
            BY <2>1 DEF UpInOrder
        <3>2. (i + 1) - 1 = i
            BY <2>1
        <3> QED
            BY <2>1, <3>1, <3>2
    <2>3. ASSUME NEW j \in 1..i, u[j] \in Acks
          PROVE  u[j] \in t \cup {v[h] : h \in 1..(i - 1)}
        <3>1. CASE j = 1
            BY <1>1, <2>3, <3>1
        <3>2. CASE j # 1
            <4>1. j - 1 \in 1..(i - 1) /\ j - 1 \in 1..Len(v) /\ (j - 1) + 1 = j
                BY <1>1, <3>2
            <4>2. v[j - 1] = u[j]
                BY <1>1, <4>1
            <4> QED
                BY <4>1, <4>2
        <3> QED
            BY <3>1, <3>2
    <2>4. (s \cup {u[j] : j \in 1..i}) \cap Acks \subseteq t \cup {v[j] : j \in 1..(i - 1)}
        BY <2>3
    <2> QED
        BY <2>2, <2>4, FoundedMore
<1>4. ASSUME NEW j \in DOMAIN u, u[j] \in Acks
      PROVE  u[j] \in t \cup Range(v)
    <2>1. CASE j = 1
        BY <1>1, <1>4, <2>1
    <2>2. CASE j # 1
        <3>1. j - 1 \in DOMAIN v /\ (j - 1) + 1 = j
            BY <1>1, <2>2
        <3>2. v[j - 1] = u[j]
            BY <1>1, <3>1
        <3> QED
            BY <3>1, <3>2 DEF Range
    <2> QED
        BY <2>1, <2>2
<1>5. (s \cup Range(u)) \cap Acks \subseteq t \cup Range(v)
    BY <1>4 DEF Range
<1> QED
    BY <1>1, <1>2, <1>3, <1>5 DEF UpInOrder, v

\* The outbox.
LEMMA OutboxMore ==
    ASSUME NEW o, NEW k, NEW V, NEW W, OutboxInOrder(o, k, V), V \cap Acks \subseteq W
    PROVE  OutboxInOrder(o, k, W)
    BY FoundedMore DEF OutboxInOrder

\* An item founded in what has been sent may wait in the outbox.
LEMMA OneMoreItem ==
    ASSUME NEW o, NEW k, NEW W, OutboxInOrder(o, k, W), NEW m \in Packets,
           NEW p \in {"QUEUED", "TRANSMITTED"}, Founded(m, k, W)
    PROVE  LET e == Append(o, Item(m, p))
           IN  OutboxInOrder(e, k, W) /\ Len(e) \in DOMAIN e
<1> DEFINE x == Item(m, p)
           e == Append(o, x)
<1>1. x \in Items /\ x.message = m
    BY DEF Item, Items
<1> HIDE DEF x
<1>2. /\ o \in Seq(Items) /\ e \in Seq(Items) /\ Len(e) = Len(o) + 1 /\ Len(o) \in Nat
      /\ \A i \in 1..Len(o) : e[i] = o[i]
      /\ e[Len(o) + 1] = x
      /\ DOMAIN o = 1..Len(o) /\ DOMAIN e = 1..Len(e)
    BY <1>1 DEF OutboxInOrder
<1> HIDE DEF e
<1>3. \A i \in DOMAIN e : Founded(e[i].message, k, W)
    <2>1. \A i \in DOMAIN e : (i \in DOMAIN o /\ e[i] = o[i]) \/ e[i] = x
        BY <1>2
    <2> QED
        BY <1>1, <2>1 DEF OutboxInOrder
<1>4. Len(e) \in DOMAIN e
    BY <1>2
<1> QED
    BY <1>2, <1>3, <1>4 DEF OutboxInOrder, e, x

\* An item marked as transmitted keeps its message.
LEMMA ItemTransmitted ==
    ASSUME NEW o, NEW k, NEW W, OutboxInOrder(o, k, W), NEW i \in DOMAIN o
    PROVE  OutboxInOrder(Transmitted(o, i), k, W)
<1>1. o \in Seq(Items) /\ o[i] \in Items
    BY DEF OutboxInOrder
<1> DEFINE y == [message |-> o[i].message, pending |-> "TRANSMITTED"]
           e == Transmitted(o, i)
<1>2. y \in Items /\ y.message = o[i].message
    BY <1>1 DEF Items
<1>3. e = [o EXCEPT ![i] = y]
    <2>1. [o[i] EXCEPT !.pending = "TRANSMITTED"] = y
        BY <1>1 DEF Items
    <2>2. e = [o EXCEPT ![i] = [o[i] EXCEPT !.pending = "TRANSMITTED"]]
        BY Zenon DEF Transmitted
    <2> QED
        BY <2>1, <2>2
<1> HIDE DEF e, y
<1>4. /\ e \in Seq(Items) /\ DOMAIN e = DOMAIN o
      /\ \A j \in DOMAIN o : e[j].message = o[j].message
    BY <1>1, <1>2, <1>3
<1> QED
    BY <1>4 DEF OutboxInOrder, e

\* Some numbers have a smallest.
LEMMA LeastExists ==
    ASSUME NEW S, S \subseteq Nat, S # {}
    PROVE  Min(S) \in S
<1> DEFINE Less == OpToRel(<, Nat)
<1>1. PICK i \in S : \A j \in S : <<j, i>> \notin Less
    <2>1. IsWellFoundedOn(Less, Nat)
        BY NatLessThanWellFounded
    <2> HIDE DEF Less
    <2> QED
        BY <2>1, WFMin
<1>2. \A j \in S : ~ (j < i)
    BY <1>1 DEF OpToRel
<1>3. \E x \in S : \A y \in S : x <= y
    BY <1>2
<1> QED
    BY <1>3 DEF Min

\* outbox_dequeue() finds an item of the outbox, or none.
LEMMA ItemFound ==
    ASSUME NEW o \in Seq(Items), NEW due
    PROVE  /\ \A p : Dequeued(o, p) # 0 => Dequeued(o, p) \in DOMAIN o
           /\ \A c : c.outbox = o /\ Resendable(c, due) # 0 => Resendable(c, due) \in DOMAIN o
<1>1. ASSUME NEW p, Dequeued(o, p) # 0 PROVE Dequeued(o, p) \in DOMAIN o
    <2> DEFINE I == {i \in 1..Len(o) : o[i].pending = p}
    <2>1. Dequeued(o, p) = IF I # {} THEN Min(I) ELSE 0
        BY DEF Dequeued, SelectInSeq
    <2>2. I \subseteq Nat /\ I \subseteq DOMAIN o
        OBVIOUS
    <2> HIDE DEF I
    <2> QED
        BY <1>1, <2>1, <2>2, LeastExists
<1> QED
    BY <1>1 DEF Resendable

\* outbox_delete() leaves the other items in order.
LEMMA ItemDeleted ==
    ASSUME NEW o, NEW k, NEW W, OutboxInOrder(o, k, W), NEW m
    PROVE  OutboxInOrder(Deleted(o, m), k, W)
<1> DEFINE I == {i \in 1..Len(o) : o[i].message = m}
           i == IF I # {} THEN Min(I) ELSE 0
<1>1. Deleted(o, m) = IF i = 0 THEN o ELSE RemoveAt(o, i)
    BY DEF Deleted, SelectInSeq
<1>2. o \in Seq(Items) /\ DOMAIN o = 1..Len(o) /\ Len(o) \in Nat
    BY DEF OutboxInOrder
<1>3. i = 0 \/ i \in 1..Len(o)
    <2>1. I \subseteq Nat /\ I \subseteq 1..Len(o)
        BY <1>2
    <2> HIDE DEF I
    <2> QED
        BY <2>1, LeastExists
<1> HIDE DEF i
<1>4. CASE i = 0
    BY <1>1, <1>4
<1>5. CASE i \in 1..Len(o)
    <2> DEFINE a == SubSeq(o, 1, i - 1)
               b == SubSeq(o, i + 1, Len(o))
               e == a \o b
    <2>1. /\ a \in Seq(Items) /\ Len(a) = i - 1 /\ \A j \in 1..(i - 1) : a[j] = o[j]
        <3>1. 1 \in Int /\ i - 1 \in Int /\ \A j \in 1..(i - 1) : o[j] \in Items
            BY <1>2, <1>5
        <3>2. /\ a \in Seq(Items) /\ Len(a) = (IF 1 <= i - 1 THEN (i - 1) - 1 + 1 ELSE 0)
              /\ \A j \in 1..((i - 1) - 1 + 1) : a[j] = o[1 + j - 1]
            BY <3>1, SubSeqProperties
        <3> QED
            BY <1>5, <3>2
    <2>2. /\ b \in Seq(Items) /\ Len(b) = Len(o) - i /\ \A j \in 1..(Len(o) - i) : b[j] = o[i + j]
        <3>1. i + 1 \in Int /\ Len(o) \in Int /\ \A j \in (i + 1)..Len(o) : o[j] \in Items
            BY <1>2, <1>5
        <3>2. /\ b \in Seq(Items) /\ Len(b) = (IF i + 1 <= Len(o) THEN Len(o) - (i + 1) + 1 ELSE 0)
              /\ \A j \in 1..(Len(o) - (i + 1) + 1) : b[j] = o[(i + 1) + j - 1]
            BY <3>1, SubSeqProperties
        <3>a. Len(o) \in Int /\ i \in Int /\ i <= Len(o)
            BY <1>2, <1>5
        <3>b. Len(o) - (i + 1) + 1 = Len(o) - i
            BY <3>a
        <3>c. i + 1 <= Len(o) \/ Len(o) - i = 0
            BY <3>a
        <3>3. /\ Len(o) - (i + 1) + 1 = Len(o) - i
              /\ i + 1 <= Len(o) \/ Len(o) - i = 0
            BY <3>b, <3>c
        <3>4. ASSUME NEW j \in 1..(Len(o) - i) PROVE b[j] = o[i + j]
            <4>1. (i + 1) + j - 1 = i + j
                BY <1>2, <1>5
            <4> HIDE DEF b
            <4> QED
                BY <3>2, <3>3, <4>1
        <3> HIDE DEF b
        <3> QED
            BY <3>2, <3>3, <3>4
    <2> HIDE DEF a, b
    <2>3. /\ e \in Seq(Items) /\ Len(e) = Len(a) + Len(b)
          /\ \A j \in 1..(Len(a) + Len(b)) : e[j] = IF j <= Len(a) THEN a[j] ELSE b[j - Len(a)]
        BY <2>1, <2>2, ConcatProperties
    <2> HIDE DEF e
    <2>4. ASSUME NEW j \in DOMAIN e PROVE Founded(e[j].message, k, W)
        <3>1. j \in 1..(Len(a) + Len(b))
            BY <2>3
        <3>2. CASE j <= Len(a)
            <4>1. j \in 1..(i - 1) /\ j \in 1..Len(o)
                BY <1>2, <1>5, <2>1, <3>1, <3>2
            <4>2. e[j] = a[j]
                BY <2>3, <3>1, <3>2
            <4>3. e[j] = o[j] /\ j \in DOMAIN o
                BY <1>2, <2>1, <4>1, <4>2
            <4> QED
                BY <4>3 DEF OutboxInOrder
        <3>3. CASE j > Len(a)
            <4>1. j - Len(a) \in 1..(Len(o) - i) /\ e[j] = b[j - Len(a)]
                <5>1. Len(a) \in Nat /\ Len(b) = Len(o) - i /\ Len(o) - i \in Nat /\ ~(j <= Len(a))
                    BY <1>2, <1>5, <2>1, <2>2, <3>1, <3>3
                <5>2. j - Len(a) \in 1..Len(b)
                    BY <3>1, <5>1
                <5> QED
                    BY <2>3, <3>1, <5>1, <5>2
            <4>2. e[j] = o[i + (j - Len(a))] /\ i + (j - Len(a)) \in DOMAIN o
                BY <1>2, <1>5, <2>2, <4>1
            <4> QED
                BY <4>2 DEF OutboxInOrder
        <3> QED
            BY <2>1, <3>1, <3>2, <3>3
    <2>5. OutboxInOrder(e, k, W)
        BY <2>3, <2>4 DEF OutboxInOrder
    <2>6. i # 0
        BY <1>5
    <2> QED
        BY <1>1, <2>5, <2>6 DEF RemoveAt, e, a, b
<1> QED
    BY <1>3, <1>4, <1>5

\* The functions on the client's record keep the order while the connection
\* holds.
Live(c) == c.run = TRUE /\ c.accepted = TRUE /\ c.state = "CONNECTED" /\ c.link = "up"

\* On a connection that holds every write succeeds.
LEMMA LiveWrites == ASSUME NEW c, Live(c) PROVE WriteResults(c) = {TRUE}
    BY DEF Live, WriteResults

MaySend(c, k, s, m, o) ==
    /\ Flow(c, k, s) /\ Live(c)
    /\ m \in UpPackets /\ Founded(m, k, s \cup Range(c.up))
    /\ OutboxInOrder(o, k, s \cup Range(c.up))

Sends(d, c, k, s, m) ==
    Flow(d, k, s) /\ Live(d) /\ d.app = c.app /\ Range(d.up) = Range(c.up) \cup {m}

\* A packet that may be sent is written.
LEMMA SentFlow ==
    ASSUME NEW c, NEW k, NEW s, NEW m, NEW o, MaySend(c, k, s, m, o)
    PROVE  Sends(Client(c.run, c.state, c.app, o, c.link, Append(c.up, m), c.down, c.accepted), c, k, s, m)
<1> DEFINE v == Append(c.up, m)
           d == Client(c.run, c.state, c.app, o, c.link, Append(c.up, m), c.down, c.accepted)
<1>b. UpInOrder(c.up, k, s) /\ m \in UpPackets /\ Founded(m, k, s \cup Range(c.up))
    BY DEF Flow, MaySend
<1>1. UpInOrder(v, k, s) /\ Range(v) = Range(c.up) \cup {m}
    BY <1>b, OneMoreUp
<1>2. (s \cup Range(c.up)) \cap Acks \subseteq s \cup Range(v)
    BY <1>1
<1>a. d = Client(c.run, c.state, c.app, o, c.link, v, c.down, c.accepted)
    OBVIOUS
<1> HIDE DEF v, d
<1>3. OutboxInOrder(o, k, s \cup Range(v))
    BY <1>2, OutboxMore DEF MaySend
<1>4. /\ IsClient(d) /\ d.up = v /\ d.outbox = o /\ d.app = c.app /\ d.run = c.run
      /\ d.accepted = c.accepted /\ d.state = c.state /\ d.link = c.link
    BY <1>a, ClientFields
<1>5. Flow(d, k, s) /\ Live(d) /\ d.app = c.app /\ Range(d.up) = Range(c.up) \cup {m}
    BY <1>1, <1>3, <1>4 DEF Flow, Live, MaySend
<1> QED
    BY <1>5 DEF d, Sends

\* esp_mqtt_client_publish() keeps the order.
LEMMA PublishedFlow ==
    ASSUME NEW c, NEW k, NEW s, NEW m \in Packets, MaySend(c, k, s, m, c.outbox)
    PROVE  Sends(Published(c, m, TRUE), c, k, s, m)
<1> DEFINE W == s \cup Range(c.up)
           q == Append(c.outbox, Item(m, "QUEUED"))
           o == Transmitted(q, Len(q))
           p == Published(c, m, TRUE)
<1>1. p = Client(c.run, c.state, c.app, o, c.link, Append(c.up, m), c.down, c.accepted)
    BY PublishedFacts DEF Flow, Live, MaySend
<1> HIDE DEF p
<1>2. OutboxInOrder(c.outbox, k, W) /\ Founded(m, k, W)
    BY DEF MaySend
<1>3. OutboxInOrder(q, k, W) /\ Len(q) \in DOMAIN q
    BY <1>2, OneMoreItem
<1> HIDE DEF q, W
<1>4. OutboxInOrder(o, k, W)
    BY <1>3, ItemTransmitted
<1>a. p = Client(c.run, c.state, c.app, o, c.link, Append(c.up, m), c.down, c.accepted)
    BY <1>1 DEF q
<1> HIDE DEF o
<1>5. m \in UpPackets /\ OutboxInOrder(o, k, s \cup Range(c.up))
    BY <1>4 DEF UpPackets, W
<1> DEFINE d == Client(c.run, c.state, c.app, o, c.link, Append(c.up, m), c.down, c.accepted)
<1>b. MaySend(c, k, s, m, o)
    BY <1>5 DEF MaySend
<1>c. Sends(d, c, k, s, m)
    BY <1>b, SentFlow
<1> HIDE DEF d
<1> QED
    BY <1>a, <1>c DEF d, p

\* esp_mqtt_client_subscribe() keeps the order.
LEMMA SubscribedFlow ==
    ASSUME NEW c, NEW k, NEW s, Flow(c, k, s), Live(c)
    PROVE  LET p == Subscribed(c, TRUE)
           IN  /\ Flow(p, k, s) /\ Live(p) /\ p.app = c.app
               /\ Range(c.up) \subseteq Range(p.up)
<1> DEFINE W == s \cup Range(c.up)
           o == Append(c.outbox, Item(Subscribe, "TRANSMITTED"))
           p == Subscribed(c, TRUE)
<1>1. p = Client(c.run, c.state, c.app, o, c.link, Append(c.up, Subscribe), c.down, c.accepted)
    BY SubscribedFacts DEF Flow, Live
<1> HIDE DEF p
<1>2. OutboxInOrder(c.outbox, k, W)
    BY DEF Flow
<1>3. Subscribe \in Packets /\ Subscribe \in UpPackets /\ Founded(Subscribe, k, W)
    BY OthersAreFounded DEF Packets, UpPackets
<1>4. OutboxInOrder(o, k, W)
    BY <1>2, <1>3, OneMoreItem
<1> HIDE DEF o
<1>a. OutboxInOrder(o, k, s \cup Range(c.up)) /\ Founded(Subscribe, k, s \cup Range(c.up))
    BY <1>3, <1>4
<1> DEFINE m == Subscribe
<1>b. /\ p = Client(c.run, c.state, c.app, o, c.link, Append(c.up, m), c.down, c.accepted)
      /\ m \in UpPackets /\ Founded(m, k, s \cup Range(c.up))
    BY <1>1, <1>3, <1>a
<1> HIDE DEF m, W
<1> DEFINE d == Client(c.run, c.state, c.app, o, c.link, Append(c.up, m), c.down, c.accepted)
<1>d. MaySend(c, k, s, m, o)
    BY <1>a, <1>b DEF MaySend
<1>e. Sends(d, c, k, s, m)
    BY <1>d, SentFlow
<1> HIDE DEF d
<1>c. Flow(p, k, s) /\ Live(p) /\ p.app = c.app /\ Range(p.up) = Range(c.up) \cup {m}
    BY <1>b, <1>e DEF d, Sends
<1>5. Flow(p, k, s) /\ Live(p) /\ p.app = c.app /\ Range(p.up) = Range(c.up) \cup {Subscribe}
    BY <1>c DEF m
<1> QED
    BY <1>5 DEF p

\* A packet that is not kept in the outbox keeps the order.
LEMMA WrittenFlow ==
    ASSUME NEW c, NEW k, NEW s, Flow(c, k, s), Live(c),
           NEW m \in UpPackets, Founded(m, k, s \cup Range(c.up))
    PROVE  LET p == Written(c, m)
           IN  /\ Flow(p, k, s) /\ Live(p) /\ p.app = c.app
               /\ Range(c.up) \subseteq Range(p.up)
<1> DEFINE p == Written(c, m)
<1>1. p = Client(c.run, c.state, c.app, c.outbox, c.link,
                 IF c.link = "up" THEN Append(c.up, m) ELSE c.up, c.down, c.accepted)
    BY WrittenFacts DEF Flow
<1>2. p = Client(c.run, c.state, c.app, c.outbox, c.link, Append(c.up, m), c.down, c.accepted)
    BY <1>1 DEF Live
<1> HIDE DEF p
<1>3. OutboxInOrder(c.outbox, k, s \cup Range(c.up))
    BY DEF Flow
<1> DEFINE d == Client(c.run, c.state, c.app, c.outbox, c.link, Append(c.up, m), c.down, c.accepted)
<1>b. MaySend(c, k, s, m, c.outbox)
    BY <1>3 DEF MaySend
<1>a. Sends(d, c, k, s, m)
    BY <1>b, SentFlow
<1> HIDE DEF d
<1>4. Flow(p, k, s) /\ Live(p) /\ p.app = c.app /\ Range(p.up) = Range(c.up) \cup {m}
    BY <1>2, <1>a DEF d, Sends
<1> QED
    BY <1>4 DEF p

\* What the end of a turn repeats keeps the order.
LEMMA TurnFlow ==
    ASSUME NEW c, Flow(c, content, seen), Live(c), TurnEnds(c)
    PROVE  /\ task' = Idle
           /\ Flow(client', content, seen) /\ Live(client') /\ client'.app = c.app
           /\ Range(c.up) \subseteq Range(client'.up)
<1>1. PICK due \in {FALSE, Due(c)} : client' = Resent(c, due, TRUE)
    BY LiveWrites DEF TurnEnds, Live
<1> DEFINE i == Resendable(c, due)
           r == Resent(c, due, TRUE)
           m == c.outbox[i].message
<1>2. CASE i = 0
    <2>1. r = c
        BY <1>2, ResentFacts DEF Flow
    <2> QED
        BY <1>1, <2>1 DEF TurnEnds
<1>3. CASE i # 0
    <2>1. r = Client(c.run, c.state, c.app, Transmitted(c.outbox, i), c.link,
                     Append(c.up, c.outbox[i].message), c.down, c.accepted)
        BY <1>3, ResentFacts DEF Flow, Live
    <2>2. OutboxInOrder(c.outbox, content, seen \cup Range(c.up))
        BY DEF Flow
    <2>3. i \in DOMAIN c.outbox
        BY <1>3, <2>2, ItemFound DEF OutboxInOrder
    <2> DEFINE o == Transmitted(c.outbox, i)
    <2> HIDE DEF i, r
    <2>4. OutboxInOrder(o, content, seen \cup Range(c.up))
        BY <2>2, <2>3, ItemTransmitted
    <2>5. m \in UpPackets /\ Founded(m, content, seen \cup Range(c.up))
        <3> DEFINE x == c.outbox[i]
        <3>1. c.outbox \in Seq(Items) /\ x \in Items
            BY <2>2, <2>3 DEF OutboxInOrder
        <3>2. Founded(x.message, content, seen \cup Range(c.up))
            BY <2>2, <2>3 DEF OutboxInOrder
        <3>3. m = x.message
            OBVIOUS
        <3> HIDE DEF x, m
        <3> QED
            BY <3>1, <3>2, <3>3 DEF Items, UpPackets
    <2>a. r = Client(c.run, c.state, c.app, o, c.link, Append(c.up, m), c.down, c.accepted)
        BY <2>1
    <2> HIDE DEF m, o
    <2> DEFINE d == Client(c.run, c.state, c.app, o, c.link, Append(c.up, m), c.down, c.accepted)
    <2>d. MaySend(c, content, seen, m, o)
        BY <2>4, <2>5 DEF MaySend
    <2>c. Sends(d, c, content, seen, m)
        BY <2>d, SentFlow
    <2> HIDE DEF d
    <2>6. Flow(r, content, seen) /\ Live(r) /\ r.app = c.app /\ Range(r.up) = Range(c.up) \cup {m}
        BY <2>a, <2>c DEF d, Sends
    <2> QED
        BY <1>1, <2>6 DEF TurnEnds, r
<1> QED
    BY <1>2, <1>3

-----------------------------------------------------------------------------
\* What a step has to show for the order to stay.
WaitingAs(w) ==
    /\ w \in [Publishers -> Acks \cup {Status, Nothing}]
    /\ \A c \in Commands : (\E t \in Publishers : w[t] = Ack(c, "APPLIED")) => AcceptedOrAccepting(c)

Answers(k) ==
    k.step \in {"note", "answer"} =>
        /\ k.result \in Results /\ content[k.command] # Nothing
        /\ k.result = "APPLIED" => Named(content[k.command]) /\ ~Remote(content[k.command])

\* A step that shows all this keeps the order.
LEMMA OrderStep ==
    ASSUME Order,
           \A k \in Commands : content[k] # Nothing => content'[k] = content[k],
           client.run' = TRUE, client.accepted' = TRUE, Fresh' \/ Held',
           Flow(client', content', seen'),
           \A m \in seen' : Founded(m, content', seen'),
           (seen \cup Range(client.up)) \cap Acks \subseteq seen' \cup Range(client.up'),
           \A c \in Commands : Accepting(c) => Accepting(c)' \/ Ack(c, "ACCEPTED") \in Range(client.up'),
           WaitingAs(waiting'),
           dispatched' \subseteq Commands,
           \A c \in dispatched' : AcceptedOrAccepting(c) \/ AcceptedOrAccepting(c)',
           Answers(task)'
    PROVE  Order'
<1>1. ASSUME NEW c \in Commands, AcceptedOrAccepting(c)
      PROVE  AcceptedOrAccepting(c)'
    <2>1. content[c] # Nothing /\ content'[c] = content[c]
        BY <1>1 DEF AcceptedOrAccepting
    <2>2. ASSUME Remote(content[c])
          PROVE  Ack(c, "ACCEPTED") \in seen' \cup Range(client.up') \/ Accepting(c)'
        <3>1. Ack(c, "ACCEPTED") \in Acks
            BY DEF Acks, Results
        <3>2. Ack(c, "ACCEPTED") \in seen \cup Range(client.up) \/ Accepting(c)
            BY <1>1, <2>2 DEF AcceptedOrAccepting
        <3> QED
            BY <3>1, <3>2
    <2>3. Range(client.up)' = Range(client.up')
        BY DEF Range
    <2> QED
        BY <2>1, <2>2, <2>3 DEF AcceptedOrAccepting
<1>2. /\ waiting' \in [Publishers -> Acks \cup {Status, Nothing}]
      /\ \A c \in Commands :
            (\E t \in Publishers : waiting'[t] = Ack(c, "APPLIED")) => AcceptedOrAccepting(c)'
    BY <1>1 DEF WaitingAs
<1>3. \A c \in dispatched' : AcceptedOrAccepting(c)'
    BY <1>1
<1>4. (task.step \in {"note", "answer"} =>
          /\ task.result \in Results /\ content[task.command] # Nothing
          /\ task.result = "APPLIED" => Named(content[task.command]) /\ ~Remote(content[task.command]))'
    BY DEF Answers
<1>5. Flow(client, content, seen)' /\ (\A m \in seen : Founded(m, content, seen))'
    BY DEF Flow, IsClient, Client, UpInOrder, OutboxInOrder, Founded, Range
<1> QED
    BY <1>2, <1>3, <1>4, <1>5 DEF Order

\* What the order says of the steps that leave the other tasks alone.
LEMMA OrderFacts ==
    ASSUME Order
    PROVE  /\ Flow(client, content, seen) /\ IsClient(client)
           /\ \A m \in seen : Founded(m, content, seen)
           /\ WaitingAs(waiting) /\ Answers(task)
           /\ dispatched \subseteq Commands /\ \A c \in dispatched : AcceptedOrAccepting(c)
           /\ Held => Live(client)
    BY DEF Order, Flow, WaitingAs, Answers, Held, Live

\* A turn of the loop that ends.
LEMMA TurnStep ==
    ASSUME Order, NEW c, Flow(c, content, seen), Live(c), c.app = "CONNECTED",
           Range(client.up) \subseteq Range(c.up), TurnEnds(c),
           \A k \in Commands : Accepting(k) => Ack(k, "ACCEPTED") \in Range(c.up),
           UNCHANGED <<waiting, commands, seen>>
    PROVE  Order'
<1>1. /\ task' = Idle
      /\ Flow(client', content, seen) /\ Live(client') /\ client'.app = c.app
      /\ Range(c.up) \subseteq Range(client'.up)
    BY TurnFlow
<1>2. UNCHANGED <<content, dispatched, seen, waiting>>
    BY DEF commands
<1>3. task.step' = "loop"
    BY <1>1, IdleFacts
<1>4. Held' /\ client.run' = TRUE /\ client.accepted' = TRUE
    BY <1>1 DEF Held, Live
<1>5. /\ (seen \cup Range(client.up)) \cap Acks \subseteq seen' \cup Range(client.up')
      /\ \A k \in Commands : Accepting(k) => Ack(k, "ACCEPTED") \in Range(client.up')
    BY <1>1, <1>2
<1>6. Answers(task)'
    BY <1>3 DEF Answers
<1> QED
    BY <1>1, <1>2, <1>4, <1>5, <1>6, OrderFacts, OrderStep

\* The turns of the loop that receive an acknowledgement or repeat an item.
LEMMA LoopSteps ==
    ASSUME OnceInv, Order
    PROVE  ReceivesSuback \/ ReceivesPuback \/ Retransmits => Order'
<1>1. ASSUME client.state = "CONNECTED", LockFree
      PROVE  Live(client) /\ client.app = "CONNECTED" /\ \A k \in Commands : ~Accepting(k)
    BY <1>1 DEF Order, Fresh, Held, Live, LockFree, Accepting
<1>2. ASSUME NEW m, client.state = "CONNECTED", LockFree, Acknowledge(m) PROVE Order'
    <2> DEFINE o == Deleted(client.outbox, m)
               d == Tail(client.down)
               c == [client EXCEPT !.down = d, !.outbox = o]
    <2>1. TurnEnds(c) /\ UNCHANGED <<waiting, commands, seen>>
        BY <1>2, Zenon DEF Acknowledge
    <2>2. c = Client(client.run, client.state, client.app, o, client.link, client.up, d, client.accepted)
        <3> HIDE DEF o, d
        <3>1. c = [Client(client.run, client.state, client.app, client.outbox, client.link,
                          client.up, client.down, client.accepted) EXCEPT !.down = d, !.outbox = o]
            BY OrderFacts, Zenon DEF IsClient
        <3> HIDE DEF c
        <3> QED
            BY <3>1, Zenon DEF Client
    <2>3. OutboxInOrder(o, content, seen \cup Range(client.up))
        BY OrderFacts, ItemDeleted DEF Flow
    <2> HIDE DEF c, o, d
    <2>4. /\ IsClient(c) /\ c.up = client.up /\ c.outbox = o /\ c.app = client.app /\ c.run = client.run
          /\ c.accepted = client.accepted /\ c.state = client.state /\ c.link = client.link
        BY <2>2, ClientFields
    <2>5. Flow(c, content, seen) /\ Live(c) /\ c.app = "CONNECTED"
        BY <1>1, <1>2, <2>3, <2>4, OrderFacts DEF Flow, Live
    <2> QED
        BY <1>1, <1>2, <2>1, <2>4, <2>5, TurnStep
<1>3. ReceivesSuback \/ ReceivesPuback => Order'
    BY <1>2 DEF ReceivesSuback, ReceivesPuback, Receives
<1>4. ASSUME Retransmits PROVE Order'
    <2>1. /\ client.state = "CONNECTED" /\ LockFree /\ TurnEnds(client)
          /\ UNCHANGED <<waiting, commands, seen>>
        BY <1>4 DEF Retransmits
    <2> QED
        BY <1>1, <2>1, OrderFacts, TurnStep
<1> QED
    BY <1>3, <1>4

\* An acknowledgement tells its command and its result.
LEMMA AcksDiffer == \A c, d, r, q : Ack(c, r) = Ack(d, q) => c = d /\ r = q
    BY DEF Ack

\* answerCommand: the acceptance is written before the lock is free.
LEMMA AnswerStep ==
    ASSUME OnceInv, Order, answerCommand
    PROVE  Order'
<1> DEFINE c == task.command
           id == IF Named(content[c]) THEN c ELSE NoId
           m == Ack(id, task.result)
           x == Acknowledged(CommandMessage(c))
           W == seen \cup Range(client.up)
<1>1. /\ task.step = "answer" /\ c \in Commands /\ UNCHANGED <<waiting, commands, seen>>
      /\ Held /\ client.app = "CONNECTED" /\ Live(client)
    BY DEF answerCommand, OnceInv, Shape, Order, Fresh, Held, Live
<1>2. m \in Packets /\ m \in Acks
    BY <1>1 DEF Order, Acks, Packets
<1>3. Founded(m, content, W)
    <2>1. ASSUME NEW k \in Commands, m = Ack(k, "APPLIED")
          PROVE  content[k] # Nothing /\ ~Remote(content[k])
        <3>1. id = k /\ task.result = "APPLIED"
            BY <2>1, AcksDiffer
        <3>2. k = c
            BY <1>1, <3>1 DEF Order
        <3> QED
            BY <1>1, <3>1, <3>2 DEF Order
    <2> QED
        BY <2>1 DEF Founded
<1>4. \A k \in Commands : Accepting(k) => m = Ack(k, "ACCEPTED")
    BY DEF Accepting
<1>5. \E acked \in WriteResults(Answered(client, m, TRUE)) :
         TurnEnds(IF acked THEN Written(Answered(client, m, TRUE), x)
                  ELSE Aborted(Answered(client, m, TRUE)))
    <2>1. WriteResults(client) = {TRUE}
        BY <1>1, LiveWrites
    <2>2. \E ok \in WriteResults(client) : \E acked \in WriteResults(Answered(client, m, ok)) :
             TurnEnds(IF acked THEN Written(Answered(client, m, ok), x)
                      ELSE Aborted(Answered(client, m, ok)))
        BY Zenon DEF answerCommand
    <2> HIDE DEF m, x
    <2>3. PICK ok \in WriteResults(client) :
             \E acked \in WriteResults(Answered(client, m, ok)) :
                TurnEnds(IF acked THEN Written(Answered(client, m, ok), x)
                         ELSE Aborted(Answered(client, m, ok)))
        BY <2>2
    <2>4. ok = TRUE
        BY <2>1
    <2> QED
        BY <2>3, <2>4, Zenon
<1> DEFINE a == Answered(client, m, TRUE)
<1> HIDE DEF m, id
<1>6. Flow(a, content, seen) /\ Live(a) /\ a.app = client.app /\ Range(a.up) = Range(client.up) \cup {m}
    <2>1. a = Published(client, m, TRUE)
        BY <1>1 DEF Answered
    <2>2. Flow(client, content, seen) /\ Live(client)
        BY <1>1, OrderFacts
    <2> DEFINE p == Published(client, m, TRUE)
    <2>3. m \in Packets /\ MaySend(client, content, seen, m, client.outbox)
        BY <1>2, <1>3, <2>2 DEF MaySend, Flow, UpPackets
    <2>4. Sends(p, client, content, seen, m)
        BY <2>3, PublishedFlow
    <2> HIDE DEF a, p
    <2> QED
        BY <2>1, <2>4 DEF p, Sends
<1>7. x \in UpPackets /\ \A V : Founded(x, content, V)
    BY <1>1, OthersAreFounded DEF UpPackets
<1> HIDE DEF a
<1>8. TurnEnds(Written(a, x))
    <2>1. PICK acked \in WriteResults(a) : TurnEnds(IF acked THEN Written(a, x) ELSE Aborted(a))
        BY <1>5, Zenon DEF a
    <2>2. acked = TRUE
        BY <1>6, LiveWrites
    <2> HIDE DEF x
    <2> QED
        BY <2>1, <2>2
<1> DEFINE w == Written(a, x)
<1> HIDE DEF x
<1>9. Flow(w, content, seen) /\ Live(w) /\ w.app = a.app /\ Range(a.up) \subseteq Range(w.up)
    BY <1>6, <1>7, WrittenFlow
<1> HIDE DEF w
<1>10. Range(client.up) \subseteq Range(w.up) /\ m \in Range(w.up)
    BY <1>6, <1>9
<1>11. \A k \in Commands : Accepting(k) => Ack(k, "ACCEPTED") \in Range(w.up)
    BY <1>4, <1>10
<1>12. TurnEnds(w) /\ w.app = "CONNECTED"
    BY <1>1, <1>6, <1>8, <1>9 DEF w
<1> QED
    BY <1>1, <1>9, <1>10, <1>11, <1>12, TurnStep

\* More commands and other messages on their way down change nothing of the order.
LEMMA FlowKept ==
    ASSUME NEW c, NEW d, NEW k, NEW l, NEW s, Flow(c, k, s),
           IsClient(d), d.up = c.up, d.outbox = c.outbox,
           \A j \in Commands : k[j] # Nothing => l[j] = k[j]
    PROVE  /\ Flow(d, l, s)
           /\ \A m, W : Founded(m, k, W) => Founded(m, l, W)
<1>1. \A m, W : Founded(m, k, W) => Founded(m, l, W)
    BY DEF Founded
<1>2. UpInOrder(c.up, k, s) /\ OutboxInOrder(c.outbox, k, s \cup Range(c.up))
    BY DEF Flow
<1>3. UpInOrder(c.up, l, s)
    BY <1>1, <1>2 DEF UpInOrder
<1>4. OutboxInOrder(c.outbox, l, s \cup Range(c.up))
    BY <1>1, <1>2 DEF OutboxInOrder
<1>5. Flow(d, l, s)
    BY <1>3, <1>4 DEF Flow
<1> QED
    BY <1>1, <1>5

\* The first connection.
LEMMA ConnectOrder ==
    ASSUME OnceInv, Order, Connects
    PROVE  Order'
<1>1. PICK u : client' = Connected(u)
    BY DEF Connects
<1> DEFINE d == SetToSeq({CommandMessage(c) : c \in u})
           e == [client EXCEPT !.state = "CONNECTED", !.link = "up", !.up = <<>>, !.down = d]
<1>2. client' = e
    BY <1>1, Zenon DEF Connected
<1> HIDE DEF d
<1>3. e = [Client(client.run, client.state, client.app, client.outbox, client.link,
                  client.up, client.down, client.accepted)
             EXCEPT !.state = "CONNECTED", !.link = "up", !.up = <<>>, !.down = d]
    BY OrderFacts, Zenon DEF IsClient
<1> HIDE DEF e
<1>4. e = Client(client.run, "CONNECTED", client.app, client.outbox, "up", <<>>, d, client.accepted)
    BY <1>3, Zenon DEF Client
<1>5. /\ IsClient(e) /\ e.run = client.run /\ e.state = "CONNECTED" /\ e.app = client.app
      /\ e.outbox = client.outbox /\ e.link = "up" /\ e.up = <<>> /\ e.accepted = client.accepted
    BY <1>4, ClientFields
<1>6. Fresh /\ client.run = TRUE /\ client.accepted = TRUE /\ Flow(client, content, seen)
    BY DEF Connects, Order, Held
<1>7. /\ task' = [Idle EXCEPT !.step = "event"]
      /\ UNCHANGED <<waiting, content, dispatched, seen>>
    BY DEF Connects, commands
<1>8. task.step' = "event"
    BY <1>7, IdleFacts
<1>9. Held' /\ client.run' = TRUE /\ client.accepted' = TRUE
    BY <1>2, <1>5, <1>6, <1>8 DEF Held
<1>10. IsClient(client') /\ client'.up = client.up /\ client'.outbox = client.outbox
    BY <1>2, <1>5, <1>6 DEF Fresh
<1>11. Flow(client', content', seen')
    BY <1>6, <1>7, <1>10, FlowKept
<1>12. \A k \in Commands : ~Accepting(k)
    BY <1>6 DEF Fresh, Accepting
<1>13. Answers(task)'
    BY <1>8 DEF Answers
<1>14. (seen \cup Range(client.up)) \cap Acks \subseteq seen' \cup Range(client.up')
    BY <1>7, <1>10
<1> QED
    BY <1>7, <1>9, <1>11, <1>12, <1>13, <1>14, OrderFacts, OrderStep

\* onConnected: the status and the subscription are written.
LEMMA ConnectedOrder ==
    ASSUME OnceInv, Order, onConnected
    PROVE  Order'
<1> DEFINE told == esp_mqtt_dispatch_event(client, "MQTT_EVENT_CONNECTED")
<1>1. Held /\ Live(client) /\ Flow(client, content, seen) /\ IsClient(client) /\ task.step = "event"
    BY OrderFacts DEF onConnected, Order, Fresh
<1>2. told = Client(client.run, client.state, "CONNECTED", client.outbox, client.link,
                    client.up, client.down, client.accepted)
    BY <1>1, ConnectedApp
<1>3. \E ok \in WriteResults(told) : \E again \in WriteResults(Published(told, Status, ok)) :
         client' = Subscribed(Published(told, Status, ok), again)
    BY Zenon DEF onConnected
<1> HIDE DEF told
<1>4. /\ IsClient(told) /\ told.up = client.up /\ told.outbox = client.outbox
      /\ told.app = "CONNECTED" /\ told.run = client.run /\ told.state = client.state
      /\ told.link = client.link /\ told.accepted = client.accepted
    BY <1>2, ClientFields
<1>5. Flow(told, content, seen) /\ Live(told)
    BY <1>1, <1>4, FlowKept DEF Live
<1> DEFINE p == Published(told, Status, TRUE)
           q == Subscribed(p, TRUE)
<1>6. Sends(p, told, content, seen, Status)
    <2>1. Status \in Packets /\ MaySend(told, content, seen, Status, told.outbox)
        BY <1>5, OthersAreFounded DEF MaySend, Flow, Packets, UpPackets
    <2> DEFINE m == Status
    <2>2. m \in Packets /\ MaySend(told, content, seen, m, told.outbox)
        BY <2>1
    <2> HIDE DEF m
    <2>3. Sends(Published(told, m, TRUE), told, content, seen, m)
        BY <2>2, PublishedFlow
    <2> QED
        BY <2>3 DEF m
<1>7. client' = q
    <2>1. WriteResults(told) = {TRUE}
        BY <1>5, LiveWrites
    <2>2. Live(p)
        BY <1>6 DEF Sends
    <2>3. WriteResults(p) = {TRUE}
        BY <2>2, LiveWrites
    <2>4. PICK ok \in WriteResults(told) : \E again \in WriteResults(Published(told, Status, ok)) :
             client' = Subscribed(Published(told, Status, ok), again)
        BY <1>3
    <2>5. ok = TRUE
        BY <2>1
    <2>6. \E again \in WriteResults(p) : client' = Subscribed(p, again)
        BY <2>4, <2>5, Zenon
    <2> HIDE DEF p
    <2> QED
        BY <2>3, <2>6
<1>8. Flow(p, content, seen) /\ Live(p) /\ p.app = "CONNECTED" /\ Range(client.up) \subseteq Range(p.up)
    BY <1>4, <1>6 DEF Sends
<1> HIDE DEF p
<1>9. Flow(q, content, seen) /\ Live(q) /\ q.app = p.app /\ Range(p.up) \subseteq Range(q.up)
    BY <1>8, SubscribedFlow
<1> HIDE DEF q
<1>10. /\ Flow(client', content, seen) /\ Live(client') /\ client.app' = "CONNECTED"
       /\ Range(client.up) \subseteq Range(client.up')
    BY <1>7, <1>8, <1>9
<1>11. task' = Idle /\ UNCHANGED <<waiting, content, dispatched, seen>>
    BY DEF onConnected, commands
<1>12. Held' /\ client.run' = TRUE /\ client.accepted' = TRUE
    BY <1>10 DEF Held, Live
<1>13. \A k \in Commands : ~Accepting(k)
    BY <1>1 DEF Accepting
<1>14. Answers(task)'
    BY <1>11, IdleFacts DEF Answers
<1>15. (seen \cup Range(client.up)) \cap Acks \subseteq seen' \cup Range(client.up')
    BY <1>10, <1>11
<1> QED
    BY <1>10, <1>11, <1>12, <1>13, <1>14, <1>15, OrderFacts, OrderStep

\* The handler.
LEMMA HandlerOrder ==
    ASSUME OnceInv, Order
    PROVE  ReceivesCommand \/ handleCommand \/ notePending => Order'
<1>1. ASSUME ReceivesCommand PROVE Order'
    <2> DEFINE d == Tail(client.down)
    <2>1. /\ client' = [client EXCEPT !.down = d]
          /\ task' = [Idle EXCEPT !.step = "handler", !.command = Incoming.command]
          /\ client.state = "CONNECTED" /\ LockFree
          /\ UNCHANGED <<waiting, content, dispatched, seen>>
        BY <1>1 DEF ReceivesCommand, Receives, commands
    <2>2. Held /\ Live(client) /\ Flow(client, content, seen) /\ IsClient(client) /\ client.app = "CONNECTED"
        BY <2>1, OrderFacts DEF Order, Fresh, Held, LockFree
    <2> HIDE DEF d
    <2>3. client' = Client(client.run, client.state, client.app, client.outbox, client.link,
                           client.up, d, client.accepted)
        BY <2>1, <2>2, DownFacts
    <2>4. /\ IsClient(client') /\ client'.up = client.up /\ client'.outbox = client.outbox
          /\ client'.app = client.app /\ client'.run = client.run /\ client'.state = client.state
          /\ client'.link = client.link /\ client'.accepted = client.accepted
        BY <2>3, ClientFields
    <2>5. Flow(client', content', seen')
        BY <2>1, <2>2, <2>4, FlowKept
    <2>6. Held' /\ client.run' = TRUE /\ client.accepted' = TRUE
        BY <2>2, <2>4 DEF Held, Live
    <2>7. \A k \in Commands : ~Accepting(k)
        BY <2>1 DEF Accepting, LockFree
    <2>8. task.step' = "handler"
        BY <2>1, IdleFacts
    <2>9. Answers(task)'
        BY <2>8 DEF Answers
    <2>10. (seen \cup Range(client.up)) \cap Acks \subseteq seen' \cup Range(client.up')
        BY <2>1, <2>4
    <2> QED
        BY <2>1, <2>5, <2>6, <2>7, <2>9, <2>10, OrderFacts, OrderStep
<1>2. ASSUME UNCHANGED <<client, waiting, content, seen>>, task.step \in {"handler", "note"}, Answers(task)',
             dispatched' \subseteq Commands, task.step' # "loop",
             \A c \in dispatched' : c \in dispatched \/ AcceptedOrAccepting(c)',
             \A c \in Commands : Accepting(c) => Accepting(c)'
      PROVE  Order'
    <2>1. Held /\ client.app = "CONNECTED" /\ client.run = TRUE /\ client.accepted = TRUE
          /\ Flow(client, content, seen) /\ IsClient(client)
        BY <1>2, OrderFacts DEF Order, Fresh, Held
    <2>2. Held' /\ client.run' = TRUE /\ client.accepted' = TRUE
        BY <1>2, <2>1 DEF Held
    <2>3. Flow(client', content', seen')
        BY <1>2, <2>1, FlowKept
    <2>4. (seen \cup Range(client.up)) \cap Acks \subseteq seen' \cup Range(client.up')
        BY <1>2
    <2> QED
        BY <1>2, <2>2, <2>3, <2>4, OrderFacts, OrderStep
<1>3. ASSUME handleCommand PROVE Order'
    <2> DEFINE c == task.command
               m == content[c]
    <2>1. PICK r \in IF Reads(m) THEN ResultsOf(m) ELSE {"REJECTED"} :
              /\ dispatched' = (IF r = "ACCEPTED" THEN dispatched \cup {c} ELSE dispatched)
              /\ task' = [task EXCEPT !.result = r,
                             !.step = IF r = "ACCEPTED" /\ RemovesLoad(m) THEN "note" ELSE "answer"]
        BY <1>3, Zenon DEF handleCommand
    <2>2. task.step = "handler" /\ UNCHANGED <<client, waiting, content, seen>>
        BY <1>3 DEF handleCommand
    <2>3. IsTask(task) /\ c \in Commands /\ m # Nothing
        BY <2>2 DEF OnceInv, Shape, Once, Handling
    <2>4. /\ r \in Results /\ (r = "APPLIED" => Named(m) /\ ~Remote(m))
          /\ r = "ACCEPTED" => Named(m)
        BY <2>1 DEF ResultsOf, Results, Reads
    <2> DEFINE s == IF r = "ACCEPTED" /\ RemovesLoad(m) THEN "note" ELSE "answer"
    <2>5. s \in {"note", "answer"}
        OBVIOUS
    <2>6. task' = [step |-> s, command |-> c, result |-> r]
        <3> HIDE DEF s
        <3>1. task' = [[step |-> task.step, command |-> task.command, result |-> task.result]
                         EXCEPT !.result = r, !.step = s]
            BY <2>1, <2>3, Zenon DEF IsTask, s
        <3> QED
            BY <3>1, Zenon
    <2> HIDE DEF s
    <2>7. task.step' \in {"note", "answer"} /\ task.command' = c /\ task.result' = r
        BY <2>5, <2>6
    <2>8. Answers(task)'
        BY <2>2, <2>3, <2>4, <2>7 DEF Answers
    <2>9. r = "ACCEPTED" => AcceptedOrAccepting(c)'
        BY <2>2, <2>3, <2>4, <2>7 DEF AcceptedOrAccepting, Accepting
    <2>10. \A k \in Commands : ~Accepting(k)
        BY <2>2 DEF Accepting
    <2>11. dispatched' \subseteq Commands /\ \A k \in dispatched' : k \in dispatched \/ AcceptedOrAccepting(k)'
        BY <2>1, <2>3, <2>9, OrderFacts
    <2> QED
        BY <1>2, <2>2, <2>7, <2>8, <2>10, <2>11
<1>4. ASSUME notePending PROVE Order'
    <2>1. /\ task.step = "note" /\ task' = [task EXCEPT !.step = "answer"]
          /\ UNCHANGED <<client, waiting, content, seen, dispatched>>
        BY <1>4 DEF notePending
    <2>2. task'.step = "answer" /\ task'.command = task.command /\ task'.result = task.result
        BY <2>1 DEF OnceInv, Shape, IsTask
    <2>3. Answers(task)'
        BY <2>1, <2>2 DEF Answers, Order
    <2>4. \A k \in Commands : Accepting(k) => Accepting(k)'
        BY <2>1, <2>2 DEF Accepting
    <2> QED
        BY <1>2, <2>1, <2>2, <2>3, <2>4, OrderFacts
<1> QED
    BY <1>1, <1>3, <1>4


\* The other tasks: the Node's answer, the status, and their publications.
LEMMA TaskOrder ==
    ASSUME OnceInv, Order
    PROVE  /\ publishStatus => Order'
           /\ \A c \in Commands : NodeAnswers(c) => Order'
           /\ \A t \in Publishers : Publishes(t) => Order'
<1>1. ASSUME UNCHANGED <<client, task, content, seen>>, WaitingAs(waiting'), dispatched' \subseteq dispatched, Held
      PROVE  Order'
    <2>1. client.run' = TRUE /\ client.accepted' = TRUE /\ Held'
        BY <1>1 DEF Order, Held
    <2>2. Flow(client', content', seen') /\ Answers(task)'
        BY <1>1, OrderFacts, FlowKept DEF Answers
    <2>3. \A k \in Commands : Accepting(k) => Accepting(k)'
        BY <1>1 DEF Accepting
    <2>4. (seen \cup Range(client.up)) \cap Acks \subseteq seen' \cup Range(client.up')
        BY <1>1
    <2>5. \A m \in seen' : Founded(m, content', seen')
        BY <1>1, OrderFacts
    <2> QED
        BY <1>1, <2>1, <2>2, <2>3, <2>4, <2>5, OrderFacts, OrderStep
<1>2. \A k, r : Ack(k, r) # Nothing /\ Ack(k, r) # Status
    BY DEF Ack, Nothing, Status
<1>3. ASSUME publishStatus PROVE Order'
    <2>1. /\ UNCHANGED <<client, task, content, seen, dispatched>> /\ client.app = "CONNECTED"
          /\ waiting' = [waiting EXCEPT !["planner"] = Status]
        BY <1>3 DEF publishStatus, commands
    <2>2. WaitingAs(waiting')
        BY <1>2, <2>1, OrderFacts DEF WaitingAs, Publishers
    <2> QED
        BY <1>1, <2>1, <2>2 DEF Order, Fresh
<1>4. ASSUME NEW c \in Commands, NodeAnswers(c) PROVE Order'
    <2>1. /\ UNCHANGED <<client, task, content, seen>>
          /\ c \in dispatched /\ dispatched' \subseteq dispatched
          /\ waiting' \in {waiting, [waiting EXCEPT !["espnow"] = Ack(c, "APPLIED")]}
        BY <1>4 DEF NodeAnswers
    <2>2. Held
        BY <2>1 DEF Order, Fresh
    <2>3. ASSUME waiting' = [waiting EXCEPT !["espnow"] = Ack(c, "APPLIED")]
          PROVE  WaitingAs(waiting')
        <3>1. Ack(c, "APPLIED") \in Acks
            BY DEF Acks, Results
        <3>2. waiting' \in [Publishers -> Acks \cup {Status, Nothing}]
            BY <2>3, <3>1, OrderFacts DEF WaitingAs
        <3>3. ASSUME NEW k \in Commands, NEW t \in Publishers, waiting'[t] = Ack(k, "APPLIED")
              PROVE  AcceptedOrAccepting(k)
            <4>1. CASE t = "espnow"
                <5>1. waiting'[t] = Ack(c, "APPLIED")
                    BY <2>3, <4>1, OrderFacts DEF WaitingAs
                <5>2. k = c
                    BY <3>3, <5>1, AcksDiffer
                <5> QED
                    BY <2>1, <5>2, OrderFacts
            <4>2. CASE t # "espnow"
                <5>1. waiting'[t] = waiting[t]
                    BY <2>3, <4>2, OrderFacts DEF WaitingAs
                <5> QED
                    BY <3>3, <5>1, OrderFacts DEF WaitingAs
            <4> QED
                BY <4>1, <4>2
        <3> QED
            BY <3>2, <3>3 DEF WaitingAs
    <2> QED
        BY <1>1, <2>1, <2>2, <2>3, OrderFacts
<1>5. ASSUME NEW t \in Publishers, Publishes(t) PROVE Order'
    <2> DEFINE m == waiting[t]
               p == Published(client, m, TRUE)
               W == seen \cup Range(client.up)
    <2>1. /\ m # Nothing /\ task.step = "loop" /\ UNCHANGED <<task, content, dispatched, seen>>
          /\ waiting' = [waiting EXCEPT ![t] = Nothing]
          /\ \E ok \in WriteResults(client) : client' = Published(client, m, ok)
        BY <1>5 DEF Publishes, MayPublish, LockFree, commands
    <2>2. Held /\ client.app = "CONNECTED"
        BY <2>1 DEF Order, Fresh, Held
    <2>3. Live(client) /\ Flow(client, content, seen)
        BY <2>2, OrderFacts
    <2>4. client' = p
        BY <2>1, <2>3, LiveWrites
    <2>5. m \in Packets
        BY <2>1, OrderFacts DEF WaitingAs, Packets
    <2>6. \A k \in Commands : ~Accepting(k)
        BY <2>1 DEF Accepting
    <2>7. Founded(m, content, W)
        BY <2>6, OrderFacts DEF Founded, WaitingAs, AcceptedOrAccepting
    <2> HIDE DEF m
    <2>8. MaySend(client, content, seen, m, client.outbox)
        BY <2>3, <2>5, <2>7 DEF MaySend, Flow, UpPackets
    <2>9. Sends(p, client, content, seen, m)
        BY <2>5, <2>8, PublishedFlow
    <2> HIDE DEF p
    <2>10. /\ Flow(client', content', seen') /\ Live(client') /\ client.app' = "CONNECTED"
           /\ Range(client.up) \subseteq Range(client.up')
        BY <2>1, <2>2, <2>4, <2>9 DEF Sends
    <2>11. Held' /\ client.run' = TRUE /\ client.accepted' = TRUE
        BY <2>10 DEF Held, Live
    <2>12. WaitingAs(waiting')
        BY <1>2, <2>1, OrderFacts DEF WaitingAs
    <2>13. Answers(task)'
        BY <2>1 DEF Answers
    <2>14. (seen \cup Range(client.up)) \cap Acks \subseteq seen' \cup Range(client.up')
        BY <2>1, <2>10
    <2> QED
        BY <2>1, <2>6, <2>10, <2>11, <2>12, <2>13, <2>14, OrderFacts, OrderStep
<1> QED
    BY <1>3, <1>4, <1>5

\* The broker and the frontend.
LEMMA BrokerOrder ==
    ASSUME OnceInv, Order, BrokerReceives
    PROVE  Order'
<1> DEFINE u == client.up
           m == Head(u)
           v == Tail(u)
           t == seen \cup ({m} \cap Acks)
           d == IF (m \in {Status, Subscribe} \cup Acks) /\ client.link = "up"
                THEN Append(client.down, Acknowledged(m)) ELSE client.down
           e == [client EXCEPT !.up = v, !.down = d]
<1>1. /\ u # <<>> /\ client' = e /\ seen' = t
      /\ UNCHANGED <<task, waiting, content, dispatched>>
    BY Zenon DEF BrokerReceives, commands
<1>2. Held /\ client.run = TRUE /\ client.accepted = TRUE /\ Flow(client, content, seen)
    BY <1>1 DEF Order, Fresh
<1>3. e = Client(client.run, client.state, client.app, client.outbox, client.link, v, d, client.accepted)
    <2> HIDE DEF v, d
    <2>1. e = [Client(client.run, client.state, client.app, client.outbox, client.link,
                      client.up, client.down, client.accepted) EXCEPT !.up = v, !.down = d]
        BY <1>2, Zenon DEF Flow, IsClient
    <2> HIDE DEF e
    <2> QED
        BY <2>1, Zenon DEF Client
<1>4. /\ Founded(m, content, seen) /\ UpInOrder(v, content, t)
      /\ (seen \cup Range(u)) \cap Acks \subseteq t \cup Range(v)
    BY <1>1, <1>2, FirstUp DEF Flow
<1> HIDE DEF e, v, d
<1>5. /\ IsClient(e) /\ e.run = client.run /\ e.state = client.state /\ e.app = client.app
      /\ e.outbox = client.outbox /\ e.link = client.link /\ e.up = v /\ e.accepted = client.accepted
    BY <1>3, ClientFields
<1>6. Held' /\ client.run' = TRUE /\ client.accepted' = TRUE
    BY <1>1, <1>2, <1>5 DEF Held
<1>7. OutboxInOrder(client.outbox, content, seen \cup Range(u))
    BY <1>2 DEF Flow
<1> HIDE DEF m, t, u
<1>8. OutboxInOrder(client.outbox, content, t \cup Range(v))
    BY <1>4, <1>7, OutboxMore
<1>9. Flow(client', content', seen')
    BY <1>1, <1>4, <1>5, <1>8 DEF Flow
<1>10. \A n \in seen' : Founded(n, content', seen')
    <2>1. seen \cap Acks \subseteq t
        BY DEF t
    <2>2. \A n \in seen : Founded(n, content, t)
        BY <2>1, OrderFacts, FoundedMore
    <2>3. Founded(m, content, t)
        BY <1>4, <2>1, FoundedMore
    <2> QED
        BY <1>1, <2>2, <2>3 DEF t
<1>11. \A k \in Commands : Accepting(k) => Accepting(k)'
    BY <1>1 DEF Accepting
<1>12. Answers(task)'
    BY <1>1, OrderFacts DEF Answers
<1>13. (seen \cup Range(client.up)) \cap Acks \subseteq seen' \cup Range(client.up')
    BY <1>1, <1>4, <1>5 DEF u
<1> QED
    BY <1>1, <1>6, <1>9, <1>10, <1>11, <1>12, <1>13, OrderFacts, OrderStep

\* FrontendSends: one more command has its message.
LEMMA FrontendOrder ==
    ASSUME OnceInv, Order, NEW c \in Commands, NEW n \in Messages, FrontendSends(c, n)
    PROVE  Order'
<1>1. /\ content[c] = Nothing /\ \A k \in Commands : k # c => content'[k] = content[k]
      /\ UNCHANGED <<task, waiting, dispatched, seen>>
    BY DEF FrontendSends, OnceInv, Shape
<1>2. \A k \in Commands : content[k] # Nothing => content'[k] = content[k]
    BY <1>1
<1>3. /\ IsClient(client') /\ client'.run = client.run /\ client'.state = client.state
      /\ client'.app = client.app /\ client'.outbox = client.outbox /\ client'.link = client.link
      /\ client'.up = client.up /\ client'.accepted = client.accepted
    <2> DEFINE d == Append(client.down, CommandMessage(c))
               e == [client EXCEPT !.down = d]
    <2>1. client' \in {client, e}
        BY Zenon DEF FrontendSends
    <2>2. e = Client(client.run, client.state, client.app, client.outbox, client.link,
                     client.up, d, client.accepted)
        <3> HIDE DEF d
        <3> QED
            BY OrderFacts, DownFacts
    <2> HIDE DEF e, d
    <2>3. /\ IsClient(e) /\ e.run = client.run /\ e.state = client.state
          /\ e.app = client.app /\ e.outbox = client.outbox /\ e.link = client.link
          /\ e.up = client.up /\ e.accepted = client.accepted
        BY <2>2, ClientFields
    <2> QED
        BY <2>1, <2>3, OrderFacts
<1>4. /\ Flow(client', content', seen')
      /\ \A m \in seen' : Founded(m, content', seen')
    BY <1>1, <1>2, <1>3, OrderFacts, FlowKept
<1>5. Fresh' \/ Held'
    BY <1>1, <1>3 DEF Order, Fresh, Held
<1>6. client.run' = TRUE /\ client.accepted' = TRUE
    BY <1>3 DEF Order
<1>7. ASSUME task.step \in {"note", "answer"}
      PROVE  content'[task.command] = content[task.command]
    BY <1>2, <1>7, OrderFacts DEF Answers, OnceInv, Shape
<1>8. Answers(task)' /\ \A k \in Commands : Accepting(k) => Accepting(k)'
    BY <1>1, <1>7, OrderFacts DEF Answers, Accepting
<1>9. (seen \cup Range(client.up)) \cap Acks \subseteq seen' \cup Range(client.up')
    BY <1>1, <1>3
<1> QED
    BY <1>1, <1>2, <1>4, <1>5, <1>6, <1>8, <1>9, OrderFacts, OrderStep

\* What cannot happen, or is the first disturbance.
LEMMA DisturbingSteps ==
    ASSUME OnceInv, Order, Undisturbed'
    PROVE  /\ ~Reconnects /\ ~ConnectFails /\ ~LossNoticed /\ ~Expires
           /\ ~StopsClient /\ ~Breaks /\ ~PowerCut /\ ~PowerReturns /\ ~TaskEnds /\ ~StartsClient
<1>1. faults \in Nat /\ rebinds \in Nat /\ faults' = 0 /\ rebinds' = 0
    BY DEF OnceInv, Shape, Undisturbed
<1>2. faults' # faults + 1 /\ rebinds' # rebinds + 1
    BY <1>1
<1>3. client.run = TRUE /\ client.accepted = TRUE /\ (Fresh \/ Held)
    BY DEF Order
<1>4. client.state \in {"INIT", "CONNECTED"} /\ (client.state = "CONNECTED" => client.link = "up")
    BY <1>3 DEF Fresh, Held
<1>5. ~ConnectFails /\ ~Breaks /\ ~PowerCut /\ ~StopsClient
    BY <1>2, <1>3 DEF ConnectFails, Breaks, PowerCut, StopsClient
<1>6. ~Reconnects /\ ~LossNoticed /\ ~PowerReturns /\ ~TaskEnds /\ ~StartsClient
    BY <1>3, <1>4 DEF Reconnects, LossNoticed, PowerReturns, TaskEnds, StartsClient
<1>7. ~Expires
    <2> SUFFICES ASSUME Expires PROVE FALSE
        OBVIOUS
    <2>1. client.link # "up" /\ (SUBSET DOMAIN client.outbox) \ {{}} # {}
        BY DEF Expires
    <2>2. client.outbox = <<>>
        BY <1>3, <2>1 DEF Fresh, Held
    <2>3. DOMAIN client.outbox = {}
        BY <2>2
    <2> QED
        BY <2>1, <2>3
<1> QED
    BY <1>5, <1>6, <1>7

\* A step that changes none of this.
LEMMA UnchangedOrder ==
    ASSUME Order, UNCHANGED <<client, task, waiting, content, dispatched, seen>>
    PROVE  Order'
<1>1. Fresh' \/ Held'
    BY DEF Order, Fresh, Held
<1>2. Flow(client', content', seen') /\ Answers(task)'
    BY OrderFacts DEF Answers
<1>3. \A k \in Commands : Accepting(k) => Accepting(k)'
    BY DEF Accepting
<1>4. (seen \cup Range(client.up)) \cap Acks \subseteq seen' \cup Range(client.up')
    OBVIOUS
<1>5. client.run' = TRUE /\ client.accepted' = TRUE
    BY DEF Order
<1> QED
    BY <1>1, <1>2, <1>3, <1>4, <1>5, OrderFacts, OrderStep

\* The bounds' counters only go up.
Counts == faults' \in {faults, faults + 1} /\ rebinds' \in {rebinds, rebinds + 1}

\* Every step counts up, if at all.
LEMMA StepCounts == [Next]_vars => Counts
<1>1. Connects \/ Reconnects \/ onConnected => Counts
    BY DEF Connects, Reconnects, onConnected, Counts, bounds
<1>2. ReceivesSuback \/ ReceivesPuback \/ ReceivesCommand \/ Retransmits => Counts
    BY DEF ReceivesSuback, ReceivesPuback, ReceivesCommand, Retransmits, Acknowledge, Counts, bounds
<1>3. handleCommand \/ notePending \/ answerCommand => Counts
    BY DEF handleCommand, notePending, answerCommand, Counts, bounds
<1>4. publishStatus \/ ConnectFails \/ Expires \/ StopsClient \/ Breaks \/ PowerCut \/ PowerReturns => Counts
    BY DEF publishStatus, ConnectFails, Expires, StopsClient, Breaks, PowerCut, PowerReturns, Counts, bounds
<1>5. \A c \in Commands, m \in Messages : FrontendSends(c, m) => Counts
    BY DEF FrontendSends, Counts, bounds
<1>6. \A c \in Commands : NodeAnswers(c) => Counts
    BY DEF NodeAnswers, Counts, bounds
<1>7. \A t \in Publishers : Publishes(t) => Counts
    BY DEF Publishes, Counts, bounds
<1>8. LossNoticed \/ TaskEnds \/ StartsClient \/ BrokerLosesClient => Counts
    BY DEF LossNoticed, TaskEnds, StartsClient, BrokerLosesClient, Counts, bounds
<1>9. BrokerReceives => Counts
    BY DEF BrokerReceives, Counts
<1>10. UNCHANGED vars => Counts
    BY DEF vars, Counts
<1> QED
    BY <1>1, <1>2, <1>3, <1>4, <1>5, <1>6, <1>7, <1>8, <1>9, <1>10 DEF Next, ClientTask, Environment

\* Every step that is no disturbance keeps the order.
LEMMA StepOrder == OnceInv /\ Order /\ Undisturbed' /\ [Next]_vars => Order'
<1> SUFFICES ASSUME OnceInv, Order, Undisturbed', [Next]_vars PROVE Order'
    OBVIOUS
<1>1. CASE ClientTask
    BY <1>1, ConnectOrder, ConnectedOrder, LoopSteps, HandlerOrder, AnswerStep, DisturbingSteps DEF ClientTask
<1>2. CASE Environment
    BY <1>2, TaskOrder, FrontendOrder, DisturbingSteps DEF Environment
<1>3. BrokerLosesClient \/ UNCHANGED vars => Order'
    <2>1. BrokerLosesClient \/ UNCHANGED vars => UNCHANGED <<client, task, waiting, content, dispatched, seen>>
        BY DEF BrokerLosesClient, vars, commands
    <2> QED
        BY <2>1, UnchangedOrder
<1> QED
    BY <1>1, <1>2, <1>3, TaskOrder, BrokerOrder, DisturbingSteps DEF Next

\* Every step keeps the invariant.
LEMMA StepInv == Inv /\ [Next]_vars => Inv'
<1> SUFFICES ASSUME Inv, [Next]_vars PROVE Inv'
    OBVIOUS
<1>1. OnceInv /\ OnceInv'
    BY StepOnceInv DEF Inv
<1>2. ASSUME Undisturbed' PROVE Order'
    <2>1. faults \in Nat /\ rebinds \in Nat /\ Counts
        BY <1>1, StepCounts DEF OnceInv, Shape
    <2>2. Undisturbed
        BY <1>2, <2>1 DEF Undisturbed, Counts
    <2> QED
        BY <1>1, <1>2, <2>2, StepOrder DEF Inv, OrderInv
<1> QED
    BY <1>1, <1>2 DEF Inv, OrderInv

\* The invariant holds before the first connection.
LEMMA InitInv == Init => Inv
<1> SUFFICES ASSUME Init PROVE Order
    BY InitOnceInv DEF Inv, OrderInv
<1>1. client = Client(TRUE, "INIT", "CONNECTING", <<>>, "closed", <<>>, <<>>, TRUE)
    <2> DEFINE s == Started(NewClient(TRUE))
    <2>1. s = [[run |-> FALSE, state |-> "OFF", app |-> "DISCONNECTED", outbox |-> <<>>, link |-> "closed",
                up |-> <<>>, down |-> <<>>, accepted |-> TRUE]
                  EXCEPT !.run = TRUE, !.state = "INIT", !.app = "CONNECTING"]
        BY Zenon DEF Started, NewClient
    <2> HIDE DEF s
    <2>2. s = Client(TRUE, "INIT", "CONNECTING", <<>>, "closed", <<>>, <<>>, TRUE)
        BY <2>1, Zenon DEF Client
    <2> QED
        BY <2>2 DEF Init, s
<1>2. /\ IsClient(client) /\ client.run = TRUE /\ client.accepted = TRUE /\ client.state = "INIT"
      /\ client.app = "CONNECTING" /\ client.outbox = <<>> /\ client.up = <<>>
    BY <1>1, Zenon DEF IsClient, Client
<1>3. /\ task.step = "loop" /\ waiting = [t \in Publishers |-> Nothing]
      /\ dispatched = {} /\ seen = {}
    BY IdleFacts DEF Init
<1>4. Fresh
    BY <1>2, <1>3 DEF Fresh
<1>5. Flow(client, content, seen)
    <2>1. <<>> \in Seq(UpPackets) /\ <<>> \in Seq(Items) /\ DOMAIN <<>> = {}
        OBVIOUS
    <2> QED
        BY <1>2, <2>1 DEF Flow, UpInOrder, OutboxInOrder
<1>6. \A k \in Commands, t \in Publishers : waiting[t] # Ack(k, "APPLIED")
    BY <1>3 DEF Ack, Nothing
<1>7. waiting \in [Publishers -> Acks \cup {Status, Nothing}]
    BY <1>3
<1> QED
    BY <1>2, <1>3, <1>4, <1>5, <1>6, <1>7 DEF Order

-----------------------------------------------------------------------------
\* The invariant of the session: where a command is, and how often its handler
\* has run (deliver_publish() before the PUBACK, on a clean session); and, while
\* the connection has held, that on every way to the frontend an acceptance
\* precedes what the Node applied (the API lock, taken around a whole turn of
\* esp_mqtt_task()).
THEOREM Inductive == Spec => []Inv
<1> QED
    BY InitInv, StepInv, PTL DEF Spec

\* onDataReceived() runs the handler of a command at most once: the broker
\* forgets what was not acknowledged when the connection ends, and on one
\* connection it delivers a command once.
THEOREM RunsOnce == Spec => []HandledOnce
<1>1. Inv => HandledOnce
    BY DEF Inv, OnceInv, Once, HandledOnce
<1> QED
    BY <1>1, Inductive, PTL

\* publishAcknowledgement() of the Node's answer waits for the API lock that the
\* handler's turn holds: on a connection that holds, the frontend sees APPLIED
\* only after ACCEPTED.
THEOREM AcceptanceComesFirst == Spec => []AcceptedBeforeApplied
<1>1. Inv => AcceptedBeforeApplied
    <2> SUFFICES ASSUME Inv, faults = 0, rebinds = 0, NEW c \in Commands,
                        Ack(c, "APPLIED") \in seen, Remote(content[c])
                 PROVE  Ack(c, "ACCEPTED") \in seen
        BY DEF AcceptedBeforeApplied
    <2>1. \A m \in seen : Founded(m, content, seen)
        BY DEF Inv, OrderInv, Undisturbed, Order
    <2> QED
        BY <2>1 DEF Founded
<1> QED
    BY <1>1, Inductive, PTL

-----------------------------------------------------------------------------
(***************************************************************************)
(* The manager of the client and the station below it, as Connectivity     *)
(* describes them.                                                         *)
(***************************************************************************)
-----------------------------------------------------------------------------
(***************************************************************************)
(* The station and the channel.                                            *)
(***************************************************************************)

\* The types the two arguments need.  A station without a network has
\* nothing to do.
StationTyped ==
    /\ air \in [Ssids -> Channels \cup {Nowhere}]
    /\ flash \in [wifi : Ssids \cup {None}, channel : Channels \cup {Nowhere},
                  broker : Brokers \cup {None}]
    /\ station \in [ssid : Ssids \cup {None},
                    state : {"DISCONNECTED", "SCANNING", "CONNECTING",
                             "CONNECTED_AWAITING_IP", "CONNECTED_WITH_IP"},
                    on : Channels \cup {Nowhere}, timer : BOOLEAN, unsaved : BOOLEAN]
    /\ starter \in [Starters -> [at : {"idle", "destroy", "create", "start", "done"},
                                 broker : Brokers \cup {None}]]
    /\ station.ssid = None => station.state = "DISCONNECTED" /\ ~station.timer

Associated == station.state \in {"CONNECTED_AWAITING_IP", "CONNECTED_WITH_IP"}

\* From the scan on, while the access point stays where it was found, it is on
\* the radio's channel, and so is whoever has associated with it.
ScanHolds ==
    /\ steady /\ (Associated \/ station.state = "CONNECTING") => air[station.ssid] = radio
    /\ steady /\ Associated => station.on = radio

-----------------------------------------------------------------------------
(***************************************************************************)
(* The start of the client.                                                *)
(***************************************************************************)

Resting(t) == starter[t].at = "idle"

\* While no start has met another one, or a change of the broker, at most one
\* task starts the client, it does so with the stored broker, and what it has
\* created or started is what client_ is.
OneStart ==
    ~missed =>
        /\ \A t, u \in Starters : Resting(t) \/ Resting(u) \/ t = u
        /\ \A t \in Starters :
              /\ Resting(t) => starter[t] = Unstarted
              /\ ~Resting(t) => ~mqttStarted /\ starter[t].broker = flash.broker
              /\ starter[t].at = "start" => handle = Handle(t)
              /\ starter[t].at = "done" => handle \in started /\ handle.broker = flash.broker
        /\ mqttStarted => handle \in started /\ handle.broker = flash.broker

StationInv == StationTyped /\ ScanHolds /\ OneStart

-----------------------------------------------------------------------------
(***************************************************************************)
(* A restart begins anew, with whatever the flash holds.                   *)
(***************************************************************************)

\* A restart makes the invariant true, whatever the flash holds.
LEMMA RestartKeepsInv ==
    ASSUME StationInv, UNCHANGED air,
           NEW f \in [wifi : Ssids \cup {None}, channel : Channels \cup {Nowhere},
                      broker : Brokers \cup {None}],
           Restart(f)
    PROVE  StationInv'
<1>1. StationTyped'
    BY ConnectivityAssumption
       DEF ConnectivityAssumption, StationInv, StationTyped, Restart,
           StationOf, NewStation, Unstarted, Nowhere
<1>2. ScanHolds'
    BY DEF Restart, StationOf, NewStation, ScanHolds, Associated
<1>3. OneStart'
    BY DEF Restart, OneStart, Resting, Unstarted
<1> QED
    BY <1>1, <1>2, <1>3 DEF StationInv

\* The Central starts as after a restart.
LEMMA InitStationInv ==
    ASSUME ConnectivityInit PROVE StationInv
<1>1. StationTyped
    BY ConnectivityAssumption
       DEF ConnectivityAssumption, ConnectivityInit, StationTyped, EmptyFlash,
           StationOf, NewStation, Unstarted, Nowhere
<1>2. ScanHolds
    BY DEF ConnectivityInit, EmptyFlash, StationOf, NewStation, ScanHolds,
           Associated
<1>3. OneStart
    BY DEF ConnectivityInit, OneStart, Resting, Unstarted
<1> QED
    BY <1>1, <1>2, <1>3 DEF StationInv

\* What touches neither the client, the starters nor the flash leaves the
\* starts as they are.
LEMMA StartsUntouched == OneStart /\ UNCHANGED <<flash, mqttVars>> => OneStart'
    BY DEF OneStart, mqttVars, Resting, Handle

\* Every event of the station keeps the invariant: an attempt to connect comes
\* after a scan that found the radio's channel.
LEMMA StationKeepsInv ==
    ASSUME StationInv, Station PROVE StationInv'
<1> USE DEF StationInv
<1>0. Nowhere \notin Channels
    BY ConnectivityAssumption DEF ConnectivityAssumption, Nowhere
<1>1. CASE ReconnectTimer
    BY <1>1, StartsUntouched
       DEF ReconnectTimer, StationTyped, ScanHolds, Associated, mqttVars
<1>2. CASE ScanFindsNothing
    BY <1>2, <1>0, StartsUntouched
       DEF ScanFindsNothing, Disconnected, StationTyped, ScanHolds,
           Associated, mqttVars, Nowhere
<1>3. CASE ScanFindsOtherChannel
    <2>1. CASE Restart(WithChannel(flash, air[station.ssid])) /\ UNCHANGED air
        <3>1. WithChannel(flash, air[station.ssid])
                \in [wifi : Ssids \cup {None}, channel : Channels \cup {Nowhere},
                     broker : Brokers \cup {None}]
            BY <1>3 DEF ScanFindsOtherChannel, StationTyped, WithChannel
        <3> QED
            BY <2>1, <3>1, RestartKeepsInv
    <2>2. CASE /\ station' = [station EXCEPT !.state = "DISCONNECTED", !.unsaved = TRUE]
               /\ UNCHANGED <<air, steady, flash, radio, mqttVars>>
        <3>1. ~ station.timer \/ station.ssid # None
            BY DEF StationTyped
        <3> QED
            BY <1>3, <2>2, <3>1, StartsUntouched
               DEF ScanFindsOtherChannel, StationTyped, ScanHolds, Associated,
                   mqttVars
    <2> QED
        BY <1>3, <2>1, <2>2 DEF ScanFindsOtherChannel
<1>4. CASE ScanFindsNetwork
    <2>1. /\ station.state = "SCANNING" /\ air[station.ssid] = radio
          /\ UNCHANGED <<air, flash, radio, mqttVars>>
          /\ \/ station' = [station EXCEPT !.state = "CONNECTING"]
             \/ station' = [station EXCEPT !.state = "DISCONNECTED", !.on = Nowhere,
                                            !.timer = TRUE]
        BY <1>4 DEF ScanFindsNetwork, OnRadio, Disconnected
    <2>2. StationTyped'
        <3>1. station.ssid # None /\ UNCHANGED <<air, flash, starter>>
            BY <2>1 DEF StationTyped, mqttVars
        <3>2. station'.ssid = station.ssid
            BY <2>1 DEF StationTyped
        <3>3. CASE station' = [station EXCEPT !.state = "CONNECTING"]
            BY <3>1, <3>2, <3>3 DEF StationTyped
        <3>4. CASE station' = [station EXCEPT !.state = "DISCONNECTED", !.on = Nowhere,
                                              !.timer = TRUE]
            BY <3>1, <3>2, <3>4 DEF StationTyped
        <3> QED
            BY <2>1, <3>3, <3>4
    <2>3. ScanHolds'
        BY <2>1 DEF StationTyped, ScanHolds, Associated
    <2>4. OneStart'
        BY <2>1, StartsUntouched
    <2> QED
        BY <2>2, <2>3, <2>4
<1>5. CASE StationConnected
    BY <1>5, <1>0, StartsUntouched
       DEF StationConnected, StationTyped, ScanHolds, Associated, mqttVars
<1>6. CASE GotIp
    BY <1>6, StartsUntouched
       DEF GotIp, StationTyped, ScanHolds, Associated, mqttVars
<1>7. CASE StationDisconnected
    BY <1>7, <1>0, StartsUntouched
       DEF StationDisconnected, Disconnected, StationTyped, ScanHolds,
           Associated, mqttVars, Nowhere
<1> QED
    BY <1>1, <1>2, <1>3, <1>4, <1>5, <1>6, <1>7 DEF Station

-----------------------------------------------------------------------------
(***************************************************************************)
(* Commands, the portal and the household.                                 *)
(***************************************************************************)

\* A command may change the stored broker only when it lets the client start
\* anew, or is known to have missed a start.
LEMMA CommandKeepsInv ==
    ASSUME StationInv,
           \/ setupWifi \/ handlePostSave \/ setWifi \/ clearWifi
           \/ setMqtt \/ clearMqtt \/ system
    PROVE  StationInv'
<1> USE DEF StationInv
<1>1. CASE setupWifi
    BY <1>1, StartsUntouched
       DEF setupWifi, StationTyped, ScanHolds, Associated, mqttVars
<1>2. CASE handlePostSave
    <2>1. flash' \in [wifi : Ssids \cup {None}, channel : Channels \cup {Nowhere},
                     broker : Brokers \cup {None}]
        BY <1>2 DEF handlePostSave, StationTyped, WithWifi, WithBroker
    <2>2. missed' = (missed \/ flash'.broker # flash.broker)
        BY <1>2 DEF handlePostSave
    <2>3. UNCHANGED <<air, steady, radio, station, handle, started, mqttStarted, starter>>
        BY <1>2 DEF handlePostSave
    <2>4. StationTyped' /\ ScanHolds'
        BY <2>1, <2>3 DEF StationTyped, ScanHolds, Associated
    <2>5. OneStart'
        BY <2>2, <2>3 DEF OneStart, Resting, Handle
    <2> QED
        BY <2>4, <2>5
<1>3. CASE setWifi
    <2>1. PICK s \in Ssids, c \in Channels \cup {flash.channel} :
            flash' = WithChannel(WithWifi(flash, s), c)
        BY <1>3 DEF setWifi
    <2>2. flash' \in [wifi : Ssids \cup {None}, channel : Channels \cup {Nowhere},
                     broker : Brokers \cup {None}]
          /\ flash'.broker = flash.broker
        BY <2>1 DEF StationTyped, WithWifi, WithChannel
    <2>3. UNCHANGED <<air, wifiVars, steady, mqttVars>>
        BY <1>3 DEF setWifi
    <2>4. StationTyped' /\ ScanHolds'
        BY <2>2, <2>3
           DEF StationTyped, ScanHolds, Associated, wifiVars, mqttVars
    <2>5. OneStart'
        BY <2>2, <2>3 DEF OneStart, Resting, Handle, mqttVars
    <2> QED
        BY <2>4, <2>5
<1>4. CASE clearWifi
    <2>1. flash' \in [wifi : Ssids \cup {None}, channel : Channels \cup {Nowhere},
                     broker : Brokers \cup {None}]
          /\ flash'.broker = flash.broker
        BY <1>4 DEF clearWifi, StationTyped, WithWifi
    <2>2. UNCHANGED <<air, wifiVars, steady, mqttVars>>
        BY <1>4 DEF clearWifi
    <2>3. StationTyped' /\ ScanHolds'
        BY <2>1, <2>2
           DEF StationTyped, ScanHolds, Associated, wifiVars, mqttVars
    <2>4. OneStart'
        BY <2>1, <2>2 DEF OneStart, Resting, Handle, mqttVars
    <2> QED
        BY <2>3, <2>4
<1>5. CASE setMqtt \/ clearMqtt
    <2>1. flash' \in [wifi : Ssids \cup {None}, channel : Channels \cup {Nowhere},
                     broker : Brokers \cup {None}]
        BY <1>5 DEF setMqtt, clearMqtt, StationTyped, WithBroker
    <2>2. /\ mqttStarted' = FALSE
          /\ missed' = (missed \/ MeetsStart)
          /\ UNCHANGED <<air, wifiVars, steady, handle, started, starter>>
        BY <1>5 DEF setMqtt, clearMqtt
    <2>3. StationTyped' /\ ScanHolds'
        BY <2>1, <2>2 DEF StationTyped, ScanHolds, Associated, wifiVars
    <2>4. ~ missed' => \A t \in Starters : starter[t] = Unstarted
        BY <2>2 DEF MeetsStart
    <2>5. OneStart'
        BY <2>2, <2>4 DEF OneStart, Resting, Unstarted
    <2> QED
        BY <2>3, <2>5
<1>6. CASE system
    <2>1. CASE rebootCentral
        BY <2>1, StartsUntouched
           DEF rebootCentral, StationTyped, ScanHolds, Associated, mqttVars
    <2>2. CASE factoryResetCentral
        BY <2>2, RestartKeepsInv DEF factoryResetCentral, EmptyFlash
    <2> QED
        BY <1>6, <2>1, <2>2 DEF system
<1> QED
    BY <1>1, <1>2, <1>3, <1>4, <1>5, <1>6

\* An access point that moves is no longer where the scan found it.
LEMMA OutsideKeepsInv ==
    ASSUME StationInv,
           AccessPointMoves \/ RestartTimer \/ CentralPowerCut
    PROVE  StationInv'
<1> USE DEF StationInv
<1>1. CASE AccessPointMoves
    <2>1. PICK s \in Ssids, c \in Channels \cup {Nowhere} :
            /\ air' = [air EXCEPT ![s] = c]
            /\ steady' = (steady /\ s # station.ssid)
        BY <1>1 DEF AccessPointMoves
    <2>2. UNCHANGED <<flash, radio, station, mqttVars>>
        BY <1>1 DEF AccessPointMoves, wifiVars
    <2>3. StationTyped'
        BY <2>1, <2>2 DEF StationTyped, mqttVars
    <2>4. (Associated \/ station.state = "CONNECTING") => station.ssid \in Ssids
        BY DEF StationTyped, Associated
    <2>5. ScanHolds'
        BY <2>1, <2>2, <2>4 DEF StationTyped, ScanHolds, Associated
    <2> QED
        BY <2>2, <2>3, <2>5, StartsUntouched
<1>2. CASE RestartTimer \/ CentralPowerCut
    BY <1>2, RestartKeepsInv DEF RestartTimer, CentralPowerCut, StationTyped
<1> QED
    BY <1>1, <1>2

-----------------------------------------------------------------------------
(***************************************************************************)
(* The two starters, and the client.                                       *)
(***************************************************************************)

\* A step of a start that meets no other one goes on with its own client; one
\* that begins while another is on its way is known to have met it.
LEMMA StartKeepsInv ==
    ASSUME StationInv, NEW t \in Starters, Start(t) PROVE StationInv'
<1> USE DEF StationInv
<1>1. UNCHANGED <<air, steady, flash, wifiVars>>
    BY DEF Start, checkMqttStartTrigger, destroyClient,
           createClient, startClient, noteStarted
<1>2. ScanHolds'
    BY <1>1 DEF ScanHolds, Associated, wifiVars
<1>3. starter' \in [Starters -> [at : {"idle", "destroy", "create", "start", "done"},
                                 broker : Brokers \cup {None}]]
    BY DEF StationTyped, Start, checkMqttStartTrigger, destroyClient,
           createClient, startClient,
           startFailed, noteStarted, GoesTo, Unstarted
<1>4. StationTyped'
    BY <1>1, <1>3 DEF StationTyped, wifiVars
<1>5. CASE checkMqttStartTrigger(t)
    <2>1. /\ starter' = [starter EXCEPT ![t] = [at |-> "destroy", broker |-> flash.broker]]
          /\ missed' = (missed \/ MeetsStart)
          /\ ~ mqttStarted
          /\ UNCHANGED <<handle, started, mqttStarted>>
        BY <1>5 DEF checkMqttStartTrigger
    <2>2. ~ missed' => \A u \in Starters : starter[u] = Unstarted
        BY <2>1 DEF MeetsStart
    <2>3. ~ missed' => \A u \in Starters \ {t} : starter'[u] = Unstarted
        BY <2>1, <2>2 DEF StationTyped
    <2>4. starter'[t] = [at |-> "destroy", broker |-> flash.broker]
        BY <2>1 DEF StationTyped
    <2>5. OneStart'
        BY <1>1, <2>1, <2>3, <2>4 DEF OneStart, Resting, Unstarted
    <2> QED
        BY <1>2, <1>4, <2>5
<1>6. ASSUME ~ missed, ~ Resting(t), UNCHANGED missed,
             \A u \in Starters \ {t} : starter'[u] = starter[u]
      PROVE  /\ ~ mqttStarted /\ starter[t].broker = flash.broker
             /\ \A u \in Starters \ {t} : starter[u] = Unstarted /\ starter'[u] = Unstarted
    BY <1>6 DEF OneStart
<1>7. CASE destroyClient(t)
    <2>1. starter' = [starter EXCEPT ![t].at = "create"] /\ starter[t].at = "destroy"
        BY <1>7 DEF destroyClient, GoesTo
    <2>2. \A u \in Starters \ {t} : starter'[u] = starter[u]
        BY <2>1 DEF StationTyped
    <2>3. starter'[t].at = "create" /\ starter'[t].broker = starter[t].broker
        BY <2>1 DEF StationTyped
    <2>4. UNCHANGED <<mqttStarted, missed, flash>>
        BY <1>7 DEF destroyClient
    <2>5. OneStart'
        BY <1>6, <2>1, <2>2, <2>3, <2>4 DEF OneStart, Resting, Unstarted
    <2> QED
        BY <1>2, <1>4, <2>5
<1>8. CASE createClient(t)
    <2>1. starter[t].at = "create" /\ UNCHANGED <<mqttStarted, missed, flash>>
        BY <1>8 DEF createClient
    <2>2. \A u \in Starters \ {t} : starter'[u] = starter[u]
        BY <1>8 DEF createClient, GoesTo, StationTyped
    <2>3. CASE handle' = Handle(t) /\ GoesTo(t, "start")
        <3>1. /\ starter'[t].at = "start"
              /\ starter'[t].broker = starter[t].broker
              /\ handle' = [by |-> t, broker |-> starter[t].broker]
            BY <2>3 DEF GoesTo, StationTyped, Handle
        <3>2. OneStart'
            BY <1>6, <2>1, <2>2, <3>1 DEF OneStart, Resting, Unstarted, Handle
        <3> QED
            BY <1>2, <1>4, <3>2
    <2>4. CASE starter' = [starter EXCEPT ![t] = Unstarted]
        <3>1. starter'[t] = Unstarted
            BY <2>4 DEF StationTyped
        <3>2. OneStart'
            BY <1>6, <2>1, <2>2, <3>1 DEF OneStart, Resting, Unstarted
        <3> QED
            BY <1>2, <1>4, <3>2
    <2> QED
        BY <1>8, <2>3, <2>4 DEF createClient
<1>9. CASE startClient(t)
    <2>1. starter[t].at = "start" /\ UNCHANGED <<mqttStarted, missed, flash>>
        BY <1>9 DEF startClient
    <2>2. \A u \in Starters \ {t} : starter'[u] = starter[u]
        BY <1>9 DEF startClient, startFailed, GoesTo, StationTyped
    <2>3. CASE started' = started \cup {handle} /\ GoesTo(t, "done") /\ UNCHANGED handle
        <3>1. starter'[t].at = "done" /\ starter'[t].broker = starter[t].broker
            BY <2>3 DEF GoesTo, StationTyped
        <3>2. ~ missed => handle = [by |-> t, broker |-> starter[t].broker]
            BY <2>1 DEF OneStart, Handle
        <3>3. OneStart'
            BY <1>6, <2>1, <2>2, <2>3, <3>1, <3>2 DEF OneStart, Resting, Unstarted
        <3> QED
            BY <1>2, <1>4, <3>3
    <2>4. CASE startFailed(t)
        <3>1. starter'[t] = Unstarted
            BY <2>4 DEF startFailed, StationTyped
        <3>2. OneStart'
            BY <1>6, <2>1, <2>2, <3>1 DEF OneStart, Resting, Unstarted
        <3> QED
            BY <1>2, <1>4, <3>2
    <2> QED
        BY <1>9, <2>3, <2>4 DEF startClient
<1>10. CASE noteStarted(t)
    <2>1. /\ starter[t].at = "done" /\ mqttStarted' = TRUE
          /\ starter' = [starter EXCEPT ![t] = Unstarted]
          /\ UNCHANGED <<missed, flash, handle, started>>
        BY <1>10 DEF noteStarted
    <2>2. starter'[t] = Unstarted /\ \A u \in Starters \ {t} : starter'[u] = starter[u]
        BY <2>1 DEF StationTyped
    <2>3. ~ missed => handle \in started /\ handle.broker = flash.broker
        BY <2>1 DEF OneStart
    <2>4. OneStart'
        BY <1>6, <2>1, <2>2, <2>3 DEF OneStart, Resting, Unstarted
    <2> QED
        BY <1>2, <1>4, <2>4
<1> QED
    BY <1>5, <1>7, <1>8, <1>9, <1>10 DEF Start

\* What the client and the portal do by themselves does not touch either part.
LEMMA RestKeepsInv ==
    ASSUME StationInv,
           \/ closePortal \/ openPortal
           \/ ClientConnected \/ ClientDisconnected \/ UNCHANGED connectivityVars
    PROVE  StationInv'
<1>1. /\ UNCHANGED <<air, steady, flash, radio, station>>
      /\ UNCHANGED <<handle, started, mqttStarted, starter, missed>>
    BY DEF closePortal, openPortal, ClientConnected,
           ClientDisconnected, connectivityVars, wifiVars, mqttVars
<1> QED
    BY <1>1
       DEF StationInv, StationTyped, ScanHolds, Associated, OneStart, Resting, Handle

-----------------------------------------------------------------------------
\* The invariant holds throughout.
THEOREM StationInductive == ConnectivitySpec => []StationInv
<1>1. ASSUME StationInv, [ConnectivityNext]_connectivityVars
      PROVE  StationInv'
    BY <1>1, StationKeepsInv, CommandKeepsInv, OutsideKeepsInv, StartKeepsInv, RestKeepsInv
       DEF ConnectivityNext, watchdogTask, optimizationTask, Starters
<1>2. ConnectivityInit => StationInv
    BY InitStationInv
<1> QED
    BY <1>1, <1>2, PTL DEF ConnectivitySpec

\* A connected station shares ESP-NOW's channel, for any networks and channels,
\* however often they move, unless one has moved since the scan
\* (verifyChannelAndConnect).
THEOREM ChannelIsShared == ConnectivitySpec => []SharedChannel
<1>1. StationInv => SharedChannel
    BY DEF StationInv, ScanHolds, Associated, SharedChannel, isConnected
<1> QED
    BY <1>1, StationInductive, PTL

\* mqttStarted is true of the client that is stored, for any brokers, commands
\* and failures, as long as no start has met another one or a change of the
\* broker (checkMqttStartTrigger, begin).
THEOREM StartedIsTrue == ConnectivitySpec => []StartedMeansClient
<1>1. StationInv => StartedMeansClient
    BY DEF StationInv, OneStart, StartedMeansClient
<1> QED
    BY <1>1, StationInductive, PTL
=============================================================================
