---------------------------- MODULE MqttSession ----------------------------
(***************************************************************************)
(* The session of the Central with its MQTT broker: the client library's   *)
(* task, outbox and lock, MqttManager on top of it, the tasks that         *)
(* publish, the broker with its retained status and Last Will, and the     *)
(* frontend that sends commands and reads acknowledgements.                *)
(*                                                                         *)
(* The client's task holds the API lock from the receipt of a message to   *)
(* the end of its loop, the command's handler included; whoever else       *)
(* publishes waits for that lock.  QoS 1 messages stay in the outbox until *)
(* the broker acknowledges them or 30 s pass; those never written go out   *)
(* first, those written before a break are repeated one second later.      *)
(*                                                                         *)
(* Abstracted: bytes, topics and packet ids (the library draws ids at      *)
(* random from 65535; here no two messages in flight share one), the QoS 0 *)
(* state message, and the tick counts (a retransmission is due or not).    *)
(***************************************************************************)
EXTENDS Naturals, Sequences, SequencesExt, FiniteSets

CONSTANTS Commands,     \* the commands the frontend may send
          Messages,     \* what a command may be: [type, id, target, action, settings]
          MaxFaults,    \* bound: breaks, refused connections and subscriptions, power cuts
          MaxRebinds,   \* bound: how often the installer sets another account
          MaxStatuses   \* bound: how often another task repeats the status

Publishers == {"espnow", "planner"}

\* What the frontend sends has a commandType, an action, and answers to the
\* three questions that the parsing asks.
ASSUME MessagesAssumption ==
    Messages \subseteq [type : STRING, id : BOOLEAN, target : BOOLEAN, action : STRING, settings : BOOLEAN]

Status == [type |-> "status"]
Subscribe == [type |-> "subscribe"]
Disconnect == [type |-> "disconnect"]
Ack(id, r) == [type |-> "ack", id |-> id, result |-> r]
CommandMessage(c) == [type |-> "command", command |-> c]
Acknowledged(m) == [type |-> "acknowledged", message |-> m]

\* The id of an acknowledgement whose command could not be read.
NoId == "0"
Results == {"ACCEPTED", "APPLIED", "REJECTED"}
Acks == {Ack(id, r) : id \in Commands \union {NoId}, r \in Results}
Nothing == [type |-> "nothing"]
Lost == [type |-> "lost"]

VARIABLES client,     \* the client: run, state, the outbox, the connection; and MqttManager's state_
          task,       \* where the client's task is; anything but "loop" holds the API lock
          waiting,    \* the message with which another task waits for the API lock
          broker,     \* the broker's session of the Central, and the retained status
          content,    \* the message of each command that reached a subscription of the Central
          handled,    \* how often the handler has run for it
          dispatched, \* remote commands on their way to the Node and back
          pending,    \* remote commands whose answer the Central expects
          seen,       \* the acknowledgements the frontend got
          givenUp,    \* acknowledgements that expired or went with the client
          faults, rebinds, statuses

vars == <<client, task, waiting, broker, content, handled, dispatched, pending, seen, givenUp, faults, rebinds, statuses>>
commands == <<content, handled, dispatched, pending>>
bounds == <<faults, rebinds, statuses>>

-----------------------------------------------------------------------------
(* The reading of a command.  A message tells whether its commandId and its    *)
(* target can be read, names its action ("none" when that is no string), and   *)
(* says whether the settings that the action needs are valid.                  *)

handleNodeCommandMessage(m) ==
    m.action \in {"add", "update", "delete"} /\ (m.action = "delete" \/ m.settings)
handleLoadCommandMessage(m) == m.action = "delete" \/ (m.action \in {"add", "update"} /\ m.settings)
handleBatteryCommandMessage(m) == m.action = "set" /\ m.settings
handleSensorCommandMessage(m) == m.action \in {"sim", "ina219"} \/ (m.action = "values" /\ m.settings)
handleSystemCommandMessage(m) == m.action \in {"optimize", "restart"} \/ (m.action = "interval" /\ m.settings)

\* Whether the acknowledgement bears the command's id.  What else is read
\* together with the id loses it when it cannot be read.
Named(m) ==
    /\ m.id
    /\ m.type \in {"node", "load"} => m.target /\ m.action # "none"
    /\ m.type \in {"sensor", "system"} => m.action # "none"
    /\ m.type \in {"node", "load", "battery", "sensor", "system"}

\* onDataReceived(): whether the registered handler gets the command.
Reads(m) ==
    Named(m) /\ CASE m.type = "node" -> handleNodeCommandMessage(m)
                  [] m.type = "load" -> handleLoadCommandMessage(m)
                  [] m.type = "battery" -> handleBatteryCommandMessage(m)
                  [] m.type = "sensor" -> handleSensorCommandMessage(m)
                  [] m.type = "system" -> handleSystemCommandMessage(m)

\* handleConfigCommand() sends these to a Smart Node.
Commissions(m) == m.type = "node" /\ m.action \in {"add", "update"}
Decommissions(m) == m.type = "node" /\ m.action = "delete"
AddsLoad(m) == m.type = "load" /\ m.action = "add"
RemovesLoad(m) == m.type = "load" /\ m.action = "delete"
Remote(m) == Commissions(m) \/ Decommissions(m) \/ AddsLoad(m) \/ RemovesLoad(m)

-----------------------------------------------------------------------------
(* The outbox and the connection, as functions of the client's record.      *)

Item(m, p) == [message |-> m, pending |-> p]
Idle == [step |-> "loop", command |-> Nothing, result |-> "none"]

\* outbox_dequeue(): the first item in this state, 0 when there is none.
Dequeued(outbox, p) == SelectInSeq(outbox, LAMBDA item : item.pending = p)

\* mqtt_enqueue() of what has just been written, or is to be.
mqtt_enqueue(outbox, m, p) == Append(outbox, Item(m, p))

\* outbox_set_pending() and outbox_set_tick() of what has been written.
Transmitted(outbox, i) == [outbox EXCEPT ![i].pending = "TRANSMITTED"]

\* outbox_delete_expired(): any items may be old, their ticks being set anew
\* when they are written.
Kept(outbox, expired) ==
    LET left == DOMAIN outbox \ expired
        place(i) == Cardinality({j \in left : j <= i})
    IN  [k \in 1..Cardinality(left) |-> outbox[CHOOSE i \in left : place(i) = k]]

\* outbox_delete(): the first item with the id the broker acknowledges.
Deleted(outbox, m) ==
    LET i == SelectInSeq(outbox, LAMBDA item : item.message = m)
    IN  IF i = 0 THEN outbox ELSE RemoveAt(outbox, i)

\* What esp_transport_write() may return: a connection that broke unnoticed
\* may still take the bytes.
WriteResults(c) ==
    CASE c.link = "up" -> {TRUE} [] c.link = "cut" -> BOOLEAN [] OTHER -> {FALSE}

\* esp_mqtt_write() that succeeds.
Written(c, m) == IF c.link = "up" THEN [c EXCEPT !.up = Append(@, m)] ELSE c

\* What an event makes of MqttManager's state_.
handleMqttEvent(event, state) ==
    CASE event = "MQTT_EVENT_CONNECTED" -> "CONNECTED"
      [] event = "MQTT_EVENT_DISCONNECTED" -> "DISCONNECTED"
      [] OTHER -> state

\* The event loop runs the handler at once, in the task that dispatches.
esp_mqtt_dispatch_event(c, event) == [c EXCEPT !.app = handleMqttEvent(event, @)]

\* esp_mqtt_abort_connection(); the outbox stays.
Aborted(c) ==
    esp_mqtt_dispatch_event(
        [c EXCEPT !.state = "WAIT_RECONNECT", !.link = "closed", !.up = <<>>, !.down = <<>>],
        "MQTT_EVENT_DISCONNECTED")

\* mqtt_client_enqueue_publish().
Enqueued(c, m) == [c EXCEPT !.outbox = mqtt_enqueue(@, m, "QUEUED")]

\* esp_mqtt_client_publish() with QoS 1.
Published(c, m, ok) ==
    LET queued == Enqueued(c, m)
    IN  IF c.state # "CONNECTED" THEN queued
        ELSE IF ok THEN Written([queued EXCEPT !.outbox = Transmitted(@, Len(@))], m)
        ELSE Aborted(queued)

\* esp_mqtt_client_subscribe(): a failed write does not abort the connection.
Subscribed(c, ok) ==
    LET queued == [c EXCEPT !.outbox = mqtt_enqueue(@, Subscribe, "TRANSMITTED")]
    IN  IF c.state # "CONNECTED" THEN c ELSE IF ok THEN Written(queued, Subscribe) ELSE queued

\* mutant: what was written once is not repeated
ResendableQueued(c, due) == Dequeued(c.outbox, "QUEUED")

\* The item one turn of the loop sends: a queued one first, else the first
\* transmitted one when it is due.
Resendable(c, due) ==
    LET queued == Dequeued(c.outbox, "QUEUED")
    IN  IF queued # 0 THEN queued ELSE IF due THEN Dequeued(c.outbox, "TRANSMITTED") ELSE 0

\* mqtt_resend_queued() and what the loop does after it.
Resent(c, due, ok) ==
    LET i == Resendable(c, due)
    IN  IF i = 0 THEN c
        ELSE IF ok THEN Written([c EXCEPT !.outbox = Transmitted(@, i)], c.outbox[i].message)
        ELSE Aborted(c)

\* Bound: an item is repeated only when no copy of it is on its way.
Due(c) == LET i == Dequeued(c.outbox, "TRANSMITTED") IN i # 0 /\ ~Contains(c.up, c.outbox[i].message)

\* The rest of a turn of the loop after mqtt_process_receive().
TurnEnds(c) ==
    /\ task' = Idle
    /\ \E due \in {FALSE, Due(c)} : \E ok \in WriteResults(c) :
          client' = IF c.state = "CONNECTED" THEN Resent(c, due, ok) ELSE c

LockFree == task.step = "loop"

-----------------------------------------------------------------------------
(* The broker, as the code relies on it. *)

\* mutant: disable_clean_session
PersistentSession == FALSE

\* The session is clean: what it had is gone when the connection ends.
CleanSession == TRUE

\* mutant: the will carries the other status
LastWillOnline == "online"

LastWill == "offline"

Ended(b, retained) ==
    [b EXCEPT !.alive = FALSE, !.retained = retained,
              !.subscribed = @ /\ ~CleanSession,
              !.unacked = IF CleanSession THEN {} ELSE @]

-----------------------------------------------------------------------------
(* The client's task. *)

\* The record of a client that is not yet started, with what the broker will
\* say of its account.
NewClient(accepted) ==
    [run |-> FALSE, state |-> "OFF", app |-> "DISCONNECTED", outbox |-> <<>>,
     link |-> "closed", up |-> <<>>, down |-> <<>>, accepted |-> accepted]

\* esp_mqtt_client_start(), and how its task begins.
Started(c) == [c EXCEPT !.run = TRUE, !.state = "INIT", !.app = "CONNECTING"]

Init ==
    /\ client = Started(NewClient(TRUE))
    /\ task = Idle
    /\ waiting = [t \in Publishers |-> Nothing]
    /\ broker = [alive |-> FALSE, subscribed |-> FALSE, unacked |-> {}, retained |-> "none", goodbye |-> FALSE]
    /\ content = [c \in Commands |-> Nothing]
    /\ handled = [c \in Commands |-> 0]
    /\ dispatched = {} /\ pending = {}
    /\ seen = {} /\ givenUp = {}
    /\ faults = 0 /\ rebinds = 0 /\ statuses = 0

\* The connection, on which the broker repeats what was not acknowledged.
Connected(unacked) ==
    [client EXCEPT !.state = "CONNECTED", !.link = "up", !.up = <<>>,
                   !.down = SetToSeq({CommandMessage(c) : c \in unacked})]

\* esp_mqtt_connect() that the broker accepts.  It takes an older connection of
\* the same client id over, which sets its will free.
Connects ==
    /\ client.run /\ client.state = "INIT" /\ LockFree /\ client.accepted
    /\ LET old == IF broker.alive THEN Ended(broker, LastWill) ELSE broker
       IN  /\ broker' = [old EXCEPT !.alive = TRUE, !.goodbye = FALSE]
           /\ client' = Connected(old.unacked)
    /\ task' = [Idle EXCEPT !.step = "event"]
    /\ UNCHANGED <<waiting, commands, seen, givenUp, bounds>>

\* The account is wrong, or the network is away.
ConnectFails ==
    /\ client.run /\ client.state = "INIT" /\ LockFree
    /\ \/ ~client.accepted /\ UNCHANGED faults
       \/ faults < MaxFaults /\ faults' = faults + 1
    /\ client' = Aborted(client)
    /\ UNCHANGED <<task, waiting, broker, commands, seen, givenUp, rebinds, statuses>>

\* MQTT_STATE_WAIT_RECONNECT until reconnect_timeout_ms has passed.
Reconnects ==
    /\ client.run /\ client.state = "WAIT_RECONNECT" /\ LockFree
    /\ client' = [client EXCEPT !.state = "INIT"]
    /\ UNCHANGED <<task, waiting, broker, commands, seen, givenUp, bounds>>

onConnected ==
    /\ task.step = "event"
    /\ task' = Idle
    /\ LET told == esp_mqtt_dispatch_event(client, "MQTT_EVENT_CONNECTED")
       IN  \E ok \in WriteResults(told) :
              LET published == Published(told, Status, ok)
              IN  \E again \in WriteResults(published) : client' = Subscribed(published, again)
    /\ UNCHANGED <<waiting, broker, commands, seen, givenUp, bounds>>

\* A turn of the loop that finds no message and sends an item of the outbox.
Retransmits ==
    /\ client.run /\ client.state = "CONNECTED" /\ LockFree
    /\ client.down = <<>>
    /\ Resendable(client, Due(client)) # 0
    /\ TurnEnds(client)
    /\ UNCHANGED <<waiting, broker, commands, seen, givenUp, bounds>>

\* mqtt_message_receive(): the next message, once all of it has arrived.
Incoming == Head(client.down)

\* mqtt_process_receive() finds a message of this kind.
Receives(type) ==
    /\ client.run /\ client.state = "CONNECTED" /\ LockFree
    /\ client.down # <<>> /\ Incoming.type = type

\* remove_initiator_message(), which ignores what is not in the outbox.
Acknowledge(m) ==
    /\ TurnEnds([client EXCEPT !.down = Tail(@), !.outbox = Deleted(@, m)])
    /\ UNCHANGED <<waiting, broker, commands, seen, givenUp, bounds>>

\* MQTT_MSG_TYPE_SUBACK: deliver_suback() puts a refusal into the event, and the
\* event is nothing to MqttManager.
ReceivesSuback ==
    /\ Receives("acknowledged") /\ Incoming.message = Subscribe
    /\ Acknowledge(Subscribe)

\* MQTT_MSG_TYPE_PUBACK.
ReceivesPuback ==
    /\ Receives("acknowledged") /\ Incoming.message # Subscribe
    /\ Acknowledge(Incoming.message)

\* MQTT_MSG_TYPE_PUBLISH, a command; the handler runs before the PUBACK.
ReceivesCommand ==
    /\ Receives("command")
    /\ task' = [Idle EXCEPT !.step = "handler", !.command = Incoming.command]
    /\ client' = [client EXCEPT !.down = Tail(@)]
    /\ UNCHANGED <<waiting, broker, commands, seen, givenUp, bounds>>

\* The registered handler; only what a Smart Node has to do is accepted and
\* dispatched.  A commissioning is noted before it is sent, a removal after it,
\* the addition of a Load never; the answer to a decommissioning needs no note.
ResultsOf(m) == IF Remote(m) THEN {"ACCEPTED", "REJECTED"} ELSE {"APPLIED", "REJECTED"}

handleCommand ==
    /\ task.step = "handler"
    /\ LET c == task.command
           m == content[c]
       IN  \E r \in IF Reads(m) THEN ResultsOf(m) ELSE {"REJECTED"} :
              /\ handled' = [handled EXCEPT ![c] = @ + 1]
              /\ dispatched' = IF r = "ACCEPTED" THEN dispatched \union {c} ELSE dispatched
              /\ pending' = IF r = "ACCEPTED" /\ Commissions(m) THEN pending \union {c} ELSE pending
              /\ task' = [task EXCEPT !.result = r,
                             !.step = IF r = "ACCEPTED" /\ RemovesLoad(m) THEN "note" ELSE "answer"]
    /\ UNCHANGED <<client, waiting, broker, content, seen, givenUp, bounds>>

\* pendingHardwareCommands.push_back(), unless stateMutex stays busy.
notePending ==
    /\ task.step = "note"
    /\ pending' \in {pending, pending \union {task.command}}
    /\ task' = [task EXCEPT !.step = "answer"]
    /\ UNCHANGED <<client, waiting, broker, content, handled, dispatched, seen, givenUp, bounds>>

\* publishAcknowledgement(), which looks at state_ first.
Answered(c, m, ok) == IF c.app = "CONNECTED" THEN Published(c, m, ok) ELSE c

\* The acknowledgement of the handler, the PUBACK of the command, and the rest
\* of the turn.
answerCommand ==
    /\ task.step = "answer"
    /\ LET c == task.command
       IN  \E ok \in WriteResults(client) :
              LET answered == Answered(client, Ack(IF Named(content[c]) THEN c ELSE NoId, task.result), ok)
              IN  \E acked \in WriteResults(answered) :
                     TurnEnds(IF acked THEN Written(answered, Acknowledged(CommandMessage(c)))
                              ELSE Aborted(answered))
    /\ UNCHANGED <<waiting, broker, commands, seen, givenUp, bounds>>

\* process_keepalive(): a ping cannot be written, or no answer follows it.
LossNoticed ==
    /\ client.run /\ client.state = "CONNECTED" /\ LockFree /\ client.link = "cut"
    /\ client' = Aborted(client)
    /\ UNCHANGED <<task, waiting, broker, commands, seen, givenUp, bounds>>

\* mqtt_delete_expired_messages(); 30 s are more than a working connection
\* takes to acknowledge.
Expires ==
    /\ client.run /\ LockFree /\ client.link # "up"
    /\ \E expired \in (SUBSET DOMAIN client.outbox) \ {{}} :
          /\ givenUp' = givenUp \union ({client.outbox[i].message : i \in expired} \intersect Acks)
          /\ client' = [client EXCEPT !.outbox = Kept(@, expired)]
    /\ UNCHANGED <<task, waiting, broker, commands, seen, bounds>>

-----------------------------------------------------------------------------
(* The other tasks of the Central. *)

\* The answer to a decommissioning is passed on whether it is expected or not.
AnswerPassesOn(c) == c \in pending \/ Decommissions(content[c])

\* The ESP-NOW task takes the Node's answer; one that is not expected, or that
\* finds MQTT away, goes no further.
NodeAnswers(c) ==
    /\ c \in dispatched /\ waiting["espnow"] = Nothing
    /\ dispatched' = dispatched \ {c}
    /\ pending' = pending \ {c}
    /\ waiting' = IF AnswerPassesOn(c) /\ client.app = "CONNECTED"
                  THEN [waiting EXCEPT !["espnow"] = Ack(c, "APPLIED")] ELSE waiting
    /\ UNCHANGED <<client, task, broker, content, handled, seen, givenUp, bounds>>

\* publishCurrentState() of the optimization task or the watchdog.
\* Bound: the last status has been acknowledged, cycles being seconds apart.
publishStatus ==
    /\ statuses < MaxStatuses /\ statuses' = statuses + 1
    /\ client.app = "CONNECTED" /\ waiting["planner"] = Nothing
    /\ \A i \in DOMAIN client.outbox : client.outbox[i].message # Status
    /\ waiting' = [waiting EXCEPT !["planner"] = Status]
    /\ UNCHANGED <<client, task, broker, commands, seen, givenUp, faults, rebinds>>

\* mutant: a publication that does not wait for the API lock
MayAlwaysPublish == TRUE

MayPublish == LockFree

\* The API lock is theirs; the client may have lost its connection meanwhile.
Publishes(t) ==
    /\ waiting[t] # Nothing /\ MayPublish
    /\ \E ok \in WriteResults(client) : client' = Published(client, waiting[t], ok)
    /\ waiting' = [waiting EXCEPT ![t] = Nothing]
    /\ UNCHANGED <<task, broker, commands, seen, givenUp, bounds>>

OutboxMessages == {client.outbox[i].message : i \in DOMAIN client.outbox}
WaitingMessages == {waiting[t] : t \in Publishers}

\* `mqtt set`: esp_mqtt_client_stop() says goodbye to the broker; no event
\* tells MqttManager.
StopsClient ==
    /\ rebinds < MaxRebinds /\ rebinds' = rebinds + 1
    /\ client.run /\ LockFree
    /\ client' = [(IF client.state = "CONNECTED" THEN Written(client, Disconnect) ELSE client)
                    EXCEPT !.run = FALSE, !.state = "DISCONNECTED"]
    /\ UNCHANGED <<task, waiting, broker, commands, seen, givenUp, faults, statuses>>

\* The client's task leaves its loop; what other tasks publish meanwhile goes
\* into the outbox that is deleted with the client.
TaskEnds ==
    /\ ~client.run /\ client.state = "DISCONNECTED" /\ LockFree
    /\ givenUp' = givenUp \union (OutboxMessages \intersect Acks)
    /\ client' = [client EXCEPT !.state = "ENDED", !.link = "closed", !.down = <<>>, !.outbox = <<>>]
    /\ UNCHANGED <<task, waiting, broker, commands, seen, bounds>>

\* esp_mqtt_client_destroy(), and begin() makes a client with an account the
\* broker accepts or not.  Who still waits for the lock of the old client uses
\* freed memory; here its message is gone.
StartsClient ==
    /\ client.state = "ENDED"
    /\ givenUp' = givenUp \union ((OutboxMessages \union WaitingMessages) \intersect Acks)
    /\ waiting' = [t \in Publishers |-> Nothing]
    /\ \E ok \in BOOLEAN : client' = [Started(NewClient(ok)) EXCEPT !.up = client.up]
    /\ UNCHANGED <<task, broker, commands, seen, bounds>>

-----------------------------------------------------------------------------
(* The broker, the frontend and the network. *)

\* The broker takes the next packet of the connection; it may refuse to subscribe.
BrokerReceives ==
    /\ broker.alive /\ client.up # <<>>
    /\ \E granted \in BOOLEAN :
       LET m == Head(client.up)
           acknowledges == m \in {Status, Subscribe} \union Acks
       IN  /\ granted \/ m = Subscribe
           /\ IF granted THEN UNCHANGED faults ELSE faults < MaxFaults /\ faults' = faults + 1
           /\ client' = [client EXCEPT !.up = Tail(@),
                            !.down = IF acknowledges /\ client.link = "up"
                                     THEN Append(@, Acknowledged(m)) ELSE @]
           /\ seen' = seen \union ({m} \intersect Acks)
           /\ broker' =
                CASE m = Status -> [broker EXCEPT !.retained = "online"]
                  [] m = Subscribe -> [broker EXCEPT !.subscribed = granted]
                  [] m = Disconnect -> [Ended(broker, broker.retained) EXCEPT !.goodbye = TRUE]
                  [] m \in Acks -> broker
                  [] OTHER -> [broker EXCEPT !.unacked = @ \ {m.message.command}]
    /\ UNCHANGED <<task, waiting, commands, givenUp, rebinds, statuses>>

\* The broker finds the connection closed or silent, and publishes the will.
BrokerLosesClient ==
    /\ broker.alive /\ client.link # "up" /\ client.up = <<>>
    /\ broker' = Ended(broker, LastWill)
    /\ UNCHANGED <<client, task, waiting, commands, seen, givenUp, bounds>>

\* The frontend publishes a command; without a subscription it goes nowhere.
FrontendSends(c, m) ==
    /\ content[c] = Nothing
    /\ IF broker.alive /\ broker.subscribed
       THEN /\ content' = [content EXCEPT ![c] = m]
            /\ broker' = [broker EXCEPT !.unacked = @ \union {c}]
            /\ client' = IF client.link = "up" THEN [client EXCEPT !.down = Append(@, CommandMessage(c))]
                         ELSE client
       ELSE content' = [content EXCEPT ![c] = Lost] /\ UNCHANGED <<broker, client>>
    /\ UNCHANGED <<task, waiting, handled, dispatched, pending, seen, givenUp, bounds>>

\* The connection breaks and nobody is told.
Breaks ==
    /\ faults < MaxFaults /\ faults' = faults + 1
    /\ client.link = "up"
    /\ client' = [client EXCEPT !.link = "cut", !.up = <<>>, !.down = <<>>]
    /\ UNCHANGED <<task, waiting, broker, commands, seen, givenUp, rebinds, statuses>>

\* The Central loses its power: whatever it had in memory is gone.
PowerCut ==
    /\ faults < MaxFaults /\ faults' = faults + 1
    /\ client.run
    /\ client' = NewClient(client.accepted)
    /\ task' = Idle
    /\ waiting' = [t \in Publishers |-> Nothing]
    /\ givenUp' = givenUp \union ((OutboxMessages \union WaitingMessages) \intersect Acks)
    /\ dispatched' = {} /\ pending' = {}
    /\ UNCHANGED <<broker, content, handled, seen, rebinds, statuses>>

PowerReturns ==
    /\ client.state = "OFF"
    /\ client' = Started(client)
    /\ UNCHANGED <<task, waiting, broker, commands, seen, givenUp, bounds>>

-----------------------------------------------------------------------------
ClientTask ==
    \/ Connects \/ Reconnects \/ onConnected
    \/ ReceivesSuback \/ ReceivesPuback \/ ReceivesCommand \/ Retransmits
    \/ handleCommand \/ notePending \/ answerCommand

Environment ==
    \/ publishStatus \/ ConnectFails \/ Expires \/ StopsClient \/ Breaks \/ PowerCut \/ PowerReturns
    \/ \E c \in Commands, m \in Messages : FrontendSends(c, m)

Next ==
    \/ ClientTask
    \/ LossNoticed
    \/ \E c \in Commands : NodeAnswers(c)
    \/ \E t \in Publishers : Publishes(t)
    \/ TaskEnds \/ StartsClient
    \/ BrokerReceives \/ BrokerLosesClient
    \/ Environment

\* The client's task and the tasks that wait for it run, the broker takes what
\* arrives and notices who is gone (1.5 times the keep-alive).  Nothing obliges
\* the network, the frontend, the installer or the power supply.
Fairness ==
    /\ WF_vars(ClientTask) /\ WF_vars(LossNoticed)
    /\ \A t \in Publishers : WF_vars(Publishes(t))
    /\ WF_vars(TaskEnds) /\ WF_vars(StartsClient) /\ WF_vars(BrokerReceives) /\ WF_vars(BrokerLosesClient)

Spec == Init /\ [][Next]_vars /\ Fairness

-----------------------------------------------------------------------------
ItemType == [message : Acks \union {Status, Subscribe}, pending : {"QUEUED", "TRANSMITTED"}]

\* Every variable has its type, and a client that MqttManager believes connected
\* is, as long as it has not been stopped; no acknowledgement is in the outbox twice.
TypeOK ==
    /\ client.state \in {"INIT", "CONNECTED", "WAIT_RECONNECT", "DISCONNECTED", "ENDED", "OFF"}
    /\ client.app \in {"CONNECTING", "CONNECTED", "DISCONNECTED"}
    /\ client.link \in {"up", "cut", "closed"}
    /\ client.run /\ client.app = "CONNECTED" => client.state = "CONNECTED"
    /\ client.run /\ client.state = "CONNECTED" => client.link # "closed"
    /\ \A i \in DOMAIN client.outbox : client.outbox[i] \in ItemType
    /\ \A i, j \in DOMAIN client.outbox :
          client.outbox[i].message = client.outbox[j].message /\ client.outbox[i].message \in Acks => i = j
    /\ task.step \in {"loop", "event", "handler", "note", "answer"}
    /\ waiting \in [Publishers -> Acks \union {Status, Nothing}]
    /\ broker.retained \in {"none", "online", "offline"} /\ broker.unacked \subseteq Commands
    /\ content \in [Commands -> Messages \union {Nothing, Lost}]
    /\ seen \subseteq Acks /\ pending \subseteq Commands /\ dispatched \subseteq Commands

\* A command runs once: neither the repetition of messages nor a connection
\* that breaks between the handler and the PUBACK brings it back, so that a
\* command to restart the Central cannot restart it again and again.
HandledOnce == \A c \in Commands : handled[c] <= 1

\* While the connection has held, the frontend sees that a command was accepted
\* before it sees that the Node applied it, however fast the Node answers.
AcceptedBeforeApplied ==
    faults = 0 /\ rebinds = 0 =>
        \A c \in Commands : Ack(c, "APPLIED") \in seen /\ Remote(content[c]) => Ack(c, "ACCEPTED") \in seen

\* An acknowledgement that reached the outbox reaches the frontend, across
\* breaks of the connection, unless it expires or the client is stopped: none is
\* owed for good (each is published once, so those owed cannot take turns).
AcknowledgementsArrive == []<>(OutboxMessages \intersect Acks \subseteq seen \union givenUp)

\* The retained status comes to tell whether the Central is there: online after
\* it has connected, offline after it was lost -- unless it said goodbye, as it
\* does when another account is set.
PresenceShown ==
    /\ client.app = "CONNECTED" ~> (broker.retained = "online" \/ client.app # "CONNECTED")
    /\ (~broker.alive /\ broker.retained = "online") ~>
          (broker.retained = "offline" \/ broker.alive \/ broker.goodbye)
=============================================================================
