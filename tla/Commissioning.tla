---------------------------- MODULE Commissioning ----------------------------
(***************************************************************************)
(* Commissioning, renaming and decommissioning of one Smart Node: the      *)
(* record the Central keeps of it (NodeCommissioningRegistry), the Node's  *)
(* own identity (NodeIdentityStore), and the packets between them.  The    *)
(* records of different MAC addresses do not touch each other, so one Node *)
(* is enough.  A direct neighbour of the Central gets packets in order; a  *)
(* packet may be lost.                                                     *)
(*                                                                         *)
(* A request is handled on the task it came in on (MQTT or console): the   *)
(* record changes under stateMutex, the packet is sent after the mutex was *)
(* released.                                                               *)
(*                                                                         *)
(* NodeLifecycleState has FACTORY, DISCOVERED and OPERATIONAL too, but no  *)
(* code of the repository ever assigns them.                               *)
(***************************************************************************)
EXTENDS Integers, Sequences

CONSTANTS
    Names,          \* friendly names
    NoName,         \* the empty name
    Requesters,     \* the tasks that handle requests
    MaxRequests,    \* bound on accepted requests
    MaxFaults,      \* bound on lost packets and on failed writes of the Node
    MaxUnsaved,     \* bound on failed flash writes of the Central
    MaxRestarts,    \* bound on restarts of the Central
    MaxResets,      \* bound on factory resets of the Node
    MaxInFlight     \* bound on the reports on their way

ASSUME CommissioningAssumption ==
    /\ NoName \notin Names
    /\ MaxRequests \in Nat /\ MaxFaults \in Nat /\ MaxUnsaved \in Nat
    /\ MaxRestarts \in Nat /\ MaxResets \in Nat
    /\ MaxInFlight \in Nat

VARIABLES
    record,         \* the Central's CommissioningRecord of the Node
    saved,          \* what of it is in the Central's flash
    routed,         \* the registry knows a route to the Node
    outbox,         \* outbox[r]: the packet r is about to send, if any
    down,           \* the packets on their way to the Node
    node,           \* the Node's identity; its flash always agrees with it
    up,             \* the packets on their way to the Central
    lastId,         \* nextConsoleCommandId: the last commandId given out
    requests,       \* requests accepted so far
    faults, unsaved, restarts, resets,      \* what happened so far
    reused          \* history: a request has got the commandId of a command or
                    \* an answer that a Central before the restart had caused

central == <<record, saved, routed>>
bounds  == <<faults, unsaved, restarts, resets>>
asked   == <<lastId, requests, reused>>
vars    == <<central, outbox, down, node, up, asked, bounds>>

AnyName  == Names \cup {NoName}
RequestIds == 1..MaxRequests

NodeStates == {"UNCOMMISSIONED", "COMMISSIONED"}
RecordStates == NodeStates \cup {"ABSENT", "CONFIGURING", "DECOMMISSIONED"}

Identities == [state : NodeStates, name : AnyName]
Records == [state : RecordStates, name : AnyName, pendingName : AnyName,
            pendingCommandId : 0..MaxRequests, sync : {"SYNCED", "PENDING", "FAILED"}]
Downward == [type : {"COMMISSION_COMMAND"}, commandId : RequestIds, name : Names]
              \cup [type : {"DECOMMISSION_COMMAND"}]
Upward == [type : {"COMMISSION_ACK"}, commandId : RequestIds, success : BOOLEAN,
           state : NodeStates]
            \cup [type : {"IDENTITY_REPORT", "NODE_REPORT"}]

Nothing == <<>>

NewRecord(state, name) ==
    [state |-> state, name |-> name, pendingName |-> NoName,
     pendingCommandId |-> 0, sync |-> "SYNCED"]

NoRecord == NewRecord("ABSENT", NoName)

TypeOK ==
    /\ record \in Records
    /\ saved \in [state : {"ABSENT", "COMMISSIONED", "DECOMMISSIONED"}, name : AnyName]
    /\ routed \in BOOLEAN
    /\ outbox \in [Requesters -> Downward \cup {Nothing}]
    /\ down \in Seq(Downward)
    /\ node \in Identities
    /\ up \in Seq(Upward)
    /\ requests \in 0..MaxRequests
    /\ lastId \in 0..requests
    /\ reused \in BOOLEAN
    /\ faults \in 0..MaxFaults
    /\ unsaved \in 0..MaxUnsaved
    /\ restarts \in 0..MaxRestarts
    /\ resets \in 0..MaxResets

Init ==
    /\ record = NoRecord
    /\ saved = [state |-> "ABSENT", name |-> NoName]
    /\ routed = FALSE
    /\ outbox = [r \in Requesters |-> Nothing]
    /\ down = <<>>
    /\ node = [state |-> "UNCOMMISSIONED", name |-> NoName]
    /\ up = <<>>
    /\ requests = 0 /\ lastId = 0 /\ reused = FALSE
    /\ faults = 0 /\ unsaved = 0 /\ restarts = 0 /\ resets = 0

NoFault == UNCHANGED bounds
Fault   == faults < MaxFaults /\ faults' = faults + 1 /\ UNCHANGED <<unsaved, restarts, resets>>
MayFault(ok) == IF ok THEN NoFault ELSE Fault

-----------------------------------------------------------------------------
(***************************************************************************)
(* The Central's registry.                                                 *)
(***************************************************************************)

isValidNodeLifecycleTransition(from, to) ==
    <<from, to>> \in
        {<<"UNCOMMISSIONED", "CONFIGURING">>, <<"UNCOMMISSIONED", "DECOMMISSIONED">>,
         <<"CONFIGURING", "COMMISSIONED">>, <<"CONFIGURING", "UNCOMMISSIONED">>,
         <<"CONFIGURING", "DECOMMISSIONED">>, <<"COMMISSIONED", "DECOMMISSIONED">>,
         <<"DECOMMISSIONED", "UNCOMMISSIONED">>}

\* What persist writes: a record in a transient state is left out.
Persisted ==
    IF record'.state \in {"COMMISSIONED", "DECOMMISSIONED"}
    THEN [state |-> record'.state, name |-> record'.name]
    ELSE [state |-> "ABSENT", name |-> NoName]

\* Nobody looks at what persist returns.
persist ==
    \/ saved' = Persisted /\ NoFault
    \/ /\ saved' = saved
       /\ unsaved < MaxUnsaved
       /\ unsaved' = unsaved + 1
       /\ UNCHANGED <<faults, restarts, resets>>

isValidFriendlyName(name) == name # NoName

\* The console's commands are numbered from the start of the Central.  (The
\* ones that come by MQTT carry the number that the frontend gave them.)
nextConsoleCommandId ==
    /\ requests < MaxRequests
    /\ requests' = requests + 1
    /\ lastId' = lastId + 1

OnItsWay(commandId) ==
    \/ \E i \in DOMAIN down :
          down[i].type = "COMMISSION_COMMAND" /\ down[i].commandId = commandId
    \/ \E i \in DOMAIN up :
          up[i].type = "COMMISSION_ACK" /\ up[i].commandId = commandId

\* Request the Node to be commissioned under a name, or renamed.
requestCommissioning(r, name) ==
    /\ outbox[r] = Nothing
    /\ isValidFriendlyName(name)
    /\ routed
    /\ nextConsoleCommandId
    /\ reused' = (reused \/ OnItsWay(lastId'))
    /\ \/ /\ isValidNodeLifecycleTransition(record.state, "CONFIGURING")
          /\ record' = [record EXCEPT !.state = "CONFIGURING", !.pendingName = name,
                            !.pendingCommandId = lastId', !.sync = "PENDING"]
       \/ /\ record.state = "COMMISSIONED"
          /\ record' = [record EXCEPT !.pendingName = name,
                            !.pendingCommandId = lastId', !.sync = "PENDING"]
    /\ outbox' = [outbox EXCEPT ![r] =
                    [type |-> "COMMISSION_COMMAND", commandId |-> lastId', name |-> name]]
    /\ persist
    /\ UNCHANGED <<routed, down, node, up>>

\* The Central forgets the Node at once and tells it afterwards, if it can.
decommission(r) ==
    /\ outbox[r] = Nothing
    /\ nextConsoleCommandId
    /\ isValidNodeLifecycleTransition(record.state, "DECOMMISSIONED")
    /\ record' = [record EXCEPT !.state = "DECOMMISSIONED", !.name = NoName,
                      !.pendingName = NoName, !.sync = "SYNCED"]
    /\ outbox' = IF routed
                 THEN [outbox EXCEPT ![r] = [type |-> "DECOMMISSION_COMMAND"]]
                 ELSE outbox
    /\ persist
    /\ UNCHANGED <<routed, down, node, up, reused>>

\* sendTo; a send that is reported to fail is not undone in the record.
SendRequest(r) ==
    /\ outbox[r] # Nothing
    /\ \E delivered \in BOOLEAN :
          /\ down' = IF delivered THEN Append(down, outbox[r]) ELSE down
          /\ MayFault(delivered)
    /\ outbox' = [outbox EXCEPT ![r] = Nothing]
    /\ UNCHANGED <<central, node, up, asked>>

recordDiscovered ==
    /\ record' = CASE record.state = "ABSENT" -> NewRecord("UNCOMMISSIONED", NoName)
                   [] record.state = "DECOMMISSIONED" ->
                        [record EXCEPT !.state = "UNCOMMISSIONED"]
                   [] OTHER -> record
    /\ NoFault
    /\ UNCHANGED <<saved, routed>>

\* Mutant: the acknowledgement of any request is taken for the pending one's.
applyAnyCommissionResult(ack) ==
    IF record.sync = "PENDING"
    THEN /\ record' = [record EXCEPT
              !.state = ack.state,
              !.name = IF ack.success THEN record.pendingName ELSE record.name,
              !.sync = IF ack.success THEN "SYNCED" ELSE "FAILED",
              !.pendingName = NoName]
         /\ persist
         /\ UNCHANGED routed
    ELSE UNCHANGED <<central, bounds>>

\* Mutant: as for a request the Node accepted, whatever it answered.
assumeCommissionSuccess(ack) ==
    IF record.sync = "PENDING" /\ record.pendingCommandId = ack.commandId
    THEN /\ record' = [record EXCEPT !.state = "COMMISSIONED",
              !.name = record.pendingName, !.sync = "SYNCED", !.pendingName = NoName]
         /\ persist
         /\ UNCHANGED routed
    ELSE UNCHANGED <<central, bounds>>

\* The answer to the pending request sets the state to the Node's own; any
\* other one is ignored.
applyCommissionResult(ack) ==
    IF record.sync = "PENDING" /\ record.pendingCommandId = ack.commandId
    THEN /\ record' = [record EXCEPT
              !.state = ack.state,
              !.name = IF ack.success THEN record.pendingName ELSE record.name,
              !.sync = IF ack.success THEN "SYNCED" ELSE "FAILED",
              !.pendingName = NoName]
         /\ persist
         /\ UNCHANGED routed
    ELSE UNCHANGED <<central, bounds>>

\* The ESP-NOW task of the Central takes a packet.
CentralReceive ==
    /\ up # <<>>
    /\ up' = Tail(up)
    /\ LET packet == Head(up)
       IN  \/ packet.type = "IDENTITY_REPORT" /\ recordDiscovered
           \/ packet.type = "COMMISSION_ACK" /\ applyCommissionResult(packet)
           \/ /\ packet.type = "NODE_REPORT"
              /\ routed' = TRUE
              /\ UNCHANGED <<record, saved, bounds>>
    /\ UNCHANGED <<outbox, down, node, asked>>

\* The Central restarts with the records of its flash.  What it had received
\* and not handled is lost, what is still on its way is not, and the commands
\* are numbered from the beginning again.
CentralRestart ==
    /\ restarts < MaxRestarts
    /\ restarts' = restarts + 1
    /\ record' = NewRecord(saved.state, saved.name)
    /\ routed' = FALSE
    /\ outbox' = [r \in Requesters |-> Nothing]
    /\ lastId' = 0
    /\ \E received \in 0..Len(up) : up' = SubSeq(up, received + 1, Len(up))
    /\ UNCHANGED <<saved, down, node, requests, reused, faults, unsaved, resets>>

-----------------------------------------------------------------------------
(***************************************************************************)
(* The Node.                                                               *)
(***************************************************************************)

\* Mutant: a Node that is commissioned already says nothing.
handleFirstCommissionCommand(command) ==
    IF node.state = "COMMISSIONED"
    THEN UNCHANGED <<node, up, bounds>>
    ELSE /\ node' = [state |-> "COMMISSIONED", name |-> command.name]
         /\ up' = up \o <<[type |-> "COMMISSION_ACK", commandId |-> command.commandId,
                           success |-> TRUE, state |-> node'.state],
                          [type |-> "IDENTITY_REPORT"]>>
         /\ NoFault

\* NodeIdentityStore::persist(): when it fails the identity is put back.
persistIdentity(identity, ok) == node' = IF ok THEN identity ELSE node

\* applyCommission accepts a first commissioning and a rename alike.
handleCommissionCommand(command) ==
    \E ok \in BOOLEAN :
        /\ persistIdentity([state |-> "COMMISSIONED", name |-> command.name], ok)
        /\ up' = up \o <<[type |-> "COMMISSION_ACK", commandId |-> command.commandId,
                          success |-> ok, state |-> node'.state],
                         [type |-> "IDENTITY_REPORT"]>>
        /\ MayFault(ok)

\* The Loads are cleared first, then the identity; when either fails the
\* identity stays.  The Central only forwards the acknowledgement to MQTT, so
\* it is left out.
handleDecommissionCommand ==
    \E ok \in BOOLEAN :
        /\ persistIdentity([state |-> "UNCOMMISSIONED", name |-> NoName], ok)
        /\ up' = Append(up, [type |-> "IDENTITY_REPORT"])
        /\ MayFault(ok)

NodeReceive ==
    /\ down # <<>>
    /\ down' = Tail(down)
    /\ LET packet == Head(down)
       IN  \/ packet.type = "COMMISSION_COMMAND" /\ handleCommissionCommand(packet)
           \/ packet.type = "DECOMMISSION_COMMAND" /\ handleDecommissionCommand
    /\ UNCHANGED <<central, outbox, asked>>

\* Identity and load reports are sent again and again.
Report ==
    /\ Len(up) < MaxInFlight
    /\ \E type \in {"IDENTITY_REPORT", "NODE_REPORT"} : up' = Append(up, [type |-> type])
    /\ UNCHANGED <<central, outbox, down, node, asked, bounds>>

\* A packet is lost: on the way, in a full queue, or because the receiver's
\* mutex stayed busy.
Lose ==
    /\ \/ down # <<>> /\ down' = Tail(down) /\ UNCHANGED up
       \/ up # <<>> /\ up' = Tail(up) /\ UNCHANGED down
    /\ Fault
    /\ UNCHANGED <<central, outbox, node, asked>>

\* performSmartFactoryReset: the Node forgets everything, also what it has
\* received and not handled.
FactoryReset ==
    /\ resets < MaxResets
    /\ resets' = resets + 1
    /\ node' = [state |-> "UNCOMMISSIONED", name |-> NoName]
    /\ down' = <<>>
    /\ UNCHANGED <<central, outbox, up, asked, faults, unsaved, restarts>>

-----------------------------------------------------------------------------
\* The commands about a Node, from the console or by MQTT.
nodeCommand(r) ==
    \/ decommission(r)
    \/ \E name \in AnyName : requestCommissioning(r, name)

Next ==
    \/ \E r \in Requesters : nodeCommand(r) \/ SendRequest(r)
    \/ CentralReceive
    \/ CentralRestart
    \/ NodeReceive
    \/ Report
    \/ Lose
    \/ FactoryReset

Spec == Init /\ [][Next]_vars

\* A request that was accepted is sent, and both radios work their queues
\* off.  Nobody has to make a request.
FairSpec ==
    /\ Spec
    /\ \A r \in Requesters : WF_vars(SendRequest(r))
    /\ WF_vars(NodeReceive)
    /\ WF_vars(CentralReceive)

-----------------------------------------------------------------------------
(***************************************************************************)
(* Properties.                                                             *)
(***************************************************************************)

\* A Node the Central plans with, because it has it as COMMISSIONED, is
\* COMMISSIONED by its own account: no late answer to an older request, lost
\* packet, failed write of the Node or restart of the Central brings them
\* apart, as long as the Node is not reset behind the Central's back, requests
\* come from one task, the Central does not restart after a write of its own
\* failed, and no request after a restart gets the commandId of an older one
\* that is still on its way: the answer to that one would be taken for its own
\* (applyCommissionResult, requestCommissioning, decommission, persist).
PlannedIsCommissioned ==
    resets = 0 /\ (restarts = 0 \/ unsaved = 0) /\ ~reused /\ record.state = "COMMISSIONED"
        => node.state = "COMMISSIONED"

\* A record that says it is in sync has the Node's name.  A restart of the
\* Central in the middle of a rename forgets that there was one.
SyncedNameAgrees ==
    resets = 0 /\ restarts = 0 /\ record.state = "COMMISSIONED" /\ record.sync = "SYNCED"
        => record.name = node.name

\* A first commissioning comes to an end unless a packet was lost or the Node
\* was reset (requestCommissioning, handleCommissionCommand and
\* applyCommissionResult together).
ConfiguringEndsOrFaults ==
    record.state = "CONFIGURING" ~> record.state # "CONFIGURING" \/ faults + resets > 0
=============================================================================
