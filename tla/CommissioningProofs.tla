------------------------- MODULE CommissioningProofs -------------------------
(***************************************************************************)
(* Proofs about Commissioning, for any names, any number of requests,      *)
(* losses, failed writes, restarts and resets, and any length of the       *)
(* queues, when requests come from one task.  With two tasks, which may    *)
(* change the record in one order and send their packets in the other,     *)
(* the invariant is not true.                                              *)
(***************************************************************************)
EXTENDS Commissioning, SequenceTheorems, TLAPS

\* There is one task that handles requests.
OneRequester == \A r, s \in Requesters : r = s

-----------------------------------------------------------------------------
(***************************************************************************)
(* The inductive invariant.  It follows one packet: the command of the     *)
(* pending request.  Nothing is behind it on its way to the Node, so when  *)
(* the Node answers it nothing that could change the Node is on its way    *)
(* any more, and the answer says what the Node still is when the Central   *)
(* gets it.  Answers to other requests are ignored.  A restarted Central   *)
(* gives out the same commandIds again; the order is kept until a request  *)
(* gets one that is still on its way.                                      *)
(***************************************************************************)

Sent(r) == outbox[r] # Nothing
NoneToSend == \A r \in Requesters : ~ Sent(r)

\* Until the Central restarts, every packet that carries a commandId carries
\* one that was given out.
IdsWereGiven ==
    /\ \A i \in 1..Len(down) :
          down[i].type = "COMMISSION_COMMAND" => down[i].commandId <= lastId
    /\ \A r \in Requesters :
          Sent(r) /\ outbox[r].type = "COMMISSION_COMMAND" => outbox[r].commandId <= lastId
    /\ \A i \in 1..Len(up) : up[i].type = "COMMISSION_ACK" => up[i].commandId <= lastId

FirstLife == restarts = 0 => IdsWereGiven /\ ~reused

IsLatestCommand(packet) ==
    /\ packet.type = "COMMISSION_COMMAND"
    /\ record.sync = "PENDING" /\ packet.commandId = record.pendingCommandId
IsLatestAnswer(packet) ==
    /\ packet.type = "COMMISSION_ACK"
    /\ record.sync = "PENDING" /\ packet.commandId = record.pendingCommandId

\* The command of the pending request is the last one, and asks for its name.
LatestIsLast ==
    /\ \A i \in 1..Len(down) : IsLatestCommand(down[i]) =>
          i = Len(down) /\ NoneToSend /\ down[i].name = record.pendingName
    /\ \A r \in Requesters : Sent(r) /\ IsLatestCommand(outbox[r])
          => outbox[r].name = record.pendingName

\* When it is answered nothing else is on its way, and the answer is true.
LatestIsAnswered ==
    \A i \in 1..Len(up) : IsLatestAnswer(up[i]) =>
        /\ down = <<>> /\ NoneToSend
        /\ resets = 0 => /\ up[i].state = node.state
                         /\ up[i].success => node.name = record.pendingName

\* Nobody has told the Node to forget itself.
NotDecommissioned ==
    /\ \A i \in 1..Len(down) : down[i].type # "DECOMMISSION_COMMAND"
    /\ \A r \in Requesters : Sent(r) => outbox[r].type # "DECOMMISSION_COMMAND"

\* A restart that follows a failed write may bring back what was given up.
Trusted == resets = 0 /\ (restarts = 0 \/ unsaved = 0)

PlannedIsSafe ==
    Trusted /\ record.state = "COMMISSIONED" => node.state = "COMMISSIONED" /\ NotDecommissioned

SavedIsPlanned ==
    unsaved = 0 /\ saved.state = "COMMISSIONED" => record.state = "COMMISSIONED"

SyncedIsQuiet ==
    resets = 0 /\ restarts = 0 /\ record.state = "COMMISSIONED" /\ record.sync = "SYNCED"
        => record.name = node.name /\ down = <<>> /\ NoneToSend

Ordered ==
    /\ TypeOK
    /\ LatestIsLast
    /\ LatestIsAnswered
    /\ PlannedIsSafe
    /\ SavedIsPlanned
    /\ SyncedIsQuiet

Inv == TypeOK /\ FirstLife /\ (~reused => Ordered)

-----------------------------------------------------------------------------
(***************************************************************************)
(* The operators of the specification.                                     *)
(***************************************************************************)

\* Every field of a record that the Central makes anew is in its range.
LEMMA NewRecordType ==
    ASSUME NEW state \in RecordStates, NEW name \in AnyName
    PROVE  NewRecord(state, name) \in Records
BY CommissioningAssumption DEF NewRecord, Records, RecordStates, AnyName

\* A write of the Central's flash succeeds and stores the record, or it fails
\* and is counted.
LEMMA PersistStep ==
    ASSUME TypeOK, record' \in Records, persist
    PROVE  /\ saved' \in [state : {"ABSENT", "COMMISSIONED", "DECOMMISSIONED"}, name : AnyName]
           /\ unsaved' \in 0..MaxUnsaved
           /\ unsaved' = unsaved \/ unsaved' # 0
           /\ unsaved' = 0 => /\ unsaved = 0
                              /\ saved'.state = "COMMISSIONED" => record'.state = "COMMISSIONED"
           /\ UNCHANGED <<faults, restarts, resets>>
<1>1. CASE saved' = Persisted /\ NoFault
    <2>1. Persisted \in [state : {"ABSENT", "COMMISSIONED", "DECOMMISSIONED"}, name : AnyName]
        BY DEF Persisted, Records, AnyName
    <2>2. Persisted.state = "COMMISSIONED" => record'.state = "COMMISSIONED"
        BY DEF Persisted
    <2> QED
        BY <1>1, <2>1, <2>2 DEF NoFault, bounds, TypeOK
<1>2. CASE ~ (saved' = Persisted /\ NoFault)
    BY <1>2, CommissioningAssumption DEF persist, TypeOK
<1> QED
    BY <1>1, <1>2

-----------------------------------------------------------------------------
(***************************************************************************)
(* Type correctness, one step per action.                                  *)
(***************************************************************************)

\* A Node with nothing stored and a Central without requests have their types.
LEMMA TypeInit == Init => TypeOK
<1> SUFFICES ASSUME Init PROVE TypeOK
    OBVIOUS
<1>1. record \in Records
    BY NewRecordType DEF Init, NoRecord, RecordStates, AnyName
<1>2. outbox \in [Requesters -> Downward \cup {Nothing}]
    BY DEF Init
<1>3. /\ down \in Seq(Downward) /\ up \in Seq(Upward)
      /\ node \in Identities /\ saved \in [state : {"ABSENT", "COMMISSIONED", "DECOMMISSIONED"}, name : AnyName]
    BY DEF Init, Identities, NodeStates, AnyName
<1>4. routed \in BOOLEAN /\ reused \in BOOLEAN
    BY DEF Init
<1>5. /\ requests \in 0..MaxRequests /\ lastId \in 0..requests
      /\ faults \in 0..MaxFaults /\ unsaved \in 0..MaxUnsaved
      /\ restarts \in 0..MaxRestarts /\ resets \in 0..MaxResets
    BY CommissioningAssumption DEF Init
<1> QED
    BY <1>1, <1>2, <1>3, <1>4, <1>5 DEF TypeOK

\* What is left of a queue when its first packets are lost.
LEMMA RestOfQueue ==
    ASSUME NEW S, NEW queue \in Seq(S), NEW received \in 0..Len(queue)
    PROVE  LET rest == SubSeq(queue, received + 1, Len(queue))
           IN  /\ rest \in Seq(S)
               /\ \A i \in 1..Len(rest) :
                    received + i \in 1..Len(queue) /\ rest[i] = queue[received + i]
BY SubSeqProperties

\* Every step keeps the types.
LEMMA TypeStep == TypeOK /\ [Next]_vars => TypeOK'
<1> SUFFICES ASSUME TypeOK, [Next]_vars PROVE TypeOK'
    OBVIOUS
<1> USE CommissioningAssumption
<1>1. ASSUME NEW r \in Requesters, NEW name \in AnyName, requestCommissioning(r, name)
      PROVE  TypeOK'
    <2>1. /\ requests' \in 0..MaxRequests /\ lastId' \in 0..requests' /\ lastId' \in RequestIds
        <3>1. /\ requests < MaxRequests /\ requests' = requests + 1 /\ lastId' = lastId + 1
              /\ requests \in Nat /\ lastId \in 0..requests
            BY <1>1 DEF requestCommissioning, nextConsoleCommandId, TypeOK
        <3> QED
            BY <3>1 DEF RequestIds
    <2>a. lastId' \in 0..MaxRequests
        BY <2>1 DEF RequestIds
    <2>b. reused' \in BOOLEAN
        <3>1. OnItsWay(lastId') \in BOOLEAN
            BY DEF OnItsWay
        <3> QED
            BY <1>1, <3>1 DEF requestCommissioning, TypeOK
    <2>2. record' \in Records
        BY <1>1, <2>a DEF requestCommissioning, TypeOK, Records, RecordStates, AnyName
    <2>3. [type |-> "COMMISSION_COMMAND", commandId |-> lastId', name |-> name] \in Downward
        BY <1>1, <2>1 DEF requestCommissioning, isValidFriendlyName, AnyName, Downward
    <2>4. outbox' \in [Requesters -> Downward \cup {Nothing}]
        BY <1>1, <2>3 DEF requestCommissioning, TypeOK
    <2>5. persist
        BY <1>1 DEF requestCommissioning
    <2>6. UNCHANGED <<routed, down, node, up>>
        BY <1>1 DEF requestCommissioning
    <2> QED
        BY <2>1, <2>b, <2>2, <2>4, <2>5, <2>6, PersistStep DEF TypeOK
<1>2. ASSUME NEW r \in Requesters, decommission(r)
      PROVE  TypeOK'
    <2>1. record' \in Records
        BY <1>2 DEF decommission, TypeOK, Records, RecordStates, AnyName
    <2>2. [type |-> "DECOMMISSION_COMMAND"] \in Downward
        BY DEF Downward
    <2>3. outbox' \in [Requesters -> Downward \cup {Nothing}]
        BY <1>2, <2>2 DEF decommission, TypeOK
    <2>4. persist
        BY <1>2 DEF decommission
    <2>5. requests' \in 0..MaxRequests /\ lastId' \in 0..requests'
        BY <1>2 DEF decommission, nextConsoleCommandId, TypeOK
    <2>6. UNCHANGED <<routed, down, node, up, reused>>
        BY <1>2 DEF decommission
    <2> QED
        BY <2>1, <2>3, <2>4, <2>5, <2>6, PersistStep DEF TypeOK
<1>3. ASSUME NEW r \in Requesters, SendRequest(r)
      PROVE  TypeOK'
    <2>1. outbox[r] \in Downward
        BY <1>3 DEF SendRequest, TypeOK
    <2>2. down' \in Seq(Downward) /\ outbox' \in [Requesters -> Downward \cup {Nothing}]
        BY <1>3, <2>1 DEF SendRequest, TypeOK
    <2>3. faults' \in 0..MaxFaults /\ UNCHANGED <<unsaved, restarts, resets>>
        BY <1>3 DEF SendRequest, MayFault, NoFault, Fault, bounds, TypeOK
    <2> QED
        BY <1>3, <2>2, <2>3 DEF SendRequest, central, asked, TypeOK
<1>4. ASSUME CentralReceive
      PROVE  TypeOK'
    <2>1. up' \in Seq(Upward) /\ Head(up) \in Upward
        BY <1>4 DEF CentralReceive, TypeOK
    <2>2. CASE Head(up).type = "IDENTITY_REPORT" /\ recordDiscovered
        <3>1. record' \in Records
            BY <2>2, NewRecordType
               DEF recordDiscovered, TypeOK, Records, RecordStates, NodeStates, AnyName
        <3> QED
            BY <1>4, <2>1, <2>2, <3>1 DEF CentralReceive, recordDiscovered, NoFault, asked, bounds, TypeOK
    <2>3. CASE Head(up).type = "COMMISSION_ACK" /\ applyCommissionResult(Head(up))
        <3>1. Head(up).state \in NodeStates
            BY <2>1, <2>3 DEF Upward
        <3>2. CASE record.sync = "PENDING" /\ record.pendingCommandId = Head(up).commandId
            <4>a. record \in Records /\ Head(up).state \in RecordStates /\ NoName \in AnyName
                BY <3>1 DEF TypeOK, RecordStates, AnyName
            <4>b. \E sync \in {"SYNCED", "FAILED"}, name \in {record.pendingName, record.name} :
                    record' = [record EXCEPT !.state = Head(up).state, !.name = name,
                                             !.sync = sync, !.pendingName = NoName]
                BY <2>3, <3>2 DEF applyCommissionResult
            <4>1. record' \in Records
                BY <4>a, <4>b DEF Records
            <4>2. persist /\ UNCHANGED routed
                BY <2>3, <3>2 DEF applyCommissionResult
            <4>3. UNCHANGED <<outbox, down, node, asked>>
                BY <1>4 DEF CentralReceive
            <4> QED
                BY <2>1, <4>1, <4>2, <4>3, PersistStep DEF asked, TypeOK
        <3>3. CASE ~ (record.sync = "PENDING" /\ record.pendingCommandId = Head(up).commandId)
            BY <1>4, <2>1, <2>3, <3>3
               DEF CentralReceive, applyCommissionResult, central, asked, bounds, TypeOK
        <3> QED
            BY <3>2, <3>3
    <2>4. CASE Head(up).type = "NODE_REPORT" /\ routed' = TRUE /\ UNCHANGED <<record, saved, bounds>>
        BY <1>4, <2>1, <2>4 DEF CentralReceive, asked, bounds, TypeOK
    <2> QED
        BY <1>4, <2>2, <2>3, <2>4 DEF CentralReceive
<1>5. ASSUME CentralRestart
      PROVE  TypeOK'
    <2>1. record' \in Records
        BY <1>5, NewRecordType DEF CentralRestart, TypeOK, RecordStates, NodeStates
    <2>2. outbox' \in [Requesters -> Downward \cup {Nothing}]
        BY <1>5 DEF CentralRestart
    <2>3. restarts' \in 0..MaxRestarts
        BY <1>5 DEF CentralRestart, TypeOK
    <2>5. routed' \in BOOLEAN
        BY <1>5 DEF CentralRestart
    <2>4. UNCHANGED <<saved, down, node, requests, reused, faults, unsaved, resets>>
        BY <1>5 DEF CentralRestart
    <2>6. lastId' \in 0..requests' /\ up' \in Seq(Upward)
        <3>1. PICK received \in 0..Len(up) : up' = SubSeq(up, received + 1, Len(up))
            BY <1>5 DEF CentralRestart
        <3>2. up' \in Seq(Upward)
            BY <3>1, RestOfQueue DEF TypeOK
        <3> QED
            BY <1>5, <3>2 DEF CentralRestart, TypeOK
    <2> QED
        BY <2>1, <2>2, <2>3, <2>4, <2>5, <2>6 DEF TypeOK
<1>6. ASSUME NodeReceive
      PROVE  TypeOK'
    <2>1. down' \in Seq(Downward) /\ Head(down) \in Downward
        BY <1>6 DEF NodeReceive, TypeOK
    <2>2. [type |-> "IDENTITY_REPORT"] \in Upward
        BY DEF Upward
    <2>3. CASE Head(down).type = "COMMISSION_COMMAND" /\ handleCommissionCommand(Head(down))
        <3>1. PICK ok \in BOOLEAN :
                /\ persistIdentity([state |-> "COMMISSIONED", name |-> Head(down).name], ok)
                /\ up' = up \o <<[type |-> "COMMISSION_ACK", commandId |-> Head(down).commandId,
                                  success |-> ok, state |-> node'.state],
                                 [type |-> "IDENTITY_REPORT"]>>
                /\ MayFault(ok)
            BY <2>3 DEF handleCommissionCommand
        <3>2. node' \in Identities
            BY <2>1, <2>3, <3>1 DEF persistIdentity, TypeOK, Identities, NodeStates, AnyName, Downward
        <3>3. [type |-> "COMMISSION_ACK", commandId |-> Head(down).commandId,
               success |-> ok, state |-> node'.state] \in Upward
            BY <2>1, <2>3, <3>2 DEF Downward, Upward, Identities
        <3>4. up' \in Seq(Upward)
            BY <2>2, <3>1, <3>3 DEF TypeOK
        <3>5. faults' \in 0..MaxFaults /\ UNCHANGED <<unsaved, restarts, resets>>
            BY <3>1 DEF MayFault, NoFault, Fault, bounds, TypeOK
        <3> QED
            BY <1>6, <2>1, <3>2, <3>4, <3>5 DEF NodeReceive, central, asked, TypeOK
    <2>4. CASE Head(down).type = "DECOMMISSION_COMMAND" /\ handleDecommissionCommand
        <3>1. PICK ok \in BOOLEAN :
                /\ persistIdentity([state |-> "UNCOMMISSIONED", name |-> NoName], ok)
                /\ up' = Append(up, [type |-> "IDENTITY_REPORT"])
                /\ MayFault(ok)
            BY <2>4 DEF handleDecommissionCommand
        <3>2. node' \in Identities
            BY <3>1 DEF persistIdentity, TypeOK, Identities, NodeStates, AnyName
        <3>3. up' \in Seq(Upward)
            BY <2>2, <3>1 DEF TypeOK
        <3>4. faults' \in 0..MaxFaults /\ UNCHANGED <<unsaved, restarts, resets>>
            BY <3>1 DEF MayFault, NoFault, Fault, bounds, TypeOK
        <3> QED
            BY <1>6, <2>1, <3>2, <3>3, <3>4 DEF NodeReceive, central, asked, TypeOK
    <2> QED
        BY <1>6, <2>3, <2>4 DEF NodeReceive
<1>7. ASSUME Report
      PROVE  TypeOK'
    <2>1. [type |-> "IDENTITY_REPORT"] \in Upward /\ [type |-> "NODE_REPORT"] \in Upward
        BY DEF Upward
    <2>2. up' \in Seq(Upward)
        BY <1>7, <2>1 DEF Report, TypeOK
    <2> QED
        BY <1>7, <2>2 DEF Report, central, asked, bounds, TypeOK
<1>8. ASSUME Lose
      PROVE  TypeOK'
    <2>1. CASE down # <<>> /\ down' = Tail(down) /\ UNCHANGED up
        BY <1>8, <2>1 DEF Lose, Fault, central, asked, TypeOK
    <2>2. CASE up # <<>> /\ up' = Tail(up) /\ UNCHANGED down
        BY <1>8, <2>2 DEF Lose, Fault, central, asked, TypeOK
    <2> QED
        BY <1>8, <2>1, <2>2 DEF Lose
<1>9. ASSUME FactoryReset
      PROVE  TypeOK'
    BY <1>9 DEF FactoryReset, central, asked, TypeOK, Identities, NodeStates, AnyName
<1>10. CASE UNCHANGED vars
    BY <1>10 DEF vars, central, asked, bounds, TypeOK
<1> QED
    BY <1>1, <1>2, <1>3, <1>4, <1>5, <1>6, <1>7, <1>8, <1>9, <1>10 DEF Next, nodeCommand

-----------------------------------------------------------------------------
(***************************************************************************)
(* The packets on their way.                                               *)
(***************************************************************************)

\* What is left of a queue when its first packet was taken.
LEMMA TailOfQueue ==
    ASSUME NEW S, NEW queue \in Seq(S), queue # <<>>
    PROVE  /\ Len(queue) \in Nat \ {0} /\ Head(queue) = queue[1]
           /\ Len(Tail(queue)) = Len(queue) - 1
           /\ \A i \in 1..Len(Tail(queue)) : i + 1 \in 1..Len(queue) /\ Tail(queue)[i] = queue[i + 1]
           /\ Len(queue) = 1 => Tail(queue) = <<>>
<1>1. Tail(queue) \in Seq(S) /\ Len(Tail(queue)) = Len(queue) - 1 /\ Len(queue) \in Nat \ {0}
    OBVIOUS
<1>2. ASSUME Len(queue) = 1 PROVE Tail(queue) = <<>>
    <2> DEFINE rest == Tail(queue)
    <2>1. rest \in Seq(S) /\ Len(rest) = 0
        BY <1>1, <1>2
    <2> HIDE DEF rest
    <2>2. rest = <<>>
        BY <2>1, EmptySeq
    <2> QED
        BY <2>2 DEF rest
<1> QED
    BY <1>1, <1>2

\* A queue with two more packets at its end.
LEMMA TwoMore ==
    ASSUME NEW S, NEW queue \in Seq(S), NEW a, NEW b
    PROVE  LET longer == queue \o <<a, b>>
           IN  /\ Len(longer) = Len(queue) + 2
               /\ \A i \in 1..Len(queue) : longer[i] = queue[i]
               /\ longer[Len(queue) + 1] = a /\ longer[Len(queue) + 2] = b
OBVIOUS

\* The invariant is kept when packets are lost, which is counted.
LEMMA LossStep ==
    ASSUME Ordered, Lose
    PROVE  Ordered'
<1>1. TypeOK'
    BY TypeStep DEF Ordered, Next
<1>2. UNCHANGED <<record, saved, outbox, node, unsaved, restarts, resets>>
    BY DEF Lose, Fault, central
<1>3. CASE down # <<>> /\ down' = Tail(down) /\ UNCHANGED up
    <2>1. /\ \A i \in 1..Len(down') : i + 1 \in 1..Len(down) /\ down'[i] = down[i + 1]
          /\ Len(down') = Len(down) - 1 /\ Len(down) \in Nat
        BY <1>3, TailOfQueue DEF Ordered, TypeOK
    <2>2. LatestIsLast'
        BY <1>2, <2>1 DEF Ordered, LatestIsLast, IsLatestCommand, NoneToSend, Sent
    <2>3. LatestIsAnswered'
        BY <1>2, <1>3 DEF Ordered, LatestIsAnswered, IsLatestAnswer
    <2>4. PlannedIsSafe'
        BY <1>2, <1>3, <2>1 DEF Ordered, PlannedIsSafe, Trusted, NotDecommissioned, Sent
    <2>5. SavedIsPlanned' /\ SyncedIsQuiet'
        BY <1>2, <1>3 DEF Ordered, SavedIsPlanned, SyncedIsQuiet
    <2> QED
        BY <1>1, <2>2, <2>3, <2>4, <2>5 DEF Ordered
<1>4. CASE up # <<>> /\ up' = Tail(up) /\ UNCHANGED down
    <2>1. \A i \in 1..Len(up') : i + 1 \in 1..Len(up) /\ up'[i] = up[i + 1]
        BY <1>4, TailOfQueue DEF Ordered, TypeOK
    <2>2. LatestIsAnswered'
        BY <1>2, <1>4, <2>1 DEF Ordered, LatestIsAnswered, IsLatestAnswer, NoneToSend, Sent
    <2>3. LatestIsLast' /\ PlannedIsSafe' /\ SavedIsPlanned' /\ SyncedIsQuiet'
        BY <1>2, <1>4
           DEF Ordered, LatestIsLast, IsLatestCommand, NoneToSend, Sent, PlannedIsSafe, Trusted,
               NotDecommissioned, SavedIsPlanned, SyncedIsQuiet
    <2> QED
        BY <1>1, <2>2, <2>3 DEF Ordered
<1> QED
    BY <1>3, <1>4 DEF Lose

\* The Node handles a command.
LEMMA NodeStep ==
    ASSUME Ordered, NodeReceive
    PROVE  Ordered'
<1>1. TypeOK'
    BY TypeStep DEF Ordered, Next
<1>2. down # <<>> /\ down' = Tail(down) /\ UNCHANGED <<record, saved, outbox>>
    BY DEF NodeReceive, central
<1>3. /\ Len(down) \in Nat \ {0} /\ 1 \in 1..Len(down) /\ Head(down) = down[1]
      /\ Len(down') = Len(down) - 1
      /\ \A i \in 1..Len(down') : i + 1 \in 1..Len(down) /\ down'[i] = down[i + 1]
      /\ Len(down) = 1 => down' = <<>>
    BY <1>2, TailOfQueue DEF Ordered, TypeOK
<1>4. \A i \in 1..Len(up) : ~ IsLatestAnswer(up[i])
    BY <1>2 DEF Ordered, LatestIsAnswered
<1>5. LatestIsLast'
    <2>1. /\ \A i \in 1..Len(down') : i + 1 \in 1..Len(down) /\ down'[i] = down[i + 1]
          /\ Len(down') = Len(down) - 1 /\ Len(down) \in Nat
        BY <1>3
    <2>2. UNCHANGED <<record, outbox>>
        BY <1>2
    <2> QED
        BY <2>1, <2>2 DEF Ordered, LatestIsLast, IsLatestCommand, NoneToSend, Sent
<1>6. SavedIsPlanned' /\ SyncedIsQuiet' /\ UNCHANGED <<unsaved, restarts, resets>>
    <2>1. UNCHANGED <<unsaved, restarts, resets>>
        BY DEF NodeReceive, handleCommissionCommand, handleDecommissionCommand, MayFault,
               NoFault, Fault, bounds
    <2> QED
        BY <1>2, <2>1 DEF Ordered, SavedIsPlanned, SyncedIsQuiet
<1>7. CASE down[1].type = "COMMISSION_COMMAND" /\ handleCommissionCommand(down[1])
    <2>1. PICK ok \in BOOLEAN :
            /\ persistIdentity([state |-> "COMMISSIONED", name |-> down[1].name], ok)
            /\ up' = up \o <<[type |-> "COMMISSION_ACK", commandId |-> down[1].commandId,
                              success |-> ok, state |-> node'.state],
                             [type |-> "IDENTITY_REPORT"]>>
        BY <1>7 DEF handleCommissionCommand
    <2> DEFINE answer == [type |-> "COMMISSION_ACK", commandId |-> down[1].commandId,
                          success |-> ok, state |-> node'.state]
               report == [type |-> "IDENTITY_REPORT"]
    <2>2. /\ Len(up) \in Nat /\ Len(up') = Len(up) + 2
          /\ \A i \in 1..Len(up) : up'[i] = up[i]
          /\ up'[Len(up) + 1] = answer /\ up'[Len(up) + 2] = report
        <3> HIDE DEF answer, report
        <3>1. up' = up \o <<answer, report>>
            BY <2>1 DEF answer, report
        <3> QED
            BY <3>1, TwoMore DEF Ordered, TypeOK
    <2>4. LatestIsAnswered'
        <3> SUFFICES ASSUME NEW i \in 1..Len(up'), IsLatestAnswer(up[i])'
                     PROVE  /\ down' = <<>> /\ NoneToSend'
                            /\ resets' = 0 =>
                                  /\ up'[i].state = node'.state
                                  /\ up'[i].success => node'.name = record'.pendingName
            BY DEF LatestIsAnswered
        <3>0. /\ up'[i].type = "COMMISSION_ACK" /\ record'.sync = "PENDING"
              /\ up'[i].commandId = record'.pendingCommandId
            BY DEF IsLatestAnswer
        <3>1. i = Len(up) + 1
            BY <1>2, <1>4, <2>2, <3>0 DEF IsLatestAnswer
        <3>2. IsLatestCommand(down[1])
            BY <1>2, <1>7, <2>2, <3>0, <3>1 DEF IsLatestCommand
        <3>3. down' = <<>> /\ NoneToSend'
            BY <1>2, <1>3, <3>2 DEF Ordered, LatestIsLast, NoneToSend, Sent
        <3>4. up'[i].state = node'.state
            BY <2>2, <3>1
        <3>5. up'[i].success => node'.name = record'.pendingName
            <4>1. up'[i].success => node'.name = down[1].name
                BY <2>1, <2>2, <3>1 DEF persistIdentity
            <4>2. down[1].name = record.pendingName
                BY <1>3, <3>2 DEF Ordered, LatestIsLast
            <4> QED
                BY <1>2, <4>1, <4>2
        <3> QED
            BY <3>3, <3>4, <3>5
    <2>5. PlannedIsSafe'
        <3>1. node.state = "COMMISSIONED" => node'.state = "COMMISSIONED"
            BY <2>1 DEF persistIdentity
        <3> QED
            BY <1>2, <1>3, <1>6, <3>1 DEF Ordered, PlannedIsSafe, Trusted, NotDecommissioned, Sent
    <2> QED
        BY <1>1, <1>5, <1>6, <2>4, <2>5 DEF Ordered
<1>8. CASE down[1].type = "DECOMMISSION_COMMAND" /\ handleDecommissionCommand
    <2>1. up' = Append(up, [type |-> "IDENTITY_REPORT"])
        BY <1>8 DEF handleDecommissionCommand
    <2>2. /\ Len(up) \in Nat /\ Len(up') = Len(up) + 1
          /\ \A i \in 1..Len(up) : up'[i] = up[i]
          /\ up'[Len(up) + 1].type = "IDENTITY_REPORT"
        BY <2>1 DEF Ordered, TypeOK
    <2>3. LatestIsAnswered'
        BY <1>2, <1>4, <2>2 DEF LatestIsAnswered, IsLatestAnswer
    <2>4. PlannedIsSafe'
        BY <1>2, <1>3, <1>6, <1>8 DEF Ordered, PlannedIsSafe, Trusted, NotDecommissioned
    <2> QED
        BY <1>1, <1>5, <1>6, <2>3, <2>4 DEF Ordered
<1> QED
    BY <1>3, <1>7, <1>8 DEF NodeReceive

\* The Central handles a packet.
LEMMA CentralStep ==
    ASSUME Ordered, CentralReceive
    PROVE  Ordered'
<1>1. TypeOK'
    BY TypeStep DEF Ordered, Next
<1>2. up # <<>> /\ up' = Tail(up) /\ UNCHANGED <<outbox, down, node>>
    BY DEF CentralReceive
<1>3. /\ 1 \in 1..Len(up) /\ Head(up) = up[1] /\ up[1] \in Upward
      /\ \A i \in 1..Len(up') : i + 1 \in 1..Len(up) /\ up'[i] = up[i + 1]
    BY <1>2, TailOfQueue DEF Ordered, TypeOK
<1>4. CASE up[1].type = "COMMISSION_ACK" /\ applyCommissionResult(up[1])
           /\ record.sync = "PENDING" /\ record.pendingCommandId = up[1].commandId
    <2>1. /\ record' = [record EXCEPT
              !.state = up[1].state,
              !.name = IF up[1].success THEN record.pendingName ELSE record.name,
              !.sync = IF up[1].success THEN "SYNCED" ELSE "FAILED",
              !.pendingName = NoName]
          /\ persist
        BY <1>4 DEF applyCommissionResult
    <2>2. record'.sync # "PENDING" /\ record'.state = up[1].state
        BY <2>1 DEF Ordered, TypeOK, Records
    <2>3. IsLatestAnswer(up[1])
        BY <1>4 DEF IsLatestAnswer
    <2>4. /\ down = <<>> /\ NoneToSend
          /\ resets = 0 => /\ up[1].state = node.state
                           /\ up[1].success => node.name = record.pendingName
        BY <1>3, <1>4, <2>3 DEF Ordered, LatestIsAnswered
    <2>5. /\ unsaved' = unsaved \/ unsaved' # 0
          /\ unsaved' = 0 => /\ unsaved = 0
                             /\ saved'.state = "COMMISSIONED" => record'.state = "COMMISSIONED"
          /\ UNCHANGED <<faults, restarts, resets>>
        BY <1>1, <2>1, PersistStep DEF Ordered, TypeOK
    <2>6. down' = <<>> /\ NoneToSend' /\ Len(down') = 0
        BY <1>2, <2>4 DEF NoneToSend, Sent
    <2>7. LatestIsLast'
        BY <2>2, <2>6 DEF LatestIsLast, NoneToSend
    <2>8. LatestIsAnswered'
        BY <2>2 DEF LatestIsAnswered, IsLatestAnswer
    <2>9. PlannedIsSafe'
        BY <1>2, <2>2, <2>4, <2>5, <2>6 DEF PlannedIsSafe, Trusted, NotDecommissioned, NoneToSend
    <2>10. SavedIsPlanned'
        BY <2>5 DEF SavedIsPlanned
    <2>11. SyncedIsQuiet'
        <3>1. record'.sync = "SYNCED" => up[1].success
            BY <2>1 DEF Ordered, TypeOK, Records
        <3>2. up[1].success => record'.name = record.pendingName
            BY <2>1 DEF Ordered, TypeOK, Records
        <3> QED
            BY <1>2, <2>4, <2>5, <2>6, <3>1, <3>2 DEF SyncedIsQuiet
    <2> QED
        BY <1>1, <2>7, <2>8, <2>9, <2>10, <2>11 DEF Ordered
<1>5. CASE /\ UNCHANGED <<saved, unsaved, restarts, resets>>
           /\ record' = record \/ /\ record.state # "COMMISSIONED" /\ record'.state # "COMMISSIONED"
                                  /\ record'.sync = "PENDING" => record' = [record EXCEPT !.state = record'.state]
    <2>1. record'.sync = "PENDING" =>
            /\ record.sync = "PENDING"
            /\ record'.pendingCommandId = record.pendingCommandId
            /\ record'.pendingName = record.pendingName
        BY <1>5 DEF Ordered, TypeOK, Records
    <2>2. LatestIsLast'
        BY <1>2, <2>1 DEF Ordered, LatestIsLast, IsLatestCommand, NoneToSend, Sent
    <2>3. LatestIsAnswered'
        BY <1>2, <1>3, <1>5, <2>1 DEF Ordered, LatestIsAnswered, IsLatestAnswer, NoneToSend, Sent
    <2>4. PlannedIsSafe' /\ SavedIsPlanned' /\ SyncedIsQuiet'
        BY <1>2, <1>5
           DEF Ordered, PlannedIsSafe, Trusted, NotDecommissioned, NoneToSend, Sent, SavedIsPlanned,
               SyncedIsQuiet
    <2> QED
        BY <1>1, <2>2, <2>3, <2>4 DEF Ordered
<1>6. CASE up[1].type = "IDENTITY_REPORT" /\ recordDiscovered
    <2>1. UNCHANGED <<saved, unsaved, restarts, resets>>
        BY <1>6 DEF recordDiscovered, NoFault, bounds
    <2>2. record' = record \/ /\ record.state # "COMMISSIONED" /\ record'.state # "COMMISSIONED"
                              /\ record'.sync = "PENDING" => record' = [record EXCEPT !.state = record'.state]
        BY <1>6 DEF recordDiscovered, NewRecord, Ordered, TypeOK, Records
    <2> QED
        BY <1>5, <2>1, <2>2
<1>7. CASE up[1].type = "COMMISSION_ACK" /\ applyCommissionResult(up[1])
           /\ ~ (record.sync = "PENDING" /\ record.pendingCommandId = up[1].commandId)
    BY <1>5, <1>7 DEF applyCommissionResult, central, bounds
<1>8. CASE up[1].type = "NODE_REPORT" /\ UNCHANGED <<record, saved, bounds>>
    BY <1>5, <1>8 DEF bounds
<1> QED
    BY <1>3, <1>4, <1>6, <1>7, <1>8 DEF CentralReceive

-----------------------------------------------------------------------------
(***************************************************************************)
(* The requests, and what may happen to either side.                       *)
(***************************************************************************)

\* The Central is asked to commission or rename the Node.
LEMMA RequestStep ==
    ASSUME Ordered, OneRequester, NEW r \in Requesters, NEW name \in AnyName,
           requestCommissioning(r, name), ~ reused'
    PROVE  Ordered'
<1>1. TypeOK'
    BY TypeStep DEF Ordered, Next, nodeCommand
<1> DEFINE command == [type |-> "COMMISSION_COMMAND", commandId |-> lastId', name |-> name]
<1>2. /\ UNCHANGED <<down, node, up>>
      /\ outbox[r] = Nothing /\ outbox' = [outbox EXCEPT ![r] = command]
      /\ persist
    BY DEF requestCommissioning
<1>3. \A s \in Requesters : s = r /\ outbox'[s] = command
    BY <1>2 DEF OneRequester, Ordered, TypeOK
<1>4. /\ record'.sync = "PENDING" /\ record'.pendingName = name /\ record'.pendingCommandId = lastId'
      /\ record'.state = "COMMISSIONED" => record.state = "COMMISSIONED"
    BY DEF requestCommissioning, Ordered, TypeOK, Records
<1>5. /\ unsaved' = unsaved \/ unsaved' # 0
      /\ unsaved' = 0 => /\ unsaved = 0
                         /\ saved'.state = "COMMISSIONED" => record'.state = "COMMISSIONED"
      /\ UNCHANGED <<faults, restarts, resets>>
    BY <1>1, <1>2, PersistStep DEF Ordered, TypeOK
<1>6. /\ \A i \in 1..Len(down) : ~ (down[i].type = "COMMISSION_COMMAND" /\ down[i].commandId = lastId')
      /\ \A i \in 1..Len(up) : ~ (up[i].type = "COMMISSION_ACK" /\ up[i].commandId = lastId')
    <2>1. ~ OnItsWay(lastId')
        BY DEF requestCommissioning
    <2>2. DOMAIN down = 1..Len(down) /\ DOMAIN up = 1..Len(up)
        BY DEF Ordered, TypeOK
    <2> QED
        BY <2>1, <2>2 DEF OnItsWay
<1>7. LatestIsLast'
    BY <1>2, <1>3, <1>4, <1>6 DEF LatestIsLast, IsLatestCommand
<1>8. LatestIsAnswered'
    BY <1>2, <1>4, <1>6 DEF LatestIsAnswered, IsLatestAnswer
<1>9. PlannedIsSafe'
    BY <1>2, <1>3, <1>4, <1>5 DEF Ordered, PlannedIsSafe, Trusted, NotDecommissioned
<1>10. SavedIsPlanned' /\ SyncedIsQuiet'
    BY <1>4, <1>5 DEF SavedIsPlanned, SyncedIsQuiet
<1> QED
    BY <1>1, <1>7, <1>8, <1>9, <1>10 DEF Ordered

\* The Central is asked to decommission the Node.
LEMMA DecommissionStep ==
    ASSUME Ordered, OneRequester, NEW r \in Requesters, decommission(r)
    PROVE  Ordered'
<1>1. TypeOK'
    BY TypeStep DEF Ordered, Next, nodeCommand
<1>2. UNCHANGED <<down, node, up>> /\ persist
    BY DEF decommission
<1>3. \A s \in Requesters : outbox'[s] # Nothing => outbox'[s].type = "DECOMMISSION_COMMAND"
    BY DEF decommission, OneRequester, Ordered, TypeOK
<1>4. record'.sync = "SYNCED" /\ record'.state = "DECOMMISSIONED"
    BY DEF decommission, Ordered, TypeOK, Records
<1>5. /\ unsaved' = 0 => (saved'.state = "COMMISSIONED" => record'.state = "COMMISSIONED")
      /\ UNCHANGED <<faults, restarts, resets>>
    BY <1>1, <1>2, PersistStep DEF Ordered, TypeOK
<1>6. LatestIsLast' /\ LatestIsAnswered'
    BY <1>4 DEF LatestIsLast, IsLatestCommand, LatestIsAnswered, IsLatestAnswer
<1>7. PlannedIsSafe' /\ SavedIsPlanned' /\ SyncedIsQuiet'
    BY <1>4, <1>5 DEF PlannedIsSafe, SavedIsPlanned, SyncedIsQuiet
<1> QED
    BY <1>1, <1>6, <1>7 DEF Ordered

\* The packet of a request leaves, or is lost at once.
LEMMA SendStep ==
    ASSUME Ordered, OneRequester, NEW r \in Requesters, SendRequest(r)
    PROVE  Ordered'
<1>1. TypeOK'
    BY TypeStep DEF Ordered, Next
<1>2. /\ Sent(r) /\ outbox' = [outbox EXCEPT ![r] = Nothing]
      /\ down' = Append(down, outbox[r]) \/ down' = down
      /\ UNCHANGED <<record, saved, node, up, unsaved, restarts, resets>>
    BY DEF SendRequest, Sent, MayFault, NoFault, Fault, bounds, central
<1>3. /\ NoneToSend' /\ ~ NoneToSend
    BY <1>2 DEF NoneToSend, Sent, OneRequester, Ordered, TypeOK
<1>4. \A i \in 1..Len(up) : ~ IsLatestAnswer(up[i])
    BY <1>3 DEF Ordered, LatestIsAnswered
<1>5. \A i \in 1..Len(down) : ~ IsLatestCommand(down[i])
    BY <1>3 DEF Ordered, LatestIsLast
<1>6. /\ Len(down) \in Nat /\ Len(down') \in {Len(down), Len(down) + 1}
      /\ \A i \in 1..Len(down) : down'[i] = down[i]
      /\ \A i \in 1..Len(down') : i \in 1..Len(down) \/ (i = Len(down') /\ down'[i] = outbox[r])
    <2>1. down \in Seq(Downward) /\ outbox[r] \in Downward
        BY <1>2 DEF Sent, Ordered, TypeOK
    <2>2. CASE down' = Append(down, outbox[r])
        BY <2>1, <2>2, AppendProperties
    <2>3. CASE down' = down
        BY <2>1, <2>3
    <2> QED
        BY <1>2, <2>2, <2>3
<1>7. LatestIsLast'
    <2>1. \A i \in 1..Len(down') : IsLatestCommand(down'[i]) =>
             i = Len(down') /\ down'[i].name = record.pendingName
        BY <1>2, <1>5, <1>6 DEF Ordered, LatestIsLast
    <2> QED
        BY <1>2, <1>3, <2>1 DEF LatestIsLast, IsLatestCommand, NoneToSend
<1>8. LatestIsAnswered'
    BY <1>2, <1>4 DEF LatestIsAnswered, IsLatestAnswer
<1>9. PlannedIsSafe'
    BY <1>2, <1>3, <1>6 DEF Ordered, PlannedIsSafe, Trusted, NotDecommissioned, NoneToSend
<1>10. SavedIsPlanned' /\ SyncedIsQuiet'
    BY <1>2, <1>3 DEF Ordered, SavedIsPlanned, SyncedIsQuiet
<1> QED
    BY <1>1, <1>7, <1>8, <1>9, <1>10 DEF Ordered

\* The Central restarts with what it had saved.
LEMMA RestartStep ==
    ASSUME Ordered, CentralRestart
    PROVE  Ordered'
<1>1. TypeOK'
    BY TypeStep DEF Ordered, Next
<1>2. /\ record'.sync = "SYNCED" /\ record'.state = saved.state
      /\ restarts' = restarts + 1
      /\ UNCHANGED <<saved, down, node, faults, unsaved, resets>>
    BY DEF CentralRestart, NewRecord
<1>3. NoneToSend'
    BY DEF CentralRestart, NoneToSend, Sent
<1>4. restarts' # 0
    BY <1>2 DEF Ordered, TypeOK
<1>5. LatestIsLast' /\ LatestIsAnswered'
    BY <1>2 DEF LatestIsLast, IsLatestCommand, LatestIsAnswered, IsLatestAnswer
<1>6. PlannedIsSafe'
    BY <1>2, <1>3, <1>4
       DEF Ordered, PlannedIsSafe, SavedIsPlanned, Trusted, NotDecommissioned, NoneToSend
<1>7. SavedIsPlanned' /\ SyncedIsQuiet'
    BY <1>2, <1>4 DEF SavedIsPlanned, SyncedIsQuiet
<1> QED
    BY <1>1, <1>5, <1>6, <1>7 DEF Ordered

\* The Node reports.
LEMMA ReportStep ==
    ASSUME Ordered, Report
    PROVE  Ordered'
<1>1. TypeOK'
    BY TypeStep DEF Ordered, Next
<1>2. UNCHANGED <<record, saved, outbox, down, node, unsaved, restarts, resets>>
    BY DEF Report, central, bounds
<1>3. PICK type \in {"IDENTITY_REPORT", "NODE_REPORT"} : up' = Append(up, [type |-> type])
    BY DEF Report
<1>4. \A i \in 1..Len(up') :
        (i \in 1..Len(up) /\ up'[i] = up[i]) \/ up'[i].type # "COMMISSION_ACK"
    BY <1>3 DEF Ordered, TypeOK
<1>5. LatestIsAnswered'
    BY <1>2, <1>4 DEF Ordered, LatestIsAnswered, IsLatestAnswer, NoneToSend, Sent
<1>6. LatestIsLast' /\ PlannedIsSafe' /\ SavedIsPlanned' /\ SyncedIsQuiet'
    BY <1>2
       DEF Ordered, LatestIsLast, IsLatestCommand, NoneToSend, Sent, PlannedIsSafe, Trusted,
           NotDecommissioned, SavedIsPlanned, SyncedIsQuiet
<1> QED
    BY <1>1, <1>5, <1>6 DEF Ordered

\* The Node is reset, which is the end of what is promised about it.
LEMMA ResetStep ==
    ASSUME Ordered, FactoryReset
    PROVE  Ordered'
<1>1. TypeOK'
    BY TypeStep DEF Ordered, Next
<1>2. /\ down' = <<>> /\ Len(down') = 0 /\ resets' # 0
      /\ UNCHANGED <<record, saved, outbox, up, unsaved>>
    BY DEF FactoryReset, central, Ordered, TypeOK
<1>3. LatestIsLast'
    BY <1>2 DEF Ordered, LatestIsLast, IsLatestCommand, Sent
<1>4. LatestIsAnswered'
    BY <1>2 DEF Ordered, LatestIsAnswered, IsLatestAnswer, NoneToSend, Sent
<1>5. PlannedIsSafe' /\ SavedIsPlanned' /\ SyncedIsQuiet'
    BY <1>2 DEF Ordered, PlannedIsSafe, Trusted, SavedIsPlanned, SyncedIsQuiet
<1> QED
    BY <1>1, <1>3, <1>4, <1>5 DEF Ordered

-----------------------------------------------------------------------------
(***************************************************************************)
(* The commandIds of a Central that has not restarted.                     *)
(***************************************************************************)

\* In the first life of the Central no commandId is given out twice.
LEMMA FirstLifeStep ==
    ASSUME TypeOK, FirstLife, [Next]_vars
    PROVE  FirstLife'
<1> SUFFICES ASSUME restarts' = 0 PROVE IdsWereGiven' /\ ~ reused'
    BY DEF FirstLife
<1>0. TypeOK'
    BY TypeStep
<1>a. lastId \in Nat /\ lastId' \in Nat
    BY <1>0 DEF TypeOK
<1>b. /\ \A i \in 1..Len(down) : down[i].type = "COMMISSION_COMMAND" => down[i].commandId \in Nat
      /\ \A i \in 1..Len(up) : up[i].type = "COMMISSION_ACK" => up[i].commandId \in Nat
      /\ \A s \in Requesters : Sent(s) /\ outbox[s].type = "COMMISSION_COMMAND"
            => outbox[s].commandId \in Nat
    <2>1. /\ \A i \in 1..Len(down) : down[i] \in Downward
          /\ \A i \in 1..Len(up) : up[i] \in Upward
          /\ \A s \in Requesters : Sent(s) => outbox[s] \in Downward
        BY DEF TypeOK, Sent
    <2> QED
        BY <2>1 DEF Downward, Upward, RequestIds
<1>1. ASSUME UNCHANGED restarts
      PROVE  IdsWereGiven /\ ~ reused
    BY <1>1 DEF FirstLife
<1>2. ASSUME NEW r \in Requesters, NEW name \in AnyName, requestCommissioning(r, name)
      PROVE  IdsWereGiven' /\ ~ reused'
    <2>1. /\ lastId' = lastId + 1 /\ UNCHANGED <<down, up>> /\ persist
          /\ outbox' = [outbox EXCEPT ![r] = [type |-> "COMMISSION_COMMAND",
                                             commandId |-> lastId', name |-> name]]
          /\ reused' = (reused \/ OnItsWay(lastId'))
        BY <1>2 DEF requestCommissioning, nextConsoleCommandId
    <2>2. IdsWereGiven /\ ~ reused
        BY <1>0, <1>1, <2>1, PersistStep DEF TypeOK
    <2>3. ~ OnItsWay(lastId')
        <3>1. DOMAIN down = 1..Len(down) /\ DOMAIN up = 1..Len(up)
            BY DEF TypeOK
        <3> QED
            BY <1>a, <1>b, <2>1, <2>2, <3>1 DEF OnItsWay, IdsWereGiven
    <2>4. \A s \in Requesters : Sent(s)' /\ outbox'[s].type = "COMMISSION_COMMAND"
            => outbox'[s].commandId <= lastId'
        <3> SUFFICES ASSUME NEW s \in Requesters, Sent(s)', outbox'[s].type = "COMMISSION_COMMAND"
                     PROVE  outbox'[s].commandId <= lastId'
            OBVIOUS
        <3>1. CASE s = r
            BY <1>a, <2>1, <3>1 DEF TypeOK
        <3>2. CASE s # r
            BY <1>a, <1>b, <2>1, <2>2, <3>2 DEF TypeOK, Sent, IdsWereGiven
        <3> QED
            BY <3>1, <3>2
    <2>5. /\ \A i \in 1..Len(down) : down[i].type = "COMMISSION_COMMAND" => down[i].commandId <= lastId'
          /\ \A i \in 1..Len(up) : up[i].type = "COMMISSION_ACK" => up[i].commandId <= lastId'
        BY <1>a, <1>b, <2>1, <2>2 DEF IdsWereGiven
    <2>6. IdsWereGiven'
        BY <2>1, <2>4, <2>5 DEF IdsWereGiven
    <2> QED
        BY <2>1, <2>2, <2>3, <2>6
<1>3. ASSUME NEW r \in Requesters, decommission(r)
      PROVE  IdsWereGiven' /\ ~ reused'
    <2>1. /\ lastId' = lastId + 1 /\ UNCHANGED <<down, up, reused>> /\ persist
          /\ \/ outbox' = [outbox EXCEPT ![r] = [type |-> "DECOMMISSION_COMMAND"]]
             \/ outbox' = outbox
        BY <1>3 DEF decommission, nextConsoleCommandId
    <2>2. IdsWereGiven /\ ~ reused
        BY <1>0, <1>1, <2>1, PersistStep DEF TypeOK
    <2>3. \A s \in Requesters : Sent(s)' /\ outbox'[s].type = "COMMISSION_COMMAND"
            => Sent(s) /\ outbox'[s] = outbox[s]
        BY <2>1 DEF TypeOK, Sent
    <2> QED
        BY <1>a, <1>b, <2>1, <2>2, <2>3 DEF IdsWereGiven
<1>4. ASSUME UNCHANGED <<lastId, reused, restarts>>,
             \A i \in 1..Len(down') : down'[i].type = "COMMISSION_COMMAND" =>
                \/ \E j \in 1..Len(down) : down'[i] = down[j]
                \/ \E s \in Requesters : Sent(s) /\ down'[i] = outbox[s],
             \A i \in 1..Len(up') : up'[i].type = "COMMISSION_ACK" =>
                \/ \E j \in 1..Len(up) : up'[i] = up[j]
                \/ \E j \in 1..Len(down) : /\ down[j].type = "COMMISSION_COMMAND"
                                           /\ up'[i].commandId = down[j].commandId,
             \A s \in Requesters : Sent(s)' => Sent(s) /\ outbox'[s] = outbox[s]
      PROVE  IdsWereGiven' /\ ~ reused'
    <2>1. IdsWereGiven /\ ~ reused
        BY <1>1, <1>4
    <2> QED
        BY <1>4, <2>1 DEF IdsWereGiven
<1>5. ASSUME NEW r \in Requesters, SendRequest(r)
      PROVE  IdsWereGiven' /\ ~ reused'
    <2>1. /\ Sent(r) /\ outbox' = [outbox EXCEPT ![r] = Nothing]
          /\ down' = Append(down, outbox[r]) \/ down' = down
          /\ UNCHANGED <<up, lastId, reused, restarts>>
        BY <1>5 DEF SendRequest, Sent, MayFault, NoFault, Fault, bounds, asked
    <2>2. \A s \in Requesters : Sent(s)' => Sent(s) /\ outbox'[s] = outbox[s]
        BY <2>1 DEF TypeOK, Sent
    <2>3. \A i \in 1..Len(down') : down'[i] = outbox[r] \/ \E j \in 1..Len(down) : down'[i] = down[j]
        <3>1. down \in Seq(Downward) /\ outbox[r] \in Downward
            BY <2>1 DEF TypeOK, Sent
        <3>2. CASE down' = Append(down, outbox[r])
            BY <3>1, <3>2, AppendProperties
        <3> QED
            BY <2>1, <3>2
    <2> QED
        BY <1>4, <2>1, <2>2, <2>3
<1>6. ASSUME NodeReceive
      PROVE  IdsWereGiven' /\ ~ reused'
    <2>1. /\ down # <<>> /\ down' = Tail(down) /\ UNCHANGED <<outbox, lastId, reused, restarts>>
        BY <1>6 DEF NodeReceive, handleCommissionCommand, handleDecommissionCommand, MayFault,
                    NoFault, Fault, bounds, asked
    <2>2. /\ 1 \in 1..Len(down) /\ Head(down) = down[1]
          /\ \A i \in 1..Len(down') : i + 1 \in 1..Len(down) /\ down'[i] = down[i + 1]
        BY <2>1, TailOfQueue DEF TypeOK
    <2>3. \A i \in 1..Len(up') : up'[i].type = "COMMISSION_ACK" =>
            \/ \E j \in 1..Len(up) : up'[i] = up[j]
            \/ \E j \in 1..Len(down) : /\ down[j].type = "COMMISSION_COMMAND"
                                       /\ up'[i].commandId = down[j].commandId
        <3> DEFINE report == [type |-> "IDENTITY_REPORT"]
        <3>1. CASE down[1].type = "COMMISSION_COMMAND" /\ handleCommissionCommand(down[1])
            <4>1. PICK ok \in BOOLEAN :
                    up' = up \o <<[type |-> "COMMISSION_ACK", commandId |-> down[1].commandId,
                                   success |-> ok, state |-> node'.state], report>>
                BY <3>1 DEF handleCommissionCommand
            <4> DEFINE answer == [type |-> "COMMISSION_ACK", commandId |-> down[1].commandId,
                                  success |-> ok, state |-> node'.state]
            <4>2. /\ Len(up) \in Nat /\ Len(up') = Len(up) + 2
                  /\ \A i \in 1..Len(up) : up'[i] = up[i]
                  /\ up'[Len(up) + 1] = answer /\ up'[Len(up) + 2] = report
                <5> HIDE DEF answer, report
                <5>1. up' = up \o <<answer, report>>
                    BY <4>1 DEF answer
                <5> QED
                    BY <5>1, TwoMore DEF TypeOK
            <4>3. \A i \in 1..Len(up') : i \in 1..Len(up) \/ up'[i] = answer
                                         \/ up'[i].type = "IDENTITY_REPORT"
                BY <4>2
            <4> QED
                BY <2>2, <3>1, <4>2, <4>3
        <3>2. CASE handleDecommissionCommand
            <4>1. up' = Append(up, report)
                BY <3>2 DEF handleDecommissionCommand
            <4> QED
                BY <4>1 DEF TypeOK
        <3> QED
            BY <1>6, <2>2, <3>1, <3>2 DEF NodeReceive
    <2> QED
        BY <1>4, <2>1, <2>2, <2>3 DEF Sent
<1>7. ASSUME CentralReceive
      PROVE  IdsWereGiven' /\ ~ reused'
    <2>1. /\ up # <<>> /\ up' = Tail(up) /\ UNCHANGED <<outbox, down, lastId, reused>>
        BY <1>7 DEF CentralReceive, asked
    <2>2. UNCHANGED restarts
        <3>1. CASE persist
            BY <1>0, <3>1, PersistStep DEF TypeOK
        <3> QED
            BY <1>7, <3>1 DEF CentralReceive, recordDiscovered, applyCommissionResult, NoFault, bounds
    <2>3. \A i \in 1..Len(up') : i + 1 \in 1..Len(up) /\ up'[i] = up[i + 1]
        BY <2>1, TailOfQueue DEF TypeOK
    <2> QED
        BY <1>4, <2>1, <2>2, <2>3 DEF Sent
<1>8. ASSUME CentralRestart
      PROVE  IdsWereGiven' /\ ~ reused'
    BY <1>8 DEF CentralRestart, TypeOK
<1>9. ASSUME Report
      PROVE  IdsWereGiven' /\ ~ reused'
    <2>1. PICK type \in {"IDENTITY_REPORT", "NODE_REPORT"} : up' = Append(up, [type |-> type])
        BY <1>9 DEF Report
    <2>2. \A i \in 1..Len(up') :
            (i \in 1..Len(up) /\ up'[i] = up[i]) \/ up'[i].type # "COMMISSION_ACK"
        BY <2>1 DEF TypeOK
    <2>3. UNCHANGED <<outbox, down, lastId, reused, restarts>>
        BY <1>9 DEF Report, asked, bounds
    <2> QED
        BY <1>4, <2>2, <2>3 DEF Sent
<1>10. ASSUME Lose
       PROVE  IdsWereGiven' /\ ~ reused'
    <2>1. UNCHANGED <<outbox, lastId, reused, restarts>>
        BY <1>10 DEF Lose, Fault, asked
    <2>2. \A i \in 1..Len(down') : \E j \in 1..Len(down) : down'[i] = down[j]
        <3>1. CASE down # <<>> /\ down' = Tail(down)
            <4>1. \A i \in 1..Len(down') : i + 1 \in 1..Len(down) /\ down'[i] = down[i + 1]
                BY <3>1, TailOfQueue DEF TypeOK
            <4> QED
                BY <4>1
        <3> QED
            BY <1>10, <3>1 DEF Lose
    <2>3. \A i \in 1..Len(up') : \E j \in 1..Len(up) : up'[i] = up[j]
        <3>1. CASE up # <<>> /\ up' = Tail(up)
            <4>1. \A i \in 1..Len(up') : i + 1 \in 1..Len(up) /\ up'[i] = up[i + 1]
                BY <3>1, TailOfQueue DEF TypeOK
            <4> QED
                BY <4>1
        <3> QED
            BY <1>10, <3>1 DEF Lose
    <2> QED
        BY <1>4, <2>1, <2>2, <2>3 DEF Sent
<1>11. ASSUME FactoryReset
       PROVE  IdsWereGiven' /\ ~ reused'
    <2>1. /\ down' = <<>> /\ Len(down') = 0
          /\ UNCHANGED <<outbox, up, lastId, reused, restarts>>
        BY <1>11 DEF FactoryReset, asked
    <2> QED
        BY <1>4, <2>1 DEF Sent
<1>12. CASE UNCHANGED vars
    <2>1. UNCHANGED <<outbox, down, up, lastId, reused, restarts>>
        BY <1>12 DEF vars, asked, bounds
    <2> QED
        BY <1>4, <2>1 DEF Sent
<1> QED
    BY <1>2, <1>3, <1>5, <1>6, <1>7, <1>8, <1>9, <1>10, <1>11, <1>12 DEF Next, nodeCommand

-----------------------------------------------------------------------------
(***************************************************************************)
(* The theorems.                                                           *)
(***************************************************************************)

\* The invariant holds before anything is asked.
LEMMA InvInit == Init => Inv
<1> SUFFICES ASSUME Init PROVE Inv
    OBVIOUS
<1>1. TypeOK
    BY TypeInit
<1>2. /\ down = <<>> /\ up = <<>> /\ Len(down) = 0 /\ Len(up) = 0 /\ NoneToSend /\ ~ reused
      /\ record.sync = "SYNCED" /\ record.state = "ABSENT" /\ saved.state = "ABSENT"
    BY DEF Init, NoRecord, NewRecord, NoneToSend, Sent
<1>3. FirstLife
    BY <1>2 DEF FirstLife, IdsWereGiven, NoneToSend
<1>4. Ordered
    BY <1>1, <1>2
       DEF Ordered, LatestIsLast, LatestIsAnswered, PlannedIsSafe, SavedIsPlanned,
           SyncedIsQuiet, NoneToSend
<1> QED
    BY <1>1, <1>3, <1>4 DEF Inv

\* With one task that asks, every step keeps the order of the packets, as long
\* as it gives out no commandId that is still on its way.
LEMMA OrderedStep == ASSUME OneRequester PROVE Ordered /\ [Next]_vars /\ ~ reused' => Ordered'
<1> SUFFICES ASSUME Ordered, [Next]_vars, ~ reused' PROVE Ordered'
    OBVIOUS
<1>1. CASE UNCHANGED vars
    <2>1. TypeOK'
        BY <1>1, TypeStep DEF Ordered
    <2> QED
        BY <1>1, <2>1
           DEF vars, central, bounds, Ordered, LatestIsLast, LatestIsAnswered,
               PlannedIsSafe, SavedIsPlanned, SyncedIsQuiet, Trusted, NotDecommissioned,
               IsLatestCommand, IsLatestAnswer, NoneToSend, Sent
<1>2. CASE \E r \in Requesters : nodeCommand(r) \/ SendRequest(r)
    BY <1>2, OneRequester, RequestStep, DecommissionStep, SendStep DEF nodeCommand
<1> QED
    BY <1>1, <1>2, CentralStep, RestartStep, NodeStep, ReportStep, LossStep, ResetStep DEF Next

\* That a commandId was given out twice is not forgotten.
LEMMA ReusedStays == ASSUME [Next]_vars PROVE reused => reused'
BY DEF Next, vars, asked, nodeCommand, requestCommissioning, decommission, SendRequest,
       CentralReceive, CentralRestart, NodeReceive, Report, Lose, FactoryReset

\* Every step keeps the invariant.
LEMMA InvStep == ASSUME OneRequester PROVE Inv /\ [Next]_vars => Inv'
<1> SUFFICES ASSUME Inv, [Next]_vars PROVE Inv'
    OBVIOUS
<1>1. TypeOK' /\ FirstLife'
    BY TypeStep, FirstLifeStep DEF Inv
<1>2. ASSUME ~ reused' PROVE Ordered'
    BY <1>2, OneRequester, ReusedStays, OrderedStep DEF Inv
<1> QED
    BY <1>1, <1>2 DEF Inv

\* Every variable keeps its type, with any number of requesting tasks.
THEOREM TypeCorrect == Spec => []TypeOK
<1>1. Init => TypeOK
    BY TypeInit
<1>2. TypeOK /\ [Next]_vars => TypeOK'
    BY TypeStep
<1> QED
    BY <1>1, <1>2, PTL DEF Spec

\* The invariant holds when one task makes the requests, with any number of
\* restarts: also when commandIds are given out again.
THEOREM Inductive == ASSUME OneRequester PROVE Spec => []Inv
<1>1. Init => Inv
    BY InvInit
<1>2. Inv /\ [Next]_vars => Inv'
    BY InvStep
<1> QED
    BY <1>1, <1>2, PTL DEF Spec

\* What the Central plans with is commissioned by its own account: whatever
\* late answer, lost packet, failed write or restart there was, until a request
\* gets a commandId that a restarted Central had given to a packet still on its
\* way (applyCommissionResult, requestCommissioning, decommission, persist).
THEOREM PlannedIsTrue == ASSUME OneRequester PROVE Spec => []PlannedIsCommissioned
<1>1. Inv => PlannedIsCommissioned
    BY DEF Inv, Ordered, PlannedIsSafe, Trusted, PlannedIsCommissioned
<1> QED
    BY <1>1, Inductive, PTL

\* A record in sync has the Node's name (applyCommissionResult).
THEOREM SyncedIsTrue == ASSUME OneRequester PROVE Spec => []SyncedNameAgrees
<1>1. Inv => SyncedNameAgrees
    BY DEF Inv, FirstLife, Ordered, SyncedIsQuiet, SyncedNameAgrees
<1> QED
    BY <1>1, Inductive, PTL
=============================================================================
