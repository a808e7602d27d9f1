---------------------------- MODULE RelayDispatch ----------------------------
(***************************************************************************)
(* The control loop of the Central: runOptimizationCycle plans under       *)
(* stateMutex, takes a snapshot of the wanted relay states, releases the   *)
(* mutex and commands the relays one by one, waiting for the               *)
(* acknowledgement of each remote one.  The optimization task runs it      *)
(* forever; the console's `optimize` and `dashboard` run the same function *)
(* on the console's own task, and nothing serialises the two.  The ESP-NOW *)
(* task completes pending commands as acknowledgements arrive.  A Smart    *)
(* Node queues relay commands and carries them out in order.               *)
(*                                                                         *)
(* What may go wrong (a message lost, a false send report, a slow Node, a  *)
(* busy mutex, a restart) costs one of MaxFaults; what the outside may     *)
(* change (modes, battery, schedules, reports) costs one of MaxChanges.    *)
(***************************************************************************)
EXTENDS LoadSelection, Sequences

CONSTANTS
    Loads,          \* the registered Loads
    Nodes,          \* the commissioned Smart Nodes
    Central,        \* the owner of the Central's own Loads
    Owner,          \* Owner[l]: the Node that drives the relay of l
    Index,          \* Index[l]: the place of l in the registry's traversal
    Power,          \* Power[l]: its power rating in watts
    Priority,       \* Priority[l]: its configured priority
    Scheduled,      \* the Loads with an enabled schedule
    BootModes,      \* the modes a Load may be stored with at start
    BootRelay,      \* BootRelay[l]: the relay state a restart restores
    Allowances,     \* the planning allowances the battery may lead to
    NotReady,       \* "planning is not configured, or its inputs not ready"
    Planner,        \* the optimization task
    Consoles,       \* the console task, or none when it is not used
    NoDispatcher,   \* the holder of a free mutex
    Ids,            \* relay command identifiers; 0 is none
    QueueDepth,     \* the capacity of a Node's relayCommandQueue
    MaxFaults,      \* bound on faults
    MaxChanges      \* bound on outside changes

Dispatchers == {Planner} \cup Consoles

Modes == {"FIXED_OFF", "AUTO_OFF", "AUTO_ON", "FIXED_ON"}

ASSUME LoadsAssumption ==
    /\ IsFiniteSet(Loads)
    /\ Central \notin Nodes
    /\ Owner \in [Loads -> Nodes \cup {Central}]
    /\ Index \in [Loads -> Nat]
    /\ \A l, m \in Loads : Index[l] = Index[m] => l = m
    /\ Power \in [Loads -> Nat]
    /\ Priority \in [Loads -> Nat]
    /\ Scheduled \subseteq Loads
    /\ BootModes \subseteq Modes
    /\ BootRelay \in [Loads -> BOOLEAN]

ASSUME BoundsAssumption ==
    /\ NoDispatcher \notin Dispatchers
    /\ Ids \subseteq Nat \ {0}
    /\ Allowances \subseteq Nat
    /\ NotReady \notin Nat
    /\ QueueDepth \in Nat \ {0}
    /\ MaxFaults \in Nat
    /\ MaxChanges \in Nat

VARIABLES
    mode,           \* mode[l]: the mode the Central keeps for l
    allowance,      \* what updatePowerBudget would allow now, or NotReady
    active,         \* the Loads whose schedule window is open
    online,         \* the Nodes that reported within NODE_REPORT_TIMEOUT
    mutex,          \* the dispatcher that plans under stateMutex
    pc,             \* pc[d]: where runOptimizationCycle stands on task d
    plan,           \* plan[d]: the mode of each Load when d made its plan
    budget,         \* budget[d]: the allowance d planned with
    todo,           \* todo[d]: the targets d has not finished
    command,        \* command[d]: the remote command d is busy with
    pending,        \* pendingCommands_
    lastCompleted,  \* lastCompletedCommandId_ and lastCompletedCommandSuccess_
    queue,          \* queue[n]: relayCommandQueue of n
    acks,           \* the acknowledgements on their way
    relay,          \* relay[l]: whether the relay of l is energised
    applied,        \* the identifiers of the commands that were carried out
    faults,         \* faults so far
    changes         \* outside changes so far

inputs  == <<allowance, active, online>>
cycle   == <<plan, budget, todo>>
tracker == <<pending, lastCompleted>>
plant   == <<queue, acks, relay, applied>>
bounds  == <<faults, changes>>
vars    == <<mode, inputs, mutex, pc, cycle, command, tracker, plant, bounds>>

IsOn(m)    == m \in {"AUTO_ON", "FIXED_ON"}
IsAuto(m)  == m \in {"AUTO_ON", "AUTO_OFF"}
NoPlan     == [l \in {} |-> "FIXED_OFF"]

\* RelayCommandDispatcher::PendingCommand, and the packet made from it.
Commands == [id : Ids, load : Loads, on : BOOLEAN]
NoCommand == [id |-> 0]
Acknowledgements == [id : Ids, load : Loads, on : BOOLEAN, success : BOOLEAN]

TypeOK ==
    /\ mode \in [Loads -> Modes]
    /\ allowance \in Allowances \cup {NotReady}
    /\ active \subseteq Loads
    /\ online \subseteq Nodes
    /\ mutex \in Dispatchers \cup {NoDispatcher}
    /\ pc \in [Dispatchers ->
            {"idle", "plan", "dispatch", "send", "wait", "result", "giveUp"}]
    /\ plan \in [Dispatchers -> UNION {[S -> Modes] : S \in SUBSET Loads}]
    /\ budget \in [Dispatchers -> Allowances \cup {NotReady}]
    /\ todo \in [Dispatchers -> SUBSET Loads]
    /\ command \in [Dispatchers -> Commands \cup {NoCommand}]
    /\ pending \subseteq Commands
    /\ lastCompleted \in [id : Ids \cup {0}, success : BOOLEAN]
    /\ queue \in [Nodes -> Seq(Commands)]
    /\ \A n \in Nodes : Len(queue[n]) <= QueueDepth
    /\ acks \subseteq Acknowledgements
    /\ relay \in [Loads -> BOOLEAN]
    /\ applied \subseteq Ids
    /\ faults \in 0..MaxFaults
    /\ changes \in 0..MaxChanges

Init ==
    /\ mode \in [Loads -> BootModes]
    /\ allowance \in Allowances \cup {NotReady}
    /\ active = {}
    /\ online = Nodes
    /\ mutex = NoDispatcher
    /\ pc = [d \in Dispatchers |-> "idle"]
    /\ plan = [d \in Dispatchers |-> NoPlan]
    /\ budget = [d \in Dispatchers |-> NotReady]
    /\ todo = [d \in Dispatchers |-> {}]
    /\ command = [d \in Dispatchers |-> NoCommand]
    /\ pending = {}
    /\ lastCompleted = [id |-> 0, success |-> FALSE]
    /\ queue = [n \in Nodes |-> <<>>]
    /\ acks = {}
    /\ relay = BootRelay
    /\ applied = {}
    /\ faults = 0
    /\ changes = 0

NoFault == UNCHANGED bounds
Fault   == faults < MaxFaults /\ faults' = faults + 1 /\ UNCHANGED changes
Change  == changes < MaxChanges /\ changes' = changes + 1 /\ UNCHANGED faults

Moves(d, from, to) == pc[d] = from /\ pc' = [pc EXCEPT ![d] = to]

-----------------------------------------------------------------------------
(***************************************************************************)
(* Planning, under stateMutex.                                             *)
(***************************************************************************)

\* The Loads buildLoadFilter classifies: those of the Central, and those of
\* the Nodes it still hears.
Planned == {l \in Loads : Owner[l] \in online \cup {Central}}

\* Mutant: what is on already is not decided anew.
PlannedAutoOff == {l \in Planned : mode[l] = "AUTO_OFF"}

PlannedAuto == {l \in Planned : IsAuto(mode[l])}

sumFixedOnPowerWatts == SumOver(Power, {l \in Planned : mode[l] = "FIXED_ON"})

\* Mutant: the allowance, with the Loads fixed ON not taken off it.
P_auto_allowance == allowance

P_auto_available ==
    IF sumFixedOnPowerWatts <= allowance THEN allowance - sumFixedOnPowerWatts ELSE 0

Problem == [candidates |-> PlannedAuto, available |-> P_auto_available,
            power |-> Power, priority |-> Priority, active |-> active]

\* Best-First Search: ties go to the visiting order, always the same way.
Selected == IF allowance = NotReady
            THEN {}
            ELSE CHOOSE S \in BestCombinations(Problem) : TRUE

\* Mutant: only the Loads whose mode this cycle changes become targets.
changedRelayTargets(modes) ==
    [l \in {k \in Planned : modes[k] # mode[k]} |-> modes[l]]

\* buildRelayTargets: every planned Load, with the mode it has now.
buildRelayTargets(modes) == [l \in Planned |-> modes[l]]

\* Take stateMutex.  A task that finds it busy for a second gives the cycle
\* up, which changes nothing.
StartCycle(d) ==
    /\ mutex = NoDispatcher
    /\ mutex' = d
    /\ Moves(d, "idle", "plan")
    /\ NoFault
    /\ UNCHANGED <<mode, inputs, cycle, command, tracker, plant>>

(***************************************************************************)
(* The rest of the critical section: the automatic Loads get their new     *)
(* mode, and every planned Load becomes a target with the state its mode   *)
(* has at this moment.                                                     *)
(***************************************************************************)
MakePlan(d) ==
    /\ pc[d] = "plan"
    /\ mode' = [l \in Loads |->
                  IF l \notin PlannedAuto THEN mode[l]
                  ELSE IF l \in Selected THEN "AUTO_ON" ELSE "AUTO_OFF"]
    /\ plan' = [plan EXCEPT ![d] = buildRelayTargets(mode')]
    /\ budget' = [budget EXCEPT ![d] = allowance]
    /\ todo' = [todo EXCEPT ![d] = DOMAIN buildRelayTargets(mode')]
    /\ mutex' = NoDispatcher
    /\ Moves(d, "plan", "dispatch")
    /\ NoFault
    /\ UNCHANGED <<inputs, command, tracker, plant>>

-----------------------------------------------------------------------------
(***************************************************************************)
(* Dispatching, without stateMutex.                                        *)
(***************************************************************************)

\* Mutant: the order of buildRelayTargets, without buildDispatchOrder.
UnorderedRank(m) == CASE m = "FIXED_OFF" -> 1 [] m = "FIXED_ON" -> 3
                      [] m \in {"AUTO_OFF", "AUTO_ON"} -> 2

\* buildRelayTargets and buildDispatchOrder: fixed OFF, automatic OFF,
\* automatic ON, fixed ON; in each group the order of the registry.
Rank(m) == CASE m = "FIXED_OFF" -> 1 [] m = "AUTO_OFF" -> 2
             [] m = "AUTO_ON"   -> 3 [] m = "FIXED_ON" -> 4

Precedes(targets, l, m) ==
    \/ Rank(targets[l]) < Rank(targets[m])
    \/ Rank(targets[l]) = Rank(targets[m]) /\ Index[l] < Index[m]

IsNext(d, l) ==
    /\ pc[d] = "dispatch"
    /\ l \in todo[d]
    /\ \A m \in todo[d] \ {l} : Precedes(plan[d], l, m)

Finished(d, l) ==
    /\ pc' = [pc EXCEPT ![d] = "dispatch"]
    /\ todo' = [todo EXCEPT ![d] = @ \ {l}]
    /\ command' = [command EXCEPT ![d] = NoCommand]
    /\ UNCHANGED <<plan, budget>>

\* A relay of the Central itself; writing it may fail.
DispatchLocal(d, l) ==
    /\ IsNext(d, l)
    /\ Owner[l] = Central
    /\ \/ relay' = [relay EXCEPT ![l] = IsOn(plan[d][l])] /\ NoFault
       \/ UNCHANGED relay /\ Fault
    /\ Finished(d, l)
    /\ UNCHANGED <<mode, inputs, mutex, tracker, queue, acks, applied>>

\* The mutex stays busy for 250 ms, or the Node has no route: the target is
\* given up before a command exists.
SkipTarget(d, l) ==
    /\ IsNext(d, l)
    /\ Owner[l] # Central
    /\ Fault
    /\ Finished(d, l)
    /\ UNCHANGED <<mode, inputs, mutex, tracker, plant>>

(***************************************************************************)
(* nextCommandId_ is a counter.  What matters of an identifier is whether  *)
(* anything else still carries it: the model takes the least one that      *)
(* nothing carries, so that the counter does not make every state new.     *)
(***************************************************************************)
LiveIds ==
    {p.id : p \in pending} \cup {a.id : a \in acks}
      \cup {command[d].id : d \in Dispatchers} \cup {lastCompleted.id}
      \cup UNION {{queue[n][i].id : i \in DOMAIN queue[n]} : n \in Nodes}

beginCommand(d, l) ==
    /\ IsNext(d, l)
    /\ Owner[l] # Central
    /\ mutex = NoDispatcher
    /\ \E id \in Ids \ LiveIds :
          /\ \A other \in Ids \ LiveIds : id <= other
          /\ command' = [command EXCEPT
                            ![d] = [id |-> id, load |-> l, on |-> IsOn(plan[d][l])]]
          /\ applied' = applied \ {id}
    /\ pending' = pending \cup {command'[d]}
    /\ Moves(d, "dispatch", "send")
    /\ NoFault
    /\ UNCHANGED <<mode, inputs, mutex, cycle, lastCompleted, queue, acks, relay>>

\* Mutant: the queue has no limit.
EnqueueAlways(c) ==
    queue' = [queue EXCEPT ![Owner[c.load]] = Append(@, c)]

\* xQueueSend: a full queue drops the command.
Enqueue(c) ==
    LET n == Owner[c.load]
    IN  queue' = [queue EXCEPT ![n] = IF Len(@) < QueueDepth THEN Append(@, c) ELSE @]

\* sendTo: what it reports and what happens to the packet may differ.
Send(d) ==
    /\ pc[d] = "send"
    /\ \E reported, delivered \in BOOLEAN :
          /\ IF reported /\ delivered THEN NoFault ELSE Fault
          /\ IF delivered THEN Enqueue(command[d]) ELSE UNCHANGED queue
          /\ Moves(d, "send", IF reported THEN "wait" ELSE "giveUp")
    /\ UNCHANGED <<mode, inputs, mutex, cycle, command, tracker, acks, relay, applied>>

isPending(id) == \E p \in pending : p.id = id

\* The poll finds the command complete.
SeeCompletion(d) ==
    /\ mutex = NoDispatcher
    /\ Moves(d, "wait", "result")
    /\ ~ isPending(command[d].id)
    /\ NoFault
    /\ UNCHANGED <<mode, inputs, mutex, cycle, command, tracker, plant>>

\* Mutant: a command that failed stays in the list.
completeSuccess(id, success) ==
    IF isPending(id) /\ success
    THEN /\ pending' = {p \in pending : p.id # id}
         /\ lastCompleted' = [id |-> id, success |-> success]
    ELSE UNCHANGED tracker

\* Erases the entry and remembers the outcome; nothing if there is none.
completeCommand(id, success) ==
    IF isPending(id)
    THEN /\ pending' = {p \in pending : p.id # id}
         /\ lastCompleted' = [id |-> id, success |-> success]
    ELSE UNCHANGED tracker

\* Nothing is on its way any more that could complete command c.
IsLost(c) == /\ c.id \notin {a.id : a \in acks}
             /\ \A n \in Nodes : c \notin {queue[n][i] : i \in DOMAIN queue[n]}

\* Mutant: the wait only ends when the command is no longer pending.
DeadlineWhenCompleted(d) ==
    /\ Moves(d, "wait", "giveUp")
    /\ ~ isPending(command[d].id)
    /\ Fault
    /\ UNCHANGED <<mode, inputs, mutex, cycle, command, tracker, plant>>

\* RELAY_COMMAND_ACK_TIMEOUT_MILLISECONDS pass.  With the command lost they
\* must; while an answer may still come, that is a fault.
Deadline(d) ==
    /\ Moves(d, "wait", "giveUp")
    /\ IF IsLost(command[d]) /\ isPending(command[d].id) THEN NoFault ELSE Fault
    /\ UNCHANGED <<mode, inputs, mutex, cycle, command, tracker, plant>>

\* Mutant: the last completion is taken for the asker's own.
wasLastSuccessful(id) == lastCompleted.success

wasCommandSuccessful(id) == lastCompleted = [id |-> id, success |-> TRUE]

\* dispatchRelayTargetAndWait returns wasCommandSuccessful, read under the
\* mutex a second time; dispatchRelayOrderWithOnStagger ignores it.
ReadResult(d) ==
    /\ pc[d] = "result"
    /\ mutex = NoDispatcher
    /\ Finished(d, command[d].load)
    /\ NoFault
    /\ UNCHANGED <<mode, inputs, mutex, tracker, plant>>

\* After a failed send or the deadline.  A mutex that stays busy for 250 ms
\* leaves the command pending for ever.
GiveUp(d) ==
    /\ pc[d] = "giveUp"
    /\ \/ mutex = NoDispatcher /\ completeCommand(command[d].id, FALSE) /\ NoFault
       \/ mutex # NoDispatcher /\ UNCHANGED tracker /\ Fault
    /\ Finished(d, command[d].load)
    /\ UNCHANGED <<mode, inputs, mutex, plant>>

EndCycle(d) ==
    /\ todo[d] = {}
    /\ plan' = [plan EXCEPT ![d] = NoPlan]
    /\ budget' = [budget EXCEPT ![d] = NotReady]
    /\ Moves(d, "dispatch", "idle")
    /\ NoFault
    /\ UNCHANGED <<mode, inputs, mutex, todo, command, tracker, plant>>

-----------------------------------------------------------------------------
(***************************************************************************)
(* Smart Nodes and the acknowledgements.                                   *)
(***************************************************************************)

\* relayControlTask takes the oldest command; setRelayState may fail.
Execute(n) ==
    /\ queue[n] # <<>>
    /\ LET c == Head(queue[n])
       IN  \E success \in BOOLEAN :
             /\ relay' = IF success THEN [relay EXCEPT ![c.load] = c.on] ELSE relay
             /\ applied' = IF success THEN applied \cup {c.id} ELSE applied
             /\ acks' = acks \cup {[id |-> c.id, load |-> c.load, on |-> c.on,
                                    success |-> success]}
             /\ IF success THEN NoFault ELSE Fault
    /\ queue' = [queue EXCEPT ![n] = Tail(@)]
    /\ UNCHANGED <<mode, inputs, mutex, pc, cycle, command, tracker>>

\* The command an acknowledgement answers: identifier, origin, pin and
\* requested state must all agree with the pending one.
handleRelayAcknowledgement(a) ==
    /\ mutex = NoDispatcher
    /\ IF [id |-> a.id, load |-> a.load, on |-> a.on] \in pending
       THEN completeCommand(a.id, a.success)
       ELSE UNCHANGED tracker
    /\ acks' = acks \ {a}
    /\ NoFault
    /\ UNCHANGED <<mode, inputs, mutex, pc, cycle, command, queue, relay, applied>>

\* The acknowledgement is lost on the way, or the handler finds the mutex
\* busy for 250 ms and drops it.
LoseAcknowledgement(a) ==
    /\ acks' = acks \ {a}
    /\ Fault
    /\ UNCHANGED <<mode, inputs, mutex, pc, cycle, command, tracker, queue, relay, applied>>

\* A Smart Node restarts: its queue is lost, its relays get the state stored
\* with their hardware configuration.
Restart(n) ==
    /\ queue' = [queue EXCEPT ![n] = <<>>]
    /\ relay' = [l \in Loads |-> IF Owner[l] = n THEN BootRelay[l] ELSE relay[l]]
    /\ Fault
    /\ UNCHANGED <<mode, inputs, mutex, pc, cycle, command, tracker, acks, applied>>

-----------------------------------------------------------------------------
(***************************************************************************)
(* The outside.                                                            *)
(***************************************************************************)

\* handleLoadCommand: a user sets the mode of a Load.
SetMode(l, m) ==
    /\ mutex = NoDispatcher
    /\ m # mode[l]
    /\ mode' = [mode EXCEPT ![l] = m]
    /\ Change
    /\ UNCHANGED <<inputs, mutex, pc, cycle, command, tracker, plant>>

\* The battery or the planning settings change the allowance, a schedule
\* window opens or closes, a Node falls silent or is heard again.
ChangeInputs ==
    /\ \/ /\ allowance' \in (Allowances \cup {NotReady}) \ {allowance}
          /\ UNCHANGED <<active, online>>
       \/ /\ \E l \in Scheduled :
                active' = IF l \in active THEN active \ {l} ELSE active \cup {l}
          /\ UNCHANGED <<allowance, online>>
       \/ /\ \E n \in Nodes :
                online' = IF n \in online THEN online \ {n} ELSE online \cup {n}
          /\ UNCHANGED <<allowance, active>>
    /\ mutex = NoDispatcher
    /\ Change
    /\ UNCHANGED <<mode, mutex, pc, cycle, command, tracker, plant>>

-----------------------------------------------------------------------------
DispatchTarget(d, l) ==
    DispatchLocal(d, l) \/ SkipTarget(d, l) \/ beginCommand(d, l)

runOptimizationCycle(d) ==
    \/ StartCycle(d)
    \/ MakePlan(d)
    \/ \E l \in Loads : DispatchTarget(d, l)
    \/ Send(d)
    \/ SeeCompletion(d)
    \/ Deadline(d)
    \/ ReadResult(d)
    \/ GiveUp(d)
    \/ EndCycle(d)

Next ==
    \/ \E d \in Dispatchers : runOptimizationCycle(d)
    \/ \E n \in Nodes : Execute(n) \/ Restart(n)
    \/ \E a \in acks : handleRelayAcknowledgement(a) \/ LoseAcknowledgement(a)
    \/ \E l \in Loads, m \in Modes : SetMode(l, m)
    \/ ChangeInputs

Spec == Init /\ [][Next]_vars

(***************************************************************************)
(* The optimization task loops for ever, waking at least once per planning *)
(* interval; a Node works its queue off; the ESP-NOW task handles what it  *)
(* receives.  Nothing is assumed of the console or the outside.            *)
(***************************************************************************)
Fairness ==
    /\ WF_vars(runOptimizationCycle(Planner))
    /\ \A n \in Nodes : WF_vars(Execute(n))
    /\ WF_vars(\E a \in acks : handleRelayAcknowledgement(a))

FairSpec == Spec /\ Fairness

-----------------------------------------------------------------------------
(***************************************************************************)
(* Properties.                                                             *)
(***************************************************************************)

\* When dispatchRelayTargetAndWait returns success, the Node did carry out
\* this very command: no acknowledgement of another one, late or of another
\* task's, is ever taken for it (handleRelayAcknowledgement,
\* completeCommand, wasCommandSuccessful).
SuccessMeansApplied ==
    \A d \in Dispatchers :
        pc[d] = "result" /\ wasCommandSuccessful(command[d].id)
            => command[d].id \in applied

\* The pending commands that no task is busy with.
Orphans == pending \ {command[d] : d \in Dispatchers}

\* A command is left in pendingCommands_ with nobody to complete it only when
\* its task cannot get stateMutex because another task is planning: however
\* tasks, acknowledgements and deadlines interleave, the list does not grow
\* for any other reason (completeCommand on each way out of
\* dispatchRelayTargetAndWait).
OrphansOnlyWhenBusy ==
    [][Orphans' \ Orphans # {} => mutex # NoDispatcher]_vars

\* Whether d has begun to command the ON targets of its plan.
OnPhase(d) ==
    \/ command[d] # NoCommand /\ command[d].on
    \/ \E l \in DOMAIN plan[d] \ todo[d] : IsOn(plan[d][l])

\* Without faults, when a cycle has begun to switch Loads on, every Load its
\* plan has off is off: capacity is released before it is used
\* (buildDispatchOrder, and the wait in dispatchRelayTargetAndWait).
CapacityReleased ==
    faults = 0 =>
        \A d \in Dispatchers : OnPhase(d) =>
            \A l \in DOMAIN plan[d] : relay[l] => IsOn(plan[d][l])

\* Without faults, the Loads of a plan that are energised while its cycle
\* switches Loads on draw no more than the allowance the plan was made with, or
\* only those fixed ON draw anything (the planning and the dispatching
\* together).  The Loads of a Node that was not heard are not in the plan, and
\* those that are energised draw beside it; and the allowance is not looked at
\* again before the next cycle.
PlannedWithinBudget ==
    faults = 0 =>
        \A d \in Dispatchers : OnPhase(d) /\ budget[d] # NotReady =>
            LET energised == {l \in DOMAIN plan[d] : relay[l]}
                fixedOn   == {l \in DOMAIN plan[d] : plan[d][l] = "FIXED_ON"}
            IN  \/ SumOver(Power, energised) <= budget[d]
                \/ {l \in energised : Power[l] > 0} \subseteq fixedOn

\* When faults and outside changes have come to an end, what is energised comes
\* to draw no more than the allowance there is by then, for good, or only
\* Loads fixed ON draw anything, as without an allowance: a plan that was made
\* with an older allowance, other modes or other windows, and dispatched after
\* they changed, is corrected by a later cycle.  This too counts the Loads of
\* the Central and of the Nodes it hears (runOptimizationCycle).
DrawFollowsAllowance ==
    <>[](LET energised == {l \in Planned : relay[l]}
         IN  \/ allowance # NotReady /\ SumOver(Power, energised) <= allowance
             \/ \A l \in energised : Power[l] > 0 => mode[l] = "FIXED_ON")

\* When faults and outside changes have come to an end, the relays the
\* Central can reach come to agree with the modes it keeps, for good:
\* whatever was lost, late, stale or reset is repaired by a later cycle
\* (runOptimizationCycle commands every planned Load, not only changed ones).
RelaysConverge ==
    <>[](\A l \in Planned : relay[l] = IsOn(mode[l]))

\* The optimization task is never stuck in a cycle: every wait for an
\* acknowledgement comes to an end (the deadline in
\* dispatchRelayTargetAndWait).
PlannerKeepsPlanning == []<>(pc[Planner] = "plan")
=============================================================================
