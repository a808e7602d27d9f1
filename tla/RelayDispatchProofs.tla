------------------------- MODULE RelayDispatchProofs -------------------------
(***************************************************************************)
(* Proofs about RelayDispatch, for any number of Loads, Smart Nodes and    *)
(* dispatching tasks, any queue depth, and any number of faults and        *)
(* changes.                                                                *)
(***************************************************************************)
EXTENDS RelayDispatch, FiniteSetTheorems, WellFoundedInduction, TLAPS

-----------------------------------------------------------------------------
(***************************************************************************)
(* The inductive invariant.  A task is busy with a command exactly while   *)
(* it sends it, waits for it or closes it; a command whose completion was  *)
(* seen is not pending; and the outcomes on their way, or remembered, are  *)
(* true.                                                                   *)
(***************************************************************************)

Busy == {"send", "wait", "result", "giveUp"}

CommandOK ==
    \A d \in Dispatchers :
        /\ pc[d] \in Busy => command[d] \in Commands
        /\ pc[d] \notin Busy => command[d] = NoCommand

CompletedOK ==
    \A d \in Dispatchers : pc[d] = "result" => ~ isPending(command[d].id)

OutcomesOK ==
    /\ \A a \in acks : a.success => a.id \in applied
    /\ lastCompleted.success => lastCompleted.id \in applied

IInv == TypeOK /\ CommandOK /\ CompletedOK /\ OutcomesOK

-----------------------------------------------------------------------------
(***************************************************************************)
(* Type correctness, in three parts: what is planned from, what a task     *)
(* works on, and the commands and relays.                                  *)
(***************************************************************************)

PlanningType ==
    /\ mode \in [Loads -> Modes]
    /\ allowance \in Allowances \cup {NotReady}
    /\ active \subseteq Loads
    /\ online \subseteq Nodes
    /\ mutex \in Dispatchers \cup {NoDispatcher}
    /\ pc \in [Dispatchers ->
            {"idle", "plan", "dispatch", "send", "wait", "result", "giveUp"}]

CycleType ==
    /\ plan \in [Dispatchers -> UNION {[S -> Modes] : S \in SUBSET Loads}]
    /\ budget \in [Dispatchers -> Allowances \cup {NotReady}]
    /\ todo \in [Dispatchers -> SUBSET Loads]
    /\ command \in [Dispatchers -> Commands \cup {NoCommand}]
    /\ pending \subseteq Commands
    /\ lastCompleted \in [id : Ids \cup {0}, success : BOOLEAN]

PlantType ==
    /\ queue \in [Nodes -> Seq(Commands)]
    /\ \A n \in Nodes : Len(queue[n]) <= QueueDepth
    /\ acks \subseteq Acknowledgements
    /\ relay \in [Loads -> BOOLEAN]
    /\ applied \subseteq Ids

BoundsType == faults \in 0..MaxFaults /\ changes \in 0..MaxChanges

TypeParts == PlanningType /\ CycleType /\ PlantType /\ BoundsType

\* The type invariant is the conjunction of its parts.
LEMMA TypePartsOK == TypeOK <=> TypeParts
    BY DEF TypeOK, TypeParts, PlanningType, CycleType, PlantType, BoundsType

\* No step takes the faults or the outside changes beyond their bounds.
LEMMA StepBounds == BoundsType /\ (NoFault \/ Fault \/ Change) => BoundsType'
    BY BoundsAssumption DEF BoundsType, NoFault, Fault, Change, bounds

\* The empty plan, which a task has between two cycles, is a plan.
LEMMA NoPlanType == NoPlan \in UNION {[S -> Modes] : S \in SUBSET Loads}
<1>1. {} \in SUBSET Loads
    OBVIOUS
<1>2. NoPlan \in [{} -> Modes]
    BY DEF NoPlan
<1> QED
    BY <1>1, <1>2

\* A completion keeps the list of pending commands and the last outcome typed.
LEMMA CompletionType ==
    ASSUME NEW id \in Ids, NEW success \in BOOLEAN, completeCommand(id, success),
           pending \subseteq Commands,
           lastCompleted \in [id : Ids \cup {0}, success : BOOLEAN]
    PROVE  /\ pending' \subseteq Commands
           /\ lastCompleted' \in [id : Ids \cup {0}, success : BOOLEAN]
    BY DEF completeCommand, tracker

\* The variables have their types at the start.
LEMMA InitTypeOK == Init => TypeOK
<1> SUFFICES ASSUME Init PROVE TypeParts
    BY TypePartsOK
<1>1. PlanningType
    BY LoadsAssumption DEF Init, PlanningType
<1>2. CycleType
    BY NoPlanType DEF Init, CycleType
<1>3. PlantType
    BY LoadsAssumption, BoundsAssumption DEF Init, PlantType
<1>4. BoundsType
    BY BoundsAssumption DEF Init, BoundsType
<1> QED
    BY <1>1, <1>2, <1>3, <1>4 DEF TypeParts

\* Every step of every task, Node and message keeps the types; the one that
\* needs more than the types is Send, which sends the command its task is busy
\* with (CommandOK).
LEMMA StepTypeOK == TypeOK /\ CommandOK /\ [Next]_vars => TypeOK'
<1> SUFFICES ASSUME TypeParts, CommandOK, [Next]_vars
             PROVE  TypeParts'
    BY TypePartsOK, PTL
<1>1. ASSUME NEW d \in Dispatchers, StartCycle(d) PROVE TypeParts'
    <2>1. PlanningType'
        BY <1>1 DEF TypeParts, PlanningType, StartCycle, inputs, Moves, Finished
    <2>2. CycleType'
        BY <1>1 DEF TypeParts, CycleType, StartCycle, cycle, tracker, Finished
    <2>3. PlantType'
        BY <1>1 DEF TypeParts, PlantType, StartCycle, plant
    <2>4. BoundsType'
        BY <1>1, StepBounds DEF TypeParts, StartCycle
    <2> QED
        BY <2>1, <2>2, <2>3, <2>4 DEF TypeParts
<1>2. ASSUME NEW d \in Dispatchers, MakePlan(d) PROVE TypeParts'
    <2>1. PlanningType'
        <3>1. mode' \in [Loads -> Modes]
            BY <1>2 DEF TypeParts, MakePlan, PlanningType, Modes
        <3> QED
            BY <3>1, <1>2 DEF TypeParts, PlanningType, MakePlan, inputs, Moves
    <2>2. CycleType'
        <3> DEFINE targets == buildRelayTargets(mode')
        <3>1. Planned \in SUBSET Loads
            BY DEF Planned
        <3>2. targets \in [Planned -> Modes]
            BY <2>1, <3>1 DEF PlanningType, buildRelayTargets
        <3>3. DOMAIN targets = Planned
            BY DEF buildRelayTargets
        <3>4. [Planned -> Modes] \in {[S -> Modes] : S \in SUBSET Loads}
            BY <3>1
        <3>5. targets \in UNION {[S -> Modes] : S \in SUBSET Loads}
            BY <3>2, <3>4
        <3>6. (plan \in [Dispatchers -> UNION {[S -> Modes] : S \in SUBSET Loads}])'
            BY <1>2, <3>5 DEF TypeParts, CycleType, MakePlan
        <3>7. /\ budget' \in [Dispatchers -> Allowances \cup {NotReady}]
              /\ todo' \in [Dispatchers -> SUBSET Loads]
            BY <1>2, <3>1, <3>3 DEF TypeParts, CycleType, MakePlan, PlanningType
        <3> QED
            BY <1>2, <3>6, <3>7 DEF TypeParts, CycleType, MakePlan, tracker
    <2>3. PlantType'
        BY <1>2 DEF TypeParts, PlantType, MakePlan, plant
    <2>4. BoundsType'
        BY <1>2, StepBounds DEF TypeParts, MakePlan
    <2> QED
        BY <2>1, <2>2, <2>3, <2>4 DEF TypeParts
<1>3. ASSUME NEW d \in Dispatchers, NEW l \in Loads, DispatchLocal(d, l) PROVE TypeParts'
    <2>1. PlanningType'
        BY <1>3 DEF TypeParts, PlanningType, DispatchLocal, inputs, Moves, Finished
    <2>2. CycleType'
        BY <1>3 DEF TypeParts, CycleType, DispatchLocal, cycle, tracker, Finished
    <2>3. PlantType'
        <3>1. IsOn(plan[d][l]) \in BOOLEAN
            BY DEF IsOn
        <3>2. relay' \in [Loads -> BOOLEAN]
            BY <1>3, <3>1 DEF TypeParts, PlantType, DispatchLocal
        <3> QED
            BY <1>3, <3>2 DEF TypeParts, PlantType, DispatchLocal
    <2>4. BoundsType'
        BY <1>3, StepBounds DEF TypeParts, DispatchLocal
    <2> QED
        BY <2>1, <2>2, <2>3, <2>4 DEF TypeParts
<1>4. ASSUME NEW d \in Dispatchers, NEW l \in Loads, SkipTarget(d, l) PROVE TypeParts'
    <2>1. PlanningType'
        BY <1>4 DEF TypeParts, PlanningType, SkipTarget, inputs, Moves, Finished
    <2>2. CycleType'
        BY <1>4 DEF TypeParts, CycleType, SkipTarget, cycle, tracker, Finished
    <2>3. PlantType'
        BY <1>4 DEF TypeParts, PlantType, SkipTarget, plant
    <2>4. BoundsType'
        BY <1>4, StepBounds DEF TypeParts, SkipTarget
    <2> QED
        BY <2>1, <2>2, <2>3, <2>4 DEF TypeParts
<1>5. ASSUME NEW d \in Dispatchers, NEW l \in Loads, beginCommand(d, l) PROVE TypeParts'
    <2>1. PlanningType'
        BY <1>5 DEF TypeParts, PlanningType, beginCommand, inputs, Moves, Finished
    <2>2. CycleType'
        <3>1. PICK id \in Ids :
                command' = [command EXCEPT
                              ![d] = [id |-> id, load |-> l, on |-> IsOn(plan[d][l])]]
            BY <1>5 DEF beginCommand
        <3>2. [id |-> id, load |-> l, on |-> IsOn(plan[d][l])] \in Commands
            BY DEF Commands, IsOn
        <3>3. command' \in [Dispatchers -> Commands \cup {NoCommand}]
            BY <3>1, <3>2 DEF TypeParts, CycleType
        <3>4. command'[d] \in Commands
            BY <3>1, <3>2 DEF TypeParts, CycleType
        <3> QED
            BY <1>5, <3>3, <3>4 DEF TypeParts, CycleType, beginCommand, cycle
    <2>3. PlantType'
        BY <1>5 DEF TypeParts, PlantType, beginCommand, plant
    <2>4. BoundsType'
        BY <1>5, StepBounds DEF TypeParts, beginCommand
    <2> QED
        BY <2>1, <2>2, <2>3, <2>4 DEF TypeParts
<1>6. ASSUME NEW d \in Dispatchers, Send(d) PROVE TypeParts'
    <2>1. PlanningType'
        BY <1>6 DEF TypeParts, PlanningType, Send, inputs, Moves, Finished
    <2>2. CycleType'
        BY <1>6 DEF TypeParts, CycleType, Send, cycle, tracker, Finished
    <2>3. PlantType'
        <3>1. command[d] \in Commands
            BY <1>6 DEF Send, Moves, CommandOK, Busy
        <3>2. ASSUME Enqueue(command[d])
              PROVE  /\ queue' \in [Nodes -> Seq(Commands)]
                     /\ \A n \in Nodes : Len(queue'[n]) <= QueueDepth
            <4> DEFINE n == Owner[command[d].load]
                       old == queue[n]
                       new == IF Len(old) < QueueDepth THEN Append(old, command[d]) ELSE old
            <4>1. queue' = [queue EXCEPT ![n] = new]
                BY <3>2 DEF Enqueue
            <4>2. \A m \in Nodes : queue[m] \in Seq(Commands) /\ Len(queue[m]) <= QueueDepth
                BY DEF TypeParts, PlantType
            <4>3. n \in Nodes => new \in Seq(Commands) /\ Len(new) <= QueueDepth
                BY <3>1, <4>2, BoundsAssumption
            <4> HIDE DEF n, new
            <4> QED
                BY <4>1, <4>2, <4>3 DEF TypeParts, PlantType
        <3> QED
            BY <1>6, <3>2 DEF TypeParts, PlantType, Send
    <2>4. BoundsType'
        BY <1>6, StepBounds DEF TypeParts, Send
    <2> QED
        BY <2>1, <2>2, <2>3, <2>4 DEF TypeParts
<1>7. ASSUME NEW d \in Dispatchers, SeeCompletion(d) PROVE TypeParts'
    <2>1. PlanningType'
        BY <1>7 DEF TypeParts, PlanningType, SeeCompletion, inputs, Moves, Finished
    <2>2. CycleType'
        BY <1>7 DEF TypeParts, CycleType, SeeCompletion, cycle, tracker, Finished
    <2>3. PlantType'
        BY <1>7 DEF TypeParts, PlantType, SeeCompletion, plant
    <2>4. BoundsType'
        BY <1>7, StepBounds DEF TypeParts, SeeCompletion
    <2> QED
        BY <2>1, <2>2, <2>3, <2>4 DEF TypeParts
<1>8. ASSUME NEW d \in Dispatchers, Deadline(d) PROVE TypeParts'
    <2>1. PlanningType'
        BY <1>8 DEF TypeParts, PlanningType, Deadline, inputs, Moves, Finished
    <2>2. CycleType'
        BY <1>8 DEF TypeParts, CycleType, Deadline, cycle, tracker, Finished
    <2>3. PlantType'
        BY <1>8 DEF TypeParts, PlantType, Deadline, plant
    <2>4. BoundsType'
        BY <1>8, StepBounds DEF TypeParts, Deadline
    <2> QED
        BY <2>1, <2>2, <2>3, <2>4 DEF TypeParts
<1>9. ASSUME NEW d \in Dispatchers, ReadResult(d) PROVE TypeParts'
    <2>1. PlanningType'
        BY <1>9 DEF TypeParts, PlanningType, ReadResult, inputs, Moves, Finished
    <2>2. CycleType'
        BY <1>9 DEF TypeParts, CycleType, ReadResult, cycle, tracker, Finished
    <2>3. PlantType'
        BY <1>9 DEF TypeParts, PlantType, ReadResult, plant
    <2>4. BoundsType'
        BY <1>9, StepBounds DEF TypeParts, ReadResult
    <2> QED
        BY <2>1, <2>2, <2>3, <2>4 DEF TypeParts
<1>10. ASSUME NEW d \in Dispatchers, GiveUp(d) PROVE TypeParts'
    <2>1. PlanningType'
        BY <1>10 DEF TypeParts, PlanningType, GiveUp, inputs, Moves, Finished
    <2>2. CycleType'
        <3>1. command[d].id \in Ids
            BY <1>10 DEF GiveUp, CommandOK, Busy, Commands
        <3>2. /\ pending' \subseteq Commands
              /\ lastCompleted' \in [id : Ids \cup {0}, success : BOOLEAN]
            <4>1. CASE completeCommand(command[d].id, FALSE)
                BY <4>1, <3>1, CompletionType DEF TypeParts, CycleType
            <4>2. CASE UNCHANGED tracker
                BY <4>2 DEF TypeParts, CycleType, tracker
            <4> QED
                BY <1>10, <4>1, <4>2 DEF GiveUp
        <3> QED
            BY <1>10, <3>2 DEF TypeParts, CycleType, GiveUp, Finished
    <2>3. PlantType'
        BY <1>10 DEF TypeParts, PlantType, GiveUp, plant
    <2>4. BoundsType'
        BY <1>10, StepBounds DEF TypeParts, GiveUp
    <2> QED
        BY <2>1, <2>2, <2>3, <2>4 DEF TypeParts
<1>11. ASSUME NEW d \in Dispatchers, EndCycle(d) PROVE TypeParts'
    <2>1. PlanningType'
        BY <1>11 DEF TypeParts, PlanningType, EndCycle, inputs, Moves, Finished
    <2>2. CycleType'
        <3>1. NoPlan \in UNION {[S -> Modes] : S \in SUBSET Loads}
            BY NoPlanType
        <3> QED
            BY <1>11, <3>1 DEF TypeParts, CycleType, EndCycle, tracker
    <2>3. PlantType'
        BY <1>11 DEF TypeParts, PlantType, EndCycle, plant
    <2>4. BoundsType'
        BY <1>11, StepBounds DEF TypeParts, EndCycle
    <2> QED
        BY <2>1, <2>2, <2>3, <2>4 DEF TypeParts
<1>12. ASSUME NEW n \in Nodes, Execute(n) PROVE TypeParts'
    <2>1. PlanningType'
        BY <1>12 DEF TypeParts, PlanningType, Execute, inputs, Moves, Finished
    <2>2. CycleType'
        BY <1>12 DEF TypeParts, CycleType, Execute, cycle, tracker, Finished
    <2>3. PlantType'
        <3> DEFINE c == Head(queue[n])
        <3>1. queue[n] \in Seq(Commands) /\ queue[n] # <<>>
            BY <1>12 DEF TypeParts, PlantType, Execute
        <3>2. c \in Commands /\ Tail(queue[n]) \in Seq(Commands)
              /\ Len(Tail(queue[n])) <= Len(queue[n])
            BY <3>1
        <3>3. /\ (queue \in [Nodes -> Seq(Commands)])'
              /\ \A m \in Nodes : Len(queue'[m]) <= QueueDepth
            BY <1>12, <3>2, BoundsAssumption DEF TypeParts, PlantType, Execute
        <3>4. PICK success \in BOOLEAN :
                /\ relay' = IF success THEN [relay EXCEPT ![c.load] = c.on] ELSE relay
                /\ applied' = IF success THEN applied \cup {c.id} ELSE applied
                /\ acks' = acks \cup {[id |-> c.id, load |-> c.load, on |-> c.on,
                                       success |-> success]}
            BY <1>12 DEF Execute
        <3>5. c.id \in Ids /\ c.load \in Loads /\ c.on \in BOOLEAN
            BY <3>2 DEF Commands
        <3>6. relay' \in [Loads -> BOOLEAN] /\ applied' \subseteq Ids
            BY <3>4, <3>5 DEF TypeParts, PlantType
        <3>7. acks' \subseteq Acknowledgements
            BY <3>4, <3>5 DEF TypeParts, PlantType, Acknowledgements
        <3> QED
            BY <3>3, <3>6, <3>7 DEF PlantType
    <2>4. BoundsType'
        BY <1>12, StepBounds DEF TypeParts, Execute
    <2> QED
        BY <2>1, <2>2, <2>3, <2>4 DEF TypeParts
<1>13. ASSUME NEW n \in Nodes, Restart(n) PROVE TypeParts'
    <2>1. PlanningType'
        BY <1>13 DEF TypeParts, PlanningType, Restart, inputs, Moves, Finished
    <2>2. CycleType'
        BY <1>13 DEF TypeParts, CycleType, Restart, cycle, tracker, Finished
    <2>3. PlantType'
        <3>1. /\ (queue \in [Nodes -> Seq(Commands)])'
              /\ \A m \in Nodes : Len(queue'[m]) <= QueueDepth
            BY <1>13, BoundsAssumption DEF TypeParts, PlantType, Restart
        <3>2. relay' \in [Loads -> BOOLEAN]
            BY <1>13, LoadsAssumption DEF TypeParts, PlantType, Restart
        <3> QED
            BY <1>13, <3>1, <3>2 DEF TypeParts, PlantType, Restart
    <2>4. BoundsType'
        BY <1>13, StepBounds DEF TypeParts, Restart
    <2> QED
        BY <2>1, <2>2, <2>3, <2>4 DEF TypeParts
<1>14. ASSUME NEW a \in acks, handleRelayAcknowledgement(a) PROVE TypeParts'
    <2>1. PlanningType'
        BY <1>14 DEF TypeParts, PlanningType, handleRelayAcknowledgement, inputs, Moves, Finished
    <2>2. CycleType'
        <3>1. a.id \in Ids /\ a.success \in BOOLEAN
            BY DEF TypeParts, PlantType, Acknowledgements
        <3>2. /\ pending' \subseteq Commands
              /\ lastCompleted' \in [id : Ids \cup {0}, success : BOOLEAN]
            BY <1>14, <3>1, CompletionType DEF TypeParts, CycleType,
                               handleRelayAcknowledgement, tracker
        <3> QED
            BY <1>14, <3>2 DEF TypeParts, CycleType, handleRelayAcknowledgement, cycle
    <2>3. PlantType'
        BY <1>14 DEF TypeParts, PlantType, handleRelayAcknowledgement, plant
    <2>4. BoundsType'
        BY <1>14, StepBounds DEF TypeParts, handleRelayAcknowledgement
    <2> QED
        BY <2>1, <2>2, <2>3, <2>4 DEF TypeParts
<1>15. ASSUME NEW a \in acks, LoseAcknowledgement(a) PROVE TypeParts'
    <2>1. PlanningType'
        BY <1>15 DEF TypeParts, PlanningType, LoseAcknowledgement, inputs, Moves, Finished
    <2>2. CycleType'
        BY <1>15 DEF TypeParts, CycleType, LoseAcknowledgement, cycle, tracker, Finished
    <2>3. PlantType'
        BY <1>15 DEF TypeParts, PlantType, LoseAcknowledgement, plant
    <2>4. BoundsType'
        BY <1>15, StepBounds DEF TypeParts, LoseAcknowledgement
    <2> QED
        BY <2>1, <2>2, <2>3, <2>4 DEF TypeParts
<1>16. ASSUME NEW l \in Loads, NEW m \in Modes, SetMode(l, m) PROVE TypeParts'
    <2>1. PlanningType'
        BY <1>16 DEF TypeParts, PlanningType, SetMode, inputs, Moves, Finished
    <2>2. CycleType'
        BY <1>16 DEF TypeParts, CycleType, SetMode, cycle, tracker, Finished
    <2>3. PlantType'
        BY <1>16 DEF TypeParts, PlantType, SetMode, plant
    <2>4. BoundsType'
        BY <1>16, StepBounds DEF TypeParts, SetMode
    <2> QED
        BY <2>1, <2>2, <2>3, <2>4 DEF TypeParts
<1>17. ASSUME ChangeInputs PROVE TypeParts'
    <2>1. PlanningType'
        <3>1. allowance' \in Allowances \cup {NotReady}
            BY <1>17 DEF TypeParts, PlanningType, ChangeInputs
        <3>2. active' \subseteq Loads
            BY <1>17, LoadsAssumption DEF TypeParts, PlanningType, ChangeInputs
        <3>3. online' \subseteq Nodes
            BY <1>17 DEF TypeParts, PlanningType, ChangeInputs
        <3> QED
            BY <1>17, <3>1, <3>2, <3>3 DEF TypeParts, PlanningType, ChangeInputs
    <2>2. CycleType'
        BY <1>17 DEF TypeParts, CycleType, ChangeInputs, cycle, tracker, Finished
    <2>3. PlantType'
        BY <1>17 DEF TypeParts, PlantType, ChangeInputs, plant
    <2>4. BoundsType'
        BY <1>17, StepBounds DEF TypeParts, ChangeInputs
    <2> QED
        BY <2>1, <2>2, <2>3, <2>4 DEF TypeParts
<1>18. ASSUME UNCHANGED vars PROVE TypeParts'
    BY <1>18 DEF TypeParts, PlanningType, CycleType, PlantType, BoundsType,
                 vars, inputs, cycle, tracker, plant, bounds
<1> QED
    BY <1>1, <1>2, <1>3, <1>4, <1>5, <1>6, <1>7, <1>8, <1>9, <1>10, <1>11, <1>12, <1>13, <1>14, <1>15, <1>16, <1>17, <1>18
    DEF Next, runOptimizationCycle, DispatchTarget

-----------------------------------------------------------------------------
(***************************************************************************)
(* The other parts of the inductive invariant.                             *)
(***************************************************************************)

\* Only the tasks move their pc and their command.
LEMMA TaskSteps ==
    ASSUME Next, UNCHANGED <<pc, command>> => FALSE
    PROVE  \E d \in Dispatchers : runOptimizationCycle(d)
    BY DEF Next, Execute, Restart, handleRelayAcknowledgement, LoseAcknowledgement,
           SetMode, ChangeInputs

\* A task has a command exactly while it sends it, waits for it or closes it.
LEMMA StepCommandOK == TypeOK /\ CommandOK /\ [Next]_vars => CommandOK'
<1> SUFFICES ASSUME TypeOK, CommandOK, [Next]_vars PROVE CommandOK'
    OBVIOUS
<1>1. CASE UNCHANGED <<pc, command>>
    BY <1>1 DEF CommandOK, Commands
<1>2. ASSUME NEW d \in Dispatchers, runOptimizationCycle(d) PROVE CommandOK'
    <2> SUFFICES ASSUME NEW e \in Dispatchers
                 PROVE  /\ pc'[e] \in Busy => command'[e] \in Commands
                        /\ pc'[e] \notin Busy => command'[e] = NoCommand
        BY DEF CommandOK, Commands
    <2>1. /\ pc \in [Dispatchers -> {"idle", "plan", "dispatch", "send", "wait",
                                     "result", "giveUp"}]
          /\ command \in [Dispatchers -> Commands \cup {NoCommand}]
        BY DEF TypeOK
    <2>2. /\ pc[e] \in Busy => command[e] \in Commands
          /\ pc[e] \notin Busy => command[e] = NoCommand
        BY DEF CommandOK
    <2>3. CASE StartCycle(d)
        BY <2>1, <2>2, <2>3 DEF StartCycle, Moves, Busy
    <2>4. CASE MakePlan(d)
        BY <2>1, <2>2, <2>4 DEF MakePlan, Moves, Busy
    <2>5. ASSUME NEW l \in Loads, DispatchTarget(d, l)
          PROVE  /\ pc'[e] \in Busy => command'[e] \in Commands
                 /\ pc'[e] \notin Busy => command'[e] = NoCommand
        <3>1. CASE DispatchLocal(d, l) \/ SkipTarget(d, l)
            BY <2>1, <2>2, <3>1 DEF DispatchLocal, SkipTarget, Finished, Busy
        <3>2. CASE beginCommand(d, l)
            <4>1. command' = [command EXCEPT ![d] = command'[d]] /\ command'[d] \in Commands
                BY <2>1, <3>2 DEF beginCommand, Commands, IsOn
            <4> QED
                BY <2>1, <2>2, <3>2, <4>1 DEF beginCommand, Moves, Busy
        <3> QED
            BY <2>5, <3>1, <3>2 DEF DispatchTarget
    <2>6. CASE Send(d) \/ SeeCompletion(d) \/ Deadline(d)
        BY <2>1, <2>2, <2>6 DEF Send, SeeCompletion, Deadline, Moves, Busy
    <2>7. CASE ReadResult(d) \/ GiveUp(d)
        BY <2>1, <2>2, <2>7 DEF ReadResult, GiveUp, Finished, Busy
    <2>8. CASE EndCycle(d)
        BY <2>1, <2>2, <2>8 DEF EndCycle, Moves, Busy
    <2> QED
        BY <1>2, <2>3, <2>4, <2>5, <2>6, <2>7, <2>8 DEF runOptimizationCycle
<1> QED
    BY <1>1, <1>2, TaskSteps DEF vars

\* A command gets an identifier that nothing carries.
LEMMA FreshId ==
    ASSUME NEW d \in Dispatchers, NEW l \in Loads, TypeOK, beginCommand(d, l)
    PROVE  /\ command' = [command EXCEPT ![d] = command'[d]]
           /\ pending' = pending \cup {command'[d]}
           /\ command'[d].id \notin LiveIds
           /\ applied' = applied \ {command'[d].id}
<1>1. PICK id \in Ids \ LiveIds :
        /\ command' = [command EXCEPT
                          ![d] = [id |-> id, load |-> l, on |-> IsOn(plan[d][l])]]
        /\ applied' = applied \ {id}
    BY DEF beginCommand
<1>2. command'[d] = [id |-> id, load |-> l, on |-> IsOn(plan[d][l])]
    BY <1>1 DEF TypeOK
<1>3. pending' = pending \cup {command'[d]}
    BY DEF beginCommand
<1>4. command'[d].id = id
    BY <1>2
<1> QED
    BY <1>1, <1>2, <1>3, <1>4

\* A command found complete stays complete: the pending list only gains
\* commands with new identifiers.
LEMMA StepCompletedOK ==
    TypeOK /\ CompletedOK /\ [Next]_vars => CompletedOK'
<1> SUFFICES ASSUME TypeOK, CompletedOK, [Next]_vars,
                    NEW e \in Dispatchers, pc'[e] = "result"
             PROVE  \A p \in pending' : p.id # command'[e].id
    BY DEF CompletedOK, isPending
<1>1. pc[e] = "result" => \A p \in pending : p.id # command[e].id
    BY DEF CompletedOK, isPending
<1>2. /\ pc \in [Dispatchers -> {"idle", "plan", "dispatch", "send", "wait",
                                 "result", "giveUp"}]
      /\ command \in [Dispatchers -> Commands \cup {NoCommand}]
    BY DEF TypeOK
<1>3. CASE UNCHANGED <<pc, command>> /\ pending' \subseteq pending
    BY <1>1, <1>3
<1>4. ASSUME NEW d \in Dispatchers, runOptimizationCycle(d)
      PROVE  \A p \in pending' : p.id # command'[e].id
    <2>1. CASE StartCycle(d) \/ MakePlan(d) \/ Send(d) \/ Deadline(d) \/ EndCycle(d)
        BY <1>1, <1>2, <2>1
        DEF StartCycle, MakePlan, Send, Deadline, EndCycle, Moves, tracker
    <2>2. CASE SeeCompletion(d)
        BY <1>1, <1>2, <2>2 DEF SeeCompletion, Moves, tracker, isPending
    <2>3. CASE ReadResult(d) \/ \E l \in Loads : DispatchLocal(d, l) \/ SkipTarget(d, l)
        BY <1>1, <1>2, <2>3 DEF ReadResult, DispatchLocal, SkipTarget, Finished, tracker
    <2>4. CASE GiveUp(d)
        <3>1. pending' \subseteq pending
            BY <2>4 DEF GiveUp, completeCommand, tracker
        <3> QED
            BY <1>1, <1>2, <2>4, <3>1 DEF GiveUp, Finished
    <2>5. ASSUME NEW l \in Loads, beginCommand(d, l)
          PROVE  \A p \in pending' : p.id # command'[e].id
        <3>1. e # d /\ pc[e] = "result"
            BY <1>2, <2>5 DEF beginCommand, Moves
        <3>2. command'[e] = command[e] /\ command[e].id \in LiveIds
            BY <1>2, <2>5, <3>1, FreshId DEF LiveIds
        <3> QED
            BY <1>1, <2>5, <3>1, <3>2, FreshId
    <2> QED
        BY <1>4, <2>1, <2>2, <2>3, <2>4, <2>5 DEF runOptimizationCycle, DispatchTarget
<1>5. ASSUME Next, ~ \E d \in Dispatchers : runOptimizationCycle(d)
      PROVE  UNCHANGED <<pc, command>> /\ pending' \subseteq pending
    BY <1>5 DEF Next, Execute, Restart, handleRelayAcknowledgement, LoseAcknowledgement,
                SetMode, ChangeInputs, completeCommand, tracker
<1> QED
    BY <1>3, <1>4, <1>5 DEF vars, tracker

\* Outcomes stay true: an identifier leaves applied only when a new command
\* gets it, and then no outcome carries it.
LEMMA StepOutcomesOK ==
    TypeOK /\ CommandOK /\ OutcomesOK /\ [Next]_vars => OutcomesOK'
<1> SUFFICES ASSUME TypeOK, CommandOK, OutcomesOK, [Next]_vars PROVE OutcomesOK'
    OBVIOUS
<1>1. /\ \A a \in acks : a.success => a.id \in applied
      /\ lastCompleted.success => lastCompleted.id \in applied
    BY DEF OutcomesOK
<1>2. CASE UNCHANGED <<acks, lastCompleted, applied>>
    BY <1>1, <1>2 DEF OutcomesOK
<1>3. ASSUME NEW d \in Dispatchers, NEW l \in Loads, beginCommand(d, l)
      PROVE  OutcomesOK'
    <2>1. acks' = acks /\ lastCompleted' = lastCompleted
        BY <1>3 DEF beginCommand
    <2>2. applied' = applied \ {command'[d].id} /\ command'[d].id \notin LiveIds
        BY <1>3, FreshId
    <2>3. (\A a \in acks : a.id \in LiveIds) /\ lastCompleted.id \in LiveIds
        BY DEF LiveIds
    <2> QED
        BY <1>1, <2>1, <2>2, <2>3 DEF OutcomesOK
<1>4. ASSUME NEW d \in Dispatchers, GiveUp(d) PROVE OutcomesOK'
    <2>1. lastCompleted' = lastCompleted \/ lastCompleted'.success = FALSE
        BY <1>4 DEF GiveUp, completeCommand, tracker
    <2>2. acks' = acks /\ applied' = applied
        BY <1>4 DEF GiveUp, plant
    <2> QED
        BY <1>1, <2>1, <2>2 DEF OutcomesOK
<1>5. ASSUME NEW n \in Nodes, Execute(n) PROVE OutcomesOK'
    <2> DEFINE c == Head(queue[n])
    <2>1. PICK success \in BOOLEAN :
            /\ applied' = IF success THEN applied \cup {c.id} ELSE applied
            /\ acks' = acks \cup {[id |-> c.id, load |-> c.load, on |-> c.on,
                                   success |-> success]}
        BY <1>5 DEF Execute
    <2>2. lastCompleted' = lastCompleted
        BY <1>5 DEF Execute, tracker
    <2> HIDE DEF c
    <2> QED
        BY <1>1, <2>1, <2>2 DEF OutcomesOK
<1>6. ASSUME NEW a \in acks, handleRelayAcknowledgement(a) PROVE OutcomesOK'
    <2>1. \/ lastCompleted' = lastCompleted
          \/ lastCompleted' = [id |-> a.id, success |-> a.success]
        BY <1>6 DEF handleRelayAcknowledgement, completeCommand, tracker
    <2>2. acks' = acks \ {a} /\ applied' = applied
        BY <1>6 DEF handleRelayAcknowledgement
    <2> QED
        BY <1>1, <2>1, <2>2 DEF OutcomesOK
<1>7. ASSUME NEW a \in acks, LoseAcknowledgement(a) PROVE OutcomesOK'
    BY <1>1, <1>7 DEF LoseAcknowledgement, tracker, OutcomesOK
<1>8. ASSUME NEW d \in Dispatchers, runOptimizationCycle(d), ~ GiveUp(d),
             ~ \E l \in Loads : beginCommand(d, l)
      PROVE  UNCHANGED <<acks, lastCompleted, applied>>
    BY <1>8 DEF runOptimizationCycle, DispatchTarget, StartCycle, MakePlan, DispatchLocal,
                SkipTarget, Send, SeeCompletion, Deadline, ReadResult, EndCycle, plant, tracker
<1>9. ASSUME (\E n \in Nodes : Restart(n)) \/ (\E l \in Loads, m \in Modes : SetMode(l, m))
               \/ ChangeInputs \/ UNCHANGED vars
      PROVE  UNCHANGED <<acks, lastCompleted, applied>>
    BY <1>9 DEF Restart, SetMode, ChangeInputs, plant, tracker, vars
<1> QED
    BY <1>2, <1>3, <1>4, <1>5, <1>6, <1>7, <1>8, <1>9 DEF Next

-----------------------------------------------------------------------------
(***************************************************************************)
(* Theorems.                                                               *)
(***************************************************************************)

\* The inductive invariant holds at the start.
LEMMA InitIInv == Init => IInv
<1>1. Init => CommandOK /\ CompletedOK /\ OutcomesOK
    BY DEF Init, CommandOK, CompletedOK, OutcomesOK, Busy
<1> QED
    BY <1>1, InitTypeOK DEF IInv

\* The invariant that the theorems below rest on holds throughout.
THEOREM Inductive == Spec => []IInv
<1>1. IInv /\ [Next]_vars => IInv'
    BY StepTypeOK, StepCommandOK, StepCompletedOK, StepOutcomesOK DEF IInv
<1> QED
    BY <1>1, InitIInv, PTL DEF Spec

\* Every variable of the dispatcher has its type, however many tasks, Nodes,
\* commands and faults there are: no queue outgrows relayCommandQueue, and
\* what is sent, pending or acknowledged is a command of a registered Load.
THEOREM TypeCorrect == Spec => []TypeOK
<1>1. IInv => TypeOK
    BY DEF IInv
<1> QED
    BY <1>1, Inductive, PTL

\* Whenever dispatchRelayTargetAndWait returns success, the Node carried out
\* that command, however commands, acknowledgements and deadlines of several
\* tasks interleave (wasCommandSuccessful).
THEOREM SuccessIsTrue == Spec => []SuccessMeansApplied
<1>1. IInv => SuccessMeansApplied
    BY DEF IInv, OutcomesOK, SuccessMeansApplied, wasCommandSuccessful
<1> QED
    BY <1>1, Inductive, PTL

\* A pending command loses its task only when stateMutex was busy as the task
\* gave it up (completeCommand in dispatchRelayTargetAndWait).
THEOREM NoOtherOrphans == Spec => OrphansOnlyWhenBusy
<1>1. IInv /\ [Next]_vars => [Orphans' \ Orphans # {} => mutex # NoDispatcher]_vars
    <2> SUFFICES ASSUME IInv, Next, mutex = NoDispatcher, NEW p \in Orphans'
                 PROVE  p \in Orphans
        BY DEF vars
    <2>1. p \in pending' /\ \A d \in Dispatchers : p # command'[d]
        BY DEF Orphans
    <2>2. /\ command \in [Dispatchers -> Commands \cup {NoCommand}]
          /\ pending \subseteq Commands
          /\ NoCommand \notin Commands
        BY BoundsAssumption DEF IInv, TypeOK, Commands, NoCommand
    <2>3. CASE pending' \subseteq pending /\ command' = command
        BY <2>1, <2>3 DEF Orphans
    <2>4. ASSUME NEW d \in Dispatchers, NEW l \in Loads, DispatchTarget(d, l)
          PROVE  p \in Orphans
        <3>1. command[d] = NoCommand
            BY <2>4 DEF IInv, CommandOK, Busy, DispatchTarget, DispatchLocal, SkipTarget,
                        beginCommand, IsNext
        <3>2. /\ \A e \in Dispatchers \ {d} : command'[e] = command[e]
              /\ pending' \subseteq pending \cup {command'[d]}
            BY <2>2, <2>4, FreshId DEF IInv, DispatchTarget, DispatchLocal, SkipTarget,
                                       Finished, tracker
        <3>3. p \in pending
            BY <2>1, <3>2
        <3> QED
            BY <2>1, <2>2, <3>1, <3>2, <3>3 DEF Orphans
    <2>5. ASSUME NEW d \in Dispatchers, ReadResult(d) \/ GiveUp(d)
          PROVE  p \in Orphans
        <3>1. pending' \subseteq pending /\ p.id # command[d].id
            <4>1. CASE ReadResult(d)
                BY <2>1, <4>1 DEF ReadResult, IInv, CompletedOK, isPending, tracker
            <4>2. CASE GiveUp(d)
                BY <2>1, <4>2 DEF GiveUp, completeCommand, isPending, tracker
            <4> QED
                BY <2>5, <4>1, <4>2
        <3>2. \A e \in Dispatchers \ {d} : command'[e] = command[e]
            BY <2>2, <2>5 DEF ReadResult, GiveUp, Finished
        <3> QED
            BY <2>1, <3>1, <3>2 DEF Orphans
    <2>6. ASSUME ~ \E d \in Dispatchers :
                    \/ ReadResult(d) \/ GiveUp(d)
                    \/ \E l \in Loads : DispatchTarget(d, l)
          PROVE  pending' \subseteq pending /\ command' = command
        BY <2>6 DEF Next, runOptimizationCycle, StartCycle, MakePlan, Send, SeeCompletion,
                    Deadline, EndCycle, Execute, Restart, handleRelayAcknowledgement,
                    LoseAcknowledgement, SetMode, ChangeInputs, completeCommand, tracker
    <2> QED
        BY <2>3, <2>4, <2>5, <2>6
<1>2. Spec => [][Orphans' \ Orphans # {} => mutex # NoDispatcher]_vars
    BY <1>1, Inductive, PTL DEF Spec
<1> QED
    BY <1>2 DEF OrphansOnlyWhenBusy

-----------------------------------------------------------------------------
(***************************************************************************)
(* A cycle releases capacity before it uses it, when the optimization task *)
(* is the only one that dispatches.  With the console as a second          *)
(* dispatcher it is not true.                                              *)
(***************************************************************************)

\* The command the optimization task is busy with, its plan and what is left
\* of it.
current   == command[Planner]
planned   == plan[Planner]
remaining == todo[Planner]

(***************************************************************************)
(* One command is under way at a time.  As long as nothing fails, it is    *)
(* queued at its Node, or its acknowledgement is on its way, or it is      *)
(* done: the deadline cannot come first.                                   *)
(***************************************************************************)
QueuesEmpty == \A n \in Nodes : queue[n] = <<>>

Quiet == pending = {} /\ acks = {} /\ QueuesEmpty
Ready == pending = {current} /\ acks = {} /\ QueuesEmpty

Queued ==
    /\ pending = {current} /\ acks = {}
    /\ queue[Owner[current.load]] = <<current>>
    /\ \A n \in Nodes \ {Owner[current.load]} : queue[n] = <<>>

Answered ==
    /\ pending = {current} /\ QueuesEmpty
    /\ acks = {[id |-> current.id, load |-> current.load, on |-> current.on,
                success |-> TRUE]}
    /\ relay[current.load] = current.on

Done == Quiet /\ relay[current.load] = current.on

OneAtATime ==
    /\ pc[Planner] \notin Busy  => Quiet
    /\ pc[Planner] = "send"     => Ready
    /\ pc[Planner] = "wait"     => Queued \/ Answered \/ Done
    /\ pc[Planner] = "result"   => Done
    /\ pc[Planner] # "giveUp"

(***************************************************************************)
(* The targets that are finished have their relays as planned, and come    *)
(* before the remaining ones; the current one is the first of those.       *)
(***************************************************************************)
InOrder ==
    /\ remaining \subseteq DOMAIN planned
    /\ \A l \in DOMAIN planned \ remaining :
          /\ relay[l] = IsOn(planned[l])
          /\ \A m \in remaining : Precedes(planned, l, m)
    /\ pc[Planner] \in Busy =>
          /\ current.load \in remaining
          /\ Owner[current.load] \in Nodes
          /\ current.on = IsOn(planned[current.load])
          /\ \A m \in remaining \ {current.load} : Precedes(planned, current.load, m)

CapacityInv == faults = 0 => OneAtATime /\ InOrder

-----------------------------------------------------------------------------
\* With no console, every step of a dispatching task is the optimization
\* task's; and a step that leaves no fault began with none.
LEMMA FaultFree ==
    ASSUME TypeOK, [Next]_vars, faults' = 0
    PROVE  faults = 0 /\ ~ Fault
<1>1. faults \in Nat
    BY BoundsAssumption DEF TypeOK
<1>2. ~ Fault
    BY <1>1 DEF Fault
<1>3. UNCHANGED faults \/ Fault
    BY DEF Next, runOptimizationCycle, StartCycle, MakePlan, DispatchTarget, DispatchLocal,
           SkipTarget, beginCommand, Send, SeeCompletion, Deadline, ReadResult, GiveUp,
           EndCycle, Execute, Restart, handleRelayAcknowledgement, LoseAcknowledgement,
           SetMode, ChangeInputs, NoFault, Change, bounds, vars
<1> QED
    BY <1>1, <1>2, <1>3

\* What the targets still to be commanded, and the relay states the finished
\* ones reached, are after a step that finishes the first remaining target.
LEMMA FinishInOrder ==
    ASSUME IInv, InOrder, NEW l \in remaining, Finished(Planner, l),
           \A m \in remaining \ {l} : Precedes(planned, l, m),
           relay'[l] = IsOn(planned[l]),
           \A k \in Loads \ {l} : relay'[k] = relay[k]
    PROVE  InOrder' /\ pc'[Planner] = "dispatch" /\ planned' = planned
<1>1. /\ planned' = planned
      /\ remaining' = remaining \ {l}
      /\ pc'[Planner] = "dispatch"
    BY DEF Finished, IInv, TypeOK, planned, remaining, Dispatchers
<1>2. DOMAIN planned \subseteq Loads
    BY DEF IInv, TypeOK, planned, Dispatchers
<1>3. remaining' \subseteq DOMAIN planned'
    BY <1>1 DEF InOrder
<1>4. ASSUME NEW k \in DOMAIN planned \ (remaining \ {l})
      PROVE  /\ relay'[k] = IsOn(planned[k])
             /\ \A m \in remaining \ {l} : Precedes(planned, k, m)
    <2>1. CASE k = l
        BY <2>1
    <2>2. CASE k # l
        BY <1>2, <1>4, <2>2 DEF InOrder
    <2> QED
        BY <2>1, <2>2
<1>5. \A k \in DOMAIN planned' \ remaining' :
          /\ relay'[k] = IsOn(planned'[k])
          /\ \A m \in remaining' : Precedes(planned', k, m)
    BY <1>1, <1>4
<1>6. pc'[Planner] \notin Busy
    BY <1>1 DEF Busy
<1> QED
    BY <1>1, <1>3, <1>5, <1>6 DEF InOrder

\* A step of the optimization task keeps the invariant.
LEMMA PlannerStep ==
    ASSUME IInv, OneAtATime, InOrder, runOptimizationCycle(Planner), ~ Fault
    PROVE  OneAtATime' /\ InOrder'
<1> DEFINE d == Planner
<1>1. /\ d \in Dispatchers
      /\ pc \in [Dispatchers -> {"idle", "plan", "dispatch", "send", "wait",
                                 "result", "giveUp"}]
      /\ plan \in [Dispatchers -> UNION {[S -> Modes] : S \in SUBSET Loads}]
      /\ todo \in [Dispatchers -> SUBSET Loads]
      /\ command \in [Dispatchers -> Commands \cup {NoCommand}]
      /\ relay \in [Loads -> BOOLEAN]
    BY DEF IInv, TypeOK, Dispatchers
<1>2. CASE StartCycle(d)
    BY <1>1, <1>2 DEF StartCycle, Moves, OneAtATime, InOrder, Quiet, QueuesEmpty, Busy,
                      cycle, tracker, plant, planned, remaining
<1>3. CASE MakePlan(d)
    <2>1. planned' = buildRelayTargets(mode') /\ remaining' = DOMAIN planned'
        BY <1>1, <1>3 DEF MakePlan, planned, remaining
    <2> QED
        BY <1>1, <1>3, <2>1 DEF MakePlan, Moves, OneAtATime, InOrder, Quiet, QueuesEmpty,
                                Busy, tracker, plant
<1>4. ASSUME NEW l \in Loads, DispatchLocal(d, l) PROVE OneAtATime' /\ InOrder'
    <2>1. /\ l \in remaining
          /\ \A m \in remaining \ {l} : Precedes(planned, l, m)
          /\ pc[d] = "dispatch"
        BY <1>4 DEF DispatchLocal, IsNext, remaining, planned
    <2>2. relay' = [relay EXCEPT ![l] = IsOn(planned[l])]
        BY <1>4 DEF DispatchLocal, planned
    <2>3. InOrder' /\ pc'[d] = "dispatch"
        BY <1>1, <1>4, <2>1, <2>2, FinishInOrder DEF DispatchLocal
    <2> QED
        BY <1>4, <2>1, <2>3 DEF DispatchLocal, OneAtATime, Quiet, QueuesEmpty, Busy, tracker
<1>5. ASSUME NEW l \in Loads, beginCommand(d, l) PROVE OneAtATime' /\ InOrder'
    <2>1. /\ l \in remaining
          /\ \A m \in remaining \ {l} : Precedes(planned, l, m)
          /\ pc[d] = "dispatch" /\ pc'[d] = "send"
        BY <1>1, <1>5 DEF beginCommand, IsNext, Moves, remaining, planned
    <2>2. current'.load = l /\ current'.on = IsOn(planned[l])
        BY <1>1, <1>5 DEF beginCommand, current, planned
    <2>3. /\ planned' = planned /\ remaining' = remaining
          /\ pending' = pending \cup {current'}
          /\ UNCHANGED <<queue, acks, relay>>
        BY <1>5 DEF beginCommand, cycle, planned, remaining, current
    <2>4. Owner[l] \in Nodes
        BY <1>5, LoadsAssumption DEF beginCommand
    <2>5. Ready' /\ OneAtATime'
        BY <2>1, <2>3 DEF OneAtATime, Quiet, Ready, QueuesEmpty, Busy
    <2> QED
        BY <2>1, <2>2, <2>3, <2>4, <2>5 DEF InOrder
<1>6. CASE Send(d)
    <2>1. pc[d] = "send" /\ pc'[d] = "wait" /\ Enqueue(current)
        BY <1>1, <1>6 DEF Send, Moves, current
    <2>2. UNCHANGED <<planned, remaining, current, pending, acks, relay>>
        BY <1>6 DEF Send, cycle, tracker, planned, remaining, current
    <2>3. Ready /\ Owner[current.load] \in Nodes
        BY <2>1 DEF OneAtATime, InOrder, Busy
    <2>4. queue' = [queue EXCEPT ![Owner[current.load]] = <<current>>]
        <3>1. queue[Owner[current.load]] = <<>>
            BY <2>3 DEF Ready, QueuesEmpty
        <3>2. Len(<<>>) < QueueDepth /\ Append(<<>>, current) = <<current>>
            BY BoundsAssumption
        <3> QED
            BY <2>1, <3>1, <3>2 DEF Enqueue
    <2>5. Queued'
        BY <2>2, <2>3, <2>4 DEF Queued, Ready, QueuesEmpty, IInv, TypeOK
    <2>6. InOrder'
        BY <2>1, <2>2 DEF InOrder, Busy
    <2> QED
        BY <2>1, <2>5, <2>6 DEF OneAtATime, Busy
<1>7. CASE SeeCompletion(d)
    <2>1. pc[d] = "wait" /\ pc'[d] = "result" /\ current \notin pending
        BY <1>1, <1>7 DEF SeeCompletion, Moves, isPending, current
    <2>2. UNCHANGED <<planned, remaining, current, pending, acks, queue, relay>>
        BY <1>7 DEF SeeCompletion, cycle, tracker, plant, planned, remaining, current
    <2>3. Done
        BY <2>1 DEF OneAtATime, Queued, Answered
    <2>4. Done'
        BY <2>2, <2>3 DEF Done, Quiet, QueuesEmpty
    <2> QED
        BY <2>1, <2>2, <2>4 DEF OneAtATime, InOrder, Busy
<1>8. ~ Deadline(d)
    <2> SUFFICES ASSUME Deadline(d) PROVE FALSE
        OBVIOUS
    <2>1. pc[d] = "wait" /\ IsLost(current) /\ isPending(current.id)
        BY DEF Deadline, Moves, current
    <2>2. Owner[current.load] \in Nodes
        BY <2>1 DEF InOrder, Busy
    <2>3. CASE Queued
        <3>1. 1 \in DOMAIN queue[Owner[current.load]]
              /\ queue[Owner[current.load]][1] = current
            BY <2>3 DEF Queued
        <3> QED
            BY <2>1, <2>2, <3>1 DEF IsLost
    <2>4. CASE Answered
        <3>1. current.id \in {a.id : a \in acks}
            BY <2>4 DEF Answered
        <3> QED
            BY <2>1, <3>1 DEF IsLost
    <2>5. CASE Done
        BY <2>1, <2>5 DEF Done, Quiet, isPending
    <2> QED
        BY <2>1, <2>3, <2>4, <2>5 DEF OneAtATime
<1>9. CASE ReadResult(d)
    <2>1. /\ pc[d] = "result" /\ Finished(d, current.load)
          /\ UNCHANGED <<pending, acks, queue, relay>>
        BY <1>9 DEF ReadResult, tracker, plant, current
    <2>2. Done
        BY <2>1 DEF OneAtATime
    <2>3. /\ current.load \in remaining
          /\ \A m \in remaining \ {current.load} : Precedes(planned, current.load, m)
          /\ relay'[current.load] = IsOn(planned[current.load])
        BY <2>1, <2>2 DEF InOrder, Busy, Done
    <2>4. InOrder' /\ pc'[d] = "dispatch"
        BY <2>1, <2>3, FinishInOrder
    <2> QED
        BY <2>1, <2>2, <2>4 DEF OneAtATime, Done, Quiet, QueuesEmpty, Busy
<1>10. ~ GiveUp(d)
    BY DEF GiveUp, OneAtATime
<1>11. CASE EndCycle(d)
    <2>1. planned' = NoPlan /\ remaining' = {} /\ DOMAIN NoPlan = {}
        BY <1>1, <1>11 DEF EndCycle, planned, remaining, NoPlan
    <2> QED
        BY <1>1, <1>11, <2>1 DEF EndCycle, Moves, OneAtATime, InOrder, Quiet, QueuesEmpty,
                                 Busy, tracker, plant
<1>12. ASSUME NEW l \in Loads PROVE ~ SkipTarget(d, l)
    BY DEF SkipTarget
<1> QED
    BY <1>2, <1>3, <1>4, <1>5, <1>6, <1>7, <1>8, <1>9, <1>10, <1>11, <1>12
    DEF runOptimizationCycle, DispatchTarget

\* A Node that carries a command out keeps the invariant: it was the one
\* queued, and the relay it switches belongs to a target still unfinished.
LEMMA ExecuteStep ==
    ASSUME IInv, OneAtATime, InOrder, NEW n \in Nodes, Execute(n), ~ Fault
    PROVE  OneAtATime' /\ InOrder'
<1>1. queue[n] # <<>>
    BY DEF Execute
<1>2. pc[Planner] = "wait" /\ Queued
    BY <1>1 DEF OneAtATime, Quiet, Ready, Answered, Done, QueuesEmpty, Busy
<1>3. n = Owner[current.load] /\ Head(queue[n]) = current /\ Tail(queue[n]) = <<>>
    <2>1. n = Owner[current.load] /\ queue[n] = <<current>>
        BY <1>1, <1>2 DEF Queued
    <2>2. Head(<<current>>) = current /\ Tail(<<current>>) = <<>>
        OBVIOUS
    <2> QED
        BY <2>1, <2>2
<1>4. current \in Commands
    BY <1>2 DEF IInv, CommandOK, Busy, current, Dispatchers
<1>5. /\ relay' = [relay EXCEPT ![current.load] = current.on]
      /\ acks' = acks \cup {[id |-> current.id, load |-> current.load,
                             on |-> current.on, success |-> TRUE]}
    BY <1>3 DEF Execute
<1>6. queue' = [queue EXCEPT ![n] = <<>>]
    BY <1>3 DEF Execute
<1>7. UNCHANGED <<pc, planned, remaining, current, pending>>
    BY DEF Execute, cycle, tracker, planned, remaining, current
<1>8. relay'[current.load] = current.on
    BY <1>4, <1>5 DEF IInv, TypeOK, Commands
<1>9. Answered'
    <2>1. QueuesEmpty'
        BY <1>2, <1>3, <1>6 DEF Queued, QueuesEmpty, IInv, TypeOK
    <2> QED
        BY <1>2, <1>5, <1>7, <1>8, <2>1 DEF Queued, Answered
<1>10. InOrder'
    <2>1. current.load \in remaining
        BY <1>2 DEF InOrder, Busy
    <2>2. ASSUME NEW l \in DOMAIN planned \ remaining PROVE relay'[l] = IsOn(planned[l])
        <3>1. l \in Loads /\ l # current.load
            BY <2>1 DEF IInv, TypeOK, planned, Dispatchers
        <3> QED
            BY <1>5, <3>1 DEF InOrder, IInv, TypeOK
    <2> QED
        BY <1>7, <2>2 DEF InOrder
<1> QED
    BY <1>2, <1>7, <1>9, <1>10 DEF OneAtATime, Busy

\* The acknowledgement completes the command that is waited for.
LEMMA AcknowledgementStep ==
    ASSUME IInv, OneAtATime, InOrder, NEW a \in acks, handleRelayAcknowledgement(a)
    PROVE  OneAtATime' /\ InOrder'
<1>1. pc[Planner] = "wait" /\ Answered
    BY DEF OneAtATime, Quiet, Ready, Queued, Done, Busy
<1>2. current \in Commands
    BY <1>1 DEF IInv, CommandOK, Busy, current, Dispatchers
<1>3. a = [id |-> current.id, load |-> current.load, on |-> current.on, success |-> TRUE]
    BY <1>1 DEF Answered
<1>4. [id |-> a.id, load |-> a.load, on |-> a.on] = current
    BY <1>2, <1>3 DEF Commands
<1>5. pending' = {} /\ acks' = {}
    BY <1>1, <1>3, <1>4 DEF handleRelayAcknowledgement, completeCommand, isPending, Answered
<1>6. UNCHANGED <<pc, planned, remaining, current, queue, relay>>
    BY DEF handleRelayAcknowledgement, cycle, planned, remaining, current
<1>7. Done'
    BY <1>1, <1>5, <1>6 DEF Answered, Done, Quiet, QueuesEmpty
<1> QED
    BY <1>1, <1>6, <1>7 DEF OneAtATime, InOrder, Busy

\* Every step keeps the invariant: the planner's, a Node's, an
\* acknowledgement's, and those of the outside, which touch none of it.
LEMMA StepCapacityInv ==
    ASSUME Consoles = {}
    PROVE  IInv /\ CapacityInv /\ [Next]_vars => CapacityInv'
<1> SUFFICES ASSUME IInv, CapacityInv, [Next]_vars, faults' = 0
             PROVE  OneAtATime' /\ InOrder'
    BY DEF CapacityInv
<1>1. OneAtATime /\ InOrder /\ ~ Fault
    BY FaultFree DEF CapacityInv, IInv
<1>2. ASSUME NEW d \in Dispatchers, runOptimizationCycle(d) PROVE OneAtATime' /\ InOrder'
    <2>1. d = Planner
        BY DEF Dispatchers
    <2> QED
        BY <1>1, <1>2, <2>1, PlannerStep
<1>3. ASSUME NEW n \in Nodes, Execute(n) \/ Restart(n) PROVE OneAtATime' /\ InOrder'
    BY <1>1, <1>3, ExecuteStep DEF Restart
<1>4. ASSUME NEW a \in acks, handleRelayAcknowledgement(a) \/ LoseAcknowledgement(a)
      PROVE  OneAtATime' /\ InOrder'
    BY <1>1, <1>4, AcknowledgementStep DEF LoseAcknowledgement
<1>5. CASE (\E l \in Loads, m \in Modes : SetMode(l, m)) \/ ChangeInputs \/ UNCHANGED vars
    <2>1. UNCHANGED <<pc, planned, remaining, current, pending, acks, queue, relay>>
        BY <1>5 DEF SetMode, ChangeInputs, cycle, tracker, plant, vars, planned, remaining,
                    current
    <2> QED
        BY <1>1, <2>1 DEF OneAtATime, InOrder, Quiet, Ready, Queued, Answered, Done,
                          QueuesEmpty
<1> QED
    BY <1>2, <1>3, <1>4, <1>5 DEF Next

-----------------------------------------------------------------------------
\* From the first ON command of a cycle on, all its OFF targets are finished:
\* they rank before it.
LEMMA CapacityFromOrder ==
    ASSUME Consoles = {}, IInv, CapacityInv
    PROVE  CapacityReleased
<1> SUFFICES ASSUME faults = 0, OnPhase(Planner), NEW l \in DOMAIN planned, relay[l]
             PROVE  IsOn(planned[l])
    BY DEF CapacityReleased, planned, Dispatchers
<1>1. InOrder
    BY DEF CapacityInv
<1>2. CASE l \notin remaining
    BY <1>1, <1>2 DEF InOrder
<1>3. CASE l \in remaining
    <2>1. PICK k \in DOMAIN planned :
            IsOn(planned[k]) /\ (k = l \/ Precedes(planned, k, l))
        <3>1. CASE current # NoCommand /\ current.on
            <4>1. pc[Planner] \in Busy
                BY <3>1 DEF IInv, CommandOK, current, Dispatchers
            <4> QED
                BY <1>1, <1>3, <3>1, <4>1 DEF InOrder
        <3>2. CASE \E k \in DOMAIN planned \ remaining : IsOn(planned[k])
            BY <1>1, <1>3, <3>2 DEF InOrder
        <3> QED
            BY <3>1, <3>2 DEF OnPhase, current, planned, remaining
    <2>2. planned[k] \in Modes /\ planned[l] \in Modes
        BY DEF IInv, TypeOK, planned, Dispatchers
    <2> QED
        BY <2>1, <2>2 DEF Precedes, Rank, IsOn, Modes
<1> QED
    BY <1>2, <1>3

\* When the optimization task is the only one that dispatches and nothing
\* fails, a cycle that has begun to switch Loads on has every Load its plan
\* has off switched off already: for any Loads, Smart Nodes and queue depth
\* (buildDispatchOrder, and the wait in dispatchRelayTargetAndWait).
THEOREM CapacityReleasedByPlanner ==
    ASSUME Consoles = {}
    PROVE  Spec => []CapacityReleased
<1>1. Init => CapacityInv
    BY DEF Init, CapacityInv, OneAtATime, InOrder, Quiet, QueuesEmpty, Busy, NoPlan,
           planned, remaining, Dispatchers
<1>2. IInv /\ CapacityInv /\ [Next]_vars => CapacityInv'
    BY StepCapacityInv
<1>3. IInv /\ CapacityInv => CapacityReleased
    BY CapacityFromOrder
<1> QED
    BY <1>1, <1>2, <1>3, Inductive, PTL DEF Spec

-----------------------------------------------------------------------------
(***************************************************************************)
(* Sums over finite sets.                                                  *)
(***************************************************************************)

\* Among finite sets there is a smallest one: what the proofs by induction on
\* the size of a set take the counterexample from.
LEMMA SmallestExists ==
    ASSUME NEW C, C # {}, \A S \in C : IsFiniteSet(S)
    PROVE  \E S \in C : \A T \in C : Cardinality(S) <= Cardinality(T)
<1> DEFINE Less  == OpToRel(<, Nat)
           Sizes == {Cardinality(S) : S \in C}
<1>1. \A S \in C : Cardinality(S) \in Nat
    BY FS_CardinalityType
<1>2. PICK i \in Sizes : \A j \in Sizes : <<j, i>> \notin Less
    <2>1. IsWellFoundedOn(Less, Nat) /\ Sizes \subseteq Nat /\ Sizes # {}
        BY <1>1, NatLessThanWellFounded
    <2> HIDE DEF Less, Sizes
    <2> QED
        BY <2>1, WFMin
<1>3. \A j \in Sizes : ~ (j < i)
    BY <1>1, <1>2 DEF OpToRel
<1>4. PICK S \in C : i = Cardinality(S)
    BY <1>2
<1>5. ASSUME NEW T \in C PROVE Cardinality(S) <= Cardinality(T)
    <2>1. ~ (Cardinality(T) < Cardinality(S))
        BY <1>3, <1>4
    <2>2. Cardinality(S) \in Nat /\ Cardinality(T) \in Nat
        BY <1>1
    <2> QED
        BY <2>1, <2>2
<1> QED
    BY <1>5

\* The recursion that a sum over the subsets of U is computed by.
IsSum(f, g, U) ==
    g = [s \in SUBSET U |->
           IF s = {} THEN 0 ELSE LET x == CHOOSE y \in s : TRUE IN f[x] + g[s \ {x}]]

\* A smaller set, without one of its members.
LEMMA SmallerSet ==
    ASSUME NEW S, IsFiniteSet(S), NEW x \in S
    PROVE  /\ IsFiniteSet(S \ {x})
           /\ Cardinality(S \ {x}) \in Nat /\ Cardinality(S) \in Nat
           /\ Cardinality(S \ {x}) < Cardinality(S)
<1>1. IsFiniteSet(S \ {x}) /\ Cardinality(S \ {x}) = Cardinality(S) - 1
    BY FS_RemoveElement
<1>2. Cardinality(S \ {x}) \in Nat /\ Cardinality(S) \in Nat
    BY <1>1, FS_CardinalityType
<1> QED
    BY <1>1, <1>2

\* Two computations of a sum agree wherever both are defined.
LEMMA SumUnique ==
    ASSUME NEW f, NEW U, NEW V, NEW g, NEW h, IsSum(f, g, U), IsSum(f, h, V),
           NEW s, s \subseteq U, s \subseteq V, IsFiniteSet(s)
    PROVE  g[s] = h[s]
<1> DEFINE C == {t \in SUBSET s : g[t] # h[t]}
<1> SUFFICES ASSUME C # {} PROVE FALSE
    OBVIOUS
<1>1. \A t \in C : IsFiniteSet(t)
    BY FS_Subset
<1>2. PICK t \in C : \A u \in C : Cardinality(t) <= Cardinality(u)
    <2> HIDE DEF C
    <2> QED
        BY <1>1, SmallestExists
<1>3. t # {}
    BY DEF IsSum
<1> DEFINE x == CHOOSE y \in t : TRUE
<1>4. x \in t
    BY <1>3
<1>5. g[t] = f[x] + g[t \ {x}] /\ h[t] = f[x] + h[t \ {x}]
    BY <1>3 DEF IsSum
<1>6. t \ {x} \notin C
    <2>1. Cardinality(t \ {x}) \in Nat /\ Cardinality(t) \in Nat
          /\ Cardinality(t \ {x}) < Cardinality(t)
        BY <1>1, <1>2, <1>4, SmallerSet
    <2> QED
        BY <1>2, <2>1
<1> QED
    BY <1>5, <1>6

\* Every finite set has such a computation.
LEMMA SumExists ==
    ASSUME NEW f, NEW S, IsFiniteSet(S)
    PROVE  \E g : IsSum(f, g, S)
<1> DEFINE C == {t \in SUBSET S : ~ \E g : IsSum(f, g, t)}
<1> SUFFICES ASSUME C # {} PROVE FALSE
    OBVIOUS
<1>1. \A t \in C : IsFiniteSet(t)
    BY FS_Subset
<1>2. PICK U \in C : \A u \in C : Cardinality(U) <= Cardinality(u)
    <2> HIDE DEF C
    <2> QED
        BY <1>1, SmallestExists
<1> DEFINE G(t) == CHOOSE g : IsSum(f, g, t)
           c(t) == CHOOSE y \in t : TRUE
           h == [s \in SUBSET U |->
                   IF s = {} THEN 0 ELSE f[c(s)] + G(s \ {c(s)})[s \ {c(s)}]]
<1>3. ASSUME NEW s \in SUBSET U, s # {}
      PROVE  IsSum(f, G(s \ {c(s)}), s \ {c(s)}) /\ IsFiniteSet(s \ {c(s)})
    <2>1. c(s) \in s /\ IsFiniteSet(s) /\ IsFiniteSet(U)
        BY <1>1, <1>3, FS_Subset
    <2>2. /\ IsFiniteSet(s \ {c(s)})
          /\ Cardinality(s \ {c(s)}) \in Nat /\ Cardinality(s) \in Nat
          /\ Cardinality(s \ {c(s)}) < Cardinality(s)
        BY <2>1, SmallerSet
    <2>3. Cardinality(s) <= Cardinality(U) /\ Cardinality(U) \in Nat
        BY <2>1, FS_Subset, FS_CardinalityType
    <2>4. s \ {c(s)} \notin C
        BY <1>2, <2>2, <2>3
    <2>5. \E g : IsSum(f, g, s \ {c(s)})
        BY <2>4
    <2> QED
        BY <2>2, <2>5
<1>4. ASSUME NEW s \in SUBSET U, s # {}
      PROVE  h[s \ {c(s)}] = G(s \ {c(s)})[s \ {c(s)}]
    <2> DEFINE v == s \ {c(s)}
    <2>1. IsSum(f, G(v), v) /\ IsFiniteSet(v) /\ v \in SUBSET U
        BY <1>3, <1>4
    <2>2. CASE v = {}
        BY <2>1, <2>2 DEF IsSum
    <2>3. CASE v # {}
        <3>1. IsSum(f, G(v \ {c(v)}), v \ {c(v)}) /\ IsFiniteSet(v \ {c(v)})
            BY <1>3, <2>1, <2>3
        <3>2. h[v] = f[c(v)] + G(v \ {c(v)})[v \ {c(v)}]
            BY <2>1, <2>3
        <3>3. G(v)[v] = f[c(v)] + G(v)[v \ {c(v)}]
            <4> HIDE DEF G, v
            <4> QED BY <2>1, <2>3 DEF IsSum
        <3>4. G(v)[v \ {c(v)}] = G(v \ {c(v)})[v \ {c(v)}]
            <4> HIDE DEF G, v, c
            <4> QED BY <2>1, <3>1, SumUnique
        <3> QED
            BY <3>2, <3>3, <3>4
    <2> QED
        BY <2>2, <2>3
<1>5. IsSum(f, h, U)
    <2> DEFINE k == [s \in SUBSET U |->
                      IF s = {} THEN 0
                      ELSE LET x == CHOOSE y \in s : TRUE IN f[x] + h[s \ {x}]]
    <2>1. ASSUME NEW s \in SUBSET U PROVE h[s] = k[s]
        <3>1. CASE s = {}
            BY <3>1
        <3>2. CASE s # {}
            <4>1. h[s] = f[c(s)] + h[s \ {c(s)}]
                BY <1>4, <3>2
            <4>2. k[s] = f[c(s)] + h[s \ {c(s)}]
                <5> HIDE DEF h
                <5> QED BY <3>2
            <4> QED
                BY <4>1, <4>2
        <3> QED
            BY <3>1, <3>2
    <2>2. h = k
        BY <2>1
    <2> HIDE DEF h
    <2> QED
        BY <2>2 DEF IsSum
<1> QED
    BY <1>2, <1>5

\* SumOver is that computation, at the whole set.
LEMMA SumIsComputed ==
    ASSUME NEW f, NEW S, IsFiniteSet(S)
    PROVE  \E g : IsSum(f, g, S) /\ SumOver(f, S) = g[S]
<1> DEFINE Body(g) == [s \in SUBSET S |->
                         IF s = {} THEN 0
                         ELSE LET x == CHOOSE y \in s : TRUE IN f[x] + g[s \ {x}]]
           iter    == CHOOSE g : g = Body(g)
<1>1. PICK g : g = Body(g)
    <2>1. PICK h : IsSum(f, h, S)
        BY SumExists
    <2>2. h = Body(h)
        BY <2>1 DEF IsSum
    <2> HIDE DEF Body
    <2> QED
        BY <2>2
<1>2. iter = Body(iter)
    <2> HIDE DEF Body
    <2> QED
        BY <1>1
<1>3. SumOver(f, S) = iter[S]
    BY DEF SumOver, MapThenSumSet, MapThenFoldSet
<1>4. IsSum(f, iter, S)
    <2> HIDE DEF iter
    <2> QED
        BY <1>2 DEF IsSum
<1> QED
    BY <1>3, <1>4

\* The sum over nothing, and over a set by the member it begins with.
LEMMA SumBegins ==
    ASSUME NEW f, NEW S, IsFiniteSet(S)
    PROVE  /\ S = {} => SumOver(f, S) = 0
           /\ S # {} => LET x == CHOOSE y \in S : TRUE
                        IN  SumOver(f, S) = f[x] + SumOver(f, S \ {x})
<1>1. PICK g : IsSum(f, g, S) /\ SumOver(f, S) = g[S]
    BY SumIsComputed
<1>2. ASSUME S = {} PROVE SumOver(f, S) = 0
    BY <1>1, <1>2 DEF IsSum
<1>3. ASSUME S # {}
      PROVE  LET x == CHOOSE y \in S : TRUE IN SumOver(f, S) = f[x] + SumOver(f, S \ {x})
    <2> DEFINE x == CHOOSE y \in S : TRUE
    <2>1. x \in S
        BY <1>3
    <2>2. SumOver(f, S) = f[x] + g[S \ {x}]
        BY <1>1, <1>3 DEF IsSum
    <2>3. IsFiniteSet(S \ {x})
        BY FS_RemoveElement
    <2>4. PICK h : IsSum(f, h, S \ {x}) /\ SumOver(f, S \ {x}) = h[S \ {x}]
        BY <2>3, SumIsComputed
    <2>5. g[S \ {x}] = h[S \ {x}]
        <3> HIDE DEF x
        <3> QED
            BY <1>1, <2>3, <2>4, SumUnique
    <2> QED
        BY <2>2, <2>4, <2>5
<1> QED
    BY <1>2, <1>3

\* A sum of naturals is a natural.
LEMMA SumType ==
    ASSUME NEW D, NEW f \in [D -> Nat], NEW S, S \subseteq D, IsFiniteSet(S)
    PROVE  SumOver(f, S) \in Nat
<1> DEFINE C == {t \in SUBSET S : SumOver(f, t) \notin Nat}
<1> SUFFICES ASSUME C # {} PROVE FALSE
    OBVIOUS
<1>1. \A t \in C : IsFiniteSet(t)
    BY FS_Subset
<1>2. PICK t \in C : \A u \in C : Cardinality(t) <= Cardinality(u)
    <2> HIDE DEF C
    <2> QED
        BY <1>1, SmallestExists
<1> DEFINE x == CHOOSE y \in t : TRUE
<1>3. t # {}
    <2>1. IsFiniteSet(t) /\ SumOver(f, t) \notin Nat
        BY <1>1, <1>2
    <2>2. t = {} => SumOver(f, t) = 0
        BY <2>1, SumBegins
    <2> QED
        BY <2>1, <2>2
<1>4. x \in t
    BY <1>3
<1>5. SumOver(f, t) = f[x] + SumOver(f, t \ {x})
    BY <1>1, <1>2, <1>3, SumBegins
<1> HIDE DEF x
<1>6. /\ Cardinality(t \ {x}) \in Nat /\ Cardinality(t) \in Nat
      /\ Cardinality(t \ {x}) < Cardinality(t)
    BY <1>1, <1>2, <1>4, SmallerSet
<1>7. t \ {x} \notin C
    BY <1>2, <1>6
<1>8. SumOver(f, t \ {x}) \in Nat
    BY <1>7
<1> QED
    BY <1>2, <1>4, <1>5, <1>8

\* A sum may begin with any member.
LEMMA SumRemove ==
    ASSUME NEW D, NEW f \in [D -> Nat], NEW S, S \subseteq D, IsFiniteSet(S), NEW z \in S
    PROVE  SumOver(f, S) = f[z] + SumOver(f, S \ {z})
<1> DEFINE C == {t \in SUBSET S : \E y \in t : SumOver(f, t) # f[y] + SumOver(f, t \ {y})}
<1> SUFFICES ASSUME C # {} PROVE FALSE
    OBVIOUS
<1>1. \A t \in C : IsFiniteSet(t)
    BY FS_Subset
<1>2. PICK t \in C : \A u \in C : Cardinality(t) <= Cardinality(u)
    <2> HIDE DEF C
    <2> QED
        BY <1>1, SmallestExists
<1>3. PICK y \in t : SumOver(f, t) # f[y] + SumOver(f, t \ {y})
    BY <1>2
<1> DEFINE x == CHOOSE v \in t : TRUE
<1>4. x \in t /\ SumOver(f, t) = f[x] + SumOver(f, t \ {x})
    BY <1>1, <1>2, <1>3, SumBegins
<1> HIDE DEF x
<1>5. x # y
    BY <1>3, <1>4
<1>6. \A u \in {x, y} : /\ IsFiniteSet(t \ {u})
                        /\ t \ {u} \notin C
    <2> SUFFICES ASSUME NEW u \in {x, y} PROVE IsFiniteSet(t \ {u}) /\ t \ {u} \notin C
        OBVIOUS
    <2>1. /\ IsFiniteSet(t \ {u})
          /\ Cardinality(t \ {u}) \in Nat /\ Cardinality(t) \in Nat
          /\ Cardinality(t \ {u}) < Cardinality(t)
        BY <1>1, <1>2, <1>3, <1>4, SmallerSet
    <2>2. ~ (Cardinality(t) <= Cardinality(t \ {u}))
        BY <2>1
    <2>3. t \ {u} \notin C
        <3> HIDE DEF C
        <3> QED
            BY <1>2, <2>2
    <2> QED
        BY <2>1, <2>3
<1>7. SumOver(f, t \ {x}) = f[y] + SumOver(f, (t \ {x}) \ {y})
    BY <1>3, <1>5, <1>6
<1>8. SumOver(f, t \ {y}) = f[x] + SumOver(f, (t \ {y}) \ {x})
    BY <1>4, <1>5, <1>6
<1>9. (t \ {x}) \ {y} = (t \ {y}) \ {x} /\ IsFiniteSet((t \ {x}) \ {y})
    BY <1>6, FS_RemoveElement
<1>10. f[x] \in Nat /\ f[y] \in Nat /\ SumOver(f, (t \ {x}) \ {y}) \in Nat
    BY <1>2, <1>3, <1>4, <1>9, SumType
<1>11. SumOver(f, t) = f[x] + (f[y] + SumOver(f, (t \ {x}) \ {y}))
    BY <1>4, <1>7
<1>12. f[y] + SumOver(f, t \ {y}) = f[y] + (f[x] + SumOver(f, (t \ {x}) \ {y}))
    BY <1>8, <1>9
<1>13. f[x] + (f[y] + SumOver(f, (t \ {x}) \ {y})) = f[y] + (f[x] + SumOver(f, (t \ {x}) \ {y}))
    BY <1>10
<1> QED
    BY <1>3, <1>11, <1>12, <1>13, Zenon

\* The sum over two sets with nothing in common.
LEMMA SumUnion ==
    ASSUME NEW D, NEW f \in [D -> Nat], NEW S, NEW T, S \subseteq D, T \subseteq D,
           IsFiniteSet(S), IsFiniteSet(T), S \cap T = {}
    PROVE  SumOver(f, S \cup T) = SumOver(f, S) + SumOver(f, T)
<1> DEFINE C == {t \in SUBSET S : SumOver(f, t \cup T) # SumOver(f, t) + SumOver(f, T)}
<1> SUFFICES ASSUME C # {} PROVE FALSE
    OBVIOUS
<1>1. \A t \in C : IsFiniteSet(t)
    BY FS_Subset
<1>2. PICK t \in C : \A u \in C : Cardinality(t) <= Cardinality(u)
    <2> HIDE DEF C
    <2> QED
        BY <1>1, SmallestExists
<1>3. IsFiniteSet(t) /\ t \subseteq D /\ t \cup T \subseteq D /\ IsFiniteSet(t \cup T)
    BY <1>1, <1>2, FS_Union
<1>4. SumOver(f, t) \in Nat /\ SumOver(f, T) \in Nat
    BY <1>3, SumType
<1>5. t # {}
    <2> SUFFICES ASSUME t = {} PROVE FALSE
        OBVIOUS
    <2>1. SumOver(f, t) = 0 /\ t \cup T = T
        BY <1>3, SumBegins
    <2> QED
        BY <1>2, <1>4, <2>1
<1>6. PICK x : x \in t
    BY <1>5
<1>7. /\ Cardinality(t \ {x}) \in Nat /\ Cardinality(t) \in Nat
      /\ Cardinality(t \ {x}) < Cardinality(t) /\ IsFiniteSet(t \ {x})
    BY <1>3, <1>6, SmallerSet
<1>8. SumOver(f, (t \ {x}) \cup T) = SumOver(f, t \ {x}) + SumOver(f, T)
    BY <1>2, <1>7
<1>9. (t \cup T) \ {x} = (t \ {x}) \cup T
    BY <1>2, <1>6
<1>10. SumOver(f, t \cup T) = f[x] + SumOver(f, (t \cup T) \ {x})
    BY <1>3, <1>6, SumRemove
<1>11. SumOver(f, t) = f[x] + SumOver(f, t \ {x})
    BY <1>3, <1>6, SumRemove
<1>12. f[x] \in Nat /\ SumOver(f, t \ {x}) \in Nat
    BY <1>3, <1>6, <1>7, SumType
<1> QED
    BY <1>2, <1>4, <1>8, <1>9, <1>10, <1>11, <1>12

\* A part of a set has no greater sum, and no member exceeds the sum.
LEMMA SumOfPart ==
    ASSUME NEW D, NEW f \in [D -> Nat], NEW T, T \subseteq D, IsFiniteSet(T)
    PROVE  /\ \A S \in SUBSET T : SumOver(f, S) <= SumOver(f, T)
           /\ \A x \in T : f[x] <= SumOver(f, T)
<1>1. ASSUME NEW S \in SUBSET T PROVE SumOver(f, S) <= SumOver(f, T)
    <2>1. IsFiniteSet(S) /\ IsFiniteSet(T \ S)
        BY FS_Subset
    <2>2. SumOver(f, S \cup (T \ S)) = SumOver(f, S) + SumOver(f, T \ S)
        BY <2>1, SumUnion
    <2>3. S \cup (T \ S) = T
        OBVIOUS
    <2>4. SumOver(f, S) \in Nat
        BY <2>1, SumType
    <2>5. SumOver(f, T \ S) \in Nat
        BY <2>1, SumType
    <2>6. SumOver(f, T) = SumOver(f, S) + SumOver(f, T \ S)
        BY <2>2, <2>3
    <2> HIDE <2>2, <2>3
    <2> QED
        BY <2>4, <2>5, <2>6
<1>2. ASSUME NEW x \in T PROVE f[x] <= SumOver(f, T)
    <2>1. IsFiniteSet(T \ {x}) /\ SumOver(f, T) = f[x] + SumOver(f, T \ {x})
        BY FS_RemoveElement, SumRemove
    <2>2. f[x] \in Nat /\ SumOver(f, T \ {x}) \in Nat
        BY <2>1, SumType
    <2> QED
        BY <2>1, <2>2
<1> QED
    BY <1>1, <1>2

-----------------------------------------------------------------------------
(***************************************************************************)
(* The plan of a cycle fits the allowance it was made with.                *)
(***************************************************************************)

\* The members of F where m is greatest.
Greatest(m, F) == {x \in F : \A y \in F : m[y] <= m[x]}

\* Finitely many integers have a greatest one.
LEMMA GreatestExists ==
    ASSUME NEW F, IsFiniteSet(F), F # {}, NEW m \in [F -> Int]
    PROVE  Greatest(m, F) # {}
<1> DEFINE C == {T \in SUBSET F : T # {} /\ ~ \E x \in T : \A y \in T : m[y] <= m[x]}
<1> SUFFICES ASSUME C # {} PROVE FALSE
    BY DEF Greatest
<1>1. \A T \in C : IsFiniteSet(T)
    BY FS_Subset
<1>2. PICK T \in C : \A U \in C : Cardinality(T) <= Cardinality(U)
    <2> HIDE DEF C
    <2> QED
        BY <1>1, SmallestExists
<1>3. PICK z \in T : TRUE
    BY <1>2
<1>4. /\ Cardinality(T \ {z}) \in Nat /\ Cardinality(T) \in Nat
      /\ Cardinality(T \ {z}) < Cardinality(T)
    BY <1>1, <1>2, <1>3, SmallerSet
<1>5. ~ (Cardinality(T) <= Cardinality(T \ {z}))
    BY <1>4
<1>6. T \ {z} \notin C
    <2> HIDE DEF C
    <2> QED
        BY <1>2, <1>5
<1>7. \A y \in T : m[y] \in Int
    BY <1>2
<1>8. CASE T \ {z} = {}
    <2>1. \A y \in T : m[y] <= m[z]
        BY <1>3, <1>7, <1>8
    <2> QED
        BY <1>2, <1>3, <2>1
<1>9. CASE T \ {z} # {}
    <2>1. PICK x \in T \ {z} : \A y \in T \ {z} : m[y] <= m[x]
        BY <1>2, <1>6, <1>9
    <2>2. CASE m[z] <= m[x]
        <3>1. \A y \in T : m[y] <= m[x]
            BY <2>1, <2>2
        <3> QED
            BY <1>2, <2>1, <3>1
    <2>3. CASE m[x] <= m[z]
        <3>1. \A y \in T : m[y] <= m[z]
            BY <1>3, <1>7, <2>1, <2>3
        <3> QED
            BY <1>2, <1>3, <3>1
    <2> QED
        BY <1>3, <1>7, <2>1, <2>2, <2>3
<1> QED
    BY <1>8, <1>9

\* A problem of the planning: some of the Loads, with their ratings.
Posed(p) ==
    /\ p.candidates \subseteq Loads
    /\ p.power = Power
    /\ p.priority = Priority
    /\ p.available \in Nat

\* The measures of a combination are integers.
LEMMA MeritType ==
    ASSUME NEW p, Posed(p), NEW S \in SUBSET p.candidates
    PROVE  /\ calculateTotalPowerWatts(p, S) \in Nat
           /\ calculateTotalConfiguredPriority(p, S) \in Nat
           /\ calculateTotalEffectivePriority(p, S) \in Nat
           /\ Cardinality(S) \in Nat
<1>1. S \subseteq Loads /\ IsFiniteSet(S) /\ IsFiniteSet(S \cap p.active)
    BY LoadsAssumption, FS_Subset DEF Posed
<1>2. SumOver(Power, S) \in Nat /\ SumOver(Priority, S) \in Nat
    BY <1>1, SumType, LoadsAssumption
<1>3. Cardinality(S) \in Nat /\ Cardinality(S \cap p.active) \in Nat
    BY <1>1, FS_CardinalityType
<1> QED
    BY <1>2, <1>3 DEF Posed, calculateTotalPowerWatts, calculateTotalConfiguredPriority,
                      calculateTotalEffectivePriority, ACTIVE_SCHEDULE_PRIORITY_BOOST

\* There are finitely many feasible combinations; nothing at all is one.
LEMMA SomeFeasible ==
    ASSUME NEW p, Posed(p)
    PROVE  IsFiniteSet(Feasible(p)) /\ Feasible(p) # {}
<1>1. IsFiniteSet(p.candidates)
    BY LoadsAssumption, FS_Subset DEF Posed
<1>2. IsFiniteSet(SUBSET p.candidates)
    BY <1>1, FS_SUBSET
<1>3. IsFiniteSet(Feasible(p))
    BY <1>2, FS_Subset DEF Feasible
<1>4. SumOver(Power, {}) = 0
    BY SumBegins, FS_EmptySet
<1>5. {} \in Feasible(p)
    BY <1>4 DEF Feasible, isWithinAvailablePower, calculateTotalPowerWatts, Posed
<1> QED
    BY <1>3, <1>5

\* A best combination exists: the greatest effective priority, among those
\* the greatest configured priority, then the most Loads, then the lowest
\* power.
LEMMA BestExists ==
    ASSUME NEW p, Posed(p)
    PROVE  BestCombinations(p) # {}
<1> DEFINE F0 == Feasible(p)
           m1 == [S \in F0 |-> calculateTotalEffectivePriority(p, S)]
           F1 == Greatest(m1, F0)
           m2 == [S \in F1 |-> calculateTotalConfiguredPriority(p, S)]
           F2 == Greatest(m2, F1)
           m3 == [S \in F2 |-> Cardinality(S)]
           F3 == Greatest(m3, F2)
           m4 == [S \in F3 |-> - calculateTotalPowerWatts(p, S)]
           F4 == Greatest(m4, F3)
<1>1. \A S \in F0 : /\ calculateTotalPowerWatts(p, S) \in Nat
                    /\ calculateTotalConfiguredPriority(p, S) \in Nat
                    /\ calculateTotalEffectivePriority(p, S) \in Nat
                    /\ Cardinality(S) \in Nat
    BY MeritType DEF Feasible
<1>2. IsFiniteSet(F0) /\ F0 # {} /\ m1 \in [F0 -> Int]
    BY <1>1, SomeFeasible
<1>3. F1 \subseteq F0 /\ F2 \subseteq F1 /\ F3 \subseteq F2 /\ F4 \subseteq F3
    BY DEF Greatest
<1>4. IsFiniteSet(F1) /\ IsFiniteSet(F2) /\ IsFiniteSet(F3)
    <2> HIDE DEF F0, F1, F2, F3
    <2> QED
        BY <1>2, <1>3, FS_Subset
<1>5. m2 \in [F1 -> Int] /\ m3 \in [F2 -> Int] /\ m4 \in [F3 -> Int]
    <2> HIDE DEF F0, F1, F2, F3
    <2> QED
        BY <1>1, <1>3
<1>6. F1 # {}
    <2> HIDE DEF F0, m1
    <2> QED
        BY <1>2, GreatestExists
<1>7. F2 # {}
    <2> HIDE DEF F1, m2
    <2> QED
        BY <1>4, <1>5, <1>6, GreatestExists
<1>8. F3 # {}
    <2> HIDE DEF F2, m3
    <2> QED
        BY <1>4, <1>5, <1>7, GreatestExists
<1>9. F4 # {}
    <2> HIDE DEF F3, m4
    <2> QED
        BY <1>4, <1>5, <1>8, GreatestExists
<1>10. PICK S : S \in F4
    BY <1>9
<1>11. S \in F0 /\ S \in F1 /\ S \in F2 /\ S \in F3
    BY <1>3, <1>10
<1>12. ASSUME NEW T \in F0, isBetterReturnedCombination(p, T, S) PROVE FALSE
    <2>1. PICK i \in 1..4 :
            /\ Merit(p, T)[i] > Merit(p, S)[i]
            /\ \A j \in 1..(i - 1) : Merit(p, T)[j] = Merit(p, S)[j]
        BY <1>12 DEF isBetterReturnedCombination, Exceeds, Merit
    <2>2. /\ Merit(p, T)[1] = calculateTotalEffectivePriority(p, T)
          /\ Merit(p, T)[2] = calculateTotalConfiguredPriority(p, T)
          /\ Merit(p, T)[3] = Cardinality(T)
          /\ Merit(p, T)[4] = - calculateTotalPowerWatts(p, T)
          /\ Merit(p, S)[1] = calculateTotalEffectivePriority(p, S)
          /\ Merit(p, S)[2] = calculateTotalConfiguredPriority(p, S)
          /\ Merit(p, S)[3] = Cardinality(S)
          /\ Merit(p, S)[4] = - calculateTotalPowerWatts(p, S)
        BY DEF Merit
    <2>3. calculateTotalEffectivePriority(p, T) <= calculateTotalEffectivePriority(p, S)
        BY <1>11 DEF Greatest
    <2>4. i # 1
        BY <1>1, <1>11, <2>1, <2>2, <2>3
    <2>5. calculateTotalEffectivePriority(p, T) = calculateTotalEffectivePriority(p, S)
        BY <2>1, <2>2, <2>4
    <2>6. T \in F1
        <3>1. m1[T] = m1[S] /\ \A y \in F0 : m1[y] <= m1[S]
            BY <1>11, <2>5 DEF Greatest
        <3> HIDE DEF m1, F0
        <3> QED
            BY <3>1 DEF Greatest
    <2>7. calculateTotalConfiguredPriority(p, T) <= calculateTotalConfiguredPriority(p, S)
        BY <1>11, <2>6 DEF Greatest
    <2>8. i # 2
        BY <1>1, <1>11, <2>1, <2>2, <2>7
    <2>9. calculateTotalConfiguredPriority(p, T) = calculateTotalConfiguredPriority(p, S)
        BY <2>1, <2>2, <2>4, <2>8
    <2>10. T \in F2
        <3>1. m2[T] = m2[S] /\ \A y \in F1 : m2[y] <= m2[S]
            BY <1>11, <2>6, <2>9 DEF Greatest
        <3> HIDE DEF m2, F1
        <3> QED
            BY <2>6, <3>1 DEF Greatest
    <2>11. Cardinality(T) <= Cardinality(S)
        BY <1>11, <2>10 DEF Greatest
    <2>12. i # 3
        BY <1>1, <1>11, <2>1, <2>2, <2>11
    <2>13. i = 4
        BY <2>1, <2>4, <2>8, <2>12
    <2>14. Cardinality(T) = Cardinality(S)
        BY <2>1, <2>2, <2>13
    <2>15. T \in F3
        <3>1. m3[T] = m3[S] /\ \A y \in F2 : m3[y] <= m3[S]
            BY <1>11, <2>10, <2>14 DEF Greatest
        <3> HIDE DEF m3, F2
        <3> QED
            BY <2>10, <3>1 DEF Greatest
    <2>16. - calculateTotalPowerWatts(p, T) <= - calculateTotalPowerWatts(p, S)
        BY <1>10, <2>15 DEF Greatest
    <2> QED
        BY <1>1, <1>11, <2>1, <2>2, <2>13, <2>16
<1> QED
    BY <1>11, <1>12 DEF BestCombinations

\* Whether the Loads that plan d has automatically on fit what the Loads fixed
\* ON leave of the allowance it was made with.
FixedOn(d) == {l \in DOMAIN plan[d] : plan[d][l] = "FIXED_ON"}
AutoOn(d)  == {l \in DOMAIN plan[d] : plan[d][l] = "AUTO_ON"}

PlanFits(d) ==
    budget[d] # NotReady =>
        \/ SumOver(Power, FixedOn(d)) + SumOver(Power, AutoOn(d)) <= budget[d]
        \/ SumOver(Power, AutoOn(d)) = 0

PlansFit == \A d \in Dispatchers : PlanFits(d)

\* What the search may use: it is posed a problem of the planned Loads, and its
\* answer fits.
LEMMA SelectionFits ==
    ASSUME TypeOK, allowance # NotReady
    PROVE  /\ Selected \subseteq PlannedAuto
           /\ sumFixedOnPowerWatts \in Nat
           /\ SumOver(Power, Selected) \in Nat
           /\ SumOver(Power, Selected) <= P_auto_available
<1>1. allowance \in Nat
    BY BoundsAssumption DEF TypeOK
<1>2. sumFixedOnPowerWatts \in Nat
    <2>1. {l \in Planned : mode[l] = "FIXED_ON"} \subseteq Loads
        BY DEF Planned
    <2>2. IsFiniteSet({l \in Planned : mode[l] = "FIXED_ON"})
        BY <2>1, LoadsAssumption, FS_Subset
    <2> QED
        BY <2>1, <2>2, SumType, LoadsAssumption DEF sumFixedOnPowerWatts
<1>3. P_auto_available \in Nat
    BY <1>1, <1>2 DEF P_auto_available
<1>4. Posed(Problem)
    BY <1>3 DEF Posed, Problem, PlannedAuto, Planned
<1>5. Selected \in BestCombinations(Problem)
    BY <1>4, BestExists DEF Selected
<1>6. Selected \subseteq PlannedAuto /\ SumOver(Power, Selected) <= P_auto_available
    BY <1>5 DEF BestCombinations, Feasible, isWithinAvailablePower, calculateTotalPowerWatts,
                Problem
<1>7. SumOver(Power, Selected) \in Nat
    <2>1. Selected \subseteq Loads
        BY <1>6 DEF PlannedAuto, Planned
    <2>2. IsFiniteSet(Selected)
        BY <2>1, LoadsAssumption, FS_Subset
    <2> QED
        BY <2>1, <2>2, SumType, LoadsAssumption
<1> QED
    BY <1>2, <1>6, <1>7

\* Planning makes a plan that fits.
LEMMA MakePlanFits ==
    ASSUME TypeOK, NEW d \in Dispatchers, MakePlan(d)
    PROVE  PlanFits(d)'
<1> SUFFICES ASSUME budget'[d] # NotReady
             PROVE  \/ SumOver(Power, FixedOn(d)') + SumOver(Power, AutoOn(d)') <= budget'[d]
                    \/ SumOver(Power, AutoOn(d)') = 0
    BY DEF PlanFits
<1>1. budget'[d] = allowance /\ allowance \in Nat
    BY BoundsAssumption DEF MakePlan, TypeOK
<1>2. /\ Selected \subseteq PlannedAuto
      /\ sumFixedOnPowerWatts \in Nat
      /\ SumOver(Power, Selected) \in Nat
      /\ SumOver(Power, Selected) <= P_auto_available
    BY <1>1, SelectionFits
<1>3. plan'[d] = [l \in Planned |-> mode'[l]]
    BY DEF MakePlan, TypeOK, buildRelayTargets
<1>4. \A l \in Planned : mode'[l] = IF l \notin PlannedAuto THEN mode[l]
                                    ELSE IF l \in Selected THEN "AUTO_ON" ELSE "AUTO_OFF"
    BY DEF MakePlan, Planned
<1>5. FixedOn(d)' = {l \in Planned : mode[l] = "FIXED_ON"}
    BY <1>3, <1>4 DEF FixedOn, PlannedAuto, IsAuto
<1>6. AutoOn(d)' = Selected
    BY <1>2, <1>3, <1>4 DEF AutoOn, PlannedAuto, IsAuto
<1>7. SumOver(Power, FixedOn(d)') = sumFixedOnPowerWatts
    BY <1>5 DEF sumFixedOnPowerWatts
<1> QED
    BY <1>1, <1>2, <1>6, <1>7 DEF P_auto_available

\* A plan stays what it was made as until its cycle ends.
LEMMA StepPlansFit == IInv /\ PlansFit /\ [Next]_vars => PlansFit'
<1> SUFFICES ASSUME IInv, PlansFit, [Next]_vars, NEW e \in Dispatchers PROVE PlanFits(e)'
    BY DEF PlansFit
<1>1. CASE UNCHANGED <<plan, budget>>
    BY <1>1 DEF PlansFit, PlanFits, FixedOn, AutoOn
<1>2. ASSUME NEW d \in Dispatchers, MakePlan(d) \/ EndCycle(d) PROVE PlanFits(e)'
    <2>1. CASE e # d
        <3>1. plan'[e] = plan[e] /\ budget'[e] = budget[e]
            BY <1>2, <2>1 DEF MakePlan, EndCycle, IInv, TypeOK
        <3>2. PlanFits(e) /\ FixedOn(e)' = FixedOn(e) /\ AutoOn(e)' = AutoOn(e)
            BY <3>1 DEF PlansFit, FixedOn, AutoOn
        <3> QED
            BY <3>1, <3>2 DEF PlanFits
    <2>2. CASE e = d /\ MakePlan(d)
        BY <2>2, MakePlanFits DEF IInv
    <2>3. CASE e = d /\ EndCycle(d)
        BY <2>3 DEF EndCycle, PlanFits, IInv, TypeOK
    <2> QED
        BY <1>2, <2>1, <2>2, <2>3
<1>3. CASE ~ \E d \in Dispatchers : MakePlan(d) \/ EndCycle(d)
    <2>1. UNCHANGED <<plan, budget>>
        BY <1>3 DEF Next, vars, cycle, runOptimizationCycle, StartCycle, DispatchTarget,
               DispatchLocal, SkipTarget, beginCommand, Finished, Send, SeeCompletion,
               Deadline, ReadResult, GiveUp, Execute, Restart,
               handleRelayAcknowledgement, LoseAcknowledgement, SetMode, ChangeInputs
    <2> QED
        BY <1>1, <2>1
<1> QED
    BY <1>2, <1>3

\* What is energised of a plan's Loads while its cycle switches Loads on is
\* planned on: the fixed ON and the automatic ON Loads, at most.
LEMMA BudgetFromPlan ==
    ASSUME IInv, PlansFit, CapacityReleased
    PROVE  PlannedWithinBudget
<1> SUFFICES ASSUME faults = 0, NEW d \in Dispatchers, OnPhase(d), budget[d] # NotReady
             PROVE  LET energised == {l \in DOMAIN plan[d] : relay[l]}
                        fixedOn   == {l \in DOMAIN plan[d] : plan[d][l] = "FIXED_ON"}
                    IN  \/ SumOver(Power, energised) <= budget[d]
                        \/ {l \in energised : Power[l] > 0} \subseteq fixedOn
    BY DEF PlannedWithinBudget
<1> DEFINE energised == {l \in DOMAIN plan[d] : relay[l]}
           on == FixedOn(d) \cup AutoOn(d)
<1>1. /\ FixedOn(d) \subseteq Loads /\ AutoOn(d) \subseteq Loads
      /\ energised \subseteq Loads
      /\ FixedOn(d) \cap AutoOn(d) = {}
      /\ budget[d] \in Nat
    <2>1. DOMAIN plan[d] \subseteq Loads
        BY DEF IInv, TypeOK
    <2>2. budget[d] \in Nat
        BY BoundsAssumption DEF IInv, TypeOK
    <2> QED
        BY <2>1, <2>2 DEF FixedOn, AutoOn
<1>2. IsFiniteSet(FixedOn(d)) /\ IsFiniteSet(AutoOn(d)) /\ IsFiniteSet(on)
    <2>1. on \subseteq Loads
        BY <1>1
    <2> QED
        BY <1>1, <2>1, LoadsAssumption, FS_Subset
<1>3. energised \subseteq on
    BY DEF CapacityReleased, FixedOn, AutoOn, IsOn
<1>4. SumOver(Power, energised) <= SumOver(Power, on)
    <2> HIDE DEF energised
    <2>1. on \subseteq Loads
        BY <1>1
    <2> HIDE DEF on
    <2> QED
        BY <1>2, <1>3, <2>1, SumOfPart, LoadsAssumption
<1>5. SumOver(Power, on) = SumOver(Power, FixedOn(d)) + SumOver(Power, AutoOn(d))
    BY <1>1, <1>2, SumUnion, LoadsAssumption
<1>6. SumOver(Power, on) \in Nat /\ SumOver(Power, energised) \in Nat
    <2>1. on \subseteq Loads /\ IsFiniteSet(energised)
        BY <1>1, LoadsAssumption, FS_Subset
    <2> QED
        BY <1>1, <1>2, <2>1, SumType, LoadsAssumption
<1>7. CASE SumOver(Power, FixedOn(d)) + SumOver(Power, AutoOn(d)) <= budget[d]
    <2>1. SumOver(Power, on) <= budget[d]
        BY <1>5, <1>7
    <2>2. SumOver(Power, energised) <= budget[d]
        <3> HIDE DEF energised, on
        <3> QED
            BY <1>1, <1>4, <1>6, <2>1
    <2> QED
        BY <2>2
<1>8. CASE SumOver(Power, AutoOn(d)) = 0
    <2>1. \A l \in AutoOn(d) : Power[l] <= 0
        BY <1>1, <1>2, <1>8, SumOfPart, LoadsAssumption
    <2>2. \A l \in AutoOn(d) : ~ (Power[l] > 0)
        BY <1>1, <2>1, LoadsAssumption
    <2>3. {l \in energised : Power[l] > 0} \subseteq FixedOn(d)
        BY <1>3, <2>2
    <2> QED
        BY <2>3 DEF FixedOn
<1> QED
    BY <1>7, <1>8 DEF PlansFit, PlanFits

\* When the optimization task is the only one that dispatches and nothing
\* fails, the Loads of a plan that are energised while its cycle switches Loads
\* on draw no more than the allowance the plan was made with, or only those
\* fixed ON draw anything: for any Loads and ratings, Smart Nodes and allowances
\* (updatePowerBudget's allowance, the search and the dispatch order together).
\* Loads of Nodes that were not heard are in no plan, and not counted.
THEOREM PlannedWithinBudgetByPlanner ==
    ASSUME Consoles = {}
    PROVE  Spec => []PlannedWithinBudget
<1>1. Init => PlansFit
    BY DEF Init, PlansFit, PlanFits
<1>2. IInv /\ PlansFit /\ [Next]_vars => PlansFit'
    BY StepPlansFit
<1>3. IInv /\ PlansFit /\ CapacityReleased => PlannedWithinBudget
    BY BudgetFromPlan
<1>4. Spec => []CapacityReleased
    BY CapacityReleasedByPlanner
<1> QED
    BY <1>1, <1>2, <1>3, <1>4, Inductive, PTL DEF Spec
=============================================================================
