------------------------- MODULE PowerPlanningProofs -------------------------
(***************************************************************************)
(* Proofs about PowerPlanning, for any plans, charges, demands and         *)
(* intervals, and any number of commands, failures and restarts.           *)
(***************************************************************************)
EXTENDS PowerPlanning, TLAPS

-----------------------------------------------------------------------------
(***************************************************************************)
(* The pure parts: what setting up, reading and planning do.               *)
(***************************************************************************)

\* Zero is a charge, and the charge that stands for none is not.
LEMMA ChargeFacts ==
    /\ 0 \in Charge /\ NotStored \notin Charge /\ Charge \subseteq Int
    /\ 0 \in 0 .. PersistPeriod - 1
    BY PowerAssumption DEF Charge, NotStored

\* A stored plan is one that was accepted, or none.
LEMMA PlanFacts ==
    ASSUME NEW c \in Configurations
    PROVE  /\ c.plan.minimum \in Charge
           /\ c.plan.runtime \in 0 .. LongestRuntime /\ c.plan.runtime \in Runtimes
           /\ c.plan.P_budget \in Int /\ c.plan.P_reserve \in Int
           /\ c.plan.P_reserve <= c.plan.P_budget
           /\ c.plan \in PlanSettings \cup {NoPlan}
<1>1. c.plan \in {p \in PlanSettings : isValidPowerPlanning(p)} \cup {NoPlan}
    BY DEF Configurations
<1>2. CASE c.plan = NoPlan
    BY <1>1, <1>2, ChargeFacts, PowerAssumption DEF NoPlan, Runtimes
<1>3. CASE c.plan \in PlanSettings /\ isValidPowerPlanning(c.plan)
    BY <1>3, PowerAssumption DEF isValidPowerPlanning, Runtimes
<1> QED
    BY <1>1, <1>2, <1>3

\* Applying a configuration gives a well-typed monitor.  It neither changes
\* the input nor the remaining runtime, and starts the moving average anew if
\* it touches it.
LEMMA AppliedFacts ==
    ASSUME NEW m \in Monitors, NEW c \in Configurations,
           flash.charge \in Charge \cup {NotStored}, NEW restore, NEW found
    PROVE  /\ Applied(m, c, restore, found) \in Monitors
           /\ Applied(m, c, restore, found).simulating = m.simulating
           /\ Applied(m, c, restore, found).remaining = m.remaining
           /\ Applied(m, c, restore, found).filtered \in {m.filtered, {}}
<1> DEFINE n == Initialized(m, c, found)
<1>1. n \in Monitors /\ n.simulating = m.simulating /\ n.remaining = m.remaining
      /\ n.filtered = {}
    <2>1. c.plan.minimum \in Charge /\ c.metadata \in BOOLEAN
        BY PlanFacts DEF Configurations
    <2> QED
        BY <2>1 DEF Monitors, Initialized
<1>2. c.initial \in Charge
    BY DEF Configurations
<1>3. /\ ChargeInitialized(n, c, restore) \in Monitors
      /\ ChargeInitialized(n, c, restore).simulating = n.simulating
      /\ ChargeInitialized(n, c, restore).remaining = n.remaining
      /\ ChargeInitialized(n, c, restore).filtered = n.filtered
    <2> HIDE DEF n
    <2> QED
        BY <1>1, <1>2 DEF Monitors, ChargeInitialized, loadPersistedStateOfCharge
<1> QED
    BY <1>1, <1>3 DEF Applied

\* Switching the input empties the average.
LEMMA SwitchedFacts ==
    ASSUME NEW m \in Monitors, NEW enabled \in BOOLEAN
    PROVE  /\ SwitchedTo(m, enabled) \in Monitors
           /\ SwitchedTo(m, enabled).filtered = {}
           /\ SwitchedTo(m, enabled).remaining = m.remaining
    BY DEF Monitors, SwitchedTo

\* A measurement adds the selected input to the average.
LEMMA MeasuredFacts ==
    ASSUME NEW m \in Monitors
    PROVE  /\ Measured(m) \in Monitors
           /\ Measured(m).simulating = m.simulating
           /\ Measured(m).remaining = m.remaining
           /\ Measured(m).sincePersist = m.sincePersist
           /\ Measured(m).filtered = m.filtered \cup {IF m.simulating THEN "SIMULATED" ELSE "HARDWARE"}
    BY DEF Monitors, Measured, Inputs

\* However the charge is moved, it stays between empty and full.
LEMMA CountedFacts ==
    ASSUME NEW m \in Monitors, NEW change \in {-1, 0, 1}
    PROVE  /\ Counted(m, change) \in Monitors
           /\ Counted(m, change).simulating = m.simulating
           /\ Counted(m, change).remaining = m.remaining
           /\ Counted(m, change).sincePersist = m.sincePersist
           /\ Counted(m, change).filtered = m.filtered
<1>1. AtMost(AtLeastZero(m.charge + change), MaxCharge) \in Charge
    BY PowerAssumption DEF Monitors, Charge, AtMost, AtLeastZero
<1> QED
    BY <1>1 DEF Monitors, Counted

\* What AUTO Loads may have is at most the budget less its reserve.
LEMMA AllowanceBounded ==
    ASSUME NEW m \in Monitors, NEW P_fixed \in Nat, NEW c \in Configurations
    PROVE  LET b == BudgetOf(c.plan, P_fixed)
           IN  /\ Available(m, b) \in Nat
               /\ Available(m, b) <= c.plan.P_budget - c.plan.P_reserve
<1> DEFINE b == BudgetOf(c.plan, P_fixed)
<1>1. b.P_budget = c.plan.P_budget /\ b.P_reserve = c.plan.P_reserve /\ b.P_fixed = P_fixed
    BY DEF BudgetOf
<1>2. c.plan.P_budget \in Int /\ c.plan.P_reserve \in Int /\ c.plan.P_reserve <= c.plan.P_budget
    BY PlanFacts
<1>3. m.remaining > 0 => RuntimeAllowance(m) \in Int
    <2>1. EnergyPerLevel * AtLeastZero(m.charge - m.minimum) \in Int
        BY PowerAssumption, ChargeFacts DEF Monitors, Charge, AtLeastZero
    <2>2. m.remaining \in Nat
        BY PowerAssumption DEF Monitors
    <2> QED
        BY <2>1, <2>2 DEF RuntimeAllowance
<1>4. Allowance(m, b) \in Int /\ Allowance(m, b) <= c.plan.P_budget - c.plan.P_reserve
    <2> HIDE DEF b
    <2> QED
        BY <1>1, <1>2, <1>3 DEF Allowance, AtLeastZero, AtMost
<1> HIDE DEF b
<1>5. Available(m, b) \in Nat /\ Available(m, b) <= c.plan.P_budget - c.plan.P_reserve
    BY <1>1, <1>2, <1>4 DEF Available, AtLeastZero
<1> QED
    BY <1>5 DEF b

-----------------------------------------------------------------------------
(***************************************************************************)
(* The inductive invariant.                                                *)
(***************************************************************************)

Flashes == [configuration : Configurations, charge : Charge \cup {NotStored},
            interval : 1 .. LongestInterval \cup {NotStored}]
Readings == [valid : BOOLEAN, from : SUBSET Inputs]
Clocks == [valid : BOOLEAN, reference : Runtimes \cup {NotTaken},
           since : -MaxCommands .. LongestRuntime, back : 0 .. MaxCommands]
Snapshots == [valid : BOOLEAN, P_auto_available : Nat, achievable : BOOLEAN,
              runtime : Runtimes]
Steps == {"idle", "check", "apply"}

Selected(m) == IF m.simulating THEN "SIMULATED" ELSE "HARDWARE"

\* The moving average is of the selected input, and so is a valid reading.
InputHolds ==
    /\ monitor.filtered \subseteq {Selected(monitor)}
    /\ ReadingIsOfSelectedInput

\* Between two cycles the remaining runtime is what the last one demanded: the
\* whole one when no reference was taken for it, and else not less than what
\* is left of it now, but for what the clock was set back since that cycle.
CountdownHolds ==
    /\ clock.valid \/ clock.reference = NotTaken
    /\ clock.reference # 0
    /\ snapshot.valid =>
          IF clock.valid /\ clock.reference = snapshot.runtime
          THEN monitor.remaining + clock.back >= snapshot.runtime - clock.since
          ELSE monitor.remaining = snapshot.runtime

Inv == TypeOK /\ InputHolds /\ IntervalInForce /\ CountdownHolds

\* What CountdownFollowsClock says of a step.
CountdownStep ==
    (snapshot.valid /\ snapshot'.valid /\ snapshot'.runtime = snapshot.runtime
        /\ restarts' = restarts)
     => monitor'.remaining <= monitor.remaining + clock.back

\* The steps that leave the clock and the snapshot alone do not demand another
\* runtime either.
LEMMA CountdownUntouched ==
    ASSUME Inv, monitor' \in Monitors, monitor'.remaining = monitor.remaining,
           UNCHANGED <<clock, snapshot>>
    PROVE  CountdownHolds' /\ CountdownStep
<1>1. monitor.remaining \in Int /\ clock.back \in Nat
    BY PowerAssumption DEF Inv, TypeOK, Monitors
<1> QED
    BY <1>1 DEF Inv, CountdownHolds, CountdownStep

\* Storing a valid configuration, or failing to.
LEMMA StoreFacts ==
    ASSUME TypeOK, NEW c \in Configurations, NEW stored \in BOOLEAN, Store(c, stored)
    PROVE  /\ configuration' \in Configurations /\ flash' \in Flashes
           /\ faults' \in 0 .. MaxFaults
    BY PowerAssumption DEF TypeOK, Store, Flashes

\* Applying it: the reading is not valid any more.
LEMMA ApplyFacts ==
    ASSUME Inv, NEW c \in Configurations, NEW stored \in BOOLEAN,
           NEW restore \in BOOLEAN, Apply(c, stored, restore)
    PROVE  /\ monitor' \in Monitors /\ monitor'.remaining = monitor.remaining
           /\ reading' \in Readings /\ trigger' \in BOOLEAN /\ (trigger => trigger')
           /\ InputHolds'
<1> USE DEF Inv
<1>1. monitor \in Monitors /\ reading \in Readings /\ trigger \in BOOLEAN
      /\ flash.charge \in Charge \cup {NotStored}
    BY DEF TypeOK, Readings
<1>2. CASE stored
    <2>1. PICK found \in BOOLEAN : monitor' = Applied(monitor, c, restore, found)
        BY <1>2 DEF Apply
    <2>2. reading' = [reading EXCEPT !.valid = FALSE] /\ trigger' = TRUE
        BY <1>2 DEF Apply
    <2>3. /\ monitor' \in Monitors /\ monitor'.remaining = monitor.remaining
          /\ monitor'.simulating = monitor.simulating
          /\ monitor'.filtered \in {monitor.filtered, {}}
        <3>1. configuration \in Configurations
            BY DEF TypeOK
        <3>2. /\ Applied(monitor, c, restore, found) \in Monitors
              /\ Applied(monitor, c, restore, found).simulating = monitor.simulating
              /\ Applied(monitor, c, restore, found).remaining = monitor.remaining
              /\ Applied(monitor, c, restore, found).filtered \in {monitor.filtered, {}}
            BY <1>1, AppliedFacts, Zenon
        <3> QED
            BY <2>1, <3>2
    <2>4. reading' \in Readings /\ ~ reading'.valid
        BY <1>1, <2>2 DEF Readings
    <2>5. InputHolds'
        BY <2>3, <2>4 DEF InputHolds, ReadingIsOfSelectedInput, Selected
    <2> QED
        BY <2>2, <2>3, <2>4, <2>5
<1>3. CASE ~ stored
    <2>1. UNCHANGED <<monitor, reading, trigger>>
        BY <1>3 DEF Apply
    <2> QED
        BY <1>1, <2>1 DEF InputHolds, ReadingIsOfSelectedInput, Selected
<1> QED
    BY <1>2, <1>3

-----------------------------------------------------------------------------
(***************************************************************************)
(* The commands.                                                           *)
(***************************************************************************)

\* What a command that sets something up has in common with the others: it
\* leaves time, plan and interval alone.
SetUp ==
    /\ configuration' \in Configurations /\ flash' \in Flashes
    /\ monitor' \in Monitors /\ monitor'.remaining = monitor.remaining
    /\ reading' \in Readings
    /\ trigger' \in BOOLEAN /\ (trigger => trigger')
    /\ caller' \in [Callers -> Steps]
    /\ commands' \in 0 .. MaxCommands /\ commands' >= commands
    /\ faults' \in 0 .. MaxFaults
    /\ UNCHANGED <<clock, snapshot, interval, due, restarts>>
    /\ InputHolds'

\* Setting the system up keeps the invariant and leaves the countdown alone.
LEMMA SetUpKeepsInv == Inv /\ SetUp => Inv' /\ CountdownStep
<1> SUFFICES ASSUME Inv, SetUp PROVE Inv' /\ CountdownStep
    OBVIOUS
<1>1. CountdownHolds' /\ CountdownStep
    BY CountdownUntouched DEF SetUp
<1>2. TypeOK'
    <2>1. -clock.since <= commands' /\ clock.back <= commands'
        <3>1. /\ clock.since \in Int /\ clock.back \in Int
              /\ commands \in Int /\ commands' \in Int
            BY PowerAssumption DEF Inv, SetUp, TypeOK
        <3> QED
            BY <3>1 DEF Inv, SetUp, TypeOK
    <2> QED
        BY <2>1 DEF Inv, SetUp, TypeOK, Flashes, Readings, Steps
<1>3. IntervalInForce'
    BY DEF Inv, SetUp, IntervalInForce
<1> QED
    BY <1>1, <1>2, <1>3 DEF Inv, SetUp

\* A command is counted, and its caller is a well-typed one.
LEMMA CommandFacts ==
    ASSUME TypeOK, NEW t \in Callers, Command(t)
    PROVE  commands' \in 0 .. MaxCommands /\ commands' >= commands
    BY PowerAssumption DEF TypeOK, Command

\* The four commands that store a configuration.
LEMMA ConfigureSetsUp ==
    ASSUME Inv, NEW t \in Callers,
           \/ \E range \in Ranges : consoleConfigureIna219(t, range)
           \/ \E initial \in StartingCharges : consoleConfigureBatterySetup(t, initial)
           \/ \E range \in Ranges, initial \in StartingCharges :
                configureBatterySensor(t, range, initial)
           \/ \E plan \in PlanSettings : configurePowerPlanning(t, plan)
    PROVE  SetUp
<1> USE DEF Inv
<1>0. /\ configuration \in Configurations /\ monitor \in Monitors /\ reading \in Readings
      /\ trigger \in BOOLEAN /\ caller \in [Callers -> Steps]
    BY DEF TypeOK, Readings, Steps
<1>1. ASSUME NEW range \in Ranges,
             consoleConfigureIna219(t, range)
      PROVE  SetUp
    <2> DEFINE c == setBatterySensor(range, configuration.metadata, configuration.initial)
    <2>1. c \in Configurations
        BY <1>0 DEF setBatterySensor, Configurations
    <2> HIDE DEF c
    <2>2. PICK stored \in BOOLEAN :
            /\ Store(c, stored)
            /\ IF monitor.simulating
               THEN trigger' = (trigger \/ stored) /\ UNCHANGED <<monitor, reading>>
               ELSE Apply(c, stored, TRUE)
        BY <1>1 DEF consoleConfigureIna219, c
    <2>3. Command(t) /\ UNCHANGED <<clock, snapshot, interval, due, caller, restarts>>
        BY <1>1 DEF consoleConfigureIna219
    <2>4. CASE monitor.simulating
        BY <1>0, <2>1, <2>2, <2>3, <2>4, StoreFacts, CommandFacts
           DEF SetUp, InputHolds, ReadingIsOfSelectedInput, Selected
    <2>5. CASE ~ monitor.simulating
        BY <1>0, <2>1, <2>2, <2>3, <2>5, StoreFacts, CommandFacts, ApplyFacts DEF SetUp
    <2> QED
        BY <2>4, <2>5
<1>2. ASSUME NEW initial \in StartingCharges,
             consoleConfigureBatterySetup(t, initial)
      PROVE  SetUp
    <2> DEFINE c == setBatterySensor(configuration.ina219, TRUE, initial)
    <2>1. c \in Configurations
        BY <1>0, <1>2 DEF setBatterySensor, Configurations, consoleConfigureBatterySetup,
                          isValidBatterySensor
    <2> HIDE DEF c
    <2>2. PICK stored \in BOOLEAN :
            /\ Store(c, stored)
            /\ \/ Apply(c, stored, configuration.metadata)
               \/ trigger' = (trigger \/ stored) /\ UNCHANGED <<monitor, reading>>
        BY <1>2 DEF consoleConfigureBatterySetup, c
    <2>3. Command(t) /\ UNCHANGED <<clock, snapshot, interval, due, caller, restarts>>
        BY <1>2 DEF consoleConfigureBatterySetup
    <2>4. CASE Apply(c, stored, configuration.metadata)
        <3>1. configuration.metadata \in BOOLEAN
            BY <1>0 DEF Configurations
        <3> QED
            BY <1>0, <2>1, <2>2, <2>3, <2>4, <3>1, StoreFacts, CommandFacts, ApplyFacts DEF SetUp
    <2>5. CASE trigger' = (trigger \/ stored) /\ UNCHANGED <<monitor, reading>>
        BY <1>0, <2>1, <2>2, <2>3, <2>5, StoreFacts, CommandFacts
           DEF SetUp, InputHolds, ReadingIsOfSelectedInput, Selected
    <2> QED
        BY <2>2, <2>4, <2>5
<1>3. ASSUME NEW range \in Ranges, NEW initial \in StartingCharges,
             configureBatterySensor(t, range, initial)
      PROVE  SetUp
    <2> DEFINE c == setBatterySensor(range, TRUE, initial)
    <2>1. c \in Configurations
        BY <1>0, <1>3 DEF setBatterySensor, Configurations, configureBatterySensor,
                          isValidBatterySensor
    <2> HIDE DEF c
    <2>2. PICK stored \in BOOLEAN :
            Store(c, stored) /\ Apply(c, stored, configuration.metadata)
        BY <1>3 DEF configureBatterySensor, c
    <2>3. Command(t) /\ UNCHANGED <<clock, snapshot, interval, due, caller, restarts>>
        BY <1>3 DEF configureBatterySensor
    <2>4. configuration.metadata \in BOOLEAN
        BY <1>0 DEF Configurations
    <2> QED
        BY <1>0, <2>1, <2>2, <2>3, <2>4, StoreFacts, CommandFacts, ApplyFacts DEF SetUp
<1>4. ASSUME NEW plan \in PlanSettings,
             configurePowerPlanning(t, plan)
      PROVE  SetUp
    <2> DEFINE c == setPowerPlanning(plan)
    <2>1. c \in Configurations
        BY <1>0, <1>4 DEF setPowerPlanning, Configurations, configurePowerPlanning
    <2> HIDE DEF c
    <2>2. PICK stored \in BOOLEAN :
            /\ Store(c, stored)
            /\ \/ Apply(c, stored, TRUE)
               \/ trigger' = (trigger \/ stored) /\ UNCHANGED <<monitor, reading>>
            /\ caller' = [caller EXCEPT ![t] = IF stored THEN "check" ELSE "idle"]
        BY <1>4 DEF configurePowerPlanning, c
    <2>3. Command(t) /\ UNCHANGED <<clock, snapshot, interval, due, restarts>>
        BY <1>4 DEF configurePowerPlanning
    <2>4. caller' \in [Callers -> Steps]
        BY <1>0, <2>2 DEF Steps
    <2>5. CASE Apply(c, stored, TRUE)
        BY <1>0, <2>1, <2>2, <2>3, <2>4, <2>5, StoreFacts, CommandFacts, ApplyFacts DEF SetUp
    <2>6. CASE trigger' = (trigger \/ stored) /\ UNCHANGED <<monitor, reading>>
        BY <1>0, <2>1, <2>2, <2>3, <2>4, <2>6, StoreFacts, CommandFacts
           DEF SetUp, InputHolds, ReadingIsOfSelectedInput, Selected
    <2> QED
        BY <2>2, <2>5, <2>6
<1> QED
    BY <1>1, <1>2, <1>3, <1>4

\* The simulation and the second halves of commands.
LEMMA SimulationSetsUp ==
    ASSUME Inv, NEW t \in Callers, NEW next \in {"idle", "apply"},
           NEW electrical \in BOOLEAN, NEW charge \in ChargeGiven,
           \/ enableSimulation(t, next) \/ disableSimulation(t)
           \/ setSimulatedValues(t, electrical, charge)
           \/ checkSimulating(t) \/ applyAgain(t)
    PROVE  SetUp
<1> USE DEF Inv
<1>0. /\ configuration \in Configurations /\ flash \in Flashes
      /\ flash.charge \in Charge \cup {NotStored}
      /\ monitor \in Monitors /\ reading \in Readings
      /\ trigger \in BOOLEAN /\ caller \in [Callers -> Steps]
      /\ commands \in 0 .. MaxCommands /\ faults \in 0 .. MaxFaults
      /\ commands >= commands
    BY PowerAssumption DEF TypeOK, Flashes, Readings, Steps
<1>1. CASE enableSimulation(t, next)
    <2> DEFINE m == SwitchedTo(monitor, TRUE)
    <2>1. m \in Monitors /\ m.filtered = {} /\ m.remaining = monitor.remaining
        BY <1>0, SwitchedFacts
    <2> HIDE DEF m
    <2>2. /\ monitor' = IF configuration.metadata
                        THEN Applied(m, configuration, TRUE, FALSE) ELSE m
          /\ reading' = [reading EXCEPT !.valid = FALSE]
          /\ trigger' = TRUE /\ caller' = [caller EXCEPT ![t] = next]
          /\ UNCHANGED <<configuration, flash, clock, snapshot, interval, due, faults, restarts>>
          /\ Command(t)
        BY <1>1 DEF enableSimulation, m
    <2>3. monitor' \in Monitors /\ monitor'.filtered = {}
          /\ monitor'.remaining = monitor.remaining
        <3>1. /\ Applied(m, configuration, TRUE, FALSE) \in Monitors
              /\ Applied(m, configuration, TRUE, FALSE).simulating = m.simulating
              /\ Applied(m, configuration, TRUE, FALSE).remaining = m.remaining
              /\ Applied(m, configuration, TRUE, FALSE).filtered \in {m.filtered, {}}
            BY <1>0, <2>1, AppliedFacts, Zenon
        <3> QED
            BY <2>1, <2>2, <3>1
    <2>4. reading' \in Readings /\ ~ reading'.valid
        BY <1>0, <2>2 DEF Readings
    <2>5. caller' \in [Callers -> Steps]
        BY <1>0, <2>2 DEF Steps
    <2> QED
        BY <1>0, <2>2, <2>3, <2>4, <2>5, CommandFacts
           DEF SetUp, InputHolds, ReadingIsOfSelectedInput
<1>2. CASE disableSimulation(t)
    <2> DEFINE m == SwitchedTo(monitor, FALSE)
    <2>1. m \in Monitors /\ m.filtered = {} /\ m.remaining = monitor.remaining
        BY <1>0, SwitchedFacts
    <2> HIDE DEF m
    <2>2. PICK found \in BOOLEAN :
            /\ monitor' = Applied(m, configuration, TRUE, found)
            /\ trigger' = (trigger \/ AppliedOk(m, configuration, found))
        BY <1>2 DEF disableSimulation, m
    <2>3. /\ reading' = [reading EXCEPT !.valid = FALSE]
          /\ UNCHANGED <<configuration, flash, clock, snapshot, interval, due, caller,
                         faults, restarts>>
          /\ Command(t)
        BY <1>2 DEF disableSimulation
    <2>4. monitor' \in Monitors /\ monitor'.filtered = {}
          /\ monitor'.remaining = monitor.remaining
        <3>1. /\ Applied(m, configuration, TRUE, found) \in Monitors
              /\ Applied(m, configuration, TRUE, found).simulating = m.simulating
              /\ Applied(m, configuration, TRUE, found).remaining = m.remaining
              /\ Applied(m, configuration, TRUE, found).filtered \in {m.filtered, {}}
            BY <1>0, <2>1, AppliedFacts, Zenon
        <3> QED
            BY <2>1, <2>2, <3>1
    <2>5. reading' \in Readings /\ ~ reading'.valid
        BY <1>0, <2>3 DEF Readings
    <2>6. trigger' \in BOOLEAN /\ (trigger => trigger')
        <3>1. AppliedOk(m, configuration, found) \in BOOLEAN
            BY DEF AppliedOk, Accepted
        <3> QED
            BY <1>0, <2>2, <3>1
    <2> QED
        BY <1>0, <2>3, <2>4, <2>5, <2>6, CommandFacts
           DEF SetUp, InputHolds, ReadingIsOfSelectedInput
<1>3. CASE setSimulatedValues(t, electrical, charge)
    <2> DEFINE m == IF charge = NotStored THEN monitor
                    ELSE setSimulatedStateOfChargePercent(monitor, charge)
               k == setSimulatedMeasurements(m)
    <2>1. /\ m \in Monitors /\ m.remaining = monitor.remaining
          /\ m.filtered = monitor.filtered /\ m.simulating = monitor.simulating
        BY <1>0 DEF setSimulatedStateOfChargePercent, Monitors, ChargeGiven
    <2> HIDE DEF m
    <2>2. /\ k \in Monitors /\ k.remaining = monitor.remaining
          /\ k.filtered = monitor.filtered /\ k.simulating = monitor.simulating
        BY <2>1 DEF setSimulatedMeasurements, Monitors
    <2>3. /\ IF electrical
             THEN monitor' = Measured(k) /\ reading' = [valid |-> TRUE, from |-> Measured(k).filtered]
             ELSE monitor' = m /\ UNCHANGED reading
          /\ monitor.simulating /\ trigger' = TRUE /\ Command(t)
          /\ UNCHANGED <<configuration, flash, clock, snapshot, interval, due, caller,
                         faults, restarts>>
        BY <1>3 DEF setSimulatedValues, m
    <2> HIDE DEF k
    <2>4. CASE electrical
        <3>1. /\ monitor' \in Monitors /\ monitor'.remaining = monitor.remaining
              /\ monitor'.simulating /\ monitor'.filtered = {"SIMULATED"}
            <4>1. /\ Measured(k) \in Monitors /\ Measured(k).remaining = k.remaining
                  /\ Measured(k).simulating = k.simulating
                  /\ Measured(k).filtered
                       = k.filtered \cup {IF k.simulating THEN "SIMULATED" ELSE "HARDWARE"}
                BY <2>2, MeasuredFacts
            <4>2. k.filtered \subseteq {"SIMULATED"} /\ k.simulating
                BY <2>2, <2>3 DEF InputHolds, Selected
            <4> QED
                BY <2>2, <2>3, <2>4, <4>1, <4>2
        <3>2. reading' = [valid |-> TRUE, from |-> {"SIMULATED"}]
            BY <2>3, <2>4, <3>1
        <3> QED
            BY <1>0, <2>3, <3>1, <3>2, CommandFacts
               DEF SetUp, InputHolds, ReadingIsOfSelectedInput, Selected, Readings, Inputs
    <2>5. CASE ~ electrical
        BY <1>0, <2>1, <2>3, <2>5, CommandFacts
           DEF SetUp, InputHolds, ReadingIsOfSelectedInput, Selected
    <2> QED
        BY <2>4, <2>5
<1>4. CASE checkSimulating(t)
    <2>1. caller' \in [Callers -> Steps]
        BY <1>0, <1>4 DEF checkSimulating, Steps
    <2> QED
        BY <1>0, <1>4, <2>1 DEF checkSimulating, timing, SetUp, InputHolds,
                                ReadingIsOfSelectedInput, Selected
<1>5. CASE applyAgain(t)
    <2>1. caller' \in [Callers -> Steps]
        BY <1>0, <1>5 DEF applyAgain, Steps
    <2>2. /\ monitor' \in Monitors /\ monitor'.remaining = monitor.remaining
          /\ monitor'.simulating = monitor.simulating
          /\ monitor'.filtered \in {monitor.filtered, {}}
          /\ faults' \in 0 .. MaxFaults
        <3>1. CASE \E found \in BOOLEAN :
                     /\ monitor' = Applied(monitor, configuration, TRUE, found)
                     /\ UNCHANGED faults
            <4>1. PICK found \in BOOLEAN :
                    monitor' = Applied(monitor, configuration, TRUE, found) /\ UNCHANGED faults
                BY <3>1
            <4>2. /\ Applied(monitor, configuration, TRUE, found) \in Monitors
                  /\ Applied(monitor, configuration, TRUE, found).simulating = monitor.simulating
                  /\ Applied(monitor, configuration, TRUE, found).remaining = monitor.remaining
                  /\ Applied(monitor, configuration, TRUE, found).filtered \in {monitor.filtered, {}}
                BY <1>0, AppliedFacts, Zenon
            <4> QED
                BY <1>0, <4>1, <4>2
        <3>2. CASE faults < MaxFaults /\ faults' = faults + 1 /\ UNCHANGED monitor
            BY <1>0, <3>2, PowerAssumption
        <3> QED
            BY <1>5, <3>1, <3>2 DEF applyAgain
    <2>3. UNCHANGED <<configuration, flash, reading, clock, snapshot, timing,
                      commands, restarts>>
        BY <1>5 DEF applyAgain
    <2> QED
        BY <1>0, <2>1, <2>2, <2>3 DEF timing, SetUp, InputHolds, ReadingIsOfSelectedInput, Selected
<1> QED
    BY <1>1, <1>2, <1>3, <1>4, <1>5

-----------------------------------------------------------------------------
(***************************************************************************)
(* The tasks.                                                              *)
(***************************************************************************)

\* The sensor task publishes what it has averaged, of the selected input.
LEMMA SensorSetsUp == ASSUME Inv, sensorAcquisition PROVE SetUp
<1> USE DEF Inv
<1>0. /\ configuration \in Configurations /\ flash \in Flashes
      /\ monitor \in Monitors /\ reading \in Readings
      /\ trigger \in BOOLEAN /\ caller \in [Callers -> Steps]
      /\ commands \in 0 .. MaxCommands /\ faults \in 0 .. MaxFaults
      /\ commands >= commands
    BY PowerAssumption DEF TypeOK, Flashes, Readings, Steps
<1>1. CASE /\ reading' = [reading EXCEPT !.valid = FALSE]
           /\ UNCHANGED <<configuration, flash, monitor, clock, snapshot, timing,
                          caller, commands, faults, restarts>>
    <2>1. reading' \in Readings /\ ~ reading'.valid
        BY <1>0, <1>1 DEF Readings
    <2> QED
        BY <1>0, <1>1, <2>1 DEF timing, SetUp, InputHolds, ReadingIsOfSelectedInput, Selected
<1>2. CASE \E change \in {-1, 0, 1}, stored \in BOOLEAN :
             LET m == Counted(Measured(monitor), change)
                 written == monitor.sincePersist + 1 >= PersistPeriod
             IN  /\ monitor' = [m EXCEPT !.sincePersist = IF written THEN 0 ELSE @ + 1]
                 /\ reading' = [valid |-> TRUE, from |-> m.filtered]
                 /\ IF written THEN persistStateOfCharge(m, stored)
                    ELSE stored /\ UNCHANGED <<flash, faults>>
                 /\ UNCHANGED <<configuration, clock, snapshot, timing, caller,
                                commands, restarts>>
    <2>1. PICK change \in {-1, 0, 1}, stored \in BOOLEAN :
             LET m == Counted(Measured(monitor), change)
                 written == monitor.sincePersist + 1 >= PersistPeriod
             IN  /\ monitor' = [m EXCEPT !.sincePersist = IF written THEN 0 ELSE @ + 1]
                 /\ reading' = [valid |-> TRUE, from |-> m.filtered]
                 /\ IF written THEN persistStateOfCharge(m, stored)
                    ELSE stored /\ UNCHANGED <<flash, faults>>
                 /\ UNCHANGED <<configuration, clock, snapshot, timing, caller,
                                commands, restarts>>
        BY <1>2
    <2> DEFINE m == Counted(Measured(monitor), change)
               written == monitor.sincePersist + 1 >= PersistPeriod
    <2>2. /\ m \in Monitors /\ m.remaining = monitor.remaining
          /\ m.simulating = monitor.simulating /\ m.filtered = {Selected(monitor)}
          /\ m.sincePersist = monitor.sincePersist
        BY <1>0, MeasuredFacts, CountedFacts DEF InputHolds, Selected
    <2>3. /\ monitor' = [m EXCEPT !.sincePersist = IF written THEN 0 ELSE m.sincePersist + 1]
          /\ reading' = [valid |-> TRUE, from |-> m.filtered]
          /\ persistStateOfCharge(m, stored) \/ UNCHANGED <<flash, faults>>
          /\ UNCHANGED <<configuration, clock, snapshot, timing, caller, commands, restarts>>
        BY <2>1
    <2> HIDE DEF m
    <2>4. (IF written THEN 0 ELSE m.sincePersist + 1) \in 0 .. PersistPeriod - 1
        BY <1>0, <2>2, PowerAssumption DEF Monitors
    <2> HIDE DEF written
    <2>5. /\ monitor' \in Monitors /\ monitor'.remaining = monitor.remaining
          /\ monitor'.simulating = monitor.simulating
          /\ monitor'.filtered = {Selected(monitor)}
        BY <2>2, <2>3, <2>4 DEF Monitors
    <2>6. flash' \in Flashes /\ faults' \in 0 .. MaxFaults
        BY <1>0, <2>2, <2>3, PowerAssumption DEF persistStateOfCharge, Flashes, Monitors
    <2>7. reading' = [valid |-> TRUE, from |-> {Selected(monitor)}]
        BY <2>2, <2>3
    <2> QED
        BY <1>0, <2>3, <2>5, <2>6, <2>7 DEF timing, SetUp, InputHolds,
           ReadingIsOfSelectedInput, Selected, Readings, Inputs
<1> QED
    BY <1>1, <1>2 DEF sensorAcquisition

\* A cycle takes the reference once, gives the AUTO Loads at most the budget
\* less its reserve, and demands no longer runtime than the cycle before.
LEMMA PlanFactsOfStep ==
    ASSUME Inv, Plan, UNCHANGED <<configuration, restarts>>
    PROVE  /\ monitor' \in Monitors /\ monitor'.simulating = monitor.simulating
           /\ monitor'.filtered = monitor.filtered
           /\ clock' \in Clocks /\ clock'.since \in {clock.since, 0} /\ clock'.back = 0
           /\ snapshot' \in Snapshots
           /\ \E p \in PlanSettings \cup {NoPlan} :
                 snapshot'.P_auto_available <= p.P_budget - p.P_reserve
           /\ CountdownHolds' /\ CountdownStep
<1> USE DEF Inv
<1> DEFINE c == configuration
           r == c.plan.runtime
           ready == InputsReady(monitor, c)
           m == IF ready THEN setRemainingRequiredRuntimeHours(monitor, RemainingHours(c))
                ELSE monitor
<1>0. /\ c \in Configurations /\ monitor \in Monitors /\ clock \in Clocks
      /\ snapshot \in Snapshots
    BY DEF TypeOK, Clocks, Snapshots
<1>1. /\ r \in 0 .. LongestRuntime /\ r \in Runtimes /\ r \in Nat
      /\ c.plan \in PlanSettings \cup {NoPlan}
    BY <1>0, PlanFacts, PowerAssumption
<1>2. PICK P_fixed \in FixedDemands :
        /\ clock' = [Referenced(c) EXCEPT !.back = 0]
        /\ monitor' = m
        /\ snapshot' = IF ready /\ BudgetComputable(m, BudgetOf(c.plan, P_fixed))
                       THEN [valid |-> TRUE,
                             P_auto_available |-> Available(m, BudgetOf(c.plan, P_fixed)),
                             achievable |-> Achievable(m, BudgetOf(c.plan, P_fixed)),
                             runtime |-> r]
                       ELSE NoSnapshot
    BY DEF Plan
<1>3. /\ Referenced(c) \in Clocks /\ Referenced(c).valid = clock.valid
      /\ Referenced(c).since = clock.since \/ Referenced(c).since = 0
      /\ clock' \in Clocks /\ clock'.valid = clock.valid /\ clock'.back = 0
      /\ clock'.since = Referenced(c).since /\ clock'.reference = Referenced(c).reference
    <2>1. Referenced(c) = clock \/ Referenced(c) = [clock EXCEPT !.reference = r, !.since = 0]
        BY DEF Referenced
    <2>2. 0 \in -MaxCommands .. LongestRuntime /\ 0 \in 0 .. MaxCommands
        BY PowerAssumption
    <2> HIDE DEF r
    <2>3. /\ Referenced(c) \in Clocks /\ Referenced(c).valid = clock.valid
          /\ Referenced(c).since = clock.since \/ Referenced(c).since = 0
        BY <1>0, <1>1, <2>1, <2>2 DEF Clocks
    <2> QED
        BY <1>2, <2>2, <2>3 DEF Clocks
<1>4. RemainingHours(c) \in 0 .. LongestRuntime + MaxCommands
    <2>1. Referenced(c).since \in -MaxCommands .. LongestRuntime
        BY <1>3 DEF Clocks
    <2> HIDE DEF r
    <2>2. RemainingHours(c) = r \/ RemainingHours(c) = AtLeastZero(r - Referenced(c).since)
        BY DEF RemainingHours, r
    <2> QED
        BY <1>1, <2>1, <2>2, PowerAssumption DEF AtLeastZero
<1>5. /\ m \in Monitors /\ m.simulating = monitor.simulating
      /\ m.filtered = monitor.filtered
      /\ m.remaining = IF ready THEN RemainingHours(c) ELSE monitor.remaining
    BY <1>0, <1>4 DEF setRemainingRequiredRuntimeHours, Monitors
<1>6. /\ Available(m, BudgetOf(c.plan, P_fixed)) \in Nat
      /\ Available(m, BudgetOf(c.plan, P_fixed)) <= c.plan.P_budget - c.plan.P_reserve
    BY <1>0, <1>5, AllowanceBounded, PowerAssumption
<1>7. Achievable(m, BudgetOf(c.plan, P_fixed)) \in BOOLEAN
    BY DEF Achievable
<1>8. snapshot' \in Snapshots /\ (snapshot'.valid => ready /\ snapshot'.runtime = r)
    <2>1. NoSnapshot \in Snapshots /\ ~ NoSnapshot.valid
        BY DEF NoSnapshot, Snapshots, Runtimes
    <2> HIDE DEF m, ready, r
    <2> QED
        BY <1>1, <1>2, <1>6, <1>7, <2>1 DEF Snapshots
<1>9. \E p \in PlanSettings \cup {NoPlan} :
         snapshot'.P_auto_available <= p.P_budget - p.P_reserve
    <2>1. snapshot' = NoSnapshot
          \/ snapshot'.P_auto_available = Available(m, BudgetOf(c.plan, P_fixed))
        BY <1>2
    <2>2. NoSnapshot.P_auto_available = 0 /\ NoPlan.P_budget = 0 /\ NoPlan.P_reserve = 0
        BY DEF NoSnapshot, NoPlan
    <2> QED
        BY <1>1, <1>6, <2>1, <2>2
<1>10. monitor' = m
    BY <1>2
<1> HIDE DEF m, ready
<1>11. CountdownHolds'
    <2>1. (clock'.valid \/ clock'.reference = NotTaken) /\ clock'.reference # 0
        <3> HIDE DEF c, r
        <3>1. Referenced(c).reference \in {clock.reference, c.plan.runtime}
              /\ (Referenced(c).reference # clock.reference => clock.valid /\ c.plan.runtime > 0)
            BY <1>0 DEF Referenced, Clocks
        <3> QED
            BY <1>3, <3>1 DEF CountdownHolds
    <2>2. ASSUME snapshot'.valid
          PROVE  IF clock'.valid /\ clock'.reference = snapshot'.runtime
                 THEN monitor'.remaining + clock'.back >= snapshot'.runtime - clock'.since
                 ELSE monitor'.remaining = snapshot'.runtime
        <3>1. snapshot'.runtime = r /\ monitor'.remaining = RemainingHours(c)
            BY <1>5, <1>8, <1>10, <2>2
        <3>2. clock'.since \in Int /\ clock'.since = Referenced(c).since
              /\ clock'.reference = Referenced(c).reference
            BY <1>3, PowerAssumption DEF Clocks
        <3>3. clock.valid /\ r > 0 => clock'.reference = r
            BY <1>0, <3>2 DEF Referenced, Clocks
        <3> HIDE DEF r
        <3>4. RemainingHours(c) = IF r > 0 /\ clock.valid THEN AtLeastZero(r - clock'.since) ELSE r
            BY <3>2 DEF RemainingHours, r
        <3>5. CASE clock'.valid /\ clock'.reference = r
            <4>1. r > 0
                BY <1>1, <2>1, <3>5
            <4> QED
                BY <1>1, <1>3, <3>1, <3>2, <3>4, <3>5, <4>1 DEF AtLeastZero
        <3>6. CASE ~ (clock'.valid /\ clock'.reference = r)
            <4>1. ~ (r > 0 /\ clock.valid)
                BY <1>3, <3>3, <3>6
            <4> QED
                BY <3>1, <3>4, <3>6, <4>1
        <3> QED
            BY <3>5, <3>6
    <2> QED
        BY <2>1, <2>2 DEF CountdownHolds
<1>12. CountdownStep
    <2> SUFFICES ASSUME snapshot.valid, snapshot'.valid, snapshot'.runtime = snapshot.runtime
                 PROVE  monitor'.remaining <= monitor.remaining + clock.back
        BY DEF CountdownStep
    <2>1. snapshot.runtime = r /\ monitor'.remaining = RemainingHours(c)
        BY <1>5, <1>8, <1>10
    <2>2. /\ clock'.since \in Int /\ clock.since \in Int /\ clock'.since = Referenced(c).since
          /\ clock.back \in Nat /\ monitor.remaining \in Nat
        BY <1>0, <1>3, PowerAssumption DEF Clocks, Monitors
    <2>3. RemainingHours(c) = IF r > 0 /\ clock.valid THEN AtLeastZero(r - clock'.since) ELSE r
        BY <2>2 DEF RemainingHours
    <2>4. CASE clock.valid /\ clock.reference = r
        <3>1. clock'.since = clock.since
            BY <2>2, <2>4 DEF Referenced
        <3>2. monitor.remaining + clock.back >= r - clock.since
            BY <2>1, <2>4 DEF CountdownHolds
        <3> HIDE DEF r
        <3> QED
            BY <1>1, <2>1, <2>2, <2>3, <2>4, <3>1, <3>2 DEF AtLeastZero
    <2>5. CASE ~ (clock.valid /\ clock.reference = r)
        <3>1. monitor.remaining = r
            BY <2>1, <2>5 DEF CountdownHolds
        <3>2. clock.valid /\ r > 0 => clock'.since = 0
            BY <2>2, <2>5 DEF Referenced
        <3> HIDE DEF r
        <3> QED
            BY <1>1, <2>1, <2>2, <2>3, <3>1, <3>2 DEF AtLeastZero
    <2> QED
        BY <2>4, <2>5
<1> QED
    BY <1>3, <1>5, <1>8, <1>9, <1>10, <1>11, <1>12

\* A cycle, by either task, keeps the invariant.
LEMMA CycleKeepsInv ==
    ASSUME Inv,
           optimizationTask \/ \E t \in Callers : consoleOptimize(t)
    PROVE  Inv' /\ CountdownStep
<1> USE DEF Inv
<1>1. /\ Plan
      /\ UNCHANGED <<configuration, flash, reading, interval, caller, faults, restarts>>
    BY DEF optimizationTask, consoleOptimize, timing
<1>2. /\ monitor' \in Monitors /\ monitor'.simulating = monitor.simulating
      /\ monitor'.filtered = monitor.filtered
      /\ clock' \in Clocks /\ clock'.since \in {clock.since, 0} /\ clock'.back = 0
      /\ snapshot' \in Snapshots
      /\ \E p \in PlanSettings \cup {NoPlan} :
            snapshot'.P_auto_available <= p.P_budget - p.P_reserve
      /\ CountdownHolds' /\ CountdownStep
    BY <1>1, PlanFactsOfStep
<1>3. InputHolds'
    BY <1>1, <1>2 DEF InputHolds, ReadingIsOfSelectedInput, Selected
<1>4. /\ trigger' \in BOOLEAN /\ due' \in 0 .. LongestInterval
      /\ commands' \in 0 .. MaxCommands /\ commands' >= commands
      /\ (trigger' \/ due' <= interval')
    <2>1. /\ trigger \in BOOLEAN /\ interval \in 1 .. LongestInterval
          /\ due \in 0 .. LongestInterval /\ commands \in 0 .. MaxCommands
        BY DEF TypeOK
    <2>2. CASE optimizationTask
        <3>1. trigger' = FALSE /\ due' = interval /\ UNCHANGED <<interval, commands>>
            BY <2>2 DEF optimizationTask
        <3>2. interval \in 0 .. LongestInterval /\ interval <= interval
              /\ commands >= commands
            BY <2>1, PowerAssumption
        <3> QED
            BY <2>1, <3>1, <3>2
    <2>3. CASE \E t \in Callers : consoleOptimize(t)
        BY <2>1, <2>3, CommandFacts DEF consoleOptimize, timing, IntervalInForce
    <2> QED
        BY <2>2, <2>3
<1>5. TypeOK'
    <2>1. -clock'.since <= commands' /\ clock'.back <= commands'
        <3>1. clock.since \in Int /\ commands \in Nat /\ commands' \in Nat /\ -clock.since <= commands
            BY <1>4, PowerAssumption DEF TypeOK
        <3> QED
            BY <1>2, <1>4, <3>1
    <2> QED
        BY <1>1, <1>2, <1>4, <2>1 DEF TypeOK, Clocks, Snapshots
<1> QED
    BY <1>2, <1>3, <1>4, <1>5 DEF IntervalInForce

\* A new interval wakes the optimization task up, which would sleep on else.
LEMMA IntervalKeepsInv ==
    ASSUME Inv, NEW t \in Callers, NEW time \in 0 .. LongestInterval + 1,
           requestOptimizationCycle(t) \/ setOptimizerInterval(t, time)
    PROVE  Inv' /\ CountdownStep
<1> USE DEF Inv
<1>1. /\ UNCHANGED <<configuration, monitor, reading, clock, snapshot, due,
                     caller, faults, restarts>>
      /\ trigger' = TRUE
    BY DEF requestOptimizationCycle, setOptimizerInterval, saveOptimizerInterval
<1>2. /\ interval' \in 1 .. LongestInterval /\ flash' \in Flashes
      /\ commands' \in 0 .. MaxCommands /\ commands' >= commands
    BY CommandFacts DEF requestOptimizationCycle, setOptimizerInterval, saveOptimizerInterval,
       isValidOptimizerInterval, TypeOK, Flashes
<1>3. CountdownHolds' /\ CountdownStep
    BY <1>1, CountdownUntouched DEF TypeOK
<1>4. InputHolds'
    BY <1>1 DEF InputHolds, ReadingIsOfSelectedInput, Selected
<1>5. TypeOK' /\ IntervalInForce'
    <2>1. -clock.since <= commands' /\ clock.back <= commands'
        <3>1. /\ clock.since \in Int /\ clock.back \in Int
              /\ commands \in Int /\ commands' \in Int
            BY <1>2, PowerAssumption DEF TypeOK
        <3> QED
            BY <1>2, <3>1 DEF TypeOK
    <2> QED
        BY <1>1, <1>2, <2>1 DEF TypeOK, Flashes, IntervalInForce
<1> QED
    BY <1>3, <1>4, <1>5

\* Time that goes by, and a clock that becomes valid or is set again, demand
\* nothing; what the clock is set back is counted.
LEMMA TimeKeepsInv ==
    ASSUME Inv, TimePasses \/ handleTimeSynchronizationEvent
    PROVE  Inv' /\ CountdownStep
<1> USE DEF Inv
<1>0. /\ clock \in Clocks /\ snapshot \in Snapshots /\ monitor \in Monitors
      /\ LongestRuntime \in Nat /\ MaxCommands \in Nat /\ commands \in 0 .. MaxCommands
      /\ -clock.since <= commands /\ clock.back <= commands
    BY PowerAssumption DEF TypeOK, Clocks, Snapshots
<1>1. UNCHANGED <<configuration, flash, monitor, reading, snapshot, trigger, interval,
                  caller, faults, restarts>>
    BY DEF TimePasses, handleTimeSynchronizationEvent, timing
<1>2. due' \in 0 .. LongestInterval /\ due' <= due
    BY PowerAssumption DEF TimePasses, handleTimeSynchronizationEvent, timing, TypeOK
<1>3. Runtimes \subseteq Nat /\ NotTaken \notin Nat
    BY PowerAssumption DEF Runtimes, NotTaken
<1>4. /\ clock.since \in Int /\ clock.back \in Int /\ monitor.remaining \in Nat
      /\ snapshot.runtime \in Nat /\ commands \in Nat
    <2>1. clock.since \in Int /\ clock.back \in Int /\ commands \in Nat
        BY <1>0 DEF Clocks
    <2>2. monitor.remaining \in Nat
        BY <1>0 DEF Monitors
    <2>3. snapshot.runtime \in Nat
        BY <1>0, <1>3 DEF Snapshots
    <2> QED
        BY <2>1, <2>2, <2>3
<1> DEFINE Moved(n, back) ==
        clock' = [clock EXCEPT !.since = n, !.back = back]
<1>5. ASSUME NEW n \in -MaxCommands .. LongestRuntime, NEW back \in 0 .. MaxCommands,
             Moved(n, back), n + back >= clock.since + clock.back \/ clock.reference = NotTaken,
             commands' \in 0 .. MaxCommands, -n <= commands', back <= commands'
      PROVE  clock' \in Clocks /\ CountdownHolds'
             /\ -clock'.since <= commands' /\ clock'.back <= commands'
    <2>1. /\ clock' \in Clocks /\ clock'.since = n /\ clock'.back = back
          /\ clock'.reference = clock.reference /\ clock'.valid = clock.valid
        BY <1>0, <1>5 DEF Clocks
    <2>2. n \in Int /\ back \in Int
        BY <1>0
    <2>3. CountdownHolds'
        BY <1>1, <1>3, <1>4, <1>5, <2>1, <2>2 DEF CountdownHolds
    <2> QED
        BY <1>5, <2>1, <2>3
<1>6. /\ clock' \in Clocks /\ CountdownHolds' /\ commands' \in 0 .. MaxCommands
      /\ -clock'.since <= commands' /\ clock'.back <= commands'
    <2>1. CASE TimePasses
        <3>1. PICK later \in -MaxCommands .. LongestRuntime :
                /\ Moved(later, clock.back) /\ -later <= commands
                /\ clock.reference # NotTaken => later >= clock.since
            <4>1. IF clock.reference = NotTaken THEN 0 \in -MaxCommands .. LongestRuntime
                  ELSE /\ AtMost(clock.since + 1, LongestRuntime) \in -MaxCommands .. LongestRuntime
                       /\ AtMost(clock.since + 1, LongestRuntime) >= clock.since
                       /\ -AtMost(clock.since + 1, LongestRuntime) <= commands
                BY <1>0 DEF Clocks, AtMost
            <4>2. Moved(IF clock.reference = NotTaken THEN 0
                        ELSE AtMost(clock.since + 1, LongestRuntime), clock.back)
                BY <1>0, <2>1 DEF TimePasses, Clocks
            <4> DEFINE later == IF clock.reference = NotTaken THEN 0
                                ELSE AtMost(clock.since + 1, LongestRuntime)
            <4>3. later \in -MaxCommands .. LongestRuntime /\ -later <= commands
                  /\ (clock.reference # NotTaken => later >= clock.since)
                BY <1>0, <4>1
            <4> HIDE DEF Moved, later
            <4>4. Moved(later, clock.back)
                BY <4>2 DEF later
            <4> QED
                BY <4>3, <4>4
        <3>2. clock.back \in 0 .. MaxCommands /\ UNCHANGED commands
            BY <1>0, <2>1 DEF TimePasses, Clocks
        <3>3. later + clock.back >= clock.since + clock.back \/ clock.reference = NotTaken
            BY <1>0, <1>4, <3>1
        <3> QED
            BY <1>0, <1>5, <3>1, <3>2, <3>3
    <2>2. CASE FirstSynchronization
        <3>1. ~ clock.valid /\ clock.reference = NotTaken
            BY <2>2 DEF FirstSynchronization, CountdownHolds
        <3>2. clock' = [clock EXCEPT !.valid = TRUE, !.since = 0] /\ UNCHANGED commands
            BY <2>2, <3>1 DEF FirstSynchronization
        <3>3. /\ clock' \in Clocks /\ clock'.valid /\ clock'.reference = NotTaken
              /\ clock'.since = 0 /\ clock'.back = clock.back
            <4>1. 0 \in -MaxCommands .. LongestRuntime
                BY <1>0
            <4>2. clock' = [valid |-> TRUE, reference |-> NotTaken, since |-> 0,
                            back |-> clock.back]
                BY <1>0, <3>1, <3>2 DEF Clocks
            <4> QED
                BY <1>0, <4>1, <4>2 DEF Clocks
        <3>4. CountdownHolds'
            BY <1>0, <1>1, <1>3, <3>1, <3>3 DEF CountdownHolds, Snapshots
        <3> QED
            BY <1>0, <3>2, <3>3, <3>4
    <2>3. CASE LaterSynchronization
        <3>1. /\ commands < MaxCommands /\ commands' = commands + 1
              /\ clock.reference # NotTaken
            BY <2>3 DEF LaterSynchronization
        <3>2. commands' \in 0 .. MaxCommands
            BY <1>0, <3>1
        <3>3. CASE clock' = [clock EXCEPT !.since = @ - 1, !.back = @ + 1]
            <4>1. /\ clock.since - 1 \in -MaxCommands .. LongestRuntime
                  /\ clock.back + 1 \in 0 .. MaxCommands
                  /\ -(clock.since - 1) <= commands' /\ clock.back + 1 <= commands'
                  /\ (clock.since - 1) + (clock.back + 1) >= clock.since + clock.back
                BY <1>0, <1>4, <3>1 DEF Clocks
            <4>2. Moved(clock.since - 1, clock.back + 1)
                BY <1>0, <3>3 DEF Clocks
            <4> QED
                BY <1>5, <3>2, <4>1, <4>2
        <3>4. CASE clock' = [clock EXCEPT !.since = AtMost(@ + 1, LongestRuntime)]
            <4>1. /\ AtMost(clock.since + 1, LongestRuntime) \in -MaxCommands .. LongestRuntime
                  /\ clock.back \in 0 .. MaxCommands
                  /\ -AtMost(clock.since + 1, LongestRuntime) <= commands'
                  /\ clock.back <= commands'
                  /\ AtMost(clock.since + 1, LongestRuntime) + clock.back
                       >= clock.since + clock.back
                BY <1>0, <1>4, <3>1 DEF Clocks, AtMost
            <4>2. Moved(AtMost(clock.since + 1, LongestRuntime), clock.back)
                BY <1>0, <3>4 DEF Clocks
            <4> QED
                BY <1>5, <3>2, <4>1, <4>2
        <3> QED
            BY <2>3, <3>3, <3>4 DEF LaterSynchronization
    <2> QED
        BY <2>1, <2>2, <2>3 DEF handleTimeSynchronizationEvent
<1>7. CountdownStep
    <2>1. clock.back >= 0
        BY <1>0 DEF Clocks
    <2> QED
        BY <1>1, <1>4, <2>1 DEF CountdownStep
<1>8. InputHolds'
    BY <1>1 DEF InputHolds, ReadingIsOfSelectedInput, Selected
<1> HIDE DEF Moved
<1>9. TypeOK'
    BY <1>1, <1>2, <1>6 DEF TypeOK, Clocks
<1>10. IntervalInForce'
    BY <1>1, <1>2, PowerAssumption DEF IntervalInForce, TypeOK
<1> QED
    BY <1>6, <1>7, <1>8, <1>9, <1>10

\* The monitor of a Central that has just started is well typed.
LEMMA NewMonitorTyped == NewMonitor \in Monitors /\ NewMonitor.filtered = {}
    BY ChargeFacts, PowerAssumption DEF NewMonitor, Monitors, Inputs

\* So it is once the stored configuration is applied.
LEMMA StartFacts ==
    ASSUME NEW c \in Configurations, NEW found,
           flash.charge \in Charge \cup {NotStored}
    PROVE  /\ Applied(NewMonitor, c, TRUE, found) \in Monitors
           /\ Applied(NewMonitor, c, TRUE, found).filtered = {}
    BY NewMonitorTyped, AppliedFacts

\* A restart forgets the reading, the reference and the last plan, and so
\* keeps the invariant.
LEMMA RestartKeepsInv == Inv /\ Restart => Inv' /\ CountdownStep
<1> SUFFICES ASSUME Inv, Restart PROVE Inv' /\ CountdownStep
    OBVIOUS
<1> USE DEF Inv
<1>1. flash \in Flashes /\ flash.configuration \in Configurations
      /\ flash.charge \in Charge \cup {NotStored}
    BY DEF TypeOK, Flashes
<1>2. PICK found \in BOOLEAN : monitor' = Applied(NewMonitor, flash.configuration, TRUE, found)
    BY DEF Restart
<1>3. monitor' \in Monitors /\ monitor'.filtered = {}
    <2>1. /\ Applied(NewMonitor, flash.configuration, TRUE, found) \in Monitors
          /\ Applied(NewMonitor, flash.configuration, TRUE, found).filtered = {}
        BY <1>1, StartFacts, Zenon
    <2> QED
        BY <1>2, <2>1
<1>4. /\ configuration' = flash.configuration
      /\ reading' = [valid |-> FALSE, from |-> {}]
      /\ clock' = NewClock
      /\ snapshot' = NoSnapshot
      /\ trigger' = FALSE /\ interval' = LoadedInterval /\ due' = 0
      /\ caller' = [t \in Callers |-> "idle"]
      /\ restarts < MaxRestarts /\ restarts' = restarts + 1
      /\ UNCHANGED <<flash, commands, faults>>
    BY DEF Restart
<1>5. interval' \in 1 .. LongestInterval
    BY <1>1, <1>4, PowerAssumption DEF LoadedInterval, isValidOptimizerInterval
<1>6. clock' \in Clocks /\ ~ clock'.valid /\ clock'.reference = NotTaken
      /\ clock'.since = 0 /\ clock'.back = 0
      /\ snapshot' \in Snapshots /\ ~ snapshot'.valid
      /\ snapshot'.P_auto_available = 0 /\ NoPlan.P_budget - NoPlan.P_reserve = 0
    BY <1>4, PowerAssumption DEF NewClock, Clocks, Snapshots, NoSnapshot, Runtimes, NoPlan
<1>7. TypeOK'
    <2>1. /\ restarts' \in 0 .. MaxRestarts /\ due' \in 0 .. LongestInterval
          /\ -clock'.since <= commands' /\ clock'.back <= commands'
        BY <1>4, <1>6, PowerAssumption DEF TypeOK
    <2>2. \E p \in PlanSettings \cup {NoPlan} :
            snapshot'.P_auto_available <= p.P_budget - p.P_reserve
        BY <1>6
    <2>3. reading' \in Readings /\ caller' \in [Callers -> Steps] /\ trigger' \in BOOLEAN
        BY <1>4 DEF Readings, Steps
    <2> QED
        BY <1>1, <1>3, <1>4, <1>5, <1>6, <2>1, <2>2, <2>3
           DEF TypeOK, Flashes, Clocks, Snapshots, Readings, Steps
<1>8. InputHolds' /\ CountdownHolds' /\ CountdownStep
    BY <1>3, <1>4, <1>6 DEF InputHolds, ReadingIsOfSelectedInput, CountdownHolds, CountdownStep, NotTaken
<1>9. IntervalInForce'
    BY <1>4, <1>5, PowerAssumption DEF IntervalInForce
<1> QED
    BY <1>7, <1>8, <1>9

\* The Central starts as after a restart, with an empty store of its charge.
LEMMA InitInv == Init => Inv
<1> SUFFICES ASSUME Init PROVE Inv
    OBVIOUS
<1>1. configuration \in Configurations /\ flash \in Flashes
      /\ flash.charge \in Charge \cup {NotStored}
    BY StoredAssumption DEF Init, Flashes
<1>2. PICK found \in BOOLEAN : monitor = Applied(NewMonitor, configuration, TRUE, found)
    BY DEF Init
<1>3. monitor \in Monitors /\ monitor.filtered = {}
    <2>1. /\ Applied(NewMonitor, configuration, TRUE, found) \in Monitors
          /\ Applied(NewMonitor, configuration, TRUE, found).filtered = {}
        BY <1>1, StartFacts, Zenon
    <2> QED
        BY <1>2, <2>1
<1>4. /\ reading = [valid |-> FALSE, from |-> {}]
      /\ clock = NewClock
      /\ snapshot = NoSnapshot
      /\ trigger = FALSE /\ interval = LoadedInterval /\ due = 0
      /\ caller = [t \in Callers |-> "idle"]
      /\ commands = 0 /\ faults = 0 /\ restarts = 0
    BY DEF Init
<1>5. interval \in 1 .. LongestInterval
    BY <1>1, <1>4, PowerAssumption DEF LoadedInterval, isValidOptimizerInterval
<1>6. clock \in Clocks /\ ~ clock.valid /\ clock.reference = NotTaken
      /\ clock.since = 0 /\ clock.back = 0
      /\ snapshot \in Snapshots /\ ~ snapshot.valid
      /\ snapshot.P_auto_available = 0 /\ NoPlan.P_budget - NoPlan.P_reserve = 0
    BY <1>4, PowerAssumption DEF NewClock, Clocks, Snapshots, NoSnapshot, Runtimes, NoPlan
<1>7. TypeOK
    <2>1. /\ commands \in 0 .. MaxCommands /\ faults \in 0 .. MaxFaults
          /\ restarts \in 0 .. MaxRestarts /\ due \in 0 .. LongestInterval
          /\ -clock.since <= commands /\ clock.back <= commands
        BY <1>4, <1>6, PowerAssumption
    <2>2. \E p \in PlanSettings \cup {NoPlan} :
            snapshot.P_auto_available <= p.P_budget - p.P_reserve
        BY <1>6
    <2>3. reading \in Readings /\ caller \in [Callers -> Steps] /\ trigger \in BOOLEAN
        BY <1>4 DEF Readings, Steps
    <2> QED
        BY <1>1, <1>3, <1>5, <1>6, <2>1, <2>2, <2>3
           DEF TypeOK, Flashes, Clocks, Snapshots, Readings, Steps
<1>8. InputHolds /\ CountdownHolds
    BY <1>3, <1>4, <1>6 DEF InputHolds, ReadingIsOfSelectedInput, CountdownHolds, NotTaken
<1>9. IntervalInForce
    BY <1>4, <1>5, PowerAssumption DEF IntervalInForce
<1> QED
    BY <1>7, <1>8, <1>9 DEF Inv

-----------------------------------------------------------------------------
\* One step, whichever it is.
LEMMA StepKeepsInv == Inv /\ [Next]_vars => Inv' /\ [CountdownStep]_vars
<1> SUFFICES ASSUME Inv, [Next]_vars PROVE Inv' /\ [CountdownStep]_vars
    OBVIOUS
<1>1. CASE UNCHANGED vars
    BY <1>1 DEF Inv, vars, timing, TypeOK, InputHolds, Selected, ReadingIsOfSelectedInput,
       IntervalInForce, CountdownHolds
<1>2. ASSUME NEW t \in Callers,
             \/ battery(t) \/ sensor(t) \/ optimize(t) \/ handleConfigCommand(t)
             \/ handleSimulationCommand(t) \/ handleSystemCommand(t)
             \/ checkSimulating(t) \/ applyAgain(t)
      PROVE  Inv' /\ CountdownStep
    <2>1. CASE \/ \E range \in Ranges : consoleConfigureIna219(t, range)
               \/ \E initial \in StartingCharges : consoleConfigureBatterySetup(t, initial)
               \/ \E range \in Ranges, initial \in StartingCharges :
                    configureBatterySensor(t, range, initial)
               \/ \E plan \in PlanSettings : configurePowerPlanning(t, plan)
        BY <2>1, ConfigureSetsUp, SetUpKeepsInv
    <2>2. CASE \/ \E next \in {"idle", "apply"} : enableSimulation(t, next)
               \/ disableSimulation(t)
               \/ \E electrical \in BOOLEAN, charge \in ChargeGiven :
                    setSimulatedValues(t, electrical, charge)
               \/ checkSimulating(t) \/ applyAgain(t)
        <3>1. NotStored \in ChargeGiven
            BY DEF ChargeGiven
        <3> QED
            BY <2>2, <3>1, SimulationSetsUp, SetUpKeepsInv
    <2>3. CASE \/ requestOptimizationCycle(t)
               \/ \E time \in 0 .. LongestInterval + 1 : setOptimizerInterval(t, time)
        <3>1. 0 \in 0 .. LongestInterval + 1
            BY PowerAssumption
        <3> QED
            BY <2>3, <3>1, IntervalKeepsInv
    <2>4. CASE consoleOptimize(t)
        BY <2>4, CycleKeepsInv
    <2> QED
        BY <1>2, <2>1, <2>2, <2>3, <2>4
           DEF battery, sensor, optimize, handleConfigCommand, handleSimulationCommand,
               handleSystemCommand, consoleSensorMode, consoleConfigurePowerPlanning
<1>3. CASE \/ sensorAcquisition \/ optimizationTask \/ handleTimeSynchronizationEvent
           \/ TimePasses \/ Restart
    <2>1. CASE optimizationTask
        BY <2>1, CycleKeepsInv
    <2> QED
        BY <1>3, <2>1, SensorSetsUp, SetUpKeepsInv, TimeKeepsInv, RestartKeepsInv
<1> QED
    BY <1>1, <1>2, <1>3 DEF Next

\* The invariant holds throughout.
THEOREM Inductive == Spec => []Inv
    BY InitInv, StepKeepsInv, PTL DEF Spec

\* Every variable keeps its type, for any plans and demands: the charge stays
\* within 0 and 100 %, and AUTO Loads get at most the budget less its reserve
\* (updateStateOfCharge, updatePowerBudget).
THEOREM TypeCorrect == Spec => []TypeOK
<1>1. Inv => TypeOK
    BY DEF Inv
<1> QED
    BY <1>1, Inductive, PTL

\* A valid reading comes from the selected input alone, however many tasks
\* switch the input and set the sensor up (handleSimulationCommand, initialize).
THEOREM ReadingIsTrue == Spec => []ReadingIsOfSelectedInput
<1>1. Inv => ReadingIsOfSelectedInput
    BY DEF Inv, InputHolds
<1> QED
    BY <1>1, Inductive, PTL

\* No wait of the optimization task outlasts the interval that was set last,
\* for any intervals (saveOptimizerIntervalSeconds).
THEOREM IntervalHolds == Spec => []IntervalInForce
<1>1. Inv => IntervalInForce
    BY DEF Inv
<1> QED
    BY <1>1, Inductive, PTL

\* The countdown of a required runtime grows by no more than SNTP sets the clock
\* back while the Central runs, for any plans and however time, corrections and
\* cycles follow one another (computeRemainingRequiredRuntimeHours).
THEOREM CountdownHoldsThroughout == Spec => CountdownFollowsClock
<1>1. Inv /\ [Next]_vars => [CountdownStep]_vars
    BY StepKeepsInv
<1>2. Spec => [][CountdownStep]_vars
    BY <1>1, Inductive, PTL DEF Spec
<1> QED
    BY <1>2 DEF CountdownFollowsClock, CountdownStep
=============================================================================
