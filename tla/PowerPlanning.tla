---------------------------- MODULE PowerPlanning ----------------------------
(***************************************************************************)
(* What the Central may give to its AUTO Loads: the stored power plan and  *)
(* battery setup (CentralConfigurationStore), the battery monitor          *)
(* (PowerManager) with its two inputs, the INA219 and the simulation, the  *)
(* countdown of the required runtime, and the budget that an optimization  *)
(* cycle computes from them.                                               *)
(*                                                                         *)
(* Four tasks act on this state under stateMutex: the optimization task,   *)
(* the sensor task, the MQTT client and the console.  Two commands take    *)
(* the mutex twice, and the others run in between.  A command that is      *)
(* refused, or finds the mutex busy, changes nothing and is not a step.    *)
(*                                                                         *)
(* The state of charge is a number of equal levels, power and energy are   *)
(* whole units (a quotient is rounded down), time is counted in units of   *)
(* the shortest interval between two cycles, and a filtered measurement is *)
(* the set of the inputs it averages.                                      *)
(***************************************************************************)
EXTENDS Integers, FiniteSets

CONSTANTS
    Callers,        \* the tasks that take commands: MQTT client and console
    PlanSettings,   \* the power plans that are asked for, valid or not
    LongestRuntime, \* the longest runtime of a plan
    MaxCharge,      \* the charge of a full battery
    EnergyPerLevel, \* its energy per level of charge
    StartingCharges, \* the charges that a battery setup gives, valid or not
    FixedDemands,   \* what the FIXED_ON Loads may demand
    PersistPeriod,  \* readings between two writes of the charge (60)
    StoredAtFirst,  \* the configurations the flash may start with
    DefaultInterval, \* the longest time between two cycles, as built
    LongestInterval, \* and the longest that may be set
    MaxCommands,    \* bound on commands and on later synchronisations
    MaxFaults,      \* bound on failed writes and on stateMutex timeouts
    MaxRestarts     \* bound on restarts

NoPlan == [configured |-> FALSE, P_budget |-> 0, P_reserve |-> 0,
           minimum |-> 0, runtime |-> 0]

ASSUME PowerAssumption ==
    /\ MaxCharge \in Nat \ {0} /\ EnergyPerLevel \in Nat \ {0}
    /\ StartingCharges \subseteq Int
    /\ LongestInterval \in Nat /\ DefaultInterval \in 1 .. LongestInterval
    /\ FixedDemands \subseteq Nat /\ PersistPeriod \in Nat \ {0}
    /\ MaxCommands \in Nat /\ MaxFaults \in Nat /\ MaxRestarts \in Nat
    /\ LongestRuntime \in Nat
    /\ \A p \in PlanSettings :
          /\ p.configured /\ p.runtime \in 0 .. LongestRuntime
          /\ p.P_budget \in Int /\ p.P_reserve \in Int /\ p.minimum \in Int

VARIABLES
    configuration,  \* CentralConfigurationStore::configuration_
    flash,          \* what NVS holds of it, of the charge and of the interval
    monitor,        \* batteryMonitor
    reading,        \* latestBatteryMeasurements and batteryReadingValid
    clock,          \* the time provider, the reference of the runtime and the
                    \* time since; how far it was set back since the last cycle
    snapshot,       \* latestPlanningSnapshot
    trigger,        \* optimizationTriggerSemaphore
    interval,       \* optimizerIntervalMilliseconds
    due,            \* the time until the optimization task wakes up by itself
    caller,         \* what the second half of a caller's command will do
    commands, faults, restarts

timing == <<trigger, interval, due>>
vars == <<configuration, flash, monitor, reading, clock, snapshot, timing,
          caller, commands, faults, restarts>>

Charge == 0 .. MaxCharge
NotStored == -1
Inputs == {"HARDWARE", "SIMULATED"}
Runtimes == {0} \cup {p.runtime : p \in PlanSettings}
NotTaken == -1
AtLeastZero(x) == IF x > 0 THEN x ELSE 0
AtMost(x, limit) == IF x < limit THEN x ELSE limit

(***************************************************************************)
(* The checks of the settings, and the settings in memory.                 *)
(***************************************************************************)

isValidPowerPlanning(p) ==
    p.configured =>
        /\ p.P_budget > 0 /\ p.P_reserve \in 0 .. p.P_budget
        /\ p.minimum \in Charge /\ p.runtime >= 0

isValidBatterySensor(c) == c.metadata => c.initial \in Charge

Ranges == {"USABLE", "TOO_LARGE"}

Configurations ==
    [ina219 : {"NONE"} \cup Ranges, metadata : BOOLEAN, initial : Charge,
     plan : {p \in PlanSettings : isValidPowerPlanning(p)} \cup {NoPlan}]

\* The flash holds what was checked before it was written.
ASSUME StoredAssumption == StoredAtFirst \subseteq Configurations

setPowerPlanning(plan) == [configuration EXCEPT !.plan = plan]

setBatterySensor(ina219, metadata, initial) ==
    [configuration EXCEPT !.ina219 = ina219, !.metadata = metadata, !.initial = initial]

isValidOptimizerInterval(time) == time \in 1 .. LongestInterval

\* loadOptimizerIntervalConfiguration().
LoadedInterval ==
    IF isValidOptimizerInterval(flash.interval) THEN flash.interval ELSE DefaultInterval

(***************************************************************************)
(* The battery monitor.                                                    *)
(***************************************************************************)

\* The PowerManager of a Central that has just started.  capacity says
\* whether batteryConfiguration_ holds the capacity and the voltage.
NewMonitor ==
    [simulating |-> FALSE, initialized |-> FALSE, minimum |-> 0, capacity |-> FALSE,
     charge |-> 0, chargeSource |-> "UNKNOWN", filtered |-> {},
     simulatedInput |-> FALSE, remaining |-> 0, sincePersist |-> 0]

isStateOfChargeValid(m) == m.chargeSource # "UNKNOWN"

\* The settings that PowerManager::initialize() accepts: the range of the
\* sensor is looked at only when it is the input.
Accepted(m, c) == m.simulating \/ c.ina219 = "USABLE"

\* Mutant of Initialized: the settings are taken over only when the sensor answers.
InitializedWhenFound(m, c, found) ==
    IF m.simulating \/ found
    THEN [m EXCEPT !.minimum = c.plan.minimum, !.capacity = c.metadata, !.filtered = {},
                   !.initialized = TRUE]
    ELSE m

\* initialize(): the settings are taken over before the sensor is probed.
Initialized(m, c, found) ==
    [m EXCEPT !.minimum = c.plan.minimum, !.capacity = c.metadata, !.filtered = {},
              !.initialized = @ \/ m.simulating \/ found]

loadPersistedStateOfCharge == flash.charge \in Charge

\* initializeStateOfCharge().
ChargeInitialized(m, c, restore) ==
    IF restore /\ loadPersistedStateOfCharge
    THEN [m EXCEPT !.charge = flash.charge, !.chargeSource = "PERSISTED"]
    ELSE [m EXCEPT !.charge = c.initial, !.chargeSource = "INITIAL"]

\* applyBatteryConfiguration(): the monitor it leaves, and its result.
Applied(m, c, restore, found) ==
    IF ~Accepted(m, c) THEN m
    ELSE LET n == Initialized(m, c, found)
         IN  IF (m.simulating \/ found) /\ c.metadata
             THEN ChargeInitialized(n, c, restore) ELSE n

AppliedOk(m, c, found) == Accepted(m, c) /\ (m.simulating \/ found)

\* Mutant of SwitchedTo: the moving average goes on over a change of the input.
SwitchedKeepingAverage(m, enabled) ==
    [m EXCEPT !.simulating = enabled, !.initialized = enabled]

\* enableSimulation(): the hardware has to be initialized again afterwards.
SwitchedTo(m, enabled) ==
    [m EXCEPT !.simulating = enabled, !.initialized = enabled, !.filtered = {}]

readHardwareMeasurements(answers) == answers

readSimulatedMeasurements(m) == m.simulatedInput

setSimulatedMeasurements(m) == [m EXCEPT !.simulatedInput = TRUE]

setSimulatedStateOfChargePercent(m, charge) ==
    [m EXCEPT !.charge = charge, !.chargeSource = "SIMULATED"]

\* updateMeasurements() finds a measurement of the selected input.
Readable(m, answers) ==
    /\ m.initialized
    /\ IF m.simulating THEN readSimulatedMeasurements(m) ELSE readHardwareMeasurements(answers)

\* updateMeasurements() with a measurement of the selected input: the
\* moving average starts anew when there is none to continue.
Measured(m) ==
    [m EXCEPT !.filtered = @ \cup {IF m.simulating THEN "SIMULATED" ELSE "HARDWARE"}]

\* Mutant of Counted: the charge is not clamped.
CountedUnclamped(m, change) ==
    IF isStateOfChargeValid(m) /\ m.capacity
    THEN [m EXCEPT !.charge = @ + change, !.chargeSource = "COULOMB_COUNTING"]
    ELSE m

\* updateStateOfCharge(), when the current has moved the charge by "change".
Counted(m, change) ==
    IF isStateOfChargeValid(m) /\ m.capacity
    THEN [m EXCEPT !.charge = AtMost(AtLeastZero(@ + change), MaxCharge),
                   !.chargeSource = "COULOMB_COUNTING"]
    ELSE m

(***************************************************************************)
(* The budget of a cycle.                                                  *)
(***************************************************************************)

\* Mutant of Referenced: every cycle takes the reference.
ReferencedAnew(c) ==
    IF c.plan.runtime > 0 /\ clock.valid
    THEN [clock EXCEPT !.reference = c.plan.runtime, !.since = 0]
    ELSE clock

\* computeRemainingRequiredRuntimeHours(): the reference is taken by the
\* first cycle that sees a runtime, and by the first that sees another one.
Referenced(c) ==
    IF c.plan.runtime > 0 /\ clock.valid /\ clock.reference # c.plan.runtime
    THEN [clock EXCEPT !.reference = c.plan.runtime, !.since = 0]
    ELSE clock

\* Mutant of RemainingHours: the whole runtime is demanded again once it is over.
RemainingHoursAgain(c) ==
    IF c.plan.runtime > 0 /\ clock.valid /\ Referenced(c).since < c.plan.runtime
    THEN c.plan.runtime - Referenced(c).since
    ELSE c.plan.runtime

RemainingHours(c) ==
    IF c.plan.runtime > 0 /\ clock.valid
    THEN AtLeastZero(c.plan.runtime - Referenced(c).since)
    ELSE c.plan.runtime

\* The conditions of the cycle before PowerManager is asked.
InputsReady(m, c) ==
    /\ c.plan.configured
    /\ c.plan.runtime > 0 => c.metadata /\ isStateOfChargeValid(m)

\* setPowerBudgetWatts(), setPowerReserveWatts() and setFixedPowerWatts().
BudgetOf(p, P_fixed) ==
    [P_budget |-> p.P_budget, P_reserve |-> p.P_reserve, P_fixed |-> P_fixed]

setRemainingRequiredRuntimeHours(m, time) == [m EXCEPT !.remaining = time]

\* The early returns of updatePowerBudget().
BudgetComputable(m, b) ==
    /\ b.P_budget > 0 /\ b.P_reserve \in 0 .. b.P_budget
    /\ (m.minimum > 0 \/ m.remaining > 0) => isStateOfChargeValid(m)
    /\ m.remaining > 0 => m.capacity

RuntimeAllowance(m) ==
    (EnergyPerLevel * AtLeastZero(m.charge - m.minimum)) \div m.remaining

\* planningAllowanceWatts.
Allowance(m, b) ==
    LET afterReserve == AtLeastZero(b.P_budget - b.P_reserve)
    IN  IF isStateOfChargeValid(m) /\ m.charge <= m.minimum THEN 0
        ELSE IF m.remaining > 0 THEN AtMost(RuntimeAllowance(m), afterReserve)
        ELSE afterReserve

Available(m, b) == AtLeastZero(Allowance(m, b) - b.P_fixed)

\* requiredRuntimeAchievable.
Achievable(m, b) ==
    m.remaining > 0 =>
        /\ b.P_fixed <= AtMost(RuntimeAllowance(m), b.P_budget - b.P_reserve)
        /\ m.charge <= m.minimum => b.P_fixed = 0

NoSnapshot == [valid |-> FALSE, P_auto_available |-> 0, achievable |-> TRUE, runtime |-> 0]

(***************************************************************************)
(* The actions.                                                            *)
(***************************************************************************)

NewClock == [valid |-> FALSE, reference |-> NotTaken, since |-> 0, back |-> 0]

NoConfiguration == [ina219 |-> "NONE", metadata |-> FALSE, initial |-> 0, plan |-> NoPlan]

\* The Central has started, and its flash holds no charge yet:
\* loadPersisted(), then applyPersistedBatterySensorConfiguration().
Init ==
    /\ configuration \in StoredAtFirst
    /\ flash = [configuration |-> configuration, charge |-> NotStored,
                interval |-> NotStored]
    /\ \E found \in BOOLEAN : monitor = Applied(NewMonitor, configuration, TRUE, found)
    /\ reading = [valid |-> FALSE, from |-> {}]
    /\ clock = NewClock
    /\ snapshot = NoSnapshot
    /\ trigger = FALSE /\ interval = LoadedInterval /\ due = 0
    /\ caller = [t \in Callers |-> "idle"]
    /\ commands = 0 /\ faults = 0 /\ restarts = 0

\* The write of the configuration: setX() has changed it in memory before,
\* and a write that fails leaves that change there.
Store(c, stored) ==
    /\ configuration' = c
    /\ IF stored
       THEN flash' = [flash EXCEPT !.configuration = c] /\ UNCHANGED faults
       ELSE faults < MaxFaults /\ faults' = faults + 1 /\ UNCHANGED flash

Command(t) ==
    /\ caller[t] = "idle"
    /\ commands < MaxCommands /\ commands' = commands + 1

\* applyBatteryConfiguration() and the reset of the reading, and the start
\* of a cycle, which a stored setup brings about.
Apply(c, stored, restore) ==
    IF stored
    THEN /\ \E found \in BOOLEAN : monitor' = Applied(monitor, c, restore, found)
         /\ reading' = [reading EXCEPT !.valid = FALSE]
         /\ trigger' = TRUE
    ELSE UNCHANGED <<monitor, reading, trigger>>

\* consoleConfigureIna219(): the sensor is not touched while simulating.
consoleConfigureIna219(t, range) ==
    /\ Command(t)
    /\ \E stored \in BOOLEAN :
          LET c == setBatterySensor(range, configuration.metadata, configuration.initial)
          IN  /\ isValidBatterySensor(c)
              /\ Store(c, stored)
              /\ IF monitor.simulating
                 THEN trigger' = (trigger \/ stored) /\ UNCHANGED <<monitor, reading>>
                 ELSE Apply(c, stored, TRUE)
    /\ UNCHANGED <<clock, snapshot, interval, due, caller, restarts>>

\* consoleConfigureBatterySetup(): a battery that was set up before keeps
\* the charge of the flash, a new one starts with the charge given.
consoleConfigureBatterySetup(t, initial) ==
    /\ Command(t)
    /\ \E stored \in BOOLEAN :
          LET c == setBatterySensor(configuration.ina219, TRUE, initial)
          IN  /\ isValidBatterySensor(c)
              /\ Store(c, stored)
              /\ IF monitor.simulating \/ c.ina219 # "NONE"
                 THEN Apply(c, stored, configuration.metadata)
                 ELSE trigger' = (trigger \/ stored) /\ UNCHANGED <<monitor, reading>>
    /\ UNCHANGED <<clock, snapshot, interval, due, caller, restarts>>

\* CONFIGURE_BATTERY_SENSOR: both at once, applied in either mode.
configureBatterySensor(t, range, initial) ==
    /\ Command(t)
    /\ \E stored \in BOOLEAN :
          LET c == setBatterySensor(range, TRUE, initial)
          IN  /\ isValidBatterySensor(c)
              /\ Store(c, stored)
              /\ Apply(c, stored, configuration.metadata)
    /\ UNCHANGED <<clock, snapshot, interval, due, caller, restarts>>

\* CONFIGURE_POWER_PLANNING.  Its caller's second half follows when the plan
\* was accepted.
configurePowerPlanning(t, plan) ==
    /\ Command(t)
    /\ isValidPowerPlanning(plan)
    /\ \E stored \in BOOLEAN :
          LET c == setPowerPlanning(plan)
          IN  /\ Store(c, stored)
              /\ IF configuration.ina219 # "NONE" \/ configuration.metadata
                 THEN Apply(c, stored, TRUE)
                 ELSE trigger' = (trigger \/ stored) /\ UNCHANGED <<monitor, reading>>
              /\ caller' = [caller EXCEPT ![t] = IF stored THEN "check" ELSE "idle"]
    /\ UNCHANGED <<clock, snapshot, interval, due, restarts>>

\* consoleConfigurePowerPlanningValidated(), for both kinds of callers: what
\* it looks at before it takes the mutex stays true once it is true.
consoleConfigurePowerPlanning(t, plan) ==
    /\ plan.runtime > 0 => configuration.metadata /\ isStateOfChargeValid(monitor)
    /\ configurePowerPlanning(t, plan)

\* Its check, without the mutex, whether the monitor simulates.
checkSimulating(t) ==
    /\ caller[t] = "check"
    /\ caller' = [caller EXCEPT ![t] = IF monitor.simulating THEN "apply" ELSE "idle"]
    /\ UNCHANGED <<configuration, flash, monitor, reading, clock, snapshot,
                   timing, commands, faults, restarts>>

\* The second half of both commands: the configuration is applied again.
applyAgain(t) ==
    /\ caller[t] = "apply"
    /\ caller' = [caller EXCEPT ![t] = "idle"]
    /\ \/ /\ \E found \in BOOLEAN : monitor' = Applied(monitor, configuration, TRUE, found)
          /\ UNCHANGED faults
       \/ \* stateMutex is busy for 500 ms
          /\ faults < MaxFaults /\ faults' = faults + 1
          /\ UNCHANGED monitor
    /\ UNCHANGED <<configuration, flash, reading, clock, snapshot, timing,
                   commands, restarts>>

\* handleSimulationCommand(), ENABLE, and what the caller does next.
enableSimulation(t, next) ==
    /\ Command(t)
    /\ LET m == SwitchedTo(monitor, TRUE)
       IN  monitor' = IF configuration.metadata
                      THEN Applied(m, configuration, TRUE, FALSE) ELSE m
    /\ reading' = [reading EXCEPT !.valid = FALSE]
    /\ trigger' = TRUE
    /\ caller' = [caller EXCEPT ![t] = next]
    /\ UNCHANGED <<configuration, flash, clock, snapshot, interval, due, faults, restarts>>

\* handleSimulationCommand(), DISABLE: the simulation ends in any case.
disableSimulation(t) ==
    /\ Command(t)
    /\ LET m == SwitchedTo(monitor, FALSE)
       IN  \E found \in BOOLEAN :
              /\ monitor' = Applied(m, configuration, TRUE, found)
              /\ trigger' = (trigger \/ AppliedOk(m, configuration, found))
    /\ reading' = [reading EXCEPT !.valid = FALSE]
    /\ UNCHANGED <<configuration, flash, clock, snapshot, interval, due, caller,
                   faults, restarts>>

\* handleSimulationCommand(), SET_VALUES, with the values given.
setSimulatedValues(t, electrical, charge) ==
    /\ Command(t)
    /\ monitor.simulating
    /\ electrical \/ charge # NotStored
    /\ LET m == IF charge = NotStored THEN monitor
                ELSE setSimulatedStateOfChargePercent(monitor, charge)
           n == Measured(setSimulatedMeasurements(m))
       IN  IF electrical
           THEN monitor' = n /\ reading' = [valid |-> TRUE, from |-> n.filtered]
           ELSE monitor' = m /\ UNCHANGED reading
    /\ trigger' = TRUE
    /\ UNCHANGED <<configuration, flash, clock, snapshot, interval, due, caller,
                   faults, restarts>>

\* persistStateOfCharge() and its result, on which nothing depends.
persistStateOfCharge(m, stored) ==
    IF ~isStateOfChargeValid(m)
    THEN stored /\ UNCHANGED <<flash, faults>>
    ELSE IF stored
    THEN flash' = [flash EXCEPT !.charge = m.charge] /\ UNCHANGED faults
    ELSE faults < MaxFaults /\ faults' = faults + 1 /\ UNCHANGED flash

\* One round of sensorAcquisitionTask().  The charge is written after every
\* PersistPeriod readings, whether or not the write succeeds.
sensorAcquisition ==
    \E answers \in BOOLEAN :
      \/ /\ Readable(monitor, answers)
         /\ \E change \in {-1, 0, 1}, stored \in BOOLEAN :
               LET m == Counted(Measured(monitor), change)
                   written == monitor.sincePersist + 1 >= PersistPeriod
               IN  /\ monitor' = [m EXCEPT !.sincePersist = IF written THEN 0 ELSE @ + 1]
                   /\ reading' = [valid |-> TRUE, from |-> m.filtered]
                   /\ IF written THEN persistStateOfCharge(m, stored)
                      ELSE stored /\ UNCHANGED <<flash, faults>>
         /\ UNCHANGED <<configuration, clock, snapshot, timing, caller, commands, restarts>>
      \/ \* there is nothing to read, or the INA219 does not answer
         /\ ~Readable(monitor, answers)
         /\ reading.valid
         /\ reading' = [reading EXCEPT !.valid = FALSE]
         /\ UNCHANGED <<configuration, flash, monitor, clock, snapshot, timing,
                        caller, commands, faults, restarts>>

\* The planning part of runOptimizationCycle().
Plan ==
    LET c == configuration
        ready == InputsReady(monitor, c)
        m == IF ready THEN setRemainingRequiredRuntimeHours(monitor, RemainingHours(c))
             ELSE monitor
    IN  \E P_fixed \in FixedDemands :
          LET b == BudgetOf(c.plan, P_fixed)
          IN  /\ clock' = [Referenced(c) EXCEPT !.back = 0]
              /\ monitor' = m
              /\ snapshot' =
                    IF ready /\ BudgetComputable(m, b)
                    THEN [valid |-> TRUE,
                          P_auto_available |-> Available(m, b),
                          achievable |-> Achievable(m, b),
                          runtime |-> c.plan.runtime]
                    ELSE NoSnapshot

\* A cycle of the optimization task, woken by the semaphore or the interval,
\* and its next wait, for the interval as it is then.
optimizationTask ==
    /\ trigger \/ due = 0
    /\ Plan
    /\ trigger' = FALSE
    /\ due' = interval
    /\ UNCHANGED <<configuration, flash, reading, interval, caller, commands, faults, restarts>>

\* A cycle that the console runs itself.
consoleOptimize(t) ==
    /\ Command(t)
    /\ Plan
    /\ UNCHANGED <<configuration, flash, reading, timing, caller, faults, restarts>>

\* Mutant of saveOptimizerInterval: the task sleeps on for the old interval.
saveOptimizerIntervalOnly(time) ==
    /\ isValidOptimizerInterval(time)
    /\ flash' = [flash EXCEPT !.interval = time]
    /\ interval' = time
    /\ UNCHANGED trigger

\* saveOptimizerIntervalSeconds() and the start of a cycle: the memory
\* follows only a write that has succeeded.
saveOptimizerInterval(time) ==
    /\ isValidOptimizerInterval(time)
    /\ flash' = [flash EXCEPT !.interval = time]
    /\ interval' = time
    /\ trigger' = TRUE

\* handleSystemCommand(), as far as it is about cycles.
requestOptimizationCycle(t) ==
    /\ Command(t)
    /\ trigger' = TRUE
    /\ UNCHANGED <<configuration, flash, monitor, reading, clock, snapshot, interval, due,
                   caller, faults, restarts>>

setOptimizerInterval(t, time) ==
    /\ Command(t)
    /\ saveOptimizerInterval(time)
    /\ UNCHANGED <<configuration, monitor, reading, clock, snapshot, due,
                   caller, faults, restarts>>

(***************************************************************************)
(* The commands of the console, with the checks that it makes itself, and  *)
(* those of the MQTT client.                                               *)
(***************************************************************************)

ChargeGiven == Charge \cup {NotStored}

battery(t) ==
    \/ \E initial \in StartingCharges :
          initial \in Charge /\ consoleConfigureBatterySetup(t, initial)
    \/ \E plan \in PlanSettings : consoleConfigurePowerPlanning(t, plan)

\* consoleSensorModeConfigured(): it applies the battery again afterwards.
consoleSensorMode(t, simulated) ==
    IF simulated THEN enableSimulation(t, "apply") ELSE disableSimulation(t)

sensor(t) ==
    \/ \E simulated \in BOOLEAN : consoleSensorMode(t, simulated)
    \/ \E range \in Ranges : consoleConfigureIna219(t, range)
    \/ \E electrical \in BOOLEAN, charge \in ChargeGiven :
          setSimulatedValues(t, electrical, charge)

optimize(t) ==
    \/ consoleOptimize(t)
    \/ \E time \in 0 .. LongestInterval + 1 : setOptimizerInterval(t, time)

handleConfigCommand(t) ==
    \/ \E range \in Ranges, initial \in StartingCharges :
          configureBatterySensor(t, range, initial)
    \/ \E plan \in PlanSettings : consoleConfigurePowerPlanning(t, plan)

handleSimulationCommand(t) ==
    \/ enableSimulation(t, "idle")
    \/ disableSimulation(t)
    \/ \E electrical \in BOOLEAN, charge \in ChargeGiven :
          setSimulatedValues(t, electrical, charge)

handleSystemCommand(t) ==
    \/ requestOptimizationCycle(t)
    \/ \E time \in 0 .. LongestInterval + 1 : setOptimizerInterval(t, time)

\* The time has been synchronized by SNTP for the first time.  A reference that
\* had been taken with the clock of a Central that has just started would lie
\* years back.
FirstSynchronization ==
    /\ ~clock.valid
    /\ clock' = [clock EXCEPT !.valid = TRUE,
                              !.since = IF clock.reference = NotTaken THEN 0
                                        ELSE LongestRuntime]
    /\ UNCHANGED commands

\* SNTP asks again and again, and sets the clock to what it is told, ahead or
\* back: the time since the reference, which may come to lie in the future,
\* is computed from the clock as it is.
LaterSynchronization ==
    /\ clock.valid /\ clock.reference # NotTaken
    /\ commands < MaxCommands /\ commands' = commands + 1
    /\ \/ clock' = [clock EXCEPT !.since = @ - 1, !.back = @ + 1]
       \/ clock' = [clock EXCEPT !.since = AtMost(@ + 1, LongestRuntime)]

handleTimeSynchronizationEvent ==
    /\ FirstSynchronization \/ LaterSynchronization
    /\ UNCHANGED <<configuration, flash, monitor, reading, snapshot, timing,
                   caller, faults, restarts>>

\* Time goes by, counted up to the longest runtime, while the optimization
\* task waits: to wake up takes it no time.
TimePasses ==
    /\ ~trigger
    /\ due > 0 /\ due' = due - 1
    /\ clock' = [clock EXCEPT !.since = IF clock.reference = NotTaken THEN 0
                                        ELSE AtMost(@ + 1, LongestRuntime)]
    /\ UNCHANGED <<configuration, flash, monitor, reading, snapshot, trigger, interval,
                   caller, commands, faults, restarts>>

\* The Central restarts: loadPersisted() and
\* loadOptimizerIntervalConfiguration(), then
\* applyPersistedBatterySensorConfiguration(), before any task runs.
Restart ==
    /\ restarts < MaxRestarts /\ restarts' = restarts + 1
    /\ configuration' = flash.configuration
    /\ \E found \in BOOLEAN :
          monitor' = Applied(NewMonitor, flash.configuration, TRUE, found)
    /\ reading' = [valid |-> FALSE, from |-> {}]
    /\ clock' = NewClock
    /\ snapshot' = NoSnapshot
    /\ trigger' = FALSE /\ interval' = LoadedInterval /\ due' = 0
    /\ caller' = [t \in Callers |-> "idle"]
    /\ UNCHANGED <<flash, commands, faults>>

Next ==
    \/ \E t \in Callers :
          \/ battery(t)
          \/ sensor(t)
          \/ optimize(t)
          \/ handleConfigCommand(t)
          \/ handleSimulationCommand(t)
          \/ handleSystemCommand(t)
          \/ checkSimulating(t)
          \/ applyAgain(t)
    \/ sensorAcquisition
    \/ optimizationTask
    \/ handleTimeSynchronizationEvent
    \/ TimePasses
    \/ Restart

Spec == Init /\ [][Next]_vars

\* The tasks keep running: the optimization task wakes up by its interval,
\* a caller ends its command, and time goes on.
FairSpec ==
    /\ Spec
    /\ WF_vars(optimizationTask)
    /\ WF_vars(TimePasses)
    /\ \A t \in Callers : WF_vars(checkSimulating(t) \/ applyAgain(t))

(***************************************************************************)
(* The properties.                                                         *)
(***************************************************************************)

Monitors ==
    [simulating : BOOLEAN, initialized : BOOLEAN, minimum : Charge, capacity : BOOLEAN,
     charge : Charge,
     chargeSource : {"UNKNOWN", "INITIAL", "PERSISTED", "COULOMB_COUNTING", "SIMULATED"},
     filtered : SUBSET Inputs, simulatedInput : BOOLEAN,
     remaining : 0 .. LongestRuntime + MaxCommands, sincePersist : 0 .. PersistPeriod - 1]

\* Types; the charge stays within 0 and 100 % however the current is
\* counted, and what AUTO Loads may have within the budget less its reserve.
TypeOK ==
    /\ configuration \in Configurations
    /\ flash \in [configuration : Configurations, charge : Charge \cup {NotStored},
                 interval : 1 .. LongestInterval \cup {NotStored}]
    /\ monitor \in Monitors
    /\ reading \in [valid : BOOLEAN, from : SUBSET Inputs]
    /\ clock \in [valid : BOOLEAN, reference : Runtimes \cup {NotTaken},
                  since : -MaxCommands .. LongestRuntime, back : 0 .. MaxCommands]
    /\ -clock.since <= commands /\ clock.back <= commands
    /\ snapshot \in [valid : BOOLEAN, P_auto_available : Nat, achievable : BOOLEAN,
                     runtime : Runtimes]
    /\ \E p \in PlanSettings \cup {NoPlan} : snapshot.P_auto_available <= p.P_budget - p.P_reserve
    /\ trigger \in BOOLEAN /\ interval \in 1 .. LongestInterval
    /\ due \in 0 .. LongestInterval
    /\ caller \in [Callers -> {"idle", "check", "apply"}]
    /\ commands \in 0 .. MaxCommands /\ faults \in 0 .. MaxFaults
    /\ restarts \in 0 .. MaxRestarts

\* A reading that is shown and published as valid comes from the selected
\* input alone: none of the other input is averaged into it, in whatever
\* order commands switch the input, set the sensor up and give values
\* while the sensor task reads (handleSimulationCommand(), initialize()).
ReadingIsOfSelectedInput ==
    reading.valid => reading.from = {IF monitor.simulating THEN "SIMULATED" ELSE "HARDWARE"}

BatteryInUse == configuration.metadata /\ Accepted(monitor, configuration)

ReserveReached ==
    /\ isStateOfChargeValid(monitor)
    /\ monitor.charge <= configuration.plan.minimum

\* The reserve of the battery is kept from the AUTO Loads: when the charge
\* has come down to the minimum of the plan, the battery is set up and its
\* input usable, and nothing has failed, a cycle soon gives them nothing,
\* although a cycle may run between the two halves of a command with the
\* minimum of the old plan (updatePowerBudget(), applyBatteryConfiguration()).
ReserveIsKept ==
    (BatteryInUse /\ ReserveReached /\ faults = 0)
        ~> (snapshot.P_auto_available = 0
            \/ ~(BatteryInUse /\ ReserveReached /\ faults = 0))

\* While the required runtime stays what it is and the Central runs, no
\* cycle demands the battery to last longer than the one before did, but for
\* what the clock was set back in between: also when it becomes valid in
\* between, the same runtime is given again or the horizon has been reached,
\* the countdown does not start again
\* (computeRemainingRequiredRuntimeHours(), handleTimeSynchronizationEvent()).
CountdownFollowsClock ==
    [][(snapshot.valid /\ snapshot'.valid /\ snapshot'.runtime = snapshot.runtime
            /\ restarts' = restarts)
         => monitor'.remaining <= monitor.remaining + clock.back]_vars

\* A runtime that stays asked for is reached, and the limit it puts on the
\* AUTO Loads ends for good, once the clock is valid and not moved any more
\* (lib/BatteryManager/README.md: "When the requested runtime horizon is
\* reached, the runtime constraint is fulfilled and is disabled").
HorizonIsReached ==
    <>[](configuration.plan.runtime > 0 /\ clock.valid /\ InputsReady(monitor, configuration))
        => <>[](monitor.remaining = 0)

\* The time between two cycles is never longer than the interval that was
\* set last, also when the task is already waiting for a longer one
\* (handleSystemCommand(), optimizationTask()).
IntervalInForce == trigger \/ due <= interval
=============================================================================
