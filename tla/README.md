# Kilowatts: a TLA+ model of the control system

Kilowatts is firmware for two kinds of ESP32: one **Central** and several
**Smart Nodes**. The Central decides which electrical Loads are on, so that the
automatic ones of the highest priority run within what the battery allows; a
Smart Node drives relays. They talk over ESP-NOW, on routes of one or more hops;
the Central also joins the household's Wi-Fi and an MQTT broker, through which a
frontend commands it. Line numbers are those of the repository; `central/` and
`smart/` stand for `src/central/namespace.h` and `src/smart/namespace.h`, which
hold the two applications.

## 1. Inventory

### Tasks, and what they share

| Where | Task | What it does |
|---|---|---|
| Central | `optimizationTask` | runs `runOptimizationCycle` when triggered or every planning interval |
| Central | `sensorAcquisitionTask` | reads the battery, counts its charge, writes it to flash |
| Central | console task | the same cycle for `dashboard` and `optimize`; configuration and load commands |
| Central | MQTT client task | configuration and load commands; the client's own protocol |
| Central | `espNowCommunicationTask` | takes packets: reports, acknowledgements |
| Central | network watchdog | starts the client, opens and closes the portal |
| Central | event loop, timers | Wi-Fi events, reconnection, restart |
| all Nodes | ESP-NOW service task | discovery, handshakes |
| Smart Node | `espNowCommunicationTask` | takes commands, sends identity and load reports, searches the Central |
| Smart Node | `relayControlTask` | carries queued relay commands out |
| Smart Node | console task | configures, removes and updates Loads |

The Central's state is guarded by `stateMutex`; every user takes it with a
timeout (100 to 1000 ms) and goes on without when it stays busy. A Smart Node
has `nodeMutex` for its Loads and `identityMutex` for its identity. Neither the
Wi-Fi manager nor the start of the MQTT client has a mutex of its own.

### Components

| Component | State | Operations | What makes it correct | Modelled in |
|---|---|---|---|---|
| Optimization cycle | modes, plan | plan under the mutex; dispatch without it | the plan fits the allowance; it is dispatched OFF first; each wait ends | `RelayDispatch` |
| `RelayCommandDispatcher` | `pendingCommands_`, last completion | `beginCommand`, `completeCommand`, `isPending`, `wasCommandSuccessful` | success is only reported for the very command; no entry is left behind | `RelayDispatch` |
| Relay tasks of a Smart Node | `relayCommandQueue`, relays | queue, execute, acknowledge, restart | relays come to agree with the modes | `RelayDispatch` |
| Best-First Search, schedules, clock | open and closed combinations, best; windows, time source | `runSearch`, `isScheduleActive`, SNTP events | feasible, best, each combination once; windows over midnight | `LoadSelection`, `LoadChoice`, `BestFirstSearch`, `ScheduledSearch` |
| Battery, plan, budget | stored configuration, charge, input, countdown, interval | configure, simulate, read, plan a cycle | one input per reading; the reserve is kept; the countdown ends | `PowerPlanning` |
| Commissioning | a record per Node at the Central; the Node's identity; both in flash | request, rename, decommission, result, restart, reset | the two sides agree on state and name; an attempt ends | `Commissioning` |
| Node reports, `LoadConfigurationStore` | the Node's Loads; the Central's registry, page assembly, chosen settings | report, merge, prune, configure, remove, set, lay over | only removed Loads are pruned; the registry converges; chosen settings stand and survive | `LoadRegistry` |
| `NodeLoadHardwareStore`, `RelayController` | configured pins, flash, GPIO | configure, remove, clear, apply at boot | list, flash, pins and Loads agree after a failure | `LoadHardwareStore` |
| `EspNowCommunication`, channel search | upstream Node, peers, queues, channel | discover, handshake, send, forward, sweep | routes have no cycles; a Node finds the Central | `EspNowRouting` |
| Wi-Fi manager, portal, stores | station, channel, portal, credentials | scan, connect, back off, set up | one channel for both radios; the station connects; the portal opens | `Connectivity` |
| MQTT: start of the client | client, `mqttStarted` | start, stop, configure the broker | what runs is what is stored | `Connectivity` |
| MQTT: a session | outbox, subscriptions, retained status | publish, handle, repeat, reconnect | a command runs once; answers in order and not lost | `MqttSession` |
| Topology JSON | | build the tree | it shows the routes | `EspNowRouting` |
| Other JSON, console text, chip information | | formatting | | not modelled |

`PROJECT.json` lists all of them with their sources, and the hazards, each at
the line where it bites.

### The hard behaviours

- A cycle plans under `stateMutex` and commands relays for many seconds without
  it. Modes, battery and Nodes change meanwhile, a second cycle may run on the
  console task, and acknowledgements arrive on a third task.
- All waiters share one record of the last completion.
- Any packet may be lost; an acknowledgement may come after its deadline.
- Nodes and the Central restart, and counters (report sequence, command
  identifiers) restart with them.
- A load report is several packets. They are put together by sequence number.
- Commands are sent after the state they belong to was changed (commissioning)
  or before it (removal of a Load).
- A command for the plan, the sensor or the simulation takes the mutex twice.
- A Smart Node has no route of its own after a restart, while the Nodes below it
  still have theirs, through it.
- The Central has one radio; the access point chooses its channel, and ESP-NOW
  has to follow, which takes a restart.
- The MQTT client's task, the handlers it calls, and the tasks that publish
  share one lock and one outbox, over connections that break.

## 2. The modules

### `LoadSelection`, `LoadChoice`: what a good combination is

`LoadSelection` has the sums of a combination, feasibility, the order
`isBetterReturnedCombination`, and `BestCombinations`, the declarative meaning
of the search. A combination is a set; watts and priorities are naturals, so
float rounding is left out. `LoadChoice` is the abstract specification of a
search: it is called, windows open and close for a while, and it returns a
combination that fits, and a best one when no window changed.

### `BestFirstSearch`, `ScheduledSearch`: the search and its clock

One iteration of `runSearch`'s loop is the action `Expand`. The `std::stable_sort`
of the open states is modelled by its result: `IsFront` is the first of the best,
ties going to the one generated earlier. In `BestFirstSearch` windows may change
between any two iterations. `ScheduledSearch` extends it with what the firmware
reads: `CurrentTimeProvider` (not trusted, then set by SNTP, at any time) and
`isScheduleActive`, which asks for the hour and for the minute in two calls
(`ReadHour`, `ReadMinute`) while the clock goes on.

### `RelayDispatch`: plan, dispatch, execute, acknowledge

`pc[d]` follows `runOptimizationCycle` and `dispatchRelayTargetAndWait` on task
`d`:

| `pc` | Code | Actions |
|---|---|---|
| `idle` | `optimizationTask` waits | `StartCycle` |
| `plan` | inside `stateMutex`, central 945-1035 | `MakePlan` |
| `dispatch` | loop over the targets | `DispatchLocal`, `SkipTarget`, `beginCommand`, `EndCycle` |
| `send` | `communication.sendTo`, 688 | `Send` |
| `wait` | polling until the deadline, 704-719 | `SeeCompletion`, `Deadline` |
| `result` | `wasCommandSuccessful`, 711-716 | `ReadResult` |
| `giveUp` | `completeCommand(id, false)`, 693 and 721 | `GiveUp` |

`mutex` is only held across steps while a task plans; every other critical section
is one step that needs it free, or that notices the timeout. The plan uses
`BestCombinations` of `LoadSelection` where the code runs the search. The Node's
side is `Execute` and `Restart`; the ESP-NOW task's is
`handleRelayAcknowledgement`. Command identifiers are reused when nothing carries
them any more, in place of an unbounded counter. Everything that goes wrong costs
one of `MaxFaults` (`MaxFailures`), everything the outside changes one of
`MaxChanges`.

### `PowerPlanning`: what the AUTO Loads may have

`configuration` and `flash` are `CentralConfigurationStore`, `monitor` is
`PowerManager`, `reading` what the sensor task publishes, `clock` the reference
of the runtime, `snapshot` the budget of the last cycle. Each command is an
action; `checkSimulating` and `applyAgain` are the halves of commands that take
the mutex a second time. `optimizationTask` is one cycle's use of all this:
inputs, countdown, `updatePowerBudget()`. `due` is what is left of the task's
timed wait. The clock becomes valid late, and SNTP then sets it ahead or back again
(`FirstSynchronization`, `LaterSynchronization`); `clock.back` is how far back since
the last cycle. Charge is a number of levels, power and energy are whole units, and
time passes in units of the shortest planning interval: the code compares hours
as floats, and every comparison a property depends on is between such units.

### `Commissioning`: one Node's record and identity

`record`/`saved` are the Central's record in memory and flash, `node` the
Node's identity. A request changes the record under the mutex and leaves a
packet in `outbox` that a later step sends, as the code sends after releasing
the mutex. `lastId` is `nextConsoleCommandId`, which a restart of the Central sets
back while packets are still on their way; `reused` notes that a request has got the
number of one of them. Requests by MQTT carry the frontend's numbers, which are
taken to differ. Records of different MAC addresses share nothing, so one Node is
enough.

### `LoadRegistry`: paged reports and chosen settings

`report` is the report the Node is in the middle of, with a history of the pins
that had no Load at some time since it began (`missing`); `assembly` is
`PendingNodeReport`. A Load's settings are its mode and the window of its
schedule, so that the code's partial comparisons and packets
(`schedulesEqual`, a `CONFIGURE_LOAD` without an end) can be told apart.
`TakeMutex` is the Node finding `nodeMutex` busy because of its console, which
makes a page empty or the page count 1. `RequestRemove` and `MakePending` are
the two halves of `REMOVE_LOAD`. `stored`, `flash` and `unsaved` are
`LoadConfigurationStore`.

### `LoadHardwareStore`: the Loads, relays and pins of one Node

One operation at a time holds `nodeMutex`: `job` says at which step it is, which
pins it has still to remove (`todo`) and what it is to configure (`new`).
Removing, clearing, updating and rolling back share the removal steps, as the
code shares `removeRelay` and `removeLoadByRelayPin`.

| Step of `job` | Code |
|---|---|
| `off` | `setRelayState(pin, false)`: `SwitchOff` |
| `forget` | the list without the pins, `persist()`: `Forget` |
| `reset`, `erase` | `removeLoadByRelayPin`, `removeRelay`: `ResetPin`, `EraseRelay` |
| `register`, `gpio`, `init` | `applyOne` with `addRelay` and `configureGpio`: `RegisterRelay`, `ConfigureGpio`, `InitialState` |
| `store` | `push_back`, `persist()`: `Store`; it rolls back when the write fails |

`memory` and `size` are the vector `relays_` with its storage, since
`pin_control` finds a relay (`FindRelay`) and writes to it (`WriteLevel`) in two
steps and without the mutex: after an `erase` its pointer means the relay that
moved up, and after a `push_back` into new storage anything. A restart may
happen at any step; the boot is one step, since no other task exists yet.
Reading the identity at boot, and `gpio_reset_pin`, are taken to succeed.

### `EspNowRouting`: the tree network

Each Node has the queue `raw` of the service task (requests, responses,
handshakes) and the queue `app` of its application task (reports, commands).
`task[n]` is where a Smart Node's search for an Upstream Node is: idle, in a
discovery window, between channels of a sweep, or joined and not yet through
with it. A packet's audience is chosen among those in range and on the channel,
so each may lose it; a unicast tells its sender whether the next radio took it.
`registry` is the Central's next hop to each Node, from which
`findNextHopFromCentral` and the topology tree are read.

### `Connectivity`: Wi-Fi, portal and the start of the client

`station` is `WiFiManager`, `radio` the channel ESP-NOW uses, `portal` and
`flash` what their names say. The access point (`air`) is external and may move
between the scan and the association. (`steady` is a history: it has not done
so; `missed` is one that two starts of the client, or a start and a change of the
broker, met.) `starter[t]` is where each of the two
tasks is in `checkMqttStartTrigger()` and `MqttManager::begin()`: destroy,
create, start, note. A restart re-reads the flash in one step.

### `MqttSession`: one client and its broker

`client` has the library's state, link and outbox, and what `MqttManager`
believes; `task` is where the client's task is, and while it is not in its loop
it holds the API lock; `waiting[t]` is the message with which another task waits
for it. The command's handler, the acknowledgement it publishes and the PUBACK
are separate steps. The broker (external) keeps one session, the Last Will and
the retained status. Delays are nondeterministic: an item of the outbox may
expire, a retransmission may be due.

### Abstractions

Names, ratings that no property reads, and payloads are model values or left
out. There is no clock except in `ScheduledSearch` and `PowerPlanning`: a timeout
may happen when its cause is there (`Deadline` is free when the command is lost
and a fault when an answer may still come). Packets keep their order on one
route in `Commissioning` and `LoadRegistry`; acknowledgements of relay commands
do not. Short critical sections are atomic. Each module states the types of its
variables as `TypeOK`; the runs check it where it also bounds something
computed (`planner`, `power_planning`).

The components meet at narrow interfaces, and each module has its neighbours as
environment: `RelayDispatch` takes any allowance of a given set where
`PowerPlanning` computes one, any Node becoming unready where `Commissioning` and
`LoadRegistry` say which, and lost commands where `EspNowRouting` loses them;
`LoadRegistry` sends in order over a lossy route. `RelayDispatch` and
`BestFirstSearch` share `LoadSelection`, and `ScheduledSearch` composes the
search with the clock.

## 3. The runs

| Run | Module | Properties | Result |
|---|---|---|---|
| `planner` | `RelayDispatch` | `TypeOK`, `CapacityReleased`, `PlannedWithinBudget`, `RelaysConverge`, `DrawFollowsAllowance`, `PlannerKeepsPlanning` | hold |
| `tasks` | `RelayDispatch` | `SuccessMeansApplied`, `OrphansOnlyWhenBusy` | hold |
| `concurrent_cycles` | `RelayDispatch` | `CapacityReleased` | violated |
| `best_first` | `ScheduledSearch` | `ReturnedIsFeasible`, `QueuedOnce`, `BoostIsCurrent`, `ImplementsLoadChoice` | hold |
| `commissioning` | `Commissioning` | `PlannedIsCommissioned`, `SyncedNameAgrees`, `ConfiguringEndsOrFaults` | hold |
| `load_registry` | `LoadRegistry` | `ChosenSettingsStand`, `StoredSettingsSurvive`, `PrunesOnlyRemovedNormally`, `RegistryConverges` | hold |
| `hardware_store` | `LoadHardwareStore` | `LoadsAgree`, `FlashAgrees` | hold |
| `routing` | `EspNowRouting` | `TreeUntilRestart`, `UpstreamPeerOnChannel`, `CommandsStayOnPath`, `CentralFoundAgain` | hold |
| `routing_loop` | `EspNowRouting` | `NoDescendantUpstream` | violated |
| `power_planning` | `PowerPlanning` | `TypeOK`, `ReadingIsOfSelectedInput`, `IntervalInForce`, `ReserveIsKept`, `CountdownFollowsClock`, `HorizonIsReached` | hold |
| `connectivity` | `Connectivity` | `SharedChannel`, `StartedMeansClient`, `StationConnects`, `PortalOpens`, `BrokerReached` | hold |
| `mqtt_session` | `MqttSession` | `HandledOnce`, `AcceptedBeforeApplied`, `AcknowledgementsArrive`, `PresenceShown` | hold |

The bounds, and why they are enough to be interesting:

- **planner**: one Load on the Central and two on one Node, with ratings such
  that either allowance (2 W, 4 W) has more than one combination and a change of
  allowance, window or mode turns one Load off in favour of another; two faults
  (for example a lost packet and a restart) and one outside change.
  `CapacityReleased` and `PlannedWithinBudget` speak of runs without faults:
  the code has no way to release the capacity of a Node that does not answer.
  `PlannedWithinBudget` and `DrawFollowsAllowance` count the Loads of a plan and
  of the Nodes the Central hears; what a silent Node keeps energised draws beside
  them (section 6). While a cycle dispatches, its own allowance is the bound;
  `DrawFollowsAllowance` says that a later cycle follows the allowance there is.
- **tasks**: two tasks, a queue of one, two Loads on one Node, two faults: enough
  for a late acknowledgement, a dropped command and a busy mutex to meet. Load
  modes are fixed, since the two properties are about commands only.
- **best_first**: problems of three automatic Loads with ratings among 0, 1, 3 and
  priorities 1, 4 (every kind of tie), and one family of four Loads where
  the best combination may leave out the best single Load; a day of two hours of
  two minutes, with one window over midnight and one that only a reading of two
  different hours meets; two ticks or settings of the clock per search.
- **commissioning**: four requests (commission, rename, decommission, again), two
  lost packets or failed writes, a failed write of the Central, one restart, one
  reset. A restart leaves packets on their way and starts the command numbers
  again; `PlannedIsCommissioned` leaves out that a request then gets the number of
  one that is still on its way (`reused`, section 6). One requester: with two, TLC
  finds that they may send in another order than they changed the record, and
  `PlannedIsCommissioned` fails.
- **load_registry**: two pins with pages of one Load, so that a report has one or
  two pages; two requests, one console command, one fault, one restart of each
  side. `Sequences` (2^16 in the code) wraps at 3.
- **hardware_store**: three pins for at most two Loads, so that the limit refuses
  and a pin can be used again; starting empty or with two Loads, commissioned or
  not; three requests, one relay command, two failing calls, one restart. Only
  `gpio_config` and the flash fail (see section 6).
- **routing**: two scenarios. A Smart Node alone with the Central, on two channels,
  with restarts after failed reports and two power cycles of either; and two
  Smart Nodes and the Central all in range, where packet losses make every tree
  of the three, without restarts. Queues of one packet, so that they are full
  when a second comes.
- **power_planning**: two levels of charge, plans with and without reserve
  and runtime, and one that is refused; two commands by two tasks or later
  synchronizations of the clock, ahead or back, one failed write, one restart.
- **connectivity**: one network, two brokers, two channels; one move of the access
  point, two commands or forms, one failing call.
- **mqtt_session**: one command of each of four kinds, one break or refused
  subscription, one change of the account, one repeated status, which gives an
  outbox of up to four messages of three tasks.

### What the violations show

1. **concurrent_cycles**: the comment in `buildDispatchOrder` promises that
   capacity is released before a Load is energised. It is, within one cycle. The
   console's `dashboard` and `optimize` run a second cycle at the same time and
   nothing orders the commands of the two.
2. **routing_loop**: the ESP-NOW library's README says that Nodes without a route
   are ignored, which keeps a Node from selecting its own descendant. A relay that
   restarted has no route, its child still has one through it, answers, and is
   selected: the two report to each other and neither reaches the Central.

### Fairness

- `RelayDispatch`: the optimization task's loop has a timed wait and every wait
  inside a cycle has a deadline, so it always takes another step; a Node's
  `relayControlTask` and the Central's ESP-NOW task loop on their queues. No
  fairness for the console, for faults or for the outside.
- `Commissioning`: an accepted request is sent; both ESP-NOW tasks work their
  queues off. Nobody has to make a request, and reports need not come.
- `LoadRegistry`: the Node's ESP-NOW task alternates between a report and one
  received command, so `StartReport` and `SendPage` are weakly fair, and the
  command handler is strongly fair: it is enabled between two reports only, and
  the task polls its queue each time round. The Central handles what it
  receives.
- `EspNowRouting`: every task steps, weakly fair. The radio loses packets without
  bound, and the properties about finding the Central need that it does not lose
  all of them: strong fairness of a request being heard by the Central, and of its
  answer coming inside the window.
- `PowerPlanning`: the optimization task wakes up, a caller ends its command, time
  passes. None for the sensor or for commands.
- `Connectivity`: the station's events and timers, the watchdog's checks, the two
  starters and the client's reconnection are weakly fair; access points, users
  and failures are not.
- `MqttSession`: the client's task, the tasks that wait for its lock, the broker
  and the detection of a dead connection are weakly fair; the network, the
  frontend and the installer are not.
- `LoadHardwareStore` and `ScheduledSearch`: none; their properties are safety
  properties and a refinement.

### The refinement

`ImplementsLoadChoice` is `LoadChoice!Spec` with `problem` as it is, `changed`
when a boundary has been crossed, and `chosen` the best state once the open list
is empty. It says more than an invariant on the result: whatever was rejected as
known or unaffordable on the way, the result of an undisturbed search is among
`BestCombinations`, which is what `RelayDispatch` plans with.

## 4. The proofs

TLAPS proves, for every value of the constants that satisfies the named
assumptions:

| Theorem | Module | States |
|---|---|---|
| `TypeCorrect` | `RelayDispatchProofs` | `Spec => []TypeOK` |
| `SuccessIsTrue` | `RelayDispatchProofs` | `Spec => []SuccessMeansApplied` |
| `NoOtherOrphans` | `RelayDispatchProofs` | `Spec => OrphansOnlyWhenBusy` |
| `CapacityReleasedByPlanner` | `RelayDispatchProofs` | `Spec => []CapacityReleased`, when `Consoles = {}` |
| `PlannedWithinBudgetByPlanner` | `RelayDispatchProofs` | `Spec => []PlannedWithinBudget`, when `Consoles = {}` |
| `AlwaysFeasible` | `ScheduledSearchProofs` | `Spec => []ReturnedIsFeasible`, of `BestFirstSearch` |
| `NeverQueuedTwice` | `ScheduledSearchProofs` | `Spec => []QueuedOnce`, of `BestFirstSearch` |
| `SearchImplementsChoice` | `ScheduledSearchProofs` | `Spec => LoadChoice!Spec`: the refinement |
| `ClockIsAbstracted` | `ScheduledSearchProofs` | `ScheduledSpec => Spec` of `BestFirstSearch` |
| `ScheduledFeasible`, `ScheduledOnce`, `ScheduledChoice` | `ScheduledSearchProofs` | the three above, for `ScheduledSpec` |
| `BoostStaysCurrent` | `ScheduledSearchProofs` | `ScheduledSpec => []BoostIsCurrent` |
| `ChannelIsShared` | `ConnectionProofs` | `ConnectivitySpec => []SharedChannel`, of `Connectivity` |
| `StartedIsTrue` | `ConnectionProofs` | `ConnectivitySpec => []StartedMeansClient`, of `Connectivity` |
| `TypeCorrect` | `PowerPlanningProofs` | `Spec => []TypeOK` |
| `ReadingIsTrue` | `PowerPlanningProofs` | `Spec => []ReadingIsOfSelectedInput` |
| `IntervalHolds` | `PowerPlanningProofs` | `Spec => []IntervalInForce` |
| `CountdownHoldsThroughout` | `PowerPlanningProofs` | `Spec => CountdownFollowsClock` |
| `TypeCorrect` | `CommissioningProofs` | `Spec => []TypeOK` |
| `PlannedIsTrue` | `CommissioningProofs` | `Spec => []PlannedIsCommissioned`, with one requester |
| `SyncedIsTrue` | `CommissioningProofs` | `Spec => []SyncedNameAgrees`, with one requester |
| `TypeCorrect` | `EspNowRoutingProofs` | `Spec => []TypeOK` |
| `TreeIsTrue` | `EspNowRoutingProofs` | `Spec => []TreeUntilRestart` |
| `PeerIsOnChannel` | `EspNowRoutingProofs` | `Spec => []UpstreamPeerOnChannel` |
| `CommandsAreOnPath` | `EspNowRoutingProofs` | `Spec => []CommandsStayOnPath` |
| `TreeIsWhatCanBeReached` | `EspNowRoutingProofs` | `Spec => []TreeShowsRoutes` |
| `TypeCorrect` | `LoadRegistryProofs` | `Spec => []TypeOK` |
| `ChosenStand` | `LoadRegistryProofs` | `Spec => []ChosenSettingsStand` |
| `StoredSurvive` | `LoadRegistryProofs` | `Spec => []StoredSettingsSurvive` |
| `PrunesOnlyRemoved` | `LoadRegistryProofs` | `Spec => PrunesOnlyRemovedNormally`, when `MaxFaults + 1 < Sequences` |
| `RunsOnce` | `ConnectionProofs` | `Spec => []HandledOnce`, of `MqttSession` |
| `AcceptanceComesFirst` | `ConnectionProofs` | `Spec => []AcceptedBeforeApplied`, of `MqttSession` |
| `FlashAgreement` | `LoadHardwareStoreProofs` | `Spec => []FlashAgrees` |
| `LoadsAreWhole` | `LoadHardwareStoreProofs` | `LoadsHaveRelays` and `LoadsAreConfigured` of `LoadsAgree`, whatever fails |
| `LoadsAgreement` | `LoadHardwareStoreProofs` | `Spec => []LoadsAgree`, when `gpio_set_level` does not fail |

The theorem `Inductive` of a module is its inductive invariant, and
`StationInductive` is the one of `Connectivity`.

**`RelayDispatchProofs`**, for any number of tasks, Nodes, Loads and faults. None of
the properties is inductive by itself. The invariant `IInv` adds that a task is
busy with a command exactly while it sends it, waits for it or closes it; that a
command whose completion was seen is not pending any more; and that every
outcome, on its way in an acknowledgement or remembered as the last completion,
is true of the Node. One lemma per action shows that it stays.

For the case without a console command, `CapacityInv` adds `OneAtATime` (only the
planner has a command) and `InOrder` (whatever of the plan was commanded ON, all
that the plan has OFF comes before it and is off). `Consoles = {}` cannot be
dropped: `concurrent_cycles` is the counterexample.

The budget needs both sides. `PlansFit` says that a plan fits the allowance it was
made with: the Loads fixed ON and those automatically ON together, or else the
automatic ones draw nothing. That rests on `BestExists`: among finitely many
combinations there is one that no other beats, so `Selected` is a feasible one.
`BudgetFromPlan` joins it to `CapacityReleased`: the Loads of the plan that are
energised are among those it has on, and a part of a set has no greater sum. A
Load may be rated 0 W (`NodeLoadHardwareStore.cpp:201` refuses negative ratings
only) and is then selected even when the fixed Loads exceed the allowance;
`PlannedWithinBudget` says so.

**`ScheduledSearchProofs`**, for any Loads and problems, and windows that change
at will. Its `IInv` says that the problem is a proper one, that every generated
combination fits, and that open and closed combinations are disjoint and each
is there once. `ChoiceInv`, for a search without a crossing, adds that the merit
of every state is true, that a feasible combination one Load away from a closed
one is known (`NothingLost`), and that nothing known beats the best. When the open
list is empty, a smallest feasible combination that was never closed would
have been a child of a closed one, which fits since it draws less: there is none,
so the best is a best one of all. That is each step of `LoadChoice`.

For any schedules and any length of the day, the search with its clock implements
the search whose windows change at will, which carries the theorems over.
`BoostStaysCurrent` rests on `WindowMeaning`: the comparisons of
`isTimeWithinSchedule`, with their case over midnight, say that going on from the
window's start the time comes before its end. The invariant `ReadingInv` adds
that the hour that was read is that of a time in `seen`, which always has the time
as it is.

**Sums.** Watts and priorities are summed by `MapThenSumSet`, a fold. The library's
induction theorems cannot be used for it, so both modules above argue by a
smallest counterexample (`SmallestExists`): the recursion has one solution on each
finite set (`SumUnique`, `SumExists`), and so a sum may begin with any member
(`SumRemove`), whatever `CHOOSE` begins with.

**`ConnectionProofs`**, on `Connectivity`, for any networks, brokers and failures.
From `ConnectivityAssumption`. The module extends `MqttSession` as well; the names
of the two (`ConnectivitySpec`, `handle` for `client_`) are chosen apart.
`ScanHolds`: from the scan on, an access point that has stayed is on the radio's
channel. `OneStart`: as long as no start has met another one or a change of the
broker, one task at most starts the client, with the stored broker, and `client_`
is its own. The other case is real: the code has no mutex there.

**`PowerPlanningProofs`**, for any plans, charges, demands and intervals, of any
number of callers. From `PowerAssumption` and `StoredAssumption` (the flash holds
configurations that were checked). `InputHolds`: what is averaged is of the
selected input. `CountdownHolds`: between two cycles the remaining runtime is what
the last cycle demanded, or at least what is left of it since the reference was
taken, less what the clock was set back since (`clock.back`); that makes
`CountdownFollowsClock` provable step by step, however often SNTP sets the clock.
That AUTO Loads get at most the budget less its reserve is part of `TypeOK`.

**`CommissioningProofs`**, for any names, queues and numbers of requests, losses,
failed writes, restarts and resets. That the Central and the Node agree cannot be
kept by looking at their records: packets between them will change them. `Ordered`
follows one packet, the command of the latest request. Nothing is behind it on its
way to the Node (`LatestIsLast`), so when it is answered nothing else is on its
way and the answer is true (`LatestIsAnswered`), and older answers are refused by
their number. This is where `OneRequester` is needed: of two tasks one may change
the record first and send last, and then the last packet is not the latest
request's. The numbers are only good as long as no request gets one that is still
on its way. In the Central's first life none is given twice (`FirstLife`); after a
restart they start again, and `Ordered` holds until one is `reused`. `Trusted`
leaves out the restart that follows a failed write, which may bring back a record
that was given up.

**`EspNowRoutingProofs`**, for any Nodes in any positions, channels, queue lengths
and faults. From the assumptions on the constants, among them
`ScenariosAssumption` (the bounds of a scenario are numbers) and that there are
finitely many Smart Nodes. `Shape` holds always: where the task of a Node stands
says whether it has an Upstream Node, and on which channel its peer is. `Truth`
holds until the first restart: a Node keeps the Upstream Node it has selected, so
hop counts, candidates, children, the registry, and every response, handshake,
report and command on its way say what is still so. After a restart it is false,
as `routing_loop` shows. `TreeIsWhatCanBeReached` needs none of this: it says of
`TreeShowsRoutes`, which no run checks, that two walks over one registry, downwards
from the Central and upwards from a destination, find the same Nodes, whatever the
registry holds; the two recursive functions are taken apart by the least step at
which they would differ. It says nothing of the way a packet takes beyond the
Central's next hop.

**`LoadRegistryProofs`**, for any pins, pages, settings, requests and faults. From
`RegistryAssumption` and `InputsAssumption` (no two Loads a Node starts with share a
pin; settings and requests are well formed). The two properties are inductive
together with the types of the packets and of the assembled report: what the
Central knows of a Load is what is stored for it after every way a page, a request,
a removal or a restart may take, and what is stored is in flash, or a write has
failed. `PrunesOnlyRemovedNormally` needs the history of the reports, which the
state does not have: a report's number comes back after `Sequences` of them
(65536 in the code). `ReportsInv` says that there is one: numbers without end for
the Node's report, for the assembly and for every packet on its way, and the
list of each report (`Traced`). A report newer than the assembly has a packet on its
way, or has lost one; so the next page is of the assembly's report or of one of
the `MaxFaults + 1` after it (`NearReport`), and where the numbers agree the
reports do. All pages of one list show all its pins (`AllShown`). The hypothesis
`MaxFaults + 1 < Sequences` says that too few packets are lost for a number to
come round unheard. It cannot be dropped: with two numbers and two lost pages TLC
finds a Load pruned that the Node had all the time.

**`ConnectionProofs`**, on `MqttSession`, for any messages, breaks, power cuts,
changes of the account and repetitions. From `MessagesAssumption` (a message
answers the questions the parsing asks). `Once`: a command that is on its way to
the client or with its handler was not handled before, and is there once; what the
broker has not seen acknowledged is forgotten when the connection ends, since the
session is clean. `Order`, as long as nothing has failed (`Undisturbed`), says why
an acceptance is seen before the outcome. The handler holds the client's API lock
from before the command is dispatched until it has answered, and whatever
publishes an APPLIED waits for that lock. So for every APPLIED that waits, is in
the outbox or is on its way, the ACCEPTED is ahead of it: seen, or earlier in what
is on its way, or the handler is about to send it (`Founded`,
`AcceptedOrAccepting`). Until the first connection there is nothing (`Fresh`), and
from then on the connection is up (`Held`).

**`LoadHardwareStoreProofs`**, for any pins, lists, limit, requests, commands,
restarts and faults. From `StoreAssumption`, which also says that the lists the
flash starts with configure no pin twice. `FlashAgrees` needs to know one moment:
a new configuration is in the list before it is in flash, and it is the last one
(`FlashInv`), so the list and its copy differ only on a pin of the operation. No
failing call is excluded. `LoadsAgree` speaks of the Node between operations, and
is not inductive: `Phases` says for each step of an operation what the three forms
are until the next one. `Paired` and `Covered` hold at most of them; `Unfinished`
and `SetUp` allow for the new Load whose relay is there first, `Orphaned` for the
relay whose Load is gone first, and `Leaving` for the Loads that are forgotten and
not yet released. Each failing call then leads to a step whose phase undoes what
came before, which is the argument of the code's roll-back. `OneRelay` and
`IsList` are what makes erasing one entry the same as removing one pin, and a
number of relays the number of Loads. All of that holds whatever fails
(`LoadsAreWhole`). Only that no output is left untracked needs `gpio_set_level`
not to fail, as in the run (section 6); `Tracked` carries that hypothesis through
the phases. The storage of the vector grows by `Capacity`, a recursive function;
that it has room for every relay is shown by induction on the list
(`CapacityFacts`).

Only model-checked:

- liveness: `RelaysConverge`, `DrawFollowsAllowance`, `PlannerKeepsPlanning`,
  `ConfiguringEndsOrFaults`, `RegistryConverges`, `CentralFoundAgain`,
  `ReserveIsKept`, `HorizonIsReached`, `StationConnects`, `PortalOpens`,
  `BrokerReached`, `AcknowledgementsArrive`, `PresenceShown`: what must eventually
  happen under fairness is out of this prover's reach.

## 5. Not modelled, and why

- Float rounding of watts and hours; the models compare whole numbers.
- The 32-bit tick counter's wrap: central 701 compares an absolute deadline with
  `<`, so that a wait that spans the wrap (every 49 days) ends at once or late.
  No module has absolute ticks.
- `SET_CHANNEL` of `consoleNetwork` (central 2073), which also saves a channel: no
  code makes that request (`CentralConsole::wifi` has no word for it). The channel
  in flash changes by `setWifi` and by the station that finds its access point
  moved.
- Restarts of the Central in `RelayDispatch`. Its command identifiers restart at 1,
  and an acknowledgement from before may meet a new command of the same number.
- Several requesters in `commissioning` (section 3).
- QoS 2, MQTT 5 and transports of the client library; the QoS 0 state message.
- Driver failures inside ESP-NOW and the limit of its peer table.
- `FACTORY_RESET_NODE` at the Central; the Node's own reset is in
  `LoadHardwareStore` and `Commissioning`.
- Functions no firmware calls (manual time, `setCalibration`,
  `applyVoltageStateOfChargeEstimate`).
- Wording, JSON, HTML, console parsing, flash layout: data that no decision of the
  other parts reads. The vendored cJSON appears as whether a message could be
  read.

## 6. Seen while modelling

Behaviours that the modules have and that the properties of the runs leave out or
take as they are, because the repository claims otherwise only in passing, not at
all, or in a document that describes an older version:

- `NodeLifecycle.cpp:22` speaks of a commissioning attempt that times out and is
  rolled back. No code does that: after a lost packet the record stays
  `CONFIGURING`, and a new request is refused. `ConfiguringEndsOrFaults` says so.
- A Node that falls silent keeps its Loads energised. The next plan leaves them out
  (`buildLoadFilter`, central 576) and gives the allowance to others: in a state of
  the `planner` run a silent Node's Loads and the Central's draw 5 W of an allowance
  of 4 W. No property counts them.
- After a restart the Central numbers its console commands from `0x80000000` again
  (central 221, 240). When a Node was commissioned and decommissioned, the
  acknowledgement of the first request may still be on its way and be taken for
  that of a new request of the same number: the Central then plans with a Node
  that is not commissioned. TLC finds this when `~reused` is left out of
  `PlannedIsCommissioned`. In `LoadRegistry` numbers go on: an older answer can
  only be taken for that of a removal of the same pin, and is true of the Node.
- The remaining hours are computed from `std::time` (central 207), which SNTP may
  set back at any of its synchronizations: the countdown grows by as much, and
  `CountdownFollowsClock` allows exactly that.
- `lib/WiFiManager/README.md:45-60` and `91-94` say that an access point on another
  channel is refused outright, and that Wi-Fi stays unavailable until it is
  reconfigured. `WiFiManager.cpp:178-194` saves its channel and restarts the Central
  onto it. `StationConnects` says what the code does, and would not hold of what
  that README describes.
- Between the scan and the association nothing keeps an access point where it was,
  and two starts of the client are not kept apart. `SharedChannel`
  (`steady`), `StartedMeansClient` and `BrokerReached` (`missed`) leave these
  interleavings out: they hold up to them and say nothing about them.
- `CentralNodeRegistry.h:22` says a lost page cannot make a Load look removed.
  After a restart of the Node a report number comes again, and pages of two
  reports may complete one assembly. `PrunesOnlyRemovedNormally` leaves restarts
  out, `RegistryConverges` shows that it is repaired.
- `LoadConfigurationStore.h:67` says a reused pin must not get the old settings.
  When the acknowledgement of `REMOVE_LOAD` overtakes the step that makes the
  command pending, the old settings stay and are laid over the next Load on the
  pin.
- `RelayController.h` says a failed configuration cannot leave an untracked output.
  `addRelay` clears `hardwareApplied` before it calls `removeRelay`, so a pin whose
  first write fails after `gpio_config()` stays an output. `hardware_store` does
  not let that write fail.
- A removal can erase a relay between the lookup and the write of `pin_control`;
  the write then goes to the next relay's pin (`FindRelay`, `EraseRelay`,
  `WriteLevel`).
- `LIMITATIONS.md` describes the persisted-state edge case: configurations read by
  an uncommissioned Node stay in `stale` until the next restart. `LoadsAgree`
  has it as it is.
- A remote `CONFIGURE_LOAD` leaves the schedule's end out of its packet
  (`INSTALLATION_GUIDE.md:212` shows one with an end), and is never made pending.
- `lib/MqttManager/README.md:300` says that every result of a command is returned;
  `publishRaw` drops an acknowledgement that finds the client disconnected.
- After `mqtt set` the old client says goodbye, so its Last Will is dropped and
  "online" stays retained on the old broker (`USER_MANUAL.md:177`).
- A report counts as delivered when the next Node's radio has it; a Smart Node
  behind a relay that lost the Central does not notice.
