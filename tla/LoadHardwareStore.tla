-------------------------- MODULE LoadHardwareStore --------------------------
(***************************************************************************)
(* The Loads of one Smart Node in its three forms: the configurations of   *)
(* NodeLoadHardwareStore with their copy in flash, the relays registered   *)
(* with RelayController and their GPIOs, and the Loads of the Node.        *)
(*                                                                         *)
(* Two tasks change them under nodeMutex: the ESP-NOW task, for commands   *)
(* of the Central, and the console.  The pin_control task switches relays  *)
(* and takes no mutex.  The Node may restart between any two steps.        *)
(*                                                                         *)
(* A configuration is its pin and whether its mode starts the relay ON;    *)
(* the other fields are valid ones.  Levels are logical: ON is HIGH or LOW *)
(* by the polarity of the relay.  A request that is refused, or finds      *)
(* nodeMutex busy for 500 ms, changes nothing and is not a step.           *)
(***************************************************************************)
EXTENDS Integers, Sequences, FiniteSets, SequencesExt

CONSTANTS
    Pins,           \* relay pins
    MaxLoads,       \* MAX_CONFIGURED_LOADS
    InitialLists,   \* the configurations the flash may start with
    FailingCalls,   \* the calls of the platform that may fail
    MaxFaults,      \* bound on calls that fail
    MaxRequests,    \* bound on requests of the Central and the console
    MaxCommands,    \* bound on relay commands
    MaxRestarts     \* bound on restarts

Calls == {"gpio_config", "gpio_set_level", "nvs"}

Configuration == [pin : Pins, on : BOOLEAN]

\* No pin is configured twice.
IsList(list) ==
    /\ list \in Seq(Configuration)
    /\ \A i, j \in DOMAIN list : list[i].pin = list[j].pin => i = j

ASSUME StoreAssumption ==
    /\ MaxLoads \in Nat \ {0}
    /\ \A list \in InitialLists : IsList(list) /\ Len(list) <= MaxLoads
    /\ FailingCalls \subseteq Calls
    /\ MaxFaults \in Nat /\ MaxRequests \in Nat
    /\ MaxCommands \in Nat /\ MaxRestarts \in Nat

VARIABLES
    configurations, \* configurations_
    flash,          \* the configurations in flash
    flashOk,        \* the last access to them was reported as a success
    stale,          \* pins of configurations that were read at boot, not applied
    memory,         \* the storage of the vector relays_, its spare capacity too
    size,           \* relays_.size()
    loads,          \* pins of the Loads of thisSmartNode
    output,         \* the pins that are outputs
    latch,          \* the output latch of each pin
    commissioned,   \* isCommissioned()
    identity,       \* the same in flash
    job,            \* the operation under nodeMutex
    clearing,       \* a DECOMMISSION has cleared the Loads, not yet the identity
    control,        \* the relay command that pin_control is writing
    faults, requests, commands, restarts    \* so far

store   == <<configurations, flash, flashOk, stale>>
relays  == <<memory, size>>
gpio    == <<output, latch>>
node    == <<commissioned, identity, clearing>>
bounds  == <<requests, commands, restarts>>
vars    == <<store, relays, loads, gpio, node, job, control, faults, bounds>>

Relay == [pin : Pins, on : BOOLEAN, applied : BOOLEAN]
Unused == [pin |-> "none"]
Tasks == {"espnow", "console"}
Steps == {"off", "forget", "reset", "erase", "register", "gpio", "init", "store"}

Job == [task : Tasks, step : Steps, todo : Seq(Pins), new : SUBSET Configuration,
        decommission : BOOLEAN]
NoJob == [task |-> "none", step |-> "none"]

Dangling == 0
Command == [pin : Pins, on : BOOLEAN, slot : Nat]
NoCommand == [slot |-> -1]

PinsOf(list) == {list[i].pin : i \in DOMAIN list}
Slots(p) == {i \in 1..size : memory[i].pin = p}
Registered == {memory[i].pin : i \in 1..size}
JobPins == IF job = NoJob THEN {} ELSE ToSet(job.todo) \cup {c.pin : c \in job.new}

TypeOK ==
    /\ IsList(configurations) /\ IsList(flash) /\ Len(configurations) <= MaxLoads
    /\ flashOk \in BOOLEAN /\ stale \subseteq Pins /\ loads \subseteq Pins
    /\ memory \in Seq(Relay \cup {Unused}) /\ size \in 0..Len(memory)
    /\ \A i \in 1..size : memory[i] \in Relay
    /\ output \in [Pins -> BOOLEAN] /\ latch \in [Pins -> BOOLEAN]
    /\ commissioned \in BOOLEAN /\ identity \in BOOLEAN /\ clearing \in BOOLEAN
    /\ job \in Job \cup {NoJob}
    /\ control \in Command \cup {NoCommand}

-----------------------------------------------------------------------------
(***************************************************************************)
(* Boot.  The configurations are read always and applied only if the Node  *)
(* is commissioned, before any other task exists; if one of them fails,    *)
(* those applied before it are removed again and the list is kept.  After  *)
(* a reset no pin is an output.                                            *)
(***************************************************************************)

\* push_back() doubles the storage of a vector that is full.
Grown(capacity) == IF capacity = 0 THEN 1 ELSE 2 * capacity

Capacity(count) ==
    LET after[n \in 0..count] ==
            IF n = 0 THEN 0
            ELSE IF n <= after[n - 1] THEN after[n - 1] ELSE Grown(after[n - 1])
    IN  after[count]

Vector(list) ==
    [i \in 1..Capacity(Len(list)) |->
        IF i > Len(list) THEN Unused
        ELSE [pin |-> list[i].pin, on |-> list[i].on, applied |-> TRUE]]

StartsOn(list) == {list[i].pin : i \in {i \in DOMAIN list : list[i].on}}
Only(pins) == [p \in Pins |-> p \in pins]

Init ==
    /\ configurations \in InitialLists /\ flash = configurations /\ flashOk = TRUE
    /\ identity \in BOOLEAN /\ commissioned = identity
    /\ LET applied == IF commissioned THEN configurations ELSE <<>>
       IN /\ memory = Vector(applied) /\ size = Len(applied)
          /\ loads = PinsOf(applied) /\ stale = PinsOf(configurations) \ loads
          /\ output = Only(PinsOf(applied)) /\ latch = Only(StartsOn(applied))
    /\ job = NoJob /\ clearing = FALSE /\ control = NoCommand
    /\ faults = 0 /\ requests = 0 /\ commands = 0 /\ restarts = 0

MayFail(call, ok) ==
    IF ok THEN UNCHANGED faults
    ELSE call \in FailingCalls /\ faults < MaxFaults /\ faults' = faults + 1

Running(list) ==
    /\ memory' = Vector(list) /\ size' = Len(list) /\ loads' = PinsOf(list)
    /\ output' = Only(PinsOf(list)) /\ latch' = Only(StartsOn(list))

\* A relay that fails after gpio_config() is left an output: addRelay() has
\* cleared hardwareApplied, so removeRelay() does not release its pin.
ApplyFails(list) ==
    \E i \in DOMAIN list, call \in {"gpio_config", "gpio_set_level"} :
       /\ MayFail(call, FALSE)
       /\ memory' = [k \in DOMAIN Vector(SubSeq(list, 1, i)) |-> Unused] /\ size' = 0
       /\ loads' = {}
       /\ output' = Only(IF call = "gpio_config" THEN {} ELSE {list[i].pin})
       /\ latch' = Only({list[i].pin} \cap StartsOn(list))

Boot(list, id) ==
    /\ commissioned' = id /\ identity' = id /\ clearing' = FALSE
    /\ job' = NoJob /\ control' = NoCommand
    /\ restarts < MaxRestarts /\ restarts' = restarts + 1
    /\ UNCHANGED <<requests, commands>>
    /\ flash' = list
    /\ \/ /\ configurations' = list /\ flashOk' = TRUE
          /\ \/ Running(IF id THEN list ELSE <<>>) /\ UNCHANGED faults
             \/ id /\ ApplyFails(list)
       \/ configurations' = <<>> /\ flashOk' = FALSE     \* loadPersisted() fails
            /\ MayFail("nvs", FALSE) /\ Running(<<>>)
    /\ stale' = PinsOf(configurations') \ loads'

Restart == Boot(flash, identity)

EspNowFree == ~clearing /\ job.task # "espnow"

\* FACTORY_RESET erases the whole flash and restarts the Node.
FactoryReset == EspNowFree /\ Boot(<<>>, FALSE)

-----------------------------------------------------------------------------
(***************************************************************************)
(* Requests.  The console may always configure, remove and update; the     *)
(* ESP-NOW task configures and removes for a commissioned Node.  An        *)
(* operation holds nodeMutex from its start to its last step.              *)
(***************************************************************************)

Request == requests < MaxRequests /\ requests' = requests + 1
             /\ UNCHANGED <<commands, restarts>>

Start(task, step, todo, new, decommission) ==
    /\ job = NoJob
    /\ task = "espnow" => EspNowFree
    /\ job' = [task |-> task, step |-> step, todo |-> todo, new |-> new,
               decommission |-> decommission]
    /\ Request
    /\ UNCHANGED <<store, relays, loads, gpio, node, control, faults>>

Allowed(task) == task = "espnow" => commissioned

\* configureNewLoad(), as far as the checks that refuse a configuration
Configure(task, c) ==
    /\ Allowed(task)
    /\ Len(configurations) < MaxLoads
    /\ c.pin \notin PinsOf(configurations) \cup Registered \cup loads
    /\ Start(task, "register", <<>>, {c}, FALSE)

RemoveLoad(task, p) ==
    /\ Allowed(task)
    /\ p \in PinsOf(configurations)
    /\ Start(task, "off", <<p>>, {}, FALSE)

\* The console's update removes the Load and configures it again, changed.
UpdateLoad(c) ==
    /\ c.pin \in PinsOf(configurations)
    /\ Start("console", "off", <<c.pin>>, {c}, FALSE)

DecommissionLoads ==
    Start("espnow", "off", [i \in DOMAIN configurations |-> configurations[i].pin], {}, TRUE)

\* The second half of DECOMMISSION, after nodeMutex was given back.
DecommissionIdentity ==
    /\ clearing
    /\ clearing' = FALSE
    /\ \E ok \in BOOLEAN :
          /\ MayFail("nvs", ok)
          /\ commissioned' = (commissioned /\ ~ok)
          /\ IF ok THEN identity' = FALSE ELSE identity' \in {identity, FALSE}
    /\ UNCHANGED <<store, relays, loads, gpio, job, control, bounds>>

Commission ==
    /\ EspNowFree
    /\ \E ok \in BOOLEAN :
          /\ MayFail("nvs", ok)
          /\ commissioned' = (commissioned \/ ok)
          /\ IF ok THEN identity' = TRUE ELSE identity' \in {identity, TRUE}
    /\ Request
    /\ UNCHANGED <<store, relays, loads, gpio, clearing, job, control>>

-----------------------------------------------------------------------------
(***************************************************************************)
(* The steps of an operation.  It removes the pins in todo and then        *)
(* configures what is in new.                                              *)
(***************************************************************************)

At(step) == job.step = step
To(step) == job' = [job EXCEPT !.step = step]

\* An update goes on to configureNewLoad() whatever became of its removal;
\* if the old configuration is still there, it is refused as a duplicate.
Abandon == job' = NoJob /\ UNCHANGED clearing

AfterRemoving(todo) ==
    IF todo # <<>> \/ job.new # {}
    THEN /\ job' = [job EXCEPT !.todo = todo,
                               !.step = IF todo # <<>> THEN "reset" ELSE "register"]
         /\ UNCHANGED clearing
    ELSE job' = NoJob /\ clearing' = job.decommission

\* Mutant of Persist: the list is written as it was before the operation.
PersistBefore(ok, list) ==
    /\ MayFail("nvs", ok)
    /\ flash' = IF ok THEN configurations ELSE flash
    /\ flashOk' = ok

\* A failed write may have reached the flash or not.
Persist(ok, list) ==
    /\ MayFail("nvs", ok)
    /\ IF ok THEN flash' = list ELSE flash' \in {flash, list}
    /\ flashOk' = ok

\* setRelayState(pin, false), one pin after the other until one fails.
SwitchOff ==
    /\ At("off")
    /\ \E n \in 0..Len(job.todo) :
          LET first == ToSet(SubSeq(job.todo, 1, n)) IN
          /\ first \subseteq Registered
          /\ latch' = [p \in Pins |-> latch[p] /\ p \notin first]
          /\ \/ n = Len(job.todo) /\ To("forget") /\ UNCHANGED <<clearing, faults>>
             \/ /\ n < Len(job.todo)
                /\ MayFail("gpio_set_level", job.todo[n + 1] \notin Registered)
                /\ Abandon
    /\ UNCHANGED <<store, relays, loads, output, commissioned, identity, control, bounds>>

\* configurations_.erase(), where a configuration of this pin is found.
Erased(list, p) ==
    LET index == CHOOSE i \in DOMAIN list : list[i].pin = p
    IN  [k \in 1..(Len(list) - 1) |-> IF k < index THEN list[k] ELSE list[k + 1]]

\* removeLoad() erases one configuration, clearAllConfigurations() all of them.
Forget ==
    /\ At("forget")
    /\ LET rest == IF job.decommission THEN <<>> ELSE Erased(configurations, Head(job.todo)) IN
       \E ok \in BOOLEAN :
          /\ Persist(ok, rest)
          /\ IF ok THEN configurations' = rest /\ AfterRemoving(job.todo)
             ELSE UNCHANGED configurations /\ Abandon
    /\ UNCHANGED <<stale, relays, loads, gpio, commissioned, identity, control, bounds>>

removeLoadByRelayPin(p) == loads' = loads \ {p}

\* removeRelay() drives the pin OFF and resets it; gpio_reset_pin() of a pin
\* that gpio_config() accepted does not fail.
ResetPin ==
    /\ At("reset")
    /\ LET p == Head(job.todo) IN
       /\ removeLoadByRelayPin(p)
       /\ IF p \in Registered
          THEN /\ output' = [output EXCEPT ![p] = FALSE]
               /\ latch' = [latch EXCEPT ![p] = FALSE]
          ELSE UNCHANGED gpio
    /\ To("erase")
    /\ UNCHANGED <<store, relays, node, control, faults, bounds>>

\* relays_.erase() moves the relays behind it down by one.
EraseRelay ==
    /\ At("erase")
    /\ IF Slots(Head(job.todo)) = {} THEN UNCHANGED relays
       ELSE \E i \in Slots(Head(job.todo)) :
               /\ memory' = [k \in DOMAIN memory |->
                               IF i <= k /\ k < size THEN memory[k + 1] ELSE memory[k]]
               /\ size' = size - 1
    /\ AfterRemoving(Tail(job.todo))
    /\ UNCHANGED <<store, loads, gpio, commissioned, identity, control, faults, bounds>>

\* addRelay(): relays_.push_back(), into new storage if there is no room.
RegisterRelay ==
    /\ At("register")
    /\ \E c \in job.new :
          LET relay == [pin |-> c.pin, on |-> c.on, applied |-> FALSE]
          IN IF size < Len(memory)
             THEN memory' = [memory EXCEPT ![size + 1] = relay] /\ UNCHANGED control
             ELSE /\ memory' = [k \in 1..Grown(size) |->
                                  IF k <= size THEN memory[k]
                                  ELSE IF k = size + 1 THEN relay ELSE Unused]
                  /\ control' = IF control = NoCommand THEN control
                                ELSE [control EXCEPT !.slot = Dangling]
    /\ size' = size + 1
    /\ To("gpio")
    /\ UNCHANGED <<store, loads, gpio, node, faults, bounds>>

\* A new configuration is given up: its Load and its relay are removed.
RollBack(step, c) == job' = [job EXCEPT !.step = step, !.new = {}, !.todo = <<c.pin>>]

\* configureGpio(): the latch is set before the pin becomes an output.
ConfigureGpio ==
    /\ At("gpio")
    /\ \E c \in job.new, ok \in BOOLEAN :
          /\ MayFail("gpio_config", ok)
          /\ latch' = [latch EXCEPT ![c.pin] = c.on]
          /\ IF ok THEN /\ output' = [output EXCEPT ![c.pin] = TRUE]
                        /\ memory' = [memory EXCEPT ![size].applied = TRUE]
                        /\ To("init")
             ELSE UNCHANGED <<output, memory>> /\ RollBack("erase", c)
    /\ UNCHANGED <<store, size, loads, node, control, bounds>>

\* The initial state is written again; the Load and its configuration are
\* added.  A failure clears hardwareApplied, so the pin is not reset.
InitialState ==
    /\ At("init")
    /\ \E c \in job.new, ok \in BOOLEAN :
          /\ MayFail("gpio_set_level", ok)
          /\ IF ok THEN /\ latch' = [latch EXCEPT ![c.pin] = c.on]
                        /\ loads' = loads \cup {c.pin}
                        /\ configurations' = Append(configurations, c)
                        /\ To("store") /\ UNCHANGED memory
             ELSE /\ memory' = [memory EXCEPT ![size].applied = FALSE]
                  /\ RollBack("erase", c)
                  /\ UNCHANGED <<latch, loads, configurations>>
    /\ UNCHANGED <<flash, flashOk, stale, size, output, node, control, bounds>>

\* Mutant of Store: the configuration stays in the list when it is not stored.
StoreKeepingList ==
    /\ At("store")
    /\ \E c \in job.new, ok \in BOOLEAN :
          /\ Persist(ok, configurations)
          /\ IF ok THEN job' = NoJob ELSE RollBack("reset", c)
    /\ UNCHANGED <<configurations, stale, relays, loads, gpio, node, control, bounds>>

Store ==
    /\ At("store")
    /\ \E c \in job.new, ok \in BOOLEAN :
          /\ Persist(ok, configurations)
          /\ IF ok THEN job' = NoJob /\ UNCHANGED configurations
             ELSE configurations' = Front(configurations) /\ RollBack("reset", c)
    /\ UNCHANGED <<stale, relays, loads, gpio, node, control, bounds>>

-----------------------------------------------------------------------------
(***************************************************************************)
(* relayControlTask: setRelayState() finds the relay of the command and    *)
(* then writes to what is in its place.  Nothing keeps the vector as it is *)
(* in between; the two tasks run on two cores.                             *)
(***************************************************************************)

FindRelay(p, on) ==
    /\ control = NoCommand
    /\ commands < MaxCommands /\ commands' = commands + 1
    /\ \E i \in Slots(p) : control' = [pin |-> p, on |-> on, slot |-> i]
    /\ UNCHANGED <<store, relays, loads, gpio, node, job, faults, requests, restarts>>

\* Storage that was given back may hold any relay, or none.
Target == IF control.slot = Dangling THEN Relay ELSE {memory[control.slot]}

WriteLevel ==
    /\ control # NoCommand
    /\ \E relay \in Target, ok \in BOOLEAN :
          /\ MayFail("gpio_set_level", ok)
          /\ latch' = IF ok /\ relay.applied THEN [latch EXCEPT ![relay.pin] = control.on]
                      ELSE latch
    /\ control' = NoCommand
    /\ UNCHANGED <<store, relays, loads, output, node, job, bounds>>

-----------------------------------------------------------------------------
Next ==
    \/ Restart \/ FactoryReset
    \/ \E task \in Tasks : \/ \E c \in Configuration : Configure(task, c)
                           \/ \E p \in Pins : RemoveLoad(task, p)
    \/ \E c \in Configuration : UpdateLoad(c)
    \/ DecommissionLoads \/ DecommissionIdentity \/ Commission
    \/ SwitchOff \/ Forget \/ ResetPin \/ EraseRelay
    \/ RegisterRelay \/ ConfigureGpio \/ InitialState \/ Store
    \/ \E p \in Pins, on \in BOOLEAN : FindRelay(p, on)
    \/ WriteLevel

Spec == Init /\ [][Next]_vars

-----------------------------------------------------------------------------
(***************************************************************************)
(* Properties.                                                             *)
(***************************************************************************)

\* RelayController and the Node know the same pins.
LoadsHaveRelays ==
    /\ Registered = loads /\ size = Cardinality(loads)
    /\ \A i \in 1..size : memory[i].applied

\* Every Load is configured, and every configuration is a Load unless the boot
\* read it and did not apply it.  Such a configuration stays until the next
\* restart, since removeLoad() finds no relay to switch off and
\* configureNewLoad() finds the pin taken.
LoadsAreConfigured ==
    PinsOf(configurations) = loads \cup stale /\ loads \cap stale = {}

\* RelayController.h on removeRelay(): "a failed installer command cannot leave
\* an orphaned, untracked output behind".
NoUntrackedOutput == {p \in Pins : output[p]} \subseteq Registered

\* The three forms of a Load agree between operations, after every failure of
\* configureNewLoad(), of removeLoad(), of clearAllConfigurations() and of the
\* boot: each Load can be switched, none is forgotten, and no relay and no
\* output outlives its Load.
LoadsAgree == job = NoJob => LoadsHaveRelays /\ LoadsAreConfigured /\ NoUntrackedOutput

\* As long as persist() and loadPersisted() succeed, a restart at any time
\* brings back the same configurations, except on the pins of the operation
\* that it interrupts.
FlashAgrees ==
    flashOk => \A c \in Configuration :
        c.pin \notin JobPins => (c \in ToSet(flash) <=> c \in ToSet(configurations))
=============================================================================
