---------------------------- MODULE LoadRegistry ----------------------------
(***************************************************************************)
(* How the Central comes to know the Loads of a Smart Node.  The Node      *)
(* keeps a list of Loads and reports it page by page, again and again; the *)
(* Central assembles the pages (CentralNodeRegistry::applyNodeReport),     *)
(* adds and updates Loads with every page and prunes the others when it    *)
(* has all pages of a report.  LoadConfigurationStore holds the settings   *)
(* that were chosen at the Central, by a user or by a planning cycle, and  *)
(* lays them over what the Node reports.  Loads are configured and removed *)
(* by commands of the Central or on the Node's own console.                *)
(*                                                                         *)
(* One Node is enough: no state is shared between the Nodes.  It stays     *)
(* commissioned.  Packets keep their order on a route; one may be lost, or *)
(* arrive twice in a row.  The settings of a Load are its mode, automatic  *)
(* or fixed, and the window of its schedule.  Names, ratings and           *)
(* priorities are left out, and whether an automatic Load is on is seen    *)
(* only where it decides that the settings are written.                    *)
(***************************************************************************)
EXTENDS Integers, Sequences, FiniteSets, Functions

CONSTANTS
    Pins,           \* relay pins
    Times,          \* times of day; 0 is midnight
    NewSettings,    \* settings a new Load is asked to have
    LoadRequests,   \* changes of settings that users ask for
    LegacyEntries,  \* mode and start time by pin, written by an older version
    InitialLoads,   \* the lists of Loads the Node may start with
    PageSize,       \* MAX_LOADS_PER_NODE_PACKET
    Sequences,      \* bound on reportSequence, 2^16 in the code
    MaxInFlight,    \* bound on the packets on their way to the Central
    MaxRequests,    \* bound on requests of users at the Central
    MaxConsole,     \* bound on commands on the Node's console
    MaxFaults,      \* bound on faults, restarts among them
    MaxNodeRestarts, MaxCentralRestarts

ASSUME RegistryAssumption ==
    /\ 0 \in Times
    /\ PageSize \in Nat \ {0}
    /\ Sequences \in Nat \ {0, 1}
    /\ MaxInFlight \in Nat \ {0}
    /\ MaxRequests \in Nat /\ MaxConsole \in Nat /\ MaxFaults \in Nat
    /\ MaxNodeRestarts \in Nat /\ MaxCentralRestarts \in Nat

VARIABLES
    loads,          \* the Node's list of Loads; its flash always agrees with it
    sequence,       \* reportSequence
    report,         \* the report the Node is in the middle of
    up, down,       \* the packets on their way to and from the Central
    known,          \* the settings the Central has of each Load it knows
    assembly,       \* pendingReport
    stored,         \* LoadConfigurationStore: settings by pin
    flash,          \* what was last written of them
    unsaved,        \* history: the last write of them failed
    pending,        \* pendingHardwareCommands
    sent,           \* a REMOVE_LOAD command sent and not yet pending
    requests, console, faults, nodeRestarts, centralRestarts   \* so far

node    == <<loads, sequence, report>>
store   == <<stored, flash, unsaved>>
central == <<known, assembly, store, pending, sent>>
bounds  == <<requests, console, faults, nodeRestarts, centralRestarts>>
vars    == <<node, up, down, central, bounds>>

\* AutoSchedule: one that is disabled has no times.
NoSchedule == [enabled |-> FALSE, start |-> 0, end |-> 0]
Schedule == {NoSchedule} \cup [enabled : {TRUE}, start : Times, end : Times]
Modes == {"AUTO", "FIXED"}

\* A window that ends when it starts is refused wherever settings come in:
\* by both consoles and the MQTT commands (parseSchedule), by the Node and by
\* the store.
isValidSchedule(schedule) == schedule.enabled => schedule.start # schedule.end

Settings == [mode : Modes, schedule : {s \in Schedule : isValidSchedule(s)}]

\* A Load that becomes fixed loses its schedule,
setMode(set, mode) ==
    [mode |-> mode, schedule |-> IF mode = "FIXED" THEN NoSchedule ELSE set.schedule]

\* and only an automatic one gets a new schedule, when that is valid.
setSchedule(set, schedule) ==
    IF set.mode = "AUTO" /\ isValidSchedule(schedule)
    THEN [set EXCEPT !.schedule = schedule] ELSE set

\* The settings of a Load made from a configuration.
OfLoad(set) == setSchedule([mode |-> set.mode, schedule |-> NoSchedule], set.schedule)
LoadSettings == {set \in Settings : OfLoad(set) = set}

\* A change of settings: each part holds the new value, or nothing.
Asked(part, current) == IF part = {} THEN current ELSE CHOOSE value \in part : TRUE
Changed(set, request) ==
    [mode     |-> Asked(request.mode, set.mode),
     schedule |-> Asked(request.schedule, set.schedule)]

Load == [pin : Pins, set : Settings]
Table == UNION {[S -> LoadSettings] : S \in SUBSET Pins}
RequestIds == 1..MaxRequests
Removals == [id : RequestIds, pin : Pins]

NoReport == [page |-> 0, total |-> 0, missing |-> {}]
NoAssembly == [seq |-> 0, total |-> 0, pages |-> {}, pins |-> {}]
NoneSent == {}
Empty == [p \in {} |-> {}]

Downward == [type : {"CONFIGURE"}, load : [pin : Pins, set : [mode : Modes, schedule : Schedule]]]
              \cup [type : {"REMOVE"}, id : RequestIds, pin : Pins]
Upward == [type : {"NODE_REPORT"}, seq : 0..(Sequences - 1), page : Nat, total : Nat,
           loads : Table, missing : SUBSET Pins]
            \cup [type : {"REMOVE_ACK"}, id : RequestIds, pin : Pins, success : BOOLEAN]

Configured == {loads[i].pin : i \in DOMAIN loads}

\* What comes in from outside: no two Loads have the same pin, and a request is
\* about modes and schedules.
ASSUME InputsAssumption ==
    /\ \A list \in InitialLoads :
          /\ list \in Seq(Load)
          /\ \A i, j \in DOMAIN list : list[i].pin = list[j].pin => i = j
    /\ NewSettings \subseteq [mode : Modes, schedule : Schedule]
    /\ \A request \in LoadRequests :
          request.mode \subseteq Modes /\ request.schedule \subseteq Schedule
    /\ DOMAIN LegacyEntries \subseteq Pins
    /\ \A p \in DOMAIN LegacyEntries : LegacyEntries[p].mode \in Modes

TypeOK ==
    /\ loads \in Seq(Load)
    /\ sequence \in 0..(Sequences - 1)
    /\ report \in [page : Nat, total : Nat, missing : SUBSET Pins]
    /\ up \in Seq(Upward)
    /\ down \in Seq(Downward)
    /\ known \in Table
    /\ assembly \in [seq : 0..(Sequences - 1), total : Nat, pages : SUBSET Nat,
                     pins : SUBSET Pins]
    /\ assembly.pages \subseteq 0..(assembly.total - 1)
    /\ stored \in Table /\ flash \in Table /\ unsaved \in BOOLEAN
    /\ pending \subseteq Removals
    /\ sent \in {NoneSent} \cup {{r} : r \in Removals}
    /\ Len(loads) = Cardinality(Configured)

\* Entries of the older version have no end time: their schedule is disabled.
LegacyStored == [p \in DOMAIN LegacyEntries |->
                    [mode |-> LegacyEntries[p].mode, schedule |-> NoSchedule]]

\* An empty list of entries reads like none at all.
loadPersisted(table) == IF table = Empty THEN LegacyStored ELSE table

Init ==
    /\ loads \in InitialLoads
    /\ sequence = 0
    /\ report = NoReport
    /\ up = <<>>
    /\ down = <<>>
    /\ known = Empty
    /\ assembly = NoAssembly
    /\ stored = loadPersisted(Empty)
    /\ flash = Empty
    /\ unsaved = FALSE
    /\ pending = {}
    /\ sent = NoneSent
    /\ requests = 0 /\ console = 0 /\ faults = 0
    /\ nodeRestarts = 0 /\ centralRestarts = 0

Fault == faults < MaxFaults /\ faults' = faults + 1
MayFault(ok) == (IF ok THEN UNCHANGED faults ELSE Fault)
                  /\ UNCHANGED <<requests, console, nodeRestarts, centralRestarts>>
Request == requests < MaxRequests /\ requests' = requests + 1
             /\ UNCHANGED <<console, faults, nodeRestarts, centralRestarts>>

-----------------------------------------------------------------------------
(***************************************************************************)
(* The Node.  Its ESP-NOW task sends the reports and handles the commands  *)
(* of the Central; only the console runs next to it, and nodeMutex can     *)
(* only be busy because of the console.                                    *)
(***************************************************************************)

\* The Loads after the one that is erased move up.
Without(p) ==
    IF p \notin Configured THEN loads
    ELSE LET erased == CHOOSE i \in DOMAIN loads : loads[i].pin = p
         IN  [i \in 1..Len(loads) - 1 |-> loads[IF i < erased THEN i ELSE i + 1]]

computeReportPageCount(n) == IF n = 0 THEN 1 ELSE (n + PageSize - 1) \div PageSize

Console == console < MaxConsole /\ console' = console + 1
             /\ UNCHANGED <<requests, nodeRestarts, centralRestarts>>

\* nodeMutex may stay busy for 200 ms while a command of the console runs.
TakeMutex(ok) ==
    IF ok THEN UNCHANGED bounds ELSE Console /\ UNCHANGED faults

\* missing is a history of the report: the pins that had no Load at some
\* time since it began.
StartReport ==
    /\ report = NoReport
    /\ Len(up) < MaxInFlight
    /\ sequence' = (sequence + 1) % Sequences
    /\ \E ok \in BOOLEAN :
          /\ TakeMutex(ok)
          /\ report' = [page |-> 0, missing |-> Pins \ Configured,
                        total |-> computeReportPageCount(IF ok THEN Len(loads) ELSE 0)]
    /\ UNCHANGED <<loads, up, down, central>>

buildNodeReportPacket ==
    LET start == report.page * PageSize
    IN  [p \in {loads[i].pin : i \in DOMAIN loads \cap (start + 1)..(start + PageSize)} |->
            OfLoad((CHOOSE load \in Range(loads) : load.pin = p).set)]

SendPage ==
    /\ report # NoReport
    /\ Len(up) < MaxInFlight
    /\ \E ok \in BOOLEAN :
          /\ TakeMutex(ok)
          /\ up' = Append(up, [type |-> "NODE_REPORT", seq |-> sequence,
                    page |-> report.page, total |-> report.total, missing |-> report.missing,
                    loads |-> IF ok THEN buildNodeReportPacket ELSE Empty])
    /\ report' = IF report.page + 1 = report.total THEN NoReport
                 ELSE [report EXCEPT !.page = @ + 1]
    /\ UNCHANGED <<loads, sequence, down, central>>

\* Refused when the pin is taken or the window is not one, undone when the
\* flash write fails.  The configuration of a fixed Load keeps its schedule.
configureNewLoad(load, ok) ==
    loads' = IF ok /\ load.pin \notin Configured /\ isValidSchedule(load.set.schedule)
             THEN Append(loads, load) ELSE loads

removeLoad(p, ok) ==
    /\ loads' = IF ok THEN Without(p) ELSE loads
    /\ report' = IF ok /\ report # NoReport
                 THEN [report EXCEPT !.missing = @ \cup {p}] ELSE report

\* The acknowledgement of a CONFIGURE is dropped by the Central, which never
\* has one pending, and so left out.
handleHardwareConfigurationMessage ==
    /\ report = NoReport
    /\ down # <<>>
    /\ down' = Tail(down)
    /\ LET command == Head(down)
       IN  \E ok \in BOOLEAN :
             /\ MayFault(ok)
             /\ \/ /\ command.type = "CONFIGURE"
                   /\ configureNewLoad(command.load, ok)
                   /\ UNCHANGED <<report, up>>
                \/ /\ command.type = "REMOVE"
                   /\ removeLoad(command.pin, ok)
                   /\ up' = Append(up, [type |-> "REMOVE_ACK", id |-> command.id,
                              pin |-> command.pin,
                              success |-> ok /\ command.pin \in Configured])
    /\ UNCHANGED <<sequence, central>>

\* The windows a console accepts: none, or two times that differ.
parseSchedule == {s \in Schedule : s.enabled => s.start # s.end}

\* What the console passes on: `load add` names every setting of the new Load,
\* `load set` at least one.
LoadAdd == {set \in NewSettings : set.schedule \in parseSchedule}

LoadSet ==
    {request \in LoadRequests :
        /\ request.mode # {} \/ request.schedule # {}
        /\ request.schedule \subseteq parseSchedule}

\* Configure, remove or update a Load on the console, under nodeMutex.  An
\* update removes the Load and configures it anew, at the end of the list;
\* when only the second half fails the Load is gone.
ConsoleCommand ==
    /\ Console
    /\ \/ /\ \E p \in Pins, set \in LoadAdd : configureNewLoad([pin |-> p, set |-> set], TRUE)
          /\ UNCHANGED <<report, faults>>
       \/ \E p \in Configured : removeLoad(p, TRUE) /\ UNCHANGED faults
       \/ /\ \E load \in Range(loads), request \in LoadSet :
                loads' = Append(Without(load.pin),
                                [load EXCEPT !.set = Changed(@, request)])
          /\ UNCHANGED <<report, faults>>
       \/ \E p \in Configured : removeLoad(p, TRUE) /\ Fault
    /\ UNCHANGED <<sequence, up, down, central>>

\* The Loads come back from flash; reportSequence starts anew.
NodeRestart ==
    /\ Fault
    /\ nodeRestarts < MaxNodeRestarts
    /\ nodeRestarts' = nodeRestarts + 1
    /\ sequence' = 0
    /\ report' = NoReport
    /\ down' = <<>>
    /\ UNCHANGED <<loads, up, central, requests, console, centralRestarts>>

-----------------------------------------------------------------------------
(***************************************************************************)
(* The Central.                                                            *)
(***************************************************************************)

Merge(first, second) ==
    [p \in DOMAIN first \cup DOMAIN second |->
        IF p \in DOMAIN first THEN first[p] ELSE second[p]]

findConfiguration(p) == p \in DOMAIN stored

\* The entries with a valid schedule replace those of their pins.
setConfiguration(entries) ==
    Merge(Restrict(entries, {p \in DOMAIN entries : isValidSchedule(entries[p].schedule)}), stored)

removeConfiguration(p) == Restrict(stored, DOMAIN stored \ {p})

\* Mutant: the settings of a report stand.
reportedSettings(set, p) == set

\* The settings stored for a pin, laid over those of its Load.
applyToLoad(set, p) ==
    IF findConfiguration(p)
    THEN setSchedule(setMode(set, stored[p].mode), stored[p].schedule)
    ELSE set

applyStoredLoadSettings(table) == [p \in DOMAIN table |-> applyToLoad(table[p], p)]

\* Mutant: the pages of any report of the same length are put together.
SameLength(page) ==
    IF assembly.total # page.total
    THEN [seq |-> page.seq, total |-> page.total, pages |-> {}, pins |-> {}]
    ELSE assembly

\* The assembly a page belongs to: a new one unless the report is the same.
AssemblyFor(page) ==
    IF assembly.seq # page.seq \/ assembly.total # page.total
    THEN [seq |-> page.seq, total |-> page.total, pages |-> {}, pins |-> {}]
    ELSE assembly

\* Mutant: no Load is ever pruned.
KeepAll(table, pins) == table

Prune(table, pins) == Restrict(table, DOMAIN table \cap pins)

validLoadReport(set) == isValidSchedule(set.schedule)

\* A Load whose report is not valid is passed over.
Reported(page) == Restrict(page.loads, {p \in DOMAIN page.loads : validLoadReport(page.loads[p])})

applyNodeReport(page) ==
    LET current  == AssemblyFor(page)
        merged   == Merge(Reported(page), known)
        pages    == current.pages \cup {page.page}
        pins     == current.pins \cup DOMAIN Reported(page)
    IN  IF page.page \in current.pages
        THEN assembly' = current /\ known' = applyStoredLoadSettings(known)
        ELSE IF pages # 0..(page.total - 1)
        THEN /\ assembly' = [current EXCEPT !.pages = pages, !.pins = pins]
             /\ known' = applyStoredLoadSettings(merged)
        ELSE /\ assembly' = [current EXCEPT !.pages = {}, !.pins = {}]
             /\ known' = applyStoredLoadSettings(Prune(merged, pins))

\* The whole store is written at once; a failed write leaves the new
\* settings in memory.
persist(table, ok) ==
    /\ stored' = table
    /\ flash' = IF ok THEN table ELSE flash
    /\ unsaved' = ~ ok

\* CentralNodeRegistry::removeLoad().
removeLoadAtCentral(p) == Restrict(known, DOMAIN known \ {p})

Answers(ack) == [id |-> ack.id, pin |-> ack.pin]

findPendingHardwareCommand(ack) == Answers(ack) \in pending

removePendingHardwareCommand(ack) == pending' = pending \ {Answers(ack)}

\* Only a pending removal is known; its Load and what was stored of it go
\* when the Node has removed it.
handleHardwareConfigurationAcknowledgement(ack, saved) ==
    /\ IF findPendingHardwareCommand(ack) /\ ack.success
       THEN /\ known' = removeLoadAtCentral(ack.pin)
            /\ persist(removeConfiguration(ack.pin), saved)
       ELSE saved /\ UNCHANGED <<known, store>>
    /\ removePendingHardwareCommand(ack)

\* Handle the oldest packet, which may arrive once more.
CentralReceive ==
    /\ up # <<>>
    /\ \E once, saved \in BOOLEAN :
          /\ once \/ saved
          /\ MayFault(once /\ saved)
          /\ up' = IF once THEN Tail(up) ELSE up
          /\ LET packet == Head(up)
             IN  \/ /\ packet.type = "NODE_REPORT"
                    /\ saved
                    /\ applyNodeReport(packet)
                    /\ UNCHANGED <<store, pending>>
                 \/ /\ packet.type = "REMOVE_ACK"
                    /\ handleHardwareConfigurationAcknowledgement(packet, saved)
                    /\ UNCHANGED assembly
    /\ UNCHANGED <<node, down, sent>>

\* A packet is lost on its way, or in the receiver's full queue, or because
\* stateMutex stays busy for 250 ms.
Lose ==
    /\ \/ up # <<>> /\ up' = Tail(up) /\ UNCHANGED down
       \/ down # <<>> /\ down' = Tail(down) /\ UNCHANGED up
    /\ MayFault(FALSE)
    /\ UNCHANGED <<node, central>>

\* Only the start times are compared.
schedulesEqual(first, second) ==
    first.enabled = second.enabled /\ first.start = second.start

\* Mutant: a Load that was not stored yet does not count as changed.
changedEntries(automatic) ==
    {p \in automatic \cap DOMAIN stored : ~ schedulesEqual(stored[p].schedule, known[p].schedule)}

\* The automatic Loads whose settings are not the ones stored.
updateAutoRuntimeState(automatic) ==
    {p \in automatic :
        \/ ~ findConfiguration(p)
        \/ /\ findConfiguration(p)
           /\ \/ stored[p].mode # known[p].mode
              \/ ~ schedulesEqual(stored[p].schedule, known[p].schedule)}

(***************************************************************************)
(* A planning cycle lays the stored settings over the registry and stores  *)
(* those of every automatic Load.  They are written when one has changed,  *)
(* or when some automatic Load goes on or off.                             *)
(***************************************************************************)
PlanningCycle ==
    LET automatic == {p \in DOMAIN known : known[p].mode = "AUTO"}
        entries   == setConfiguration(Restrict(known, automatic))
    IN  /\ known' = applyStoredLoadSettings(known)
        /\ \/ /\ updateAutoRuntimeState(automatic) = {}
              /\ stored' = entries
              /\ UNCHANGED <<flash, unsaved, bounds>>
           \/ /\ automatic # {}
              /\ \E ok \in BOOLEAN : MayFault(ok) /\ persist(entries, ok)
        /\ UNCHANGED <<node, up, down, assembly, pending, sent>>

newSettings(current, request) ==
    LET changed == Changed(current, request)
    IN  IF changed.mode = "FIXED" THEN [changed EXCEPT !.schedule = NoSchedule] ELSE changed

\* What `load set` and `load add` of the Central's console accept, as the
\* Node's do; the MQTT commands accept the same.
LoadSetAtCentral ==
    {request \in LoadRequests :
        /\ request.mode # {} \/ request.schedule # {}
        /\ request.schedule \subseteq parseSchedule}

LoadAddAtCentral == {set \in NewSettings : set.schedule \in parseSchedule}

\* A user sets the mode or the schedule of a Load at the Central.  When the
\* write fails the user is told so, and the settings are in force.
handleLoadCommand(p, request) ==
    /\ p \in DOMAIN known
    /\ isValidSchedule(newSettings(known[p], request).schedule)
    /\ requests < MaxRequests
    /\ requests' = requests + 1
    /\ LET set == newSettings(known[p], request)
       IN  \E ok \in BOOLEAN :
             /\ IF ok THEN UNCHANGED faults ELSE Fault
             /\ persist(setConfiguration([q \in {p} |-> set]), ok)
             /\ known' = [known EXCEPT ![p] = setSchedule(setMode(@, set.mode), set.schedule)]
    /\ UNCHANGED <<node, up, down, assembly, pending, sent, console, nodeRestarts,
                   centralRestarts>>

\* The Node is registered once a report of it was heard.
Registered == assembly.total > 0

\* The packet has room for the end of the window, and only its start is put
\* into it: the end is midnight.
ConfigurePacket(load) ==
    [type |-> "CONFIGURE", load |-> [load EXCEPT !.set.schedule.end = 0]]

\* CONFIGURE_LOAD for a Load of the Node, from the console or by MQTT.
RequestConfigure(load) ==
    /\ Registered
    /\ Request
    /\ down' = Append(down, ConfigurePacket(load))
    /\ UNCHANGED <<node, up, central>>

\* REMOVE_LOAD: the command is sent, and then, under stateMutex again, made
\* pending.
RequestRemove(p) ==
    /\ Registered
    /\ sent = NoneSent
    /\ Request
    /\ down' = Append(down, [type |-> "REMOVE", id |-> requests', pin |-> p])
    /\ sent' = {[id |-> requests', pin |-> p]}
    /\ UNCHANGED <<node, up, known, assembly, store, pending>>

\* Or stateMutex stays busy for 250 ms, and it never becomes pending.
MakePending ==
    /\ sent # NoneSent
    /\ \E ok \in BOOLEAN :
          /\ MayFault(ok)
          /\ pending' = IF ok THEN pending \cup sent ELSE pending
    /\ sent' = NoneSent
    /\ UNCHANGED <<node, up, down, known, assembly, store>>

\* The registry is built anew from reports; what was stored comes back.  (The
\* code numbers its requests from the beginning again, and here they go on: an
\* older answer can only be taken for that of a new removal of the same pin, and
\* says truly whether the Node had that Load and removed it.)
CentralRestart ==
    /\ Fault
    /\ centralRestarts < MaxCentralRestarts
    /\ centralRestarts' = centralRestarts + 1
    /\ known' = Empty
    /\ assembly' = NoAssembly
    /\ stored' = loadPersisted(flash)
    /\ pending' = {}
    /\ sent' = NoneSent
    /\ UNCHANGED <<node, up, down, flash, unsaved, requests, console, nodeRestarts>>

-----------------------------------------------------------------------------
Next ==
    \/ StartReport \/ SendPage \/ handleHardwareConfigurationMessage
    \/ ConsoleCommand \/ NodeRestart
    \/ CentralReceive \/ Lose \/ PlanningCycle
    \/ \E p \in Pins, request \in LoadSetAtCentral : handleLoadCommand(p, request)
    \/ \E p \in Pins, set \in LoadAddAtCentral : RequestConfigure([pin |-> p, set |-> set])
    \/ \E p \in Pins : RequestRemove(p)
    \/ MakePending \/ CentralRestart

Spec == Init /\ [][Next]_vars

\* The Node reports again and again and handles its commands in between; the
\* Central handles what it receives.
FairSpec ==
    /\ Spec
    /\ WF_vars(StartReport) /\ WF_vars(SendPage) /\ WF_vars(CentralReceive)
    /\ SF_vars(handleHardwareConfigurationMessage)

-----------------------------------------------------------------------------
(***************************************************************************)
(* Properties.                                                             *)
(***************************************************************************)

\* The Loads that handling a page of a report takes out of the registry.
Pruned == IF up # <<>> /\ Head(up).type = "NODE_REPORT"
          THEN DOMAIN known \ DOMAIN known' ELSE {}

\* A report only prunes a Load that the Node did not have at some time
\* while it made the report (applyNodeReport: the pages of a report are put
\* together whole, a page that was lost prunes nothing).  This holds as long
\* as the Node does not restart, which would number its reports anew, and
\* nobody uses its console, which changes the list between two pages and
\* keeps nodeMutex busy.
PrunesOnlyRemovedNormally ==
    [][centralRestarts' = centralRestarts /\ nodeRestarts = 0 /\ console = 0
        => \A p \in Pruned : p \in Head(up).missing]_vars

\* Settings chosen at the Central are never replaced by what a Node reports
\* (applyNodeReport followed by applyToLoad, in one critical section).
ChosenSettingsStand ==
    \A p \in DOMAIN known \cap DOMAIN stored : known[p] = stored[p]

\* When faults, restarts and commands have come to an end, the Central knows
\* exactly the Loads the Node has, with the settings chosen at the Central
\* or else the Node's own, for good.
RegistryConverges ==
    <>[](/\ DOMAIN known = Configured
         /\ \A i \in DOMAIN loads :
              LET p == loads[i].pin
              IN  known[p] = IF p \in DOMAIN stored THEN stored[p] ELSE OfLoad(loads[i].set))

\* A restart of the Central brings back the settings that are in force,
\* whichever of a user, a planning cycle and an acknowledged removal changed
\* them last, unless the last write failed (persist, after every change that
\* updateAutoRuntimeState sees).  When no entry is left those of the older
\* version come back.
StoredSettingsSurvive ==
    ~ unsaved => loadPersisted(flash) = loadPersisted(stored)
=============================================================================
