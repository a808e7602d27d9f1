------------------------- MODULE LoadRegistryProofs -------------------------
(***************************************************************************)
(* Proofs about LoadRegistry, for any pins, Loads, requests, page sizes    *)
(* and numbers of faults and restarts.                                     *)
(***************************************************************************)
EXTENDS LoadRegistry, SequenceTheorems, FiniteSetTheorems, TLAPS

-----------------------------------------------------------------------------
(***************************************************************************)
(* The inductive invariant.                                                *)
(***************************************************************************)

\* A Load has a pin of its own, and a page is one of its report.
NodeInv ==
    /\ loads \in Seq(Load)
    /\ \A i, j \in DOMAIN loads : loads[i].pin = loads[j].pin => i = j
    /\ sequence \in 0..(Sequences - 1)
    /\ report \in [page : Nat, total : Nat, missing : SUBSET Pins]
    /\ report # NoReport => report.page < report.total

Page == {packet \in Upward : packet.type = "NODE_REPORT" => packet.page < packet.total}

RadioInv == up \in Seq(Page) /\ down \in Seq(Downward)

AssemblyInv ==
    /\ assembly \in [seq : 0..(Sequences - 1), total : Nat, pages : SUBSET Nat,
                     pins : SUBSET Pins]
    /\ assembly.pages \subseteq 0..(assembly.total - 1)

RemovalInv ==
    /\ requests \in 0..MaxRequests
    /\ pending \subseteq Removals
    /\ sent \in {NoneSent} \cup {{r} : r \in Removals}

\* What is known of a Load is what is stored of it, and what is stored has
\* been written, or could not be.
StoreInv ==
    /\ known \in Table /\ stored \in Table /\ flash \in Table /\ unsaved \in BOOLEAN
    /\ ChosenSettingsStand
    /\ StoredSettingsSurvive

Inv == NodeInv /\ RadioInv /\ AssemblyInv /\ RemovalInv /\ StoreInv

-----------------------------------------------------------------------------
(***************************************************************************)
(* Settings, and tables of settings.                                       *)
(***************************************************************************)
AnySettings == [mode : Modes, schedule : Schedule]

\* No schedule is a valid schedule, and one without an end is a schedule.
LEMMA ScheduleFacts ==
    /\ NoSchedule \in Schedule /\ isValidSchedule(NoSchedule)
    /\ \A s \in Schedule : [s EXCEPT !.end = 0] \in Schedule
<1>1. NoSchedule \in Schedule /\ isValidSchedule(NoSchedule)
    BY DEF Schedule, NoSchedule, isValidSchedule
<1>2. ASSUME NEW s \in Schedule
      PROVE  [s EXCEPT !.end = 0] \in Schedule
    <2>1. CASE s = NoSchedule
        <3>1. [NoSchedule EXCEPT !.end = 0] = NoSchedule
            BY DEF NoSchedule
        <3> QED
            BY <1>1, <2>1, <3>1
    <2>2. CASE s \in [enabled : {TRUE}, start : Times, end : Times]
        <3>1. [s EXCEPT !.end = 0] \in [enabled : {TRUE}, start : Times, end : Times]
            BY <2>2, RegistryAssumption
        <3> QED
            BY <3>1 DEF Schedule
    <2> QED
        BY <2>1, <2>2 DEF Schedule
<1> QED
    BY <1>1, <1>2

\* The settings of a Load: a fixed one has no schedule, that of another is valid.
LEMMA LoadSettingsAre ==
    ASSUME NEW set
    PROVE  set \in LoadSettings <=>
               /\ set \in AnySettings
               /\ isValidSchedule(set.schedule)
               /\ set.mode = "FIXED" => set.schedule = NoSchedule
<1>1. set \in Settings <=> set \in AnySettings /\ isValidSchedule(set.schedule)
    BY DEF Settings, AnySettings
<1>2. ASSUME set \in AnySettings, isValidSchedule(set.schedule)
      PROVE  OfLoad(set) = set <=> (set.mode = "FIXED" => set.schedule = NoSchedule)
    <2>1. set = [mode |-> set.mode, schedule |-> set.schedule] /\ set.mode \in {"AUTO", "FIXED"}
        BY <1>2 DEF AnySettings, Modes
    <2>2. CASE set.mode = "AUTO"
        BY <1>2, <2>1, <2>2 DEF OfLoad, setSchedule
    <2>3. CASE set.mode = "FIXED"
        BY <1>2, <2>1, <2>3 DEF OfLoad, setSchedule
    <2> QED
        BY <2>1, <2>2, <2>3
<1> QED
    BY <1>1, <1>2 DEF LoadSettings

\* A Load made from a configuration is one.
LEMMA OfLoadIs ==
    ASSUME NEW set \in AnySettings
    PROVE  OfLoad(set) \in LoadSettings
<1>1. set.mode \in {"AUTO", "FIXED"} /\ set.schedule \in Schedule
    BY DEF AnySettings, Modes
<1>2. OfLoad(set) = [mode |-> set.mode, schedule |->
                        IF set.mode = "AUTO" /\ isValidSchedule(set.schedule)
                        THEN set.schedule ELSE NoSchedule]
    BY DEF OfLoad, setSchedule
<1>3. OfLoad(set) \in AnySettings
    BY <1>1, <1>2, ScheduleFacts DEF AnySettings, Modes
<1> QED
    BY <1>1, <1>2, <1>3, ScheduleFacts, LoadSettingsAre

\* What is laid over the settings of a Load replaces them.
LEMMA LaidOver ==
    ASSUME NEW old \in LoadSettings, NEW set \in LoadSettings
    PROVE  setSchedule(setMode(old, set.mode), set.schedule) = set
<1>1. /\ set.mode \in {"AUTO", "FIXED"} /\ set = [mode |-> set.mode, schedule |-> set.schedule]
      /\ isValidSchedule(set.schedule) /\ (set.mode = "FIXED" => set.schedule = NoSchedule)
    BY LoadSettingsAre DEF AnySettings, Modes
<1>2. CASE set.mode = "AUTO"
    BY <1>1, <1>2 DEF setSchedule, setMode
<1>3. CASE set.mode = "FIXED"
    BY <1>1, <1>3 DEF setSchedule, setMode
<1> QED
    BY <1>1, <1>2, <1>3

\* A table is a function from some pins to settings.
LEMMA TableFacts ==
    ASSUME NEW table \in Table
    PROVE  /\ DOMAIN table \subseteq Pins /\ table = [p \in DOMAIN table |-> table[p]]
           /\ \A p \in DOMAIN table : table[p] \in LoadSettings
BY DEF Table

\* A function from some pins to settings is a table.
LEMMA TableIs ==
    ASSUME NEW D, D \subseteq Pins, NEW table, table \in [D -> LoadSettings]
    PROVE  table \in Table
BY DEF Table

\* Restrict() keeps the settings of the pins it keeps.
LEMMA RestrictIs ==
    ASSUME NEW table \in Table, NEW D, D \subseteq DOMAIN table
    PROVE  /\ Restrict(table, D) \in Table /\ DOMAIN Restrict(table, D) = D
           /\ \A p \in D : Restrict(table, D)[p] = table[p]
<1>1. Restrict(table, D) \in [D -> LoadSettings]
    BY TableFacts DEF Restrict
<1> QED
    BY <1>1, TableFacts, TableIs DEF Restrict

\* Merge() has the pins of both tables, and the settings of the first where it can.
LEMMA MergeIs ==
    ASSUME NEW first \in Table, NEW second \in Table
    PROVE  /\ Merge(first, second) \in Table
           /\ DOMAIN Merge(first, second) = DOMAIN first \cup DOMAIN second
           /\ \A p \in DOMAIN first \cup DOMAIN second :
                 Merge(first, second)[p] = IF p \in DOMAIN first THEN first[p] ELSE second[p]
<1>1. Merge(first, second) \in [DOMAIN first \cup DOMAIN second -> LoadSettings]
    BY TableFacts DEF Merge
<1> QED
    BY <1>1, TableFacts, TableIs DEF Merge

\* The stored settings, laid over those of a table.
LEMMA AppliedIs ==
    ASSUME stored \in Table, NEW table \in Table
    PROVE  /\ applyStoredLoadSettings(table) \in Table
           /\ DOMAIN applyStoredLoadSettings(table) = DOMAIN table
           /\ \A p \in DOMAIN table :
                 applyStoredLoadSettings(table)[p] = IF p \in DOMAIN stored THEN stored[p] ELSE table[p]
<1>1. \A p \in DOMAIN table : applyToLoad(table[p], p) = IF p \in DOMAIN stored THEN stored[p] ELSE table[p]
    BY TableFacts, LaidOver DEF applyToLoad, findConfiguration
<1>2. applyStoredLoadSettings(table) \in [DOMAIN table -> LoadSettings]
    BY <1>1, TableFacts DEF applyStoredLoadSettings
<1> QED
    BY <1>1, <1>2, TableFacts, TableIs DEF applyStoredLoadSettings

\* The empty table has no pins.
LEMMA EmptyIs == Empty \in Table /\ DOMAIN Empty = {}
<1>1. Empty \in [{} -> LoadSettings]
    BY DEF Empty
<1> QED
    BY <1>1, TableIs

\* What an older version has stored, and what is read back.
LEMMA PersistedIs ==
    /\ LegacyStored \in Table
    /\ \A table \in Table : loadPersisted(table) \in Table
    /\ \A table : loadPersisted(loadPersisted(table)) = loadPersisted(table)
<1>1. LegacyStored \in [DOMAIN LegacyEntries -> LoadSettings]
    <2>1. \A p \in DOMAIN LegacyEntries :
             [mode |-> LegacyEntries[p].mode, schedule |-> NoSchedule] \in LoadSettings
        BY InputsAssumption, ScheduleFacts, LoadSettingsAre DEF AnySettings
    <2> QED
        BY <2>1 DEF LegacyStored
<1>2. LegacyStored \in Table
    BY <1>1, InputsAssumption, TableIs
<1> QED
    BY <1>2 DEF loadPersisted

\* What a user asks for.
LEMMA ChangedIs ==
    ASSUME NEW set \in AnySettings, NEW request \in LoadRequests
    PROVE  /\ Changed(set, request) \in AnySettings
           /\ newSettings(set, request) \in AnySettings
           /\ isValidSchedule(newSettings(set, request).schedule) =>
                 newSettings(set, request) \in LoadSettings
<1>1. /\ request.mode \subseteq Modes /\ request.schedule \subseteq Schedule
      /\ set.mode \in Modes /\ set.schedule \in Schedule
    BY InputsAssumption DEF AnySettings
<1>2. Asked(request.mode, set.mode) \in Modes /\ Asked(request.schedule, set.schedule) \in Schedule
    BY <1>1 DEF Asked
<1>3. Changed(set, request) \in AnySettings
    BY <1>2 DEF Changed, AnySettings
<1>4. newSettings(set, request) \in AnySettings
    BY <1>3, ScheduleFacts DEF newSettings, AnySettings
<1>5. newSettings(set, request).mode = "FIXED" =>
         newSettings(set, request).schedule = NoSchedule
    BY <1>3 DEF newSettings, AnySettings
<1> QED
    BY <1>3, <1>4, <1>5, LoadSettingsAre

\* A window that a console accepts is valid.
LEMMA ParsedIs == \A s \in parseSchedule : s \in Schedule /\ isValidSchedule(s)
BY DEF parseSchedule, isValidSchedule

-----------------------------------------------------------------------------
(***************************************************************************)
(* The list of Loads and the pages of a report.                            *)
(***************************************************************************)
LEMMA LoadsAre ==
    ASSUME NodeInv
    PROVE  /\ Len(loads) \in Nat /\ DOMAIN loads = 1..Len(loads)
           /\ \A i \in 1..Len(loads) : loads[i] \in Load /\ loads[i].pin \in Pins
           /\ Configured \subseteq Pins
           /\ \A load \in Range(loads) : load \in Load /\ load.pin \in Configured
<1>1. /\ Len(loads) \in Nat /\ DOMAIN loads = 1..Len(loads)
      /\ \A i \in 1..Len(loads) : loads[i] \in Load
    BY DEF NodeInv
<1>2. \A load \in Load : load.pin \in Pins
    BY DEF Load
<1> QED
    BY <1>1, <1>2 DEF Configured, Range

\* The list without a pin: the other Loads, each once.
LEMMA WithoutIs ==
    ASSUME NodeInv, NEW p
    PROVE  /\ Without(p) \in Seq(Load)
           /\ \A i \in DOMAIN Without(p) : Without(p)[i].pin # p
           /\ \A i, j \in DOMAIN Without(p) : Without(p)[i].pin = Without(p)[j].pin => i = j
<1>1. loads \in Seq(Load) /\ \A i, j \in 1..Len(loads) : loads[i].pin = loads[j].pin => i = j
    BY LoadsAre DEF NodeInv
<1>2. CASE p \notin Configured
    BY <1>1, <1>2, LoadsAre DEF Without, Configured
<1>3. CASE p \in Configured
    <2> DEFINE erased == CHOOSE i \in DOMAIN loads : loads[i].pin = p
               at(i)  == IF i < erased THEN i ELSE i + 1
    <2>1. erased \in 1..Len(loads) /\ loads[erased].pin = p
        BY <1>3, LoadsAre DEF Configured
    <2>2. Without(p) = [i \in 1..Len(loads) - 1 |-> loads[at(i)]]
        BY <1>3 DEF Without
    <2> HIDE DEF erased
    <2>3. \A i \in 1..Len(loads) - 1 : at(i) \in 1..Len(loads) /\ at(i) # erased
        BY <2>1, LoadsAre
    <2>4. \A i, j \in 1..Len(loads) - 1 : at(i) = at(j) => i = j
        BY <2>1
    <2> HIDE DEF at
    <2>5. Len(loads) - 1 \in Nat
        BY <2>1, LoadsAre
    <2>6. Without(p) \in [1..Len(loads) - 1 -> Load]
        BY <2>2, <2>3, LoadsAre
    <2>7. Without(p) \in Seq(Load) /\ DOMAIN Without(p) = 1..Len(loads) - 1
        BY <2>5, <2>6
    <2>8. \A i \in 1..Len(loads) - 1 : Without(p)[i].pin = loads[at(i)].pin
        BY <2>2
    <2>9. \A i \in 1..Len(loads) - 1 : Without(p)[i].pin # p
        BY <1>1, <2>1, <2>3, <2>8
    <2>10. \A i, j \in 1..Len(loads) - 1 : Without(p)[i].pin = Without(p)[j].pin => i = j
        BY <1>1, <2>3, <2>4, <2>8
    <2> QED
        BY <2>7, <2>9, <2>10
<1> QED
    BY <1>2, <1>3

\* A Load of another pin is added at the end.
LEMMA AppendedIs ==
    ASSUME NEW list \in Seq(Load), NEW load \in Load,
           \A i, j \in DOMAIN list : list[i].pin = list[j].pin => i = j,
           \A i \in DOMAIN list : list[i].pin # load.pin
    PROVE  /\ Append(list, load) \in Seq(Load)
           /\ \A i, j \in DOMAIN Append(list, load) :
                 Append(list, load)[i].pin = Append(list, load)[j].pin => i = j
<1>1. /\ Append(list, load) \in Seq(Load) /\ Len(list) \in Nat
      /\ DOMAIN list = 1..Len(list) /\ DOMAIN Append(list, load) = 1..Len(list) + 1
      /\ \A i \in 1..Len(list) : Append(list, load)[i] = list[i]
      /\ Append(list, load)[Len(list) + 1] = load
    OBVIOUS
<1>2. \A i \in 1..Len(list) + 1 : i \in 1..Len(list) \/ i = Len(list) + 1
    BY <1>1
<1> QED
    BY <1>1, <1>2

\* A report has a page more than it needs to have fewer than one.
LEMMA PageCountIs ==
    ASSUME NEW n \in Nat
    PROVE  computeReportPageCount(n) \in Nat /\ computeReportPageCount(n) > 0
<1>1. PageSize \in Nat /\ PageSize > 0
    BY RegistryAssumption
<1>2. CASE n = 0
    BY <1>2 DEF computeReportPageCount
<1>3. CASE n # 0
    <2>1. n + PageSize - 1 \in Nat /\ n + PageSize - 1 >= PageSize
        BY <1>1, <1>3
    <2>2. \A a, b \in Nat : b > 0 /\ a >= b => a \div b \in Nat /\ a \div b > 0
        OBVIOUS
    <2> QED
        BY <1>1, <1>3, <2>1, <2>2 DEF computeReportPageCount
<1> QED
    BY <1>2, <1>3

\* The page that is built has a list of settings of Loads.
LEMMA PageIs ==
    ASSUME NodeInv
    PROVE  buildNodeReportPacket \in Table
<1> DEFINE start == report.page * PageSize
           shown == {loads[i].pin : i \in DOMAIN loads \cap (start + 1)..(start + PageSize)}
<1>1. buildNodeReportPacket = [p \in shown |-> OfLoad((CHOOSE load \in Range(loads) : load.pin = p).set)]
    BY Zenon DEF buildNodeReportPacket
<1>2. \A p \in shown : p \in Pins /\ \E load \in Range(loads) : load.pin = p
    BY LoadsAre DEF Range
<1> HIDE DEF shown
<1>3. \A p \in shown : OfLoad((CHOOSE load \in Range(loads) : load.pin = p).set) \in LoadSettings
    <2>1. ASSUME NEW p \in shown
          PROVE  (CHOOSE load \in Range(loads) : load.pin = p).set \in AnySettings
        <3>1. (CHOOSE load \in Range(loads) : load.pin = p) \in Range(loads)
            BY <1>2
        <3> QED
            BY <3>1, LoadsAre DEF Load, Settings, AnySettings
    <2> QED
        BY <2>1, OfLoadIs
<1>4. buildNodeReportPacket \in [shown -> LoadSettings]
    BY <1>1, <1>3
<1> QED
    BY <1>2, <1>4, TableIs

-----------------------------------------------------------------------------
(***************************************************************************)
(* The steps of the Node.                                                  *)
(***************************************************************************)
LEMMA CentralKept ==
    ASSUME Inv, UNCHANGED central, requests' = requests
    PROVE  AssemblyInv' /\ RemovalInv' /\ StoreInv'
BY DEF Inv, AssemblyInv, RemovalInv, StoreInv, central, store, ChosenSettingsStand, StoredSettingsSurvive

\* The Node's invariant is about the Node alone.
LEMMA NodeKept ==
    ASSUME Inv, UNCHANGED node
    PROVE  NodeInv'
BY DEF Inv, NodeInv, node

\* What the Node sends.
LEMMA SentUp ==
    ASSUME Inv, NEW packet \in Page
    PROVE  Append(up, packet) \in Seq(Page)
BY DEF Inv, RadioInv

\* What is received next is a page, or a packet for the Node.
LEMMA OldestIs ==
    ASSUME Inv
    PROVE  /\ up # <<>> => Head(up) \in Page /\ Head(up) \in Upward /\ Tail(up) \in Seq(Page)
           /\ down # <<>> => Head(down) \in Downward /\ Tail(down) \in Seq(Downward)
<1>1. up # <<>> => Head(up) \in Page /\ Tail(up) \in Seq(Page)
    BY DEF Inv, RadioInv
<1>2. down # <<>> => Head(down) \in Downward /\ Tail(down) \in Seq(Downward)
    BY DEF Inv, RadioInv
<1> QED
    BY <1>1, <1>2 DEF Page

\* StartReport: the pages of a report are counted once.
LEMMA StartStep ==
    ASSUME Inv, StartReport
    PROVE  Inv'
<1>1. PICK ok \in BOOLEAN :
         report' = [page |-> 0, missing |-> Pins \ Configured,
                    total |-> computeReportPageCount(IF ok THEN Len(loads) ELSE 0)]
    BY DEF StartReport
<1>2. (IF ok THEN Len(loads) ELSE 0) \in Nat
    BY DEF Inv, NodeInv
<1> DEFINE total == computeReportPageCount(IF ok THEN Len(loads) ELSE 0)
<1>3. total \in Nat /\ total > 0
    BY <1>2, PageCountIs
<1> HIDE DEF total
<1>4. report' = [page |-> 0, missing |-> Pins \ Configured, total |-> total]
    BY <1>1 DEF total
<1>5. /\ report' \in [page : Nat, total : Nat, missing : SUBSET Pins]
      /\ report'.page < report'.total
    BY <1>3, <1>4
<1>6. sequence' \in 0..(Sequences - 1)
    <2>1. \A a \in Nat, b \in Nat \ {0} : a % b \in 0..(b - 1)
        OBVIOUS
    <2> QED
        BY <2>1, RegistryAssumption DEF StartReport, Inv, NodeInv
<1>7. UNCHANGED <<loads, up, down, central, requests>>
    BY DEF StartReport, TakeMutex, Console, bounds
<1>8. NodeInv'
    BY <1>5, <1>6, <1>7 DEF Inv, NodeInv
<1>9. RadioInv'
    BY <1>7 DEF Inv, RadioInv
<1> QED
    BY <1>7, <1>8, <1>9, CentralKept DEF Inv

\* SendPage: a page carries what its place in the report calls for.
LEMMA PageStep ==
    ASSUME Inv, SendPage
    PROVE  Inv'
<1>1. PICK ok \in BOOLEAN :
         up' = Append(up, [type |-> "NODE_REPORT", seq |-> sequence,
                    page |-> report.page, total |-> report.total, missing |-> report.missing,
                    loads |-> IF ok THEN buildNodeReportPacket ELSE Empty])
    BY DEF SendPage
<1>2. /\ report # NoReport
      /\ report' = IF report.page + 1 = report.total THEN NoReport
                   ELSE [report EXCEPT !.page = @ + 1]
      /\ UNCHANGED <<loads, sequence, down, central, requests>>
    BY DEF SendPage, TakeMutex, Console, bounds
<1>3. /\ report.page \in Nat /\ report.total \in Nat /\ report.missing \subseteq Pins
      /\ report.page < report.total /\ sequence \in 0..(Sequences - 1)
    BY <1>2 DEF Inv, NodeInv
<1> DEFINE table  == IF ok THEN buildNodeReportPacket ELSE Empty
           packet == [type |-> "NODE_REPORT", seq |-> sequence, page |-> report.page,
                      total |-> report.total, missing |-> report.missing, loads |-> table]
<1>4. table \in Table
    BY PageIs, EmptyIs DEF Inv
<1> HIDE DEF table
<1>5. packet \in Page
    BY <1>3, <1>4 DEF Page, Upward
<1>6. up' = Append(up, packet)
    BY <1>1 DEF table
<1> HIDE DEF packet
<1>7. RadioInv'
    BY <1>2, <1>5, <1>6, SentUp DEF Inv, RadioInv
<1>8. /\ report' \in [page : Nat, total : Nat, missing : SUBSET Pins]
      /\ report' # NoReport => report'.page < report'.total
    <2>1. CASE report.page + 1 = report.total
        BY <1>2, <2>1 DEF NoReport
    <2>2. CASE report.page + 1 # report.total
        BY <1>2, <1>3, <2>2 DEF Inv, NodeInv
    <2> QED
        BY <2>1, <2>2
<1>9. NodeInv'
    BY <1>2, <1>8 DEF Inv, NodeInv
<1> QED
    BY <1>2, <1>7, <1>9, CentralKept DEF Inv

\* A Load that is configured has a free pin and a valid window.
LEMMA ConfiguredIs ==
    ASSUME NodeInv, NEW load \in [pin : Pins, set : AnySettings], NEW ok \in BOOLEAN,
           configureNewLoad(load, ok)
    PROVE  /\ loads' \in Seq(Load)
           /\ \A i, j \in DOMAIN loads' : loads'[i].pin = loads'[j].pin => i = j
<1>1. CASE UNCHANGED loads
    BY <1>1 DEF NodeInv
<1>2. CASE /\ load.pin \notin Configured /\ isValidSchedule(load.set.schedule)
           /\ loads' = Append(loads, load)
    <2>1. load \in Load
        <3>1. load.pin \in Pins /\ load.set \in AnySettings /\ load = [pin |-> load.pin, set |-> load.set]
            OBVIOUS
        <3>2. load.set \in Settings
            BY <1>2, <3>1 DEF AnySettings, Settings
        <3> QED
            BY <3>1, <3>2 DEF Load
    <2>2. \A i \in DOMAIN loads : loads[i].pin # load.pin
        BY <1>2 DEF Configured
    <2> QED
        BY <1>2, <2>1, <2>2, AppendedIs DEF NodeInv
<1> QED
    BY <1>1, <1>2 DEF configureNewLoad

\* removeLoad() leaves one Load per pin, and a report that may go on.
LEMMA RemovedIs ==
    ASSUME NodeInv, NEW p \in Pins, NEW ok \in BOOLEAN, removeLoad(p, ok)
    PROVE  /\ loads' \in Seq(Load)
           /\ \A i, j \in DOMAIN loads' : loads'[i].pin = loads'[j].pin => i = j
           /\ report' \in [page : Nat, total : Nat, missing : SUBSET Pins]
           /\ report' # NoReport => report'.page < report'.total
<1>1. /\ loads' \in Seq(Load)
      /\ \A i, j \in DOMAIN loads' : loads'[i].pin = loads'[j].pin => i = j
    <2>1. loads' = Without(p) \/ loads' = loads
        BY DEF removeLoad
    <2> QED
        BY <2>1, WithoutIs DEF NodeInv
<1>2. CASE report' = report
    BY <1>1, <1>2 DEF NodeInv
<1>3. CASE report # NoReport /\ report' = [report EXCEPT !.missing = @ \cup {p}]
    BY <1>1, <1>3 DEF NodeInv
<1> QED
    BY <1>2, <1>3 DEF removeLoad

\* handleHardwareConfigurationMessage(): the Node stores or removes a Load.
LEMMA CommandStep ==
    ASSUME Inv, handleHardwareConfigurationMessage
    PROVE  Inv'
<1> DEFINE command == Head(down)
<1>1. /\ down' = Tail(down) /\ command \in Downward /\ Tail(down) \in Seq(Downward)
      /\ UNCHANGED <<sequence, central>>
    BY OldestIs DEF handleHardwareConfigurationMessage
<1>2. PICK ok \in BOOLEAN :
         /\ MayFault(ok)
         /\ \/ /\ command.type = "CONFIGURE"
               /\ configureNewLoad(command.load, ok)
               /\ UNCHANGED <<report, up>>
            \/ /\ command.type = "REMOVE"
               /\ removeLoad(command.pin, ok)
               /\ up' = Append(up, [type |-> "REMOVE_ACK", id |-> command.id,
                          pin |-> command.pin,
                          success |-> ok /\ command.pin \in Configured])
    BY DEF handleHardwareConfigurationMessage
<1>3. requests' = requests
    BY <1>2 DEF MayFault
<1> HIDE DEF command
<1>4. CASE command.type = "CONFIGURE" /\ configureNewLoad(command.load, ok) /\ UNCHANGED <<report, up>>
    <2>1. command.load \in [pin : Pins, set : AnySettings]
        BY <1>1, <1>4 DEF Downward, AnySettings
    <2>2. NodeInv'
        BY <1>1, <1>4, <2>1, ConfiguredIs DEF Inv, NodeInv
    <2>3. RadioInv'
        BY <1>1, <1>4 DEF Inv, RadioInv
    <2> QED
        BY <1>1, <1>3, <2>2, <2>3, CentralKept DEF Inv
<1>5. CASE /\ command.type = "REMOVE"
           /\ removeLoad(command.pin, ok)
           /\ up' = Append(up, [type |-> "REMOVE_ACK", id |-> command.id,
                      pin |-> command.pin,
                      success |-> ok /\ command.pin \in Configured])
    <2>1. command.id \in RequestIds /\ command.pin \in Pins
        BY <1>1, <1>5 DEF Downward
    <2>2. NodeInv'
        BY <1>1, <1>5, <2>1, RemovedIs DEF Inv, NodeInv
    <2> DEFINE success == ok /\ command.pin \in Configured
    <2>3. success \in BOOLEAN
        OBVIOUS
    <2> HIDE DEF success
    <2>4. [type |-> "REMOVE_ACK", id |-> command.id, pin |-> command.pin, success |-> success] \in Page
        BY <2>1, <2>3 DEF Page, Upward
    <2>5. up' \in Seq(Page)
        BY <1>5, <2>4, SentUp DEF success
    <2>6. RadioInv'
        BY <1>1, <2>5 DEF RadioInv
    <2> QED
        BY <1>1, <1>3, <2>2, <2>6, CentralKept DEF Inv
<1> QED
    BY <1>2, <1>4, <1>5

\* The console of the Node touches nothing but the Node.
LEMMA ConsoleStep ==
    ASSUME Inv, ConsoleCommand
    PROVE  Inv'
<1>1. UNCHANGED <<sequence, up, down, central, requests>>
    BY DEF ConsoleCommand, Console
<1> SUFFICES NodeInv'
    BY <1>1, CentralKept DEF Inv, RadioInv
<1>2. CASE /\ \E p \in Pins, set \in LoadAdd : configureNewLoad([pin |-> p, set |-> set], TRUE)
           /\ UNCHANGED report
    <2>1. PICK p \in Pins, set \in LoadAdd : configureNewLoad([pin |-> p, set |-> set], TRUE)
        BY <1>2
    <2>2. [pin |-> p, set |-> set] \in [pin : Pins, set : AnySettings] /\ TRUE \in BOOLEAN
        BY InputsAssumption DEF LoadAdd, AnySettings
    <2> QED
        BY <1>1, <1>2, <2>1, <2>2, ConfiguredIs DEF Inv, NodeInv
<1>3. CASE \E p \in Configured : removeLoad(p, TRUE)
    <2>1. PICK p \in Pins : removeLoad(p, TRUE)
        BY <1>3, LoadsAre DEF Inv
    <2> QED
        BY <1>1, <2>1, RemovedIs DEF Inv, NodeInv
<1>4. CASE /\ \E load \in Range(loads), request \in LoadSet :
                loads' = Append(Without(load.pin), [load EXCEPT !.set = Changed(@, request)])
           /\ UNCHANGED report
    <2>1. PICK load \in Range(loads), request \in LoadSet :
             loads' = Append(Without(load.pin), [load EXCEPT !.set = Changed(load.set, request)])
        BY <1>4
    <2>2. load.pin \in Pins /\ load.set \in Settings /\ load.set \in AnySettings
        BY LoadsAre DEF Inv, Load, Settings, AnySettings
    <2>3. request \in LoadRequests /\ request.schedule \subseteq parseSchedule
        BY DEF LoadSet
    <2>4. Changed(load.set, request) \in AnySettings
        BY <2>2, <2>3, ChangedIs
    <2>5. isValidSchedule(Changed(load.set, request).schedule)
        <3>1. Changed(load.set, request).schedule = Asked(request.schedule, load.set.schedule)
            BY DEF Changed
        <3>2. isValidSchedule(load.set.schedule)
            BY <2>2 DEF Settings
        <3>3. request.schedule # {} => (CHOOSE value \in request.schedule : TRUE) \in parseSchedule
            BY <2>3
        <3> QED
            BY <3>1, <3>2, <3>3, ParsedIs DEF Asked
    <2>6. Changed(load.set, request) \in Settings
        BY <2>4, <2>5 DEF AnySettings, Settings
    <2>7. /\ [load EXCEPT !.set = Changed(load.set, request)] \in Load
          /\ [load EXCEPT !.set = Changed(load.set, request)].pin = load.pin
        BY <2>6, LoadsAre DEF Inv, Load
    <2>8. /\ loads' \in Seq(Load)
          /\ \A i, j \in DOMAIN loads' : loads'[i].pin = loads'[j].pin => i = j
        BY <2>1, <2>7, WithoutIs, AppendedIs DEF Inv
    <2> QED
        BY <1>1, <1>4, <2>8 DEF Inv, NodeInv
<1> QED
    BY <1>2, <1>3, <1>4 DEF ConsoleCommand

\* A restarted Node has what it stored, and no report under way.
LEMMA NodeRestartStep ==
    ASSUME Inv, NodeRestart
    PROVE  Inv'
<1>1. /\ sequence' = 0 /\ report' = NoReport /\ down' = <<>>
      /\ UNCHANGED <<loads, up, central, requests>>
    BY DEF NodeRestart
<1>2. NodeInv'
    BY <1>1, RegistryAssumption DEF Inv, NodeInv, NoReport
<1>3. RadioInv'
    BY <1>1 DEF Inv, RadioInv
<1> QED
    BY <1>1, <1>2, <1>3, CentralKept DEF Inv

-----------------------------------------------------------------------------
(***************************************************************************)
(* The steps of the Central.                                               *)
(***************************************************************************)

\* What is in force when the whole store is written.
LEMMA PersistIs ==
    ASSUME Inv, NEW table \in Table, NEW ok \in BOOLEAN, persist(table, ok), known' \in Table,
           \A p \in DOMAIN known' \cap DOMAIN table : known'[p] = table[p]
    PROVE  StoreInv'
<1>1. stored' = table /\ flash' = (IF ok THEN table ELSE flash) /\ unsaved' = ~ ok
    BY DEF persist
<1>2. stored' \in Table /\ flash' \in Table /\ unsaved' \in BOOLEAN
    BY <1>1 DEF Inv, StoreInv
<1>3. ~ unsaved' => flash' = stored'
    BY <1>1
<1>4. ChosenSettingsStand' /\ StoredSettingsSurvive'
    BY <1>1, <1>3 DEF ChosenSettingsStand, StoredSettingsSurvive
<1> QED
    BY <1>2, <1>4 DEF StoreInv

\* Settings that replace those of a table of the same Loads.
LEMMA EntriesAre ==
    ASSUME stored \in Table, NEW entries \in Table
    PROVE  /\ setConfiguration(entries) \in Table
           /\ DOMAIN setConfiguration(entries) = DOMAIN entries \cup DOMAIN stored
           /\ \A p \in DOMAIN entries : setConfiguration(entries)[p] = entries[p]
           /\ \A p \in DOMAIN stored \ DOMAIN entries : setConfiguration(entries)[p] = stored[p]
<1> DEFINE valid == {p \in DOMAIN entries : isValidSchedule(entries[p].schedule)}
<1>1. valid = DOMAIN entries
    BY TableFacts, LoadSettingsAre
<1>2. setConfiguration(entries) = Merge(Restrict(entries, valid), stored)
    BY DEF setConfiguration
<1> HIDE DEF valid
<1> DEFINE first == Restrict(entries, valid)
<1>3. /\ first \in Table /\ DOMAIN first = DOMAIN entries
      /\ \A p \in DOMAIN entries : first[p] = entries[p]
    BY <1>1, RestrictIs
<1> HIDE DEF first
<1>4. /\ Merge(first, stored) \in Table
      /\ DOMAIN Merge(first, stored) = DOMAIN first \cup DOMAIN stored
      /\ \A p \in DOMAIN first : Merge(first, stored)[p] = first[p]
      /\ \A p \in DOMAIN stored \ DOMAIN first : Merge(first, stored)[p] = stored[p]
    <2>1. first \in Table /\ stored \in Table
        BY <1>3
    <2>2. Merge(first, stored) \in Table
        BY <2>1, MergeIs
    <2>3. DOMAIN Merge(first, stored) = DOMAIN first \cup DOMAIN stored
        BY <2>1, MergeIs
    <2>4. \A p \in DOMAIN first : Merge(first, stored)[p] = first[p]
        BY DEF Merge
    <2>5. \A p \in DOMAIN stored \ DOMAIN first : Merge(first, stored)[p] = stored[p]
        BY DEF Merge
    <2> QED
        BY <2>2, <2>3, <2>4, <2>5
<1>5. setConfiguration(entries) = Merge(first, stored)
    BY <1>2 DEF first
<1> QED
    BY <1>3, <1>4, <1>5

\* A page of a report: the Loads are those of the Node, the settings those stored.
LEMMA ReportIs ==
    ASSUME Inv, NEW page \in Page, page.type = "NODE_REPORT", applyNodeReport(page), UNCHANGED store
    PROVE  AssemblyInv' /\ StoreInv'
<1> DEFINE current == AssemblyFor(page)
           merged  == Merge(Reported(page), known)
           pages   == current.pages \cup {page.page}
           pins    == current.pins \cup DOMAIN Reported(page)
<1>1. /\ page.seq \in 0..(Sequences - 1) /\ page.page \in Nat /\ page.total \in Nat
      /\ page.page < page.total /\ page.loads \in Table
    BY DEF Page, Upward
<1>2. Reported(page) \in Table /\ DOMAIN Reported(page) \subseteq Pins
    <2>1. {p \in DOMAIN page.loads : validLoadReport(page.loads[p])} \subseteq DOMAIN page.loads
        OBVIOUS
    <2>2. Reported(page) \in Table
        BY <1>1, <2>1, RestrictIs DEF Reported
    <2> QED
        BY <2>2, TableFacts
<1>3. stored \in Table /\ known \in Table
    BY DEF Inv, StoreInv
<1>4. merged \in Table
    BY <1>2, <1>3, MergeIs
<1>5. /\ current \in [seq : 0..(Sequences - 1), total : Nat, pages : SUBSET Nat, pins : SUBSET Pins]
      /\ current.pages \subseteq 0..(current.total - 1) /\ current.total = page.total
    BY <1>1 DEF AssemblyFor, Inv, AssemblyInv
<1>6. /\ \/ assembly' = current
         \/ assembly' = [current EXCEPT !.pages = pages, !.pins = pins]
         \/ assembly' = [current EXCEPT !.pages = {}, !.pins = {}]
      /\ \/ known' = applyStoredLoadSettings(known)
         \/ known' = applyStoredLoadSettings(merged)
         \/ known' = applyStoredLoadSettings(Prune(merged, pins))
    BY DEF applyNodeReport
<1>7. pages \subseteq 0..(page.total - 1) /\ pages \subseteq Nat /\ pins \subseteq Pins
    BY <1>1, <1>2, <1>5
<1>8. Prune(merged, pins) \in Table
    <2>1. DOMAIN merged \cap pins \subseteq DOMAIN merged
        OBVIOUS
    <2> HIDE DEF merged, pins
    <2> QED
        BY <1>4, <2>1, RestrictIs DEF Prune
<1> HIDE DEF current, merged, pages, pins
<1>9. AssemblyInv'
    <2>1. CASE assembly' = current
        BY <1>5, <2>1 DEF AssemblyInv
    <2>2. CASE assembly' = [current EXCEPT !.pages = pages, !.pins = pins]
        <3>1. assembly' = [seq |-> current.seq, total |-> current.total, pages |-> pages, pins |-> pins]
            BY <1>5, <2>2, Zenon
        <3> QED
            BY <1>5, <1>7, <3>1 DEF AssemblyInv
    <2>3. CASE assembly' = [current EXCEPT !.pages = {}, !.pins = {}]
        <3>1. assembly' = [seq |-> current.seq, total |-> current.total, pages |-> {}, pins |-> {}]
            BY <1>5, <2>3, Zenon
        <3> QED
            BY <1>5, <3>1 DEF AssemblyInv
    <2> QED
        BY <1>6, <2>1, <2>2, <2>3
<1>10. PICK table \in Table : known' = applyStoredLoadSettings(table)
    BY <1>3, <1>4, <1>6, <1>8
<1>11. known' \in Table /\ \A p \in DOMAIN known' \cap DOMAIN stored : known'[p] = stored[p]
    BY <1>3, <1>10, AppliedIs
<1>12. stored' = stored /\ flash' = flash /\ unsaved' = unsaved
    BY DEF store
<1> QED
    BY <1>9, <1>11, <1>12 DEF Inv, StoreInv, ChosenSettingsStand, StoredSettingsSurvive

\* The acknowledgement of a removal: the Load and what was stored of it go.
LEMMA AcknowledgedIs ==
    ASSUME Inv, NEW ack, NEW saved \in BOOLEAN,
           handleHardwareConfigurationAcknowledgement(ack, saved)
    PROVE  StoreInv' /\ pending' \subseteq Removals
<1>1. pending' \subseteq Removals
    BY DEF handleHardwareConfigurationAcknowledgement, removePendingHardwareCommand, Inv, RemovalInv
<1>2. CASE UNCHANGED <<known, store>>
    BY <1>1, <1>2 DEF Inv, StoreInv, store, ChosenSettingsStand, StoredSettingsSurvive
<1>3. CASE known' = removeLoadAtCentral(ack.pin) /\ persist(removeConfiguration(ack.pin), saved)
    <2>1. stored \in Table /\ known \in Table /\ \A p \in DOMAIN known \cap DOMAIN stored : known[p] = stored[p]
        BY DEF Inv, StoreInv, ChosenSettingsStand
    <2>2. /\ known' \in Table /\ DOMAIN known' = DOMAIN known \ {ack.pin}
          /\ \A p \in DOMAIN known' : known'[p] = known[p]
        <3>1. DOMAIN known \ {ack.pin} \subseteq DOMAIN known
            OBVIOUS
        <3> QED
            BY <1>3, <2>1, <3>1, RestrictIs DEF removeLoadAtCentral
    <2>3. /\ removeConfiguration(ack.pin) \in Table
          /\ DOMAIN removeConfiguration(ack.pin) = DOMAIN stored \ {ack.pin}
          /\ \A p \in DOMAIN removeConfiguration(ack.pin) : removeConfiguration(ack.pin)[p] = stored[p]
        <3>1. DOMAIN stored \ {ack.pin} \subseteq DOMAIN stored
            OBVIOUS
        <3> QED
            BY <2>1, <3>1, RestrictIs DEF removeConfiguration
    <2>4. \A p \in DOMAIN known' \cap DOMAIN removeConfiguration(ack.pin) :
             known'[p] = removeConfiguration(ack.pin)[p]
        BY <2>1, <2>2, <2>3
    <2> QED
        BY <1>1, <1>3, <2>2, <2>3, <2>4, PersistIs
<1> QED
    BY <1>2, <1>3 DEF handleHardwareConfigurationAcknowledgement

\* CentralReceive: a page is taken up, ignored, or completes a report.
LEMMA ReceiveStep ==
    ASSUME Inv, CentralReceive
    PROVE  Inv'
<1>1. up # <<>> /\ Head(up) \in Page /\ Tail(up) \in Seq(Page)
    BY OldestIs DEF CentralReceive
<1>2. PICK once \in BOOLEAN, saved \in BOOLEAN :
         /\ MayFault(once /\ saved)
         /\ up' = IF once THEN Tail(up) ELSE up
         /\ \/ /\ Head(up).type = "NODE_REPORT"
               /\ applyNodeReport(Head(up))
               /\ UNCHANGED <<store, pending>>
            \/ /\ Head(up).type = "REMOVE_ACK"
               /\ handleHardwareConfigurationAcknowledgement(Head(up), saved)
               /\ UNCHANGED assembly
    BY DEF CentralReceive
<1>3. UNCHANGED <<node, down, sent>> /\ requests' = requests
    BY <1>2 DEF CentralReceive, MayFault
<1>4. NodeInv' /\ RadioInv'
    BY <1>1, <1>2, <1>3, NodeKept DEF Inv, RadioInv
<1>5. CASE Head(up).type = "NODE_REPORT" /\ applyNodeReport(Head(up)) /\ UNCHANGED <<store, pending>>
    <2>1. AssemblyInv' /\ StoreInv'
        BY <1>1, <1>5, ReportIs
    <2>2. RemovalInv'
        BY <1>3, <1>5 DEF Inv, RemovalInv
    <2> QED
        BY <1>4, <2>1, <2>2 DEF Inv
<1>6. CASE handleHardwareConfigurationAcknowledgement(Head(up), saved) /\ UNCHANGED assembly
    <2>1. StoreInv' /\ pending' \subseteq Removals
        BY <1>6, AcknowledgedIs
    <2>2. RemovalInv' /\ AssemblyInv'
        BY <1>3, <1>6, <2>1 DEF Inv, RemovalInv, AssemblyInv
    <2> QED
        BY <1>4, <2>1, <2>2 DEF Inv
<1> QED
    BY <1>2, <1>5, <1>6

\* A packet that is lost changes only what is on its way.
LEMMA LoseStep ==
    ASSUME Inv, Lose
    PROVE  Inv'
<1>1. UNCHANGED <<node, central>> /\ requests' = requests
    BY DEF Lose, MayFault
<1>2. RadioInv'
    <2>1. CASE up # <<>> /\ up' = Tail(up) /\ UNCHANGED down
        BY <2>1, OldestIs DEF Inv, RadioInv
    <2>2. CASE down # <<>> /\ down' = Tail(down) /\ UNCHANGED up
        BY <2>2, OldestIs DEF Inv, RadioInv
    <2> QED
        BY <2>1, <2>2 DEF Lose
<1> QED
    BY <1>1, <1>2, NodeKept, CentralKept DEF Inv

\* Nothing of the Node, of the radio, of the report or of the removals.
LEMMA StoreStep ==
    ASSUME Inv, UNCHANGED <<node, up, down, assembly, pending, sent>>, requests' \in 0..MaxRequests,
           StoreInv'
    PROVE  Inv'
<1>1. NodeInv'
    BY NodeKept
<1> QED
    BY <1>1 DEF Inv, RadioInv, AssemblyInv, RemovalInv

\* What is laid over known settings are the settings known already; when no
\* automatic Load differs from what is stored, nothing new is stored.
LEMMA PlanningStep ==
    ASSUME Inv, PlanningCycle
    PROVE  Inv'
<1> DEFINE automatic == {p \in DOMAIN known : known[p].mode = "AUTO"}
           entries   == setConfiguration(Restrict(known, automatic))
<1>1. /\ known' = applyStoredLoadSettings(known)
      /\ UNCHANGED <<node, up, down, assembly, pending, sent>>
      /\ \/ /\ updateAutoRuntimeState(automatic) = {}
            /\ stored' = entries
            /\ UNCHANGED <<flash, unsaved, bounds>>
         \/ \E ok \in BOOLEAN : MayFault(ok) /\ persist(entries, ok)
    BY DEF PlanningCycle
<1>2. /\ known \in Table /\ stored \in Table
      /\ \A p \in DOMAIN known \cap DOMAIN stored : known[p] = stored[p]
    BY DEF Inv, StoreInv, ChosenSettingsStand
<1>3. /\ known' \in Table /\ DOMAIN known' = DOMAIN known
      /\ \A p \in DOMAIN known : known'[p] = known[p]
    BY <1>1, <1>2, AppliedIs
<1>4. automatic \subseteq DOMAIN known
    OBVIOUS
<1> HIDE DEF automatic
<1>5. /\ Restrict(known, automatic) \in Table /\ DOMAIN Restrict(known, automatic) = automatic
      /\ \A p \in automatic : Restrict(known, automatic)[p] = known[p]
    BY <1>2, <1>4, RestrictIs
<1>6. /\ entries \in Table
      /\ DOMAIN entries = automatic \cup DOMAIN stored
      /\ \A p \in automatic : entries[p] = known[p]
      /\ \A p \in DOMAIN stored \ automatic : entries[p] = stored[p]
    BY <1>2, <1>5, EntriesAre
<1>7. \A p \in DOMAIN known' \cap DOMAIN entries : known'[p] = entries[p]
    BY <1>2, <1>3, <1>6
<1>8. CASE /\ updateAutoRuntimeState(automatic) = {}
           /\ stored' = entries
           /\ UNCHANGED <<flash, unsaved, bounds>>
    <2>1. automatic \subseteq DOMAIN stored
        BY <1>8 DEF updateAutoRuntimeState, findConfiguration
    <2> HIDE DEF entries
    <2>2. \A p \in DOMAIN stored : entries[p] = stored[p]
        BY <1>2, <1>4, <1>6, <2>1
    <2>3. entries = stored
        BY <1>2, <1>6, <2>1, <2>2, TableFacts
    <2>4. StoreInv'
        BY <1>3, <1>7, <1>8, <2>3 DEF Inv, StoreInv, ChosenSettingsStand, StoredSettingsSurvive
    <2>5. requests' = requests
        BY <1>8 DEF bounds
    <2> QED
        BY <1>1, <2>4, <2>5, StoreStep DEF Inv, RemovalInv
<1>9. ASSUME NEW ok \in BOOLEAN, MayFault(ok), persist(entries, ok)
      PROVE  Inv'
    <2> HIDE DEF entries
    <2>1. StoreInv'
        BY <1>3, <1>6, <1>7, <1>9, PersistIs
    <2>2. requests' = requests
        BY <1>9 DEF MayFault
    <2> QED
        BY <1>1, <2>1, <2>2, StoreStep DEF Inv, RemovalInv
<1> QED
    BY <1>1, <1>8, <1>9

\* handleLoadCommand(): the settings of a known Load are changed and stored.
LEMMA UserStep ==
    ASSUME Inv, NEW p \in Pins, NEW request \in LoadSetAtCentral, handleLoadCommand(p, request)
    PROVE  Inv'
<1> DEFINE set == newSettings(known[p], request)
           entry == [q \in {p} |-> set]
<1>1. /\ p \in DOMAIN known /\ isValidSchedule(set.schedule) /\ requests < MaxRequests
      /\ requests' = requests + 1
      /\ known' = [known EXCEPT ![p] = setSchedule(setMode(@, set.mode), set.schedule)]
      /\ UNCHANGED <<node, up, down, assembly, pending, sent>>
      /\ \E ok \in BOOLEAN : persist(setConfiguration(entry), ok)
    BY DEF handleLoadCommand
<1>2. /\ known \in Table /\ stored \in Table
      /\ \A q \in DOMAIN known \cap DOMAIN stored : known[q] = stored[q]
    BY DEF Inv, StoreInv, ChosenSettingsStand
<1>3. set \in LoadSettings
    <2>1. request \in LoadRequests /\ known[p] \in AnySettings
        BY <1>1, <1>2, TableFacts, LoadSettingsAre DEF LoadSetAtCentral
    <2> QED
        BY <1>1, <2>1, ChangedIs
<1> HIDE DEF set
<1>4. entry \in Table /\ DOMAIN entry = {p} /\ entry[p] = set
    <2>1. entry \in [{p} -> LoadSettings]
        BY <1>3
    <2> QED
        BY <2>1, TableIs
<1>5. /\ known' \in Table /\ DOMAIN known' = DOMAIN known
      /\ \A q \in DOMAIN known : known'[q] = IF q = p THEN set ELSE known[q]
    <2>1. known = [q \in DOMAIN known |-> known[q]] /\ DOMAIN known \subseteq Pins
          /\ \A q \in DOMAIN known : known[q] \in LoadSettings
        BY <1>2, TableFacts
    <2>2. setSchedule(setMode(known[p], set.mode), set.schedule) = set
        BY <1>1, <1>3, <2>1, LaidOver
    <2>3. /\ DOMAIN known' = DOMAIN known
          /\ \A q \in DOMAIN known : known'[q] = IF q = p THEN set ELSE known[q]
        BY <1>1, <2>2
    <2>4. known' \in [DOMAIN known -> LoadSettings]
        BY <1>1, <1>3, <2>1, <2>2
    <2> QED
        BY <2>1, <2>3, <2>4, TableIs
<1> HIDE DEF entry
<1>6. /\ setConfiguration(entry) \in Table
      /\ DOMAIN setConfiguration(entry) = {p} \cup DOMAIN stored
      /\ setConfiguration(entry)[p] = set
      /\ \A q \in DOMAIN stored \ {p} : setConfiguration(entry)[q] = stored[q]
    BY <1>2, <1>4, EntriesAre
<1>7. \A q \in DOMAIN known' \cap DOMAIN setConfiguration(entry) : known'[q] = setConfiguration(entry)[q]
    BY <1>2, <1>5, <1>6
<1>8. StoreInv'
    BY <1>1, <1>5, <1>6, <1>7, PersistIs
<1>9. requests' \in 0..MaxRequests
    BY <1>1, RegistryAssumption DEF Inv, RemovalInv
<1> QED
    BY <1>1, <1>8, <1>9, StoreStep

\* A step that leaves the store alone.
LEMMA StoreKept ==
    ASSUME Inv, UNCHANGED <<known, store>>
    PROVE  StoreInv'
BY DEF Inv, StoreInv, store, ChosenSettingsStand, StoredSettingsSurvive

\* A request number stays within its bound.
LEMMA RequestTyped ==
    ASSUME Inv, Request
    PROVE  requests' \in 0..MaxRequests /\ requests' \in RequestIds
BY RegistryAssumption DEF Inv, RemovalInv, Request, RequestIds

\* RequestConfigure(): a configuration is sent to the Node.
LEMMA ConfigureStep ==
    ASSUME Inv, NEW p \in Pins, NEW set \in LoadAddAtCentral, RequestConfigure([pin |-> p, set |-> set])
    PROVE  Inv'
<1> DEFINE packet == ConfigurePacket([pin |-> p, set |-> set])
<1>1. Request /\ down' = Append(down, packet) /\ UNCHANGED <<node, up, central>>
    BY DEF RequestConfigure
<1>2. packet \in Downward
    <2>1. set \in AnySettings /\ set.schedule \in Schedule /\ set.mode \in Modes
        BY InputsAssumption DEF LoadAddAtCentral, AnySettings
    <2>2. [set.schedule EXCEPT !.end = 0] \in Schedule
        BY <2>1, ScheduleFacts
    <2>3. [pin |-> p, set |-> [set EXCEPT !.schedule = [set.schedule EXCEPT !.end = 0]]]
             \in [pin : Pins, set : [mode : Modes, schedule : Schedule]]
        BY <2>1, <2>2 DEF AnySettings
    <2>4. packet = [type |-> "CONFIGURE", load |->
                      [pin |-> p, set |-> [set EXCEPT !.schedule = [set.schedule EXCEPT !.end = 0]]]]
        BY DEF ConfigurePacket
    <2> QED
        BY <2>3, <2>4 DEF Downward
<1> HIDE DEF packet
<1>3. RadioInv'
    BY <1>1, <1>2 DEF Inv, RadioInv
<1>4. NodeInv'
    BY <1>1, NodeKept
<1>5. AssemblyInv' /\ RemovalInv'
    BY <1>1, RequestTyped DEF Inv, AssemblyInv, RemovalInv, central
<1>6. StoreInv'
    BY <1>1, StoreKept DEF central
<1> QED
    BY <1>3, <1>4, <1>5, <1>6 DEF Inv

\* RequestRemove(): a removal is sent before it is made pending.
LEMMA RemoveStep ==
    ASSUME Inv, NEW p \in Pins, RequestRemove(p)
    PROVE  Inv'
<1>1. /\ Request
      /\ down' = Append(down, [type |-> "REMOVE", id |-> requests', pin |-> p])
      /\ sent' = {[id |-> requests', pin |-> p]}
      /\ UNCHANGED <<node, up, known, assembly, store, pending>>
    BY DEF RequestRemove
<1>2. requests' \in 0..MaxRequests /\ requests' \in RequestIds
    BY <1>1, RequestTyped
<1>3. /\ [type |-> "REMOVE", id |-> requests', pin |-> p] \in Downward
      /\ [id |-> requests', pin |-> p] \in Removals
    BY <1>2 DEF Downward, Removals
<1>4. RadioInv'
    BY <1>1, <1>3 DEF Inv, RadioInv
<1>5. NodeInv'
    BY <1>1, NodeKept
<1>6. AssemblyInv' /\ RemovalInv'
    BY <1>1, <1>2, <1>3 DEF Inv, AssemblyInv, RemovalInv
<1>7. StoreInv'
    BY <1>1, StoreKept
<1> QED
    BY <1>4, <1>5, <1>6, <1>7 DEF Inv

\* MakePending: the removal just sent is noted, or the note fails.
LEMMA PendingStep ==
    ASSUME Inv, MakePending
    PROVE  Inv'
<1>1. /\ sent' = NoneSent /\ pending' \in {pending, pending \cup sent} /\ requests' = requests
      /\ UNCHANGED <<node, up, down, known, assembly, store>>
    BY DEF MakePending, MayFault
<1>2. RemovalInv'
    BY <1>1 DEF Inv, RemovalInv, NoneSent
<1>3. NodeInv' /\ RadioInv' /\ AssemblyInv'
    BY <1>1, NodeKept DEF Inv, RadioInv, AssemblyInv
<1>4. StoreInv'
    BY <1>1, StoreKept
<1> QED
    BY <1>2, <1>3, <1>4 DEF Inv

\* What a restart reads back is what a second one would read back.
LEMMA CentralRestartStep ==
    ASSUME Inv, CentralRestart
    PROVE  Inv'
<1>1. /\ known' = Empty /\ assembly' = NoAssembly /\ stored' = loadPersisted(flash)
      /\ pending' = {} /\ sent' = NoneSent
      /\ UNCHANGED <<node, up, down, flash, unsaved, requests>>
    BY DEF CentralRestart
<1>2. NodeInv' /\ RadioInv'
    BY <1>1, NodeKept DEF Inv, RadioInv
<1>3. AssemblyInv' /\ RemovalInv'
    BY <1>1, RegistryAssumption DEF Inv, AssemblyInv, RemovalInv, NoAssembly, NoneSent
<1>4. StoreInv'
    <2>1. stored' \in Table /\ loadPersisted(stored') = loadPersisted(flash)
        BY <1>1, PersistedIs DEF Inv, StoreInv
    <2>2. known' \in Table /\ DOMAIN known' = {}
        BY <1>1, EmptyIs
    <2>3. ChosenSettingsStand' /\ StoredSettingsSurvive'
        BY <1>1, <2>1, <2>2 DEF ChosenSettingsStand, StoredSettingsSurvive
    <2> QED
        BY <1>1, <2>1, <2>2, <2>3 DEF Inv, StoreInv
<1> QED
    BY <1>2, <1>3, <1>4 DEF Inv

-----------------------------------------------------------------------------
(***************************************************************************)
(* The theorems.                                                           *)
(***************************************************************************)
LEMMA InitInv == Init => Inv
<1> SUFFICES ASSUME Init PROVE Inv
    OBVIOUS
<1>1. NodeInv
    BY InputsAssumption, RegistryAssumption DEF Init, NodeInv, NoReport
<1>2. RadioInv
    BY DEF Init, RadioInv
<1>3. AssemblyInv /\ RemovalInv
    BY RegistryAssumption DEF Init, AssemblyInv, RemovalInv, NoAssembly, NoneSent
<1>4. StoreInv
    <2>1. stored \in Table /\ loadPersisted(stored) = loadPersisted(flash)
        BY EmptyIs, PersistedIs DEF Init
    <2> QED
        BY <2>1, EmptyIs DEF Init, StoreInv, ChosenSettingsStand, StoredSettingsSurvive
<1> QED
    BY <1>1, <1>2, <1>3, <1>4 DEF Inv

\* Every step keeps the invariant.
LEMMA NextInv == Inv /\ [Next]_vars => Inv'
<1> SUFFICES ASSUME Inv, [Next]_vars PROVE Inv'
    OBVIOUS
<1>1. CASE StartReport \/ SendPage \/ handleHardwareConfigurationMessage
           \/ ConsoleCommand \/ NodeRestart
    BY <1>1, StartStep, PageStep, CommandStep, ConsoleStep, NodeRestartStep
<1>2. CASE CentralReceive \/ Lose \/ PlanningCycle
    BY <1>2, ReceiveStep, LoseStep, PlanningStep
<1>3. CASE MakePending \/ CentralRestart
    BY <1>3, PendingStep, CentralRestartStep
<1>4. ASSUME NEW p \in Pins, NEW request \in LoadSetAtCentral, handleLoadCommand(p, request)
      PROVE  Inv'
    BY <1>4, UserStep
<1>5. ASSUME NEW p \in Pins, NEW set \in LoadAddAtCentral, RequestConfigure([pin |-> p, set |-> set])
      PROVE  Inv'
    BY <1>5, ConfigureStep
<1>6. ASSUME NEW p \in Pins, RequestRemove(p)
      PROVE  Inv'
    BY <1>6, RemoveStep
<1>7. CASE UNCHANGED vars
    <2>1. UNCHANGED <<node, up, down, central>> /\ requests' = requests
        BY <1>7 DEF vars, bounds
    <2> QED
        BY <2>1, NodeKept, CentralKept DEF Inv, RadioInv
<1> QED
    BY <1>1, <1>2, <1>3, <1>4, <1>5, <1>6, <1>7 DEF Next

\* As many Loads as pins.
LEMMA PinsAreCounted ==
    ASSUME NodeInv
    PROVE  Len(loads) = Cardinality(Configured)
<1> DEFINE pins == [i \in 1..Len(loads) |-> loads[i].pin]
<1>1. Len(loads) \in Nat /\ DOMAIN loads = 1..Len(loads)
    BY LoadsAre
<1>2. pins \in Surjection(1..Len(loads), Configured)
    BY <1>1 DEF Surjection, Configured
<1>3. pins \in Injection(1..Len(loads), Configured)
    BY <1>1, <1>2 DEF Surjection, Injection, IsInjective, NodeInv
<1>4. IsFiniteSet(1..Len(loads)) /\ Cardinality(1..Len(loads)) = Len(loads)
    <2> DEFINE n == Len(loads)
    <2>1. 1 \in Int /\ n \in Int /\ n \in Nat
        BY <1>1
    <2> HIDE DEF n
    <2>2. IsFiniteSet(1..n) /\ Cardinality(1..n) = IF 1 > n THEN 0 ELSE n - 1 + 1
        BY <2>1, FS_Interval
    <2>3. Cardinality(1..n) = n
        BY <2>1, <2>2
    <2> QED
        BY <2>2, <2>3 DEF n
<1> HIDE DEF pins
<1>5. Cardinality(Configured) = Cardinality(1..Len(loads))
    BY <1>2, <1>3, <1>4, FS_Surjection
<1> QED
    BY <1>4, <1>5

(* The Node's Loads, the packets, the registry and the store have their     *)
(* types, pages belong to their report, and no two Loads share a pin.       *)
THEOREM Inductive == Spec => []Inv
BY InitInv, NextInv, PTL DEF Spec

(* The type invariant: among it, as many Loads as pins in use.              *)
THEOREM TypeCorrect == Spec => []TypeOK
<1>1. Inv => TypeOK
    <2> SUFFICES ASSUME Inv PROVE TypeOK
        OBVIOUS
    <2>1. Len(loads) = Cardinality(Configured)
        BY PinsAreCounted DEF Inv
    <2>2. up \in Seq(Upward)
        <3>1. Page \subseteq Upward
            BY DEF Page
        <3> QED
            BY <3>1 DEF Inv, RadioInv
    <2> QED
        BY <2>1, <2>2 DEF Inv, NodeInv, RadioInv, AssemblyInv, RemovalInv, StoreInv, TypeOK
<1> QED
    BY <1>1, Inductive, PTL

(* Whatever the Node reports, in whichever order with the requests of users *)
(* and the planning cycles, the settings in the registry are the stored     *)
(* ones (applyStoredLoadSettings after applyNodeReport).                    *)
THEOREM ChosenStand == Spec => []ChosenSettingsStand
<1>1. Inv => ChosenSettingsStand
    BY DEF Inv, StoreInv
<1> QED
    BY <1>1, Inductive, PTL

(* Unless the last write failed, a restart of the Central brings back the   *)
(* settings in force, although planning cycles that see no change store     *)
(* them without writing, and schedulesEqual compares the start times only.  *)
THEOREM StoredSurvive == Spec => []StoredSettingsSurvive
<1>1. Inv => StoredSettingsSurvive
    BY DEF Inv, StoreInv
<1> QED
    BY <1>1, Inductive, PTL

-----------------------------------------------------------------------------
(***************************************************************************)
(* What is pruned.  A page names its report by a number that comes back    *)
(* after Sequences reports, so it must be shown that a page and the pages  *)
(* it is put together with are of one report.  The argument counts the     *)
(* reports without end: n is the one the Node is making or has made, a the *)
(* one the assembly belongs to, of[i] the one of the packet up[i], and     *)
(* lists[k] the Node's list while it made report k.  A report of which     *)
(* nothing is on its way any more, although it is newer than the assembly, *)
(* has lost a packet (lost), and there are no more of these than faults.   *)
(* This is of a Node that has not restarted and whose console was not used.*)
(***************************************************************************)
PinsOf(list) == {list[i].pin : i \in DOMAIN list}

\* The pins on a page of a list.
Shown(list, page) ==
    {list[i].pin : i \in DOMAIN list \cap (page * PageSize + 1)..(page * PageSize + PageSize)}

Pages(list) == computeReportPageCount(Len(list))

\* A page of the report with this number, of this list.
PageOf(page, k, list) ==
    /\ page.seq = k % Sequences /\ page.total = Pages(list)
    /\ page.missing = Pins \ PinsOf(list)
    /\ DOMAIN page.loads = Shown(list, page.page)

Numbered(n, a, of) ==
    /\ n \in Nat /\ a \in 0..n /\ sequence = n % Sequences
    /\ of \in Seq(Nat) /\ Len(of) = Len(up)
    /\ \A i \in 1..Len(up) : a <= of[i] /\ of[i] <= n
    /\ \A i, j \in 1..Len(up) : i <= j => of[i] <= of[j]

Told(of, lists) ==
    /\ lists \in [Nat -> Seq(Load)]
    /\ \A i \in 1..Len(up) : up[i].type = "NODE_REPORT" => PageOf(up[i], of[i], lists[of[i]])

AssembledFrom(a, list) ==
    assembly.total # 0 =>
        /\ assembly.seq = a % Sequences /\ assembly.total = Pages(list)
        /\ assembly.pins = UNION {Shown(list, page) : page \in assembly.pages}

Reporting(list) ==
    report # NoReport =>
        /\ loads = list /\ report.total = Pages(list)
        /\ report.missing = Pins \ PinsOf(list)

OnItsWay(k, of) == \E i \in 1..Len(up) : up[i].type = "NODE_REPORT" /\ of[i] = k

Covered(n, a, of, lost) ==
    /\ IsFiniteSet(lost) /\ Cardinality(lost) <= faults
    /\ \A k \in (a + 1)..n :
          k \in lost \/ OnItsWay(k, of) \/ (k = n /\ report # NoReport /\ report.page = 0)

Traced(n, a, of, lists, lost) ==
    /\ Numbered(n, a, of) /\ Told(of, lists) /\ AssembledFrom(a, lists[a])
    /\ Reporting(lists[n]) /\ Covered(n, a, of, lost)

ReportsInv ==
    /\ faults \in 0..MaxFaults /\ console \in Nat /\ nodeRestarts \in Nat
    /\ centralRestarts \in Nat
    /\ console = 0 /\ nodeRestarts = 0 =>
          \E n, a, of, lists, lost : Traced(n, a, of, lists, lost)

\* The remainder is what a multiple leaves.
LEMMA Remainder ==
    ASSUME NEW S \in Nat \ {0}, NEW y \in Nat, NEW q \in Int, NEW r \in 0..(S - 1), y = q * S + r
    PROVE  y % S = r
<1> DEFINE e == y \div S
           m == y % S
<1>1. e \in Int /\ m \in 0..(S - 1) /\ y = e * S + m
    <2>1. \A z \in Nat : z \div S \in Int /\ z % S \in 0..(S - 1) /\ z = (z \div S) * S + (z % S)
        OBVIOUS
    <2> QED
        BY <2>1
<1> HIDE DEF e, m
<1>2. (e - q) * S = e * S - q * S
    BY <1>1
<1>3. e * S \in Int /\ q * S \in Int
    BY <1>1
<1>4. (e - q) * S = r - m /\ e - q \in Int
    BY <1>1, <1>2, <1>3
<1>5. \A d \in Int : d >= 1 => d * S >= S
    OBVIOUS
<1>6. \A d \in Int : d <= -1 => d * S <= -S
    OBVIOUS
<1>7. e - q = 0
    BY <1>1, <1>4, <1>5, <1>6
<1>8. r - m = 0
    BY <1>4, <1>7
<1>9. r = m
    BY <1>1, <1>8
<1> QED
    BY <1>9 DEF m

\* Numbers that come back after S.
LEMMA NextNumber ==
    ASSUME NEW S \in Nat \ {0}, NEW x \in Nat
    PROVE  (x + 1) % S = ((x % S) + 1) % S
<1> DEFINE q == x \div S
           r == x % S
<1>1. q \in Int /\ r \in 0..(S - 1) /\ x = q * S + r
    OBVIOUS
<1> HIDE DEF q, r
<1>2. CASE r + 1 < S
    <2>1. (x + 1) % S = r + 1
        <3>1. r + 1 \in 0..(S - 1) /\ x + 1 = q * S + (r + 1) /\ x + 1 \in Nat
            BY <1>1, <1>2
        <3> QED
            BY <1>1, <3>1, Remainder
    <2>2. (r + 1) % S = r + 1
        <3>1. r + 1 \in 0..(S - 1) /\ r + 1 = 0 * S + (r + 1) /\ r + 1 \in Nat
            BY <1>1, <1>2
        <3> QED
            BY <3>1, Remainder
    <2> QED
        BY <2>1, <2>2 DEF r
<1>3. CASE r + 1 = S
    <2>1. (x + 1) % S = 0
        <3>1. x + 1 = (q + 1) * S + 0 /\ x + 1 \in Nat /\ 0 \in 0..(S - 1) /\ q + 1 \in Int
            BY <1>1, <1>3
        <3> QED
            BY <3>1, Remainder
    <2>2. (r + 1) % S = 0
        <3>1. r + 1 = 1 * S + 0 /\ r + 1 \in Nat /\ 0 \in 0..(S - 1)
            BY <1>1, <1>3
        <3> QED
            BY <3>1, Remainder
    <2> QED
        BY <2>1, <2>2 DEF r
<1> QED
    BY <1>1, <1>2, <1>3

\* Numbers that are near each other differ.
LEMMA SameNumber ==
    ASSUME NEW S \in Nat \ {0}, NEW x \in Nat, NEW y \in Nat, x <= y, y - x < S, x % S = y % S
    PROVE  x = y
<1> DEFINE q == x \div S
           r == x % S
           e == y \div S
<1>1. q \in Int /\ r \in 0..(S - 1) /\ x = q * S + r
    OBVIOUS
<1>2. e \in Int /\ y = e * S + r
    OBVIOUS
<1> HIDE DEF q, r, e
<1>3. (e - q) * S = y - x /\ e - q \in Int
    BY <1>1, <1>2
<1>4. \A d \in Int : d >= 1 => d * S >= S
    OBVIOUS
<1>5. \A d \in Int : d <= -1 => d * S <= -S
    OBVIOUS
<1>6. e - q = 0
    BY <1>3, <1>4, <1>5
<1> QED
    BY <1>3, <1>6

\* All pages of a list together show all its pins.
LEMMA AllShown ==
    ASSUME NEW list \in Seq(Load)
    PROVE  UNION {Shown(list, page) : page \in 0..(Pages(list) - 1)} = PinsOf(list)
<1>1. Len(list) \in Nat /\ DOMAIN list = 1..Len(list)
    OBVIOUS
<1>2. PageSize \in Nat /\ PageSize > 0
    BY RegistryAssumption
<1>3. ASSUME NEW i \in 1..Len(list)
      PROVE  \E page \in 0..(Pages(list) - 1) :
                i \in (page * PageSize + 1)..(page * PageSize + PageSize)
    <2> DEFINE page == (i - 1) \div PageSize
    <2>1. page \in Nat /\ page * PageSize <= i - 1 /\ i - 1 < page * PageSize + PageSize
        BY <1>1, <1>2
    <2>2. Pages(list) = (Len(list) + PageSize - 1) \div PageSize
        BY <1>1 DEF Pages, computeReportPageCount
    <2>3. page < Pages(list)
        BY <1>1, <1>2, <2>1, <2>2
    <2>4. page \in 0..(Pages(list) - 1)
        <3>1. Pages(list) \in Nat
            BY <1>1, PageCountIs DEF Pages
        <3> QED
            BY <2>1, <2>3, <3>1
    <2> HIDE DEF page
    <2>5. i \in (page * PageSize + 1)..(page * PageSize + PageSize)
        <3>1. page * PageSize \in Int
            BY <1>2, <2>1
        <3> QED
            BY <1>1, <1>2, <2>1, <3>1
    <2> QED
        BY <2>4, <2>5
<1> QED
    BY <1>1, <1>3 DEF Shown, PinsOf

\* What is left of a sequence when the first member is taken off.
LEMMA TailIs ==
    ASSUME NEW T, NEW s \in Seq(T), s # <<>>
    PROVE  /\ Len(s) \in Nat /\ Len(s) >= 1 /\ Head(s) = s[1] /\ Head(s) \in T
           /\ Tail(s) \in Seq(T) /\ Len(Tail(s)) = Len(s) - 1
           /\ \A i \in 1..(Len(s) - 1) : Tail(s)[i] = s[i + 1] /\ i + 1 \in 1..Len(s)
OBVIOUS

\* What is left of a sequence, and what is added to it.
LEMMA AppendIs ==
    ASSUME NEW T, NEW s \in Seq(T), NEW x \in T
    PROVE  /\ Append(s, x) \in Seq(T) /\ Len(Append(s, x)) = Len(s) + 1 /\ Len(s) \in Nat
           /\ \A i \in 1..Len(s) : Append(s, x)[i] = s[i]
           /\ Append(s, x)[Len(s) + 1] = x
           /\ \A i \in 1..(Len(s) + 1) : i \in 1..Len(s) \/ i = Len(s) + 1
OBVIOUS

\* A step that touches neither the packets to the Central, the assembly nor a
\* report that is being made.
LEMMA TraceKept ==
    ASSUME NEW n, NEW a, NEW of, NEW lists, NEW lost, Traced(n, a, of, lists, lost),
           UNCHANGED <<sequence, up, assembly, report>>, UNCHANGED loads \/ report = NoReport,
           faults \in Nat, faults' \in {faults, faults + 1}
    PROVE  Traced(n, a, of, lists, lost)'
<1>1. Numbered(n, a, of)'
    BY DEF Traced, Numbered
<1>2. Told(of, lists)'
    BY DEF Traced, Told
<1>3. AssembledFrom(a, lists[a])'
    BY DEF Traced, AssembledFrom
<1>4. Reporting(lists[n])'
    BY DEF Traced, Reporting
<1>5. Covered(n, a, of, lost)'
    <2>1. Cardinality(lost) <= faults' /\ IsFiniteSet(lost)
        <3>1. Cardinality(lost) \in Nat
            BY FS_CardinalityType DEF Traced, Covered
        <3> QED
            BY <3>1 DEF Traced, Covered
    <2> QED
        BY <2>1 DEF Traced, Covered, OnItsWay
<1> QED
    BY <1>1, <1>2, <1>3, <1>4, <1>5 DEF Traced

\* StartReport: one more report, of the list as it is.
LEMMA TraceStarts ==
    ASSUME Inv, NEW n, NEW a, NEW of, NEW lists, NEW lost, Traced(n, a, of, lists, lost),
           StartReport, console' = 0, console \in Nat
    PROVE  \E next, table : Traced(next, a, of, table, lost)'
<1>1. /\ n \in Nat /\ a \in 0..n /\ sequence = n % Sequences /\ of \in Seq(Nat) /\ Len(of) = Len(up)
      /\ \A i \in 1..Len(up) : a <= of[i] /\ of[i] <= n /\ of[i] \in Nat
      /\ \A i, j \in 1..Len(up) : i <= j => of[i] <= of[j]
    <2>1. Numbered(n, a, of)
        BY DEF Traced
    <2> QED
        BY <2>1 DEF Numbered
<1>2. /\ report = NoReport /\ sequence' = (sequence + 1) % Sequences
      /\ UNCHANGED <<loads, up, assembly, faults>>
      /\ report' = [page |-> 0, missing |-> Pins \ Configured,
                    total |-> computeReportPageCount(Len(loads))]
    <2>1. PICK ok \in BOOLEAN :
             /\ TakeMutex(ok)
             /\ report' = [page |-> 0, missing |-> Pins \ Configured,
                           total |-> computeReportPageCount(IF ok THEN Len(loads) ELSE 0)]
        BY DEF StartReport
    <2>2. ok /\ UNCHANGED faults
        BY <2>1 DEF TakeMutex, Console, bounds
    <2> QED
        BY <2>1, <2>2 DEF StartReport, central
<1>3. Numbered(n + 1, a, of)'
    <2>1. sequence' = (n + 1) % Sequences
        BY <1>1, <1>2, NextNumber, RegistryAssumption
    <2> QED
        BY <1>1, <1>2, <2>1 DEF Numbered
<1>4. PICK table : /\ table \in [Nat -> Seq(Load)] /\ table[n + 1] = loads
                   /\ \A k \in Nat : k <= n => table[k] = lists[k]
    <2> DEFINE table == [lists EXCEPT ![n + 1] = loads]
    <2>1. lists \in [Nat -> Seq(Load)] /\ loads \in Seq(Load)
        BY DEF Traced, Told, Inv, NodeInv
    <2>2. table \in [Nat -> Seq(Load)] /\ table[n + 1] = loads
        BY <1>1, <2>1
    <2>3. \A k \in Nat : k <= n => table[k] = lists[k]
        BY <1>1, <2>1
    <2> QED
        BY <2>2, <2>3
<1>5. Told(of, table)'
    <2>1. \A i \in 1..Len(up) : table[of[i]] = lists[of[i]]
        BY <1>1, <1>4
    <2>2. \A i \in 1..Len(up) : up[i].type = "NODE_REPORT" => PageOf(up[i], of[i], table[of[i]])
        BY <2>1 DEF Traced, Told
    <2> QED
        BY <1>2, <1>4, <2>2 DEF Told
<1>6. AssembledFrom(a, table[a])'
    <2>1. table[a] = lists[a]
        BY <1>1, <1>4
    <2> QED
        BY <1>2, <2>1 DEF Traced, AssembledFrom
<1>7. Reporting(table[n + 1])'
    BY <1>2, <1>4 DEF Reporting, Pages, PinsOf, Configured
<1>8. Covered(n + 1, a, of, lost)'
    <2>1. /\ IsFiniteSet(lost) /\ Cardinality(lost) <= faults'
          /\ \A k \in (a + 1)..n : k \in lost \/ OnItsWay(k, of)
        BY <1>2 DEF Traced, Covered
    <2>2. \A k : OnItsWay(k, of)' <=> OnItsWay(k, of)
        BY <1>2 DEF OnItsWay
    <2>3. report' # NoReport /\ report'.page = 0
        <3>1. computeReportPageCount(Len(loads)) # 0
            BY PageCountIs DEF Inv, NodeInv
        <3> QED
            BY <1>2, <3>1 DEF NoReport
    <2>4. \A k \in (a + 1)..(n + 1) : k \in (a + 1)..n \/ k = n + 1
        BY <1>1
    <2>5. \A k \in (a + 1)..(n + 1) :
             k \in lost \/ OnItsWay(k, of)' \/ (k = n + 1 /\ report' # NoReport /\ report'.page = 0)
        BY <2>1, <2>2, <2>3, <2>4
    <2> QED
        BY <2>1, <2>5 DEF Covered
<1>9. Traced(n + 1, a, of, table, lost)'
    BY <1>3, <1>5, <1>6, <1>7, <1>8 DEF Traced
<1> QED
    BY <1>9

\* A packet that the Node sends is of the latest report.
LEMMA TraceGrows ==
    ASSUME Inv, NEW n, NEW a, NEW of, NEW lists, Numbered(n, a, of), Told(of, lists),
           NEW packet \in Page, up' = Append(up, packet), sequence' = sequence,
           packet.type = "NODE_REPORT" => PageOf(packet, n, lists[n])
    PROVE  /\ Numbered(n, a, Append(of, n))' /\ Told(Append(of, n), lists)'
           /\ \A k : OnItsWay(k, of) => OnItsWay(k, Append(of, n))'
           /\ packet.type = "NODE_REPORT" => OnItsWay(n, Append(of, n))'
<1> DEFINE m == Len(up)
<1>1. /\ n \in Nat /\ a \in 0..n /\ sequence = n % Sequences /\ of \in Seq(Nat) /\ Len(of) = m
      /\ \A i \in 1..m : a <= of[i] /\ of[i] <= n
      /\ \A i, j \in 1..m : i <= j => of[i] <= of[j]
    BY DEF Numbered
<1>2. PICK grown : grown = Append(of, n)
    OBVIOUS
<1>3. /\ grown \in Seq(Nat) /\ Len(grown) = m + 1 /\ m \in Nat
      /\ \A i \in 1..m : grown[i] = of[i]
      /\ grown[m + 1] = n
    BY <1>1, <1>2, AppendIs
<1>4. /\ Len(up') = m + 1 /\ up'[m + 1] = packet
      /\ \A i \in 1..m : up'[i] = up[i]
      /\ \A i \in 1..(m + 1) : i \in 1..m \/ i = m + 1
    BY AppendIs DEF Inv, RadioInv
<1>5. Numbered(n, a, grown)'
    <2>1. \A i \in 1..(m + 1) : a <= grown[i] /\ grown[i] <= n
        <3>1. a <= grown[m + 1] /\ grown[m + 1] <= n
            BY <1>1, <1>3
        <3>2. \A i \in 1..m : a <= grown[i] /\ grown[i] <= n
            BY <1>1, <1>3
        <3> QED
            BY <1>4, <3>1, <3>2
    <2>2. \A i, j \in 1..(m + 1) : i <= j => grown[i] <= grown[j]
        <3>1. \A i, j \in 1..(m + 1) : i <= j => (i \in 1..m /\ j \in 1..m) \/ j = m + 1
            BY <1>3
        <3> QED
            BY <1>1, <1>3, <2>1, <3>1
    <2> QED
        BY <1>1, <1>3, <1>4, <2>1, <2>2 DEF Numbered
<1>6. Told(grown, lists)'
    <2>1. \A i \in 1..m : up[i].type = "NODE_REPORT" => PageOf(up[i], of[i], lists[of[i]])
        BY DEF Told
    <2>2. \A i \in 1..(m + 1) : up'[i].type = "NODE_REPORT" => PageOf(up'[i], grown[i], lists[grown[i]])
        BY <1>3, <1>4, <2>1
    <2> QED
        BY <1>4, <2>2 DEF Told
<1>7. \A k : OnItsWay(k, of) => OnItsWay(k, grown)'
    <2>1. \A i \in 1..m : i \in 1..(m + 1)
        BY <1>3
    <2> QED
        BY <1>3, <1>4, <2>1 DEF OnItsWay
<1>8. packet.type = "NODE_REPORT" => OnItsWay(n, grown)'
    <2>1. m + 1 \in 1..(m + 1)
        BY <1>3
    <2> QED
        BY <1>3, <1>4, <2>1 DEF OnItsWay
<1> QED
    BY <1>2, <1>5, <1>6, <1>7, <1>8

\* SendPage: the page shows its part of the list.
LEMMA TraceSends ==
    ASSUME Inv, NEW n, NEW a, NEW of, NEW lists, NEW lost, Traced(n, a, of, lists, lost),
           SendPage, console' = 0, console \in Nat
    PROVE  \E more : Traced(n, a, more, lists, lost)'
<1> DEFINE packet == [type |-> "NODE_REPORT", seq |-> sequence, page |-> report.page,
                      total |-> report.total, missing |-> report.missing,
                      loads |-> buildNodeReportPacket]
<1>1. /\ report # NoReport /\ up' = Append(up, packet) /\ UNCHANGED <<loads, sequence, assembly, faults>>
      /\ report' = IF report.page + 1 = report.total THEN NoReport
                   ELSE [report EXCEPT !.page = @ + 1]
    <2>1. PICK ok \in BOOLEAN :
             /\ TakeMutex(ok)
             /\ up' = Append(up, [type |-> "NODE_REPORT", seq |-> sequence,
                       page |-> report.page, total |-> report.total, missing |-> report.missing,
                       loads |-> IF ok THEN buildNodeReportPacket ELSE Empty])
        BY DEF SendPage
    <2>2. ok /\ UNCHANGED faults
        BY <2>1 DEF TakeMutex, Console, bounds
    <2> QED
        BY <2>1, <2>2 DEF SendPage, central
<1>2. /\ report.page \in Nat /\ report.total \in Nat /\ report.missing \subseteq Pins
      /\ report.page < report.total /\ sequence \in 0..(Sequences - 1)
      /\ report \in [page : Nat, total : Nat, missing : SUBSET Pins]
    BY <1>1 DEF Inv, NodeInv
<1>3. loads = lists[n] /\ report.total = Pages(lists[n]) /\ report.missing = Pins \ PinsOf(lists[n])
    BY <1>1 DEF Traced, Reporting
<1>4. packet \in Page
    <2>1. buildNodeReportPacket \in Table
        BY PageIs DEF Inv
    <2> QED
        BY <1>2, <2>1 DEF Page, Upward
<1>5. PageOf(packet, n, lists[n])
    <2>1. DOMAIN buildNodeReportPacket = Shown(loads, report.page)
        BY DEF buildNodeReportPacket, Shown
    <2>2. sequence = n % Sequences
        BY DEF Traced, Numbered
    <2> QED
        BY <1>3, <2>1, <2>2 DEF PageOf
<1>6. packet.type = "NODE_REPORT"
    OBVIOUS
<1> HIDE DEF packet
<1>7. /\ Numbered(n, a, Append(of, n))' /\ Told(Append(of, n), lists)'
      /\ \A k : OnItsWay(k, of) => OnItsWay(k, Append(of, n))'
      /\ OnItsWay(n, Append(of, n))'
    BY <1>1, <1>4, <1>5, <1>6, TraceGrows DEF Traced
<1>8. AssembledFrom(a, lists[a])'
    BY <1>1 DEF Traced, AssembledFrom
<1>9. Reporting(lists[n])'
    <2>1. report' # NoReport => report'.total = report.total /\ report'.missing = report.missing
        BY <1>1, <1>2
    <2> QED
        BY <1>1, <1>3, <2>1 DEF Reporting
<1>10. Covered(n, a, Append(of, n), lost)'
    <2>1. /\ IsFiniteSet(lost) /\ Cardinality(lost) <= faults'
          /\ \A k \in (a + 1)..n : k \in lost \/ OnItsWay(k, of) \/ k = n
        BY <1>1 DEF Traced, Covered
    <2>2. \A k \in (a + 1)..n : k \in lost \/ OnItsWay(k, Append(of, n))'
        BY <1>7, <2>1
    <2> QED
        BY <2>1, <2>2 DEF Covered
<1>11. Traced(n, a, Append(of, n), lists, lost)'
    BY <1>7, <1>8, <1>9, <1>10 DEF Traced
<1> QED
    BY <1>11

\* What is left on the way when the first packet is taken off.
LEMMA TraceShrinks ==
    ASSUME Inv, NEW n, NEW a, NEW of, NEW lists, Numbered(n, a, of), Told(of, lists),
           up # <<>>, up' = Tail(up), sequence' = sequence, NEW b \in {a, of[1]}
    PROVE  /\ Numbered(n, b, Tail(of))' /\ Told(Tail(of), lists)'
           /\ \A k : OnItsWay(k, of) =>
                        OnItsWay(k, Tail(of))' \/ (Head(up).type = "NODE_REPORT" /\ k = of[1])
<1> DEFINE m == Len(up)
<1>1. /\ n \in Nat /\ a \in 0..n /\ sequence = n % Sequences /\ of \in Seq(Nat) /\ Len(of) = m
      /\ \A i \in 1..m : a <= of[i] /\ of[i] <= n
      /\ \A i, j \in 1..m : i <= j => of[i] <= of[j]
    BY DEF Numbered
<1>2. /\ m \in Nat /\ m >= 1 /\ Head(up) = up[1] /\ Len(up') = m - 1
      /\ \A i \in 1..(m - 1) : up'[i] = up[i + 1] /\ i + 1 \in 1..m
    <2>1. up \in Seq(Page)
        BY DEF Inv, RadioInv
    <2> QED
        BY <2>1, TailIs
<1>3. of # <<>>
    BY <1>1, <1>2
<1>4. PICK rest : rest = Tail(of)
    OBVIOUS
<1>5. /\ rest \in Seq(Nat) /\ Len(rest) = m - 1
      /\ \A i \in 1..(m - 1) : rest[i] = of[i + 1]
    BY <1>1, <1>3, <1>4, TailIs
<1>6. b \in 0..n /\ \A i \in 1..m : b <= of[i]
    <2>1. 1 \in 1..m /\ \A i \in 1..m : 1 <= i /\ of[i] \in Nat
        BY <1>1, <1>2
    <2> QED
        BY <1>1, <2>1
<1>7. Numbered(n, b, rest)'
    <2>1. \A i \in 1..(m - 1) : b <= rest[i] /\ rest[i] <= n
        BY <1>1, <1>2, <1>5, <1>6
    <2>2. \A i, j \in 1..(m - 1) : i <= j => rest[i] <= rest[j]
        BY <1>1, <1>2, <1>5
    <2> QED
        BY <1>1, <1>2, <1>5, <1>6, <2>1, <2>2 DEF Numbered
<1>8. Told(rest, lists)'
    <2>1. \A i \in 1..m : up[i].type = "NODE_REPORT" => PageOf(up[i], of[i], lists[of[i]])
        BY DEF Told
    <2>2. \A i \in 1..(m - 1) : up'[i].type = "NODE_REPORT" => PageOf(up'[i], rest[i], lists[rest[i]])
        BY <1>2, <1>5, <2>1
    <2> QED
        BY <1>2, <2>2 DEF Told
<1>9. ASSUME NEW k, OnItsWay(k, of)
      PROVE  OnItsWay(k, rest)' \/ (Head(up).type = "NODE_REPORT" /\ k = of[1])
    <2>1. PICK i \in 1..m : up[i].type = "NODE_REPORT" /\ of[i] = k
        BY <1>9 DEF OnItsWay
    <2>2. CASE i = 1
        BY <1>2, <2>1, <2>2
    <2>3. CASE i # 1
        <3>1. i - 1 \in 1..(m - 1) /\ (i - 1) + 1 = i
            BY <1>2, <2>3
        <3>2. up'[i - 1].type = "NODE_REPORT" /\ rest[i - 1] = k
            BY <1>2, <1>5, <2>1, <3>1
        <3> QED
            BY <1>2, <3>1, <3>2 DEF OnItsWay
    <2> QED
        BY <2>2, <2>3
<1> QED
    BY <1>4, <1>7, <1>8, <1>9

\* The next page to come is of the report of the assembly, or of one of the
\* Sequences - 1 that follow: those between have lost a packet each.
LEMMA NearReport ==
    ASSUME MaxFaults + 1 < Sequences, faults \in 0..MaxFaults,
           Inv, NEW n, NEW a, NEW of, NEW lost, Numbered(n, a, of), Covered(n, a, of, lost), up # <<>>
    PROVE  of[1] \in Nat /\ a \in Nat /\ a <= of[1] /\ of[1] - a < Sequences
<1>1. /\ n \in Nat /\ a \in 0..n /\ of \in Seq(Nat) /\ Len(of) = Len(up)
      /\ \A i \in 1..Len(up) : a <= of[i] /\ of[i] <= n
      /\ \A i, j \in 1..Len(up) : i <= j => of[i] <= of[j]
    BY DEF Numbered
<1>2. 1 \in 1..Len(up) /\ \A i \in 1..Len(up) : 1 <= i /\ of[i] \in Nat
    <2>1. up \in Seq(Page)
        BY DEF Inv, RadioInv
    <2>2. Len(up) \in Nat /\ Len(up) >= 1
        BY <2>1, TailIs
    <2> QED
        BY <1>1, <2>2
<1>3. of[1] \in Nat /\ a <= of[1] /\ of[1] <= n /\ a \in Nat
    BY <1>1, <1>2
<1> DEFINE between == (a + 1)..(of[1] - 1)
<1>4. between \subseteq lost
    <2> SUFFICES ASSUME NEW k \in between PROVE k \in lost
        OBVIOUS
    <2>1. k \in (a + 1)..n /\ k < of[1] /\ k # n /\ k \in Int
        BY <1>1, <1>3
    <2>2. ~ OnItsWay(k, of)
        <3>1. \A i \in 1..Len(up) : of[1] <= of[i]
            BY <1>1, <1>2
        <3>2. \A i \in 1..Len(up) : of[i] # k
            BY <1>2, <1>3, <2>1, <3>1
        <3> QED
            BY <3>2 DEF OnItsWay
    <2> QED
        BY <2>1, <2>2 DEF Covered
<1>5. Cardinality(between) <= faults
    <2>1. IsFiniteSet(lost) /\ Cardinality(lost) <= faults
        BY DEF Covered
    <2>2. between \in SUBSET lost
        BY <1>4
    <2>3. IsFiniteSet(between) /\ Cardinality(between) <= Cardinality(lost)
        BY <2>1, <2>2, FS_Subset
    <2>4. Cardinality(between) \in Nat /\ Cardinality(lost) \in Nat
        BY <2>1, <2>3, FS_CardinalityType
    <2> QED
        BY <2>1, <2>3, <2>4
<1>6. Cardinality(between) = IF a + 1 > of[1] - 1 THEN 0 ELSE (of[1] - 1) - (a + 1) + 1
    <2>1. a + 1 \in Int /\ of[1] - 1 \in Int
        BY <1>3
    <2> QED
        BY <2>1, FS_Interval
<1> HIDE DEF between
<1> QED
    BY <1>3, <1>5, <1>6, RegistryAssumption

\* applyNodeReport(): a page is put together with pages of its own report
\* only, and so all of them are there when the others are pruned.
LEMMA PageIsTrue ==
    ASSUME MaxFaults + 1 < Sequences, faults \in 0..MaxFaults,
           Inv, NEW n, NEW a, NEW of, NEW lists, NEW lost, Traced(n, a, of, lists, lost),
           up # <<>>, Head(up).type = "NODE_REPORT", applyNodeReport(Head(up))
    PROVE  /\ AssembledFrom(of[1], lists[of[1]])'
           /\ DOMAIN known \ DOMAIN known' \subseteq Head(up).missing
<1>1. PICK k, list, page : k = of[1] /\ list = lists[of[1]] /\ page = Head(up)
    OBVIOUS
<1>2. /\ page \in Page /\ page \in Upward /\ page.type = "NODE_REPORT" /\ applyNodeReport(page)
      /\ page = up[1] /\ 1 \in 1..Len(up)
    <2>1. up \in Seq(Page)
        BY DEF Inv, RadioInv
    <2>2. Len(up) \in Nat /\ Len(up) >= 1 /\ Head(up) = up[1] /\ Head(up) \in Page
        BY <2>1, TailIs
    <2> QED
        BY <1>1, <2>2 DEF Page
<1>3. /\ page.page \in Nat /\ page.total \in Nat /\ page.page < page.total /\ page.total # 0
      /\ page.loads \in Table
    BY <1>2 DEF Page, Upward
<1>4. /\ PageOf(page, k, list) /\ k \in Nat /\ a \in Nat /\ a <= k /\ k - a < Sequences
      /\ list \in Seq(Load)
    <2>1. of[1] \in Nat /\ a \in Nat /\ a <= of[1] /\ of[1] - a < Sequences
        BY NearReport DEF Traced
    <2> QED
        BY <1>1, <1>2, <2>1 DEF Traced, Told
<1> DEFINE current == AssemblyFor(page)
           merged  == Merge(Reported(page), known)
           pages   == current.pages \cup {page.page}
           pins    == current.pins \cup DOMAIN Reported(page)
<1>5. DOMAIN Reported(page) = Shown(list, page.page) /\ Reported(page) \in Table
    <2>1. \A p \in DOMAIN page.loads : validLoadReport(page.loads[p])
        BY <1>3, TableFacts, LoadSettingsAre DEF validLoadReport
    <2>2. {p \in DOMAIN page.loads : validLoadReport(page.loads[p])} = DOMAIN page.loads
        BY <2>1
    <2>3. Reported(page) = Restrict(page.loads, DOMAIN page.loads)
        BY <2>2 DEF Reported
    <2> QED
        BY <1>3, <1>4, <2>3, RestrictIs DEF PageOf
<1>6. /\ current.seq = k % Sequences /\ current.total = Pages(list)
      /\ current.pins = UNION {Shown(list, g) : g \in current.pages}
      /\ current = [seq |-> current.seq, total |-> current.total, pages |-> current.pages,
                    pins |-> current.pins]
    <2>1. CASE assembly.seq # page.seq \/ assembly.total # page.total
        <3>1. current = [seq |-> page.seq, total |-> page.total, pages |-> {}, pins |-> {}]
            BY <2>1 DEF AssemblyFor
        <3> QED
            BY <1>4, <3>1 DEF PageOf
    <2>2. CASE assembly.seq = page.seq /\ assembly.total = page.total
        <3>1. /\ assembly.seq = a % Sequences
              /\ assembly.pins = UNION {Shown(lists[a], g) : g \in assembly.pages}
            BY <1>3, <2>2 DEF Traced, AssembledFrom
        <3>2. a % Sequences = k % Sequences
            BY <1>4, <2>2, <3>1 DEF PageOf
        <3>3. a = k
            BY <1>4, <3>2, SameNumber, RegistryAssumption
        <3>4. current = assembly
            BY <2>2 DEF AssemblyFor
        <3>5. assembly = [seq |-> assembly.seq, total |-> assembly.total, pages |-> assembly.pages,
                          pins |-> assembly.pins]
            BY DEF Inv, AssemblyInv
        <3> QED
            BY <1>1, <1>4, <2>2, <3>1, <3>3, <3>4, <3>5 DEF PageOf
    <2> QED
        BY <2>1, <2>2
<1>7. pins = UNION {Shown(list, g) : g \in pages}
    BY <1>5, <1>6
<1>8. \/ assembly' = current /\ known' = applyStoredLoadSettings(known)
      \/ /\ assembly' = [current EXCEPT !.pages = pages, !.pins = pins]
         /\ known' = applyStoredLoadSettings(merged)
      \/ /\ pages = 0..(page.total - 1)
         /\ assembly' = [current EXCEPT !.pages = {}, !.pins = {}]
         /\ known' = applyStoredLoadSettings(Prune(merged, pins))
    BY <1>2 DEF applyNodeReport
<1>9. stored \in Table /\ known \in Table
    BY DEF Inv, StoreInv
<1>10. merged \in Table /\ DOMAIN merged = DOMAIN Reported(page) \cup DOMAIN known
    BY <1>5, <1>9, MergeIs
<1> HIDE DEF current, merged, pages, pins
<1>11. AssembledFrom(k, list)'
    <2>1. CASE assembly' = current
        BY <1>6, <2>1 DEF AssembledFrom
    <2>2. CASE assembly' = [current EXCEPT !.pages = pages, !.pins = pins]
        <3>1. assembly' = [seq |-> current.seq, total |-> current.total, pages |-> pages, pins |-> pins]
            BY <1>6, <2>2, Zenon
        <3> QED
            BY <1>6, <1>7, <3>1 DEF AssembledFrom
    <2>3. CASE assembly' = [current EXCEPT !.pages = {}, !.pins = {}]
        <3>1. assembly' = [seq |-> current.seq, total |-> current.total, pages |-> {}, pins |-> {}]
            BY <1>6, <2>3, Zenon
        <3> QED
            BY <1>6, <3>1 DEF AssembledFrom
    <2> QED
        BY <1>8, <2>1, <2>2, <2>3
<1>12. DOMAIN known \ DOMAIN known' \subseteq page.missing
    <2>1. CASE known' = applyStoredLoadSettings(known)
        BY <1>9, <2>1, AppliedIs
    <2>2. CASE known' = applyStoredLoadSettings(merged)
        BY <1>9, <1>10, <2>2, AppliedIs
    <2>3. CASE pages = 0..(page.total - 1) /\ known' = applyStoredLoadSettings(Prune(merged, pins))
        <3>1. pins = PinsOf(list)
            <4>1. page.total = Pages(list)
                BY <1>4 DEF PageOf
            <4> QED
                BY <1>4, <1>7, <2>3, <4>1, AllShown
        <3>2. DOMAIN merged \cap pins \subseteq DOMAIN merged
            OBVIOUS
        <3>3. Prune(merged, pins) \in Table /\ DOMAIN Prune(merged, pins) = DOMAIN merged \cap pins
            BY <1>10, <3>2, RestrictIs DEF Prune
        <3>4. DOMAIN known' = DOMAIN merged \cap pins
            BY <1>9, <2>3, <3>3, AppliedIs
        <3>5. DOMAIN known \subseteq Pins
            BY <1>9, TableFacts
        <3>6. page.missing = Pins \ PinsOf(list)
            BY <1>4 DEF PageOf
        <3> QED
            BY <1>10, <3>1, <3>4, <3>5, <3>6
    <2> QED
        BY <1>8, <2>1, <2>2, <2>3
<1> QED
    BY <1>1, <1>11, <1>12

\* CentralReceive: of the newer reports none is out of sight for that.
LEMMA TraceReceives ==
    ASSUME MaxFaults + 1 < Sequences, faults \in 0..MaxFaults,
           Inv, NEW n, NEW a, NEW of, NEW lists, NEW lost, Traced(n, a, of, lists, lost),
           CentralReceive
    PROVE  \E b, rest : Traced(n, b, rest, lists, lost)'
<1>1. PICK once \in BOOLEAN, saved \in BOOLEAN :
         /\ MayFault(once /\ saved)
         /\ up' = IF once THEN Tail(up) ELSE up
         /\ \/ Head(up).type = "NODE_REPORT" /\ applyNodeReport(Head(up))
            \/ Head(up).type = "REMOVE_ACK" /\ UNCHANGED assembly
    BY DEF CentralReceive
<1>2. up # <<>> /\ UNCHANGED <<loads, sequence, report>>
    BY DEF CentralReceive, node
<1>3. /\ n \in Nat /\ a \in 0..n /\ Numbered(n, a, of) /\ Told(of, lists)
      /\ Reporting(lists[n])'
    BY <1>2 DEF Traced, Numbered, Reporting
<1>4. /\ IsFiniteSet(lost) /\ Cardinality(lost) <= faults'
      /\ \A k \in (a + 1)..n :
            k \in lost \/ OnItsWay(k, of) \/ (k = n /\ report' # NoReport /\ report'.page = 0)
    <2>1. faults \in Nat /\ faults' \in {faults, faults + 1}
        BY <1>1 DEF MayFault, Fault
    <2>2. Cardinality(lost) \in Nat /\ IsFiniteSet(lost) /\ Cardinality(lost) <= faults
        BY FS_CardinalityType DEF Traced, Covered
    <2> QED
        BY <1>2, <2>1, <2>2 DEF Traced, Covered
<1>5. PICK b : /\ b = IF Head(up).type = "NODE_REPORT" THEN of[1] ELSE a
               /\ AssembledFrom(b, lists[b])'
    <2>1. CASE Head(up).type = "NODE_REPORT"
        <3>1. applyNodeReport(Head(up))
            BY <1>1, <2>1
        <3> QED
            BY <1>2, <2>1, <3>1, PageIsTrue
    <2>2. CASE Head(up).type # "NODE_REPORT"
        <3>1. UNCHANGED assembly
            BY <1>1, <2>2
        <3>2. AssembledFrom(a, lists[a])'
            BY <3>1 DEF Traced, AssembledFrom
        <3> QED
            BY <2>2, <3>2
    <2> QED
        BY <2>1, <2>2
<1>6. /\ b \in {a, of[1]} /\ of[1] \in Nat /\ a <= of[1] /\ a <= b /\ b \in Nat
      /\ Head(up).type = "NODE_REPORT" => b = of[1]
    <2>1. of[1] \in Nat /\ a <= of[1] /\ a \in Nat
        BY <1>2, NearReport DEF Traced
    <2> QED
        BY <1>5, <2>1
<1>7. CASE up' = Tail(up)
    <2>1. /\ Numbered(n, b, Tail(of))' /\ Told(Tail(of), lists)'
          /\ \A k : OnItsWay(k, of) =>
                       OnItsWay(k, Tail(of))' \/ (Head(up).type = "NODE_REPORT" /\ k = of[1])
        BY <1>2, <1>3, <1>6, <1>7, TraceShrinks
    <2>2. \A k \in (b + 1)..n : k \in (a + 1)..n /\ k # b
        BY <1>3, <1>6
    <2>3. \A k \in (b + 1)..n :
             k \in lost \/ OnItsWay(k, Tail(of))' \/ (k = n /\ report' # NoReport /\ report'.page = 0)
        BY <1>4, <1>6, <2>1, <2>2
    <2>4. Covered(n, b, Tail(of), lost)'
        BY <1>4, <2>3 DEF Covered
    <2>5. Traced(n, b, Tail(of), lists, lost)'
        BY <1>3, <1>5, <2>1, <2>4 DEF Traced
    <2> QED
        BY <2>5
<1>8. CASE up' = up
    <2>1. Numbered(n, b, of)'
        <3>1. /\ sequence = n % Sequences /\ of \in Seq(Nat) /\ Len(of) = Len(up)
              /\ \A i \in 1..Len(up) : a <= of[i] /\ of[i] <= n
              /\ \A i, j \in 1..Len(up) : i <= j => of[i] <= of[j]
            BY <1>3 DEF Numbered
        <3>2. 1 \in 1..Len(up) /\ \A i \in 1..Len(up) : 1 <= i
            <4>1. up \in Seq(Page)
                BY DEF Inv, RadioInv
            <4>2. Len(up) \in Nat /\ Len(up) >= 1
                BY <1>2, <4>1, TailIs
            <4> QED
                BY <4>2
        <3>3. b \in 0..n /\ \A i \in 1..Len(up) : b <= of[i]
            BY <1>3, <1>6, <3>1, <3>2
        <3> QED
            BY <1>2, <1>3, <1>8, <3>1, <3>3 DEF Numbered
    <2>2. Told(of, lists)'
        BY <1>3, <1>8 DEF Told
    <2>3. \A k \in (b + 1)..n : k \in (a + 1)..n
        BY <1>3, <1>6
    <2>4. \A k : OnItsWay(k, of) <=> OnItsWay(k, of)'
        BY <1>8 DEF OnItsWay
    <2>5. Covered(n, b, of, lost)'
        BY <1>4, <2>3, <2>4 DEF Covered
    <2>6. Traced(n, b, of, lists, lost)'
        BY <1>3, <1>5, <2>1, <2>2, <2>5 DEF Traced
    <2> QED
        BY <2>6
<1> QED
    BY <1>1, <1>7, <1>8

\* Lose: the report of a packet that is lost is one of the lost ones.
LEMMA TraceLoses ==
    ASSUME Inv, NEW n, NEW a, NEW of, NEW lists, NEW lost, Traced(n, a, of, lists, lost),
           up # <<>>, up' = Tail(up), UNCHANGED <<node, assembly>>, Fault, faults \in Nat
    PROVE  \E rest, more : Traced(n, a, rest, lists, more)'
<1>1. UNCHANGED <<loads, sequence, report>> /\ faults' = faults + 1
    BY DEF node, Fault
<1>2. PICK more : more = lost \cup {of[1]}
    OBVIOUS
<1>3. /\ Numbered(n, a, Tail(of))' /\ Told(Tail(of), lists)'
      /\ \A k : OnItsWay(k, of) => OnItsWay(k, Tail(of))' \/ k = of[1]
    BY <1>1, TraceShrinks DEF Traced
<1>4. IsFiniteSet(more) /\ Cardinality(more) <= faults'
    <2>1. IsFiniteSet(lost) /\ Cardinality(lost) \in Nat /\ Cardinality(lost) <= faults
        BY FS_CardinalityType DEF Traced, Covered
    <2>2. /\ IsFiniteSet(more)
          /\ Cardinality(more) = IF of[1] \in lost THEN Cardinality(lost) ELSE Cardinality(lost) + 1
        BY <1>2, <2>1, FS_AddElement
    <2> QED
        BY <1>1, <2>1, <2>2
<1>5. Covered(n, a, Tail(of), more)'
    <2>1. \A k \in (a + 1)..n :
             k \in lost \/ OnItsWay(k, of) \/ (k = n /\ report' # NoReport /\ report'.page = 0)
        BY <1>1 DEF Traced, Covered
    <2>2. \A k \in (a + 1)..n :
             k \in more \/ OnItsWay(k, Tail(of))' \/ (k = n /\ report' # NoReport /\ report'.page = 0)
        BY <1>2, <1>3, <2>1
    <2> QED
        BY <1>4, <2>2 DEF Covered
<1>6. AssembledFrom(a, lists[a])' /\ Reporting(lists[n])'
    BY <1>1 DEF Traced, AssembledFrom, Reporting
<1>7. Traced(n, a, Tail(of), lists, more)'
    BY <1>3, <1>5, <1>6 DEF Traced
<1> QED
    BY <1>7

\* The acknowledgement of a removal comes after the latest report.
LEMMA TraceAnswers ==
    ASSUME Inv, NEW n, NEW a, NEW of, NEW lists, NEW lost, Traced(n, a, of, lists, lost),
           handleHardwareConfigurationMessage, faults \in Nat
    PROVE  \E more : Traced(n, a, more, lists, lost)'
<1>1. report = NoReport /\ UNCHANGED <<sequence, assembly>>
    BY DEF handleHardwareConfigurationMessage, central
<1>2. PICK ok \in BOOLEAN :
         /\ MayFault(ok)
         /\ \/ UNCHANGED <<report, up>>
            \/ /\ Head(down).type = "REMOVE"
               /\ removeLoad(Head(down).pin, ok)
               /\ up' = Append(up, [type |-> "REMOVE_ACK", id |-> Head(down).id,
                          pin |-> Head(down).pin,
                          success |-> ok /\ Head(down).pin \in Configured])
    BY DEF handleHardwareConfigurationMessage
<1>3. report' = NoReport
    BY <1>1, <1>2 DEF removeLoad
<1>4. faults' \in {faults, faults + 1}
    BY <1>2 DEF MayFault, Fault
<1>5. CASE up' = up
    <2>1. Traced(n, a, of, lists, lost)'
        BY <1>1, <1>3, <1>4, <1>5, TraceKept
    <2> QED
        BY <2>1
<1>6. CASE /\ Head(down).type = "REMOVE"
           /\ up' = Append(up, [type |-> "REMOVE_ACK", id |-> Head(down).id,
                      pin |-> Head(down).pin,
                      success |-> ok /\ Head(down).pin \in Configured])
    <2> DEFINE success == ok /\ Head(down).pin \in Configured
    <2>1. success \in BOOLEAN
        OBVIOUS
    <2> HIDE DEF success
    <2>2. PICK packet : packet = [type |-> "REMOVE_ACK", id |-> Head(down).id,
                                  pin |-> Head(down).pin, success |-> success]
        OBVIOUS
    <2>3. packet \in Page
        <3>1. Head(down) \in Downward
            BY OldestIs DEF handleHardwareConfigurationMessage
        <3>2. Head(down).id \in RequestIds /\ Head(down).pin \in Pins
            BY <1>6, <3>1 DEF Downward
        <3> QED
            BY <2>1, <2>2, <3>2 DEF Page, Upward
    <2>4. up' = Append(up, packet) /\ packet.type # "NODE_REPORT"
        BY <1>6, <2>2 DEF success
    <2>5. /\ Numbered(n, a, Append(of, n))' /\ Told(Append(of, n), lists)'
          /\ \A k : OnItsWay(k, of) => OnItsWay(k, Append(of, n))'
        BY <1>1, <2>3, <2>4, TraceGrows DEF Traced
    <2>6. IsFiniteSet(lost) /\ Cardinality(lost) <= faults'
        <3>1. IsFiniteSet(lost) /\ Cardinality(lost) \in Nat /\ Cardinality(lost) <= faults
            BY FS_CardinalityType DEF Traced, Covered
        <3> QED
            BY <1>4, <3>1
    <2>7. Covered(n, a, Append(of, n), lost)'
        <3>1. \A k \in (a + 1)..n : k \in lost \/ OnItsWay(k, of)
            BY <1>1 DEF Traced, Covered
        <3> QED
            BY <2>5, <2>6, <3>1 DEF Covered
    <2>8. AssembledFrom(a, lists[a])' /\ Reporting(lists[n])'
        BY <1>1, <1>3 DEF Traced, AssembledFrom, Reporting
    <2>9. Traced(n, a, Append(of, n), lists, lost)'
        BY <2>5, <2>7, <2>8 DEF Traced
    <2> QED
        BY <2>9
<1> QED
    BY <1>2, <1>5, <1>6

\* CentralRestart: nothing is assembled.
LEMMA TraceForgets ==
    ASSUME NEW n, NEW a, NEW of, NEW lists, NEW lost, Traced(n, a, of, lists, lost),
           CentralRestart, faults \in Nat
    PROVE  Traced(n, a, of, lists, lost)'
<1>1. UNCHANGED <<loads, sequence, report, up>> /\ assembly' = NoAssembly /\ faults' = faults + 1
    BY DEF CentralRestart, node, Fault
<1>2. Numbered(n, a, of)' /\ Told(of, lists)' /\ Reporting(lists[n])'
    BY <1>1 DEF Traced, Numbered, Told, Reporting
<1>3. AssembledFrom(a, lists[a])'
    BY <1>1 DEF AssembledFrom, NoAssembly
<1>4. Covered(n, a, of, lost)'
    <2>1. IsFiniteSet(lost) /\ Cardinality(lost) \in Nat /\ Cardinality(lost) <= faults
        BY FS_CardinalityType DEF Traced, Covered
    <2>2. IsFiniteSet(lost) /\ Cardinality(lost) <= faults'
        BY <1>1, <2>1
    <2> QED
        BY <1>1, <2>2 DEF Traced, Covered, OnItsWay
<1> QED
    BY <1>2, <1>3, <1>4 DEF Traced

\* The bounds only count up.
LEMMA CountsRise ==
    ASSUME faults \in 0..MaxFaults, console \in Nat, nodeRestarts \in Nat, centralRestarts \in Nat,
           [Next]_vars
    PROVE  /\ faults' \in 0..MaxFaults /\ faults' \in {faults, faults + 1}
           /\ console' \in {console, console + 1} /\ nodeRestarts' \in {nodeRestarts, nodeRestarts + 1}
           /\ centralRestarts' \in {centralRestarts, centralRestarts + 1}
           /\ CentralRestart => centralRestarts' # centralRestarts
           /\ ConsoleCommand => console' # 0
           /\ NodeRestart => nodeRestarts' # 0
<1> DEFINE Counts ==
        /\ UNCHANGED faults \/ Fault
        /\ console' \in {console, console + 1} /\ nodeRestarts' \in {nodeRestarts, nodeRestarts + 1}
        /\ centralRestarts' \in {centralRestarts, centralRestarts + 1}
<1>1. StartReport \/ SendPage => Counts
    BY DEF StartReport, SendPage, TakeMutex, Console, bounds
<1>2. handleHardwareConfigurationMessage \/ CentralReceive \/ Lose \/ MakePending => Counts
    BY DEF handleHardwareConfigurationMessage, CentralReceive, Lose, MakePending, MayFault
<1>3. ConsoleCommand => Counts
    BY DEF ConsoleCommand, Console
<1>4. NodeRestart \/ CentralRestart => Counts
    BY DEF NodeRestart, CentralRestart
<1>5. PlanningCycle => Counts
    BY DEF PlanningCycle, MayFault, bounds
<1>6. ASSUME NEW p \in Pins, NEW request \in LoadSetAtCentral, handleLoadCommand(p, request)
      PROVE  Counts
    BY <1>6 DEF handleLoadCommand
<1>7. ASSUME NEW p \in Pins, NEW set \in LoadAddAtCentral, RequestConfigure([pin |-> p, set |-> set])
      PROVE  Counts
    BY <1>7 DEF RequestConfigure, Request
<1>8. ASSUME NEW p \in Pins, RequestRemove(p)
      PROVE  Counts
    BY <1>8 DEF RequestRemove, Request
<1>9. UNCHANGED vars => Counts
    BY DEF vars, bounds
<1>10. Counts
    <2> HIDE DEF Counts
    <2> QED
        BY <1>1, <1>2, <1>3, <1>4, <1>5, <1>6, <1>7, <1>8, <1>9 DEF Next
<1>11. Fault => faults' = faults + 1 /\ faults < MaxFaults
    BY DEF Fault
<1>12. /\ CentralRestart => centralRestarts' = centralRestarts + 1
       /\ ConsoleCommand => console' = console + 1
       /\ NodeRestart => nodeRestarts' = nodeRestarts + 1
    BY DEF CentralRestart, ConsoleCommand, Console, NodeRestart
<1> QED
    BY <1>10, <1>11, <1>12, RegistryAssumption

\* At the start the Node has made no report.
LEMMA InitReports == Init => ReportsInv
<1> SUFFICES ASSUME Init PROVE ReportsInv
    OBVIOUS
<1>1. PICK lists : lists = [k \in Nat |-> loads]
    OBVIOUS
<1>2. loads \in Seq(Load) /\ lists \in [Nat -> Seq(Load)]
    BY <1>1, InputsAssumption DEF Init
<1>3. Numbered(0, 0, <<>>)
    <2>1. 0 % Sequences = 0
        <3>1. 0 = 0 * Sequences + 0 /\ 0 \in 0..(Sequences - 1)
            BY RegistryAssumption
        <3> QED
            BY <3>1, Remainder, RegistryAssumption
    <2> QED
        BY <2>1 DEF Init, Numbered
<1>4. Told(<<>>, lists) /\ AssembledFrom(0, lists[0]) /\ Reporting(lists[0])
    BY <1>2 DEF Init, Told, AssembledFrom, Reporting, NoAssembly
<1>5. Covered(0, 0, <<>>, {})
    BY FS_EmptySet DEF Init, Covered
<1>6. Traced(0, 0, <<>>, lists, {})
    BY <1>3, <1>4, <1>5 DEF Traced
<1>7. /\ faults \in 0..MaxFaults /\ console \in Nat /\ nodeRestarts \in Nat
      /\ centralRestarts \in Nat
    BY RegistryAssumption DEF Init
<1> QED
    BY <1>6, <1>7 DEF ReportsInv

\* What a step of the Central leaves alone when it receives nothing.
LEMMA TraceQuiet ==
    ASSUME [Next]_vars,
           ~ StartReport, ~ SendPage, ~ handleHardwareConfigurationMessage, ~ ConsoleCommand,
           ~ NodeRestart, ~ CentralReceive, ~ CentralRestart, ~ (Lose /\ up' # up)
    PROVE  UNCHANGED <<node, up, assembly>>
<1>1. Lose => UNCHANGED <<node, up, assembly>>
    BY DEF Lose, central
<1>2. PlanningCycle \/ MakePending => UNCHANGED <<node, up, assembly>>
    BY DEF PlanningCycle, MakePending
<1>3. ASSUME NEW p \in Pins, NEW request \in LoadSetAtCentral, handleLoadCommand(p, request)
      PROVE  UNCHANGED <<node, up, assembly>>
    BY <1>3 DEF handleLoadCommand
<1>4. ASSUME NEW p \in Pins, NEW set \in LoadAddAtCentral, RequestConfigure([pin |-> p, set |-> set])
      PROVE  UNCHANGED <<node, up, assembly>>
    BY <1>4 DEF RequestConfigure, central
<1>5. ASSUME NEW p \in Pins, RequestRemove(p)
      PROVE  UNCHANGED <<node, up, assembly>>
    BY <1>5 DEF RequestRemove
<1>6. UNCHANGED vars => UNCHANGED <<node, up, assembly>>
    BY DEF vars, central
<1> QED
    BY <1>1, <1>2, <1>3, <1>4, <1>5, <1>6 DEF Next

\* Every step keeps count of the reports.
LEMMA NextReports ==
    ASSUME MaxFaults + 1 < Sequences, Inv, ReportsInv, [Next]_vars
    PROVE  ReportsInv'
<1>1. /\ faults \in 0..MaxFaults /\ faults \in Nat /\ console \in Nat /\ nodeRestarts \in Nat
      /\ centralRestarts \in Nat
    BY RegistryAssumption DEF ReportsInv
<1>2. /\ faults' \in 0..MaxFaults /\ faults' \in {faults, faults + 1}
      /\ console' \in {console, console + 1} /\ nodeRestarts' \in {nodeRestarts, nodeRestarts + 1}
      /\ centralRestarts' \in {centralRestarts, centralRestarts + 1}
      /\ ConsoleCommand => console' # 0
      /\ NodeRestart => nodeRestarts' # 0
    BY <1>1, CountsRise
<1>3. ASSUME console' = 0, nodeRestarts' = 0
      PROVE  (\E n, a, of, lists, lost : Traced(n, a, of, lists, lost))'
    <2>1. console = 0 /\ nodeRestarts = 0 /\ ~ ConsoleCommand /\ ~ NodeRestart
        BY <1>1, <1>2, <1>3
    <2>2. PICK n, a, of, lists, lost : Traced(n, a, of, lists, lost)
        BY <2>1 DEF ReportsInv
    <2>3. CASE StartReport
        BY <1>1, <1>3, <2>2, <2>3, TraceStarts
    <2>4. CASE SendPage
        BY <1>1, <1>3, <2>2, <2>4, TraceSends
    <2>5. CASE handleHardwareConfigurationMessage
        BY <1>1, <2>2, <2>5, TraceAnswers
    <2>6. CASE CentralReceive
        BY <1>1, <2>2, <2>6, TraceReceives
    <2>7. CASE CentralRestart
        BY <1>1, <2>2, <2>7, TraceForgets
    <2>8. CASE Lose /\ up' # up
        <3>1. up # <<>> /\ up' = Tail(up) /\ UNCHANGED <<node, assembly>> /\ Fault
            BY <2>8 DEF Lose, MayFault, central
        <3> QED
            BY <1>1, <2>2, <3>1, TraceLoses
    <2>9. CASE /\ ~ StartReport /\ ~ SendPage /\ ~ handleHardwareConfigurationMessage
               /\ ~ CentralReceive /\ ~ CentralRestart /\ ~ (Lose /\ up' # up)
        <3>1. UNCHANGED <<loads, sequence, up, assembly, report>>
            BY <2>1, <2>9, TraceQuiet DEF node
        <3> QED
            BY <1>1, <1>2, <2>2, <3>1, TraceKept
    <2> QED
        BY <2>3, <2>4, <2>5, <2>6, <2>7, <2>8, <2>9
<1>4. console' \in Nat /\ nodeRestarts' \in Nat /\ centralRestarts' \in Nat
    BY <1>1, <1>2
<1> QED
    BY <1>2, <1>3, <1>4 DEF ReportsInv

\* What the Central knows is only given up by a page, an acknowledgement or a
\* restart.
LEMMA KnownKept ==
    ASSUME Inv, [Next]_vars, ~ CentralReceive, ~ CentralRestart
    PROVE  DOMAIN known' = DOMAIN known
<1>1. StartReport \/ SendPage \/ handleHardwareConfigurationMessage \/ ConsoleCommand \/ NodeRestart
         \/ Lose => UNCHANGED known
    BY DEF StartReport, SendPage, handleHardwareConfigurationMessage, ConsoleCommand, NodeRestart,
           Lose, central
<1>2. PlanningCycle => DOMAIN known' = DOMAIN known
    <2>1. stored \in Table /\ known \in Table
        BY DEF Inv, StoreInv
    <2>2. PlanningCycle => known' = applyStoredLoadSettings(known)
        BY DEF PlanningCycle
    <2> QED
        BY <2>1, <2>2, AppliedIs
<1>3. ASSUME NEW p \in Pins, NEW request \in LoadSetAtCentral, handleLoadCommand(p, request)
      PROVE  DOMAIN known' = DOMAIN known
    BY <1>3 DEF handleLoadCommand
<1>4. ASSUME NEW p \in Pins, NEW set \in LoadAddAtCentral, RequestConfigure([pin |-> p, set |-> set])
      PROVE  DOMAIN known' = DOMAIN known
    BY <1>4 DEF RequestConfigure, central
<1>5. ASSUME NEW p \in Pins, RequestRemove(p)
      PROVE  DOMAIN known' = DOMAIN known
    BY <1>5 DEF RequestRemove
<1>6. MakePending \/ UNCHANGED vars => UNCHANGED known
    BY DEF MakePending, vars, central
<1> QED
    BY <1>1, <1>2, <1>3, <1>4, <1>5, <1>6 DEF Next

(* As long as fewer packets are lost than a report number has values: what  *)
(* handling a page takes out of the registry the Node did not have while it *)
(* made the report (applyNodeReport), on a Node that has not restarted and  *)
(* whose console was not used.                                              *)
THEOREM PrunesOnlyRemoved ==
    ASSUME MaxFaults + 1 < Sequences PROVE Spec => PrunesOnlyRemovedNormally
<1> DEFINE Only == centralRestarts' = centralRestarts /\ nodeRestarts = 0 /\ console = 0
                      => \A p \in Pruned : p \in Head(up).missing
<1>1. ASSUME Inv, ReportsInv, [Next]_vars
      PROVE  [Only]_vars
    <2> SUFFICES ASSUME centralRestarts' = centralRestarts, nodeRestarts = 0, console = 0,
                        up # <<>>, Head(up).type = "NODE_REPORT"
                 PROVE  DOMAIN known \ DOMAIN known' \subseteq Head(up).missing
        BY DEF Pruned
    <2>1. /\ faults \in 0..MaxFaults /\ console \in Nat /\ nodeRestarts \in Nat
          /\ centralRestarts \in Nat
        BY <1>1 DEF ReportsInv
    <2>2. ~ CentralRestart
        BY <1>1, <2>1, CountsRise
    <2>3. CASE CentralReceive
        <3>1. applyNodeReport(Head(up))
            BY <2>3 DEF CentralReceive
        <3>2. PICK n, a, of, lists, lost : Traced(n, a, of, lists, lost)
            BY <1>1 DEF ReportsInv
        <3> QED
            BY <1>1, <2>1, <3>1, <3>2, PageIsTrue
    <2>4. CASE ~ CentralReceive
        BY <1>1, <2>2, <2>4, KnownKept
    <2> QED
        BY <2>3, <2>4
<1>2. ASSUME Inv, ReportsInv, [Next]_vars
      PROVE  ReportsInv'
    BY <1>2, NextReports
<1>3. Init => ReportsInv
    BY InitReports
<1>4. Spec => []ReportsInv
    BY <1>2, <1>3, Inductive, PTL DEF Spec
<1>5. Spec => [][Only]_vars
    BY <1>1, <1>4, Inductive, PTL DEF Spec
<1> QED
    BY <1>5 DEF PrunesOnlyRemovedNormally
=============================================================================
