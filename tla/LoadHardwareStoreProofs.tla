---------------------- MODULE LoadHardwareStoreProofs ----------------------
(***************************************************************************)
(* Proofs about the Loads of one Smart Node (LoadHardwareStore), for any   *)
(* pins, any limit of Loads, any lists in flash and any number of          *)
(* requests, commands, failures and restarts.                              *)
(***************************************************************************)
EXTENDS LoadHardwareStore, FiniteSetTheorems, SequenceTheorems, WellFoundedInduction, TLAPS

-----------------------------------------------------------------------------
(***************************************************************************)
(* The inductive invariant of the flash.                                   *)
(***************************************************************************)

\* The types it needs, and that an operation that removes has something to
\* remove.
Lists ==
    /\ configurations \in Seq(Configuration) /\ flash \in Seq(Configuration)
    /\ job \in Job \cup {NoJob}
    /\ At("reset") \/ At("erase") => job.todo # <<>>

\* What is in flash, as far as the last access is known to have succeeded: the
\* list, without the configuration that is about to be stored.
FlashInv ==
    /\ At("store") => /\ configurations # <<>>
                      /\ configurations[Len(configurations)] \in job.new
    /\ flashOk => flash = IF At("store") THEN Front(configurations) ELSE configurations

-----------------------------------------------------------------------------
(***************************************************************************)
(* The inductive invariant of the three forms of a Load.                   *)
(***************************************************************************)
Typed ==
    /\ IsList(configurations) /\ IsList(flash)
    /\ stale \subseteq Pins /\ loads \subseteq Pins
    /\ memory \in Seq(Relay \cup {Unused}) /\ size \in 0..Len(memory)
    /\ \A i \in 1..size : memory[i] \in Relay
    /\ output \in [Pins -> BOOLEAN]

\* Every output is a pin of these.  A relay whose level cannot be written at
\* its set-up is forgotten as an output: see NoUntrackedOutput.
Outputs == {p \in Pins : output[p]}
Tracked(pins) == "gpio_set_level" \notin FailingCalls => Outputs \subseteq pins
Configured == PinsOf(configurations)

\* No pin has two relays.
OneRelay == \A i, j \in 1..size : memory[i].pin = memory[j].pin => i = j

\* All relays but those of these pins are set up.
Applied(except) == \A i \in 1..size : memory[i].pin \notin except => memory[i].applied

\* A Load is not one of those that the boot left out.
Apart == loads \cap stale = {}

\* Every relay has its Load, and every Load its relay.
Paired == Registered = loads /\ Applied({}) /\ Tracked(loads)

\* Every Load is configured, and every configuration is a Load or left out.
Covered == Configured = loads \cup stale

\* The operation has one configuration to add.
Adds(c) == job.new = {c}
AddsOne == \E c \in Configuration : Adds(c) /\ c.pin \notin Configured

\* The operation removes one configured Load, which it may add again, or all.
Removes ==
    IF job.decommission THEN job.new = {} /\ ToSet(job.todo) = Configured
    ELSE \E p \in Configured : /\ job.todo = <<p>>
                               /\ job.new = {} \/ \E c \in Configuration : Adds(c) /\ c.pin = p

\* What remains to be removed is no longer configured.
Leaving ==
    /\ job.todo # <<>>
    /\ ToSet(job.todo) \cap stale = {}
    /\ Configured = (loads \ ToSet(job.todo)) \cup stale
    /\ job.new = {} \/ AddsOne

\* The first relay that is to be removed has lost its Load and its output.
Orphaned ==
    /\ Head(job.todo) \notin loads /\ Registered \ {Head(job.todo)} = loads
    /\ Applied({Head(job.todo)}) /\ Tracked(loads)

\* The last relay is the one of the new Load, and not yet set up.
Unfinished ==
    /\ \E c \in job.new : /\ Registered = loads \cup {c.pin} /\ Applied({c.pin})
                          /\ size > 0 /\ memory[size].pin = c.pin
    /\ Tracked(loads)

\* Only the new Load itself is missing.
SetUp ==
    /\ \E c \in job.new : /\ Registered = loads \cup {c.pin} /\ Tracked(loads \cup {c.pin})
                          /\ size > 0 /\ memory[size].pin = c.pin
    /\ Applied({})

\* The three forms of a Load between two steps of an operation.
Phases ==
    /\ At("none") => Paired /\ Covered
    /\ At("off") => Paired /\ Covered /\ Removes
    /\ At("forget") => Paired /\ Covered /\ Removes /\ ToSet(job.todo) \subseteq loads
    /\ At("reset") => Paired /\ Leaving
    /\ At("erase") => Orphaned /\ Leaving
    /\ At("register") => Paired /\ Covered /\ AddsOne
    /\ At("gpio") => Unfinished /\ Covered /\ AddsOne
    /\ At("init") => SetUp /\ Covered /\ AddsOne
    /\ At("store") => Paired /\ Covered /\ \E c \in job.new : Adds(c) /\ c.pin \in loads

LoadsInv == Typed /\ OneRelay /\ Apart /\ Phases


-----------------------------------------------------------------------------
(***************************************************************************)
(* The lists and the vector.                                               *)
(***************************************************************************)

\* Some naturals have a smallest.
LEMMA LeastExists ==
    ASSUME NEW S, S \subseteq Nat, S # {}
    PROVE  \E i \in S : \A j \in S : i <= j
<1> DEFINE Less == OpToRel(<, Nat)
<1>1. PICK i \in S : \A j \in S : <<j, i>> \notin Less
    <2>1. IsWellFoundedOn(Less, Nat)
        BY NatLessThanWellFounded
    <2> HIDE DEF Less
    <2> QED
        BY <2>1, WFMin
<1>2. \A j \in S : ~ (j < i)
    BY <1>1 DEF OpToRel
<1>3. \A j \in S : i <= j
    BY <1>2
<1> QED
    BY <1>3

\* Induction, for a set of naturals.
LEMMA AllNaturals ==
    ASSUME NEW S, 0 \in S, \A n \in Nat : n \in S => n + 1 \in S
    PROVE  Nat \subseteq S
<1> SUFFICES ASSUME Nat \ S # {} PROVE FALSE
    OBVIOUS
<1>1. PICK i \in Nat \ S : \A j \in Nat \ S : i <= j
    BY LeastExists
<1>2. i - 1 \in Nat /\ i - 1 \in S
    BY <1>1
<1> QED
    BY <1>1, <1>2

\* What the storage grows to, push_back() by push_back().
Room(f, n) == IF n = 0 THEN 0 ELSE IF n <= f[n - 1] THEN f[n - 1] ELSE Grown(f[n - 1])
Growth(count) == {f \in [0..count -> Nat] : \A n \in 0..count : f[n] = Room(f, n)}

\* A vector can grow to any size.
LEMMA Grows == ASSUME NEW count \in Nat PROVE Growth(count) # {}
<1> DEFINE Good == {n \in Nat : Growth(n) # {}}
<1>1. 0 \in Good
    <2> DEFINE f == [n \in 0..0 |-> 0]
    <2>1. f \in Growth(0)
        BY DEF Growth, Room
    <2> QED
        BY <2>1
<1>2. ASSUME NEW m \in Nat, m \in Good
      PROVE  m + 1 \in Good
    <2>1. PICK g : g \in Growth(m)
        BY <1>2
    <2>2. g \in [0..m -> Nat] /\ \A n \in 0..m : g[n] = Room(g, n)
        BY <2>1 DEF Growth
    <2> DEFINE next == IF m + 1 <= g[m] THEN g[m] ELSE Grown(g[m])
               f == [n \in 0..m + 1 |-> IF n = m + 1 THEN next ELSE g[n]]
    <2>3. next \in Nat
        BY <2>2 DEF Grown
    <2> HIDE DEF next
    <2>4. f \in [0..m + 1 -> Nat] /\ f[m + 1] = next /\ \A n \in 0..m : f[n] = g[n]
        BY <2>2, <2>3
    <2>5. f[m + 1] = Room(f, m + 1)
        BY <2>4 DEF Room, next
    <2> HIDE DEF f
    <2>6. ASSUME NEW n \in 0..m
          PROVE  f[n] = Room(f, n)
        <3>1. n = 0 \/ n - 1 \in 0..m
            OBVIOUS
        <3>2. Room(f, n) = Room(g, n)
            BY <2>4, <3>1 DEF Room
        <3> QED
            BY <2>2, <2>4, <3>2
    <2>7. \A n \in 0..m + 1 : f[n] = Room(f, n)
        BY <2>5, <2>6
    <2>8. f \in Growth(m + 1)
        BY <2>4, <2>7 DEF Growth
    <2> QED
        BY <2>8
<1> HIDE DEF Good
<1>3. count \in Good
    BY <1>1, <1>2, AllNaturals
<1> QED
    BY <1>3 DEF Good

\* There is room for as many relays as were pushed back.
LEMMA CapacityFacts ==
    ASSUME NEW count \in Nat
    PROVE  Capacity(count) \in Nat /\ count <= Capacity(count)
<1> DEFINE after[n \in 0..count] ==
               IF n = 0 THEN 0
               ELSE IF n <= after[n - 1] THEN after[n - 1] ELSE Grown(after[n - 1])
           Next1(f) == [n \in 0..count |->
               IF n = 0 THEN 0 ELSE IF n <= f[n - 1] THEN f[n - 1] ELSE Grown(f[n - 1])]
<1>1. Capacity(count) = after[count]
    BY Zenon DEF Capacity
<1>2. \E f : f = Next1(f)
    <2>1. PICK f : f \in Growth(count)
        BY Grows
    <2>2. f \in [0..count -> Nat] /\ \A n \in 0..count : f[n] = Room(f, n)
        BY <2>1 DEF Growth
    <2>3. \A n \in 0..count : Next1(f)[n] = Room(f, n)
        BY DEF Room
    <2>4. f = [n \in 0..count |-> f[n]] /\ Next1(f) = [n \in 0..count |-> Room(f, n)]
        BY <2>2 DEF Room
    <2>5. f = Next1(f)
        BY <2>2, <2>4
    <2> QED
        BY <2>5
<1>3. after = Next1(after)
    <2>1. after = CHOOSE f : f = Next1(f)
        BY Zenon
    <2> HIDE DEF after, Next1
    <2> QED
        BY <1>2, <2>1
<1> HIDE DEF after
<1>4. \A n \in 0..count : after[n] = Room(after, n)
    <2>1. Next1(after) = [n \in 0..count |-> Room(after, n)]
        BY DEF Room
    <2> HIDE DEF Next1
    <2> QED
        BY <1>3, <2>1
<1> DEFINE Good == {n \in Nat : n <= count => after[n] \in Nat /\ n <= after[n]}
<1>5. 0 \in Good
    BY <1>4 DEF Room
<1>6. ASSUME NEW n \in Nat, n \in Good
      PROVE  n + 1 \in Good
    <2>1. CASE n + 1 <= count
        <3>1. after[n] \in Nat /\ n <= after[n]
            BY <1>6, <2>1
        <3>2. after[n + 1] = IF n + 1 <= after[n] THEN after[n] ELSE Grown(after[n])
            <4>1. n + 1 \in 0..count /\ n + 1 # 0 /\ (n + 1) - 1 = n
                BY <2>1
            <4> QED
                BY <1>4, <4>1 DEF Room
        <3> QED
            BY <3>1, <3>2 DEF Grown
    <2> QED
        BY <2>1
<1> HIDE DEF Good
<1>7. count \in Good
    BY <1>5, <1>6, AllNaturals
<1> QED
    BY <1>1, <1>7 DEF Good

\* The relays of a list that is running have the pins of the list, in its
\* order, and are set up.
LEMMA VectorFacts ==
    ASSUME NEW list, IsList(list)
    PROVE  /\ Vector(list) \in Seq(Relay \cup {Unused})
           /\ Len(list) \in 0..Len(Vector(list))
           /\ \A i \in 1..Len(list) : /\ Vector(list)[i] \in Relay
                                      /\ Vector(list)[i].pin = list[i].pin
                                      /\ Vector(list)[i].applied
<1> DEFINE n == Len(list)
           relay(i) == [pin |-> list[i].pin, on |-> list[i].on, applied |-> TRUE]
<1>1. n \in Nat /\ Capacity(n) \in Nat /\ n <= Capacity(n)
    BY CapacityFacts DEF IsList
<1>2. \A i \in 1..n : list[i] \in Configuration
    BY DEF IsList
<1>3. \A i \in 1..n : relay(i) \in Relay
    BY <1>2 DEF Configuration, Relay
<1>4. Vector(list) = [i \in 1..Capacity(n) |-> IF i > n THEN Unused ELSE relay(i)]
    BY DEF Vector
<1>5. \A i \in 1..Capacity(n) : Vector(list)[i] \in Relay \cup {Unused}
    BY <1>1, <1>3, <1>4
<1>6. Vector(list) \in Seq(Relay \cup {Unused}) /\ Len(Vector(list)) = Capacity(n)
    <2> DEFINE Entry == Relay \cup {Unused}
               capacity == Capacity(n)
               vector == Vector(list)
    <2>1. vector = [i \in 1..capacity |-> vector[i]] /\ \A i \in 1..capacity : vector[i] \in Entry
        BY <1>4, <1>5
    <2>2. capacity \in Nat
        BY <1>1
    <2> HIDE DEF Entry, capacity, vector
    <2>3. vector \in Seq(Entry) /\ Len(vector) = capacity
        BY <2>1, <2>2
    <2> QED
        BY <2>3 DEF Entry, capacity, vector
<1>7. \A i \in 1..n : Vector(list)[i] = relay(i)
    BY <1>1, <1>4
<1>8. Len(list) \in 0..Len(Vector(list))
    BY <1>1, <1>6
<1>9. ASSUME NEW i \in 1..Len(list)
      PROVE  /\ Vector(list)[i] \in Relay
             /\ Vector(list)[i].pin = list[i].pin /\ Vector(list)[i].applied
    <2>1. relay(i).pin = list[i].pin /\ relay(i).applied
        OBVIOUS
    <2> HIDE DEF relay
    <2> QED
        BY <1>3, <1>7, <2>1
<1> QED
    BY <1>6, <1>8, <1>9

\* Storage in which no relay is left.
LEMMA UnusedFacts ==
    ASSUME NEW list, list \in Seq(Configuration), NEW i \in DOMAIN list
    PROVE  [k \in DOMAIN Vector(SubSeq(list, 1, i)) |-> Unused] \in Seq(Relay \cup {Unused})
<1>1. Len(SubSeq(list, 1, i)) \in Nat
    BY SubSeqProperties
<1>2. DOMAIN Vector(SubSeq(list, 1, i)) = 1..Capacity(Len(SubSeq(list, 1, i)))
    BY DEF Vector
<1> DEFINE Entry == Relay \cup {Unused}
           n == Capacity(Len(SubSeq(list, 1, i)))
<1>3. n \in Nat
    BY <1>1, CapacityFacts
<1>4. Unused \in Entry
    OBVIOUS
<1> HIDE DEF Entry, n
<1>5. [k \in 1..n |-> Unused] \in Seq(Entry)
    BY <1>3, <1>4
<1> QED
    BY <1>2, <1>5 DEF Entry, n

\* A configuration of a new pin may be appended.
LEMMA AppendFacts ==
    ASSUME NEW list, IsList(list), NEW c \in Configuration, c.pin \notin PinsOf(list)
    PROVE  IsList(Append(list, c)) /\ PinsOf(Append(list, c)) = PinsOf(list) \cup {c.pin}
<1> DEFINE n == Len(list)
           longer == Append(list, c)
<1>1. list \in Seq(Configuration) /\ n \in Nat /\ DOMAIN list = 1..n
    BY DEF IsList
<1>2. /\ longer \in Seq(Configuration) /\ DOMAIN longer = 1..n + 1
      /\ longer[n + 1] = c /\ \A i \in 1..n : longer[i] = list[i]
    BY <1>1
<1> HIDE DEF longer
<1>3. \A i \in 1..n : list[i].pin # c.pin
    BY <1>1 DEF PinsOf
<1>4. IsList(longer)
    <2>1. ASSUME NEW i \in 1..n + 1, NEW j \in 1..n + 1, longer[i].pin = longer[j].pin
          PROVE  i = j
        <3>1. CASE i = n + 1 \/ j = n + 1
            BY <1>1, <1>2, <1>3, <2>1, <3>1
        <3>2. CASE i \in 1..n /\ j \in 1..n
            BY <1>1, <1>2, <2>1, <3>2 DEF IsList
        <3> QED
            BY <1>1, <3>1, <3>2
    <2> QED
        BY <1>2, <2>1 DEF IsList
<1>5. PinsOf(longer) = PinsOf(list) \cup {c.pin}
    <2>1. PinsOf(longer) = {longer[i].pin : i \in 1..n + 1}
        BY <1>2 DEF PinsOf
    <2>2. PinsOf(list) = {list[i].pin : i \in 1..n}
        BY <1>1 DEF PinsOf
    <2>3. 1..n + 1 = 1..n \cup {n + 1}
        BY <1>1
    <2> QED
        BY <1>2, <2>1, <2>2, <2>3
<1> QED
    BY <1>4, <1>5 DEF longer

\* What Append() has added, Front() takes away.
LEMMA FrontOfAppend ==
    ASSUME NEW list \in Seq(Configuration), NEW c \in Configuration
    PROVE  /\ Append(list, c) \in Seq(Configuration) /\ Append(list, c) # <<>>
           /\ Append(list, c)[Len(Append(list, c))] = c
           /\ Front(Append(list, c)) = list
    BY DEF Front

\* All but the last configuration.
LEMMA FrontFacts ==
    ASSUME NEW list \in Seq(Configuration), list # <<>>
    PROVE  /\ Front(list) \in Seq(Configuration) /\ Len(Front(list)) = Len(list) - 1
           /\ Len(list) \in Nat \ {0}
           /\ \A i \in 1..Len(list) - 1 : Front(list)[i] = list[i]
<1>1. Len(list) \in Nat \ {0}
    OBVIOUS
<1>2. Front(list) = SubSeq(list, 1, Len(list) - 1)
    BY DEF Front
<1>3. Front(list) = [i \in 1..Len(list) - 1 |-> list[i]]
    BY <1>1, <1>2
<1>4. \A i \in 1..Len(list) - 1 : list[i] \in Configuration
    BY <1>1
<1> HIDE <1>2
<1>5. Front(list) \in Seq(Configuration) /\ Len(Front(list)) = Len(list) - 1
    BY <1>1, <1>3, <1>4
<1> QED
    BY <1>1, <1>3, <1>5

\* A list without one of its configurations is a list of the other pins.
LEMMA FrontIsList ==
    ASSUME NEW list, IsList(list), list # <<>>
    PROVE  IsList(Front(list)) /\ PinsOf(Front(list)) = PinsOf(list) \ {list[Len(list)].pin}
<1> DEFINE n == Len(list)
           shorter == Front(list)
<1>1. list \in Seq(Configuration) /\ DOMAIN list = 1..n
    BY DEF IsList
<1>2. /\ n \in Nat \ {0} /\ shorter \in Seq(Configuration) /\ DOMAIN shorter = 1..n - 1
      /\ \A i \in 1..n - 1 : shorter[i] = list[i]
    BY <1>1, FrontFacts
<1> HIDE DEF shorter
<1>3. IsList(shorter)
    <2>1. ASSUME NEW i \in 1..n - 1, NEW j \in 1..n - 1, shorter[i].pin = shorter[j].pin
          PROVE  i = j
        BY <1>1, <1>2, <2>1 DEF IsList
    <2> QED
        BY <1>2, <2>1 DEF IsList
<1>4. \A i \in 1..n - 1 : list[i].pin # list[n].pin
    BY <1>1, <1>2 DEF IsList
<1>5. PinsOf(shorter) = PinsOf(list) \ {list[n].pin}
    <2>1. PinsOf(shorter) = {list[i].pin : i \in 1..n - 1}
        BY <1>2 DEF PinsOf
    <2>2. PinsOf(list) = {list[i].pin : i \in 1..n}
        BY <1>1 DEF PinsOf
    <2>3. 1..n = (1..n - 1) \cup {n}
        BY <1>2
    <2> QED
        BY <1>4, <2>1, <2>2, <2>3
<1> QED
    BY <1>3, <1>5 DEF shorter

\* So is a list from which a pin that it holds is erased.
LEMMA ErasedFacts ==
    ASSUME NEW list, IsList(list), NEW p \in PinsOf(list)
    PROVE  IsList(Erased(list, p)) /\ PinsOf(Erased(list, p)) = PinsOf(list) \ {p}
<1> DEFINE n == Len(list)
           index == CHOOSE i \in DOMAIN list : list[i].pin = p
           shorter == Erased(list, p)
<1>1. list \in Seq(Configuration) /\ n \in Nat /\ DOMAIN list = 1..n
    BY DEF IsList
<1>2. index \in 1..n /\ list[index].pin = p
    BY <1>1 DEF PinsOf
<1>3. shorter = [k \in 1..n - 1 |-> IF k < index THEN list[k] ELSE list[k + 1]]
    BY DEF Erased
<1> HIDE DEF index, shorter
<1> DEFINE from(k) == IF k < index THEN k ELSE k + 1
<1>4. \A k \in 1..n - 1 : from(k) \in 1..n \ {index} /\ shorter[k] = list[from(k)]
    BY <1>1, <1>2, <1>3
<1>5. n - 1 \in Nat
    BY <1>1, <1>2
<1>6. shorter \in Seq(Configuration) /\ DOMAIN shorter = 1..n - 1
    <2>1. \A k \in 1..n - 1 : shorter[k] \in Configuration
        BY <1>1, <1>4
    <2>2. shorter \in [1..n - 1 -> Configuration]
        BY <1>3, <2>1
    <2> QED
        BY <1>5, <2>2
<1>7. IsList(shorter)
    <2>1. ASSUME NEW i \in 1..n - 1, NEW j \in 1..n - 1, shorter[i].pin = shorter[j].pin
          PROVE  i = j
        <3>1. from(i) = from(j)
            BY <1>1, <1>4, <2>1 DEF IsList
        <3> QED
            BY <1>1, <1>2, <3>1
    <2> QED
        BY <1>6, <2>1 DEF IsList
<1>8. ASSUME NEW q \in PinsOf(list) \ {p}
      PROVE  q \in PinsOf(shorter)
    <2>1. PICK i \in 1..n : list[i].pin = q
        BY <1>1 DEF PinsOf
    <2>2. i # index
        BY <1>2, <2>1
    <2>3. \E k \in 1..n - 1 : from(k) = i
        <3>1. CASE i < index
            <4>1. i \in 1..n - 1 /\ from(i) = i
                BY <1>1, <1>2, <3>1
            <4> QED
                BY <4>1
        <3>2. CASE i > index
            <4>1. i - 1 \in 1..n - 1 /\ from(i - 1) = i
                BY <1>1, <1>2, <3>2
            <4> QED
                BY <4>1
        <3> QED
            BY <1>1, <1>2, <2>2, <3>1, <3>2
    <2>4. PICK k \in 1..n - 1 : shorter[k].pin = q
        BY <1>4, <2>1, <2>3
    <2> QED
        BY <1>6, <2>4 DEF PinsOf
<1>9. ASSUME NEW q \in PinsOf(shorter)
      PROVE  q \in PinsOf(list) \ {p}
    <2>1. PICK k \in 1..n - 1 : shorter[k].pin = q
        BY <1>6 DEF PinsOf
    <2>2. from(k) \in 1..n \ {index} /\ list[from(k)].pin = q
        BY <1>4, <2>1
    <2> HIDE DEF from
    <2>3. q # p
        BY <1>1, <1>2, <2>2 DEF IsList
    <2> QED
        BY <1>1, <2>2, <2>3 DEF PinsOf
<1>10. PinsOf(shorter) = PinsOf(list) \ {p}
    BY <1>8, <1>9
<1> QED
    BY <1>7, <1>10 DEF shorter

-----------------------------------------------------------------------------
(***************************************************************************)
(* The flash.                                                              *)
(***************************************************************************)

\* A job, field by field.
LEMMA JobFields ==
    ASSUME NEW j \in Job
    PROVE  /\ j.task \in Tasks /\ j.step \in Steps /\ j.todo \in Seq(Pins)
           /\ j.new \in SUBSET Configuration /\ j.decommission \in BOOLEAN
    BY DEF Job

\* A job that is under way is not NoJob.
LEMMA UnderWay ==
    ASSUME Lists, job.step # "none"
    PROVE  job \in Job
    BY DEF Lists, NoJob

\* The next job of an operation: another step, another list to remove, or what
\* RollBack() makes of it.
Stepped(j, step) == [j EXCEPT !.step = step]
Removing(j, todo, step) == [j EXCEPT !.todo = todo, !.step = step]
RolledBack(j, c, step) == [j EXCEPT !.step = step, !.new = {}, !.todo = <<c.pin>>]

LEMMA NextStep ==
    ASSUME NEW j \in Job, NEW step \in Steps
    PROVE  LET k == Stepped(j, step) IN
           /\ k \in Job /\ k.step = step /\ k.todo = j.todo /\ k.new = j.new
           /\ k.decommission = j.decommission
    BY DEF Job, Stepped

LEMMA NextRemoval ==
    ASSUME NEW j \in Job, NEW step \in Steps, NEW todo \in Seq(Pins)
    PROVE  LET k == Removing(j, todo, step) IN
           k \in Job /\ k.step = step /\ k.todo = todo /\ k.new = j.new
    BY DEF Job, Removing

LEMMA NextRollBack ==
    ASSUME NEW j \in Job, NEW step \in Steps, NEW c \in Configuration
    PROVE  LET k == RolledBack(j, c, step) IN
           /\ k \in Job /\ k.step = step /\ k.new = {}
           /\ k.todo = <<c.pin>> /\ k.todo # <<>>
<1> DEFINE todo == <<c.pin>>
           k == RolledBack(j, c, step)
<1>1. todo \in Seq(Pins)
    BY DEF Configuration
<1>2. k = [j EXCEPT !.step = step, !.new = {}, !.todo = todo]
    BY DEF RolledBack
<1> HIDE DEF todo, k
<1>3. k \in Job /\ k.step = step /\ k.todo = todo /\ k.new = {}
    BY <1>1, <1>2 DEF Job
<1> QED
    BY <1>3 DEF todo, k

\* What AfterRemoving() makes of a job.
LEMMA AfterRemovingFacts ==
    ASSUME NEW todo \in Seq(Pins), job \in Job, AfterRemoving(todo)
    PROVE  \/ /\ todo # <<>> /\ job' \in Job /\ job'.step = "reset" /\ job'.todo = todo
              /\ job'.new = job.new
           \/ /\ todo = <<>> /\ job.new # {} /\ job' \in Job /\ job'.step = "register"
              /\ job'.new = job.new
           \/ todo = <<>> /\ job.new = {} /\ job' = NoJob
<1>1. CASE todo # <<>>
    <2>1. job' = Removing(job, todo, "reset")
        BY <1>1 DEF AfterRemoving, Removing
    <2>2. "reset" \in Steps
        BY DEF Steps
    <2>3. job' \in Job /\ job'.step = "reset" /\ job'.todo = todo /\ job'.new = job.new
        BY <2>1, <2>2, NextRemoval
    <2> QED
        BY <1>1, <2>3
<1>2. CASE todo = <<>> /\ job.new # {}
    <2>1. job' = Removing(job, todo, "register")
        BY <1>2 DEF AfterRemoving, Removing
    <2>2. "register" \in Steps
        BY DEF Steps
    <2>3. job' \in Job /\ job'.step = "register" /\ job'.todo = todo /\ job'.new = job.new
        BY <2>1, <2>2, NextRemoval
    <2> QED
        BY <1>2, <2>3
<1>3. CASE todo = <<>> /\ job.new = {}
    BY <1>3 DEF AfterRemoving
<1> QED
    BY <1>1, <1>2, <1>3

\* A step neither from nor to the writing of a new configuration, which leaves
\* the lists alone.
LEMMA QuietStep ==
    ASSUME Lists, FlashInv, UNCHANGED <<configurations, flash, flashOk>>, ~At("store"),
           job' \in Job \cup {NoJob}, job'.step # "store",
           job'.step \in {"reset", "erase"} => job'.todo # <<>>
    PROVE  (Lists /\ FlashInv)'
    BY DEF Lists, FlashInv, At

\* A step that changes neither the lists nor the operation.
LEMMA IdleStep ==
    ASSUME Lists, FlashInv, UNCHANGED <<configurations, flash, flashOk, job>>
    PROVE  (Lists /\ FlashInv)'
    BY DEF Lists, FlashInv, At

\* The lists after a boot.
LEMMA BootKeepsFlash ==
    ASSUME NEW list \in Seq(Configuration), NEW id, Boot(list, id)
    PROVE  (Lists /\ FlashInv)'
<1>1. job' = NoJob /\ flash' = list
    BY DEF Boot
<1>2. configurations' = list \/ (configurations' = <<>> /\ flashOk' = FALSE)
    BY Zenon DEF Boot
<1>3. <<>> \in Seq(Configuration)
    OBVIOUS
<1> QED
    BY <1>1, <1>2, <1>3 DEF Lists, FlashInv, At, NoJob

\* A request that is accepted begins with another step.
LEMMA StartKeepsFlash ==
    ASSUME Lists, FlashInv, NEW task \in Tasks, NEW step \in {"off", "register"},
           NEW todo \in Seq(Pins), NEW new \in SUBSET Configuration, NEW decommission \in BOOLEAN,
           Start(task, step, todo, new, decommission)
    PROVE  (Lists /\ FlashInv)'
<1>1. job = NoJob /\ UNCHANGED <<configurations, flash, flashOk>>
    BY DEF Start, store
<1>2. job' = [task |-> task, step |-> step, todo |-> todo, new |-> new,
              decommission |-> decommission]
    BY DEF Start
<1>3. step \in Steps
    BY DEF Steps
<1>4. job' \in Job /\ job'.step = step
    BY <1>2, <1>3 DEF Job
<1>5. ~At("store")
    BY <1>1 DEF At, NoJob
<1> QED
    BY <1>1, <1>4, <1>5, QuietStep

LEMMA RequestsKeepFlash ==
    ASSUME Lists, FlashInv,
           \/ \E task \in Tasks : \/ \E c \in Configuration : Configure(task, c)
                                  \/ \E p \in Pins : RemoveLoad(task, p)
           \/ \E c \in Configuration : UpdateLoad(c)
           \/ DecommissionLoads
    PROVE  (Lists /\ FlashInv)'
<1>1. ASSUME NEW task \in Tasks, NEW c \in Configuration, Configure(task, c)
      PROVE  (Lists /\ FlashInv)'
    <2>1. Start(task, "register", <<>>, {c}, FALSE)
        BY <1>1 DEF Configure
    <2>2. <<>> \in Seq(Pins) /\ {c} \in SUBSET Configuration
        OBVIOUS
    <2> QED
        BY <2>1, <2>2, StartKeepsFlash
<1>2. ASSUME NEW task \in Tasks, NEW p \in Pins, RemoveLoad(task, p)
      PROVE  (Lists /\ FlashInv)'
    <2>1. Start(task, "off", <<p>>, {}, FALSE)
        BY <1>2 DEF RemoveLoad
    <2>2. <<p>> \in Seq(Pins) /\ {} \in SUBSET Configuration
        OBVIOUS
    <2> QED
        BY <2>1, <2>2, StartKeepsFlash
<1>3. ASSUME NEW c \in Configuration, UpdateLoad(c)
      PROVE  (Lists /\ FlashInv)'
    <2>1. Start("console", "off", <<c.pin>>, {c}, FALSE) /\ "console" \in Tasks
        BY <1>3 DEF UpdateLoad, Tasks
    <2>2. <<c.pin>> \in Seq(Pins) /\ {c} \in SUBSET Configuration
        BY DEF Configuration
    <2> QED
        BY <2>1, <2>2, StartKeepsFlash
<1>4. CASE DecommissionLoads
    <2> DEFINE todo == [i \in DOMAIN configurations |-> configurations[i].pin]
    <2>1. Start("espnow", "off", todo, {}, TRUE) /\ "espnow" \in Tasks
        BY <1>4 DEF DecommissionLoads, Tasks
    <2> DEFINE n == Len(configurations)
    <2>2. DOMAIN configurations = 1..n /\ n \in Nat
        BY DEF Lists
    <2>5. \A i \in 1..n : configurations[i].pin \in Pins
        <3>1. \A i \in 1..n : configurations[i] \in Configuration
            BY DEF Lists
        <3> HIDE DEF n
        <3> QED
            BY <3>1 DEF Configuration
    <2> HIDE DEF n
    <2>3. todo \in Seq(Pins) /\ {} \in SUBSET Configuration
        BY <2>2, <2>5
    <2> HIDE DEF todo
    <2> QED
        BY <2>1, <2>3, StartKeepsFlash
<1> QED
    BY <1>1, <1>2, <1>3, <1>4

\* The steps of an operation before its last one.
LEMMA StepsKeepFlash ==
    ASSUME Lists, FlashInv,
           SwitchOff \/ ResetPin \/ EraseRelay \/ RegisterRelay \/ ConfigureGpio
    PROVE  (Lists /\ FlashInv)'
<1>1. CASE SwitchOff
    <2>1. job \in Job /\ job.step = "off" /\ UNCHANGED <<configurations, flash, flashOk>>
        BY <1>1, UnderWay DEF SwitchOff, At, store
    <2>2. job' = Stepped(job, "forget") \/ job' = NoJob
        BY <1>1 DEF SwitchOff, To, Stepped, Abandon
    <2>3. job' \in Job \cup {NoJob} /\ job'.step \in {"forget", "none"}
        BY <2>1, <2>2, NextStep DEF NoJob, Steps
    <2> QED
        BY <2>1, <2>3, QuietStep DEF At
<1>2. CASE ResetPin
    <2>1. job \in Job /\ job.step = "reset" /\ UNCHANGED <<configurations, flash, flashOk>>
        BY <1>2, UnderWay DEF ResetPin, At, store
    <2>2. job' = Stepped(job, "erase")
        BY <1>2 DEF ResetPin, To, Stepped
    <2>3. job' \in Job /\ job'.step = "erase" /\ job'.todo = job.todo
        BY <2>1, <2>2, NextStep DEF Steps
    <2> QED
        BY <2>1, <2>3, QuietStep DEF At, Lists
<1>3. CASE EraseRelay
    <2>1. job \in Job /\ job.step = "erase" /\ UNCHANGED <<configurations, flash, flashOk>>
        BY <1>3, UnderWay DEF EraseRelay, At, store
    <2>2. job.todo \in Seq(Pins) /\ job.todo # <<>>
        BY <2>1, JobFields DEF Lists, At
    <2> DEFINE rest == Tail(job.todo)
    <2>3. rest \in Seq(Pins)
        BY <2>2
    <2>4. AfterRemoving(rest)
        BY <1>3 DEF EraseRelay
    <2> HIDE DEF rest
    <2>5. /\ job' \in Job \cup {NoJob} /\ job'.step \in {"reset", "register", "none"}
          /\ job'.step = "reset" => job'.todo # <<>>
        BY <2>1, <2>3, <2>4, AfterRemovingFacts DEF NoJob
    <2> QED
        BY <2>1, <2>5, QuietStep DEF At
<1>4. CASE RegisterRelay
    <2>1. job \in Job /\ job.step = "register" /\ UNCHANGED <<configurations, flash, flashOk>>
        BY <1>4, UnderWay DEF RegisterRelay, At, store
    <2>2. job' = Stepped(job, "gpio")
        BY <1>4 DEF RegisterRelay, To, Stepped
    <2>3. job' \in Job /\ job'.step = "gpio"
        BY <2>1, <2>2, NextStep DEF Steps
    <2> QED
        BY <2>1, <2>3, QuietStep DEF At
<1>5. CASE ConfigureGpio
    <2>1. job \in Job /\ job.step = "gpio" /\ UNCHANGED <<configurations, flash, flashOk>>
        BY <1>5, UnderWay DEF ConfigureGpio, At, store
    <2>2. PICK c \in job.new : job' = Stepped(job, "init") \/ job' = RolledBack(job, c, "erase")
        BY <1>5 DEF ConfigureGpio, To, Stepped, RollBack, RolledBack
    <2>3. c \in Configuration /\ "init" \in Steps /\ "erase" \in Steps
        BY <2>1, JobFields DEF Steps
    <2>4. job' \in Job /\ (job'.step = "init" \/ (job'.step = "erase" /\ job'.todo # <<>>))
        <3>1. CASE job' = Stepped(job, "init")
            BY <2>1, <2>3, <3>1, NextStep
        <3>2. CASE job' = RolledBack(job, c, "erase")
            BY <2>1, <2>3, <3>2, NextRollBack
        <3> QED
            BY <2>2, <3>1, <3>2
    <2> QED
        BY <2>1, <2>4, QuietStep DEF At
<1> QED
    BY <1>1, <1>2, <1>3, <1>4, <1>5

\* The list is changed only together with its copy, or after a failure.
LEMMA ForgetKeepsFlash ==
    ASSUME Lists, FlashInv, Forget
    PROVE  (Lists /\ FlashInv)'
<1>1. job \in Job /\ job.step = "forget" /\ job.todo \in Seq(Pins)
    BY UnderWay, JobFields DEF Forget, At
<1> DEFINE rest == IF job.decommission THEN <<>> ELSE Erased(configurations, Head(job.todo))
<1>2. rest \in Seq(Configuration)
    <2>1. <<>> \in Seq(Configuration)
        OBVIOUS
    <2>2. ASSUME NEW p
          PROVE  Erased(configurations, p) \in Seq(Configuration)
        <3> DEFINE index == CHOOSE i \in DOMAIN configurations : configurations[i].pin = p
                   n == Len(configurations)
        <3>1. n \in Nat /\ \A k \in 1..n : configurations[k] \in Configuration
            BY DEF Lists
        <3> HIDE DEF index
        <3>2. CASE n = 0
            <4>1. 1..n - 1 = {}
                BY <3>2
            <4>2. Erased(configurations, p) = <<>>
                BY <4>1 DEF Erased
            <4> QED
                BY <4>2
        <3>3. CASE n # 0
            <4>1. \A k \in 1..n - 1 : configurations[k] \in Configuration
                                      /\ configurations[k + 1] \in Configuration
                BY <3>1, <3>3
            <4>2. Erased(configurations, p)
                    = [k \in 1..n - 1 |-> IF k < index THEN configurations[k]
                                          ELSE configurations[k + 1]]
                BY DEF Erased, index
            <4> DEFINE shorter == Erased(configurations, p)
            <4>3. shorter \in [1..n - 1 -> Configuration]
                BY <4>1, <4>2
            <4>4. n - 1 \in Nat
                BY <3>1, <3>3
            <4> HIDE DEF shorter, n
            <4>5. shorter \in Seq(Configuration)
                BY <4>3, <4>4
            <4> QED
                BY <4>5 DEF shorter
        <3> QED
            BY <3>2, <3>3
    <2> QED
        BY <2>1, <2>2
<1>3. PICK ok \in BOOLEAN :
        /\ Persist(ok, rest)
        /\ IF ok THEN configurations' = rest /\ AfterRemoving(job.todo)
           ELSE UNCHANGED configurations /\ Abandon
    BY DEF Forget
<1> HIDE DEF rest
<1>4. flash' \in {flash, rest} /\ flashOk' = ok /\ (ok => flash' = rest)
    BY <1>3 DEF Persist
<1>5. CASE ok
    <2>1. configurations' = rest /\ AfterRemoving(job.todo)
        BY <1>3, <1>5
    <2>2. /\ job' \in Job \cup {NoJob} /\ job'.step \in {"reset", "register", "none"}
          /\ job'.step = "reset" => job'.todo # <<>>
        BY <1>1, <2>1, AfterRemovingFacts DEF NoJob
    <2> QED
        BY <1>2, <1>4, <1>5, <2>1, <2>2 DEF Lists, FlashInv, At
<1>6. CASE ~ok
    <2>1. configurations' = configurations /\ job' = NoJob
        BY <1>3, <1>6 DEF Abandon
    <2> QED
        BY <1>2, <1>4, <1>6, <2>1 DEF Lists, FlashInv, At, NoJob
<1> QED
    BY <1>5, <1>6

LEMMA InitialStateKeepsFlash ==
    ASSUME Lists, FlashInv, InitialState
    PROVE  (Lists /\ FlashInv)'
<1>1. job \in Job /\ job.step = "init" /\ UNCHANGED <<flash, flashOk>>
    BY UnderWay DEF InitialState, At
<1>2. PICK c \in job.new, ok \in BOOLEAN :
        IF ok THEN configurations' = Append(configurations, c) /\ To("store")
        ELSE RollBack("erase", c) /\ UNCHANGED configurations
    BY DEF InitialState
<1>3. c \in Configuration
    BY <1>1, JobFields
<1>4. CASE ok
    <2>1. configurations' = Append(configurations, c) /\ job' = Stepped(job, "store")
        BY <1>2, <1>4 DEF To, Stepped
    <2>2. job' \in Job /\ job'.step = "store" /\ job'.new = job.new
        BY <1>1, <2>1, NextStep DEF Steps
    <2>3. /\ configurations' \in Seq(Configuration) /\ configurations' # <<>>
          /\ configurations'[Len(configurations')] = c /\ Front(configurations') = configurations
        BY <1>3, <2>1, FrontOfAppend DEF Lists
    <2>4. flashOk => flash = configurations
        BY <1>1 DEF FlashInv, At
    <2> QED
        BY <1>1, <1>2, <2>2, <2>3, <2>4 DEF Lists, FlashInv, At
<1>5. CASE ~ok
    <2>1. configurations' = configurations /\ job' = RolledBack(job, c, "erase")
        BY <1>2, <1>5 DEF RollBack, RolledBack
    <2>2. job' \in Job /\ job'.step = "erase" /\ job'.todo # <<>>
        BY <1>1, <1>3, <2>1, NextRollBack DEF Steps
    <2> QED
        BY <1>1, <2>1, <2>2, QuietStep DEF At
<1> QED
    BY <1>4, <1>5

LEMMA StoreKeepsFlash ==
    ASSUME Lists, FlashInv, Store
    PROVE  (Lists /\ FlashInv)'
<1>1. job \in Job /\ job.step = "store"
    BY UnderWay DEF Store, At
<1>2. PICK c \in job.new, ok \in BOOLEAN :
        /\ Persist(ok, configurations)
        /\ IF ok THEN job' = NoJob /\ UNCHANGED configurations
           ELSE configurations' = Front(configurations) /\ RollBack("reset", c)
    BY DEF Store
<1>3. c \in Configuration
    BY <1>1, JobFields
<1>4. flash' \in {flash, configurations} /\ flashOk' = ok /\ (ok => flash' = configurations)
    BY <1>2 DEF Persist
<1>5. CASE ok
    <2>1. job' = NoJob /\ configurations' = configurations
        BY <1>2, <1>5
    <2> QED
        BY <1>4, <1>5, <2>1 DEF Lists, FlashInv, At, NoJob
<1>6. CASE ~ok
    <2>1. configurations' = Front(configurations) /\ job' = RolledBack(job, c, "reset")
        BY <1>2, <1>6 DEF RollBack, RolledBack
    <2>2. job' \in Job /\ job'.step = "reset" /\ job'.todo # <<>>
        BY <1>1, <1>3, <2>1, NextRollBack DEF Steps
    <2>3. configurations' \in Seq(Configuration)
        BY <1>1, <2>1, FrontFacts DEF Lists, FlashInv, At
    <2> QED
        BY <1>4, <1>6, <2>2, <2>3 DEF Lists, FlashInv, At
<1> QED
    BY <1>5, <1>6

\* The lists agree throughout, up to the configuration that is being stored.
LEMMA FlashInductive == Spec => [](Lists /\ FlashInv)
<1>1. Init => Lists /\ FlashInv
    <2> SUFFICES ASSUME Init PROVE Lists /\ FlashInv
        OBVIOUS
    <2>1. configurations \in Seq(Configuration)
        BY StoreAssumption DEF Init, IsList
    <2> QED
        BY <2>1 DEF Init, Lists, FlashInv, At, NoJob
<1>2. Lists /\ FlashInv /\ [Next]_vars => (Lists /\ FlashInv)'
    <2> SUFFICES ASSUME Lists, FlashInv, [Next]_vars PROVE (Lists /\ FlashInv)'
        OBVIOUS
    <2>1. CASE Restart \/ FactoryReset
        <3>1. flash \in Seq(Configuration) /\ <<>> \in Seq(Configuration)
            BY DEF Lists
        <3> QED
            BY <2>1, <3>1, BootKeepsFlash DEF Restart, FactoryReset
    <2>2. CASE \/ DecommissionIdentity \/ Commission \/ WriteLevel \/ UNCHANGED vars
               \/ \E p \in Pins, on \in BOOLEAN : FindRelay(p, on)
        <3>1. UNCHANGED <<configurations, flash, flashOk, job>>
            BY <2>2 DEF DecommissionIdentity, Commission, WriteLevel, FindRelay, vars, store
        <3> QED
            BY <3>1, IdleStep
    <2> QED
        BY <2>1, <2>2, RequestsKeepFlash, StepsKeepFlash, ForgetKeepsFlash,
           InitialStateKeepsFlash, StoreKeepsFlash DEF Next
<1> QED
    BY <1>1, <1>2, PTL DEF Spec

\* A restart at any time brings back the configurations that are in the list,
\* and no others, except on the pins of the operation that it interrupts, as
\* long as persist() and loadPersisted() succeed; whatever else fails, for any
\* pins, lists and limits (NodeLoadHardwareStore::persist).
THEOREM FlashAgreement == Spec => []FlashAgrees
<1>1. Lists /\ FlashInv => FlashAgrees
    <2> SUFFICES ASSUME Lists, FlashInv, flashOk, NEW c \in Configuration, c.pin \notin JobPins
                 PROVE  c \in ToSet(flash) <=> c \in ToSet(configurations)
        BY DEF FlashAgrees
    <2>1. CASE ~At("store")
        BY <2>1 DEF FlashInv
    <2>2. CASE At("store")
        <3> DEFINE n == Len(configurations)
        <3>1. /\ flash = Front(configurations) /\ configurations # <<>>
              /\ configurations[n] \in job.new
            BY <2>2 DEF FlashInv
        <3>2. /\ Front(configurations) \in Seq(Configuration) /\ Len(Front(configurations)) = n - 1
              /\ n \in Nat \ {0} /\ \A i \in 1..n - 1 : Front(configurations)[i] = configurations[i]
            BY <3>1, FrontFacts DEF Lists
        <3>3. configurations[n] # c
            <4>1. job # NoJob
                BY <2>2 DEF At, NoJob
            <4>2. configurations[n].pin \in JobPins
                BY <3>1, <4>1 DEF JobPins
            <4> QED
                BY <4>2
        <3>4. ToSet(flash) = {configurations[i] : i \in 1..n - 1}
            BY <3>1, <3>2 DEF ToSet
        <3>5. ToSet(configurations) = {configurations[i] : i \in 1..n}
            BY DEF ToSet, Lists
        <3>6. 1..n = (1..n - 1) \cup {n}
            BY <3>2
        <3> HIDE DEF n
        <3>7. ToSet(configurations) = ToSet(flash) \cup {configurations[n]}
            BY <3>4, <3>5, <3>6
        <3> QED
            BY <3>3, <3>7
    <2> QED
        BY <2>1, <2>2
<1> QED
    BY <1>1, FlashInductive, PTL

-----------------------------------------------------------------------------
(***************************************************************************)
(* The three forms of a Load.  The arguments are about the configurations, *)
(* the Loads, the relays and the outputs; the latches have no part.        *)
(***************************************************************************)

\* A list of pins, and its first one.
LEMMA TodoFacts ==
    ASSUME NEW todo \in Seq(Pins), todo # <<>>
    PROVE  /\ Head(todo) \in Pins /\ Tail(todo) \in Seq(Pins)
           /\ Head(todo) \in ToSet(todo)
           /\ ToSet(todo) = {Head(todo)} \cup ToSet(Tail(todo))
<1> DEFINE n == Len(todo)
<1>1. n \in Nat \ {0} /\ DOMAIN todo = 1..n /\ Head(todo) = todo[1]
    OBVIOUS
<1>2. /\ Tail(todo) \in Seq(Pins) /\ DOMAIN Tail(todo) = 1..n - 1
      /\ \A i \in 1..n - 1 : Tail(todo)[i] = todo[i + 1]
    BY <1>1
<1>3. ToSet(todo) = {todo[i] : i \in 1..n}
    BY <1>1 DEF ToSet
<1>4. ToSet(Tail(todo)) = {todo[i + 1] : i \in 1..n - 1}
    BY <1>2 DEF ToSet
<1>5. \A i \in 1..n : i = 1 \/ (i - 1 \in 1..n - 1 /\ i = (i - 1) + 1)
    BY <1>1
<1>6. \A i \in 1..n - 1 : i + 1 \in 1..n
    BY <1>1
<1>7. 1 \in 1..n /\ todo[1] \in Pins
    BY <1>1
<1> HIDE DEF n
<1>8. ToSet(todo) = {todo[1]} \cup ToSet(Tail(todo))
    BY <1>3, <1>4, <1>5, <1>6, <1>7
<1> QED
    BY <1>1, <1>2, <1>7, <1>8

LEMMA SingleFacts ==
    ASSUME NEW p
    PROVE  <<p>> # <<>> /\ ToSet(<<p>>) = {p} /\ Head(<<p>>) = p /\ Tail(<<p>>) = <<>>
    BY DEF ToSet

LEMMA EmptyFacts == ToSet(<<>>) = {} /\ PinsOf(<<>>) = {} /\ IsList(<<>>) /\ Len(<<>>) = 0
    BY DEF ToSet, PinsOf, IsList

\* The pins of a list are pins.
LEMMA PinsAre ==
    ASSUME NEW list, IsList(list)
    PROVE  PinsOf(list) \subseteq Pins
<1>1. \A i \in DOMAIN list : list[i] \in Configuration
    BY DEF IsList
<1>2. \A i \in DOMAIN list : list[i].pin \in Pins
    BY <1>1 DEF Configuration
<1> QED
    BY <1>2 DEF PinsOf

\* A step that touches none of the forms.
LEMMA Untouched ==
    ASSUME UNCHANGED <<configurations, stale, memory, size, loads, output>>
    PROVE  /\ Paired => Paired'
           /\ Covered => Covered'
           /\ OneRelay => OneRelay'
           /\ Apart => Apart'
           /\ AddsOne /\ job'.new = job.new => AddsOne'
           /\ Typed /\ IsList(flash') => Typed'
    BY DEF Paired, Covered, OneRelay, Apart, AddsOne, Adds, Typed, Registered, Applied,
           Tracked, Outputs, Configured

\* Nothing but the list that is read, or what of it runs.
LEMMA BootKeepsLoads ==
    ASSUME NEW list, IsList(list), NEW id, Boot(list, id)
    PROVE  LoadsInv'
<1>1. job' = NoJob /\ flash' = list /\ stale' = PinsOf(configurations') \ loads'
    BY Zenon DEF Boot
<1>2. ASSUME NEW kept, IsList(kept), configurations' = kept, NEW run \in {kept, <<>>}, Running(run)
      PROVE  LoadsInv'
    <2>1. IsList(run)
        BY <1>2, EmptyFacts
    <2> DEFINE n == Len(run)
    <2>2. /\ memory' = Vector(run) /\ size' = n /\ loads' = PinsOf(run)
          /\ output' = Only(PinsOf(run))
        BY <1>2 DEF Running
    <2>3. /\ memory' \in Seq(Relay \cup {Unused}) /\ size' \in 0..Len(memory')
          /\ \A i \in 1..n : /\ memory'[i] \in Relay /\ memory'[i].pin = run[i].pin
                             /\ memory'[i].applied
        BY <2>1, <2>2, VectorFacts
    <2>4. PinsOf(run) = {run[i].pin : i \in 1..n} /\ n \in Nat
          /\ \A i, j \in 1..n : run[i].pin = run[j].pin => i = j
        BY <2>1 DEF PinsOf, IsList
    <2>5. PinsOf(kept) \subseteq Pins /\ PinsOf(run) \subseteq PinsOf(kept)
        <3>1. PinsOf(kept) \subseteq Pins
            BY <1>2, PinsAre
        <3> QED
            BY <1>2, <3>1, EmptyFacts
    <2>6. Registered' = loads'
        BY <2>2, <2>3, <2>4 DEF Registered
    <2>7. OneRelay'
        BY <2>2, <2>3, <2>4 DEF OneRelay
    <2>8. Paired'
        <3>1. Applied({})'
            BY <2>2, <2>3 DEF Applied
        <3>2. Tracked(loads)'
            BY <2>2 DEF Tracked, Outputs, Only
        <3> QED
            BY <2>6, <3>1, <3>2 DEF Paired
    <2>9. Typed'
        <3>1. output' \in [Pins -> BOOLEAN]
            BY <2>2 DEF Only
        <3>2. stale' \subseteq Pins /\ loads' \subseteq Pins
            BY <1>1, <1>2, <2>2, <2>5
        <3> QED
            BY <1>1, <1>2, <2>2, <2>3, <3>1, <3>2 DEF Typed
    <2>10. Covered' /\ Apart'
        BY <1>1, <1>2, <2>2, <2>5 DEF Covered, Apart, Configured
    <2> QED
        BY <1>1, <2>7, <2>8, <2>9, <2>10 DEF LoadsInv, Phases, At, NoJob
<1>3. ASSUME configurations' = list, ApplyFails(list)
      PROVE  LoadsInv'
    <2>1. PICK i \in DOMAIN list, call \in {"gpio_config", "gpio_set_level"} :
            /\ MayFail(call, FALSE)
            /\ memory' = [k \in DOMAIN Vector(SubSeq(list, 1, i)) |-> Unused] /\ size' = 0
            /\ loads' = {}
            /\ output' = Only(IF call = "gpio_config" THEN {} ELSE {list[i].pin})
        BY <1>3 DEF ApplyFails
    <2>2. /\ memory' \in Seq(Relay \cup {Unused}) /\ size' = 0 /\ loads' = {}
          /\ call = "gpio_config" => output' = Only({})
        BY <2>1, UnusedFacts DEF IsList
    <2>3. size' \in 0..Len(memory')
        BY <2>2
    <2>4. PinsOf(list) \subseteq Pins
        BY PinsAre
    <2>5. Typed'
        <3>1. output' \in [Pins -> BOOLEAN]
            BY <2>1 DEF Only
        <3> QED
            BY <1>1, <1>3, <2>2, <2>3, <2>4, <3>1 DEF Typed
    <2>6. 1..size' = {}
        BY <2>2
    <2>7. Registered' = {} /\ Tracked(loads)'
        <3>1. "gpio_set_level" \notin FailingCalls => call = "gpio_config"
            BY <2>1 DEF MayFail
        <3>2. call = "gpio_config" => Outputs' = {}
            BY <2>2 DEF Outputs, Only
        <3>3. Tracked(loads)'
            BY <3>1, <3>2 DEF Tracked
        <3>4. Registered' = {}
            BY <2>6 DEF Registered
        <3> QED
            BY <3>3, <3>4
    <2>8. OneRelay' /\ Applied({})'
        BY <2>6 DEF OneRelay, Applied
    <2>9. Paired' /\ Covered' /\ Apart'
        BY <1>1, <1>3, <2>2, <2>7, <2>8 DEF Paired, Covered, Apart, Configured
    <2> QED
        BY <1>1, <2>5, <2>8, <2>9 DEF LoadsInv, Phases, At, NoJob
<1>4. \/ configurations' = list /\ (Running(list) \/ Running(<<>>) \/ ApplyFails(list))
      \/ configurations' = <<>> /\ Running(<<>>)
    BY Zenon DEF Boot
<1> QED
    BY <1>2, <1>3, <1>4, EmptyFacts

\* A request begins an operation on forms that agree.
LEMMA StartKeepsLoads ==
    ASSUME Lists, LoadsInv, NEW task, NEW step \in {"off", "register"}, NEW todo, NEW new,
           NEW decommission, Start(task, step, todo, new, decommission),
           step = "off" => Removes', step = "register" => AddsOne'
    PROVE  LoadsInv'
<1>1. /\ UNCHANGED <<configurations, flash, stale, memory, size, loads, output>>
      /\ job = NoJob /\ job'.step = step
    BY DEF Start, store, relays, gpio
<1>2. Paired /\ Covered /\ OneRelay /\ Apart /\ Typed
    BY <1>1 DEF LoadsInv, Phases, At, NoJob
<1>3. Paired' /\ Covered' /\ OneRelay' /\ Apart' /\ Typed'
    BY <1>1, <1>2, Untouched DEF Typed
<1> QED
    BY <1>1, <1>3 DEF LoadsInv, Phases, At

LEMMA RequestsKeepLoads ==
    ASSUME Lists, LoadsInv,
           \/ \E task \in Tasks : \/ \E c \in Configuration : Configure(task, c)
                                  \/ \E p \in Pins : RemoveLoad(task, p)
           \/ \E c \in Configuration : UpdateLoad(c)
           \/ DecommissionLoads
    PROVE  LoadsInv'
<1>1. ASSUME NEW task \in Tasks, NEW c \in Configuration, Configure(task, c)
      PROVE  LoadsInv'
    <2>1. Start(task, "register", <<>>, {c}, FALSE) /\ c.pin \notin PinsOf(configurations)
        BY <1>1 DEF Configure
    <2>2. configurations' = configurations /\ job'.new = {c}
        BY <2>1 DEF Start, store
    <2>3. AddsOne'
        BY <2>1, <2>2 DEF AddsOne, Adds, Configured
    <2> QED
        BY <2>1, <2>3, StartKeepsLoads
<1>2. ASSUME NEW task \in Tasks, NEW p \in Pins, RemoveLoad(task, p)
      PROVE  LoadsInv'
    <2>1. Start(task, "off", <<p>>, {}, FALSE) /\ p \in PinsOf(configurations)
        BY <1>2 DEF RemoveLoad
    <2>2. /\ configurations' = configurations
          /\ job'.todo = <<p>> /\ job'.new = {} /\ job'.decommission = FALSE
        BY <2>1 DEF Start, store
    <2>3. Removes'
        BY <2>1, <2>2 DEF Removes, Configured
    <2> QED
        BY <2>1, <2>3, StartKeepsLoads
<1>3. ASSUME NEW c \in Configuration, UpdateLoad(c)
      PROVE  LoadsInv'
    <2>1. Start("console", "off", <<c.pin>>, {c}, FALSE) /\ c.pin \in PinsOf(configurations)
        BY <1>3 DEF UpdateLoad
    <2>2. /\ configurations' = configurations
          /\ job'.todo = <<c.pin>> /\ job'.new = {c} /\ job'.decommission = FALSE
        BY <2>1 DEF Start, store
    <2>3. Removes'
        BY <2>1, <2>2 DEF Removes, Configured, Adds
    <2> QED
        BY <2>1, <2>3, StartKeepsLoads
<1>4. CASE DecommissionLoads
    <2> DEFINE todo == [i \in DOMAIN configurations |-> configurations[i].pin]
    <2>1. Start("espnow", "off", todo, {}, TRUE)
        BY <1>4 DEF DecommissionLoads
    <2>2. ToSet(todo) = PinsOf(configurations)
        BY DEF ToSet, PinsOf
    <2> HIDE DEF todo
    <2>3. /\ configurations' = configurations
          /\ job'.todo = todo /\ job'.new = {} /\ job'.decommission = TRUE
        BY <2>1 DEF Start, store
    <2>4. Removes'
        BY <2>2, <2>3 DEF Removes, Configured
    <2> QED
        BY <2>1, <2>4, StartKeepsLoads
<1> QED
    BY <1>1, <1>2, <1>3, <1>4

\* The Loads are switched off; no form of them changes.
LEMMA SwitchOffKeepsLoads ==
    ASSUME Lists, LoadsInv, SwitchOff
    PROVE  LoadsInv'
<1>1. /\ job \in Job /\ job.step = "off" /\ job.todo \in Seq(Pins)
      /\ UNCHANGED <<configurations, flash, stale, memory, size, loads, output>>
    BY UnderWay, JobFields DEF SwitchOff, At, store, relays
<1>2. Paired /\ Covered /\ Removes /\ OneRelay /\ Apart /\ Typed
    BY <1>1 DEF LoadsInv, Phases, At
<1>3. Paired' /\ Covered' /\ OneRelay' /\ Apart' /\ Typed'
    BY <1>1, <1>2, Untouched DEF Typed
<1>4. \/ To("forget") /\ ToSet(SubSeq(job.todo, 1, Len(job.todo))) \subseteq Registered
      \/ job' = NoJob
    BY DEF SwitchOff, Abandon
<1>5. CASE job' = NoJob
    BY <1>3, <1>5 DEF LoadsInv, Phases, At, NoJob
<1>6. CASE To("forget") /\ ToSet(SubSeq(job.todo, 1, Len(job.todo))) \subseteq Registered
    <2>1. SubSeq(job.todo, 1, Len(job.todo)) = job.todo
        BY <1>1
    <2>2. job' = Stepped(job, "forget")
        BY <1>6 DEF To, Stepped
    <2>3. /\ job'.step = "forget" /\ job'.todo = job.todo /\ job'.new = job.new
          /\ job'.decommission = job.decommission
        BY <1>1, <2>2, NextStep DEF Steps
    <2>4. Removes'
        BY <1>1, <1>2, <2>3 DEF Removes, Configured, Adds
    <2>5. ToSet(job'.todo) \subseteq loads'
        BY <1>1, <1>2, <1>6, <2>1, <2>3 DEF Paired
    <2> QED
        BY <1>3, <2>3, <2>4, <2>5 DEF LoadsInv, Phases, At
<1> QED
    BY <1>4, <1>5, <1>6

\* What is forgotten is no longer configured, and is to be removed.
LEMMA ForgetKeepsLoads ==
    ASSUME Lists, LoadsInv, Forget
    PROVE  LoadsInv'
<1>1. /\ job \in Job /\ job.step = "forget" /\ job.todo \in Seq(Pins)
      /\ UNCHANGED <<stale, memory, size, loads, output>>
    BY UnderWay, JobFields DEF Forget, At, relays, gpio
<1>2. /\ Paired /\ Covered /\ Removes /\ ToSet(job.todo) \subseteq loads
      /\ OneRelay /\ Apart /\ Typed
    BY <1>1 DEF LoadsInv, Phases, At
<1> DEFINE rest == IF job.decommission THEN <<>> ELSE Erased(configurations, Head(job.todo))
<1>3. PICK ok \in BOOLEAN :
        /\ Persist(ok, rest)
        /\ IF ok THEN configurations' = rest /\ AfterRemoving(job.todo)
           ELSE UNCHANGED configurations /\ Abandon
    BY DEF Forget
<1>4. /\ IsList(rest) /\ PinsOf(rest) = Configured \ ToSet(job.todo)
      /\ job.todo = <<>> => job.decommission /\ job.new = {}
      /\ job.new = {} \/ \E c \in Configuration : Adds(c) /\ c.pin \in ToSet(job.todo)
    <2>1. CASE job.decommission
        BY <1>2, <2>1, EmptyFacts DEF Removes
    <2>2. CASE ~job.decommission
        <3>1. PICK p \in Configured :
                /\ job.todo = <<p>>
                /\ job.new = {} \/ \E c \in Configuration : Adds(c) /\ c.pin = p
            BY <1>2, <2>2 DEF Removes
        <3>2. rest = Erased(configurations, p) /\ ToSet(job.todo) = {p} /\ job.todo # <<>>
            BY <2>2, <3>1, SingleFacts
        <3> HIDE DEF rest
        <3>3. IsList(rest) /\ PinsOf(rest) = Configured \ {p}
            BY <1>2, <3>1, <3>2, ErasedFacts DEF Typed, Configured
        <3> QED
            BY <3>1, <3>2, <3>3
    <2> QED
        BY <2>1, <2>2
<1> HIDE DEF rest
<1>5. IsList(configurations') /\ IsList(flash')
    BY <1>2, <1>3, <1>4 DEF Persist, Typed
<1>6. /\ Paired' /\ OneRelay' /\ Apart'
    BY <1>1, <1>2 DEF Paired, OneRelay, Apart, Registered, Applied, Tracked, Outputs
<1>7. Typed'
    BY <1>1, <1>2, <1>5 DEF Typed
<1>8. CASE ok
    <2>1. configurations' = rest /\ AfterRemoving(job.todo)
        BY <1>3, <1>8
    <2>2. Configured' = (loads \ ToSet(job.todo)) \cup stale /\ ToSet(job.todo) \cap stale = {}
        BY <1>2, <1>4, <2>1 DEF Covered, Apart, Configured
    <2>3. CASE job.todo # <<>>
        <3>1. job'.step = "reset" /\ job'.todo = job.todo /\ job'.new = job.new
            BY <1>1, <2>1, <2>3, AfterRemovingFacts
        <3>2. job.new = {} \/ AddsOne'
            BY <1>2, <1>4, <2>2, <3>1 DEF AddsOne, Adds
        <3>3. Leaving'
            BY <1>1, <2>2, <2>3, <3>1, <3>2 DEF Leaving
        <3> QED
            BY <1>6, <1>7, <3>1, <3>3 DEF LoadsInv, Phases, At
    <2>4. CASE job.todo = <<>>
        <3>1. job' = NoJob
            BY <1>1, <1>4, <2>1, <2>4, AfterRemovingFacts
        <3>2. Covered'
            BY <1>1, <2>2, <2>4, EmptyFacts DEF Covered
        <3> QED
            BY <1>6, <1>7, <3>1, <3>2 DEF LoadsInv, Phases, At, NoJob
    <2> QED
        BY <2>3, <2>4
<1>9. CASE ~ok
    <2>1. configurations' = configurations /\ job' = NoJob
        BY <1>3, <1>9 DEF Abandon
    <2>2. Covered'
        BY <1>1, <1>2, <2>1 DEF Covered, Configured
    <2> QED
        BY <1>6, <1>7, <2>1, <2>2 DEF LoadsInv, Phases, At, NoJob
<1> QED
    BY <1>8, <1>9

\* removeRelay() takes the first pin from the Loads and releases it.
LEMMA ResetPinKeepsLoads ==
    ASSUME Lists, LoadsInv, ResetPin
    PROVE  LoadsInv'
<1>1. /\ job \in Job /\ job.step = "reset" /\ job.todo \in Seq(Pins) /\ job.todo # <<>>
      /\ UNCHANGED <<configurations, flash, stale, memory, size>>
    BY UnderWay, JobFields DEF ResetPin, At, store, relays, Lists
<1>2. Paired /\ Leaving /\ OneRelay /\ Apart /\ Typed
    BY <1>1 DEF LoadsInv, Phases, At
<1> DEFINE p == Head(job.todo)
<1>3. p \in Pins /\ p \in ToSet(job.todo)
    BY <1>1, TodoFacts
<1>4. /\ loads' = loads \ {p}
      /\ IF p \in Registered THEN output' = [output EXCEPT ![p] = FALSE] ELSE output' = output
      /\ job' = Stepped(job, "erase")
    BY DEF ResetPin, removeLoadByRelayPin, gpio, To, Stepped
<1>5. job'.step = "erase" /\ job'.todo = job.todo /\ job'.new = job.new
    BY <1>1, <1>4, NextStep DEF Steps
<1> HIDE DEF p
<1>6. Tracked(loads)'
    <2> SUFFICES ASSUME "gpio_set_level" \notin FailingCalls PROVE (Outputs \subseteq loads)'
        BY DEF Tracked
    <2>1. Outputs \subseteq loads /\ Registered = loads
        BY <1>2 DEF Paired, Tracked
    <2>2. \A q \in Pins : output'[q] => output[q] /\ q # p
        BY <1>2, <1>3, <1>4, <2>1 DEF Outputs, Typed
    <2> QED
        BY <1>4, <2>1, <2>2 DEF Outputs
<1>7. Typed'
    <2>1. output' \in [Pins -> BOOLEAN]
        BY <1>2, <1>3, <1>4 DEF Typed
    <2> QED
        BY <1>1, <1>2, <1>4, <2>1 DEF Typed
<1>8. Orphaned'
    <2>1. Registered' = loads /\ Head(job'.todo) = p
        BY <1>1, <1>2, <1>5 DEF Paired, Registered, p
    <2>2. \A i \in 1..size' : memory'[i].pin # p => memory'[i].applied
        BY <1>1, <1>2 DEF Paired, Applied
    <2>3. Applied({Head(job.todo)})'
        BY <2>1, <2>2 DEF Applied
    <2>4. Head(job'.todo) \notin loads' /\ Registered' \ {Head(job'.todo)} = loads'
        BY <1>4, <2>1
    <2> QED
        BY <1>6, <2>3, <2>4 DEF Orphaned
<1>9. Leaving'
    BY <1>1, <1>2, <1>3, <1>4, <1>5 DEF Leaving, AddsOne, Adds, Configured
<1>10. OneRelay' /\ Apart'
    BY <1>1, <1>2, <1>4 DEF OneRelay, Apart
<1> QED
    BY <1>5, <1>7, <1>8, <1>9, <1>10 DEF LoadsInv, Phases, At

\* relays_.erase() of the first pin leaves the relays of the Loads.
LEMMA EraseRelayKeepsLoads ==
    ASSUME Lists, LoadsInv, EraseRelay
    PROVE  LoadsInv'
<1>1. /\ job \in Job /\ job.step = "erase" /\ job.todo \in Seq(Pins) /\ job.todo # <<>>
      /\ UNCHANGED <<configurations, flash, stale, loads, output>>
    BY UnderWay, JobFields DEF EraseRelay, At, store, gpio, Lists
<1>2. Orphaned /\ Leaving /\ OneRelay /\ Apart /\ Typed
    BY <1>1 DEF LoadsInv, Phases, At
<1> DEFINE p == Head(job.todo)
<1>3. /\ Tail(job.todo) \in Seq(Pins) /\ ToSet(job.todo) = {p} \cup ToSet(Tail(job.todo))
      /\ AfterRemoving(Tail(job.todo))
    BY <1>1, TodoFacts DEF EraseRelay
<1>4. IF Slots(p) = {} THEN memory' = memory /\ size' = size
      ELSE \E i \in Slots(p) :
              /\ memory' = [k \in DOMAIN memory |->
                              IF i <= k /\ k < size THEN memory[k + 1] ELSE memory[k]]
              /\ size' = size - 1
    BY DEF EraseRelay, relays
<1>5. p \notin loads /\ Registered \ {p} = loads /\ Applied({p}) /\ Tracked(loads)
    BY <1>2 DEF Orphaned
<1> HIDE DEF p
<1>6. size \in Nat /\ size <= Len(memory) /\ DOMAIN memory = 1..Len(memory)
    BY <1>2 DEF Typed
<1>7. Registered' = loads /\ Applied({})' /\ OneRelay'
      /\ memory' \in Seq(Relay \cup {Unused}) /\ size' \in 0..Len(memory')
      /\ \A i \in 1..size' : memory'[i] \in Relay
    <2>1. CASE Slots(p) = {}
        <3>1. memory' = memory /\ size' = size
            BY <1>4, <2>1
        <3>2. \A i \in 1..size : memory[i].pin # p
            BY <2>1 DEF Slots
        <3>3. Registered' = loads
            BY <1>5, <3>1, <3>2 DEF Registered
        <3>4. Applied({})'
            BY <1>5, <3>1, <3>2 DEF Applied
        <3>5. OneRelay'
            BY <1>2, <3>1 DEF OneRelay
        <3> QED
            BY <1>2, <3>1, <3>3, <3>4, <3>5 DEF Typed
    <2>2. CASE Slots(p) # {}
        <3>1. PICK i \in Slots(p) :
                /\ memory' = [k \in DOMAIN memory |->
                                IF i <= k /\ k < size THEN memory[k + 1] ELSE memory[k]]
                /\ size' = size - 1
            BY <1>4, <2>2
        <3>2. i \in 1..size /\ memory[i].pin = p
            BY <3>1 DEF Slots
        <3> DEFINE from(k) == IF k < i THEN k ELSE k + 1
        <3>3. \A k \in 1..size - 1 : from(k) \in 1..size \ {i} /\ memory'[k] = memory[from(k)]
            BY <1>6, <3>1, <3>2
        <3>4. \A k \in 1..size \ {i} : \E j \in 1..size - 1 : from(j) = k
            <4> TAKE k \in 1..size \ {i}
            <4>1. CASE k < i
                <5>1. k \in 1..size - 1 /\ from(k) = k
                    BY <1>6, <3>2, <4>1
                <5> QED
                    BY <5>1
            <4>2. CASE k > i
                <5>1. k - 1 \in 1..size - 1 /\ from(k - 1) = k
                    BY <1>6, <3>2, <4>2
                <5> QED
                    BY <5>1
            <4> QED
                BY <1>6, <3>2, <4>1, <4>2
        <3>5. \A j, k \in 1..size - 1 : from(j) = from(k) => j = k
            BY <1>6, <3>2
        <3>6. memory' \in Seq(Relay \cup {Unused}) /\ Len(memory') = Len(memory)
            <4> DEFINE Entry == Relay \cup {Unused}
                       m == memory'
            <4>1. \A k \in 1..Len(memory) : memory[k] \in Entry
                BY <1>2 DEF Typed
            <4>2. \A k \in 1..Len(memory) : k < size => k + 1 \in 1..Len(memory)
                BY <1>6
            <4>3. m \in [1..Len(memory) -> Entry]
                <5> HIDE DEF Entry
                <5> QED
                    BY <1>6, <3>1, <4>1, <4>2
            <4>4. Len(memory) \in Nat
                BY <1>2 DEF Typed
            <4> HIDE DEF Entry, m
            <4>5. m \in Seq(Entry) /\ Len(m) = Len(memory)
                BY <4>3, <4>4
            <4> QED
                BY <4>5 DEF Entry, m
        <3> HIDE DEF from
        <3>7. \A k \in 1..size \ {i} : memory[k].pin # p
            BY <1>2, <3>2 DEF OneRelay
        <3>8. loads = {memory[k].pin : k \in 1..size \ {i}}
            BY <1>5, <3>2, <3>7 DEF Registered
        <3>9. Registered' = {memory[from(k)].pin : k \in 1..size - 1}
            BY <3>1, <3>3 DEF Registered
        <3>10. Registered' = loads
            BY <3>3, <3>4, <3>8, <3>9
        <3>11. Applied({})'
            BY <1>5, <3>1, <3>3, <3>7 DEF Applied
        <3>12. OneRelay'
            <4>1. ASSUME NEW j \in 1..size - 1, NEW k \in 1..size - 1,
                         memory'[j].pin = memory'[k].pin
                  PROVE  j = k
                <5>1. from(j) \in 1..size /\ from(k) \in 1..size
                    BY <3>3
                <5>2. memory[from(j)].pin = memory[from(k)].pin
                    BY <3>3, <4>1
                <5>3. from(j) = from(k)
                    BY <1>2, <5>1, <5>2 DEF OneRelay
                <5> QED
                    BY <3>5, <5>3
            <4>2. size' = size - 1
                BY <3>1
            <4> QED
                BY <4>1, <4>2 DEF OneRelay
        <3>13. \A k \in 1..size' : memory'[k] \in Relay
            BY <1>2, <3>1, <3>3 DEF Typed
        <3>14. size' \in 0..Len(memory')
            BY <1>6, <3>1, <3>2, <3>6
        <3> QED
            BY <3>6, <3>10, <3>11, <3>12, <3>13, <3>14
    <2> QED
        BY <2>1, <2>2
<1>8. Typed'
    BY <1>1, <1>2, <1>7 DEF Typed
<1>9. Paired' /\ Apart'
    BY <1>1, <1>2, <1>5, <1>7 DEF Paired, Tracked, Outputs, Apart
<1>10. Configured' = (loads \ ToSet(Tail(job.todo))) \cup stale
       /\ ToSet(Tail(job.todo)) \cap stale = {}
    BY <1>1, <1>2, <1>3, <1>5 DEF Leaving, Configured
<1>11. job.new = {} \/ (job'.new = job.new => AddsOne')
    BY <1>1, <1>2 DEF Leaving, AddsOne, Adds, Configured
<1>12. CASE /\ Tail(job.todo) # <<>> /\ job'.step = "reset" /\ job'.todo = Tail(job.todo)
            /\ job'.new = job.new
    <2>1. Leaving'
        BY <1>1, <1>10, <1>11, <1>12 DEF Leaving
    <2> QED
        BY <1>7, <1>8, <1>9, <1>12, <2>1 DEF LoadsInv, Phases, At
<1>13. CASE Tail(job.todo) = <<>> /\ job'.step \in {"register", "none"}
            /\ (job'.step = "register" => AddsOne')
    <2>1. Covered'
        BY <1>1, <1>10, <1>13, EmptyFacts DEF Covered
    <2> QED
        BY <1>7, <1>8, <1>9, <1>13, <2>1 DEF LoadsInv, Phases, At
<1>14. \/ /\ Tail(job.todo) # <<>> /\ job'.step = "reset" /\ job'.todo = Tail(job.todo)
          /\ job'.new = job.new
       \/ Tail(job.todo) = <<>> /\ job.new # {} /\ job'.step = "register" /\ job'.new = job.new
       \/ Tail(job.todo) = <<>> /\ job'.step = "none"
    <2> DEFINE rest == Tail(job.todo)
    <2>1. rest \in Seq(Pins) /\ job \in Job /\ AfterRemoving(rest)
        BY <1>1, <1>3
    <2> HIDE DEF rest
    <2>2. \/ rest # <<>> /\ job'.step = "reset" /\ job'.todo = rest /\ job'.new = job.new
          \/ rest = <<>> /\ job.new # {} /\ job'.step = "register" /\ job'.new = job.new
          \/ rest = <<>> /\ job' = NoJob
        BY <2>1, AfterRemovingFacts
    <2> QED
        BY <2>2 DEF rest, NoJob
<1> QED
    BY <1>11, <1>12, <1>13, <1>14

\* addRelay() puts the relay of the new Load behind the others.
LEMMA RegisterRelayKeepsLoads ==
    ASSUME Lists, LoadsInv, RegisterRelay
    PROVE  LoadsInv'
<1>1. /\ job \in Job /\ job.step = "register"
      /\ UNCHANGED <<configurations, flash, stale, loads, output>>
    BY UnderWay DEF RegisterRelay, At, store, gpio
<1>2. Paired /\ Covered /\ AddsOne /\ OneRelay /\ Apart /\ Typed
    BY <1>1 DEF LoadsInv, Phases, At
<1>3. PICK c \in Configuration : job.new = {c} /\ c.pin \notin Configured
    BY <1>2 DEF AddsOne, Adds
<1> DEFINE relay == [pin |-> c.pin, on |-> c.on, applied |-> FALSE]
<1>4. /\ IF size < Len(memory) THEN memory' = [memory EXCEPT ![size + 1] = relay]
         ELSE memory' = [k \in 1..Grown(size) |->
                            IF k <= size THEN memory[k]
                            ELSE IF k = size + 1 THEN relay ELSE Unused]
      /\ size' = size + 1
      /\ job' = Stepped(job, "gpio")
    BY <1>3 DEF RegisterRelay, To, Stepped
<1>5. job'.step = "gpio" /\ job'.new = {c}
    BY <1>1, <1>3, <1>4, NextStep DEF Steps
<1>6. relay \in Relay /\ relay.pin = c.pin
    BY DEF Relay, Configuration
<1> HIDE DEF relay
<1>7. size \in Nat /\ size <= Len(memory) /\ Len(memory) \in Nat /\ DOMAIN memory = 1..Len(memory)
    BY <1>2 DEF Typed
<1>8. /\ memory' \in Seq(Relay \cup {Unused}) /\ size' \in 0..Len(memory')
      /\ memory'[size + 1] = relay /\ \A k \in 1..size : memory'[k] = memory[k]
    <2> DEFINE Entry == Relay \cup {Unused}
    <2>1. relay \in Entry /\ Unused \in Entry /\ memory \in Seq(Entry)
        BY <1>2, <1>6 DEF Typed
    <2>2. CASE size < Len(memory)
        <3> HIDE DEF Entry
        <3>1. memory' = [memory EXCEPT ![size + 1] = relay] /\ size + 1 \in 1..Len(memory)
            BY <1>4, <1>7, <2>2
        <3>2. memory' \in Seq(Entry) /\ Len(memory') = Len(memory)
            BY <1>7, <2>1, <3>1
        <3>3. size' \in 0..Len(memory')
            BY <1>4, <1>7, <2>2, <3>2
        <3>4. memory'[size + 1] = relay /\ \A k \in 1..size : memory'[k] = memory[k]
            BY <1>7, <3>1
        <3> QED
            BY <3>2, <3>3, <3>4 DEF Entry
    <2>3. CASE ~(size < Len(memory))
        <3> DEFINE n == Grown(size)
                   m == memory'
        <3>1. n \in Nat /\ size + 1 <= n
            BY <1>7 DEF Grown
        <3>2. m = [k \in 1..n |-> IF k <= size THEN memory[k]
                                  ELSE IF k = size + 1 THEN relay ELSE Unused]
            BY <1>4, <2>3
        <3> HIDE DEF Entry, n, m
        <3>3. \A k \in 1..size : memory[k] \in Entry
            BY <1>7, <2>1
        <3>4. m \in [1..n -> Entry]
            <4>1. \A k \in 1..n : k <= size => k \in 1..size
                BY <1>7
            <4> QED
                BY <2>1, <3>2, <3>3, <4>1
        <3>5. m \in Seq(Entry) /\ Len(m) = n
            BY <3>1, <3>4
        <3>6. size' \in 0..Len(m)
            BY <1>4, <1>7, <3>1, <3>5
        <3>7. m[size + 1] = relay /\ \A k \in 1..size : m[k] = memory[k]
            BY <1>7, <3>1, <3>2
        <3> QED
            BY <3>5, <3>6, <3>7 DEF Entry, m
    <2> QED
        BY <2>2, <2>3
<1>9. 1..size' = 1..size \cup {size + 1} /\ size' > 0
    BY <1>4, <1>7
<1>10. Registered' = loads \cup {c.pin}
    BY <1>2, <1>6, <1>8, <1>9 DEF Paired, Registered
<1>11. Applied({c.pin})'
    BY <1>2, <1>6, <1>8, <1>9 DEF Paired, Applied
<1>12. OneRelay'
    <2>1. \A k \in 1..size : memory[k].pin # c.pin
        BY <1>2, <1>3 DEF Paired, Covered, Registered
    <2> SUFFICES ASSUME NEW j \in 1..size', NEW k \in 1..size', memory'[j].pin = memory'[k].pin
                 PROVE  j = k
        BY DEF OneRelay
    <2>2. CASE j = size + 1 \/ k = size + 1
        BY <1>6, <1>8, <1>9, <2>1, <2>2
    <2>3. CASE j \in 1..size /\ k \in 1..size
        BY <1>2, <1>8, <2>3 DEF OneRelay
    <2> QED
        BY <1>9, <2>2, <2>3
<1>13. Typed'
    BY <1>1, <1>2, <1>6, <1>8, <1>9 DEF Typed
<1>14. Unfinished'
    <2>1. Tracked(loads)'
        BY <1>1, <1>2 DEF Paired, Tracked, Outputs
    <2>2. memory'[size'].pin = c.pin
        BY <1>4, <1>6, <1>8
    <2> QED
        BY <1>1, <1>5, <1>9, <1>10, <1>11, <2>1, <2>2 DEF Unfinished
<1>15. Covered' /\ Apart' /\ AddsOne'
    BY <1>1, <1>2, <1>3, <1>5 DEF Covered, Apart, AddsOne, Adds, Configured
<1> QED
    BY <1>5, <1>12, <1>13, <1>14, <1>15 DEF LoadsInv, Phases, At

\* configureGpio() makes the pin of the new Load an output, or gives it up.
LEMMA ConfigureGpioKeepsLoads ==
    ASSUME Lists, LoadsInv, ConfigureGpio
    PROVE  LoadsInv'
<1>1. /\ job \in Job /\ job.step = "gpio"
      /\ UNCHANGED <<configurations, flash, stale, size, loads>>
    BY UnderWay DEF ConfigureGpio, At, store
<1>2. Unfinished /\ Covered /\ AddsOne /\ OneRelay /\ Apart /\ Typed
    BY <1>1 DEF LoadsInv, Phases, At
<1>3. PICK c \in Configuration : job.new = {c} /\ c.pin \notin Configured
    BY <1>2 DEF AddsOne, Adds
<1>4. /\ Registered = loads \cup {c.pin} /\ Applied({c.pin}) /\ Tracked(loads)
      /\ size > 0 /\ memory[size].pin = c.pin
    BY <1>2, <1>3 DEF Unfinished
<1>5. c.pin \in Pins /\ c.pin \notin loads /\ c.pin \notin stale
    BY <1>2, <1>3 DEF Configuration, Covered
<1>6. PICK ok \in BOOLEAN :
        IF ok THEN /\ output' = [output EXCEPT ![c.pin] = TRUE]
                   /\ memory' = [memory EXCEPT ![size].applied = TRUE]
                   /\ To("init")
        ELSE UNCHANGED <<output, memory>> /\ RollBack("erase", c)
    BY <1>3 DEF ConfigureGpio
<1>7. Covered' /\ Apart'
    BY <1>1, <1>2 DEF Covered, Apart, Configured
<1>8. CASE ok
    <2>1. /\ output' = [output EXCEPT ![c.pin] = TRUE]
          /\ memory' = [memory EXCEPT ![size] = [memory[size] EXCEPT !.applied = TRUE]]
          /\ job' = Stepped(job, "init")
        BY <1>6, <1>8 DEF To, Stepped
    <2>2. job'.step = "init" /\ job'.new = {c}
        BY <1>1, <1>3, <2>1, NextStep DEF Steps
    <2> DEFINE relay == [memory[size] EXCEPT !.applied = TRUE]
    <2>3. size \in 1..Len(memory) /\ memory[size] \in Relay
        BY <1>2, <1>4 DEF Typed
    <2>4. relay \in Relay /\ relay.pin = memory[size].pin /\ relay.applied
        BY <2>3 DEF Relay
    <2> HIDE DEF relay
    <2>5. memory' = [memory EXCEPT ![size] = relay]
        BY <2>1 DEF relay
    <2>6. memory' \in Seq(Relay \cup {Unused}) /\ Len(memory') = Len(memory)
        <3> DEFINE Entry == Relay \cup {Unused}
        <3>1. relay \in Entry /\ memory \in Seq(Entry)
            BY <1>2, <2>4 DEF Typed
        <3> HIDE DEF Entry
        <3>2. memory' \in Seq(Entry) /\ Len(memory') = Len(memory)
            BY <2>3, <2>5, <3>1
        <3> QED
            BY <3>2 DEF Entry
    <2>7. memory'[size] = relay /\ \A k \in 1..size : k # size => memory'[k] = memory[k]
        <3>1. DOMAIN memory = 1..Len(memory) /\ Len(memory) \in Nat
            BY <1>2 DEF Typed
        <3> QED
            BY <2>3, <2>5, <3>1
    <2>8. \A k \in 1..size : memory'[k] \in Relay /\ memory'[k].pin = memory[k].pin
        BY <1>2, <2>4, <2>7 DEF Typed
    <2>9. Typed'
        <3>1. output' \in [Pins -> BOOLEAN]
            BY <1>2, <1>5, <2>1 DEF Typed
        <3> QED
            BY <1>1, <1>2, <2>6, <2>8, <3>1 DEF Typed
    <2>10. OneRelay'
        BY <1>1, <1>2, <2>8 DEF OneRelay
    <2>11. Registered' = loads' \cup {c.pin}
        BY <1>1, <1>4, <2>8 DEF Registered
    <2>12. Applied({})'
        <3> SUFFICES ASSUME NEW k \in 1..size PROVE memory'[k].applied
            BY <1>1 DEF Applied
        <3>1. CASE k = size
            BY <2>4, <2>7, <3>1
        <3>2. CASE k # size
            <4>1. memory[k].pin # c.pin
                BY <1>2, <1>4, <2>3, <3>2 DEF OneRelay
            <4> QED
                BY <1>4, <2>7, <3>2, <4>1 DEF Applied
        <3> QED
            BY <3>1, <3>2
    <2>13. Tracked(loads \cup {c.pin})'
        <3>1. \A q \in Pins : output'[q] => output[q] \/ q = c.pin
            BY <1>2, <1>5, <2>1 DEF Typed
        <3> QED
            BY <1>1, <1>4, <3>1 DEF Tracked, Outputs
    <2>14. SetUp' /\ AddsOne'
        <3>1. size \in 1..size
            BY <1>2, <1>4 DEF Typed
        <3>2. size' > 0 /\ memory'[size'].pin = c.pin
            BY <1>1, <1>4, <2>8, <3>1
        <3>3. c \in job'.new /\ Registered' = loads' \cup {c.pin}
            BY <1>1, <1>3, <2>2, <2>11
        <3>4. SetUp'
            BY <2>12, <2>13, <3>2, <3>3 DEF SetUp
        <3>5. AddsOne'
            BY <1>1, <1>3, <2>2 DEF AddsOne, Adds, Configured
        <3> QED
            BY <3>4, <3>5
    <2> QED
        BY <1>7, <2>2, <2>9, <2>10, <2>14 DEF LoadsInv, Phases, At
<1>9. CASE ~ok
    <2>1. UNCHANGED <<output, memory>> /\ job' = RolledBack(job, c, "erase")
        BY <1>6, <1>9 DEF RollBack, RolledBack
    <2>2. /\ job'.step = "erase" /\ job'.todo # <<>> /\ job'.new = {}
          /\ Head(job'.todo) = c.pin /\ ToSet(job'.todo) = {c.pin}
        <3>1. "erase" \in Steps
            BY DEF Steps
        <3>2. job'.step = "erase" /\ job'.todo = <<c.pin>> /\ job'.new = {}
            BY <1>1, <2>1, <3>1, NextRollBack
        <3> QED
            BY <3>2, SingleFacts
    <2>3. Leaving'
        BY <1>1, <1>2, <1>5, <2>2 DEF Leaving, Covered, Configured
    <2>4. Orphaned'
        <3>1. Applied({c.pin})' /\ Registered' = loads \cup {c.pin} /\ Tracked(loads)'
            BY <1>1, <1>4, <2>1 DEF Applied, Registered, Tracked, Outputs
        <3>2. Applied({Head(job.todo)})'
            BY <2>2, <3>1 DEF Applied
        <3>3. Head(job'.todo) \notin loads' /\ Registered' \ {Head(job'.todo)} = loads'
            BY <1>1, <1>5, <2>2, <3>1
        <3> QED
            BY <3>1, <3>2, <3>3 DEF Orphaned
    <2>5. OneRelay' /\ Typed'
        BY <1>1, <1>2, <2>1 DEF OneRelay, Typed
    <2> QED
        BY <1>7, <2>2, <2>3, <2>4, <2>5 DEF LoadsInv, Phases, At
<1> QED
    BY <1>8, <1>9

\* The new Load is one of the Loads and of the configurations, or its relay is
\* to be removed and its pin stays an output.
LEMMA InitialStateKeepsLoads ==
    ASSUME Lists, LoadsInv, InitialState
    PROVE  LoadsInv'
<1>1. /\ job \in Job /\ job.step = "init"
      /\ UNCHANGED <<flash, stale, size, output>>
    BY UnderWay DEF InitialState, At
<1>2. SetUp /\ Covered /\ AddsOne /\ OneRelay /\ Apart /\ Typed
    BY <1>1 DEF LoadsInv, Phases, At
<1>3. PICK c \in Configuration : job.new = {c} /\ c.pin \notin Configured
    BY <1>2 DEF AddsOne, Adds
<1>4. Registered = loads \cup {c.pin} /\ Tracked(loads \cup {c.pin}) /\ Applied({})
      /\ size > 0 /\ memory[size].pin = c.pin
    BY <1>2, <1>3 DEF SetUp
<1>5. c.pin \in Pins /\ c.pin \notin loads /\ c.pin \notin stale
    BY <1>2, <1>3 DEF Configuration, Covered
<1>6. PICK ok \in BOOLEAN :
        /\ MayFail("gpio_set_level", ok)
        /\ IF ok THEN /\ loads' = loads \cup {c.pin}
                      /\ configurations' = Append(configurations, c)
                      /\ To("store") /\ UNCHANGED memory
           ELSE /\ memory' = [memory EXCEPT ![size].applied = FALSE]
                /\ RollBack("erase", c)
                /\ UNCHANGED <<loads, configurations>>
    BY <1>3 DEF InitialState
<1>7. CASE ok
    <2>1. /\ loads' = loads \cup {c.pin} /\ configurations' = Append(configurations, c)
          /\ job' = Stepped(job, "store") /\ UNCHANGED memory
        BY <1>6, <1>7 DEF To, Stepped
    <2>2. job'.step = "store" /\ job'.new = {c}
        BY <1>1, <1>3, <2>1, NextStep DEF Steps
    <2>3. IsList(configurations') /\ Configured' = Configured \cup {c.pin}
        BY <1>2, <1>3, <2>1, AppendFacts DEF Typed, Configured
    <2>4. Typed'
        BY <1>1, <1>2, <1>5, <2>1, <2>3 DEF Typed
    <2>5. Paired' /\ OneRelay'
        <3>1. Registered' = loads' /\ Applied({})'
            BY <1>1, <1>4, <2>1 DEF Registered, Applied
        <3>2. Tracked(loads)'
            BY <1>1, <1>4, <2>1 DEF Tracked, Outputs
        <3>3. OneRelay'
            BY <1>1, <1>2, <2>1 DEF OneRelay
        <3> QED
            BY <3>1, <3>2, <3>3 DEF Paired
    <2>6. Covered' /\ Apart'
        BY <1>1, <1>2, <1>5, <2>1, <2>3 DEF Covered, Apart
    <2>7. \E d \in job'.new : job'.new = {d} /\ d.pin \in loads'
        BY <2>1, <2>2
    <2> QED
        BY <2>2, <2>4, <2>5, <2>6, <2>7 DEF LoadsInv, Phases, At, Adds
<1>8. CASE ~ok
    <2>1. /\ memory' = [memory EXCEPT ![size].applied = FALSE]
          /\ loads' = loads /\ configurations' = configurations
          /\ job' = RolledBack(job, c, "erase")
          /\ "gpio_set_level" \in FailingCalls
        BY <1>6, <1>8 DEF RollBack, RolledBack, MayFail
    <2>2. /\ job'.step = "erase" /\ job'.todo # <<>> /\ job'.new = {}
          /\ Head(job'.todo) = c.pin /\ ToSet(job'.todo) = {c.pin}
        <3>1. "erase" \in Steps
            BY DEF Steps
        <3>2. job'.step = "erase" /\ job'.todo = <<c.pin>> /\ job'.new = {}
            BY <1>1, <2>1, <3>1, NextRollBack
        <3> QED
            BY <3>2, SingleFacts
    <2>3. size \in 1..Len(memory) /\ DOMAIN memory = 1..Len(memory) /\ Len(memory) \in Nat
        BY <1>2, <1>4 DEF Typed
    <2> DEFINE relay == [memory[size] EXCEPT !.applied = FALSE]
    <2>4. memory[size] \in Relay
        BY <1>2, <2>3 DEF Typed
    <2>5. relay \in Relay /\ relay.pin = c.pin
        BY <1>4, <2>4 DEF Relay
    <2>6. memory' = [memory EXCEPT ![size] = relay]
        BY <2>1
    <2> HIDE DEF relay
    <2>7. /\ memory' \in Seq(Relay \cup {Unused}) /\ Len(memory') = Len(memory)
          /\ \A k \in 1..size : k # size => memory'[k] = memory[k]
          /\ memory'[size] = relay
        <3> DEFINE Entry == Relay \cup {Unused}
        <3>1. memory \in Seq(Entry) /\ relay \in Entry
            BY <1>2, <2>5 DEF Typed
        <3> HIDE DEF Entry
        <3>2. memory' \in Seq(Entry) /\ Len(memory') = Len(memory)
            BY <2>3, <2>6, <3>1
        <3>3. /\ \A k \in 1..size : k # size => memory'[k] = memory[k]
              /\ memory'[size] = relay
            BY <2>3, <2>6
        <3> QED
            BY <3>2, <3>3 DEF Entry
    <2>8. \A k \in 1..size : memory'[k] \in Relay /\ memory'[k].pin = memory[k].pin
        BY <1>2, <1>4, <2>5, <2>7 DEF Typed
    <2>9. Typed'
        BY <1>1, <1>2, <2>1, <2>7, <2>8 DEF Typed
    <2>10. OneRelay'
        BY <1>1, <1>2, <2>8 DEF OneRelay
    <2>11. Registered' = loads \cup {c.pin}
        BY <1>1, <1>4, <2>8 DEF Registered
    <2>12. Orphaned'
        <3>1. \A k \in 1..size : memory'[k].pin # c.pin => memory'[k].applied
            BY <1>4, <2>5, <2>7 DEF Applied
        <3>2. Applied({Head(job.todo)})'
            BY <1>1, <2>2, <3>1 DEF Applied
        <3>3. Head(job'.todo) \notin loads' /\ Registered' \ {Head(job'.todo)} = loads'
            BY <1>5, <2>1, <2>2, <2>11
        <3>4. Tracked(loads)'
            BY <2>1 DEF Tracked
        <3> QED
            BY <3>2, <3>3, <3>4 DEF Orphaned
    <2>13. Leaving'
        BY <1>1, <1>2, <1>5, <2>1, <2>2 DEF Leaving, Covered, Configured
    <2>14. Apart'
        BY <1>1, <1>2, <2>1 DEF Apart
    <2> QED
        BY <2>2, <2>9, <2>10, <2>12, <2>13, <2>14 DEF LoadsInv, Phases, At
<1> QED
    BY <1>7, <1>8

\* A configuration that could not be stored is the last one: it is taken back,
\* and its Load is to be removed.
LEMMA StoreKeepsLoads ==
    ASSUME Lists, FlashInv, LoadsInv, Store
    PROVE  LoadsInv'
<1>1. /\ job \in Job /\ job.step = "store"
      /\ UNCHANGED <<stale, memory, size, loads, output>>
    BY UnderWay DEF Store, At, relays, gpio
<1>2. Paired /\ Covered /\ OneRelay /\ Apart /\ Typed
    BY <1>1 DEF LoadsInv, Phases, At
<1>3. PICK c \in job.new : job.new = {c} /\ c.pin \in loads
    BY <1>1 DEF LoadsInv, Phases, At, Adds
<1>4. c \in Configuration
    BY <1>1, <1>3, JobFields
<1>5. configurations # <<>> /\ configurations[Len(configurations)] = c
    BY <1>1, <1>3 DEF FlashInv, At
<1>6. PICK ok \in BOOLEAN :
        /\ Persist(ok, configurations)
        /\ IF ok THEN job' = NoJob /\ UNCHANGED configurations
           ELSE configurations' = Front(configurations) /\ RollBack("reset", c)
    BY <1>3 DEF Store
<1>7. IsList(flash')
    BY <1>2, <1>6 DEF Persist, Typed
<1>8. Paired' /\ OneRelay' /\ Apart'
    BY <1>1, <1>2 DEF Paired, OneRelay, Apart, Registered, Applied, Tracked, Outputs
<1>9. CASE ok
    <2>1. job' = NoJob /\ configurations' = configurations
        BY <1>6, <1>9
    <2>2. Typed' /\ Covered'
        BY <1>1, <1>2, <1>7, <2>1 DEF Typed, Covered, Configured
    <2> QED
        BY <1>8, <2>1, <2>2 DEF LoadsInv, Phases, At, NoJob
<1>10. CASE ~ok
    <2>1. configurations' = Front(configurations) /\ job' = RolledBack(job, c, "reset")
        BY <1>6, <1>10 DEF RollBack, RolledBack
    <2>2. /\ job'.step = "reset" /\ job'.todo # <<>> /\ job'.new = {}
          /\ ToSet(job'.todo) = {c.pin}
        <3>1. "reset" \in Steps
            BY DEF Steps
        <3>2. job'.step = "reset" /\ job'.todo = <<c.pin>> /\ job'.new = {}
            BY <1>1, <1>4, <2>1, <3>1, NextRollBack
        <3> QED
            BY <3>2, SingleFacts
    <2>3. IsList(configurations') /\ Configured' = Configured \ {c.pin}
        BY <1>2, <1>5, <2>1, FrontIsList DEF Typed, Configured
    <2>4. Typed'
        BY <1>1, <1>2, <1>7, <2>3 DEF Typed
    <2>5. Leaving'
        BY <1>1, <1>2, <1>3, <2>2, <2>3 DEF Leaving, Covered, Apart
    <2> QED
        BY <1>8, <2>2, <2>4, <2>5 DEF LoadsInv, Phases, At
<1> QED
    BY <1>9, <1>10

\* The three forms go together throughout.
LEMMA LoadsInductive == Spec => [](Lists /\ FlashInv /\ LoadsInv)
<1>1. Init => LoadsInv
    <2> SUFFICES ASSUME Init PROVE LoadsInv
        OBVIOUS
    <2> DEFINE run == IF commissioned THEN configurations ELSE <<>>
               n == Len(run)
    <2>1. /\ memory = Vector(run) /\ size = n /\ loads = PinsOf(run)
          /\ stale = PinsOf(configurations) \ loads
          /\ output = Only(PinsOf(run)) /\ job = NoJob /\ flash = configurations
        BY DEF Init
    <2>2. IsList(configurations)
        BY StoreAssumption DEF Init
    <2>3. IsList(run) /\ PinsOf(run) \subseteq PinsOf(configurations)
        BY <2>2, EmptyFacts
    <2> HIDE DEF run
    <2>4. /\ memory \in Seq(Relay \cup {Unused}) /\ size \in 0..Len(memory)
          /\ \A i \in 1..n : /\ memory[i] \in Relay /\ memory[i].pin = run[i].pin
                             /\ memory[i].applied
        BY <2>1, <2>3, VectorFacts
    <2>5. PinsOf(run) = {run[i].pin : i \in 1..n} /\ n \in Nat
          /\ \A i, j \in 1..n : run[i].pin = run[j].pin => i = j
        BY <2>3 DEF PinsOf, IsList
    <2>6. PinsOf(configurations) \subseteq Pins
        BY <2>2, PinsAre
    <2>7. Registered = loads /\ OneRelay
        BY <2>1, <2>4, <2>5 DEF Registered, OneRelay
    <2>8. Paired
        BY <2>1, <2>4, <2>7 DEF Paired, Applied, Tracked, Outputs, Only
    <2>9. Typed
        <3>1. output \in [Pins -> BOOLEAN]
            BY <2>1 DEF Only
        <3> QED
            BY <2>1, <2>2, <2>3, <2>4, <2>6, <3>1 DEF Typed
    <2>10. Covered /\ Apart
        BY <2>1, <2>3 DEF Covered, Apart, Configured
    <2> QED
        BY <2>1, <2>7, <2>8, <2>9, <2>10 DEF LoadsInv, Phases, At, NoJob
<1>2. Lists /\ FlashInv /\ LoadsInv /\ [Next]_vars => LoadsInv'
    <2> SUFFICES ASSUME Lists, FlashInv, LoadsInv, [Next]_vars PROVE LoadsInv'
        OBVIOUS
    <2>1. CASE Restart \/ FactoryReset
        <3>1. IsList(flash) /\ IsList(<<>>)
            BY EmptyFacts DEF LoadsInv, Typed
        <3> QED
            BY <2>1, <3>1, BootKeepsLoads DEF Restart, FactoryReset
    <2>2. CASE \/ DecommissionIdentity \/ Commission \/ WriteLevel \/ UNCHANGED vars
               \/ \E p \in Pins, on \in BOOLEAN : FindRelay(p, on)
        <3>1. UNCHANGED <<configurations, flash, stale, memory, size, loads, output, job>>
            BY <2>2 DEF DecommissionIdentity, Commission, WriteLevel, FindRelay, vars, store,
                        relays, gpio
        <3> QED
            BY <3>1 DEF LoadsInv, Typed, OneRelay, Apart, Phases, At, Paired, Covered, Removes,
                        Leaving, Orphaned, Unfinished, SetUp, AddsOne, Adds, Registered,
                        Applied, Tracked, Outputs, Configured
    <2> QED
        BY <2>1, <2>2, RequestsKeepLoads, SwitchOffKeepsLoads, ForgetKeepsLoads,
           ResetPinKeepsLoads, EraseRelayKeepsLoads, RegisterRelayKeepsLoads,
           ConfigureGpioKeepsLoads, InitialStateKeepsLoads, StoreKeepsLoads DEF Next
<1> QED
    BY <1>1, <1>2, FlashInductive, PTL DEF Spec

\* There are as many relays as pins that they have.
LEMMA RelaysAreLoads ==
    ASSUME Typed, OneRelay
    PROVE  size = Cardinality(Registered)
<1> DEFINE pin == [i \in 1..size |-> memory[i].pin]
<1>1. size \in Nat
    BY DEF Typed
<1>2. pin \in Bijection(1..size, Registered)
    <2>1. pin \in [1..size -> Registered] /\ \A i \in 1..size : pin[i] = memory[i].pin
        BY DEF Registered
    <2>2. \A q \in Registered : \E i \in 1..size : pin[i] = q
        BY <2>1 DEF Registered
    <2>3. \A i, j \in 1..size : pin[i] = pin[j] => i = j
        BY <2>1 DEF OneRelay
    <2> HIDE DEF pin
    <2>4. pin \in Injection(1..size, Registered)
        BY <2>1, <2>3 DEF Injection, IsInjective
    <2>5. pin \in Surjection(1..size, Registered)
        BY <2>1, <2>2 DEF Surjection
    <2> QED
        BY <2>4, <2>5 DEF Bijection
<1>3. IsFiniteSet(1..size) /\ Cardinality(1..size) = size
    BY <1>1, FS_Interval
<1>4. ExistsBijection(1..size, Registered)
    BY <1>2 DEF ExistsBijection
<1>5. Cardinality(1..size) = Cardinality(Registered)
    BY <1>3, <1>4, FS_Bijection
<1> QED
    BY <1>3, <1>5

\* What LoadsInv says of a Node that no operation is changing.
LEMMA BetweenOperations ==
    ASSUME LoadsInv, job = NoJob
    PROVE  LoadsHaveRelays /\ LoadsAreConfigured /\ Tracked(Registered)
<1>1. Paired /\ Covered /\ Apart /\ OneRelay /\ Typed
    BY DEF LoadsInv, Phases, At, NoJob
<1>2. size = Cardinality(loads)
    BY <1>1, RelaysAreLoads DEF Paired
<1>3. LoadsHaveRelays
    BY <1>1, <1>2 DEF LoadsHaveRelays, Paired, Applied
<1>4. LoadsAreConfigured
    BY <1>1 DEF LoadsAreConfigured, Covered, Apart, Configured
<1> QED
    BY <1>1, <1>3, <1>4 DEF Paired

\* Between operations every Load has exactly one relay, which is set up, and
\* exactly one configuration, and there is no other relay or configuration but
\* for those that the boot left out: for any pins, limit and lists, after any
\* failures of gpio_config(), of gpio_set_level() and of the flash at any step
\* of configureNewLoad(), removeLoad(), clearAllConfigurations() and the boot,
\* and after restarts at any time (RelayController, NodeLoadHardwareStore).
THEOREM LoadsAreWhole == Spec => [](job = NoJob => LoadsHaveRelays /\ LoadsAreConfigured)
<1>1. Lists /\ FlashInv /\ LoadsInv => (job = NoJob => LoadsHaveRelays /\ LoadsAreConfigured)
    BY BetweenOperations
<1> QED
    BY <1>1, LoadsInductive, PTL

\* Nor does an output outlive its Load, as long as gpio_set_level() does not
\* fail: after such a failure addRelay() has cleared hardwareApplied, and
\* removeRelay() leaves the pin an output (RelayController).
THEOREM LoadsAgreement == "gpio_set_level" \notin FailingCalls => (Spec => []LoadsAgree)
<1> SUFFICES ASSUME "gpio_set_level" \notin FailingCalls PROVE Spec => []LoadsAgree
    OBVIOUS
<1>1. Lists /\ FlashInv /\ LoadsInv => LoadsAgree
    <2>1. Tracked(Registered) => NoUntrackedOutput
        BY DEF Tracked, Outputs, NoUntrackedOutput
    <2> QED
        BY <2>1, BetweenOperations DEF LoadsAgree
<1> QED
    BY <1>1, LoadsInductive, PTL

=============================================================================
