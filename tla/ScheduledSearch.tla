--------------------------- MODULE ScheduledSearch ---------------------------
(***************************************************************************)
(* BestFirstSearch together with the clock it reads.  CurrentTimeProvider  *)
(* trusts the system clock once SNTP has set it; LoadScheduleEvaluator     *)
(* asks it for the hour and then, in a second call, for the minute, and    *)
(* compares them with the schedule window of each Load.  The clock goes on *)
(* between the two calls, and SNTP may set it at any time.                 *)
(*                                                                         *)
(* The Loads of one iteration are measured with one reading.  The firmware *)
(* calls neither setTimeMode nor setManualCurrentDateTime, so the source   *)
(* of time is never MANUAL; the mode may still be, when flash says so.     *)
(***************************************************************************)
EXTENDS BestFirstSearch

CONSTANTS
    HoursPerDay, MinutesPerHour,    \* 24 and 60
    Windows,        \* the schedules the Loads may have: [Loads -> Schedule]
    StartTimes,     \* the times of day at which a search is called
    MaxTicks        \* bound on the minutes that pass in a search, and on
                    \* the times SNTP sets the clock

Day == HoursPerDay * MinutesPerHour
Times == 0..(Day - 1)
Schedule == [enabled : BOOLEAN, start : Times, end : Times]

ASSUME ClockAssumption ==
    /\ HoursPerDay \in Nat \ {0} /\ MinutesPerHour \in Nat \ {0}
    /\ Windows \subseteq [Loads -> Schedule]
    /\ StartTimes \subseteq Times
    /\ MaxTicks \in Nat

VARIABLES
    schedule,       \* the schedule of each Load
    clock,          \* the system clock, local time
    timeMode, timeSource, sntpActive,
    hour,           \* the hour that was read, or NoTime
    phase,          \* what the search does: "measured", or reading "hour"
                    \* and then "minute"
    seen,           \* history: what the time was since the hour was read
    ticks           \* so far

time == <<clock, timeMode, timeSource, sntpActive>>
scheduledVars == <<vars, schedule, time, hour, phase, seen, ticks>>

NoTime == -1

HourOf(t) == t \div MinutesPerHour
MinuteOf(t) == t % MinutesPerHour

isCurrentTimeValid == timeSource # "NONE"

getCurrentLocalDateTime == IF isCurrentTimeValid THEN clock ELSE NoTime

getCurrentLocalHour ==
    IF getCurrentLocalDateTime = NoTime THEN NoTime ELSE HourOf(getCurrentLocalDateTime)

getCurrentLocalMinute ==
    IF getCurrentLocalDateTime = NoTime THEN NoTime ELSE MinuteOf(getCurrentLocalDateTime)

\* Mutant: a window that ends before it starts is not taken over midnight.
isTimeWithinDay(window, h, m) ==
    LET now == h * MinutesPerHour + m
    IN  window.enabled /\ window.start <= now /\ now < window.end

\* Start-inclusive, end-exclusive; a later start than end crosses midnight.
isTimeWithinSchedule(window, h, m) ==
    LET now == h * MinutesPerHour + m
    IN  /\ window.enabled
        /\ window.start # window.end
        /\ IF window.start < window.end
           THEN window.start <= now /\ now < window.end
           ELSE window.start <= now \/ now < window.end

\* The candidates whose window the hour and the minute are in; none when
\* either is not known.
isScheduleActive(h, m) ==
    {l \in problem.candidates :
        h # NoTime /\ m # NoTime /\ isTimeWithinSchedule(schedule[l], h, m)}

\* What the calls of the start-up may return: either may fail, and flash may
\* hold either mode.
initializeNonVolatileStorage == BOOLEAN
loadPersistedTimeMode == {"AUTOMATIC", "MANUAL"}
startAutomaticSynchronization == BOOLEAN

\* The firmware goes on whatever becomes of it.
initializeTimeSynchronization ==
    \E flash \in initializeNonVolatileStorage :
        /\ timeMode \in IF flash THEN loadPersistedTimeMode ELSE {"AUTOMATIC"}
        /\ sntpActive \in IF flash /\ timeMode = "AUTOMATIC"
                          THEN startAutomaticSynchronization ELSE {FALSE}

(***************************************************************************)
(* A search is called some time after start-up.  Its first state, the      *)
(* empty combination, is measured at once.                                 *)
(***************************************************************************)
ScheduledInit ==
    /\ schedule \in Windows
    /\ clock \in StartTimes
    /\ initializeTimeSynchronization
    /\ timeSource \in {"NONE"} \cup IF sntpActive THEN {"NTP"} ELSE {}
    /\ hour = getCurrentLocalHour
    /\ phase = "measured"
    /\ seen = {getCurrentLocalDateTime}
    /\ ticks = 0
    /\ Init
    /\ problem.active = isScheduleActive(hour, getCurrentLocalMinute)

MinutePasses ==
    /\ ticks < MaxTicks
    /\ ticks' = ticks + 1
    /\ clock' = (clock + 1) % Day
    /\ UNCHANGED <<vars, schedule, timeMode, timeSource, sntpActive, hour, phase>>
    /\ seen' = seen \cup {getCurrentLocalDateTime'}

\* SNTP has set the system clock; only in AUTOMATIC mode is it trusted.
handleTimeSynchronizationEvent ==
    /\ sntpActive
    /\ ticks < MaxTicks
    /\ ticks' = ticks + 1
    /\ clock' \in Times
    /\ timeSource' = IF timeMode = "AUTOMATIC" THEN "NTP" ELSE timeSource
    /\ seen' = seen \cup {getCurrentLocalDateTime'}
    /\ UNCHANGED <<vars, schedule, timeMode, sntpActive, hour, phase>>

ReadHour ==
    /\ phase = "hour"
    /\ hour' = getCurrentLocalHour
    /\ seen' = {getCurrentLocalDateTime}
    /\ phase' = "minute"
    /\ UNCHANGED <<vars, schedule, time, ticks>>

ReadMinute ==
    /\ phase = "minute"
    /\ LET windows == isScheduleActive(hour, getCurrentLocalMinute)
       IN  IF windows = problem.active THEN UNCHANGED vars ELSE CrossBoundary(windows)
    /\ phase' = "measured"
    /\ UNCHANGED <<schedule, time, hour, seen, ticks>>

\* An iteration with the last reading; the next one needs a new reading.
Iterate ==
    /\ phase = "measured"
    /\ Expand
    /\ phase' = "hour"
    /\ UNCHANGED <<schedule, time, hour, seen, ticks>>

ScheduledNext ==
    MinutePasses \/ handleTimeSynchronizationEvent \/ ReadHour \/ ReadMinute \/ Iterate

ScheduledSpec == ScheduledInit /\ [][ScheduledNext]_scheduledVars

-----------------------------------------------------------------------------
\* What a window means: going on from its start, t comes before its end.
Within(window, t) ==
    window.enabled /\ (t - window.start) % Day < (window.end - window.start) % Day

OpenAt(t) == {l \in problem.candidates : t # NoTime /\ Within(schedule[l], t)}

\* The Loads that are preferred are those whose window was open at a time
\* since the hour was read, over midnight too, and none while the time is not
\* known - unless another hour began meanwhile: then the hour and the minute
\* are of different times, and may name a time that never was
\* (LoadScheduleEvaluator::isScheduleActive reads them by two calls).
BoostIsCurrent ==
    phase = "measured" =>
        \/ \E t \in seen : problem.active = OpenAt(t)
        \/ \E t, u \in seen \ {NoTime} : HourOf(t) # HourOf(u)
=============================================================================
