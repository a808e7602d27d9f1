\* The search with its clock; it stops when it is done.
SPECIFICATION ScheduledSpec
CONSTANTS
    a = a
    b = b
    c = c
    d = d
    Loads <- MCLoads
    Problems <- MCProblems
    MaxCrossings = 4
    HoursPerDay = 2
    MinutesPerHour = 2
    Windows <- MCWindows
    StartTimes = {1, 3}
    MaxTicks = 2
INVARIANTS
    ReturnedIsFeasible
    QueuedOnce
    BoostIsCurrent
PROPERTIES
    ImplementsLoadChoice
CHECK_DEADLOCK FALSE
