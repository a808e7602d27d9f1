SPECIFICATION FairSpec
CONSTANTS
    Callers = {"console", "mqtt"}
    PlanSettings <- MCPlans
    LongestRuntime = 2
    MaxCharge = 2
    EnergyPerLevel = 4
    StartingCharges = {2, 3}
    FixedDemands = {2}
    PersistPeriod = 1
    StoredAtFirst <- MCStored
    DefaultInterval = 1
    LongestInterval = 2
    MaxCommands = 2
    MaxFaults = 1
    MaxRestarts = 1
INVARIANTS
    TypeOK
    ReadingIsOfSelectedInput
    IntervalInForce
PROPERTIES
    ReserveIsKept
    CountdownFollowsClock
    HorizonIsReached
