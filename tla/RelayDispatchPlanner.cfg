\* The optimization task alone: the console command is not used.
SPECIFICATION FairSpec
CONSTANTS
    pump = pump
    fan = fan
    lamp = lamp
    smart = smart
    Central = Central
    Loads = {pump, fan, lamp}
    Nodes = {smart}
    Owner <- MCOwner
    Index <- MCIndex
    Power <- MCPower
    Priority <- MCPriority
    Scheduled = {lamp}
    BootModes = {"AUTO_OFF"}
    BootRelay <- MCBootRelay
    Allowances = {2, 4}
    NotReady = NotReady
    Planner = Planner
    Consoles = {}
    NoDispatcher = NoDispatcher
    Ids = {1, 2, 3, 4, 5}
    QueueDepth = 2
    MaxFaults = 2
    MaxChanges = 1
INVARIANTS
    TypeOK
    CapacityReleased
    PlannedWithinBudget
PROPERTIES
    RelaysConverge
    DrawFollowsAllowance
    PlannerKeepsPlanning
