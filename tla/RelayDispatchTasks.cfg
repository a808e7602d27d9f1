\* The optimization task and a console command at the same time.
SPECIFICATION Spec
CONSTANTS
    pump = pump
    fan = fan
    lamp = lamp
    smart = smart
    console = console
    Central = Central
    Loads = {fan, lamp}
    Nodes = {smart}
    Owner <- MCOwner
    Index <- MCIndex
    Power <- MCPower
    Priority <- MCPriority
    Scheduled = {lamp}
    BootModes = {"FIXED_ON"}
    BootRelay <- MCBootRelay
    Allowances = {}
    NotReady = NotReady
    Planner = Planner
    Consoles = {console}
    NoDispatcher = NoDispatcher
    Ids = {1, 2, 3, 4, 5, 6}
    QueueDepth = 1
    MaxFaults = 2
    MaxChanges = 0
INVARIANT
    SuccessMeansApplied
PROPERTY
    OrphansOnlyWhenBusy
