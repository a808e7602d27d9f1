\* The optimization task and a console command at the same time, no faults.
SPECIFICATION Spec
CONSTANTS
    pump = pump
    fan = fan
    lamp = lamp
    smart = smart
    console = console
    Central = Central
    Loads = {pump, fan, lamp}
    Nodes = {smart}
    Owner <- MCOwner
    Index <- MCIndex
    Power <- MCPower
    Priority <- MCPriority
    Scheduled = {lamp}
    BootModes = {"AUTO_OFF"}
    BootRelay <- MCBootRelay
    Allowances = {2, 4}
    NotReady = NotReady
    Planner = Planner
    Consoles = {console}
    NoDispatcher = NoDispatcher
    Ids = {1, 2, 3, 4, 5}
    QueueDepth = 2
    MaxFaults = 0
    MaxChanges = 1
INVARIANT
    CapacityReleased
