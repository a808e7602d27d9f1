SPECIFICATION Spec
CONSTANTS
    pump = pump
    fan = fan
    lamp = lamp
    Pins = {pump, fan, lamp}
    MaxLoads = 2
    InitialLists <- MCInitialLists
    FailingCalls = {"gpio_config", "nvs"}
    MaxFaults = 2
    MaxRequests = 3
    MaxCommands = 1
    MaxRestarts = 1
INVARIANTS
    LoadsAgree
    FlashAgrees
CHECK_DEADLOCK FALSE
