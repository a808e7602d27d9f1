\* Loads are configured and removed by the Central and on the console.
SPECIFICATION FairSpec
CONSTANTS
    pump = pump
    fan = fan
    Pins = {pump, fan}
    Times <- MCTimes
    NewSettings <- MCNewSettings
    LoadRequests <- MCLoadRequests
    LegacyEntries <- MCLegacyEntries
    InitialLoads <- MCInitialLoads
    PageSize = 1
    Sequences = 3
    MaxInFlight = 1
    MaxRequests = 2
    MaxConsole = 1
    MaxFaults = 1
    MaxNodeRestarts = 1
    MaxCentralRestarts = 1
INVARIANTS
    ChosenSettingsStand
    StoredSettingsSurvive
PROPERTIES
    PrunesOnlyRemovedNormally
    RegistryConverges
