SPECIFICATION FairSpec
CONSTANTS
    X = X
    Y = Y
    C = C
    Central = C
    Smart <- MCSmart
    NONE = NONE
    NumChannels = 2
    DefaultChannel = 1
    Scenarios <- MCScenarios
    Ids = {1, 2, 3}
    HopLimit = 2
    QueueLength = 1
    DiscoveryFailuresBeforeSweep = 1
    ReportFailuresBeforeRestart = 2
    MaxHop = 2
    MaxTravelling = 1
INVARIANTS
    TreeUntilRestart
    UpstreamPeerOnChannel
    CommandsStayOnPath
PROPERTIES
    CentralFoundAgain
