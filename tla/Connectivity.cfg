SPECIFICATION ConnectivityFairSpec
CONSTANTS
    Ssids = {"home"}
    Brokers = {"a", "b"}
    Channels = {1, 7}
    DefaultChannel = 7
    MaxMoves = 1
    MaxRequests = 2
    MaxFailures = 1
INVARIANTS
    SharedChannel
    StartedMeansClient
PROPERTIES
    StationConnects
    PortalOpens
    BrokerReached
CHECK_DEADLOCK FALSE
