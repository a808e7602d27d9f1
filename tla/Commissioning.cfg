\* One requesting task. The system stops when nobody requests anything.
SPECIFICATION FairSpec
CONSTANTS
    Names = {hall, shed}
    NoName = NoName
    Requesters = {console}
    MaxRequests = 4
    MaxFaults = 2
    MaxUnsaved = 1
    MaxRestarts = 1
    MaxResets = 1
    MaxInFlight = 1
INVARIANTS
    PlannedIsCommissioned
    SyncedNameAgrees
PROPERTY
    ConfiguringEndsOrFaults
