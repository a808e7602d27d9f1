\* One command of any kind, one break, refusal or power cut, one change of the account, one repeated status.
SPECIFICATION Spec
CONSTANTS
    Commands = {c1}
    Messages <- MCMessages
    MaxFaults = 1
    MaxRebinds = 1
    MaxStatuses = 1
INVARIANTS HandledOnce AcceptedBeforeApplied
PROPERTIES AcknowledgementsArrive PresenceShown
CHECK_DEADLOCK FALSE
