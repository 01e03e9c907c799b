SPECIFICATION FairSpec
CONSTANTS
    Api = {a1, a2}
    Documents = {d}
    Actions = {s}
    MaxRequests = 3
    MaxApi = 2
    MaxCallbacks = 1
    MaxBytes = 1
    BodyLimit = 1
CHECK_DEADLOCK FALSE
INVARIANTS
    CountersCount
    CapacityFollowsHandlers
    PermitLostOnlyByCancel
    ClosedIsQuiet
PROPERTIES
    ShutdownEnds
