SPECIFICATION MutationSpec
CONSTANTS
    FetchesPerInvocation = 2
    MaxStarts = 4
    MaxLoads = 4
CHECK_DEADLOCK FALSE
INVARIANTS
    RunningIsPending
    PendingIsRunning
PROPERTIES
    LatestStartedPublishes
