SPECIFICATION FairSpec
CONSTANTS
    PendingMode = "replace"
    HasPending = TRUE
    HasError = TRUE
    HasNotFound = TRUE
    Searches = {"a", "b"}
    FetchLimit = 2
    FetchesPerAction = 2
    PhaseActions = FALSE
    MachineErrors = FALSE
    MaxInputs = 3
CHECK_DEADLOCK FALSE
INVARIANTS
    PhaseShowsItsGraph
    ControllersAreLive
PROPERTIES
    AbortedSettlesSilently
    PendingSettles
