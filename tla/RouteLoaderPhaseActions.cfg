SPECIFICATION Spec
CONSTANTS
    PendingMode = "replace"
    HasPending = TRUE
    HasError = TRUE
    HasNotFound = FALSE
    Searches = {"a", "b"}
    FetchLimit = 2
    FetchesPerAction = 2
    PhaseActions = TRUE
    MachineErrors = TRUE
    MaxInputs = 4
CHECK_DEADLOCK FALSE
INVARIANTS
    IInv
PROPERTIES
    CommitsInOrder
