SPECIFICATION FairSpec
CONSTANTS
    Kinds = {"server", "client", "provider"}
    MaxEdits = 2
    MaxFaults = 1
    FaultPoints = {"start", "restart", "copy", "in", "drop"}
    MaxRequests = 1
CHECK_DEADLOCK FALSE
INVARIANTS
    StaysAvailable
    FreshWhenIdle
    PageKeepsUp
    NothingStaysBehind
PROPERTIES
    EditsArrive
