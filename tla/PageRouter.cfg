SPECIFICATION FairSpec
CONSTANTS
    Chain <- MCChain
    Params <- MCParams
    Loaders = {"root", "item", "index"}
    Boundaries = {"item"}
    Invalid = {"//elsewhere"}
    MaxHops = 2
    MaxUser = 3
INVARIANTS
    CommittedWhole
    LatestCallShows
PROPERTIES
    CallsEnd
CHECK_DEADLOCK FALSE
