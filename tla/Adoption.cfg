SPECIFICATION FairSpec
CONSTANTS
    Sites <- MCSites
    Paths <- MCPaths
    Targets <- MCTargets
    Malformed <- MCMalformed
    MaxHops = 2
    Matcher <- MatchChain
    MaxFollow = 1
    MaxFaults = 1
CHECK_DEADLOCK FALSE
INVARIANTS
    PageOfItsAddress
    AdoptedAsServed
    MountedFresh
PROPERTIES
    LoadEnds
