SPECIFICATION FairSpec
CONSTANTS
    Routes <- SiteRoutes
    Paths <- SitePaths
    Searches = {"", "?q"}
    Chain <- SiteChain
    Loading = {"section", "list", "item", "login"}
    Pending = {"list"}
    Erring = {"list"}
    Boundaries = {"section"}
    RootBoundary = TRUE
    Answers <- SiteAnswers
    Early <- SiteEarly
    Lazy <- SiteLazy
    MaxHops = 2
    MaxInputs = 3
CHECK_DEADLOCK FALSE
INVARIANTS
    PageShowsLocation
    PhaseGraphsReady
PROPERTIES
    ComesToRest
