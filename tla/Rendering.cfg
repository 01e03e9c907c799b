CONSTANTS
    Applications <- MCApplications
    MaxTouches = 3
    Shown = "agreeing"
SPECIFICATION Spec
INVARIANTS
    PageShowsTheState
    OwnersAgree
    ServedIsAdopted
CHECK_DEADLOCK FALSE
