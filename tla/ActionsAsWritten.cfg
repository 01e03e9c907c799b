SPECIFICATION Spec
CONSTANTS
    Artifacts <- CompiledPrograms
    Scope <- MCScope
    Values <- MCValues
    Slots = {"first", "second", "caught", "late", "own"}
    MaxFuel = 14
    MaxFetches = 3
    MaxCalls = 2
    MaxStack = 3
    MaxNesting = 2
    None = None
CHECK_DEADLOCK FALSE
INVARIANTS
    RunsAsWritten
