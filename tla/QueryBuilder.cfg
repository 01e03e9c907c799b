CONSTANTS
    Dialect <- MySql
    Phrases <- SelectPhrases
    DirectCalls = {"deleteFrom"}
    Uses = {"union"}
    MaxInstances = 4
    MaxChain = 3
    MaxHandles = 3
    MaxCallbacks = 1
SPECIFICATION Spec
CHECK_DEADLOCK FALSE
INVARIANTS
    CompiledIsTheChain
    ValidCompiles
    HandlesAccounted
