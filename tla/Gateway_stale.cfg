SPECIFICATION Spec
CONSTANTS
    Guilds = {g1}
    Concurrency = 1
    MaxDispatch = 4
CHECK_DEADLOCK FALSE
INVARIANTS
    OnlyBurstDropped
