SPECIFICATION Spec
CONSTANTS
    Guilds = {g1}
    Concurrency = 2
    MaxDispatch = 4
CHECK_DEADLOCK FALSE
INVARIANTS
    BurstNotStored
