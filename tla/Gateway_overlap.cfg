SPECIFICATION FairSpec
CONSTANTS
    Guilds = {g1}
    Concurrency = 3
    MaxDispatch = 5
CHECK_DEADLOCK FALSE
INVARIANTS
    TypeOK
    EachDispatchOnce
    ReadyClosedOnce
    BurstHidden
    SessionsMarked
PROPERTIES
    ReconnectReported
