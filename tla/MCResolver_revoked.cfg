SPECIFICATION Spec
CONSTANTS
    Requests = {r1, r2}
    Keys = {"B"}
    Credentials <- MCBot
    DirectEnabled = TRUE
    CacheTTL = 2
    FailureTTL = 3
    Lag = 1
    MaxTime = 6
INVARIANTS
    RefusedForAMinute
