SPECIFICATION Spec
CONSTANTS
    Requests = {r1, r2}
    Keys = {"B"}
    Credentials <- MCBots
    DirectEnabled = TRUE
    CacheTTL = 1
    FailureTTL = 3
    Lag = 2
    MaxTime = 8
INVARIANTS
    TypeOK
    OnePrincipal
    NeverLockedOut
    SweptOut
PROPERTIES
    BackOff
    IdleExpires
    OutForGood
