SPECIFICATION FairSpec
CONSTANTS
    Files <- MCFiles
    Verify = {TRUE, FALSE}
    Flags <- MCFlags
    Requests = {r1, r2}
    Queries <- MCQueries
    DirectBots = {"bot"}
    DirectHooks = {"hook"}
CHECK_DEADLOCK FALSE
INVARIANTS
    EndsClean
    ConfigSuffices
    ServedAsConfigured
PROPERTIES
    StopsOnSignal
