SPECIFICATION FairFollowSpec
CONSTANTS
    Size = 2
    Waiters = {w1}
    Payloads <- MCMessages
    Filters <- MCChannel
    Cursors <- MCCursors
    Limits = {1, 2}
    MaxSeq = 3
    MaxBoots = 2
    MaxLost = 1
INVARIANTS
    PagesTellAll
    FollowsLog
    ErrorsExplained
PROPERTIES
    CatchesUp
    CloseEndsWaits
