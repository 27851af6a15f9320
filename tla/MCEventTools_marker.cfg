SPECIFICATION FollowSpec
CONSTANTS
    Size = 2
    Waiters = {w1}
    Payloads <- MCMarked
    Filters <- MCChannel
    Cursors <- MCCursors
    Limits = {1, 2}
    MaxSeq = 3
    MaxBoots = 1
    MaxLost = 0
INVARIANTS
    MarkerReachesReaders
