SPECIFICATION Spec
CONSTANTS
    Size = 2
    Waiters = {w1, w2}
    Payloads <- MCPayloads
    Filters <- MCFilters
    Cursors <- MCCursors
    MaxSeq = 5
SYMMETRY WaiterSymmetry
INVARIANTS
    TypeOK
    RingHoldsLatest
    NoDoubleClose
    NoLostWakeup
    NoSilentSkip
    WaitAnswers
PROPERTIES
    ImplementsLog
