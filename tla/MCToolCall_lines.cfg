SPECIFICATION FairSpec
CONSTANTS
    t1 = t1
    t2 = t2
    Calls <- MCCalls
    Routes = {"dms", "messages"}
    Timeout = 2
    Pauses = {1, 2}
    Refills = {1}
    MaxResend = 1
    Free = free
    Used <- MCUsed
INVARIANTS
    TypeOK
    LineTellsAnswer
    EffectsInLine
    EvictedIfRejected
    WaitsFitTimeout
PROPERTIES
    NeverAskedEarly
    OneLineEach
