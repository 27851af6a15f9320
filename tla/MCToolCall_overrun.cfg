SPECIFICATION FairSpec
CONSTANTS
    t1 = t1
    t2 = t2
    Calls <- MCCalls
    Routes = {"dms", "messages"}
    Timeout = 2
    Pauses = {1, 2}
    Refills = {2}
    MaxResend = 1
    Free = free
    Used <- MCUsed
PROPERTIES
    EndsByDeadline
