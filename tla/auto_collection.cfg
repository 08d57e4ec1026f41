SPECIFICATION FairSpec
CONSTANTS
    e1 = e1
    e2 = e2
    Enqueuers = {e1, e2}
    Orders = {1}
    Expected = 2
    MaxOnTime = 2
    MaxLate = 2
    BatchLimit = 1
    Happenings = {"revive", "accept", "reorg", "fail"}
INVARIANTS
    LateStaysOutOfTreasury
PROPERTIES
    QueuedWhileCollectable
    
CHECK_DEADLOCK FALSE
