SPECIFICATION FairSpec
CONSTANTS
    s1 = s1
    s2 = s2
    id1 = id1
    id2 = id2
    v1 = v1
    v2 = v2
    o1 = o1
    o2 = o2
    t1 = t1
    t2 = t2
    NoOwner = NoOwner
    Scanners = {s1}
    Dying = {}
    WorkerIds = {id1, id2}
    WorkerId <- OnlyId
    Verifiers = {v1}
    Orders = {o1}
    Transfers = {t1, t2}
    OrderOf <- OneOrder
    Amount <- Ones
    Expected <- NeedsAll
    MinConfirmations = 2
    BatchSize = 1
    MaxHeight = 3
    MaxReplaced = 0
    Events = {}
PROPERTIES
    OnTimeIsPaid
