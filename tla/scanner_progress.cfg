SPECIFICATION FairSpec
CONSTANTS
    s1 = s1
    s2 = s2
    id1 = id1
    id2 = id2
    v1 = v1
    v2 = v2
    o1 = o1
    o2 = o2
    t1 = t1
    t2 = t2
    NoOwner = NoOwner
    Scanners = {s1, s2}
    Dying = {s1}
    WorkerIds = {id1, id2}
    WorkerId <- OwnIds
    Verifiers = {}
    Orders = {o1}
    Transfers = {t1}
    OrderOf <- OnePays
    Amount <- Ones
    Expected <- NeedsOne
    MinConfirmations = 2
    BatchSize = 2
    MaxHeight = 3
    MaxReplaced = 1
    Events = {"reorg"}
PROPERTIES
    OnTimeIsPaid
    ReplacedIsHealed
