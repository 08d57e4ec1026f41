SPECIFICATION Spec
CONSTANTS
    s1 = s1
    s2 = s2
    id1 = id1
    id2 = id2
    v1 = v1
    v2 = v2
    o1 = o1
    o2 = o2
    t1 = t1
    t2 = t2
    NoOwner = NoOwner
    Scanners = {}
    Dying = {}
    WorkerIds = {id1, id2}
    WorkerId <- NoIds
    Verifiers = {v1, v2}
    Orders = {o1}
    Transfers = {t1}
    OrderOf <- OnePays
    Amount <- Ones
    Expected <- NeedsOne
    MinConfirmations = 2
    BatchSize = 1
    MaxHeight = 3
    MaxReplaced = 2
    Events = {"abort", "reorg", "expire", "accept"}
INVARIANTS
    ConfirmedIsCanonical
