SPECIFICATION FairSpec
CONSTANTS
    w1 = w1
    w2 = w2
    c1 = c1
    c2 = c2
    t1 = t1
    t2 = t2
    t3 = t3
    acc1 = acc1
    acc2 = acc2
    NoTx = NoTx
    Workers = {w1, w2}
    Collections = {c1, c2}
    TxIds = {t1, t2}
    Accounts = {acc1, acc2}
    Child <- OwnAccounts
    Payer <- Relayed
    MaxNonce = 2
    StartNonce = 0
    Faults = {"revert"}
INVARIANTS
    NonceOwnedByOneCollection
PROPERTIES
    QueuedIsSettled
