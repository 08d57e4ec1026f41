SPECIFICATION Spec
CONSTANTS
    w1 = w1
    w2 = w2
    c1 = c1
    c2 = c2
    t1 = t1
    t2 = t2
    t3 = t3
    acc1 = acc1
    acc2 = acc2
    NoTx = NoTx
    Workers = {w1, w2}
    Collections = {c1}
    TxIds = {t1, t2, t3}
    Accounts = {acc1}
    Child <- Single
    Payer <- Single
    MaxNonce = 3
    StartNonce = 1
    Faults = {"abort", "stuck", "rpc", "lease", "reorg", "evict", "revert"}
SYMMETRY SymmetricWorkersAndTxIds
INVARIANTS
    TypeOK
    RowsAgree
    ReplacementsFormAChain
    PersistedBeforeBroadcast
    ReservedNonceIsUnused
    ConfirmedIsFinal
PROPERTIES
    ConfirmedSticks
