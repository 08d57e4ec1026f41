SPECIFICATION Spec
CONSTANTS
    TokenKinds <- Kinds
    Configured = {"eip2612"}
    MaxCollections = 1
    MaxDeposits = 1
    MaxTxs = 1
    MaxStarts = 2
    MaxDay = 1
INVARIANTS
    ConfirmedMovedFunds
CHECK_DEADLOCK FALSE
