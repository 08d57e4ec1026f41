SPECIFICATION Spec
CONSTANTS
    a1 = a1
    a2 = a2
    Clients = {a1, a2}
    OrderCalls <- OneExternalId
    MaxIndex = 1
    NoSegment = NoSegment
    MaxHeight = 5
    MaxReorgs = 1
    LogsAt <- LogsPerBlock
    BatchSize = 3
    MaxLogs = 2
    PageLimit = 1
    Lookback = 2
    Confirmations = 1
    Tokens = {"a", "b"}
    ReceiveAddresses = {1, 2}
    MaxTime = 2
    MaxAddresses <- OneOrTwoAddresses
    Batches <- OneOrTwoLogs
    TokenKinds <- FourKinds
    Configured = {"auto", "standard", "eip2612"}
    MaxCollections = 2
    MaxDeposits = 2
    MaxTxs = 3
    MaxStarts = 2
    MaxDay = 2
    MaxAmount = 40
    GasLimit = 1
    MinFee = 5
    MinTip = 1
    BaseFees = {0, 25}
    Tips = {0, 1}
    NativeBalances = {10, 40}
    Fragile = {"a"}
    Checks <- TwoChecks
    WorkerNames = {"payment_scanner"}
    MaxBreaks = 1
    LimitedRequests = {1, 2, 3, 4}
    limit_per_minute = 1
    MaxMinute = 1
    Kids = {"k1", "k2"}
    Requests = {a1, a2}
    Ttl = 2
    Cooldown = 1
    MaxClock = 2
    MaxRotations = 1
    OrderToken = "a"
    MaxJobs = 2
    MaxChanges = 6
    MaxCalls = 2
    Processes = {a1, a2}
    Settings <- TwelveSettings
    Contracts <- TwoChainsOfTokens
    MaxContainers = 3
    MaxBlock = 3
    Unset = Unset
    Refused = Refused
    Secrets = {"s1", "s2"}
    MaxProcesses = 2
    MaxSigned = 1
SYMMETRY Symmetric
INVARIANTS
    TypeOK
    OrdersStayApart
    
    
    AtMostTwiceTheLimit
    OrderStateIsTrue
    RefusalsDidNothing
    
PROPERTIES
    
    PaymentsAreMatched
    FeesSuffice
    KeysAreCurrent
    StartsAreSafe
CHECK_DEADLOCK FALSE
