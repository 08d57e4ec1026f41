SPECIFICATION FairSpec
CONSTANTS
    N = 2
    MinProviderCount = 2
    MaxHeight = 1
    LogBlocks = {1}
    MaxFailures = 1
    Unreliable = {1}
    Misconfigured = {2}
    Wheel = 2
INVARIANTS
    VouchedLogsAreCanonical
    MissedOnlyBelowQuorum
PROPERTIES
    RecoveredIsUsed
    ProbeRecovers
CHECK_DEADLOCK FALSE
