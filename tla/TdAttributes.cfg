SPECIFICATION LocalSpec
CONSTANTS
    MaxIndex = 2
    MaxTerm = 2
    MaxBatch = 1
    MembershipIndices = {1, 2}
    KeepLogs = 1
    MaxSnapshots = 1
    Installs = TRUE
    PowerLoss = TRUE
    MaxCrashes = 1
    max_retries = 3
    BaseDelay = 1
    U32MAX = 3
    Threads = {1, 2}
    Keys = {1, 2}
    MAX_CONTEXT_KEYS = 1
    LOG_PUSH_BATCH_SIZE = 2
    MAX_RETRIES = 2
    MaxLines = 1
    MaxEvents = 4
    MaxWriteErrors = 2
    Machines <- SomeMachines
    Policies <- SomePolicies
    Claims <- SomeClaims
    Addresses = {1, 2}
    ByteRange = 4
    Missing = Missing
    BadHex = BadHex
    Chains <- SomeChains
    CertLen = 300
INVARIANT DebugIsTheAttribute
CHECK_DEADLOCK FALSE
