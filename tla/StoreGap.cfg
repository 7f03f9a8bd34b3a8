SPECIFICATION Spec
CONSTANTS
    MaxIndex = 3
    MaxTerm = 1
    MaxBatch = 3
    MembershipIndices = {1, 2}
    KeepLogs = 1
    MaxSnapshots = 0
    Installs = FALSE
    PowerLoss = FALSE
    MaxCrashes = 1
INVARIANT LogIsRange
CHECK_DEADLOCK FALSE
