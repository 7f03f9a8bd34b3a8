SPECIFICATION FaultySpec
CONSTANTS
    Nodes = {1, 2, 3}
    Founders = {1, 2, 3}
    Attestable <- AllPairs
    BOOTSTRAP_QUORUM = 3
    MIN_PEERS_FOR_BOOTSTRAP = 2
    BootstrapPolls = 1
    MembershipPolls = 1
    LossyHealth = TRUE
    MaxCrashes = 1
    MaxRestarts = 1
    MaxRevocations = 1
    MaxStepDowns = 0
INVARIANTS
    TypeOK
    LowestBootstraps
    MutuallyAttested
    BootstrapAgreement
CHECK_DEADLOCK FALSE
