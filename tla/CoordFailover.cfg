SPECIFICATION FairAttestedSpec
CONSTANTS
    Nodes = {1, 2, 3}
    Founders = {1, 2, 3}
    Attestable <- AllPairs
    BOOTSTRAP_QUORUM = 2
    MIN_PEERS_FOR_BOOTSTRAP = 1
    BootstrapPolls = 1
    MembershipPolls = 1
    LossyHealth = FALSE
    MaxCrashes = 1
    MaxRestarts = 0
    MaxRevocations = 0
    MaxStepDowns = 0
PROPERTIES
    FailoverBeforeInitialize
    BootstrapWaitEnds
CHECK_DEADLOCK FALSE
