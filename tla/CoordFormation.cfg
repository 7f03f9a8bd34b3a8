SPECIFICATION FairSpec
CONSTANTS
    Nodes = {1, 2, 3}
    Founders = {1, 2, 3}
    Attestable <- AllPairs
    BOOTSTRAP_QUORUM = 3
    MIN_PEERS_FOR_BOOTSTRAP = 2
    BootstrapPolls = 1
    MembershipPolls = 1
    LossyHealth = FALSE
    MaxCrashes = 0
    MaxRestarts = 0
    MaxRevocations = 0
    MaxStepDowns = 0
PROPERTY EveryNodeBecomesVoter
CHECK_DEADLOCK FALSE
