SPECIFICATION FairFormedSpec
CONSTANTS
    Nodes = {1, 2, 3}
    Founders = {1, 2}
    Attestable <- AllPairs
    BOOTSTRAP_QUORUM = 2
    MIN_PEERS_FOR_BOOTSTRAP = 1
    BootstrapPolls = 1
    MembershipPolls = 1
    LossyHealth = FALSE
    MaxCrashes = 0
    MaxRestarts = 0
    MaxRevocations = 0
    MaxStepDowns = 1
PROPERTY LearnersPromoted
CHECK_DEADLOCK FALSE
