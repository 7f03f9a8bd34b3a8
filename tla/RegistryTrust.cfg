SPECIFICATION FairSpec
CONSTANTS
    a = a
    b = b
    guardian = guardian
    other = other
    Instances = {a}
    Namespaces = {guardian}
    Guardian = guardian
    Whitelisted <- AllListed
    Requests = {1}
    Capacity = 2
    MaxChallenges = 2
PROPERTY VerifiedBecomesTrusted
CHECK_DEADLOCK FALSE
