SPECIFICATION ProtocolsSpec
CONSTANTS
    a = a
    b = b
    guardian = guardian
    other = other
    Instances = {a, b}
    Namespaces = {guardian, other}
    Guardian = guardian
    Whitelisted <- SomeListed
    Requests = {1, 2}
    Capacity = 1
    MaxChallenges = 2
    Peers = {1, 2, 3}
    RegistryNodes = {2}
    Reachable <- OnePulls
    Skew <- OneAhead
    Hour = 2
    max_advertisement_age_hours = 0
    FutureTolerance = 1
    max_peers_per_message = 1
    MaxTime = 3
    MaxBoots <- ThreeRestarts
    MaxRevoked = 1
INVARIANTS
    TypeOK
    
    
    EventsFollowRecords
    GossipTypeOK
    AcceptedIsCovered
    NothingFromTheFuture
    
PROPERTIES
    PendingEnds
    CachesKeepPromise
    AdvertisementArrives
CHECK_DEADLOCK FALSE
