SPECIFICATION FairSpec
CONSTANTS
    Clients = {"c1"}
    NoClient = NoClient
    HostNames <- MCHostNames
    Ports = {"none", "443"}
    Listeners <- MCListeners
    Conns = {"k1", "k2"}
    Owner <- TwoOfOne
    NoConn = NoConn
    Addrs = {"a1"}
    Slugs = {"s1"}
    BaseDomain <- MCBaseDomain
    NoDomain = NoDomain
    Offers <- MCOffers
    AutoSubscribe = TRUE
    Removable = {"c1"}
    Users = {"u1"}
    MaxStreams = 1
CHECK_DEADLOCK FALSE
INVARIANTS
    TypeOK
    NoSocketLeak
    ListenersAccounted
PROPERTIES
    EvictionSparesSuccessor
    HandlerReturns
    UserLeavesDeadConn
