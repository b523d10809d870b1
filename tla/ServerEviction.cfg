SPECIFICATION FairSpec
CONSTANTS
    Clients = {"c1"}
    NoClient = NoClient
    HostNames <- MCHostNames
    Ports = {"none", "443"}
    Listeners <- MCListeners
    Conns = {"k1"}
    Owner <- TwoOfOne
    NoConn = NoConn
    Addrs = {"a1"}
    Slugs = {"s1"}
    BaseDomain <- MCBaseDomain
    NoDomain = NoDomain
    Offers <- SmallOffers
    AutoSubscribe = TRUE
    Removable = {}
    Users = {"u1", "u2"}
    MaxStreams = 1
CHECK_DEADLOCK FALSE
PROPERTY
    EvictedIsUnusable
