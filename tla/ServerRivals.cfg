SPECIFICATION Spec
CONSTANTS
    Clients = {"c1", "c2"}
    NoClient = NoClient
    HostNames <- MCHostNames
    Ports = {"none", "443"}
    Listeners <- MCListeners
    Conns = {"k1", "k2", "k3"}
    Owner <- TwoAndOne
    NoConn = NoConn
    Addrs = {"a1"}
    Slugs = {"s1"}
    BaseDomain <- MCBaseDomain
    NoDomain = NoDomain
    Offers <- SmallOffers
    AutoSubscribe = FALSE
    Removable = {}
    Users = {"u1"}
    MaxStreams = 1
CHECK_DEADLOCK FALSE
INVARIANTS
    RegistryConsistent
    ServedKeepsTunnels
PROPERTIES
    ImplementsDirectory
    OthersUndisturbed
