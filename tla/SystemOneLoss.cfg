\* One failure.
SPECIFICATION FairSystemSpec
CONSTANTS
    Clients = {"c1"}
    NoClient = NoClient
    HostNames <- MCHostNames
    Ports = {"none", "443"}
    Listeners <- MCListeners
    Conns = {"k1", "k2", "k3"}
    Owner <- MCOwner
    NoConn = NoConn
    Addrs = {"a1"}
    Slugs = {"s1"}
    BaseDomain <- MCBaseDomain
    NoDomain = NoDomain
    Offers <- MCOffers
    AutoSubscribe = TRUE
    Removable = {}
    Users = {}
    MaxStreams = 2
    HasBackoff = TRUE
    Pauses = {1}
    MaxElapsed = 0
    Hiccup = 1
    MaxLosses = 1
CHECK_DEADLOCK FALSE
INVARIANT
    OneLossSurvived
