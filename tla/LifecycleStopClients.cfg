\* One listed client, one that is not, one that never comes, one caller of Stop.
SPECIFICATION LifeSpec
CONSTANTS
    Peers = {"p1", "p2"}
    ClientIDs = {"p1", "p3"}
    HTTPConfigured = TRUE
    Stoppers = {"s1"}
CHECK_DEADLOCK FALSE
INVARIANT
    StopDisconnects
