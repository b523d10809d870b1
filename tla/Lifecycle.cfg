\* One listed client, one that is not, one that never comes, two callers of Stop.
SPECIFICATION FairLifeSpec
CONSTANTS
    Peers = {"p1", "p2"}
    ClientIDs = {"p1", "p3"}
    HTTPConfigured = TRUE
    Stoppers = {"s1", "s2"}
CHECK_DEADLOCK FALSE
INVARIANTS
    LifeTypeOK
    ListedNotRefused
    ReturnedClosed
PROPERTIES
    SignalEnds
    StopEnds
