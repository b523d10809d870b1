\* Two connections of one client; a client without a connection shares nothing
\* with it but the lock.  Two callers of GetClientConn, one of Ping.
SPECIFICATION FairLSpec
CONSTANTS
    Clients = {"c1", "c2"}
    NoClient = NoClient
    Conns = {"k1", "k2"}
    Owner <- SharedOwner
    NoConn = NoConn
    Lookups = {"r1", "r2"}
    Pingers = {"p1"}
    NoProc = NoProc
CHECK_DEADLOCK FALSE
INVARIANTS
    LockTypeOK
    SocketsAccounted
    ReportNotLost
PROPERTIES
    ImplementsPool
    AddConnReturns
    WaitersGetIn
