\* remote_addr is a port.
SPECIFICATION Spec
CONSTANTS
    Names = {"web", "x_y"}
    Entries <- PlainEntries
    ServerAddrs <- OneServerAddr
    Ports = {"80", "22"}
    Labels = {"web", "app"}
    V4 = {"127.0.0.1", "10.0.0.1"}
    V6 = {"::1"}
    Public = {"10.0.0.1"}
    Resolve <- MCResolve
    BaseDomain <- Plain
    Spellings = {"tunnel", "Tunnel"}
    Lower <- MCLower
    Users = {"u1"}
INVARIANT
    PubliclyReachable
