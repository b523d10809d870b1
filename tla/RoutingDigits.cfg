\* A subdomain that is also a port number.
SPECIFICATION Spec
CONSTANTS
    Names = {"web", "x_y"}
    Entries <- DigitEntries
    ServerAddrs <- OneServerAddr
    Ports = {"80", "22"}
    Labels = {"web", "80"}
    V4 = {"127.0.0.1", "10.0.0.1"}
    V6 = {"::1"}
    Public = {"10.0.0.1"}
    Resolve <- MCResolve
    BaseDomain <- Plain
    Spellings = {"tunnel", "Tunnel"}
    Lower <- MCLower
    Users = {"u1"}
PROPERTY
    SameTunnel
