--------------------------- MODULE MCTunnelRouting ---------------------------
(* Small instances of TunnelRouting: what may stand in the file.             *)
EXTENDS TunnelRouting, TLC

At(h, p) == <<h, ":", p>>

\* A local service, and another given by its port alone.
One == At("localhost", "80")
Two == <<"22">>

tcp(p, a, r) == [proto |-> p, addr |-> a, remote |-> r, sub |-> ""]
http(a, s)   == [proto |-> "http", addr |-> a, remote |-> << >>, sub |-> s]

\* Entries that work: remote_addr left out, a port, the wildcard or one of the
\* server's addresses.
PlainEntries ==
    { tcp("tcp", One, << >>), tcp("tcp", Two, << >>), tcp("tcp", One, <<"80">>),
      tcp("tcp4", Two, At("0.0.0.0", "80")), tcp("tcp", Two, At("10.0.0.1", "80")),
      tcp("tcp", One, At("", "22")), http(One, ""), http(Two, "app") }

\* Entries with an error that the client or the server finds.
WrongEntries ==
    { tcp("udp", One, << >>), tcp("tcp", << >>, << >>), tcp("tcp", One, <<"localhost">>),
      tcp("tcp", <<"[", "::1", "]:", "80">>, << >>), tcp("tcp", One, <<"[", "::1", "]:", "80">>),
      tcp("tcp6", One, << >>), http(One, "Bad"),
      [proto |-> "http", addr |-> One, remote |-> <<"80">>, sub |-> "app"] }

MCEntries      == PlainEntries \cup WrongEntries
DigitEntries   == { tcp("tcp", One, << >>), http(Two, "80") }
NamedEntries   == { tcp("tcp6", One, At("localhost", "80")), tcp("tcp4", Two, At("0.0.0.0", "80")) }
MCServerAddrs  == { At("server", "5223"), <<"server">> }
OneServerAddr  == { At("server", "5223") }

MCResolve == "localhost" :> {"127.0.0.1", "::1"}
MCLower   == "tunnel" :> "tunnel" @@ "Tunnel" :> "tunnel"

Plain     == <<"tunnel">>
WithPort  == <<"tunnel", ":", "443">>
UpperCase == <<"Tunnel">>
==============================================================================
