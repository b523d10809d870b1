--------------------------- MODULE MCTunnelServer ---------------------------
(* Small instances of TunnelServer.  An offer is a set of named tunnels.    *)
EXTENDS TunnelServer

tcp(n, a)  == [name |-> n, proto |-> "tcp",  addr |-> a,    host |-> "none"]
http(n, s) == [name |-> n, proto |-> "http", addr |-> "none", host |-> s]

MCBaseDomain == [name |-> "example", port |-> "443"]
MCHostNames  == Slugs \X {"example"}
MCListeners  == Conns \X Addrs

\* k1 and k2 are connections of the same client, k3 of another.
TwoOfOne  == [k \in Conns |-> "c1"]
TwoAndOne == [k \in Conns |-> IF k = "k3" THEN "c2" ELSE "c1"]

\* A good offer of one kind each, a good mixed one, an empty one, and one that
\* fails after a listener was opened.
SmallOffers == { {tcp("n1", "a1")}, {http("n2", "s1")}, {tcp("n1", "a1"), http("n2", "s1")} }
BadOffers   == { {}, {tcp("n1", "a1"), tcp("n2", "a1")}, {tcp("n1", "a1"), http("n2", "?")} }
MCOffers    == SmallOffers \cup BadOffers
==============================================================================
