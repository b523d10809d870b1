--------------------------- MODULE MCTunnelSystem ---------------------------
(* One client, whose file has a tcp and an http tunnel.                      *)
EXTENDS TunnelSystem

MCBaseDomain == [name |-> "example", port |-> "443"]
MCHostNames  == Slugs \X {"example"}
MCListeners  == Conns \X Addrs
MCOwner      == [k \in Conns |-> "c1"]

MCOffers == { { [name |-> "n1", proto |-> "tcp",  addr |-> "a1",   host |-> "none"],
                [name |-> "n2", proto |-> "http", addr |-> "none", host |-> "s1"] } }

ASSUME MCCanServe == CanServe
==============================================================================
