---------------------------- MODULE TunnelRouting ----------------------------
(***************************************************************************)
(* How an address in a client's configuration file becomes a route, and    *)
(* what the route does to a user's connection: config.go completes the     *)
(* file's addresses, options.go makes of them the tunnels offered to the   *)
(* server and the proxy's table of local addresses, the server listens     *)
(* (addTunnels) and names the listener or subdomain that a connection came *)
(* in by (listen, handleHTTPConn), and the client looks this name up in    *)
(* its table (localAddrFor).  The name is never one the two sides agreed   *)
(* on: it is what the server's operating system calls the listener.        *)
(*                                                                         *)
(* A request is addressed to a client and not to a session, so it may be   *)
(* delivered to a later run of the client, which has another table.        *)
(*                                                                         *)
(* A text is the sequence of its parts: <<h, ":", p>> is h:p,              *)
(* <<"[", h, "]:", p>> is [h]:p, <<p>> a bare port or label, << >> the     *)
(* empty string and also what a function that fails returns.  One client   *)
(* is modelled; how several share the registry is in TunnelServer.         *)
(***************************************************************************)
EXTENDS Sequences

CONSTANTS
    Names,        \* keys of the tunnels map
    Entries,      \* what may stand under such a key, as written
    ServerAddrs,  \* what may be given as server_addr
    Ports,        \* port numbers, as strings
    Labels,       \* the strings proto.ValidSubdomainLabel accepts
    V4, V6,       \* the addresses of the server's host
    Public,       \* those that others can reach
    Resolve,      \* Resolve[name]: the addresses of a host name on the server
    BaseDomain,   \* ServerConfig.BaseDomain: a name, perhaps with a port
    Spellings,    \* the ways users write the name of the base domain
    Lower,        \* strings.ToLower on these
    Users

Wildcards == {"0.0.0.0", "::"}

IPs == V4 \cup V6 \cup Wildcards

\* Names, addresses, labels and numbers are told apart by how they are written,
\* but a label may be a number.
ASSUME RoutingAssumption ==
    /\ "127.0.0.1" \in V4 /\ V4 \cap V6 = {} /\ Wildcards \cap (V4 \cup V6) = {}
    /\ Public \subseteq V4 \cup V6
    /\ DOMAIN Resolve \cap IPs = {} /\ Labels \cap IPs = {}
    /\ "" \notin Labels \cup Ports \cup IPs
    /\ Entries \subseteq [proto : STRING, addr : Seq(STRING), remote : Seq(STRING), sub : STRING]
    /\ \A t \in Entries : t.sub \notin Labels => t.sub \notin Ports
    /\ Len(BaseDomain) \in {0, 1, 3}
    /\ Spellings \subseteq DOMAIN Lower

VARIABLES
    config,     \* the configuration file that was read
    phase,      \* where the client's process is, and its session with the server
    running,    \* the started tunnels, completed (ClientConfig.Tunnels)
    table,      \* StreamProxy.localAddrMap
    listeners,  \* the listeners of the client's registry item, by tunnel
    hosts,      \* keys of registry.hosts
    conn        \* conn[u]: a user's connection

vars == <<config, phase, running, table, listeners, hosts, conn>>

NoText == << >>

-----------------------------------------------------------------------------
(* Addresses.                                                              *)

\* fmt.Sprintf("%s:%s", host, port)
HostPort(h, p) == <<h, ":", p>>

\* TCPAddr.String: brackets around an IPv6 address
AddrString(l) == IF l.ip \in V6 \cup {"::"} THEN <<"[", l.ip, "]:", l.port>>
                                            ELSE HostPort(l.ip, l.port)

\* net.SplitHostPort: an IPv6 address needs its brackets ("too many colons").
SplitHostPort(t) ==
    IF Len(t) = 4 THEN [ok |-> TRUE, host |-> t[2], port |-> t[4]]
    ELSE IF Len(t) = 3 /\ t[2] = ":" /\ t[1] \notin V6 \cup {"::"}
    THEN [ok |-> TRUE, host |-> t[1], port |-> t[3]]
    ELSE [ok |-> FALSE, host |-> "", port |-> ""]

\* A port in a file is a number (and not the name of a service, or nothing at all,
\* for which net.Listen picks a port).
ASSUME PortAssumption ==
    \A t \in Entries : \A s \in {SplitHostPort(t.addr), SplitHostPort(t.remote)} :
        s.ok => s.port \in Ports

IsNumber(t) == Len(t) = 1 /\ t[1] \in Ports

\* A bare port and an empty host are put on the loopback address; the brackets
\* of an IPv6 address are lost.
NormalizeAddress(t) ==
    LET s == SplitHostPort(IF IsNumber(t) THEN HostPort("", t[1]) ELSE t)
    IN  IF s.ok THEN HostPort(IF s.host = "" THEN "127.0.0.1" ELSE s.host, s.port)
                ELSE NoText

-----------------------------------------------------------------------------
(* loadClientConfigFromFile.                                               *)

Invalid == [proto |-> "invalid", addr |-> NoText, remote |-> NoText, sub |-> ""]

IsTCP(t) == t.proto \in {"tcp", "tcp4", "tcp6"}

\* Fault: remote_addr is taken as it is written.
completeTCPRaw(t) ==
    IF t.remote = NoText \/ NormalizeAddress(t.addr) = NoText
    THEN Invalid
    ELSE [t EXCEPT !.addr = NormalizeAddress(t.addr)]

completeTCP(t) ==
    LET addr   == NormalizeAddress(t.addr)
        local  == SplitHostPort(addr)
        remote == IF t.remote = NoText THEN HostPort("0.0.0.0", local.port)
                                       ELSE NormalizeAddress(t.remote)
    IN  IF addr = NoText \/ remote = NoText \/ (t.remote = NoText /\ ~local.ok)
        THEN Invalid
        ELSE [t EXCEPT !.addr = addr, !.remote = remote]

completeHTTP(t, name) ==
    LET addr == NormalizeAddress(t.addr)
        sub  == IF t.sub = "" THEN name ELSE t.sub
    IN  IF addr = NoText \/ sub \notin Labels \/ t.remote # NoText
        THEN Invalid
        ELSE [t EXCEPT !.addr = addr, !.sub = sub]

\* Any other protocol is an error.
complete(t, name) ==
    CASE IsTCP(t)         -> completeTCP(t)
      [] t.proto = "http" -> completeHTTP(t, name)
      [] OTHER            -> Invalid

\* The tunnels that the entries of a file may become.
Completed == { complete(t, n) : t \in Entries, n \in Names } \ {Invalid}

SharedSubdomain(tunnels) ==
    \E m, n \in DOMAIN tunnels :
        m # n /\ tunnels[m].proto = "http" /\ tunnels[n].proto = "http"
              /\ tunnels[m].sub = tunnels[n].sub

Files == [server : ServerAddrs, tunnels : UNION { [S -> Entries] : S \in SUBSET Names }]

NoTunnels == << >>

NoFile == [server |-> NoText, tunnels |-> NoTunnels]

\* The file is read when the process starts.
LoadConfig(file) ==
    LET completed == [n \in DOMAIN file.tunnels |-> complete(file.tunnels[n], n)]
    IN  /\ phase = "down"
        /\ config' = file
        /\ IF \/ NormalizeAddress(file.server) = NoText
              \/ Invalid \in { completed[n] : n \in DOMAIN completed }
              \/ SharedSubdomain(completed)
           THEN phase' = "failed" /\ UNCHANGED running
           ELSE phase' = "loaded" /\ running' = completed
        /\ UNCHANGED <<table, listeners, hosts, conn>>

-----------------------------------------------------------------------------
(* Execute: start and start-all, and the connection to the server.         *)

\* The key under which proxy() enters a tunnel in its table.
Key(t) == IF IsTCP(t) THEN t.remote ELSE <<t.sub>>

\* All the tables proxy() may make of some tunnels: one entry for each key, of
\* whichever tunnel with this key the iteration over the map meets last.
Tables(tunnels) ==
    LET keys == { Key(tunnels[n]) : n \in DOMAIN tunnels }
        last == { f \in [keys -> DOMAIN tunnels] : \A k \in keys : Key(tunnels[f[k]]) = k }
    IN  { [k \in keys |-> tunnels[f[k]].addr] : f \in last }

\* start takes the tunnels S that its arguments name, start-all all of them.
Start(S) ==
    LET chosen == [n \in S |-> running[n]]
    IN  /\ phase = "loaded"
        /\ S # {}
        /\ phase' = "started"
        /\ running' = chosen
        /\ table' \in Tables(chosen)
        /\ UNCHANGED <<config, listeners, hosts, conn>>

\* No tunnel in the file, an argument that is not in it, or no usable key pair.
StartFails ==
    /\ phase = "loaded"
    /\ phase' = "failed"
    /\ running' = NoTunnels
    /\ UNCHANGED <<config, table, listeners, hosts, conn>>

\* The server has the connection in its pool, and its handshake is on the way.
Connect ==
    /\ phase = "started"
    /\ phase' = "connected"
    /\ UNCHANGED <<config, running, table, listeners, hosts, conn>>

\* disconnected: the server clears the registry item and closes its listeners.
disconnected == listeners' = {} /\ hosts' = {}

Disconnect ==
    /\ phase \in {"connected", "serving"}
    /\ phase' = "started"
    /\ disconnected
    /\ UNCHANGED <<config, running, table, conn>>

\* The process ends; the next one may find another file.
Exit ==
    /\ phase # "down"
    /\ phase' = "down"
    /\ config' = NoFile
    /\ running' = NoTunnels
    /\ table' = << >>
    /\ disconnected
    /\ UNCHANGED conn

-----------------------------------------------------------------------------
(* addTunnels.                                                             *)

\* The address that net.Listen(t.proto, t.remote) binds to, if there is one.
\* "tcp" on the wildcard address takes both families; a name is resolved, to
\* its IPv4 address if the protocol allows it.
Bind(t) ==
    LET s    == SplitHostPort(t.remote)
        ips  == IF s.host \in V4 \cup V6 THEN {s.host}
                ELSE IF s.host \in DOMAIN Resolve THEN Resolve[s.host] ELSE {}
        four == IF t.proto = "tcp6" THEN {} ELSE ips \cap V4
        six  == IF t.proto = "tcp4" THEN {} ELSE ips \cap V6
    IN  CASE ~s.ok              -> {}
          [] s.host = "0.0.0.0" -> CASE t.proto = "tcp"  -> {"::"}
                                     [] t.proto = "tcp4" -> {"0.0.0.0"}
                                     [] OTHER            -> {}
          [] OTHER              -> IF four # {} THEN four ELSE six

Listen(t) == { [ip |-> ip, port |-> SplitHostPort(t.remote).port] : ip \in Bind(t) }

\* A listener takes the connections to its address, a wildcard one those to all
\* addresses of its family, and the wildcard of IPv6 those to any.
Covers(l, ip) == \/ l.ip = ip
                 \/ l.ip = "0.0.0.0" /\ ip \in V4
                 \/ l.ip = "::"

Clash(l, m) == l.port = m.port /\ \E ip \in V4 \cup V6 : Covers(l, ip) /\ Covers(m, ip)

\* The base domain is written last, with the port it may have.
httpFullHost(slug) ==
    IF Len(BaseDomain) = 3 THEN <<slug, ".", BaseDomain[1], ":", BaseDomain[3]>>
                           ELSE <<slug, ".", BaseDomain[1]>>

trimPort(t) == IF Len(t) = 5 THEN <<t[1], t[2], t[3]>> ELSE t

\* Listeners are opened one after the other, and all closed if one of them or a
\* host cannot be had; the client then gets the error and gives up.
CanAdd ==
    /\ \A n \in DOMAIN running : IF IsTCP(running[n]) THEN Listen(running[n]) # {}
                                                      ELSE BaseDomain # NoText
    /\ \A m, n \in DOMAIN running : m # n /\ IsTCP(running[m]) /\ IsTCP(running[n]) =>
           \A l \in Listen(running[m]), k \in Listen(running[n]) : ~Clash(l, k)

addTunnels ==
    /\ phase = "connected"
    /\ CanAdd
    /\ phase' = "serving"
    /\ listeners' = UNION { { [tunnel |-> running[n], at |-> l] : l \in Listen(running[n]) } :
                            n \in { m \in DOMAIN running : IsTCP(running[m]) } }
    /\ hosts' = { trimPort(httpFullHost(running[n].sub)) :
                  n \in { m \in DOMAIN running : ~IsTCP(running[m]) } }
    /\ UNCHANGED <<config, running, table, conn>>

\* Another process or client may hold a port or a host, so this is always possible.
rollback ==
    /\ phase = "connected"
    /\ phase' = "failed"
    /\ UNCHANGED <<config, running, table, listeners, hosts, conn>>

-----------------------------------------------------------------------------
(* A user's connection: accepted by the server, delivered to the client.   *)

NoConn == [st |-> "idle", by |-> Invalid, dialed |-> NoText, fwd |-> NoText, to |-> NoText]

\* listen: the name of the listener goes along as ForwardedHost.
listen(u, ip, p) ==
    /\ conn[u].st = "idle"
    /\ \E l \in listeners :
          /\ l.at.port = p /\ Covers(l.at, ip)
          /\ conn' = [conn EXCEPT ![u] = [NoConn EXCEPT
                         !.st = "accepted", !.by = l.tunnel,
                         !.dialed = HostPort(ip, p), !.fwd = AddrString(l.at)]]
    /\ UNCHANGED <<config, phase, running, table, listeners, hosts>>

\* Fault: the Host header is looked up as the user wrote it.
FoldNot(host) == host

\* strings.ToLower; labels are lower case already.
Fold(host) == <<host[1], ".", Lower[host[3]]>>

\* strings.TrimSuffix(fullHost, "." + baseDomain)
httpSlugFromHost(full) == IF full = httpFullHost(full[1]) THEN <<full[1]>> ELSE full

\* The slug of the host that was found goes along; a host that is not
\* registered is answered 404.
handleHTTPConn(u, slug, domain) ==
    LET full == Fold(trimPort(<<slug, ".", domain>>))
        own  == { n \in DOMAIN running : running[n].proto = "http"
                                         /\ trimPort(httpFullHost(running[n].sub)) = full }
    IN  /\ BaseDomain # NoText
        /\ conn[u].st = "idle"
        /\ IF full \in hosts
           THEN \E n \in own : conn' = [conn EXCEPT ![u] = [NoConn EXCEPT
                    !.st = "accepted", !.by = running[n],
                    !.dialed = <<slug>>, !.fwd = httpSlugFromHost(full)]]
           ELSE conn' = [conn EXCEPT ![u] = [NoConn EXCEPT
                    !.st = "not found", !.dialed = <<slug>>]]
        /\ UNCHANGED <<config, phase, running, table, listeners, hosts>>

\* table[k], or "" where there is no entry
Entry(k) == IF k \in DOMAIN table THEN table[k] ELSE NoText

\* The first of two texts that is not empty.
Or(s, t) == IF s # NoText THEN s ELSE t

\* Faults: without the wildcard address, and with any address of that port.
localAddrForExact(fwd) ==
    LET s == SplitHostPort(fwd)
    IN  Or(Entry(fwd), Or(Entry(<<s.port>>), Entry(<<s.host>>)))

localAddrForAnyHost(fwd) ==
    LET s    == SplitHostPort(fwd)
        keys == { k \in DOMAIN table : s.ok /\ SplitHostPort(k).port = s.port }
    IN  IF keys = {} THEN Or(Entry(fwd), Entry(<<s.host>>))
                     ELSE table[CHOOSE k \in keys : TRUE]

localAddrFor(fwd) ==
    LET s == SplitHostPort(fwd)
    IN  Or(Entry(fwd), Or(Entry(<<s.port>>), Or(Entry(HostPort("0.0.0.0", s.port)),
                                                Entry(<<s.host>>))))

\* The request reaches the client's proxy, in whatever session there is now.
Proxy(u) ==
    /\ conn[u].st = "accepted"
    /\ phase \in {"connected", "serving"}
    /\ LET target == localAddrFor(conn[u].fwd)
       IN  conn' = [conn EXCEPT ![u].st = IF target = NoText THEN "no target" ELSE "proxied",
                                ![u].to = target]
    /\ UNCHANGED <<config, phase, running, table, listeners, hosts>>

\* The connection ends: the user leaves, or no client answers for it.
HangUp(u) ==
    /\ conn[u].st # "idle"
    /\ conn' = [conn EXCEPT ![u] = NoConn]
    /\ UNCHANGED <<config, phase, running, table, listeners, hosts>>

-----------------------------------------------------------------------------

Init ==
    /\ config = NoFile
    /\ phase = "down"
    /\ running = NoTunnels
    /\ table = << >>
    /\ listeners = {}
    /\ hosts = {}
    /\ conn = [u \in Users |-> NoConn]

Next ==
    \/ \E file \in Files : LoadConfig(file)
    \/ \E S \in SUBSET DOMAIN running : Start(S)
    \/ StartFails
    \/ Connect
    \/ Disconnect
    \/ Exit
    \/ addTunnels
    \/ rollback
    \/ \E u \in Users : \/ \E ip \in V4 \cup V6, p \in Ports : listen(u, ip, p)
                        \/ \E slug \in Labels, d \in Spellings : handleHTTPConn(u, slug, d)
                        \/ Proxy(u)
                        \/ HangUp(u)

Spec == Init /\ [][Next]_vars

-----------------------------------------------------------------------------
\* Started tunnels are complete: tcp ones have two addresses with host and port,
\* http ones a valid label that no other one has; and every one has its entry in
\* the table.
RoutingTypeOK ==
    /\ config \in Files \cup {NoFile}
    /\ phase \in {"down", "loaded", "started", "connected", "serving", "failed"}
    /\ \A n \in DOMAIN running :
          LET t == running[n]
          IN  /\ Len(t.addr) = 3
              /\ IF IsTCP(t) THEN Len(t.remote) = 3 ELSE t.sub \in Labels
              /\ phase \in {"started", "connected", "serving"} => Key(t) \in DOMAIN table
    /\ ~SharedSubdomain(running)
    /\ \A l \in listeners : l.tunnel \in { running[n] : n \in DOMAIN running }
    /\ \A u \in Users : conn[u].st \in {"idle", "accepted", "not found", "no target", "proxied"}

\* Three things the routing takes for granted and nothing checks: no subdomain is
\* a port number; no remote_addr is a host name; the base domain is given without
\* a port, and as users' spellings of it are folded.
NoDigits == \A t \in Completed : t.proto = "http" => t.sub \notin Ports

NoNames == \A t \in Completed :
               IsTCP(t) => SplitHostPort(t.remote).host \notin DOMAIN Resolve

BaseBare   == Len(BaseDomain) # 3
BaseFolded == \A d \in Spellings : Lower[d] = BaseDomain[1]

Delivered(u) == conn[u].st = "accepted" /\ conn'[u].st \in {"proxied", "no target"}

\* The tunnel is on offer at the address dialed, or at every address.
OnOffer(t, dialed) ==
    IF IsTCP(t) THEN t.remote \in {dialed, HostPort("0.0.0.0", dialed[Len(dialed)])}
                ELSE dialed = <<t.sub>>

\* A connection that came in by a tunnel is proxied to this tunnel's own local
\* address, as long as the session in which it is delivered was accepted by the
\* server and has this tunnel: although the table is keyed by what the file says
\* and looked up by what the server's system reports, although a listener may
\* have been closed and opened again in between, and although nothing on the
\* client's side rejects two tcp tunnels with one remote_addr (localAddrFor,
\* proxy).
SameTunnel ==
    [][\A u \in Users : Delivered(u) /\ phase = "serving"
           /\ conn[u].by \in { running[n] : n \in DOMAIN running }
         => conn'[u].to = conn[u].by.addr]_vars

\* A connection is never proxied to a local address that no tunnel of a served
\* session exposes at the address the user dialed or at all addresses: one that
\* outlives its session does not reach what the next one exposes at another
\* address only, the loopback one say (localAddrFor).
NoStranger ==
    [][\A u \in Users : Delivered(u) /\ phase = "serving" /\ conn'[u].st = "proxied"
         => \E n \in DOMAIN running : /\ running[n].addr = conn'[u].to
                                      /\ OnOffer(running[n], conn[u].dialed)]_vars

\* While a session is served, no user who asks for one of its subdomains is
\* answered 404, however the name of the base domain is spelled (handleHTTPConn).
HTTPReachable ==
    [][\A u \in Users : conn[u].st = "idle" /\ conn'[u].st = "not found" /\ phase = "serving"
         => \A n \in DOMAIN running : running[n].proto = "http"
                                        => conn'[u].dialed # <<running[n].sub>>]_vars

\* A tunnel whose remote_addr is just a port is reachable from elsewhere.
PubliclyReachable ==
    phase = "serving" =>
        \A n \in DOMAIN running :
            IsTCP(running[n]) /\ IsNumber(config.tunnels[n].remote) =>
                \E l \in listeners, ip \in Public :
                    <<l.at.port>> = config.tunnels[n].remote /\ Covers(l.at, ip)

\* A connection to a subdomain carries the subdomain to the client:
\* httpSlugFromHost undoes httpFullHost.
SlugRoundTrip ==
    \A u \in Users : conn[u].st = "accepted" /\ conn[u].by.proto = "http"
                        => conn[u].fwd = <<conn[u].by.sub>>

==============================================================================
