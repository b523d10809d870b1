------------------------- MODULE TunnelRoutingProofs -------------------------
(***************************************************************************)
(* Theorems about TunnelRouting.                                           *)
(***************************************************************************)
EXTENDS TunnelRouting, TLAPS

-----------------------------------------------------------------------------
(* Texts.                                                                  *)

\* The parts of h:p, and that it is neither empty nor of another form.
LEMMA HostPortParts ==
    ASSUME NEW h, NEW p
    PROVE  /\ Len(HostPort(h, p)) = 3
           /\ HostPort(h, p)[1] = h /\ HostPort(h, p)[2] = ":" /\ HostPort(h, p)[3] = p
           /\ HostPort(h, p) # NoText
           /\ \A g, q : HostPort(h, p) = HostPort(g, q) => h = g /\ p = q
           /\ \A s : HostPort(h, p) # <<s>>
           /\ \A a, b, c, d : HostPort(h, p) # <<a, b, c, d>>
BY DEF HostPort, NoText

\* What SplitHostPort makes of the texts the program splits.
LEMMA SplitParts ==
    ASSUME NEW h, NEW p
    PROVE  /\ h \notin V6 \cup {"::"} =>
                 SplitHostPort(HostPort(h, p)) = [ok |-> TRUE, host |-> h, port |-> p]
           /\ h \in V6 \cup {"::"} => ~SplitHostPort(HostPort(h, p)).ok
           /\ SplitHostPort(<<"[", h, "]:", p>>) = [ok |-> TRUE, host |-> h, port |-> p]
           /\ SplitHostPort(<<h>>) = [ok |-> FALSE, host |-> "", port |-> ""]
           /\ SplitHostPort(<<h, ".", p>>) = [ok |-> FALSE, host |-> "", port |-> ""]
<1>1. h \notin V6 \cup {"::"} =>
          SplitHostPort(HostPort(h, p)) = [ok |-> TRUE, host |-> h, port |-> p]
  BY DEF HostPort, SplitHostPort
<1>2. h \in V6 \cup {"::"} => ~SplitHostPort(HostPort(h, p)).ok
  BY DEF HostPort, SplitHostPort
<1>3. SplitHostPort(<<"[", h, "]:", p>>) = [ok |-> TRUE, host |-> h, port |-> p]
  BY DEF SplitHostPort
<1>4. SplitHostPort(<<h>>) = [ok |-> FALSE, host |-> "", port |-> ""]
  BY DEF SplitHostPort
<1>5. SplitHostPort(<<h, ".", p>>) = [ok |-> FALSE, host |-> "", port |-> ""]
  BY DEF SplitHostPort
<1> QED BY <1>1, <1>2, <1>3, <1>4, <1>5

\* A normalized address is h:p, and p is the port that was given.
LEMMA Normalized ==
    ASSUME NEW t, NormalizeAddress(t) # NoText,
           SplitHostPort(t).ok => SplitHostPort(t).port \in Ports
    PROVE  \E h, p : NormalizeAddress(t) = HostPort(h, p) /\ p \in Ports
<1>1. CASE IsNumber(t)
  <2>1. SplitHostPort(HostPort("", t[1])) = [ok |-> TRUE, host |-> "", port |-> t[1]]
    BY SplitParts, RoutingAssumption DEF IPs, Wildcards
  <2>2. NormalizeAddress(t) = HostPort("127.0.0.1", t[1])
    <3> DEFINE s == SplitHostPort(IF IsNumber(t) THEN HostPort("", t[1]) ELSE t)
    <3>1. s.ok /\ s.host = "" /\ s.port = t[1]
      <4>1. s = SplitHostPort(HostPort("", t[1]))
        BY <1>1, Zenon
      <4>2. s = [ok |-> TRUE, host |-> "", port |-> t[1]]
        BY <2>1, <4>1
      <4> HIDE DEF s
      <4> QED BY <4>2
    <3> QED BY <3>1 DEF NormalizeAddress
  <2>3. t[1] \in Ports
    BY <1>1 DEF IsNumber
  <2> HIDE DEF HostPort, NormalizeAddress
  <2> QED BY <2>2, <2>3
<1>2. CASE ~IsNumber(t)
  <2> DEFINE s == SplitHostPort(t)
  <2>1. s.ok /\ s.port \in Ports
    BY <1>2 DEF NormalizeAddress
  <2>2. NormalizeAddress(t) = HostPort(IF s.host = "" THEN "127.0.0.1" ELSE s.host, s.port)
    BY <1>2, <2>1 DEF NormalizeAddress
  <2> QED BY <2>1, <2>2
<1> QED BY <1>1, <1>2

\* The name of the base domain follows the slug, with its port or without.
LEMMA FullHost ==
    ASSUME NEW slug
    PROVE  /\ trimPort(httpFullHost(slug)) = <<slug, ".", BaseDomain[1]>>
           /\ httpFullHost(slug)[1] = slug
           /\ BaseBare => httpFullHost(slug) = <<slug, ".", BaseDomain[1]>>
BY DEF httpFullHost, trimPort, BaseBare

-----------------------------------------------------------------------------
(* Completed tunnels and their listeners.                                  *)

\* A completed tunnel has a local address h:p, and a remote one if it is a tcp
\* tunnel and a label if not.
LEMMA CompletedShape ==
    ASSUME NEW t \in Completed
    PROVE  /\ \E h, p : t.addr = HostPort(h, p)
           /\ IsTCP(t) => \E h, p : t.remote = HostPort(h, p) /\ p \in Ports
           /\ ~IsTCP(t) => t.proto = "http" /\ t.sub \in Labels
<1>1. PICK e \in Entries, n \in Names : t = complete(e, n) /\ t # Invalid
  BY DEF Completed
<1>2. /\ e \in [proto : STRING, addr : Seq(STRING), remote : Seq(STRING), sub : STRING]
      /\ SplitHostPort(e.addr).ok => SplitHostPort(e.addr).port \in Ports
      /\ SplitHostPort(e.remote).ok => SplitHostPort(e.remote).port \in Ports
  BY RoutingAssumption, PortAssumption
<1>3. CASE IsTCP(e)
  <2> DEFINE addr   == NormalizeAddress(e.addr)
             local  == SplitHostPort(addr)
             remote == IF e.remote = NoText THEN HostPort("0.0.0.0", local.port)
                                            ELSE NormalizeAddress(e.remote)
  <2>1. /\ addr # NoText /\ remote # NoText
        /\ e.remote = NoText => local.ok
        /\ t = [e EXCEPT !.addr = addr, !.remote = remote]
    <3>1. t = completeTCP(e) /\ t # Invalid
      BY <1>1, <1>3 DEF complete, IsTCP
    <3> HIDE DEF Invalid
    <3> QED BY <3>1 DEF completeTCP
  <2>2. t.addr = addr /\ t.remote = remote /\ t.proto = e.proto
    BY <1>2, <2>1
  <2>3. PICK h, p : addr = HostPort(h, p) /\ p \in Ports
    BY <1>2, <2>1, Normalized
  <2>4. \E g, q : remote = HostPort(g, q) /\ q \in Ports
    <3>1. CASE e.remote = NoText
      <4>1. local.port = p
        <5>1. local = [ok |-> TRUE, host |-> h, port |-> p]
          BY <2>1, <2>3, <3>1, SplitParts
        <5> QED BY <5>1
      <4> QED BY <2>3, <3>1, <4>1
    <3>2. CASE e.remote # NoText
      BY <1>2, <2>1, <3>2, Normalized
    <3> QED BY <3>1, <3>2
  <2> HIDE DEF addr, remote
  <2> QED BY <1>3, <2>2, <2>3, <2>4 DEF IsTCP
<1>4. CASE e.proto = "http"
  <2> DEFINE addr == NormalizeAddress(e.addr)
             sub  == IF e.sub = "" THEN n ELSE e.sub
  <2>1. /\ addr # NoText /\ sub \in Labels
        /\ t = [e EXCEPT !.addr = addr, !.sub = sub]
    BY <1>1, <1>4 DEF complete, completeHTTP, IsTCP
  <2>2. t.addr = addr /\ t.sub = sub /\ t.proto = "http"
    BY <1>2, <1>4, <2>1
  <2>3. \E h, p : addr = HostPort(h, p)
    BY <1>2, <2>1, Normalized
  <2> HIDE DEF addr, sub
  <2> QED BY <2>1, <2>2, <2>3 DEF IsTCP
<1> QED BY <1>1, <1>3, <1>4 DEF complete

\* What the listener of a tunnel is bound to.
LEMMA Bound ==
    ASSUME NEW t \in Completed, IsTCP(t), NEW l \in Listen(t)
    PROVE  \E h, p : /\ t.remote = HostPort(h, p) /\ p \in Ports
                     /\ l = [ip |-> l.ip, port |-> p]
                     /\ \/ h \in V4 /\ l.ip = h
                        \/ h = "0.0.0.0" /\ t.proto = "tcp" /\ l.ip = "::"
                        \/ h = "0.0.0.0" /\ t.proto = "tcp4" /\ l.ip = "0.0.0.0"
                        \/ h \in DOMAIN Resolve /\ l.ip \in V4 \cup V6
<1>1. PICK h, p : t.remote = HostPort(h, p) /\ p \in Ports
  BY CompletedShape
<1>2. PICK ip \in Bind(t) : l = [ip |-> ip, port |-> SplitHostPort(t.remote).port]
  BY DEF Listen
<1>3. /\ h \notin V6 \cup {"::"}
      /\ SplitHostPort(t.remote) = [ok |-> TRUE, host |-> h, port |-> p]
  <2>1. SplitHostPort(t.remote).ok
    <3>1. ~SplitHostPort(t.remote).ok => SplitHostPort(t.remote).host = ""
      BY DEF SplitHostPort
    <3> QED BY <1>2, <3>1 DEF Bind
  <2> QED BY <1>1, <2>1, SplitParts
<1>4. \/ h \in V4 /\ ip = h
      \/ h = "0.0.0.0" /\ t.proto = "tcp" /\ ip = "::"
      \/ h = "0.0.0.0" /\ t.proto = "tcp4" /\ ip = "0.0.0.0"
      \/ h \in DOMAIN Resolve /\ ip \in V4 \cup V6
  BY <1>2, <1>3 DEF Bind, IsTCP
<1> QED BY <1>1, <1>2, <1>3, <1>4

\* The client reads in the name of a listener what the server bound it to.
LEMMA NamedBy ==
    ASSUME NEW l, l.ip \in IPs
    PROVE  /\ SplitHostPort(AddrString(l)) = [ok |-> TRUE, host |-> l.ip, port |-> l.port]
           /\ l.ip \in V6 \cup {"::"} => AddrString(l) = <<"[", l.ip, "]:", l.port>>
           /\ l.ip \notin V6 \cup {"::"} => AddrString(l) = HostPort(l.ip, l.port)
BY SplitParts DEF AddrString

-----------------------------------------------------------------------------
(* The inductive invariant.                                                *)

\* What the server listens on for the running tunnels, and the hosts it serves.
Listening == UNION { { [tunnel |-> running[n], at |-> l] : l \in Listen(running[n]) } :
                     n \in { m \in DOMAIN running : IsTCP(running[m]) } }

Hosted == { trimPort(httpFullHost(running[n].sub)) :
            n \in { m \in DOMAIN running : ~IsTCP(running[m]) } }

States == {"idle", "accepted", "not found", "no target", "proxied"}

\* Where the connection c was accepted, and what the request for it says: a tcp
\* tunnel's listener by its address, an http tunnel by its subdomain, with the
\* base domain behind it if the server could not take that off.
AcceptedBy(c) ==
    /\ c.by \in Completed
    /\ IF IsTCP(c.by)
       THEN \E l \in Listen(c.by), ip \in V4 \cup V6 :
               Covers(l, ip) /\ c.fwd = AddrString(l) /\ c.dialed = HostPort(ip, l.port)
       ELSE /\ c.dialed = <<c.by.sub>>
            /\ c.fwd = <<c.by.sub>> \/ c.fwd = <<c.by.sub, ".", BaseDomain[1]>>
            /\ BaseBare => c.fwd = <<c.by.sub>>

RunningOK ==
    /\ \A n \in DOMAIN running : running[n] \in Completed
    /\ ~SharedSubdomain(running)

TableOK == phase \in {"started", "connected", "serving"} => table \in Tables(running)

ServingOK == IF phase = "serving"
             THEN CanAdd /\ listeners = Listening /\ hosts = Hosted
             ELSE listeners = {} /\ hosts = {}

IsConn(c) ==
    /\ DOMAIN c = {"st", "by", "dialed", "fwd", "to"}
    /\ c.st \in States
    /\ c.st = "accepted" => AcceptedBy(c)

ConnOK == DOMAIN conn = Users /\ \A u \in Users : IsConn(conn[u])

RInv ==
    /\ config \in Files \cup {NoFile}
    /\ phase \in {"down", "loaded", "started", "connected", "serving", "failed"}
    /\ RunningOK
    /\ TableOK
    /\ ServingOK
    /\ ConnOK

\* Leaving the connections alone keeps what is known of them: it does not depend
\* on the session.
LEMMA ConnKept ==
    ASSUME RInv, UNCHANGED conn
    PROVE  ConnOK'
BY DEF RInv, ConnOK, IsConn

\* Reading a file.
LEMMA LoadConfigInv ==
    ASSUME RInv, NEW file \in Files, LoadConfig(file)
    PROVE  RInv'
<1> DEFINE completed == [n \in DOMAIN file.tunnels |-> complete(file.tunnels[n], n)]
<1>1. phase = "down" /\ listeners = {} /\ hosts = {}
  BY DEF RInv, ServingOK, LoadConfig
<1>2. config' \in Files \cup {NoFile}
  BY DEF LoadConfig
<1>3. phase' \in {"failed", "loaded"} /\ listeners' = {} /\ hosts' = {}
  BY <1>1 DEF LoadConfig
<1>4. RunningOK'
  <2>1. CASE UNCHANGED running
    BY <2>1 DEF RInv, RunningOK, SharedSubdomain
  <2>2. CASE running' # running
    <3>1. /\ running' = completed
          /\ Invalid \notin { completed[n] : n \in DOMAIN completed }
          /\ ~SharedSubdomain(completed)
      BY <2>2 DEF LoadConfig
    <3>2. PICK S \in SUBSET Names : file.tunnels \in [S -> Entries]
      BY DEF Files
    <3>3. ASSUME NEW n \in DOMAIN completed
          PROVE  completed[n] \in Completed
      <4>1. n \in Names /\ file.tunnels[n] \in Entries
        BY <3>2
      <4>2. completed[n] = complete(file.tunnels[n], n) /\ completed[n] # Invalid
        BY <3>1
      <4> QED BY <4>1, <4>2 DEF Completed
    <3> HIDE DEF completed
    <3> QED BY <3>1, <3>3 DEF RunningOK, SharedSubdomain
  <2> QED BY <2>1, <2>2
<1>5. TableOK' /\ ServingOK'
  BY <1>3 DEF TableOK, ServingOK
<1>6. ConnOK'
  BY ConnKept DEF LoadConfig
<1> QED BY <1>2, <1>3, <1>4, <1>5, <1>6 DEF RInv

\* Starting some of the tunnels.
LEMMA StartInv ==
    ASSUME RInv, NEW S \in SUBSET DOMAIN running, Start(S)
    PROVE  RInv'
<1> DEFINE chosen == [n \in S |-> running[n]]
<1>1. /\ phase = "loaded" /\ phase' = "started"
      /\ running' = chosen
      /\ table' \in Tables(chosen)
      /\ UNCHANGED <<config, listeners, hosts, conn>>
  BY DEF Start
<1>2. RunningOK'
  BY <1>1 DEF RInv, RunningOK, SharedSubdomain
<1>3. TableOK'
  <2> HIDE DEF chosen
  <2> QED BY <1>1 DEF TableOK
<1>4. ServingOK'
  BY <1>1 DEF RInv, ServingOK
<1>5. ConnOK'
  BY <1>1, ConnKept
<1> QED BY <1>1, <1>2, <1>3, <1>4, <1>5 DEF RInv

\* The steps that end the process or the session, or get no session.
LEMMA EndInv ==
    ASSUME RInv, StartFails \/ Connect \/ Disconnect \/ Exit \/ rollback
    PROVE  RInv'
<1>1. /\ UNCHANGED conn
      /\ UNCHANGED config \/ config' = NoFile
      /\ phase' \in {"down", "started", "connected", "failed"}
      /\ listeners' = {} /\ hosts' = {}
  BY DEF RInv, ServingOK, StartFails, Connect, Disconnect, Exit, rollback, disconnected
<1>2. RunningOK'
  <2>1. CASE UNCHANGED running
    BY <2>1 DEF RInv, RunningOK, SharedSubdomain
  <2>2. CASE running' = NoTunnels
    BY <2>2 DEF RunningOK, SharedSubdomain, NoTunnels
  <2> QED BY <2>1, <2>2 DEF StartFails, Connect, Disconnect, Exit, rollback
<1>3. TableOK'
  <2>1. CASE StartFails \/ Exit \/ rollback
    BY <2>1 DEF StartFails, Exit, rollback, TableOK
  <2>2. CASE Connect \/ Disconnect
    BY <2>2 DEF Connect, Disconnect, RInv, TableOK
  <2> QED BY <2>1, <2>2
<1>4. ServingOK'
  BY <1>1 DEF ServingOK
<1>5. ConnOK'
  BY <1>1, ConnKept
<1> QED BY <1>1, <1>2, <1>3, <1>4, <1>5 DEF RInv

\* The server accepts the tunnels.
LEMMA addTunnelsInv ==
    ASSUME RInv, addTunnels
    PROVE  RInv'
<1>1. /\ phase = "connected" /\ phase' = "serving" /\ CanAdd
      /\ listeners' = Listening /\ hosts' = Hosted
      /\ UNCHANGED <<config, running, table, conn>>
  BY DEF addTunnels, Listening, Hosted
<1>2. RunningOK'
  BY <1>1 DEF RInv, RunningOK, SharedSubdomain
<1>3. TableOK'
  BY <1>1 DEF RInv, TableOK
<1>4. ServingOK'
  BY <1>1 DEF ServingOK, CanAdd, Listening, Hosted
<1>5. ConnOK'
  BY <1>1, ConnKept
<1> QED BY <1>1, <1>2, <1>3, <1>4, <1>5 DEF RInv

\* A step of one user's connection leaves everything else as it is.
LEMMA UserStep ==
    ASSUME RInv, NEW u \in Users, NEW c, IsConn(c),
           conn' = [conn EXCEPT ![u] = c],
           UNCHANGED <<config, phase, running, table, listeners, hosts>>
    PROVE  RInv'
<1>1. RunningOK'
  BY DEF RInv, RunningOK, SharedSubdomain
<1>2. TableOK'
  BY DEF RInv, TableOK
<1>3. ServingOK'
  BY DEF RInv, ServingOK, CanAdd, Listening, Hosted
<1>4. ConnOK'
  BY DEF RInv, ConnOK, IsConn
<1> QED BY <1>1, <1>2, <1>3, <1>4 DEF RInv

\* A connection to a listener.
LEMMA listenInv ==
    ASSUME RInv, NEW u \in Users, NEW ip \in V4 \cup V6, NEW p \in Ports, listen(u, ip, p)
    PROVE  RInv'
<1>1. PICK l \in listeners :
          /\ l.at.port = p /\ Covers(l.at, ip)
          /\ conn' = [conn EXCEPT ![u] = [NoConn EXCEPT
                         !.st = "accepted", !.by = l.tunnel,
                         !.dialed = HostPort(ip, p), !.fwd = AddrString(l.at)]]
  BY DEF listen
<1> DEFINE c == [NoConn EXCEPT !.st = "accepted", !.by = l.tunnel,
                               !.dialed = HostPort(ip, p), !.fwd = AddrString(l.at)]
<1>2. l \in Listening
  BY DEF RInv, ServingOK
<1>3. PICK n \in DOMAIN running :
          IsTCP(running[n]) /\ l.tunnel = running[n] /\ l.at \in Listen(running[n])
  BY <1>2 DEF Listening
<1>4. running[n] \in Completed
  BY DEF RInv, RunningOK
<1>5. /\ DOMAIN c = {"st", "by", "dialed", "fwd", "to"}
      /\ c.st = "accepted" /\ c.by = l.tunnel
      /\ c.dialed = HostPort(ip, p) /\ c.fwd = AddrString(l.at)
  BY DEF NoConn
<1> HIDE DEF c
<1>6. AcceptedBy(c)
  BY <1>1, <1>3, <1>4, <1>5 DEF AcceptedBy
<1>7. IsConn(c)
  BY <1>5, <1>6 DEF IsConn, States
<1> QED BY <1>1, <1>7, UserStep DEF listen, c

\* The host a request is looked up by.
LEMMA Folded ==
    ASSUME NEW slug, NEW d
    PROVE  Fold(trimPort(<<slug, ".", d>>)) = <<slug, ".", Lower[d]>>
BY DEF Fold, trimPort

\* A request to a subdomain.
LEMMA handleHTTPConnInv ==
    ASSUME RInv, NEW u \in Users, NEW slug \in Labels, NEW d \in Spellings,
           handleHTTPConn(u, slug, d)
    PROVE  RInv'
<1> DEFINE full == Fold(trimPort(<<slug, ".", d>>))
           own  == { n \in DOMAIN running : running[n].proto = "http"
                                            /\ trimPort(httpFullHost(running[n].sub)) = full }
<1>1. /\ UNCHANGED <<config, phase, running, table, listeners, hosts>>
      /\ \/ \E n \in own : conn' = [conn EXCEPT ![u] = [NoConn EXCEPT
                !.st = "accepted", !.by = running[n],
                !.dialed = <<slug>>, !.fwd = httpSlugFromHost(full)]]
         \/ conn' = [conn EXCEPT ![u] = [NoConn EXCEPT
                !.st = "not found", !.dialed = <<slug>>]]
  BY DEF handleHTTPConn
<1>2. CASE conn' = [conn EXCEPT ![u] = [NoConn EXCEPT !.st = "not found", !.dialed = <<slug>>]]
  <2> DEFINE c == [NoConn EXCEPT !.st = "not found", !.dialed = <<slug>>]
  <2>1. IsConn(c)
    BY DEF IsConn, NoConn, States
  <2> QED BY <1>1, <1>2, <2>1, UserStep
<1>3. ASSUME NEW n \in own,
             conn' = [conn EXCEPT ![u] = [NoConn EXCEPT
                 !.st = "accepted", !.by = running[n],
                 !.dialed = <<slug>>, !.fwd = httpSlugFromHost(full)]]
      PROVE  RInv'
  <2> DEFINE c == [NoConn EXCEPT !.st = "accepted", !.by = running[n],
                                 !.dialed = <<slug>>, !.fwd = httpSlugFromHost(full)]
  <2>1. /\ running[n] \in Completed
        /\ running[n].proto = "http"
        /\ trimPort(httpFullHost(running[n].sub)) = full
    BY DEF RInv, RunningOK
  <2>2. full = <<slug, ".", Lower[d]>> /\ full = <<running[n].sub, ".", BaseDomain[1]>>
    BY <2>1, Folded, FullHost
  <2>3. running[n].sub = slug /\ full[1] = slug /\ full = <<slug, ".", BaseDomain[1]>>
    BY <2>2
  <2>4. /\ httpSlugFromHost(full) = <<slug>> \/ httpSlugFromHost(full) = full
        /\ BaseBare => httpSlugFromHost(full) = <<slug>>
    BY <2>3, FullHost DEF httpSlugFromHost
  <2>5. /\ DOMAIN c = {"st", "by", "dialed", "fwd", "to"}
        /\ c.st = "accepted" /\ c.by = running[n]
        /\ c.dialed = <<slug>> /\ c.fwd = httpSlugFromHost(full)
    BY DEF NoConn
  <2> HIDE DEF c, full
  <2>6. AcceptedBy(c)
    BY <2>1, <2>3, <2>4, <2>5 DEF AcceptedBy, IsTCP
  <2>7. IsConn(c)
    BY <2>5, <2>6 DEF IsConn, States
  <2> QED BY <1>1, <1>3, <2>7, UserStep DEF c
<1> QED BY <1>1, <1>2, <1>3

\* A request reaches the proxy.
LEMMA ProxyInv ==
    ASSUME RInv, NEW u \in Users, Proxy(u)
    PROVE  RInv'
<1> DEFINE target == localAddrFor(conn[u].fwd)
           st == IF target = NoText THEN "no target" ELSE "proxied"
           c == [conn[u] EXCEPT !.st = st, !.to = target]
<1>1. /\ conn' = [conn EXCEPT ![u] = c]
      /\ UNCHANGED <<config, phase, running, table, listeners, hosts>>
  BY DEF Proxy
<1>2. IsConn(conn[u])
  BY DEF RInv, ConnOK
<1>3. st \in {"no target", "proxied"}
  OBVIOUS
<1> HIDE DEF target, st
<1>4. IsConn(c)
  BY <1>2, <1>3 DEF IsConn, States
<1> QED BY <1>1, <1>4, UserStep

\* A connection ends.
LEMMA HangUpInv ==
    ASSUME RInv, NEW u \in Users, HangUp(u)
    PROVE  RInv'
<1>1. IsConn(NoConn)
  BY DEF IsConn, NoConn, States
<1> QED BY <1>1, UserStep DEF HangUp

\* RInv is inductive.
LEMMA RInvInductive == Spec => []RInv
<1>1. Init => RInv
  <2> SUFFICES ASSUME Init PROVE RInv
    OBVIOUS
  <2>1. RunningOK
    BY DEF Init, RunningOK, SharedSubdomain, NoTunnels
  <2>2. TableOK /\ ServingOK
    BY DEF Init, TableOK, ServingOK
  <2>3. IsConn(NoConn)
    BY DEF IsConn, NoConn, States
  <2>4. ConnOK
    BY <2>3 DEF Init, ConnOK
  <2> QED BY <2>1, <2>2, <2>4 DEF Init, RInv
<1>2. RInv /\ [Next]_vars => RInv'
  <2> SUFFICES ASSUME RInv, [Next]_vars PROVE RInv'
    OBVIOUS
  <2>1. CASE \E file \in Files : LoadConfig(file)
    BY <2>1, LoadConfigInv
  <2>2. CASE \E S \in SUBSET DOMAIN running : Start(S)
    BY <2>2, StartInv
  <2>3. CASE StartFails \/ Connect \/ Disconnect \/ Exit \/ rollback
    BY <2>3, EndInv
  <2>4. CASE addTunnels
    BY <2>4, addTunnelsInv
  <2>5. ASSUME NEW u \in Users, \E ip \in V4 \cup V6, p \in Ports : listen(u, ip, p)
        PROVE  RInv'
    BY <2>5, listenInv
  <2>6. ASSUME NEW u \in Users, \E slug \in Labels, d \in Spellings : handleHTTPConn(u, slug, d)
        PROVE  RInv'
    BY <2>6, handleHTTPConnInv
  <2>7. ASSUME NEW u \in Users, Proxy(u) \/ HangUp(u)
        PROVE  RInv'
    BY <2>7, ProxyInv, HangUpInv
  <2>8. CASE UNCHANGED vars
    <3>1. RunningOK' /\ ServingOK' /\ TableOK'
      BY <2>8 DEF vars, RInv, RunningOK, SharedSubdomain, ServingOK, CanAdd, Listening,
                  Hosted, TableOK
    <3>2. ConnOK'
      BY <2>8, ConnKept DEF vars
    <3> QED BY <2>8, <3>1, <3>2 DEF vars, RInv
  <2> QED BY <2>1, <2>2, <2>3, <2>4, <2>5, <2>6, <2>7, <2>8 DEF Next
<1> QED BY <1>1, <1>2, PTL DEF Spec

-----------------------------------------------------------------------------
(* Looking up a tunnel.                                                    *)

\* The table has an entry for every running tunnel, and none but theirs.
LEMMA TableEntries ==
    ASSUME RInv, phase \in {"started", "connected", "serving"}
    PROVE  /\ \A n \in DOMAIN running : Key(running[n]) \in DOMAIN table
           /\ \A k \in DOMAIN table : \E n \in DOMAIN running :
                 Key(running[n]) = k /\ table[k] = running[n].addr
<1> DEFINE keys == { Key(running[n]) : n \in DOMAIN running }
<1>1. PICK f \in [keys -> DOMAIN running] :
          /\ \A k \in keys : Key(running[f[k]]) = k
          /\ table = [k \in keys |-> running[f[k]].addr]
  BY DEF RInv, TableOK, Tables
<1> QED BY <1>1

\* Started tunnels are complete, distinct if http, and in the table
\* (loadClientConfigFromFile, proxy).
THEOREM RoutingTypeCorrect == Spec => []RoutingTypeOK
<1>1. RInv => RoutingTypeOK
  <2> SUFFICES ASSUME RInv PROVE RoutingTypeOK
    OBVIOUS
  <2>1. ASSUME NEW n \in DOMAIN running
        PROVE  /\ Len(running[n].addr) = 3
               /\ IF IsTCP(running[n]) THEN Len(running[n].remote) = 3
                                       ELSE running[n].sub \in Labels
    <3>1. running[n] \in Completed
      BY DEF RInv, RunningOK
    <3> QED BY <3>1, CompletedShape, HostPortParts
  <2>2. phase \in {"started", "connected", "serving"} =>
            \A n \in DOMAIN running : Key(running[n]) \in DOMAIN table
    BY TableEntries
  <2>3. \A l \in listeners : l.tunnel \in { running[n] : n \in DOMAIN running }
    BY DEF RInv, ServingOK, Listening
  <2>4. \A u \in Users : conn[u].st \in States
    BY DEF RInv, ConnOK, IsConn
  <2>5. /\ config \in Files \cup {NoFile}
        /\ phase \in {"down", "loaded", "started", "connected", "serving", "failed"}
        /\ ~SharedSubdomain(running)
    BY DEF RInv, RunningOK
  <2> QED BY <2>1, <2>2, <2>3, <2>4, <2>5 DEF RoutingTypeOK, States
<1> QED BY <1>1, RInvInductive, PTL

\* While a session is served, a subdomain of it is found however the base domain
\* is spelled, if the base domain is given as users' spellings are folded
\* (handleHTTPConn, addTunnels).
THEOREM SubdomainFound ==
    ASSUME BaseFolded PROVE Spec => HTTPReachable
<1> DEFINE A == \A u \in Users :
                    conn[u].st = "idle" /\ conn'[u].st = "not found" /\ phase = "serving"
                    => \A n \in DOMAIN running : running[n].proto = "http"
                                                   => conn'[u].dialed # <<running[n].sub>>
<1>1. RInv /\ [Next]_vars => A
  <2> SUFFICES ASSUME RInv, [Next]_vars, NEW u \in Users,
                      conn[u].st = "idle", conn'[u].st = "not found", phase = "serving",
                      NEW n \in DOMAIN running, running[n].proto = "http"
               PROVE  conn'[u].dialed # <<running[n].sub>>
    OBVIOUS
  <2>1. PICK slug \in Labels, d \in Spellings : handleHTTPConn(u, slug, d)
    <3>1. conn' # conn
      OBVIOUS
    <3>2. PICK v \in Users : \/ \E ip \in V4 \cup V6, p \in Ports : listen(v, ip, p)
                             \/ \E slug \in Labels, d \in Spellings : handleHTTPConn(v, slug, d)
                             \/ Proxy(v)
                             \/ HangUp(v)
      BY <3>1 DEF Next, vars, LoadConfig, Start, StartFails, Connect, Disconnect, Exit,
                  addTunnels, rollback
    <3>3. v = u
      BY <3>2 DEF RInv, ConnOK, listen, handleHTTPConn, Proxy, HangUp
    <3>4. ~HangUp(u) /\ ~Proxy(u)
      BY DEF HangUp, Proxy
    <3>5. \A ip \in V4 \cup V6, p \in Ports : ~listen(u, ip, p)
      <4> SUFFICES ASSUME NEW ip \in V4 \cup V6, NEW p \in Ports, listen(u, ip, p)
                   PROVE  conn'[u].st = "accepted"
        OBVIOUS
      <4>1. u \in DOMAIN conn
        BY DEF RInv, ConnOK
      <4> QED BY <4>1 DEF listen, NoConn
    <3> QED BY <3>2, <3>3, <3>4, <3>5
  <2> DEFINE full == Fold(trimPort(<<slug, ".", d>>))
  <2>2. full \notin hosts /\ conn'[u].dialed = <<slug>>
    BY <2>1 DEF RInv, ConnOK, handleHTTPConn, NoConn
  <2>3. full = <<slug, ".", BaseDomain[1]>>
    BY Folded DEF BaseFolded
  <2>4. trimPort(httpFullHost(running[n].sub)) \in hosts
    BY DEF RInv, ServingOK, Hosted, IsTCP
  <2>5. running[n].sub # slug
    BY <2>2, <2>3, <2>4, FullHost
  <2>6. <<slug>> # <<running[n].sub>>
    BY <2>5
  <2> HIDE DEF full
  <2> QED BY <2>2, <2>6
<1> QED BY <1>1, RInvInductive, PTL DEF Spec, HTTPReachable

\* What the client's table says of the name of a listener that a connection to a
\* tcp tunnel came in by: an entry is the local address of a tcp tunnel that has
\* the address dialed, or the wildcard one, as its remote address.
LEMMA FoundByListener ==
    ASSUME NoDigits, RInv, phase = "serving",
           NEW t \in Completed, IsTCP(t), NEW l \in Listen(t),
           localAddrFor(AddrString(l)) # NoText
    PROVE  \E n \in DOMAIN running :
              /\ IsTCP(running[n])
              /\ localAddrFor(AddrString(l)) = running[n].addr
              /\ \/ running[n].remote = HostPort(l.ip, l.port) /\ l.ip \in V4 \cup {"0.0.0.0"}
                 \/ running[n].remote = HostPort("0.0.0.0", l.port)
<1> DEFINE fwd == AddrString(l)
<1>1. l.port \in Ports /\ l.ip \in IPs
  <2>1. PICK h, p : /\ t.remote = HostPort(h, p) /\ p \in Ports
                    /\ l = [ip |-> l.ip, port |-> p]
                    /\ \/ h \in V4 /\ l.ip = h
                       \/ h = "0.0.0.0" /\ t.proto = "tcp" /\ l.ip = "::"
                       \/ h = "0.0.0.0" /\ t.proto = "tcp4" /\ l.ip = "0.0.0.0"
                       \/ h \in DOMAIN Resolve /\ l.ip \in V4 \cup V6
    BY Bound
  <2> QED BY <2>1 DEF IPs, Wildcards
<1>2. SplitHostPort(fwd) = [ok |-> TRUE, host |-> l.ip, port |-> l.port]
  BY <1>1, NamedBy
<1>3. /\ \A k \in DOMAIN table : \E n \in DOMAIN running :
            Key(running[n]) = k /\ table[k] = running[n].addr
      /\ \A n \in DOMAIN running : running[n] \in Completed
  BY TableEntries DEF RInv, RunningOK
<1>4. Entry(<<l.port>>) = NoText /\ Entry(<<l.ip>>) = NoText
  <2>1. ASSUME NEW s, s \in Ports \/ s \in IPs PROVE <<s>> \notin DOMAIN table
    <3> SUFFICES ASSUME NEW n \in DOMAIN running, Key(running[n]) = <<s>> PROVE FALSE
      BY <1>3
    <3>1. ~IsTCP(running[n])
      BY <1>3, CompletedShape, HostPortParts DEF Key
    <3>2. running[n].sub = s /\ running[n].sub \in Labels /\ running[n].proto = "http"
      BY <1>3, <3>1, CompletedShape DEF Key
    <3> QED BY <1>3, <2>1, <3>2, RoutingAssumption DEF NoDigits
  <2> QED BY <1>1, <2>1 DEF Entry
<1>5. localAddrFor(fwd) \in {Entry(fwd), Entry(HostPort("0.0.0.0", l.port))}
  BY <1>2, <1>4 DEF localAddrFor, Or
<1>6. ASSUME NEW k, Entry(k) # NoText, Len(k) # 1
      PROVE  \E n \in DOMAIN running : /\ IsTCP(running[n])
                                       /\ Entry(k) = running[n].addr
                                       /\ running[n].remote = k
  BY <1>3, <1>6 DEF Entry, Key
<1>7. CASE localAddrFor(fwd) = Entry(HostPort("0.0.0.0", l.port))
  BY <1>6, <1>7, HostPortParts
<1>8. CASE localAddrFor(fwd) = Entry(fwd) /\ l.ip \in V6 \cup {"::"}
  <2>1. fwd = <<"[", l.ip, "]:", l.port>> /\ Len(fwd) = 4
    BY <1>1, <1>8, NamedBy
  <2>2. PICK n \in DOMAIN running : IsTCP(running[n]) /\ running[n].remote = fwd
    BY <1>6, <1>8, <2>1
  <2> QED BY <1>3, <2>1, <2>2, CompletedShape, HostPortParts
<1>9. CASE localAddrFor(fwd) = Entry(fwd) /\ l.ip \notin V6 \cup {"::"}
  <2>1. fwd = HostPort(l.ip, l.port) /\ l.ip \in V4 \cup {"0.0.0.0"}
    BY <1>1, <1>9, NamedBy DEF IPs, Wildcards
  <2> QED BY <1>6, <1>9, <2>1, HostPortParts
<1> QED BY <1>5, <1>7, <1>8, <1>9

\* What the table says of a subdomain: it is found by its own name, and with the
\* base domain behind it not at all.
LEMMA FoundBySubdomain ==
    ASSUME RInv, phase = "serving", NEW sub \in Labels, NEW d,
           NEW fwd, fwd = <<sub>> \/ fwd = <<sub, ".", d>>,
           localAddrFor(fwd) # NoText
    PROVE  \E n \in DOMAIN running : /\ running[n].proto = "http"
                                     /\ running[n].sub = sub
                                     /\ localAddrFor(fwd) = running[n].addr
<1>1. SplitHostPort(fwd).host = "" /\ SplitHostPort(fwd).port = ""
  <2>1. CASE fwd = <<sub>>
    <3>1. SplitHostPort(<<sub>>).host = "" /\ SplitHostPort(<<sub>>).port = ""
      BY DEF SplitHostPort
    <3> QED BY <2>1, <3>1, Zenon
  <2>2. CASE fwd = <<sub, ".", d>>
    <3>1. /\ SplitHostPort(<<sub, ".", d>>).host = ""
          /\ SplitHostPort(<<sub, ".", d>>).port = ""
      BY DEF SplitHostPort
    <3> QED BY <2>2, <3>1, Zenon
  <2> QED BY <2>1, <2>2, Zenon
<1>2. /\ \A k \in DOMAIN table : \E n \in DOMAIN running :
            Key(running[n]) = k /\ table[k] = running[n].addr
      /\ \A n \in DOMAIN running : running[n] \in Completed
  BY TableEntries DEF RInv, RunningOK
<1>3. ASSUME NEW k, Entry(k) # NoText
      PROVE  \E n \in DOMAIN running :
                /\ Entry(k) = running[n].addr
                /\ \/ \E h, p : k = HostPort(h, p) /\ p \in Ports
                   \/ k = <<running[n].sub>> /\ running[n].proto = "http"
                      /\ running[n].sub \in Labels
  BY <1>2, <1>3, CompletedShape DEF Entry, Key
<1>4. Entry(<<"">>) = NoText
  <2>1. ASSUME NEW s, s \notin Labels PROVE Entry(<<s>>) = NoText
    BY <1>3, <2>1, HostPortParts
  <2> QED BY <2>1, RoutingAssumption
<1>5. Entry(HostPort("0.0.0.0", "")) = NoText
  <2>1. ASSUME NEW h, NEW p, p \notin Ports PROVE Entry(HostPort(h, p)) = NoText
    BY <1>3, <2>1, HostPortParts
  <2> QED BY <2>1, RoutingAssumption
<1>6. localAddrFor(fwd) = Entry(fwd)
  <2>1. localAddrFor(fwd) = Or(Entry(fwd), Or(Entry(<<"">>), Or(Entry(HostPort("0.0.0.0", "")),
                                                                Entry(<<"">>))))
    BY <1>1, Zenon DEF localAddrFor
  <2> QED BY <1>4, <1>5, <2>1 DEF Or
<1>7. \A h, p : fwd # HostPort(h, p)
  BY DEF HostPort
<1> QED BY <1>3, <1>6, <1>7

\* The proxy's step, with what the table says.
LEMMA DeliveredBy ==
    ASSUME RInv, [Next]_vars, NEW u \in Users, Delivered(u)
    PROVE  /\ AcceptedBy(conn[u])
           /\ conn'[u].to = localAddrFor(conn[u].fwd)
           /\ conn'[u].st = "proxied" => localAddrFor(conn[u].fwd) # NoText
<1>1. IsConn(conn[u]) /\ DOMAIN conn = Users
  BY DEF RInv, ConnOK
<1>2. conn' # conn
  BY DEF Delivered
<1>3. PICK v \in Users : \/ \E ip \in V4 \cup V6, p \in Ports : listen(v, ip, p)
                         \/ \E slug \in Labels, d \in Spellings : handleHTTPConn(v, slug, d)
                         \/ Proxy(v)
                         \/ HangUp(v)
  BY <1>2 DEF Next, vars, LoadConfig, Start, StartFails, Connect, Disconnect, Exit,
              addTunnels, rollback
<1>4. v = u
  BY <1>1, <1>3 DEF Delivered, listen, handleHTTPConn, Proxy, HangUp
<1>5. Proxy(u)
  <2>1. ~HangUp(u)
    <3>1. HangUp(u) => conn'[u] = NoConn
      BY <1>1 DEF HangUp
    <3>2. NoConn.st = "idle"
      BY DEF NoConn
    <3> QED BY <3>1, <3>2 DEF Delivered
  <2> QED BY <1>3, <1>4, <2>1 DEF Delivered, listen, handleHTTPConn
<1>6. AcceptedBy(conn[u])
  BY <1>1 DEF Delivered, IsConn
<1> DEFINE target == localAddrFor(conn[u].fwd)
           st == IF target = NoText THEN "no target" ELSE "proxied"
<1>7. conn'[u].to = target /\ conn'[u].st = st
  <2>1. conn' = [conn EXCEPT ![u].st = st, ![u].to = target]
    BY <1>5 DEF Proxy
  <2> HIDE DEF target, st
  <2> QED BY <1>1, <2>1 DEF IsConn
<1> HIDE DEF target
<1> QED BY <1>6, <1>7 DEF target

\* What the table leads a connection to is on offer where the user dialed.
LEMMA FoundOnOffer ==
    ASSUME NoDigits, RInv, phase = "serving", NEW c, AcceptedBy(c),
           localAddrFor(c.fwd) # NoText
    PROVE  \E n \in DOMAIN running : /\ running[n].addr = localAddrFor(c.fwd)
                                     /\ OnOffer(running[n], c.dialed)
<1>1. CASE IsTCP(c.by)
  <2>1. PICK l \in Listen(c.by), ip \in V4 \cup V6 :
            Covers(l, ip) /\ c.fwd = AddrString(l) /\ c.dialed = HostPort(ip, l.port)
    BY <1>1 DEF AcceptedBy
  <2>2. PICK n \in DOMAIN running :
            /\ IsTCP(running[n])
            /\ localAddrFor(c.fwd) = running[n].addr
            /\ \/ running[n].remote = HostPort(l.ip, l.port) /\ l.ip \in V4 \cup {"0.0.0.0"}
               \/ running[n].remote = HostPort("0.0.0.0", l.port)
    BY <1>1, <2>1, FoundByListener DEF AcceptedBy
  <2>3. c.dialed[Len(c.dialed)] = l.port
    BY <2>1, HostPortParts
  <2>4. l.ip = "::" \/ l.ip = "0.0.0.0" \/ l.ip = ip
    BY <2>1 DEF Covers
  <2>5. "::" \notin V4
    BY RoutingAssumption DEF Wildcards
  <2> QED BY <2>1, <2>2, <2>3, <2>4, <2>5 DEF OnOffer
<1>2. CASE ~IsTCP(c.by)
  <2>1. /\ c.by.sub \in Labels
        /\ c.dialed = <<c.by.sub>>
        /\ c.fwd = <<c.by.sub>> \/ c.fwd = <<c.by.sub, ".", BaseDomain[1]>>
    BY <1>2, CompletedShape DEF AcceptedBy
  <2>2. PICK n \in DOMAIN running : /\ running[n].proto = "http"
                                    /\ running[n].sub = c.by.sub
                                    /\ localAddrFor(c.fwd) = running[n].addr
    <3> DEFINE sub == c.by.sub
               d   == BaseDomain[1]
               fwd == c.fwd
    <3>1. sub \in Labels /\ (fwd = <<sub>> \/ fwd = <<sub, ".", d>>)
      BY <2>1
    <3>2. localAddrFor(fwd) # NoText
      OBVIOUS
    <3> HIDE DEF sub, d, fwd
    <3>3. \E n \in DOMAIN running : /\ running[n].proto = "http"
                                    /\ running[n].sub = sub
                                    /\ localAddrFor(fwd) = running[n].addr
      BY <3>1, <3>2, FoundBySubdomain
    <3> QED BY <3>3 DEF sub, fwd
  <2> QED BY <2>1, <2>2 DEF OnOffer, IsTCP
<1> QED BY <1>1, <1>2

\* If no subdomain is a port number, a connection is never proxied to a tunnel
\* that the session does not offer where the user dialed (localAddrFor, proxy).
THEOREM StrangersKeptOut ==
    ASSUME NoDigits PROVE Spec => NoStranger
<1> DEFINE A == \A u \in Users : Delivered(u) /\ phase = "serving" /\ conn'[u].st = "proxied"
                    => \E n \in DOMAIN running : /\ running[n].addr = conn'[u].to
                                                 /\ OnOffer(running[n], conn[u].dialed)
<1>1. RInv /\ [Next]_vars => A
  BY DeliveredBy, FoundOnOffer
<1> QED BY <1>1, RInvInductive, PTL DEF Spec, NoStranger

\* In a served session no two tcp tunnels have one remote address, unless it is a
\* host name: the second listener could not be opened, since at some address both
\* would take the connections.
LEMMA OneName ==
    ASSUME NoNames, RInv, phase = "serving",
           NEW m \in DOMAIN running, NEW n \in DOMAIN running,
           IsTCP(running[m]), IsTCP(running[n]), running[m].remote = running[n].remote
    PROVE  m = n
<1> SUFFICES ASSUME m # n PROVE FALSE
  OBVIOUS
<1>1. running[m] \in Completed /\ running[n] \in Completed
  BY DEF RInv, RunningOK
<1>2. PICK l \in Listen(running[m]), k \in Listen(running[n]) : ~Clash(l, k)
  BY DEF RInv, ServingOK, CanAdd
<1>3. PICK h, p : /\ running[m].remote = HostPort(h, p)
                  /\ l = [ip |-> l.ip, port |-> p]
                  /\ \/ h \in V4 /\ l.ip = h
                     \/ h = "0.0.0.0" /\ l.ip \in {"::", "0.0.0.0"}
                     \/ h \in DOMAIN Resolve
  BY <1>1, Bound
<1>4. PICK g, q : /\ running[n].remote = HostPort(g, q)
                  /\ k = [ip |-> k.ip, port |-> q]
                  /\ \/ g \in V4 /\ k.ip = g
                     \/ g = "0.0.0.0" /\ k.ip \in {"::", "0.0.0.0"}
                     \/ g \in DOMAIN Resolve
  BY <1>1, Bound
<1>5. g = h /\ q = p
  <2>1. HostPort(h, p) = HostPort(g, q)
    BY <1>3, <1>4
  <2> QED BY <2>1, HostPortParts
<1>6. h \notin DOMAIN Resolve
  <2>1. SplitHostPort(HostPort(h, p)).host = h
    <3>1. h \notin V6 \cup {"::"}
      BY <1>3, RoutingAssumption DEF Wildcards, IPs
    <3>2. SplitHostPort(HostPort(h, p)) = [ok |-> TRUE, host |-> h, port |-> p]
      BY <3>1, SplitParts
    <3> QED BY <3>2
  <2> QED BY <1>1, <1>3, <2>1 DEF NoNames
<1>7. l.port = p /\ k.port = p
  BY <1>3, <1>4, <1>5
<1>8. CASE h \in V4 /\ l.ip = h
  BY <1>2, <1>4, <1>5, <1>6, <1>7, <1>8, RoutingAssumption DEF Clash, Covers, Wildcards
<1>9. CASE h = "0.0.0.0" /\ l.ip \in {"::", "0.0.0.0"}
  BY <1>2, <1>4, <1>5, <1>6, <1>7, <1>9, RoutingAssumption DEF Clash, Covers, Wildcards
<1> QED BY <1>3, <1>6, <1>8, <1>9

\* In a served session a tunnel's key is its own.
LEMMA OwnEntry ==
    ASSUME NoNames, RInv, phase = "serving", NEW n \in DOMAIN running
    PROVE  Entry(Key(running[n])) = running[n].addr /\ running[n].addr # NoText
<1>1. PICK m \in DOMAIN running :
          Key(running[m]) = Key(running[n]) /\ Entry(Key(running[n])) = running[m].addr
  BY TableEntries DEF Entry
<1>2. running[m] \in Completed /\ running[n] \in Completed /\ ~SharedSubdomain(running)
  BY DEF RInv, RunningOK
<1>3. running[n].addr # NoText
  BY <1>2, CompletedShape, HostPortParts
<1>4. CASE IsTCP(running[n])
  <2>1. IsTCP(running[m])
    BY <1>1, <1>2, <1>4, CompletedShape, HostPortParts DEF Key
  <2>2. m = n
    BY <1>1, <1>4, <2>1, OneName DEF Key
  <2> QED BY <1>1, <1>3, <2>2
<1>5. CASE ~IsTCP(running[n])
  <2>1. ~IsTCP(running[m])
    BY <1>1, <1>2, <1>5, CompletedShape, HostPortParts DEF Key
  <2>2. <<running[m].sub>> = <<running[n].sub>>
    BY <1>1, <1>5, <2>1 DEF Key
  <2>3. /\ running[m].sub = running[n].sub
        /\ running[m].proto = "http" /\ running[n].proto = "http"
    BY <1>2, <1>5, <2>1, <2>2, CompletedShape
  <2>4. m = n
    BY <1>2, <2>3 DEF SharedSubdomain
  <2> QED BY <1>1, <1>3, <2>4
<1> QED BY <1>4, <1>5

\* In a served session the name of a tunnel's listener leads to this tunnel.
LEMMA OwnListenerFound ==
    ASSUME NoDigits, NoNames, RInv, phase = "serving",
           NEW n \in DOMAIN running, IsTCP(running[n]), NEW l \in Listen(running[n])
    PROVE  localAddrFor(AddrString(l)) = running[n].addr
<1> DEFINE fwd == AddrString(l)
<1>1. running[n] \in Completed
  BY DEF RInv, RunningOK
<1>2. /\ Entry(running[n].remote) = running[n].addr
      /\ running[n].addr # NoText
  BY OwnEntry DEF Key
<1>3. PICK h, p : /\ running[n].remote = HostPort(h, p)
                  /\ l = [ip |-> l.ip, port |-> p]
                  /\ \/ h \in V4 /\ l.ip = h
                     \/ h = "0.0.0.0" /\ l.ip \in {"::", "0.0.0.0"}
                     \/ h \in DOMAIN Resolve
  BY <1>1, Bound
<1>4. h \notin DOMAIN Resolve
  <2>1. h \in DOMAIN Resolve => h \notin V6 \cup {"::"}
    BY RoutingAssumption DEF IPs, Wildcards
  <2>2. h \in DOMAIN Resolve => SplitHostPort(HostPort(h, p)) = [ok |-> TRUE, host |-> h, port |-> p]
    BY <2>1, SplitParts
  <2>3. h \in DOMAIN Resolve => SplitHostPort(HostPort(h, p)).host = h
    BY <2>2
  <2> QED BY <1>1, <1>3, <2>3 DEF NoNames
<1>5. l.port = p /\ l.ip \in IPs
  BY <1>3, <1>4 DEF IPs, Wildcards
<1>6. CASE l.ip = h
  <2>1. l.ip \notin V6 \cup {"::"}
    BY <1>3, <1>4, <1>6, RoutingAssumption DEF Wildcards
  <2>2. fwd = running[n].remote
    BY <1>3, <1>5, <2>1, <1>6, NamedBy
  <2> QED BY <1>2, <2>2 DEF localAddrFor, Or
<1>7. CASE h = "0.0.0.0" /\ l.ip = "::"
  <2>1. SplitHostPort(fwd) = [ok |-> TRUE, host |-> l.ip, port |-> l.port]
    BY <1>5, NamedBy
  <2>2. HostPort("0.0.0.0", SplitHostPort(fwd).port) = running[n].remote
    BY <1>3, <1>5, <1>7, <2>1
  <2>3. localAddrFor(fwd) # NoText
    BY <1>2, <2>2 DEF localAddrFor, Or
  <2>4. l.ip \notin V4 \cup {"0.0.0.0"}
    BY <1>7, RoutingAssumption DEF Wildcards
  <2>5. PICK m \in DOMAIN running : /\ IsTCP(running[m])
                                    /\ localAddrFor(fwd) = running[m].addr
                                    /\ running[m].remote = HostPort("0.0.0.0", l.port)
    BY <1>1, <2>3, <2>4, FoundByListener
  <2>6. m = n
    BY <1>3, <1>5, <1>7, <2>5, OneName
  <2> QED BY <2>5, <2>6
<1> QED BY <1>3, <1>4, <1>6, <1>7

\* If no subdomain is a port number, no remote_addr a host name and the base domain
\* without a port, a connection is proxied to the tunnel it came in by, as long as
\* the session it is delivered in has this tunnel (localAddrFor, proxy, addTunnels).
THEOREM DeliveredToItsTunnel ==
    ASSUME NoDigits, NoNames, BaseBare PROVE Spec => SameTunnel
<1> DEFINE A == \A u \in Users : Delivered(u) /\ phase = "serving"
                        /\ conn[u].by \in { running[n] : n \in DOMAIN running }
                    => conn'[u].to = conn[u].by.addr
<1>1. RInv /\ [Next]_vars => A
  <2> SUFFICES ASSUME RInv, [Next]_vars, NEW u \in Users, Delivered(u), phase = "serving",
                      NEW n \in DOMAIN running, conn[u].by = running[n]
               PROVE  conn'[u].to = running[n].addr
    OBVIOUS
  <2>1. AcceptedBy(conn[u]) /\ conn'[u].to = localAddrFor(conn[u].fwd)
    BY DeliveredBy
  <2>2. CASE IsTCP(running[n])
    <3>1. PICK l \in Listen(running[n]) : conn[u].fwd = AddrString(l)
      BY <2>1, <2>2 DEF AcceptedBy
    <3> QED BY <2>1, <2>2, <3>1, OwnListenerFound
  <2>3. CASE ~IsTCP(running[n])
    <3>1. conn[u].fwd = Key(running[n])
      BY <2>1, <2>3 DEF AcceptedBy, Key
    <3>2. Entry(conn[u].fwd) = running[n].addr /\ running[n].addr # NoText
      BY <3>1, OwnEntry
    <3>3. localAddrFor(conn[u].fwd) = running[n].addr
      BY <3>2 DEF localAddrFor, Or
    <3> QED BY <2>1, <3>3
  <2> QED BY <2>2, <2>3
<1> QED BY <1>1, RInvInductive, PTL DEF Spec, SameTunnel

\* If the base domain has no port, a request to a subdomain carries just the
\* subdomain to the client: httpSlugFromHost undoes httpFullHost.
THEOREM SlugKept ==
    ASSUME BaseBare PROVE Spec => []SlugRoundTrip
<1>1. RInv => SlugRoundTrip
  <2> SUFFICES ASSUME RInv, NEW u \in Users, conn[u].st = "accepted", conn[u].by.proto = "http"
               PROVE  conn[u].fwd = <<conn[u].by.sub>>
    BY DEF SlugRoundTrip
  <2>1. AcceptedBy(conn[u])
    BY DEF RInv, ConnOK, IsConn
  <2> QED BY <2>1 DEF AcceptedBy, IsTCP
<1> QED BY <1>1, RInvInductive, PTL
==============================================================================
