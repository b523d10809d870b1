-------------------------- MODULE TunnelSystemProofs --------------------------
(***************************************************************************)
(* Theorems about TunnelSystem.  The composition adds nothing to either    *)
(* side: each of its behaviours is one of the server and one of the        *)
(* client, so what is proved of each alone holds of both together.  And    *)
(* the client does not give up while the network does not fail, for any    *)
(* configuration of the backoff and any offer that can be opened.          *)
(***************************************************************************)
EXTENDS TunnelSystem, TunnelServerProofs, FiniteSetTheorems

-----------------------------------------------------------------------------
(* The two sides.                                                          *)

\* Every step of the system is a step of the server or none.
LEMMA ServerPart == ASSUME [SystemNext]_systemVars PROVE [Next]_vars
<1>a. CASE UNCHANGED vars
  BY <1>a
<1>1. CASE ConnectTCP
  BY <1>1 DEF ConnectTCP, Fresh, Next
<1>2. CASE ClientConnected \/ DialFails \/ ClientLosesLink \/ ClientNotices \/ ClientAlone
  BY <1>2, <1>a
  DEF ClientConnected, DialFails, ClientLosesLink, ClientNotices, ClientAlone, ClientOnly
<1>3. CASE (CL!handleHandshakeError \/ CL!Tick) /\ ClientOnly
  BY <1>3, <1>a DEF ClientOnly
<1>4. ASSUME NEW k \in Conns, ServerLosesLink(k) \/ ServerNotices(k) PROVE Next
  BY <1>4 DEF ServerLosesLink, ServerNotices, Next
<1>5. ASSUME NEW k \in Conns, AdmitOrRefuse(k) PROVE Next
  BY <1>5 DEF AdmitOrRefuse, Next
<1>6. ASSUME NEW k \in Conns, HandlerOf(k) PROVE Next
  BY <1>6 DEF HandlerOf, RefuseAnswered, AddUnanswered, Answered, Ends, OpenTunnel,
              Next, HandlerStep, RequestStep, Requesters
<1>7. ASSUME NEW k \in Conns, Notified(k) PROVE [Next]_vars
  BY <1>7, <1>a DEF Notified, ClientOnly
<1>8. ASSUME NEW k \in Conns, MarkDead(k) PROVE Next
  BY <1>8 DEF Next
<1>9. CASE UNCHANGED systemVars
  BY <1>9, <1>a DEF systemVars
<1> QED BY <1>1, <1>2, <1>3, <1>4, <1>5, <1>6, <1>7, <1>8, <1>9 DEF SystemNext

\* Every step of the system is a step of the client or none.
LEMMA ClientPart == ASSUME [SystemNext]_systemVars PROVE [CL!Next]_(CL!vars)
<1>a. CASE UNCHANGED clientVars
  BY <1>a DEF clientVars, CL!vars
<1>1. CASE ConnectTCP \/ ClientConnected \/ DialFails \/ ClientLosesLink \/ ClientNotices \/ ClientAlone
  BY <1>1
  DEF ConnectTCP, ClientConnected, DialFails, ClientLosesLink, ClientNotices, ClientAlone,
      CL!Next, CL!StartStep
<1>2. CASE CL!handleHandshakeError \/ CL!Tick
  BY <1>2 DEF CL!Next
<1>3. ASSUME NEW k \in Conns, Notified(k) PROVE CL!Next
  BY <1>3 DEF Notified, CL!Next
<1>4. ASSUME NEW k \in Conns, ServerLosesLink(k) \/ ServerNotices(k) \/ AdmitOrRefuse(k)
      PROVE  UNCHANGED clientVars
  BY <1>4 DEF ServerLosesLink, ServerNotices, AdmitOrRefuse, ServerOnly
<1>5. ASSUME NEW k \in Conns, HandlerOf(k) PROVE UNCHANGED clientVars
  BY <1>5 DEF HandlerOf, RefuseAnswered, AddUnanswered, Answered, Ends, ServerOnly
<1>6. ASSUME NEW k \in Conns, MarkDead(k) /\ ServerOnly PROVE UNCHANGED clientVars
  BY <1>6 DEF ServerOnly
<1>7. CASE UNCHANGED systemVars
  BY <1>7, <1>a DEF systemVars
<1> QED BY <1>a, <1>1, <1>2, <1>3, <1>4, <1>5, <1>6, <1>7 DEF SystemNext

\* The composition is a behaviour of the server: the client and the network
\* make the server do nothing that TunnelServer does not allow.
THEOREM SystemImplementsServer == SystemSpec => Spec
<1>1. SystemInit => Init
  BY DEF SystemInit
<1> QED BY <1>1, ServerPart, PTL DEF SystemSpec, Spec

\* The composition is a behaviour of the client.
THEOREM SystemImplementsClient == SystemSpec => CL!Spec
<1>1. SystemInit => CL!Init
  BY DEF SystemInit
<1> QED BY <1>1, ClientPart, PTL DEF SystemSpec, CL!Spec

-----------------------------------------------------------------------------
(* While the network does not fail.                                        *)

BeforePool == {"accepted", "admitted"}
AtWork     == {"handshake", "adding"}
Registered == {"info", "served"}

\* The client has dialed at most once, and has seen no error.
CalmClient ==
    /\ main \in {"loop", "dialing", "handshaking", "serving"}
    /\ main # "serving" => conn = "nil"
    /\ main = "serving" => link = "up"
    /\ handler = "none" /\ serverErr = "none"

\* No other connection than the one the client is on was ever accepted.
CalmOthers ==
    /\ cur \in Conns \cup {NoConn}
    /\ main \in {"loop", "dialing"} <=> cur = NoConn
    /\ \A k \in Conns : k # cur => pc[k] = "new" /\ req[k] = "idle"

\* The handler of that connection is on its way to serving it.
CalmHandler ==
    cur \in Conns =>
        /\ sock[cur] = "open"
        /\ pc[cur] \in BeforePool \cup AtWork \cup Registered
        /\ main = "handshaking" => pc[cur] = "accepted"
        /\ pc[cur] \in BeforePool => conns[Owner[cur]] = NoConn
        /\ req[cur] = "idle" \/ (req[cur] = "sent" /\ via[cur] = cur)

\* Nothing is registered before that handler registers it.
CalmRegistry ==
    /\ \A c \in Clients : items[c].kind = "item" => cur \in Conns /\ pc[cur] \in Registered
    /\ cur \in Conns /\ pc[cur] \in AtWork \cup {"admitted"} => items[Owner[cur]] = Void

\* What addTunnels has still to add can be opened.
CalmBatch ==
    cur \in Conns /\ pc[cur] = "adding" =>
        /\ \A t \in batch[cur].todo : CanOpen(t)
        /\ \A t, s \in batch[cur].todo :
              t.proto = "tcp" /\ s.proto = "tcp" /\ t.addr = s.addr => t = s

Calm == CalmClient /\ CalmOthers /\ CalmHandler /\ CalmRegistry /\ CalmBatch

CalmUntilLoss == losses \in Nat /\ (losses = 0 => Calm)

\* The server's own invariant, and that it has not accepted a connection twice.
ServerInv == IInv /\ Unaccepted

\* Only the handler of the client's connection is at work.
LEMMA CalmAlone ==
    ASSUME ServerInv, Calm, NEW k \in Conns, pc[k] # "new"
    PROVE  k = cur /\ cur # NoConn /\ main \in {"handshaking", "serving"}
BY PoolAssumption DEF Calm, CalmOthers, CalmClient

\* Before the tunnels are opened every address is free, and before they are
\* registered every host name is.
LEMMA CalmFree ==
    ASSUME ServerInv, Calm
    PROVE  /\ cur \notin Conns \/ pc[cur] \notin Registered =>
                 \A h \in HostNames : hosts[h] = NoClient
           /\ cur \notin Conns \/ pc[cur] \notin Registered \cup {"adding"} =>
                 \A a \in Addrs : bound[a] = NoConn
<1>1. ASSUME cur \notin Conns \/ pc[cur] \notin Registered, NEW h \in HostNames
      PROVE  hosts[h] = NoClient
  <2>1. ASSUME NEW c \in Clients PROVE items[c].hosts = {}
    <3>1. items[c] \in Items
      BY DEF ServerInv, IInv, TypeOK, RegistryTypeOK
    <3>2. items[c].kind # "item"
      BY <1>1 DEF Calm, CalmRegistry
    <3> QED BY <3>1, <3>2 DEF Items, Absent, Void
  <2> QED BY <2>1 DEF ServerInv, IInv, TypeOK, RegistryTypeOK, RegistryConsistent, Keys
<1>2. ASSUME cur \notin Conns \/ pc[cur] \notin Registered \cup {"adding"}, NEW a \in Addrs,
             bound[a] # NoConn
      PROVE  FALSE
  <2> DEFINE k == bound[a]
  <2>1. k \in Conns /\ Owner[k] \in Clients
    BY <1>2, PoolAssumption DEF ServerInv, IInv, TypeOK
  <2>2. pc[k] \in Registered \cup {"adding"}
    BY <2>1 DEF ServerInv, IInv, ListenersAccounted, BatchInv, PlaceInv, Registered
  <2> QED BY <1>2, <2>1, <2>2, CalmAlone DEF Registered
<1> QED BY <1>1, <1>2

\* The connection the client is on has no stream while its handler sends nothing.
LEMMA CalmStreams ==
    ASSUME ServerInv, Calm, CanServe, cur \in Conns, req[cur] = "idle"
    PROVE  CanTakeNewRequest(cur)
<1>1. { r \in Requesters : req[r] = "sent" /\ via[r] = cur } = {}
  BY SystemAssumption DEF Requesters, Calm, CalmOthers
<1>2. Streams(cur) = 0
  BY <1>1, FS_EmptySet DEF Streams
<1> QED BY <1>2, ServerAssumption DEF CanTakeNewRequest, CanServe, Calm, CalmHandler

\* A step that changes neither the server nor where the client is.
LEMMA CalmStutter ==
    ASSUME Calm, UNCHANGED <<vars, main, conn, link, handler, serverErr, cur>>
    PROVE  Calm'
BY DEF Calm, CalmClient, CalmOthers, CalmHandler, CalmRegistry, CalmBatch, CanOpen, vars

\* The steps of the client and of its network that lose nothing.
LEMMA CalmClientStep ==
    ASSUME ServerInv, Calm, losses \in Nat,
           \/ ConnectTCP \/ ClientConnected \/ ClientNotices \/ ClientAlone
           \/ DialFails /\ UNCHANGED losses
           \/ CL!handleHandshakeError
           \/ CL!Tick /\ ClientOnly
    PROVE  Calm'
<1>a. CalmClient /\ CalmOthers /\ CalmHandler
  BY DEF Calm
<1>1. CASE ConnectTCP
  <2> PICK k \in Conns : pc[k] = "new" /\ cur' = k /\ Accept(k)
    BY <1>1 DEF ConnectTCP, Fresh
  <2>1. cur = NoConn /\ cur \notin Conns
    BY <1>1, <1>a, PoolAssumption DEF ConnectTCP, CL!Dialed, CalmOthers
  <2>2. req[k] = "idle" /\ conns[Owner[k]] # k
    BY <1>a, <2>1, PoolAssumption
    DEF CalmOthers, ServerInv, IInv, PoolInv, InConnPool
  <2>3. CalmClient'
    BY <1>1, <1>a DEF ConnectTCP, CL!Dialed, CalmClient
  <2>4. \A c \in Clients : conns[c] = NoConn
    BY <2>1, CalmAlone DEF ServerInv, IInv, TypeOK, PoolInv, InConnPool
  <2>5. CalmOthers'
    <3>1. main' = "handshaking" /\ cur' \in Conns /\ cur' # NoConn
      BY <1>1, PoolAssumption DEF ConnectTCP, CL!Dialed
    <3>2. \A j \in Conns : j # k => pc'[j] = "new" /\ req'[j] = "idle"
      BY <1>a, <2>1 DEF CalmOthers, Accept, ServerInv, IInv, TypeOK
    <3> QED BY <3>1, <3>2 DEF CalmOthers
  <2>7. CalmHandler'
    BY <1>a, <2>1, <2>2, <2>4, PoolAssumption
    DEF CalmHandler, Accept, ServerInv, IInv, TypeOK, BeforePool
  <2>6. CalmRegistry' /\ CalmBatch'
    BY <2>1 DEF Calm, CalmRegistry, CalmBatch, Accept, ServerInv, IInv, TypeOK,
                AtWork, Registered
  <2> QED BY <2>3, <2>5, <2>6, <2>7 DEF Calm
<1>2. CASE ClientConnected
  BY <1>2 DEF ClientConnected, ClientOnly, CL!DialSucceeds, vars, Calm, CalmClient, CalmOthers,
              CalmHandler, CalmRegistry, CalmBatch, CanOpen
<1>3. CASE ClientNotices
  BY <1>3, <1>a DEF ClientNotices, CalmOthers, CalmHandler
<1>4. CASE ClientAlone
  <2>1. CL!connect
    BY <1>4, <1>a DEF ClientAlone, CalmClient, CL!Wake, CL!ServeConnReturns, CL!CheckContext,
                      CL!AfterDisconnect
  <2> QED BY <1>4, <2>1 DEF ClientAlone, ClientOnly, CL!connect, vars, Calm, CalmClient,
                            CalmOthers, CalmHandler, CalmRegistry, CalmBatch, CanOpen
<1>5. CASE DialFails /\ UNCHANGED losses
  <2>1. (main = "handshaking" /\ sock[cur] # "open") \/ losses' = losses + 1
    BY <1>5 DEF DialFails, Lose
  <2> QED BY <1>5, <1>a, <2>1 DEF CalmOthers, CalmHandler
<1>6. CASE CL!handleHandshakeError
  BY <1>6, <1>a DEF CL!handleHandshakeError, CalmClient
<1>7. CASE CL!Tick /\ ClientOnly
  BY <1>7, CalmStutter DEF CL!Tick, ClientOnly
<1> QED BY <1>1, <1>2, <1>3, <1>4, <1>5, <1>6, <1>7

\* A step of the handler that moves it alone, without a request under way.
\* The parts of Calm about the client and the other handlers are not disturbed.
LEMMA CalmMove ==
    ASSUME ServerInv, Calm, cur \in Conns, ServerOnly,
           \A k \in Conns : k # cur => pc'[k] = pc[k] /\ req'[k] = req[k]
    PROVE  CalmClient' /\ CalmOthers'
BY DEF ServerOnly, clientVars, Calm, CalmClient, CalmOthers

\* The steps of the handler up to the pool.
LEMMA CalmAdmitStep ==
    ASSUME ServerInv, Calm, NEW k \in Conns,
           AdmitOrRefuse(k) \/ RefuseAnswered(k) \/ AddUnanswered(k)
    PROVE  Calm'
<1>a. CalmHandler /\ CalmRegistry /\ ServerOnly
  BY DEF Calm, AdmitOrRefuse, RefuseAnswered, AddUnanswered
<1>b. pc[k] \in {"accepted", "admitted"}
  BY DEF AdmitOrRefuse, Admit, Refuse, RefuseAnswered, RefuseAdmitted, AddUnanswered, AddConn
<1>c. k = cur /\ Owner[k] \in Clients /\ main \in {"handshaking", "serving"}
  BY <1>b, CalmAlone, PoolAssumption
<1>d. conns[Owner[k]] = NoConn /\ sock[k] = "open"
  BY <1>a, <1>b, <1>c DEF CalmHandler, BeforePool
<1>1. CASE AdmitOrRefuse(k)
  <2>1. Admit(k)
    BY <1>1, <1>c DEF AdmitOrRefuse, ClientOn, Calm, CalmClient
  <2>2. /\ UNCHANGED <<conns, sock, req, via, batch, bound>>
        /\ pc[k] = "accepted"
        /\ \A j \in Conns : pc'[j] = IF j = k THEN "admitted" ELSE pc[j]
    BY <2>1 DEF Admit, ServerInv, IInv, TypeOK
  <2>3. \A c \in Clients : items'[c] = IF c = Owner[k] /\ items[c] = Absent THEN Void ELSE items[c]
    BY <1>c, <2>1, SubscribeItems, SystemAssumption DEF Admit, ServerInv
  <2>4. items[Owner[k]] \in {Absent, Void}
    <3>1. items[Owner[k]] \in Items /\ items[Owner[k]].kind # "item"
      BY <1>a, <1>c, <2>2 DEF ServerInv, IInv, TypeOK, RegistryTypeOK, CalmRegistry, Registered
    <3> QED BY <3>1 DEF Items
  <2>5. main' = "serving"
    BY <1>1, <1>c DEF AdmitOrRefuse, ClientOn, ServerOnly, clientVars, Calm, CalmClient
  <2>6. CalmHandler'
    BY <1>a, <1>c, <1>d, <2>2, <2>5 DEF CalmHandler, BeforePool, ServerOnly
  <2>7. CalmRegistry'
    <3>1. \A c \in Clients : items'[c].kind # "item"
      BY <1>a, <1>c, <2>2, <2>3 DEF CalmRegistry, Registered, Void
    <3>2. items'[Owner[k]] = Void
      BY <1>c, <2>3, <2>4
    <3> QED BY <1>a, <1>c, <3>1, <3>2 DEF CalmRegistry, ServerOnly
  <2>8. CalmBatch'
    BY <1>a, <1>c, <2>2 DEF CalmBatch, ServerOnly
  <2> QED BY <1>a, <1>c, <2>2, <2>6, <2>7, <2>8, CalmMove DEF Calm
<1>2. CASE RefuseAnswered(k)
  BY <1>2, <1>d DEF RefuseAnswered, PingAnswered
<1>3. CASE AddUnanswered(k)
  <2> PICK ok \in BOOLEAN :
        /\ ok \/ sock[k] = "down"
        /\ ReplaceConn(k, ok)
        /\ pc' = [pc EXCEPT ![k] = IF ok THEN "handshake" ELSE "rejected"]
    BY <1>3 DEF AddUnanswered, AddConn
  <2>1. ok
    BY <1>d
  <2>2. /\ UNCHANGED <<items, req, via>>
        /\ pc[k] = "admitted"
        /\ \A j \in Conns : pc'[j] = IF j = k THEN "handshake" ELSE pc[j]
    BY <1>3, <1>d, <2>1 DEF AddUnanswered, AddConn, ServerInv, IInv, TypeOK
  <2>3. sock'[k] = "open"
    BY <1>d, <2>1, PoolAssumption DEF ReplaceConn
  <2>4. CalmHandler'
    BY <1>a, <1>c, <2>2, <2>3 DEF CalmHandler, BeforePool, AtWork, ServerOnly, clientVars
  <2>5. CalmRegistry' /\ CalmBatch'
    BY <1>a, <1>c, <2>2 DEF CalmRegistry, CalmBatch, ServerOnly, AtWork, Registered
  <2> QED BY <1>a, <1>c, <2>2, <2>4, <2>5, CalmMove DEF Calm
<1> QED BY <1>1, <1>2, <1>3

\* The requests of the handler: each gets the connection, and an answer.
LEMMA CalmRequestStep ==
    ASSUME ServerInv, Calm, CanServe, NEW k \in Conns,
           \/ Answered(k) \/ Ends(k)
           \/ (GetClientConn(k) \/ Evict(k) \/ Retry(k)) /\ ServerOnly
    PROVE  Calm'
<1>a. CalmHandler /\ CalmRegistry /\ ServerOnly
  BY DEF Calm, Answered, Ends
<1>b. Active(k)
  BY DEF Answered, HandshakeAnswered, Ends, RequestEnds, GetClientConn, Evict, Retry,
         ServerInv, IInv, RequestInv, Requesters
<1>c. pc[k] \in Requesting
  BY <1>b DEF Active
<1>d. k = cur /\ Owner[k] \in Clients /\ main = "serving" /\ link = "up"
  <2>1. k = cur /\ Owner[k] \in Clients /\ main \in {"handshaking", "serving"}
    BY <1>c, CalmAlone, PoolAssumption DEF Requesting
  <2> QED BY <1>a, <1>c, <2>1 DEF CalmHandler, Calm, CalmClient, Requesting
<1>e. /\ pc[k] \in {"handshake", "info"}
      /\ sock[k] = "open"
      /\ conns[Owner[k]] = k
      /\ req[k] # "idle" => req[k] = "sent" /\ via[k] = k
  BY <1>a, <1>c, <1>d
  DEF CalmHandler, Requesting, BeforePool, AtWork, Registered, ServerInv, IInv, PoolInv, Pooled,
      InConnPool
<1>1. CASE Answered(k)
  <2> PICK T \in Offers : /\ pc' = [pc EXCEPT ![k] = IF T = {} THEN "notify" ELSE "adding"]
                          /\ batch' = [batch EXCEPT ![k].todo = T]
    BY <1>1 DEF Answered, HandshakeAnswered
  <2>1. T # {} /\ Openable(T) /\ T \subseteq Tunnels
    BY DEF CanServe, Openable, Tunnels
  <2>2. /\ UNCHANGED <<conns, sock, items, hosts, bound>>
        /\ pc[k] = "handshake"
        /\ req' = [req EXCEPT ![k] = "idle"]
    BY <1>1 DEF Answered, HandshakeAnswered
  <2>3. /\ \A j \in Conns : pc'[j] = IF j = k THEN "adding" ELSE pc[j]
        /\ \A j \in Conns : req'[j] = IF j = k THEN "idle" ELSE req[j]
        /\ batch'[k].todo = T
    BY <2>1, <2>2 DEF ServerInv, IInv, TypeOK, Requesters
  <2>4. CalmHandler'
    BY <1>a, <1>d, <1>e, <2>2, <2>3
    DEF CalmHandler, BeforePool, AtWork, ServerOnly, clientVars
  <2>5. CalmRegistry'
    BY <1>a, <1>d, <2>2, <2>3 DEF CalmRegistry, ServerOnly, AtWork, Registered
  <2>6. \A a \in Addrs : bound'[a] = NoConn
    BY <1>d, <2>2, CalmFree DEF Registered
  <2>7. CalmBatch'
    BY <1>a, <1>d, <2>1, <2>3, <2>6, ServerAssumption
    DEF CalmBatch, CanOpen, Openable, Usable, ServerOnly
  <2> QED BY <1>a, <1>d, <2>3, <2>4, <2>5, <2>7, CalmMove DEF Calm
<1>2. CASE Ends(k)
  <2>1. pc[k] = "info" /\ EndRequest(k)
    BY <1>2, <1>d, <1>e DEF Ends, RequestEnds, ClientServes
  <2>2. /\ UNCHANGED <<conns, sock, items, batch, bound>>
        /\ \A j \in Conns : pc'[j] = IF j = k THEN "served" ELSE pc[j]
        /\ \A j \in Conns : req'[j] = IF j = k THEN "idle" ELSE req[j]
    BY <1>2, <2>1
    DEF Ends, RequestEnds, EndRequest, AfterRequest, ServerInv, IInv, TypeOK, Requesters
  <2>3. CalmHandler'
    BY <1>a, <1>d, <1>e, <2>2
    DEF CalmHandler, BeforePool, Registered, ServerOnly, clientVars
  <2>4. CalmRegistry' /\ CalmBatch'
    BY <1>a, <1>d, <2>1, <2>2 DEF CalmRegistry, CalmBatch, ServerOnly, AtWork, Registered
  <2> QED BY <1>a, <1>d, <2>2, <2>3, <2>4, CalmMove DEF Calm
<1>3. CASE GetClientConn(k)
  <2>1. CanTakeNewRequest(k)
    BY <1>3, <1>d, CalmStreams DEF GetClientConn
  <2>2. /\ UNCHANGED <<conns, sock, items, batch, bound, pc>>
        /\ req' = [req EXCEPT ![k] = "sent"]
        /\ via' = [via EXCEPT ![k] = k]
    BY <1>3, <1>e, <2>1, PoolAssumption DEF GetClientConn, ClientOf
  <2>3. /\ \A j \in Conns : req'[j] = IF j = k THEN "sent" ELSE req[j]
        /\ via'[k] = k
    BY <2>2 DEF ServerInv, IInv, TypeOK, Requesters
  <2>4. CalmHandler'
    BY <1>a, <1>d, <2>2, <2>3 DEF CalmHandler, ServerOnly, clientVars
  <2>5. CalmRegistry' /\ CalmBatch'
    BY <1>a, <2>2 DEF Calm, CalmRegistry, CalmBatch, CanOpen, ServerOnly
  <2> QED BY <1>a, <1>d, <2>2, <2>3, <2>4, <2>5, CalmMove DEF Calm
<1>4. CASE Evict(k)
  BY <1>4, <1>e DEF Evict
<1>5. CASE Retry(k)
  BY <1>5, <1>e DEF Retry
<1> QED BY <1>1, <1>2, <1>3, <1>4, <1>5

\* addTunnels: every tunnel is opened, and the registry takes the batch.
LEMMA CalmTunnelStep ==
    ASSUME ServerInv, Calm, NEW k \in Conns, ServerOnly,
           OpenTunnel(k) \/ Register(k) \/ RegisterFails(k)
    PROVE  Calm'
<1>a. CalmHandler /\ CalmRegistry /\ CalmBatch /\ pc[k] = "adding"
  BY DEF Calm, OpenTunnel, AddTunnel, Register, RegisterFails
<1>b. k = cur /\ Owner[k] \in Clients
  BY <1>a, CalmAlone, PoolAssumption
<1>c. /\ items[Owner[k]] = Void
      /\ \A t \in batch[k].todo : CanOpen(t)
      /\ \A t, s \in batch[k].todo :
            t.proto = "tcp" /\ s.proto = "tcp" /\ t.addr = s.addr => t = s
      /\ batch[k] \in Batches
  BY <1>a, <1>b DEF CalmRegistry, CalmBatch, AtWork, ServerInv, IInv, TypeOK
<1>1. CASE OpenTunnel(k)
  <2>1. /\ pc'[k] = "adding"
        /\ UNCHANGED <<conns, sock, items, req, via>>
    BY <1>1, <1>c DEF OpenTunnel, AddTunnel
  <2> PICK t \in batch[k].todo : Listen(k, t) \/ AddHost(k, t) \/ Rollback(k)
    BY <1>1 DEF OpenTunnel, AddTunnel
  <2>2. ~Rollback(k)
    BY <2>1 DEF Rollback, ServerInv, IInv, TypeOK
  <2>3. UNCHANGED pc
    BY <2>2 DEF Listen, AddHost
  <2>4. batch'[k].todo = batch[k].todo \ {t}
    BY <1>c, <2>2 DEF Listen, AddHost, ServerInv, IInv, TypeOK, Batches
  <2>5. ASSUME NEW s \in batch[k].todo, s # t, s.proto = "tcp" PROVE bound'[s.addr] = NoConn
    <3>1. s.addr \in Addrs /\ bound[s.addr] = NoConn
      BY <1>c, <2>5, ServerAssumption DEF CanOpen, Batches
    <3>2. t.proto = "tcp" => t.addr # s.addr
      BY <1>c, <2>5
    <3> QED BY <2>2, <3>1, <3>2 DEF Listen, AddHost, ServerInv, IInv, TypeOK
  <2>6. CalmBatch'
    BY <1>b, <1>c, <2>4, <2>5 DEF CalmBatch, CanOpen, Usable, ServerOnly
  <2>7. CalmHandler' /\ CalmRegistry'
    BY <1>a, <2>1, <2>3 DEF CalmHandler, CalmRegistry, ServerOnly, clientVars
  <2> QED BY <1>b, <2>1, <2>3, <2>6, <2>7, CalmMove DEF Calm
<1>2. CASE Register(k)
  <2>1. /\ UNCHANGED <<conns, sock, req, via>>
        /\ pc' \in { [pc EXCEPT ![k] = s] : s \in Registered }
    BY <1>2 DEF Register, Registered
  <2>2. /\ pc'[k] \in Registered
        /\ \A j \in Conns : j # k => pc'[j] = pc[j]
    BY <2>1 DEF ServerInv, IInv, TypeOK
  <2>3. CalmHandler'
    BY <1>a, <1>b, <2>1, <2>2
    DEF CalmHandler, BeforePool, AtWork, Registered, ServerOnly, clientVars
  <2>4. CalmRegistry' /\ CalmBatch'
    BY <1>b, <2>2 DEF CalmRegistry, CalmBatch, AtWork, Registered, ServerOnly
  <2> QED BY <1>b, <2>1, <2>2, <2>3, <2>4, CalmMove DEF Calm
<1>3. CASE RegisterFails(k)
  <2>1. \A h \in HostNames : hosts[h] = NoClient
    BY <1>a, <1>b, CalmFree DEF Registered
  <2>2. \A hp \in batch[k].hosts : trimPort(hp) \in HostNames
    BY <1>c, KeysAreNames DEF Batches, HostPorts, trimPort
  <2> QED BY <1>3, <1>c, <2>1, <2>2 DEF RegisterFails, CanSet
<1> QED BY <1>1, <1>2, <1>3

\* The other steps of the server: none of them is due.
LEMMA CalmNoFault ==
    ASSUME ServerInv, Calm, NEW k \in Conns,
           ServerNotices(k) \/ Notified(k) \/ MarkDead(k) \/ RejectPooled(k)
    PROVE  FALSE
<1>a. pc[k] # "new"
  BY DEF ServerNotices, LinkDown, Notified, MarkDead, RejectPooled, ServerInv, Unaccepted
<1>b. k = cur /\ cur # NoConn /\ main \in {"handshaking", "serving"}
  BY <1>a, CalmAlone
<1>c. ClientOn(k) /\ sock[k] = "open" /\ pc[k] \notin {"notify", "delete"}
  BY <1>b DEF ClientOn, Calm, CalmClient, CalmHandler, BeforePool, AtWork, Registered
<1> QED BY <1>c DEF ServerNotices, Notified, MarkDead, RejectPooled

\* Until the network fails, every step keeps Calm.
LEMMA CalmStep ==
    ASSUME ServerInv, CalmUntilLoss, CanServe, [SystemNext]_systemVars
    PROVE  CalmUntilLoss'
<1>1. losses' \in Nat /\ (losses' = losses \/ losses' = losses + 1)
  <2> SUFFICES losses' = losses \/ Lose
    BY DEF CalmUntilLoss, Lose
  <2>1. ASSUME NEW k \in Conns, HandlerOf(k) PROVE UNCHANGED losses
    BY <2>1 DEF HandlerOf, RefuseAnswered, AddUnanswered, Answered, Ends, ServerOnly
  <2> QED BY <2>1
          DEF SystemNext, systemVars, ConnectTCP, ClientConnected, DialFails, ClientLosesLink,
              ClientNotices, ClientAlone, ServerLosesLink, ServerNotices, AdmitOrRefuse,
              Notified, ClientOnly, ServerOnly
<1> SUFFICES ASSUME losses' = 0 PROVE Calm'
  BY <1>1 DEF CalmUntilLoss
<1>2. Calm /\ losses = 0 /\ ~Lose
  BY <1>1 DEF CalmUntilLoss, Lose
<1>3. ASSUME NEW k \in Conns, HandlerOf(k) PROVE Calm'
  BY <1>2, <1>3, CalmAdmitStep, CalmRequestStep, CalmTunnelStep, CalmNoFault DEF HandlerOf
<1>4. ASSUME NEW k \in Conns, ServerLosesLink(k) \/ ServerNotices(k) \/ Notified(k) \/ MarkDead(k)
      PROVE  Calm'
  BY <1>2, <1>4, CalmNoFault DEF ServerLosesLink
<1>5. ASSUME NEW k \in Conns, AdmitOrRefuse(k) PROVE Calm'
  BY <1>2, <1>5, CalmAdmitStep
<1>6. CASE \/ ConnectTCP \/ ClientConnected \/ DialFails \/ ClientNotices \/ ClientAlone
           \/ CL!handleHandshakeError
           \/ CL!Tick /\ ClientOnly
  BY <1>1, <1>2, <1>6, CalmClientStep DEF DialFails
<1>7. CASE ClientLosesLink
  BY <1>2, <1>7 DEF ClientLosesLink
<1>8. CASE UNCHANGED systemVars
  BY <1>2, <1>8, CalmStutter DEF systemVars, clientVars
<1> QED BY <1>3, <1>4, <1>5, <1>6, <1>7, <1>8 DEF SystemNext

\* While the network does not fail the client does not give up, if the server
\* can open what the clients ask for.
THEOREM SystemNoLossNoEnd ==
    ASSUME CanServe
    PROVE  SystemSpec => []NoLossNoEnd
<1>1. SystemInit => Unaccepted /\ CalmUntilLoss
  BY PoolAssumption
  DEF SystemInit, Init, CL!Init, PInit, RInit, Unaccepted, CalmUntilLoss, Calm, CalmClient,
      CalmOthers, CalmHandler, CalmRegistry, CalmBatch, Absent, Requesters
<1>2. IInv /\ Unaccepted /\ CalmUntilLoss /\ [SystemNext]_systemVars
        => Unaccepted' /\ CalmUntilLoss'
  BY ServerPart, UnacceptedStep, CalmStep DEF ServerInv
<1>3. CalmUntilLoss => NoLossNoEnd
  BY DEF CalmUntilLoss, Calm, CalmClient, NoLossNoEnd
<1> QED BY <1>1, <1>2, <1>3, SystemImplementsServer, ServerInvariant, PTL DEF SystemSpec

==============================================================================
