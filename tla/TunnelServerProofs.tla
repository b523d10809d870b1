-------------------------- MODULE TunnelServerProofs --------------------------
(***************************************************************************)
(* Theorems about TunnelServer, and about the Registry within it, for any  *)
(* number of clients, connections, users, host names and addresses. None   *)
(* of the server's properties is inductive alone. The inductive invariant  *)
(* IInv adds what the code relies on without saying it: a handler sends    *)
(* requests only in its requesting states; a pooled connection is filed    *)
(* under its own client and not closed; a listener is in exactly one of    *)
(* the batch of the handler that opened it, the item of the handler's      *)
(* client, and the items Unsubscribe has returned.                         *)
(***************************************************************************)
EXTENDS TunnelServer, TLAPS

-----------------------------------------------------------------------------
(* The registry, for any sequence of calls. RegistryConsistent is          *)
(* inductive together with the type invariant; the refinement of           *)
(* HostDirectory needs it, because `clear` and `Unsubscribe` delete the    *)
(* names their item lists, while Release gives back the names the client   *)
(* owns. The lemmas about single methods are stated for the methods and    *)
(* not for RNext, so that the server's proofs can cite them.               *)

RegistryInv == RegistryTypeOK /\ RegistryConsistent

\* The names of a set of host:port pairs are host names.
LEMMA KeysAreNames == ASSUME NEW H \in SUBSET HostPorts PROVE Keys(H) \subseteq HostNames
BY DEF Keys, trimPort, HostPorts

\* Every entry of items is a record with a set of hosts and a set of listeners.
LEMMA ItemFields ==
    ASSUME RegistryTypeOK, NEW c \in Clients
    PROVE  items[c].hosts \in SUBSET HostPorts /\ items[c].listeners \in SUBSET Listeners
BY DEF RegistryTypeOK, Items, Absent, Void

\* Subscribe preserves the invariant and changes no route.
LEMMA SubscribeInv ==
    ASSUME RegistryInv, NEW c \in Clients, Subscribe(c)
    PROVE  RegistryInv' /\ UNCHANGED hosts
BY DEF RegistryInv, RegistryTypeOK, RegistryConsistent, Subscribe, Items, Absent, Void, Keys

\* `set` preserves the invariant and is a Claim of the host directory.
LEMMA SetInv ==
    ASSUME RegistryInv, NEW c \in Clients,
           NEW H \in SUBSET HostPorts, NEW L \in SUBSET Listeners, set(c, H, L)
    PROVE  RegistryInv' /\ Directory!Claim(c, Keys(H))
<1>1. RegistryTypeOK'
  BY ClientAssumption, KeysAreNames DEF RegistryInv, RegistryTypeOK, set, NewItem, Items
<1>2. RegistryConsistent'
  BY ClientAssumption, KeysAreNames
  DEF RegistryInv, RegistryTypeOK, RegistryConsistent, set, CanSet, NewItem, Keys, trimPort,
      Void, Items
<1>3. Directory!Claim(c, Keys(H))
  BY ClientAssumption
  DEF RegistryInv, RegistryTypeOK, RegistryConsistent, set, CanSet, Keys, trimPort, Void,
      Directory!Claim, Directory!HeldBy
<1> QED BY <1>1, <1>2, <1>3 DEF RegistryInv

\* Deleting the hosts of a client's item gives back what the client owns.
LEMMA DeleteHostsReleases ==
    ASSUME RegistryInv, NEW c \in Clients, DeleteHosts(items[c].hosts)
    PROVE  Directory!Release(c)
BY DEF RegistryInv, RegistryConsistent, DeleteHosts, Directory!Release

\* Emptying the entry of a client along with its hosts preserves the invariant.
LEMMA EmptyInv ==
    ASSUME RegistryInv, NEW c \in Clients, NEW i \in {Absent, Void},
           items' = [items EXCEPT ![c] = i], DeleteHosts(items[c].hosts)
    PROVE  RegistryInv'
<1>1. RegistryTypeOK'
  BY DEF RegistryInv, RegistryTypeOK, DeleteHosts, Items
<1>2. RegistryConsistent'
  BY ClientAssumption
  DEF RegistryInv, RegistryTypeOK, RegistryConsistent, DeleteHosts, Keys, Absent, Void
<1> QED BY <1>1, <1>2 DEF RegistryInv

\* `clear` preserves the invariant and is a Release or changes no route.
LEMMA ClearInv ==
    ASSUME RegistryInv, NEW c \in Clients, clear(c)
    PROVE  RegistryInv' /\ (Directory!Release(c) \/ UNCHANGED hosts)
<1>1. CASE items[c] \in {Absent, Void}
  BY <1>1 DEF clear, registryVars, RegistryInv, RegistryTypeOK, RegistryConsistent
<1>2. CASE items[c] \notin {Absent, Void}
  BY <1>2, EmptyInv, DeleteHostsReleases DEF clear
<1> QED BY <1>1, <1>2

\* Unsubscribe preserves the invariant and is a Release.
LEMMA UnsubscribeInv ==
    ASSUME RegistryInv, NEW c \in Clients, RegistryUnsubscribe(c)
    PROVE  RegistryInv' /\ Directory!Release(c)
BY EmptyInv, DeleteHostsReleases DEF RegistryUnsubscribe

\* The registry starts in the invariant and in the directory's initial state.
LEMMA RegistryInit == ASSUME RInit PROVE RegistryInv /\ Directory!DInit
BY ClientAssumption
DEF RInit, RegistryInv, RegistryTypeOK, RegistryConsistent, Items, Absent, Keys, Directory!DInit

\* Every step of the registry keeps the invariant and is a step of the directory.
LEMMA RegistryStep ==
    ASSUME RegistryInv, [RNext]_registryVars
    PROVE  RegistryInv' /\ [Directory!DNext]_hosts
<1>1. CASE UNCHANGED registryVars
  BY <1>1 DEF registryVars, RegistryInv, RegistryTypeOK, RegistryConsistent
<1>2. ASSUME NEW c \in Clients, Subscribe(c)
      PROVE  RegistryInv' /\ [Directory!DNext]_hosts
  BY <1>2, SubscribeInv
<1>3. ASSUME NEW c \in Clients, RegistryUnsubscribe(c)
      PROVE  RegistryInv' /\ [Directory!DNext]_hosts
  BY <1>3, UnsubscribeInv DEF Directory!DNext
<1>4. ASSUME NEW c \in Clients, clear(c)
      PROVE  RegistryInv' /\ [Directory!DNext]_hosts
  BY <1>4, ClearInv DEF Directory!DNext
<1>5. ASSUME NEW c \in Clients, NEW H \in SUBSET HostPorts, NEW L \in SUBSET Listeners,
             set(c, H, L)
      PROVE  RegistryInv' /\ [Directory!DNext]_hosts
  BY <1>5, SetInv, KeysAreNames DEF Directory!DNext
<1> QED BY <1>1, <1>2, <1>3, <1>4, <1>5 DEF RNext

\* items and hosts keep their types, whatever methods are called.
THEOREM RegistryTypeCorrect == RSpec => []RegistryTypeOK
<1>1. RSpec => []RegistryInv
  BY RegistryInit, RegistryStep, PTL DEF RSpec
<1> QED BY <1>1, PTL DEF RegistryInv

\* Host entries and registered items agree in every reachable state.
THEOREM RegistryStaysConsistent == RSpec => []RegistryConsistent
<1>1. RSpec => []RegistryInv
  BY RegistryInit, RegistryStep, PTL DEF RSpec
<1> QED BY <1>1, PTL DEF RegistryInv

\* The registry implements the abstract directory of host names.
THEOREM RegistryImplementsDirectory == RSpec => ImplementsDirectory
<1>1. RSpec => []RegistryInv
  BY RegistryInit, RegistryStep, PTL DEF RSpec
<1> QED BY <1>1, RegistryInit, RegistryStep, PTL DEF RSpec, ImplementsDirectory, Directory!DSpec

-----------------------------------------------------------------------------
(* The inductive invariant of the server.                                  *)

\* States of a handler that AddConn has entered into the pool.
InConnPool == {"handshake", "adding", "info", "notify", "delete", "served"}

\* A request under way has a handler or a user that waits for it, and a
\* connection.
RequestInv ==
    \A r \in Requesters : req[r] # "idle" => Active(r) /\ via[r] \in Conns

\* States of a handler that alone owns its socket.
Unpooled == {"accepted", "admitted"}

\* What the pool holds is open and its own client's; what it has dropped is closed.
PoolInv ==
    /\ \A c \in Clients : conns[c] # NoConn =>
          /\ Owner[conns[c]] = c
          /\ sock[conns[c]] \in {"open", "down"}
          /\ pc[conns[c]] \in InConnPool
    /\ \A k \in Conns : pc[k] \in InConnPool => sock[k] = "closed" \/ Pooled(k)
    /\ \A k \in Conns : pc[k] = "rejected" => sock[k] = "closed"
    /\ \A k \in Conns : pc[k] \in Unpooled => sock[k] \in {"open", "down"}

\* Where a listener may be depends on how far the handler that opened it is.
BatchInv ==
    \A k \in Conns : /\ batch[k].listeners \subseteq {k} \X Addrs
                     /\ pc[k] # "adding" => batch[k].listeners = {}

PlaceInv ==
    /\ \A c \in Clients, k \in Conns, a \in Addrs : <<k, a>> \in items[c].listeners =>
          Owner[k] = c /\ pc[k] \in {"info", "served"} /\ <<k, a>> \notin returned
    /\ \A k \in Conns, a \in Addrs : <<k, a>> \in returned => pc[k] \in {"info", "served"}

\* Only a removable client is being unsubscribed.
AdmInv == \A c \in Clients : adm[c] = "deleted" => c \in Removable

IInv == /\ TypeOK
        /\ RegistryConsistent
        /\ RequestInv
        /\ PoolInv
        /\ BatchInv
        /\ PlaceInv
        /\ ListenersAccounted
        /\ AdmInv
        /\ ServedKeepsTunnels

-----------------------------------------------------------------------------
(* The registry within the server.                                         *)

\* Every step of the server changes the registry by one of its methods: the
\* registry's invariant holds after it, and it is a step of the directory.
LEMMA RegistryPart ==
    ASSUME IInv, [Next]_vars
    PROVE  RegistryInv' /\ [Directory!DNext]_hosts
<1> DEFINE Goal == RegistryInv' /\ [Directory!DNext]_hosts
<1>a. RegistryInv
  BY DEF IInv, TypeOK, RegistryInv
<1>b. ASSUME UNCHANGED <<items, hosts>> PROVE Goal
  BY <1>a, <1>b DEF RegistryInv, RegistryTypeOK, RegistryConsistent
<1>c. ASSUME NEW c \in Clients, disconnected(c) PROVE Goal
  BY <1>a, <1>c, ClearInv DEF disconnected, Directory!DNext
<1>d. ASSUME NEW c \in Clients, DeleteConn(c) PROVE Goal
  BY <1>b, <1>c, <1>d DEF DeleteConn, close
<1>e. ASSUME NEW c \in Clients, Subscribe(c) PROVE Goal
  BY <1>a, <1>e, SubscribeInv
<1>f. ASSUME NEW k \in Conns PROVE Owner[k] \in Clients
  BY PoolAssumption
<1>1. ASSUME NEW k \in Conns, MarkDead(k) PROVE Goal
  BY <1>1, <1>c, <1>f DEF MarkDead, close
<1>2. ASSUME NEW k \in Conns, Admit(k) PROVE Goal
  BY <1>2, <1>b, <1>e, <1>f DEF Admit, registryVars
<1>3. ASSUME NEW k \in Conns, AddConn(k) PROVE Goal
  BY <1>3, <1>b, <1>c, <1>f DEF AddConn
<1>4. ASSUME NEW k \in Conns, RejectPooled(k) PROVE Goal
  BY <1>4, <1>d, <1>f DEF RejectPooled
<1>5. ASSUME NEW k \in Conns, Register(k) PROVE Goal
  <2>1. /\ batch[k].hosts \in SUBSET HostPorts
        /\ batch[k].listeners \in SUBSET Listeners
    BY DEF IInv, TypeOK, Batches
  <2> QED BY <1>5, <1>a, <1>f, <2>1, SetInv, KeysAreNames DEF Register, Directory!DNext
<1>6. ASSUME NEW r \in Requesters, Evict(r) PROVE Goal
  <2>1. ClientOf(r) \in Clients
    BY <1>6, <1>f DEF Evict, IInv, TypeOK, RequestInv, Active, ClientOf, Requesters
  <2> QED BY <1>6, <1>b, <1>c, <2>1 DEF Evict, close
<1>7. ASSUME NEW c \in Clients, UnsubscribeConn(c) PROVE Goal
  BY <1>7, <1>d DEF UnsubscribeConn
<1>8. ASSUME NEW c \in Clients, UnsubscribeItem(c) PROVE Goal
  BY <1>8, <1>a, UnsubscribeInv DEF UnsubscribeItem, Directory!DNext
<1>9. ASSUME NEW c \in Clients, SubscribeClient(c) PROVE Goal
  BY <1>9, <1>e DEF SubscribeClient
<1>10. ASSUME NEW k \in Conns,
              \/ Accept(k) \/ Refuse(k) \/ RefuseAdmitted(k) \/ HandshakeAnswered(k)
              \/ AddTunnel(k) \/ RegisterFails(k) \/ LinkDown(k)
       PROVE  Goal
  BY <1>10, <1>b
  DEF Accept, Refuse, RefuseAdmitted, HandshakeAnswered, AddTunnel, RegisterFails, LinkDown
<1>11. ASSUME NEW r \in Requesters, GetClientConn(r) \/ RequestEnds(r) \/ Retry(r) PROVE Goal
  BY <1>11, <1>b DEF GetClientConn, RequestEnds, Retry
<1>12. ASSUME NEW u \in Users, handleHTTPConn(u) \/ listen(u) PROVE Goal
  BY <1>12, <1>b DEF handleHTTPConn, listen
<1>13. CASE UNCHANGED vars
  BY <1>13, <1>b DEF vars
<1> QED
  BY <1>1, <1>2, <1>3, <1>4, <1>5, <1>6, <1>7, <1>8, <1>9, <1>10, <1>11, <1>12, <1>13
  DEF Next, HandlerStep, RequestStep

-----------------------------------------------------------------------------
(* Types.                                                                  *)

\* disconnected keeps the type of bound.
LEMMA BoundType ==
    ASSUME bound \in [Addrs -> Conns \cup {NoConn}], NEW c \in Clients, disconnected(c)
    PROVE  bound' \in [Addrs -> Conns \cup {NoConn}]
BY DEF disconnected

\* Closing a client's connection keeps the types of the pool and of bound.
LEMMA CloseType ==
    ASSUME TypeOK, NEW c \in Clients, DeleteConn(c)
    PROVE  /\ conns' \in [Clients -> Conns \cup {NoConn}]
           /\ sock' \in [Conns -> SockStates]
           /\ bound' \in [Addrs -> Conns \cup {NoConn}]
<1>1. bound' \in [Addrs -> Conns \cup {NoConn}]
  BY BoundType DEF TypeOK, DeleteConn, close
<1>2. conns' \in [Clients -> Conns \cup {NoConn}] /\ sock' \in [Conns -> SockStates]
  BY DEF TypeOK, DeleteConn, close, CloseConn, SockStates
<1> QED BY <1>1, <1>2

\* One turn of addTunnels keeps the types of batch and bound.
LEMMA ListenType ==
    ASSUME batch \in [Conns -> Batches], bound \in [Addrs -> Conns \cup {NoConn}],
           NEW k \in Conns, NEW t, t.addr \in Addrs, <<k, t.addr>> \in Listeners, Listen(k, t)
    PROVE  batch' \in [Conns -> Batches] /\ bound' \in [Addrs -> Conns \cup {NoConn}]
BY DEF Listen, Batches

\* The same for a turn that adds a host.
LEMMA AddHostType ==
    ASSUME batch \in [Conns -> Batches], NEW k \in Conns, NEW t,
           httpFullHost(BaseDomain, t.host) \in HostPorts, AddHost(k, t)
    PROVE  batch' \in [Conns -> Batches]
BY DEF AddHost, Batches

\* The end of a request keeps the types of what it changes.
LEMMA EndRequestType ==
    ASSUME TypeOK, RequestInv, NEW r \in Requesters, Active(r), EndRequest(r)
    PROVE  /\ req' \in [Requesters -> {"idle", "sent", "evict"}]
           /\ via' \in [Requesters -> Conns \cup {NoConn}]
           /\ pc' \in [Conns -> HandlerStates]
           /\ target' \in [Users -> Clients \cup {NoClient}]
<1>1. CASE r \in Conns
  <2>1. AfterRequest(pc[r]) \in HandlerStates
    BY <1>1 DEF Active, Requesting, AfterRequest, HandlerStates
  <2> QED BY <1>1, <2>1 DEF TypeOK, EndRequest
<1>2. CASE r \notin Conns
  BY <1>2 DEF TypeOK, EndRequest, Requesters
<1> QED BY <1>1, <1>2

\* Every step of the server keeps the types.
LEMMA TypeStep == ASSUME IInv, [Next]_vars PROVE TypeOK'
<1>a. RegistryTypeOK'
  BY RegistryPart DEF RegistryInv
<1>b. TypeOK /\ RequestInv
  BY DEF IInv
<1>c. ASSUME NEW k \in Conns PROVE Owner[k] \in Clients
  BY PoolAssumption
<1>1. ASSUME NEW k \in Conns, MarkDead(k) PROVE TypeOK'
  <2>1. DeleteConn(Owner[k])
    BY <1>1, PoolAssumption DEF MarkDead, DeleteConn, Pooled
  <2> QED BY <1>1, <1>a, <1>b, <1>c, <2>1, CloseType DEF TypeOK, MarkDead
<1>2. ASSUME NEW k \in Conns, Accept(k) PROVE TypeOK'
  BY <1>2, <1>a, <1>b DEF TypeOK, Accept, HandlerStates, SockStates
<1>3. ASSUME NEW k \in Conns, Admit(k) PROVE TypeOK'
  BY <1>3, <1>a, <1>b DEF TypeOK, Admit, HandlerStates
<1>4. ASSUME NEW k \in Conns, Refuse(k) \/ RefuseAdmitted(k) PROVE TypeOK'
  BY <1>4, <1>a, <1>b DEF TypeOK, Refuse, RefuseAdmitted, RejectUnpooled, HandlerStates, SockStates
<1>5. ASSUME NEW k \in Conns, AddConn(k) PROVE TypeOK'
  <2>1. bound' \in [Addrs -> Conns \cup {NoConn}]
    BY <1>5, <1>b, <1>c, BoundType DEF TypeOK, AddConn
  <2>2. /\ conns' \in [Clients -> Conns \cup {NoConn}]
        /\ sock' \in [Conns -> SockStates]
        /\ pc' \in [Conns -> HandlerStates]
    BY <1>5, <1>b, <1>c DEF TypeOK, AddConn, ReplaceConn, HandlerStates, SockStates
  <2> QED BY <1>5, <1>a, <1>b, <2>1, <2>2 DEF TypeOK, AddConn
<1>6. ASSUME NEW r \in Requesters, GetClientConn(r) PROVE TypeOK'
  <2>1. ClientOf(r) \in Clients
    BY <1>6, <1>b, <1>c DEF GetClientConn, TypeOK, Active, ClientOf, Requesters
  <2>2. CASE EndRequest(r)
    BY <1>6, <1>a, <1>b, <2>2, EndRequestType DEF TypeOK, GetClientConn
  <2>3. CASE ~EndRequest(r)
    BY <1>6, <1>a, <1>b, <2>1, <2>3 DEF TypeOK, GetClientConn
  <2> QED BY <2>2, <2>3
<1>7. ASSUME NEW r \in Requesters, Evict(r) PROVE TypeOK'
  <2>1. Active(r) /\ ClientOf(r) \in Clients /\ via[r] \in Conns
    BY <1>7, <1>b, <1>c DEF Evict, TypeOK, RequestInv, Active, ClientOf, Requesters
  <2>2. CASE UNCHANGED <<conns, sock, items, hosts, bound>>
    BY <1>7, <1>a, <1>b, <2>1, <2>2, EndRequestType DEF TypeOK, Evict
  <2>3. CASE DeleteConn(ClientOf(r))
    BY <1>7, <1>a, <1>b, <2>1, <2>3, CloseType, EndRequestType DEF TypeOK, Evict
  <2> QED BY <1>7, <2>1, <2>2, <2>3, PoolAssumption DEF Evict, DeleteConn
<1>8. ASSUME NEW r \in Requesters, RequestEnds(r) PROVE TypeOK'
  BY <1>8, <1>a, <1>b, EndRequestType DEF TypeOK, RequestEnds, RequestInv
<1>9. ASSUME NEW r \in Requesters, Retry(r) PROVE TypeOK'
  BY <1>9, <1>a, <1>b DEF TypeOK, Retry
<1>10. ASSUME NEW k \in Conns, HandshakeAnswered(k) PROVE TypeOK'
  BY <1>10, <1>a, <1>b DEF TypeOK, HandshakeAnswered, Requesters, HandlerStates, Tunnels, Batches
<1>11. ASSUME NEW k \in Conns, Rollback(k),
              UNCHANGED <<items, hosts, conns, sock, req, via, target, adm, returned>>
       PROVE  TypeOK'
  BY <1>11, <1>a, <1>b DEF TypeOK, Rollback, EmptyBatch, Batches, HandlerStates
<1>12. ASSUME NEW k \in Conns, AddTunnel(k) PROVE TypeOK'
  <2> PICK t \in batch[k].todo : Listen(k, t) \/ AddHost(k, t) \/ Rollback(k)
    BY <1>12 DEF AddTunnel
  <2>1. t \in Tunnels
    BY <1>b DEF TypeOK, Batches
  <2>2. CASE Listen(k, t)
    <3>1. t.addr \in Addrs /\ <<k, t.addr>> \in Listeners
      BY <2>1, <2>2, ServerAssumption DEF Listen
    <3>2. /\ bound' \in [Addrs -> Conns \cup {NoConn}]
          /\ batch' \in [Conns -> Batches]
      BY <1>b, <2>2, <3>1, ListenType DEF TypeOK
    <3> QED BY <1>12, <1>a, <1>b, <2>2, <3>2 DEF TypeOK, AddTunnel, Listen, Batches
  <2>3. CASE AddHost(k, t)
    <3>1. httpFullHost(BaseDomain, t.host) \in HostPorts
      BY <2>3, ServerAssumption DEF AddHost, Usable
    <3>2. batch' \in [Conns -> Batches]
      BY <1>b, <2>3, <3>1, AddHostType DEF TypeOK
    <3> QED BY <1>12, <1>a, <1>b, <2>3, <3>2 DEF TypeOK, AddTunnel, AddHost, Batches
  <2>4. CASE Rollback(k)
    BY <1>11, <1>12, <2>4 DEF AddTunnel
  <2> QED BY <2>2, <2>3, <2>4
<1>13. ASSUME NEW k \in Conns, Register(k) PROVE TypeOK'
  BY <1>13, <1>a, <1>b DEF TypeOK, Register, EmptyBatch, Batches, HandlerStates
<1>14. ASSUME NEW k \in Conns, RegisterFails(k) PROVE TypeOK'
  BY <1>11, <1>14 DEF RegisterFails
<1>15. ASSUME NEW k \in Conns, RejectPooled(k) PROVE TypeOK'
  BY <1>15, <1>a, <1>b, <1>c, CloseType DEF TypeOK, RejectPooled, HandlerStates
<1>16. ASSUME NEW u \in Users, handleHTTPConn(u) PROVE TypeOK'
  BY <1>16, <1>a, <1>b
  DEF TypeOK, RegistryTypeOK, handleHTTPConn, Subscriber, trimPort, HostPorts
<1>17. ASSUME NEW u \in Users, listen(u) PROVE TypeOK'
  BY <1>17, <1>a, <1>b, <1>c DEF TypeOK, listen
<1>18. ASSUME NEW k \in Conns, LinkDown(k) PROVE TypeOK'
  BY <1>18, <1>a, <1>b DEF TypeOK, LinkDown, SockStates
<1>19. ASSUME NEW c \in Clients, SubscribeClient(c) PROVE TypeOK'
  BY <1>19, <1>a, <1>b DEF TypeOK, SubscribeClient
<1>20. ASSUME NEW c \in Clients, UnsubscribeConn(c) PROVE TypeOK'
  BY <1>20, <1>a, <1>b, CloseType DEF TypeOK, UnsubscribeConn
<1>21. ASSUME NEW c \in Clients, UnsubscribeItem(c) PROVE TypeOK'
  BY <1>21, <1>a, <1>b, ItemFields DEF TypeOK, UnsubscribeItem
<1>22. CASE UNCHANGED vars
  BY <1>22, <1>a, <1>b DEF TypeOK, vars
<1> QED
  BY <1>1, <1>2, <1>3, <1>4, <1>5, <1>6, <1>7, <1>8, <1>9, <1>10, <1>12, <1>13, <1>14,
     <1>15, <1>16, <1>17, <1>18, <1>19, <1>20, <1>21, <1>22
  DEF Next, HandlerStep, RequestStep

-----------------------------------------------------------------------------
(* Requests.                                                               *)

\* A handler that waits for no request may move on.
LEMMA RequestHandlerMoves ==
    ASSUME IInv, NEW k \in Conns, NEW s, pc[k] \notin Requesting,
           pc' = [pc EXCEPT ![k] = s], UNCHANGED <<req, via, target>>
    PROVE  RequestInv'
<1>1. req[k] = "idle"
  BY DEF IInv, RequestInv, Active, Requesters
<1> QED BY <1>1 DEF IInv, TypeOK, RequestInv, Active

\* The end of a request leaves all the others as they are.
LEMMA RequestEnd ==
    ASSUME IInv, NEW r \in Requesters, EndRequest(r)
    PROVE  RequestInv'
BY DEF IInv, TypeOK, RequestInv, Active, EndRequest, Requesters

\* Every step keeps RequestInv.
LEMMA RequestStepInv == ASSUME IInv, [Next]_vars PROVE RequestInv'
<1>a. ASSUME UNCHANGED <<pc, req, via, target>> PROVE RequestInv'
  BY <1>a DEF IInv, RequestInv, Active
<1>1. ASSUME NEW k \in Conns, MarkDead(k) \/ LinkDown(k) PROVE RequestInv'
  BY <1>1, <1>a DEF MarkDead, LinkDown
<1>2. ASSUME NEW c \in Clients, SubscribeClient(c) \/ UnsubscribeConn(c) \/ UnsubscribeItem(c)
      PROVE  RequestInv'
  BY <1>2, <1>a DEF SubscribeClient, UnsubscribeConn, UnsubscribeItem
<1>3. CASE UNCHANGED vars
  BY <1>3, <1>a DEF vars
<1>4. ASSUME NEW k \in Conns, Accept(k) \/ Admit(k) \/ Refuse(k) \/ RefuseAdmitted(k)
      PROVE  RequestInv'
  BY <1>4, RequestHandlerMoves
  DEF Accept, Admit, Refuse, RefuseAdmitted, RejectUnpooled, Requesting
<1>5. ASSUME NEW k \in Conns, AddConn(k) PROVE RequestInv'
  <2> PICK ok \in BOOLEAN : pc' = [pc EXCEPT ![k] = IF ok THEN "handshake" ELSE "rejected"]
    BY <1>5 DEF AddConn
  <2> QED BY <1>5, RequestHandlerMoves DEF AddConn, Requesting
<1>6. ASSUME NEW k \in Conns, Register(k) \/ RegisterFails(k) \/ RejectPooled(k)
      PROVE  RequestInv'
  BY <1>6, RequestHandlerMoves DEF Register, RegisterFails, Rollback, RejectPooled, Requesting
<1>7. ASSUME NEW k \in Conns, AddTunnel(k) PROVE RequestInv'
  <2>1. UNCHANGED pc \/ pc' = [pc EXCEPT ![k] = "notify"]
    BY <1>7 DEF AddTunnel, Listen, AddHost, Rollback
  <2> QED BY <1>7, <1>a, <2>1, RequestHandlerMoves DEF AddTunnel, Requesting
<1>8. ASSUME NEW r \in Requesters, Evict(r) \/ RequestEnds(r) PROVE RequestInv'
  BY <1>8, RequestEnd DEF Evict, RequestEnds
<1>9. ASSUME NEW r \in Requesters, Retry(r) PROVE RequestInv'
  BY <1>9 DEF IInv, TypeOK, RequestInv, Active, Retry
<1>10. ASSUME NEW r \in Requesters, GetClientConn(r) PROVE RequestInv'
  <2>1. CASE EndRequest(r)
    BY <2>1, RequestEnd
  <2>2. CASE ~EndRequest(r)
    <3>1. ClientOf(r) \in Clients
      BY <1>10, PoolAssumption DEF GetClientConn, IInv, TypeOK, Active, ClientOf, Requesters
    <3>2. conns[ClientOf(r)] \in Conns
      BY <1>10, <2>2, <3>1 DEF GetClientConn, IInv, TypeOK
    <3> QED BY <1>10, <2>2, <3>2 DEF GetClientConn, IInv, TypeOK, RequestInv, Active
  <2> QED BY <2>1, <2>2
<1>11. ASSUME NEW k \in Conns, HandshakeAnswered(k) PROVE RequestInv'
  BY <1>11 DEF IInv, TypeOK, RequestInv, Active, HandshakeAnswered, Requesters
<1>12. ASSUME NEW u \in Users, handleHTTPConn(u) \/ listen(u) PROVE RequestInv'
  <2>1. req[u] = "idle"
    BY <1>12, ServerAssumption DEF handleHTTPConn, listen, IInv, RequestInv, Active, Requesters
  <2> QED BY <1>12, <2>1, ServerAssumption
          DEF handleHTTPConn, listen, IInv, TypeOK, RequestInv, Active, Requesters
<1> QED
  BY <1>1, <1>2, <1>3, <1>4, <1>5, <1>6, <1>7, <1>8, <1>9, <1>10, <1>11, <1>12
  DEF Next, HandlerStep, RequestStep

-----------------------------------------------------------------------------
(* The pool.                                                               *)

\* No handler enters or leaves the pool's care, and none is rejected.
SameCare == \A k \in Conns : /\ pc'[k] \in InConnPool <=> pc[k] \in InConnPool
                             /\ pc'[k] = "rejected" <=> pc[k] = "rejected"
                             /\ pc'[k] \in Unpooled => pc[k] \in Unpooled

\* Closing a client's connection: exactly that connection is closed, and
\* exactly that client is without one.
LEMMA ClosedOut ==
    ASSUME IInv, NEW c \in Clients, conns[c] # NoConn, DeleteConn(c)
    PROVE  /\ conns[c] \in Conns
           /\ \A d \in Clients : conns'[d] = IF d = c THEN NoConn ELSE conns[d]
           /\ \A k \in Conns : sock'[k] = IF k = conns[c] THEN "closed" ELSE sock[k]
           /\ \A k \in Conns : conns'[Owner[k]] = k <=> conns[Owner[k]] = k /\ k # conns[c]
<1>1. conns[c] \in Conns /\ Owner[conns[c]] = c
  BY DEF IInv, TypeOK, PoolInv
<1>2. \A d \in Clients : conns'[d] = IF d = c THEN NoConn ELSE conns[d]
  BY DEF DeleteConn, close, CloseConn, IInv, TypeOK
<1>3. \A k \in Conns : sock'[k] = IF k = conns[c] THEN "closed" ELSE sock[k]
  BY <1>1 DEF DeleteConn, close, CloseConn, IInv, TypeOK
<1>4. \A k \in Conns : conns'[Owner[k]] = k <=> conns[Owner[k]] = k /\ k # conns[c]
  BY <1>1, <1>2, PoolAssumption
<1> QED BY <1>1, <1>2, <1>3, <1>4

\* Closing a client's connection keeps PoolInv.
LEMMA PoolClose ==
    ASSUME IInv, NEW c \in Clients, DeleteConn(c), SameCare
    PROVE  PoolInv'
<1>1. CASE conns[c] = NoConn
  BY <1>1 DEF IInv, TypeOK, PoolInv, DeleteConn, SameCare, Pooled
<1>2. CASE conns[c] # NoConn
  <2>1. conns[c] \in Conns /\ pc[conns[c]] \in InConnPool
    BY <1>2, ClosedOut DEF IInv, PoolInv
  <2>2. ASSUME NEW d \in Clients, conns'[d] # NoConn
        PROVE  /\ Owner[conns'[d]] = d
               /\ sock'[conns'[d]] \in {"open", "down"}
               /\ pc'[conns'[d]] \in InConnPool
    <3>1. d # c /\ conns'[d] = conns[d] /\ conns[d] \in Conns
      BY <1>2, <2>2, ClosedOut DEF IInv, TypeOK
    <3>2. Owner[conns[d]] = d /\ conns[d] # conns[c]
      BY <1>2, <2>2, <3>1 DEF IInv, PoolInv
    <3> QED BY <1>2, <2>2, <3>1, <3>2, ClosedOut DEF IInv, PoolInv, SameCare
  <2>3. ASSUME NEW k \in Conns
        PROVE  /\ pc'[k] \in InConnPool => sock'[k] = "closed" \/ Pooled(k)'
               /\ pc'[k] = "rejected" => sock'[k] = "closed"
               /\ pc'[k] \in Unpooled => sock'[k] \in {"open", "down"}
    BY <1>2, <2>1, ClosedOut DEF IInv, PoolInv, SameCare, Pooled, InConnPool, Unpooled
  <2> QED BY <2>2, <2>3 DEF PoolInv
<1> QED BY <1>1, <1>2

\* A handler that moves from an unpooled state to another one keeps PoolInv.
LEMMA PoolUnpooled ==
    ASSUME IInv, NEW k \in Conns, NEW s, NEW z \in SockStates,
           pc[k] \notin InConnPool, s \notin InConnPool, s = "rejected" => z = "closed",
           s \in Unpooled => z = "open",
           pc' = [pc EXCEPT ![k] = s], sock' = [sock EXCEPT ![k] = z], UNCHANGED conns
    PROVE  PoolInv'
BY DEF IInv, TypeOK, PoolInv, Pooled

\* Every step keeps PoolInv.
LEMMA PoolStepInv == ASSUME IInv, [Next]_vars PROVE PoolInv'
<1>a. ASSUME UNCHANGED <<conns, sock>>, SameCare PROVE PoolInv'
  BY <1>a DEF IInv, TypeOK, PoolInv, SameCare, Pooled
<1>b. ASSUME UNCHANGED pc PROVE SameCare
  BY <1>b DEF SameCare
<1>c. ASSUME NEW r \in Requesters, Active(r), EndRequest(r) PROVE SameCare
  BY <1>c DEF IInv, TypeOK, Active, Requesting, EndRequest, AfterRequest, SameCare, InConnPool, Unpooled
<1>d. ASSUME NEW k \in Conns, NEW s \in InConnPool, pc[k] \in InConnPool,
             pc' = [pc EXCEPT ![k] = s]
      PROVE  SameCare
  BY <1>d DEF IInv, TypeOK, SameCare, InConnPool, Unpooled
<1>1. ASSUME NEW k \in Conns, MarkDead(k) PROVE PoolInv'
  BY <1>1, <1>b, PoolClose, PoolAssumption DEF MarkDead, DeleteConn, Pooled
<1>2. ASSUME NEW k \in Conns, LinkDown(k) PROVE PoolInv'
  BY <1>2 DEF LinkDown, IInv, TypeOK, PoolInv, Pooled
<1>3. ASSUME NEW c \in Clients, SubscribeClient(c) \/ UnsubscribeItem(c) PROVE PoolInv'
  BY <1>3, <1>a, <1>b DEF SubscribeClient, UnsubscribeItem
<1>4. ASSUME NEW c \in Clients, UnsubscribeConn(c) PROVE PoolInv'
  BY <1>4, <1>b, PoolClose DEF UnsubscribeConn
<1>5. CASE UNCHANGED vars
  BY <1>5, <1>a, <1>b DEF vars
<1>6. ASSUME NEW u \in Users, handleHTTPConn(u) \/ listen(u) PROVE PoolInv'
  BY <1>6, <1>a, <1>b DEF handleHTTPConn, listen
<1>7. ASSUME NEW k \in Conns, Accept(k) PROVE PoolInv'
  BY <1>7, PoolUnpooled DEF Accept, InConnPool, Unpooled, SockStates
<1>8. ASSUME NEW k \in Conns, Admit(k) PROVE PoolInv'
  BY <1>8 DEF Admit, IInv, TypeOK, PoolInv, Pooled, InConnPool, Unpooled
<1>9. ASSUME NEW k \in Conns, Refuse(k) \/ RefuseAdmitted(k) PROVE PoolInv'
  BY <1>9, PoolUnpooled
  DEF Refuse, RefuseAdmitted, RejectUnpooled, InConnPool, Unpooled, SockStates
<1>10. ASSUME NEW k \in Conns, AddConn(k) PROVE PoolInv'
  <2> PICK ok \in BOOLEAN :
        /\ ok \/ sock[k] = "down"
        /\ ReplaceConn(k, ok)
        /\ pc' = [pc EXCEPT ![k] = IF ok THEN "handshake" ELSE "rejected"]
    BY <1>10 DEF AddConn
  <2>1. pc[k] = "admitted"
    BY <1>10 DEF AddConn
  <2> DEFINE c == Owner[k]
             old == conns[c]
  <2>2. c \in Clients
    BY PoolAssumption
  <2>3. \A d \in Clients : conns'[d] = IF d = c THEN (IF ok THEN k ELSE NoConn) ELSE conns[d]
    BY <2>2 DEF ReplaceConn, IInv, TypeOK
  <2>4. \A j \in Conns : sock'[j] = IF j = old \/ (j = k /\ ~ok) THEN "closed" ELSE sock[j]
    BY DEF ReplaceConn
  <2>5. \A j \in Conns : pc'[j] = IF j = k THEN (IF ok THEN "handshake" ELSE "rejected")
                                           ELSE pc[j]
    BY DEF IInv, TypeOK
  <2>6. old # NoConn => old \in Conns /\ Owner[old] = c /\ old # k
    BY <2>1, <2>2 DEF IInv, TypeOK, PoolInv, InConnPool
  <2>7. sock[k] \in {"open", "down"}
    BY <2>1 DEF IInv, PoolInv, Unpooled
  <2>8. ASSUME NEW d \in Clients, conns'[d] # NoConn
        PROVE  /\ Owner[conns'[d]] = d
               /\ sock'[conns'[d]] \in {"open", "down"}
               /\ pc'[conns'[d]] \in InConnPool
    <3>1. CASE d = c
      BY <2>3, <2>4, <2>5, <2>6, <2>7, <2>8, <3>1 DEF InConnPool
    <3>2. CASE d # c
      <4>1. conns'[d] = conns[d] /\ conns[d] \in Conns
        BY <2>3, <2>8, <3>2 DEF IInv, TypeOK
      <4>2. Owner[conns[d]] = d /\ conns[d] # old /\ conns[d] # k
        BY <2>1, <2>6, <2>8, <3>2, <4>1 DEF IInv, PoolInv, InConnPool
      <4> QED BY <2>4, <2>5, <2>8, <4>1, <4>2 DEF IInv, PoolInv
    <3> QED BY <3>1, <3>2
  <2>9. ASSUME NEW j \in Conns
        PROVE  /\ pc'[j] \in InConnPool => sock'[j] = "closed" \/ Pooled(j)'
               /\ pc'[j] = "rejected" => sock'[j] = "closed"
               /\ pc'[j] \in Unpooled => sock'[j] \in {"open", "down"}
    <3>1. CASE j = k
      BY <2>2, <2>3, <2>4, <2>5, <2>6, <3>1 DEF Pooled, InConnPool, Unpooled
    <3>2. CASE j # k /\ j = old
      BY <2>4, <2>5, <2>6, <3>2, PoolAssumption DEF IInv, PoolInv, InConnPool, Unpooled
    <3>3. CASE j # k /\ j # old
      <4>1. Owner[j] \in Clients /\ (Pooled(j) => Pooled(j)')
        BY <2>3, <3>3, PoolAssumption DEF Pooled
      <4> QED BY <2>4, <2>5, <3>3, <4>1 DEF IInv, PoolInv
    <3> QED BY <3>1, <3>2, <3>3
  <2> QED BY <2>8, <2>9 DEF PoolInv
<1>11. ASSUME NEW r \in Requesters, RequestEnds(r) PROVE PoolInv'
  BY <1>11, <1>a, <1>c DEF RequestEnds, IInv, RequestInv
<1>12. ASSUME NEW r \in Requesters, GetClientConn(r) PROVE PoolInv'
  BY <1>12, <1>a, <1>b, <1>c DEF GetClientConn
<1>13. ASSUME NEW r \in Requesters, Retry(r) PROVE PoolInv'
  BY <1>13, <1>a, <1>b DEF Retry
<1>14. ASSUME NEW r \in Requesters, Evict(r) PROVE PoolInv'
  <2>1. Active(r) /\ via[r] \in Conns /\ SameCare
    BY <1>14, <1>c DEF Evict, IInv, RequestInv
  <2>2. ClientOf(r) \in Clients
    BY <2>1, PoolAssumption DEF IInv, TypeOK, Active, ClientOf, Requesters
  <2>3. CASE conns[ClientOf(r)] = via[r]
    BY <1>14, <2>1, <2>2, <2>3, PoolClose, PoolAssumption DEF Evict, DeleteConn
  <2> QED BY <1>14, <1>a, <2>1, <2>3 DEF Evict
<1>15. ASSUME NEW k \in Conns, HandshakeAnswered(k) PROVE PoolInv'
  <2> PICK T \in Offers : pc' = [pc EXCEPT ![k] = IF T = {} THEN "notify" ELSE "adding"]
    BY <1>15 DEF HandshakeAnswered
  <2> QED BY <1>15, <1>a, <1>d DEF HandshakeAnswered, InConnPool
<1>16. ASSUME NEW k \in Conns, AddTunnel(k) PROVE PoolInv'
  <2>1. UNCHANGED pc \/ pc' = [pc EXCEPT ![k] = "notify"]
    BY <1>16 DEF AddTunnel, Listen, AddHost, Rollback
  <2> QED BY <1>16, <1>a, <1>b, <1>d, <2>1 DEF AddTunnel, InConnPool
<1>17. ASSUME NEW k \in Conns, Register(k) \/ RegisterFails(k) PROVE PoolInv'
  BY <1>17, <1>a, <1>d DEF Register, RegisterFails, Rollback, InConnPool
<1>18. ASSUME NEW k \in Conns, RejectPooled(k) PROVE PoolInv'
  <2>1. CASE conns[Owner[k]] = NoConn
    BY <1>18, <2>1, PoolAssumption
    DEF RejectPooled, DeleteConn, IInv, TypeOK, PoolInv, Pooled, InConnPool, Unpooled
  <2>2. CASE conns[Owner[k]] # NoConn
    <3>1. pc[k] = "delete" /\ DeleteConn(Owner[k]) /\ Owner[k] \in Clients
      BY <1>18, PoolAssumption DEF RejectPooled
    <3>2. \A j \in Conns : pc'[j] = IF j = k THEN "rejected" ELSE pc[j]
      BY <1>18 DEF RejectPooled, IInv, TypeOK
    <3>3. sock'[k] = "closed" /\ ~Pooled(k)'
      BY <2>2, <3>1, ClosedOut DEF IInv, PoolInv, Pooled, InConnPool
    <3> QED BY <2>2, <3>1, <3>2, <3>3, ClosedOut
            DEF IInv, TypeOK, PoolInv, Pooled, InConnPool, Unpooled
  <2> QED BY <2>1, <2>2
<1> QED
  BY <1>1, <1>2, <1>3, <1>4, <1>5, <1>6, <1>7, <1>8, <1>9, <1>10, <1>11, <1>12, <1>13,
     <1>14, <1>15, <1>16, <1>17, <1>18
  DEF Next, HandlerStep, RequestStep

-----------------------------------------------------------------------------
(* Listeners.                                                              *)

\* States of a handler whose batch is registered.
Settled == {"info", "served"}

ListenerInv == BatchInv /\ PlaceInv /\ ListenersAccounted

\* No handler leaves the states in which its listeners may be where they are.
SamePlace == \A k \in Conns : /\ pc[k] \in Settled => pc'[k] \in Settled
                              /\ pc[k] = "adding" => pc'[k] = "adding"

SameBatches == \A k \in Conns : batch'[k].listeners = batch[k].listeners

\* A step that moves no listener keeps the three invariants about them.
LEMMA ListenerKept ==
    ASSUME IInv, SamePlace, SameBatches, UNCHANGED <<bound, returned>>,
           \A c \in Clients : items'[c].listeners = items[c].listeners
    PROVE  ListenerInv'
<1>1. BatchInv'
  BY DEF IInv, BatchInv, SamePlace, SameBatches
<1>2. PlaceInv'
  BY DEF IInv, PlaceInv, SamePlace, Settled
<1>3. ListenersAccounted'
  BY PoolAssumption DEF IInv, ListenersAccounted, SameBatches
<1> QED BY <1>1, <1>2, <1>3 DEF ListenerInv

\* Subscribe turns an absent entry into a void one.
LEMMA SubscribeItems ==
    ASSUME IInv, NEW c \in Clients, Subscribe(c)
    PROVE  \A d \in Clients : items'[d] = IF d = c /\ items[c] = Absent THEN Void ELSE items[d]
BY DEF IInv, TypeOK, RegistryTypeOK, Subscribe

\* clear empties the listeners of one item.
LEMMA ClearListeners ==
    ASSUME IInv, NEW c \in Clients, clear(c)
    PROVE  \A d \in Clients : items'[d] = IF d = c /\ items[c] # Absent THEN Void ELSE items[d]
BY DEF IInv, TypeOK, RegistryTypeOK, clear, registryVars

\* disconnected closes exactly the listeners that clear takes from the item.
LEMMA ListenerClear ==
    ASSUME IInv, NEW c \in Clients, disconnected(c), SamePlace, UNCHANGED <<batch, returned>>
    PROVE  ListenerInv'
<1>1. \A d \in Clients : items'[d].listeners = IF d = c THEN {} ELSE items[d].listeners
  BY ClearListeners DEF disconnected, Absent, Void
<1>2. \A a \in Addrs : bound'[a] = IF <<bound[a], a>> \in items[c].listeners THEN NoConn
                                                                             ELSE bound[a]
  BY DEF disconnected
<1>3. BatchInv'
  BY DEF IInv, BatchInv, SamePlace
<1>4. PlaceInv'
  BY <1>1 DEF IInv, PlaceInv, SamePlace, Settled
<1>5. ListenersAccounted'
  <2> SUFFICES ASSUME NEW k \in Conns, NEW a \in Addrs
               PROVE  bound'[a] = k <=> \/ <<k, a>> \in batch[k].listeners
                                        \/ <<k, a>> \in items'[Owner[k]].listeners
                                        \/ <<k, a>> \in returned
    BY DEF ListenersAccounted
  <2>1. Owner[k] \in Clients /\ NoConn # k
    BY PoolAssumption
  <2>2. bound[a] = k <=> \/ <<k, a>> \in batch[k].listeners
                         \/ <<k, a>> \in items[Owner[k]].listeners
                         \/ <<k, a>> \in returned
    BY DEF IInv, ListenersAccounted
  <2>3. CASE <<k, a>> \in items[c].listeners
    <3>1. Owner[k] = c /\ pc[k] \in Settled /\ <<k, a>> \notin returned
      BY <2>3 DEF IInv, PlaceInv, Settled
    <3>2. <<k, a>> \notin batch[k].listeners
      BY <3>1 DEF IInv, BatchInv, Settled
    <3>3. bound[a] = k
      BY <2>2, <2>3, <3>1
    <3>4. bound'[a] = NoConn
      BY <1>2, <2>3, <3>3
    <3> QED BY <1>1, <2>1, <3>1, <3>2, <3>4
  <2>4. CASE <<k, a>> \notin items[c].listeners
    <3>1. bound'[a] = k <=> bound[a] = k
      BY <1>2, <2>1, <2>4
    <3>2. <<k, a>> \in items'[Owner[k]].listeners <=> <<k, a>> \in items[Owner[k]].listeners
      BY <1>1, <2>1, <2>4
    <3> QED BY <2>2, <3>1, <3>2
  <2> QED BY <2>3, <2>4
<1> QED BY <1>3, <1>4, <1>5 DEF ListenerInv

\* The rollback of addTunnels closes exactly the listeners of its batch.
LEMMA ListenerRollback ==
    ASSUME IInv, NEW k \in Conns, pc[k] = "adding", Rollback(k), UNCHANGED <<items, returned>>
    PROVE  ListenerInv'
<1>1. \A j \in Conns : /\ pc'[j] = IF j = k THEN "notify" ELSE pc[j]
                       /\ batch'[j].listeners = IF j = k THEN {} ELSE batch[j].listeners
  BY DEF Rollback, EmptyBatch, IInv, TypeOK
<1>2. \A a \in Addrs : bound'[a] = IF <<bound[a], a>> \in batch[k].listeners THEN NoConn
                                                                             ELSE bound[a]
  BY DEF Rollback
<1>3. BatchInv'
  BY <1>1 DEF IInv, BatchInv
<1>4. PlaceInv'
  BY <1>1 DEF IInv, PlaceInv
<1>5. ListenersAccounted'
  <2> SUFFICES ASSUME NEW j \in Conns, NEW a \in Addrs
               PROVE  bound'[a] = j <=> \/ <<j, a>> \in batch'[j].listeners
                                        \/ <<j, a>> \in items[Owner[j]].listeners
                                        \/ <<j, a>> \in returned
    BY DEF ListenersAccounted
  <2>1. NoConn # j /\ Owner[j] \in Clients
    BY PoolAssumption
  <2>2. bound[a] = j <=> \/ <<j, a>> \in batch[j].listeners
                         \/ <<j, a>> \in items[Owner[j]].listeners
                         \/ <<j, a>> \in returned
    BY DEF IInv, ListenersAccounted
  <2>3. <<j, a>> \in batch[k].listeners => j = k
    BY DEF IInv, BatchInv
  <2>4. j = k => /\ <<j, a>> \notin items[Owner[j]].listeners
                 /\ <<j, a>> \notin returned
    BY <2>1 DEF IInv, PlaceInv
  <2> QED BY <1>1, <1>2, <2>1, <2>2, <2>3, <2>4
<1> QED BY <1>3, <1>4, <1>5 DEF ListenerInv

\* A listener that is opened is in the batch of its handler.
LEMMA ListenerOpened ==
    ASSUME IInv, NEW k \in Conns, NEW t \in Tunnels, pc[k] = "adding", Listen(k, t),
           UNCHANGED <<items, returned>>
    PROVE  ListenerInv'
<1>0. t.addr \in Addrs /\ bound[t.addr] = NoConn
  BY ServerAssumption DEF Listen
<1>1. \A j \in Conns : batch'[j].listeners =
          IF j = k THEN batch[k].listeners \cup {<<k, t.addr>>} ELSE batch[j].listeners
  BY DEF Listen, IInv, TypeOK, Batches
<1>2. \A a \in Addrs : bound'[a] = IF a = t.addr THEN k ELSE bound[a]
  BY DEF Listen, IInv, TypeOK
<1>3. BatchInv'
  <2>1. <<k, t.addr>> \in {k} \X Addrs /\ UNCHANGED pc
    BY <1>0 DEF Listen
  <2>2. batch[k].listeners \cup {<<k, t.addr>>} \subseteq {k} \X Addrs
    BY <2>1 DEF IInv, BatchInv
  <2> QED BY <1>1, <2>1, <2>2 DEF IInv, BatchInv
<1>4. PlaceInv'
  BY DEF IInv, PlaceInv, Listen
<1>5. ListenersAccounted'
  <2> SUFFICES ASSUME NEW j \in Conns, NEW a \in Addrs
               PROVE  bound'[a] = j <=> \/ <<j, a>> \in batch'[j].listeners
                                        \/ <<j, a>> \in items[Owner[j]].listeners
                                        \/ <<j, a>> \in returned
    BY DEF ListenersAccounted
  <2>1. bound[a] = j <=> \/ <<j, a>> \in batch[j].listeners
                         \/ <<j, a>> \in items[Owner[j]].listeners
                         \/ <<j, a>> \in returned
    BY DEF IInv, ListenersAccounted
  <2> QED BY <1>0, <1>1, <1>2, <2>1, PoolAssumption
<1> QED BY <1>3, <1>4, <1>5 DEF ListenerInv

\* set moves the listeners of a batch into the item of the handler's client.
LEMMA ListenerRegistered ==
    ASSUME IInv, NEW k \in Conns, Register(k)
    PROVE  ListenerInv'
<1>0. Owner[k] \in Clients /\ pc[k] = "adding" /\ items[Owner[k]] = Void
  BY PoolAssumption DEF Register, set, CanSet
<1>1. \A d \in Clients : items'[d].listeners =
          IF d = Owner[k] THEN batch[k].listeners ELSE items[d].listeners
  BY <1>0 DEF Register, set, NewItem, IInv, TypeOK, RegistryTypeOK
<1>2. \A j \in Conns : batch'[j].listeners = IF j = k THEN {} ELSE batch[j].listeners
  BY DEF Register, EmptyBatch, IInv, TypeOK
<1>3. \A j \in Conns : IF j = k THEN pc'[j] \in Settled ELSE pc'[j] = pc[j]
  BY DEF Register, IInv, TypeOK, Settled
<1>4. batch[k].listeners \subseteq {k} \X Addrs
  BY DEF IInv, BatchInv
<1>5. items[Owner[k]].listeners = {}
  BY <1>0 DEF Void
<1>6. \A a \in Addrs : <<k, a>> \notin returned
  BY <1>0 DEF IInv, PlaceInv
<1>7. BatchInv'
  BY <1>0, <1>2, <1>3 DEF IInv, BatchInv, Settled
<1>8. PlaceInv'
  BY <1>0, <1>1, <1>3, <1>4, <1>6 DEF IInv, PlaceInv, Register, Settled
<1>9. ListenersAccounted'
  <2> SUFFICES ASSUME NEW j \in Conns, NEW a \in Addrs
               PROVE  bound[a] = j <=> \/ <<j, a>> \in batch'[j].listeners
                                       \/ <<j, a>> \in items'[Owner[j]].listeners
                                       \/ <<j, a>> \in returned
    BY DEF ListenersAccounted, Register
  <2>1. Owner[j] \in Clients
    BY PoolAssumption
  <2>2. bound[a] = j <=> \/ <<j, a>> \in batch[j].listeners
                         \/ <<j, a>> \in items[Owner[j]].listeners
                         \/ <<j, a>> \in returned
    BY DEF IInv, ListenersAccounted
  <2>3. CASE j = k
    BY <1>1, <1>2, <1>5, <2>1, <2>2, <2>3
  <2>4. CASE j # k
    BY <1>1, <1>2, <1>4, <1>5, <2>1, <2>2, <2>4
  <2> QED BY <2>3, <2>4
<1> QED BY <1>7, <1>8, <1>9 DEF ListenerInv

\* Unsubscribe moves the listeners of an item into the caller's hands.
LEMMA ListenerReturned ==
    ASSUME IInv, NEW c \in Clients, UnsubscribeItem(c)
    PROVE  ListenerInv'
<1>1. \A d \in Clients : items'[d].listeners = IF d = c THEN {} ELSE items[d].listeners
  BY DEF UnsubscribeItem, RegistryUnsubscribe, Absent, IInv, TypeOK, RegistryTypeOK
<1>2. returned' = returned \cup items[c].listeners /\ UNCHANGED <<pc, batch, bound>>
  BY DEF UnsubscribeItem
<1>3. BatchInv'
  BY <1>2 DEF IInv, BatchInv
<1>4. PlaceInv'
  BY <1>1, <1>2 DEF IInv, PlaceInv
<1>5. ListenersAccounted'
  <2> SUFFICES ASSUME NEW k \in Conns, NEW a \in Addrs
               PROVE  bound[a] = k <=> \/ <<k, a>> \in batch[k].listeners
                                       \/ <<k, a>> \in items'[Owner[k]].listeners
                                       \/ <<k, a>> \in returned'
    BY <1>2 DEF ListenersAccounted
  <2>1. Owner[k] \in Clients
    BY PoolAssumption
  <2>2. <<k, a>> \in items[c].listeners => Owner[k] = c
    BY DEF IInv, PlaceInv
  <2>3. bound[a] = k <=> \/ <<k, a>> \in batch[k].listeners
                         \/ <<k, a>> \in items[Owner[k]].listeners
                         \/ <<k, a>> \in returned
    BY DEF IInv, ListenersAccounted
  <2> QED BY <1>1, <1>2, <2>1, <2>2, <2>3
<1> QED BY <1>3, <1>4, <1>5 DEF ListenerInv

\* Every step accounts for the listeners.
LEMMA ListenerStepInv == ASSUME IInv, [Next]_vars PROVE ListenerInv'
<1>a. ASSUME SamePlace, UNCHANGED <<items, batch, bound, returned>> PROVE ListenerInv'
  BY <1>a, ListenerKept DEF SameBatches
<1>b. ASSUME UNCHANGED pc PROVE SamePlace
  BY <1>b DEF SamePlace
<1>c. ASSUME NEW k \in Conns, NEW s, pc[k] \notin Settled \cup {"adding"},
             pc' = [pc EXCEPT ![k] = s]
      PROVE  SamePlace
  BY <1>c DEF SamePlace, IInv, TypeOK
<1>d. ASSUME NEW r \in Requesters, Active(r), EndRequest(r) PROVE SamePlace
  BY <1>d DEF IInv, TypeOK, Active, Requesting, EndRequest, AfterRequest, SamePlace, Settled
<1>e. ASSUME NEW c \in Clients, DeleteConn(c), SamePlace, UNCHANGED <<batch, returned>>
      PROVE  ListenerInv'
  BY <1>a, <1>e, ListenerClear DEF DeleteConn, close
<1>f. ASSUME NEW c \in Clients, Subscribe(c), SamePlace, UNCHANGED <<batch, bound, returned>>
      PROVE  ListenerInv'
  <2>1. \A d \in Clients : items'[d].listeners = items[d].listeners
    BY <1>f, SubscribeItems DEF Absent, Void
  <2> QED BY <1>f, <2>1, ListenerKept DEF SameBatches
<1>g. ASSUME NEW k \in Conns PROVE Owner[k] \in Clients
  BY PoolAssumption
<1>1. ASSUME NEW k \in Conns, MarkDead(k) PROVE ListenerInv'
  BY <1>1, <1>b, <1>g, ListenerClear DEF MarkDead, close
<1>2. ASSUME NEW k \in Conns, LinkDown(k) PROVE ListenerInv'
  BY <1>2, <1>a, <1>b DEF LinkDown
<1>3. ASSUME NEW k \in Conns, Accept(k) \/ Refuse(k) \/ RefuseAdmitted(k) PROVE ListenerInv'
  BY <1>3, <1>a, <1>c DEF Accept, Refuse, RefuseAdmitted, RejectUnpooled, Settled
<1>4. ASSUME NEW k \in Conns, Admit(k) PROVE ListenerInv'
  BY <1>4, <1>a, <1>c, <1>f, <1>g DEF Admit, registryVars, Settled
<1>5. ASSUME NEW k \in Conns, AddConn(k) PROVE ListenerInv'
  <2>1. SamePlace
    BY <1>5, <1>c DEF AddConn, Settled
  <2> QED BY <1>5, <1>a, <1>g, <2>1, ListenerClear DEF AddConn
<1>6. ASSUME NEW r \in Requesters, GetClientConn(r) PROVE ListenerInv'
  BY <1>6, <1>a, <1>b, <1>d DEF GetClientConn
<1>7. ASSUME NEW r \in Requesters, Evict(r) PROVE ListenerInv'
  <2>1. Active(r) /\ via[r] \in Conns /\ SamePlace
    BY <1>7, <1>d DEF Evict, IInv, RequestInv
  <2>2. ClientOf(r) \in Clients
    BY <1>g, <2>1 DEF IInv, TypeOK, Active, ClientOf, Requesters
  <2> QED BY <1>7, <1>a, <2>1, <2>2, ListenerClear DEF Evict, close
<1>8. ASSUME NEW r \in Requesters, RequestEnds(r) PROVE ListenerInv'
  BY <1>8, <1>a, <1>d DEF RequestEnds, IInv, RequestInv
<1>9. ASSUME NEW r \in Requesters, Retry(r) PROVE ListenerInv'
  BY <1>9, <1>a, <1>b DEF Retry
<1>10. ASSUME NEW k \in Conns, HandshakeAnswered(k) PROVE ListenerInv'
  <2>1. SameBatches
    BY <1>10 DEF HandshakeAnswered, SameBatches, IInv, TypeOK, Batches
  <2>2. SamePlace
    BY <1>10, <1>c DEF HandshakeAnswered, Settled
  <2> QED BY <1>10, <2>1, <2>2, ListenerKept DEF HandshakeAnswered
<1>11. ASSUME NEW k \in Conns, AddTunnel(k) PROVE ListenerInv'
  <2> PICK t \in batch[k].todo : Listen(k, t) \/ AddHost(k, t) \/ Rollback(k)
    BY <1>11 DEF AddTunnel
  <2>1. t \in Tunnels
    BY DEF IInv, TypeOK, Batches
  <2>2. CASE Listen(k, t)
    BY <1>11, <2>1, <2>2, ListenerOpened DEF AddTunnel
  <2>3. CASE AddHost(k, t)
    <3>1. SameBatches
      BY <2>3 DEF AddHost, SameBatches, IInv, TypeOK, Batches
    <3> QED BY <1>11, <1>b, <2>3, <3>1, ListenerKept DEF AddTunnel, AddHost
  <2>4. CASE Rollback(k)
    BY <1>11, <2>4, ListenerRollback DEF AddTunnel
  <2> QED BY <2>2, <2>3, <2>4
<1>12. ASSUME NEW k \in Conns, Register(k) PROVE ListenerInv'
  BY <1>12, ListenerRegistered
<1>13. ASSUME NEW k \in Conns, RegisterFails(k) PROVE ListenerInv'
  BY <1>13, ListenerRollback DEF RegisterFails
<1>14. ASSUME NEW k \in Conns, RejectPooled(k) PROVE ListenerInv'
  BY <1>14, <1>c, <1>e, <1>g DEF RejectPooled, Settled
<1>15. ASSUME NEW u \in Users, handleHTTPConn(u) \/ listen(u) PROVE ListenerInv'
  BY <1>15, <1>a, <1>b DEF handleHTTPConn, listen
<1>16. ASSUME NEW c \in Clients, SubscribeClient(c) PROVE ListenerInv'
  BY <1>16, <1>b, <1>f DEF SubscribeClient
<1>17. ASSUME NEW c \in Clients, UnsubscribeConn(c) PROVE ListenerInv'
  BY <1>17, <1>b, <1>e DEF UnsubscribeConn
<1>18. ASSUME NEW c \in Clients, UnsubscribeItem(c) PROVE ListenerInv'
  BY <1>18, ListenerReturned
<1>19. CASE UNCHANGED vars
  BY <1>19, <1>a, <1>b DEF vars
<1> QED
  BY <1>1, <1>2, <1>3, <1>4, <1>5, <1>6, <1>7, <1>8, <1>9, <1>10, <1>11, <1>12, <1>13,
     <1>14, <1>15, <1>16, <1>17, <1>18, <1>19
  DEF Next, HandlerStep, RequestStep

-----------------------------------------------------------------------------
(* Served clients and the owner of the server.                             *)

\* A handler is settled after a step only if it was before.
NoneSettles == \A k \in Conns : pc'[k] \in Settled => pc[k] \in Settled

\* A step that leaves the pool and the registered items alone.
LEMMA ServedKept ==
    ASSUME IInv, NoneSettles, UNCHANGED conns,
           \A c \in Clients : items[c].kind = "item" => items'[c] = items[c]
    PROVE  ServedKeepsTunnels'
BY PoolAssumption DEF IInv, ServedKeepsTunnels, NoneSettles, Settled, Pooled

\* A step that disconnects a client whose connection is gone or not settled.
LEMMA ServedClear ==
    ASSUME IInv, NEW c \in Clients, NoneSettles, disconnected(c),
           \A d \in Clients : d # c => conns'[d] = conns[d],
           conns'[c] # NoConn => pc'[conns'[c]] \notin Settled
    PROVE  ServedKeepsTunnels'
<1>1. \A d \in Clients : d # c => items'[d] = items[d]
  BY ClearListeners DEF disconnected
<1> QED BY <1>1, PoolAssumption
        DEF IInv, ServedKeepsTunnels, NoneSettles, Settled, Pooled

\* Every step keeps the tunnels of served clients.
LEMMA ServedStepInv == ASSUME IInv, [Next]_vars PROVE ServedKeepsTunnels'
<1>a. ASSUME NoneSettles, UNCHANGED <<items, conns>> PROVE ServedKeepsTunnels'
  BY <1>a, ServedKept
<1>b. ASSUME UNCHANGED pc PROVE NoneSettles
  BY <1>b DEF NoneSettles
<1>c. ASSUME NEW k \in Conns, NEW s, s \notin Settled, pc' = [pc EXCEPT ![k] = s]
      PROVE  NoneSettles
  BY <1>c DEF NoneSettles, IInv, TypeOK
<1>d. ASSUME NEW r \in Requesters, Active(r), EndRequest(r) PROVE NoneSettles
  BY <1>d DEF IInv, TypeOK, Active, Requesting, EndRequest, AfterRequest, NoneSettles, Settled
<1>e. ASSUME NEW c \in Clients, DeleteConn(c), NoneSettles PROVE ServedKeepsTunnels'
  <2>1. CASE conns[c] = NoConn
    BY <1>a, <1>e, <2>1 DEF DeleteConn
  <2>2. CASE conns[c] # NoConn
    BY <1>e, <2>2, ClosedOut, ServedClear DEF DeleteConn, close
  <2> QED BY <2>1, <2>2
<1>f. ASSUME NEW c \in Clients, Subscribe(c), NoneSettles, UNCHANGED conns
      PROVE  ServedKeepsTunnels'
  BY <1>f, SubscribeItems, ServedKept DEF Absent
<1>g. ASSUME NEW k \in Conns PROVE Owner[k] \in Clients
  BY PoolAssumption
<1>1. ASSUME NEW k \in Conns, MarkDead(k) PROVE ServedKeepsTunnels'
  <2>1. DeleteConn(Owner[k])
    BY <1>1, PoolAssumption DEF MarkDead, DeleteConn, Pooled
  <2> QED BY <1>1, <1>b, <1>e, <1>g, <2>1 DEF MarkDead
<1>2. ASSUME NEW k \in Conns, LinkDown(k) PROVE ServedKeepsTunnels'
  BY <1>2, <1>a, <1>b DEF LinkDown
<1>3. ASSUME NEW k \in Conns, Accept(k) \/ Refuse(k) \/ RefuseAdmitted(k)
      PROVE  ServedKeepsTunnels'
  BY <1>3, <1>a, <1>c DEF Accept, Refuse, RefuseAdmitted, RejectUnpooled, Settled
<1>4. ASSUME NEW k \in Conns, Admit(k) PROVE ServedKeepsTunnels'
  BY <1>4, <1>a, <1>c, <1>f, <1>g DEF Admit, registryVars, Settled
<1>5. ASSUME NEW k \in Conns, AddConn(k) PROVE ServedKeepsTunnels'
  <2> PICK ok \in BOOLEAN :
        /\ ReplaceConn(k, ok)
        /\ pc' = [pc EXCEPT ![k] = IF ok THEN "handshake" ELSE "rejected"]
    BY <1>5 DEF AddConn
  <2>1. NoneSettles
    BY <1>c DEF Settled
  <2>2. \A d \in Clients : conns'[d] = IF d = Owner[k] THEN (IF ok THEN k ELSE NoConn)
                                                       ELSE conns[d]
    BY <1>g DEF ReplaceConn, IInv, TypeOK
  <2>3. pc'[k] \notin Settled
    BY DEF IInv, TypeOK, Settled
  <2>4. CASE conns[Owner[k]] # NoConn
    BY <1>5, <1>g, <2>1, <2>2, <2>3, <2>4, ServedClear DEF AddConn
  <2>5. CASE conns[Owner[k]] = NoConn
    <3>1. UNCHANGED items
      BY <1>5, <2>5 DEF AddConn
    <3> QED BY <2>1, <2>2, <2>3, <3>1, PoolAssumption
            DEF IInv, ServedKeepsTunnels, NoneSettles, Settled, Pooled
  <2> QED BY <2>4, <2>5
<1>6. ASSUME NEW r \in Requesters, GetClientConn(r) PROVE ServedKeepsTunnels'
  BY <1>6, <1>a, <1>b, <1>d DEF GetClientConn
<1>7. ASSUME NEW r \in Requesters, Evict(r) PROVE ServedKeepsTunnels'
  <2>1. Active(r) /\ via[r] \in Conns /\ NoneSettles
    BY <1>7, <1>d DEF Evict, IInv, RequestInv
  <2>2. ClientOf(r) \in Clients
    BY <1>g, <2>1 DEF IInv, TypeOK, Active, ClientOf, Requesters
  <2>3. CASE conns[ClientOf(r)] = via[r]
    BY <1>7, <1>e, <2>1, <2>2, <2>3, PoolAssumption DEF Evict, DeleteConn
  <2> QED BY <1>7, <1>a, <2>1, <2>3 DEF Evict
<1>8. ASSUME NEW r \in Requesters, RequestEnds(r) PROVE ServedKeepsTunnels'
  BY <1>8, <1>a, <1>d DEF RequestEnds, IInv, RequestInv
<1>9. ASSUME NEW r \in Requesters, Retry(r) PROVE ServedKeepsTunnels'
  BY <1>9, <1>a, <1>b DEF Retry
<1>10. ASSUME NEW k \in Conns, HandshakeAnswered(k) PROVE ServedKeepsTunnels'
  BY <1>10, <1>a, <1>c DEF HandshakeAnswered, Settled
<1>11. ASSUME NEW k \in Conns, AddTunnel(k) PROVE ServedKeepsTunnels'
  <2>1. UNCHANGED pc \/ pc' = [pc EXCEPT ![k] = "notify"]
    BY <1>11 DEF AddTunnel, Listen, AddHost, Rollback
  <2> QED BY <1>11, <1>a, <1>b, <1>c, <2>1 DEF AddTunnel, Settled
<1>12. ASSUME NEW k \in Conns, Register(k) PROVE ServedKeepsTunnels'
  <2>1. Owner[k] \in Clients /\ items[Owner[k]] = Void /\ UNCHANGED conns
    BY <1>12, <1>g DEF Register, set, CanSet
  <2>2. /\ items'[Owner[k]] = NewItem(batch[k].hosts, batch[k].listeners)
        /\ \A d \in Clients : d # Owner[k] => items'[d] = items[d]
    BY <1>12, <2>1 DEF Register, set, IInv, TypeOK, RegistryTypeOK
  <2>3. \A l \in batch[k].listeners : l[1] = k
    BY DEF IInv, BatchInv
  <2>4. \A j \in Conns : j # k => pc'[j] = pc[j]
    BY <1>12 DEF Register, IInv, TypeOK
  <2> SUFFICES ASSUME NEW j \in Conns, pc'[j] \in Settled, conns[Owner[j]] = j,
                      Owner[j] \notin Removable
               PROVE  /\ items'[Owner[j]].kind = "item"
                      /\ \A l \in items'[Owner[j]].listeners : l[1] = j
    BY <2>1 DEF ServedKeepsTunnels, Settled, Pooled
  <2>5. CASE j = k
    BY <2>2, <2>3, <2>5 DEF NewItem
  <2>6. CASE j # k
    <3>1. /\ items[Owner[j]].kind = "item"
          /\ \A l \in items[Owner[j]].listeners : l[1] = j
      BY <2>4, <2>6 DEF IInv, ServedKeepsTunnels, Settled, Pooled
    <3>2. Owner[j] # Owner[k]
      BY <2>1, <3>1 DEF Void
    <3> QED BY <1>g, <2>2, <3>1, <3>2
  <2> QED BY <2>5, <2>6
<1>13. ASSUME NEW k \in Conns, RegisterFails(k) PROVE ServedKeepsTunnels'
  BY <1>13, <1>a, <1>c DEF RegisterFails, Rollback, Settled
<1>14. ASSUME NEW k \in Conns, RejectPooled(k) PROVE ServedKeepsTunnels'
  BY <1>14, <1>c, <1>e, <1>g DEF RejectPooled, Settled
<1>15. ASSUME NEW u \in Users, handleHTTPConn(u) \/ listen(u) PROVE ServedKeepsTunnels'
  BY <1>15, <1>a, <1>b DEF handleHTTPConn, listen
<1>16. ASSUME NEW c \in Clients, SubscribeClient(c) PROVE ServedKeepsTunnels'
  BY <1>16, <1>b, <1>f DEF SubscribeClient
<1>17. ASSUME NEW c \in Clients, UnsubscribeConn(c) PROVE ServedKeepsTunnels'
  BY <1>17, <1>b, <1>e DEF UnsubscribeConn
<1>18. ASSUME NEW c \in Clients, UnsubscribeItem(c) PROVE ServedKeepsTunnels'
  <2>1. c \in Removable /\ UNCHANGED <<conns, pc>>
    BY <1>18 DEF UnsubscribeItem, IInv, AdmInv
  <2>2. \A d \in Clients : d # c => items'[d] = items[d]
    BY <1>18 DEF UnsubscribeItem, RegistryUnsubscribe, IInv, TypeOK, RegistryTypeOK
  <2> QED BY <2>1, <2>2, PoolAssumption DEF IInv, ServedKeepsTunnels, Pooled
<1>19. CASE UNCHANGED vars
  BY <1>19, <1>a, <1>b DEF vars
<1> QED
  BY <1>1, <1>2, <1>3, <1>4, <1>5, <1>6, <1>7, <1>8, <1>9, <1>10, <1>11, <1>12, <1>13,
     <1>14, <1>15, <1>16, <1>17, <1>18, <1>19
  DEF Next, HandlerStep, RequestStep

\* Every step keeps AdmInv: only Unsubscribe changes adm.
LEMMA AdmStepInv == ASSUME IInv, [Next]_vars PROVE AdmInv'
<1>1. ASSUME NEW c \in Clients, UnsubscribeConn(c) \/ UnsubscribeItem(c) PROVE AdmInv'
  BY <1>1 DEF UnsubscribeConn, UnsubscribeItem, IInv, TypeOK, AdmInv
<1>2. CASE UNCHANGED adm
  BY <1>2 DEF IInv, AdmInv
<1>3. ASSUME NEW k \in Conns,
             \/ Accept(k) \/ Admit(k) \/ Refuse(k) \/ HandlerStep(k) \/ LinkDown(k) \/ MarkDead(k)
      PROVE  UNCHANGED adm
  BY <1>3
  DEF Accept, Admit, Refuse, HandlerStep, RefuseAdmitted, AddConn, HandshakeAnswered,
      AddTunnel, Register, RegisterFails, RejectPooled, LinkDown, MarkDead
<1>4. ASSUME NEW r \in Requesters, RequestStep(r) PROVE UNCHANGED adm
  BY <1>4 DEF RequestStep, GetClientConn, Evict, RequestEnds, Retry
<1>5. ASSUME NEW u \in Users, handleHTTPConn(u) \/ listen(u) PROVE UNCHANGED adm
  BY <1>5 DEF handleHTTPConn, listen
<1>6. ASSUME NEW c \in Clients, SubscribeClient(c) PROVE UNCHANGED adm
  BY <1>6 DEF SubscribeClient
<1> QED BY <1>1, <1>2, <1>3, <1>4, <1>5, <1>6 DEF Next, vars

-----------------------------------------------------------------------------
(* The theorems.                                                           *)

\* The inductive invariant holds in every reachable state.
THEOREM ServerInvariant == Spec => []IInv
<1>1. Init => IInv
  <2> SUFFICES ASSUME Init PROVE IInv
    OBVIOUS
  <2>1. RegistryTypeOK /\ RegistryConsistent
    BY RegistryInit DEF Init, RegistryInv
  <2>2. TypeOK
    BY <2>1 DEF Init, PInit, TypeOK, SockStates, HandlerStates, Batches, EmptyBatch
  <2>3. RequestInv /\ AdmInv
    BY DEF Init, RequestInv, AdmInv
  <2>4. PoolInv /\ ServedKeepsTunnels
    BY DEF Init, PInit, PoolInv, ServedKeepsTunnels, InConnPool, Unpooled
  <2>5. BatchInv /\ PlaceInv /\ ListenersAccounted
    BY PoolAssumption
    DEF Init, RInit, Absent, EmptyBatch, BatchInv, PlaceInv, ListenersAccounted
  <2> QED BY <2>1, <2>2, <2>3, <2>4, <2>5 DEF IInv
<1>2. IInv /\ [Next]_vars => IInv'
  BY RegistryPart, TypeStep, RequestStepInv, PoolStepInv, ListenerStepInv, ServedStepInv,
     AdmStepInv
  DEF IInv, RegistryInv, ListenerInv
<1> QED BY <1>1, <1>2, PTL DEF Spec

\* All variables of the server keep their types.
THEOREM ServerTypeCorrect == Spec => []TypeOK
BY ServerInvariant, PTL DEF IInv

\* A handler that has returned leaves no socket open that the pool does not hold.
THEOREM ServerNoSocketLeak == Spec => []NoSocketLeak
<1>1. IInv => NoSocketLeak
  BY DEF IInv, PoolInv, NoSocketLeak, Finished, InConnPool
<1> QED BY <1>1, ServerInvariant, PTL

\* Every open listener is in a batch, in an item or in the hands of a caller
\* of Unsubscribe, and all of those are open.
THEOREM ServerListenersAccounted == Spec => []ListenersAccounted
BY ServerInvariant, PTL DEF IInv

\* A served client with a pooled connection keeps the tunnels it registered.
THEOREM ServerServedKeepsTunnels == Spec => []ServedKeepsTunnels
BY ServerInvariant, PTL DEF IInv

\* The server, with all its handlers, implements the directory of host names.
THEOREM ServerImplementsDirectory == Spec => ImplementsDirectory
<1>1. Init => Directory!DInit
  BY RegistryInit DEF Init
<1> QED BY <1>1, ServerInvariant, RegistryPart, PTL DEF Spec, ImplementsDirectory, Directory!DSpec

-----------------------------------------------------------------------------
(* The pool within the server.                                             *)

\* The socket of a handler that has not begun is one nobody has accepted.
Unaccepted == \A k \in Conns : pc[k] = "new" => sock[k] = "new"

\* What DeleteConn does to the pool is a step of the pool.
LEMMA CloseIsPoolStep ==
    ASSUME NEW c \in Clients, DeleteConn(c)
    PROVE  [PNext]_poolVars
BY DEF DeleteConn, close, PNext, poolVars

\* Every step of the server keeps Unaccepted: only Accept takes a handler from
\* its first state, and nothing else touches that handler's socket.
LEMMA UnacceptedStep == ASSUME IInv, Unaccepted, [Next]_vars PROVE Unaccepted'
<1>a. ASSUME UNCHANGED sock, \A k \in Conns : pc'[k] = "new" => pc[k] = "new"
      PROVE  Unaccepted'
  BY <1>a DEF Unaccepted
<1>b. ASSUME NEW c \in Clients, DeleteConn(c), \A k \in Conns : pc'[k] = "new" => pc[k] = "new"
      PROVE  Unaccepted'
  <2>1. CASE conns[c] = NoConn
    BY <1>a, <1>b, <2>1 DEF DeleteConn
  <2>2. CASE conns[c] # NoConn
    BY <1>b, <2>2, ClosedOut DEF Unaccepted, IInv, PoolInv, InConnPool
  <2> QED BY <2>1, <2>2
<1>c. ASSUME NEW k \in Conns, NEW s, s # "new", pc' = [pc EXCEPT ![k] = s]
      PROVE  \A j \in Conns : pc'[j] = "new" => pc[j] = "new" /\ j # k
  BY <1>c DEF IInv, TypeOK
<1>d. ASSUME NEW r \in Requesters, EndRequest(r), Active(r)
      PROVE  \A j \in Conns : pc'[j] = "new" => pc[j] = "new"
  BY <1>d DEF IInv, TypeOK, EndRequest, Active, Requesting, AfterRequest
<1>1. ASSUME NEW k \in Conns, MarkDead(k) PROVE Unaccepted'
  BY <1>1, <1>b, PoolAssumption DEF MarkDead, DeleteConn, Pooled
<1>2. ASSUME NEW k \in Conns, Accept(k) \/ Refuse(k) \/ RefuseAdmitted(k) PROVE Unaccepted'
  BY <1>2, <1>c DEF Accept, Refuse, RefuseAdmitted, RejectUnpooled, Unaccepted, IInv, TypeOK
<1>3. ASSUME NEW k \in Conns, Admit(k) PROVE Unaccepted'
  BY <1>3, <1>a, <1>c DEF Admit
<1>4. ASSUME NEW k \in Conns, AddConn(k) PROVE Unaccepted'
  <2> PICK ok \in BOOLEAN :
        /\ ReplaceConn(k, ok)
        /\ pc' = [pc EXCEPT ![k] = IF ok THEN "handshake" ELSE "rejected"]
    BY <1>4 DEF AddConn
  <2>1. \A j \in Conns : pc'[j] = "new" => pc[j] = "new" /\ j # k
    BY <1>c
  <2>2. \A j \in Conns : pc[j] = "new" => j # conns[Owner[k]]
    BY PoolAssumption DEF IInv, PoolInv, InConnPool
  <2> QED BY <2>1, <2>2 DEF ReplaceConn, Unaccepted
<1>5. ASSUME NEW k \in Conns, LinkDown(k) PROVE Unaccepted'
  BY <1>5 DEF LinkDown, Unaccepted, IInv, TypeOK
<1>6. ASSUME NEW k \in Conns, HandshakeAnswered(k) \/ Register(k) \/ RegisterFails(k)
      PROVE  Unaccepted'
  BY <1>6, <1>a DEF HandshakeAnswered, Register, RegisterFails, Rollback, IInv, TypeOK
<1>7. ASSUME NEW k \in Conns, AddTunnel(k) PROVE Unaccepted'
  <2>1. UNCHANGED pc \/ pc' = [pc EXCEPT ![k] = "notify"]
    BY <1>7 DEF AddTunnel, Listen, AddHost, Rollback
  <2> QED BY <1>7, <1>a, <1>c, <2>1 DEF AddTunnel
<1>8. ASSUME NEW k \in Conns, RejectPooled(k) PROVE Unaccepted'
  BY <1>8, <1>b, <1>c, PoolAssumption DEF RejectPooled
<1>9. ASSUME NEW r \in Requesters, RequestEnds(r) \/ Retry(r) \/ GetClientConn(r)
      PROVE  Unaccepted'
  BY <1>9, <1>a, <1>d DEF RequestEnds, Retry, GetClientConn, IInv, RequestInv
<1>10. ASSUME NEW r \in Requesters, Evict(r) PROVE Unaccepted'
  <2>1. Active(r) /\ via[r] \in Conns
    BY <1>10 DEF Evict, IInv, RequestInv
  <2>2. ClientOf(r) \in Clients
    BY <2>1, PoolAssumption DEF IInv, TypeOK, Active, ClientOf, Requesters
  <2>3. CASE conns[ClientOf(r)] = via[r]
    BY <1>10, <1>b, <1>d, <2>1, <2>2, <2>3, PoolAssumption DEF Evict, DeleteConn
  <2> QED BY <1>10, <1>a, <1>d, <2>1, <2>3 DEF Evict
<1>11. ASSUME NEW u \in Users, handleHTTPConn(u) \/ listen(u) PROVE Unaccepted'
  BY <1>11, <1>a DEF handleHTTPConn, listen
<1>12. ASSUME NEW c \in Clients, SubscribeClient(c) \/ UnsubscribeItem(c) PROVE Unaccepted'
  BY <1>12, <1>a DEF SubscribeClient, UnsubscribeItem
<1>13. ASSUME NEW c \in Clients, UnsubscribeConn(c) PROVE Unaccepted'
  BY <1>13, <1>b DEF UnsubscribeConn
<1>14. CASE UNCHANGED vars
  BY <1>14, <1>a DEF vars
<1> QED
  BY <1>1, <1>2, <1>3, <1>4, <1>5, <1>6, <1>7, <1>8, <1>9, <1>10, <1>11, <1>12, <1>13, <1>14
  DEF Next, HandlerStep, RequestStep

\* Every step of the server is a step of the pool or leaves it alone: a handler
\* closes a socket itself only while the pool does not hold it, and offers
\* AddConn only a socket the pool has not seen.
LEMMA PoolUse == ASSUME IInv, Unaccepted, [Next]_vars PROVE [PNext]_poolVars
<1>a. ASSUME UNCHANGED <<conns, sock>> PROVE [PNext]_poolVars
  BY <1>a DEF poolVars
<1>b. ASSUME NEW k \in Conns, pc[k] \in Unpooled PROVE ~Pooled(k) /\ sock[k] \in {"open", "down"}
  BY <1>b, PoolAssumption DEF IInv, PoolInv, Pooled, Unpooled, InConnPool
<1>1. ASSUME NEW k \in Conns, Accept(k) \/ LinkDown(k) PROVE [PNext]_poolVars
  BY <1>1 DEF Accept, LinkDown, Unaccepted, PNext, SockStep
<1>2. ASSUME NEW k \in Conns, Refuse(k) \/ RefuseAdmitted(k) PROVE [PNext]_poolVars
  BY <1>2, <1>b DEF Refuse, RefuseAdmitted, RejectUnpooled, Unpooled, PNext, SockStep
<1>3. ASSUME NEW k \in Conns, AddConn(k) PROVE [PNext]_poolVars
  BY <1>3, <1>b DEF AddConn, Unpooled, PNext, ReplaceStep
<1>4. ASSUME NEW k \in Conns, MarkDead(k) PROVE [PNext]_poolVars
  BY <1>4, CloseIsPoolStep, PoolAssumption DEF MarkDead, DeleteConn, Pooled
<1>5. ASSUME NEW k \in Conns, RejectPooled(k) PROVE [PNext]_poolVars
  BY <1>5, CloseIsPoolStep, PoolAssumption DEF RejectPooled
<1>6. ASSUME NEW c \in Clients, UnsubscribeConn(c) PROVE [PNext]_poolVars
  BY <1>6, CloseIsPoolStep DEF UnsubscribeConn
<1>7. ASSUME NEW r \in Requesters, Evict(r) PROVE [PNext]_poolVars
  <2>1. Active(r) /\ via[r] \in Conns
    BY <1>7 DEF Evict, IInv, RequestInv
  <2>2. ClientOf(r) \in Clients
    BY <2>1, PoolAssumption DEF IInv, TypeOK, Active, ClientOf, Requesters
  <2> QED BY <1>7, <1>a, <2>1, <2>2, CloseIsPoolStep, PoolAssumption DEF Evict, DeleteConn
<1>8. ASSUME NEW k \in Conns,
             \/ Admit(k) \/ HandshakeAnswered(k) \/ AddTunnel(k) \/ Register(k) \/ RegisterFails(k)
      PROVE  [PNext]_poolVars
  BY <1>8, <1>a DEF Admit, HandshakeAnswered, AddTunnel, Register, RegisterFails
<1>9. ASSUME NEW r \in Requesters, GetClientConn(r) \/ RequestEnds(r) \/ Retry(r)
      PROVE  [PNext]_poolVars
  BY <1>9, <1>a DEF GetClientConn, RequestEnds, Retry
<1>10. ASSUME NEW u \in Users, handleHTTPConn(u) \/ listen(u) PROVE [PNext]_poolVars
  BY <1>10, <1>a DEF handleHTTPConn, listen
<1>11. ASSUME NEW c \in Clients, SubscribeClient(c) \/ UnsubscribeItem(c) PROVE [PNext]_poolVars
  BY <1>11, <1>a DEF SubscribeClient, UnsubscribeItem
<1>12. CASE UNCHANGED vars
  BY <1>12, <1>a DEF vars
<1> QED
  BY <1>1, <1>2, <1>3, <1>4, <1>5, <1>6, <1>7, <1>8, <1>9, <1>10, <1>11, <1>12
  DEF Next, HandlerStep, RequestStep

\* The handlers, requests and calls of the server use the pool as its own
\* specification says.
THEOREM ServerUsesPool == Spec => PSpec
<1>1. Init => Unaccepted /\ PInit
  BY DEF Init, PInit, Unaccepted
<1>2. IInv /\ Unaccepted /\ [Next]_vars => Unaccepted' /\ [PNext]_poolVars
  BY UnacceptedStep, PoolUse
<1> QED BY <1>1, <1>2, ServerInvariant, PTL DEF Spec, PSpec

-----------------------------------------------------------------------------
(* Action properties.                                                      *)

\* The registry and the listeners change for one client at a time.
LEMMA OneClientAtATime ==
    ASSUME IInv, NEW e \in Clients,
           \A d \in Clients : d # e => items'[d] = items[d],
           \A h \in HostNames : hosts'[h] = hosts[h] \/ hosts[h] \in {e, NoClient},
           \A a \in Addrs : bound'[a] = bound[a] \/ <<bound[a], a>> \in items[e].listeners
    PROVE  DisturbsNoOther
<1> SUFFICES ASSUME NEW c \in Clients, NEW d \in Clients, c # d, items'[c] # items[c]
             PROVE  /\ items'[d] = items[d]
                    /\ \A h \in HostNames : hosts[h] = d => hosts'[h] = d
                    /\ \A a \in Addrs : bound[a] # NoConn /\ Owner[bound[a]] = d
                                        => bound'[a] = bound[a]
  BY DEF DisturbsNoOther
<1>1. c = e /\ d # e
  OBVIOUS
<1>2. \A h \in HostNames : hosts[h] = d => hosts'[h] = d
  BY <1>1, ClientAssumption
<1>3. ASSUME NEW a \in Addrs, bound[a] # NoConn, Owner[bound[a]] = d PROVE bound'[a] = bound[a]
  <2>1. bound[a] \in Conns
    BY <1>3 DEF IInv, TypeOK
  <2>2. <<bound[a], a>> \notin items[e].listeners
    BY <1>1, <1>3, <2>1 DEF IInv, PlaceInv
  <2> QED BY <2>2
<1> QED BY <1>1, <1>2, <1>3

\* disconnected touches no other client.
LEMMA DisconnectedAlone ==
    ASSUME IInv, NEW e \in Clients, disconnected(e)
    PROVE  DisturbsNoOther
<1>1. \A d \in Clients : d # e => items'[d] = items[d]
  BY ClearListeners DEF disconnected
<1>2. \A h \in HostNames : hosts'[h] = hosts[h] \/ hosts[h] \in {e, NoClient}
  BY DEF disconnected, clear, registryVars, DeleteHosts, IInv, RegistryConsistent
<1>3. \A a \in Addrs : bound'[a] = bound[a] \/ <<bound[a], a>> \in items[e].listeners
  BY DEF disconnected
<1> QED BY <1>1, <1>2, <1>3, OneClientAtATime

\* No step disturbs another client.
LEMMA UndisturbedStep == ASSUME IInv, [Next]_vars PROVE [DisturbsNoOther]_vars
<1>a. ASSUME UNCHANGED items PROVE DisturbsNoOther
  BY <1>a DEF DisturbsNoOther
<1>b. ASSUME NEW c \in Clients, DeleteConn(c) PROVE DisturbsNoOther
  BY <1>a, <1>b, DisconnectedAlone DEF DeleteConn, close
<1>c. ASSUME NEW c \in Clients, Subscribe(c), UNCHANGED bound PROVE DisturbsNoOther
  BY <1>c, SubscribeItems, OneClientAtATime DEF Subscribe
<1>d. ASSUME NEW k \in Conns PROVE Owner[k] \in Clients
  BY PoolAssumption
<1>1. ASSUME NEW k \in Conns, MarkDead(k) PROVE DisturbsNoOther
  BY <1>1, <1>d, DisconnectedAlone DEF MarkDead, close
<1>2. ASSUME NEW k \in Conns, Admit(k) PROVE DisturbsNoOther
  BY <1>2, <1>a, <1>c, <1>d DEF Admit, registryVars
<1>3. ASSUME NEW k \in Conns, AddConn(k) PROVE DisturbsNoOther
  BY <1>3, <1>a, <1>d, DisconnectedAlone DEF AddConn
<1>4. ASSUME NEW k \in Conns, RejectPooled(k) PROVE DisturbsNoOther
  BY <1>4, <1>b, <1>d DEF RejectPooled
<1>5. ASSUME NEW k \in Conns, Register(k) PROVE DisturbsNoOther
  <2>1. \A d \in Clients : d # Owner[k] => items'[d] = items[d]
    BY <1>5 DEF Register, set, IInv, TypeOK, RegistryTypeOK
  <2>2. \A h \in HostNames : hosts'[h] = hosts[h] \/ hosts[h] \in {Owner[k], NoClient}
    BY <1>5 DEF Register, set, CanSet, Keys
  <2>3. UNCHANGED bound
    BY <1>5 DEF Register
  <2> QED BY <1>d, <2>1, <2>2, <2>3, OneClientAtATime
<1>6. ASSUME NEW r \in Requesters, Evict(r) PROVE DisturbsNoOther
  <2>1. ClientOf(r) \in Clients
    BY <1>6, <1>d DEF Evict, IInv, TypeOK, RequestInv, Active, ClientOf, Requesters
  <2> QED BY <1>6, <1>a, <2>1, DisconnectedAlone DEF Evict, close
<1>7. ASSUME NEW c \in Clients, UnsubscribeConn(c) PROVE DisturbsNoOther
  BY <1>7, <1>b DEF UnsubscribeConn
<1>8. ASSUME NEW c \in Clients, UnsubscribeItem(c) PROVE DisturbsNoOther
  <2>1. \A d \in Clients : d # c => items'[d] = items[d]
    BY <1>8 DEF UnsubscribeItem, RegistryUnsubscribe, IInv, TypeOK, RegistryTypeOK
  <2>2. \A h \in HostNames : hosts'[h] = hosts[h] \/ hosts[h] \in {c, NoClient}
    BY <1>8 DEF UnsubscribeItem, RegistryUnsubscribe, DeleteHosts, IInv, RegistryConsistent
  <2>3. UNCHANGED bound
    BY <1>8 DEF UnsubscribeItem
  <2> QED BY <2>1, <2>2, <2>3, OneClientAtATime
<1>9. ASSUME NEW c \in Clients, SubscribeClient(c) PROVE DisturbsNoOther
  BY <1>9, <1>c DEF SubscribeClient
<1>10. ASSUME NEW k \in Conns,
              \/ Accept(k) \/ Refuse(k) \/ RefuseAdmitted(k) \/ HandshakeAnswered(k)
              \/ AddTunnel(k) \/ RegisterFails(k) \/ LinkDown(k)
       PROVE  DisturbsNoOther
  BY <1>10, <1>a
  DEF Accept, Refuse, RefuseAdmitted, HandshakeAnswered, AddTunnel, RegisterFails, LinkDown
<1>11. ASSUME NEW r \in Requesters, GetClientConn(r) \/ RequestEnds(r) \/ Retry(r)
       PROVE  DisturbsNoOther
  BY <1>11, <1>a DEF GetClientConn, RequestEnds, Retry
<1>12. ASSUME NEW u \in Users, handleHTTPConn(u) \/ listen(u) PROVE DisturbsNoOther
  BY <1>12, <1>a DEF handleHTTPConn, listen
<1> QED
  BY <1>1, <1>2, <1>3, <1>4, <1>5, <1>6, <1>7, <1>8, <1>9, <1>10, <1>11, <1>12
  DEF Next, HandlerStep, RequestStep

\* No step of the server takes away a route or a listener of another client
\* than the one it is for.
THEOREM ServerOthersUndisturbed == Spec => OthersUndisturbed
BY ServerInvariant, UndisturbedStep, PTL DEF Spec, OthersUndisturbed

\* An eviction ends a request and changes the pool only for the connection seen.
LEMMA EvictionStep == ASSUME IInv, [Next]_vars PROVE [EvictsOnlyTheOneSeen]_vars
<1>a. ASSUME UNCHANGED conns PROVE EvictsOnlyTheOneSeen
  BY <1>a DEF EvictsOnlyTheOneSeen
<1>b. ASSUME UNCHANGED req PROVE EvictsOnlyTheOneSeen
  BY <1>b DEF EvictsOnlyTheOneSeen
<1>1. ASSUME NEW r \in Requesters, Evict(r) PROVE EvictsOnlyTheOneSeen
  <2>1. Active(r) /\ ClientOf(r) \in Clients
    BY <1>1, PoolAssumption DEF Evict, IInv, TypeOK, RequestInv, Active, ClientOf, Requesters
  <2>2. \A c \in Clients : conns'[c] = conns[c] \/ conns[c] = via[r]
    BY <1>1, <2>1 DEF Evict, close, CloseConn, IInv, TypeOK
  <2>3. \A q \in Requesters : q # r => req'[q] = req[q]
    BY <1>1 DEF Evict, EndRequest, IInv, TypeOK
  <2> QED BY <2>2, <2>3 DEF EvictsOnlyTheOneSeen
<1>2. ASSUME NEW r \in Requesters, GetClientConn(r) \/ RequestEnds(r) \/ Retry(r)
      PROVE  EvictsOnlyTheOneSeen
  BY <1>2, <1>a DEF GetClientConn, RequestEnds, Retry
<1>3. ASSUME NEW k \in Conns,
             Accept(k) \/ Admit(k) \/ Refuse(k) \/ HandlerStep(k) \/ LinkDown(k) \/ MarkDead(k)
      PROVE  EvictsOnlyTheOneSeen
  BY <1>3, <1>a, <1>b
  DEF Accept, Admit, Refuse, HandlerStep, RefuseAdmitted, AddConn, HandshakeAnswered,
      AddTunnel, Register, RegisterFails, RejectPooled, LinkDown, MarkDead
<1>4. ASSUME NEW u \in Users, handleHTTPConn(u) \/ listen(u) PROVE EvictsOnlyTheOneSeen
  BY <1>4, <1>a DEF handleHTTPConn, listen
<1>5. ASSUME NEW c \in Clients, SubscribeClient(c) \/ UnsubscribeConn(c) \/ UnsubscribeItem(c)
      PROVE  EvictsOnlyTheOneSeen
  BY <1>5, <1>b DEF SubscribeClient, UnsubscribeConn, UnsubscribeItem
<1> QED BY <1>1, <1>2, <1>3, <1>4, <1>5 DEF Next, RequestStep

\* GetClientConn never closes the connection a client has reconnected with.
THEOREM ServerEvictionSparesSuccessor == Spec => EvictionSparesSuccessor
BY ServerInvariant, EvictionStep, PTL DEF Spec, EvictionSparesSuccessor

==============================================================================
