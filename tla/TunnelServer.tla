----------------------------- MODULE TunnelServer -----------------------------
(***************************************************************************)
(* server.go composed with the registry and the connection pool: one       *)
(* handleClient goroutine for every accepted control connection, the       *)
(* requests it and the users' proxyConn goroutines send through the pool,  *)
(* the readLoop of every HTTP/2 connection, which reports its death, and   *)
(* callers of Subscribe and Unsubscribe.                                   *)
(*                                                                         *)
(* A request over httpClient is addressed to a client and not to a         *)
(* connection.  It first looks the connection up (GetClientConn), is then  *)
(* in flight on it, and may be started again by the HTTP/2 transport when  *)
(* the connection dies; GetClientConn releases pool.mu between finding a   *)
(* connection unusable and evicting it.                                    *)
(*                                                                         *)
(* net.Listen may fail for reasons outside this model at any time, so the  *)
(* moment at which disconnected and the rollback of addTunnels close each  *)
(* of several listeners cannot be observed, and they close all in a step.  *)
(***************************************************************************)
EXTENDS Registry, ConnPool, Naturals, FiniteSets

CONSTANTS
    Addrs,          \* TCP addresses a tunnel may ask for
    Slugs,          \* the strings proto.ValidSubdomainLabel accepts
    BaseDomain,     \* ServerConfig.BaseDomain, a name and a port, or NoDomain
    NoDomain,
    Offers,         \* the tunnel maps clients answer the handshake with
    AutoSubscribe,  \* ServerConfig.AutoSubscribe
    Removable,      \* clients somebody may call Server.Unsubscribe for
    Users,          \* end users, each with one connection at a time
    MaxStreams      \* the peer's limit of concurrent HTTP/2 streams

\* strings.Join of slug and base domain: the port of the base domain, if any,
\* becomes the port of the host.
httpFullHost(base, slug) == [host |-> <<slug, base.name>>, port |-> base.port]

Tunnels == UNION Offers

ASSUME ServerAssumption ==
    /\ Conns \cap Users = {}
    /\ Conns \X Addrs \subseteq Listeners
    /\ BaseDomain # NoDomain => \A s \in Slugs : httpFullHost(BaseDomain, s) \in HostPorts
    /\ \A t \in Tunnels : t.proto = "tcp" => t.addr \in Addrs
    /\ AutoSubscribe \in BOOLEAN
    /\ Removable \subseteq Clients
    /\ MaxStreams \in Nat

VARIABLES
    pc,        \* pc[k]: where handleClient is for connection k
    batch,     \* batch[k]: what addTunnels has still to add, and has added
    bound,     \* bound[a]: whose listener on address a is open
    req,       \* req[r]: state of the request of handler or user r
    via,       \* via[r]: the connection that GetClientConn returned to r
    target,    \* target[u]: the client that proxyConn of user u talks to
    adm,       \* adm[c]: where Server.Unsubscribe is for client c
    returned   \* listeners of the items Server.Unsubscribe has returned

serverVars == <<pc, batch, bound, req, via, target, adm, returned>>
vars == <<items, hosts, conns, sock, pc, batch, bound, req, via, target, adm, returned>>

Requesters == Conns \cup Users

Batches == [todo : SUBSET Tunnels, hosts : SUBSET HostPorts, listeners : SUBSET Listeners]

EmptyBatch == [todo |-> {}, hosts |-> {}, listeners |-> {}]

\* "handshake", "info" and "notify" are requests: handshake, notifyTunnelInfo
\* and notifyError.  From "notify" on the handler is at its reject label.
HandlerStates == {"new", "accepted", "admitted", "handshake", "adding", "info",
                  "notify", "delete", "served", "rejected"}
Finished   == {"served", "rejected"}
Requesting == {"handshake", "info", "notify"}

Init == /\ RInit
        /\ PInit
        /\ pc = [k \in Conns |-> "new"]
        /\ batch = [k \in Conns |-> EmptyBatch]
        /\ bound = [a \in Addrs |-> NoConn]
        /\ req = [r \in Requesters |-> "idle"]
        /\ via = [r \in Requesters |-> NoConn]
        /\ target = [u \in Users |-> NoClient]
        /\ adm = [c \in Clients |-> "idle"]
        /\ returned = {}

-----------------------------------------------------------------------------
(* Closing a pooled connection.                                            *)

\* disconnected: clear the registry item and close its listeners.
disconnected(c) ==
    /\ clear(c)
    /\ bound' = [a \in Addrs |-> IF <<bound[a], a>> \in items[c].listeners
                                 THEN NoConn ELSE bound[a]]

\* pool.close with the callback the server gave to newConnPool
close(c) == CloseConn(c) /\ disconnected(c)

DeleteConn(c) ==
    IF conns[c] # NoConn THEN close(c)
                         ELSE UNCHANGED <<conns, sock, items, hosts, bound>>

\* The readLoop of k ends and reports it to the pool, which compares
\* connections: if k was replaced it does nothing.  It reports only once; that
\* this is never before k is in the pool is ReportNotLost of PoolLocks.
MarkDead(k) ==
    /\ sock[k] = "down"
    /\ Pooled(k)
    /\ close(Owner[k])
    /\ UNCHANGED <<pc, batch, req, via, target, adm, returned>>

-----------------------------------------------------------------------------
(* handleClient up to the pool.                                            *)

Accept(k) ==
    /\ pc[k] = "new"
    /\ pc' = [pc EXCEPT ![k] = "accepted"]
    /\ sock' = [sock EXCEPT ![k] = "open"]
    /\ UNCHANGED <<items, hosts, conns, batch, bound, req, via, target, adm, returned>>

\* Fault: AutoSubscribe lets a client in without subscribing it.
AdmitUnsubscribed(k) ==
    /\ pc[k] = "accepted"
    /\ AutoSubscribe \/ IsSubscribed(Owner[k])
    /\ pc' = [pc EXCEPT ![k] = "admitted"]
    /\ UNCHANGED <<items, hosts, conns, sock, batch, bound, req, via, target, adm, returned>>

\* PeerID succeeds and the client is subscribed, or is being subscribed.
Admit(k) ==
    /\ pc[k] = "accepted"
    /\ IF AutoSubscribe THEN Subscribe(Owner[k])
                        ELSE IsSubscribed(Owner[k]) /\ UNCHANGED registryVars
    /\ pc' = [pc EXCEPT ![k] = "admitted"]
    /\ UNCHANGED <<conns, sock, batch, bound, req, via, target, adm, returned>>

\* reject before inConnPool: the handler closes its own connection.
RejectUnpooled(k) ==
    /\ pc' = [pc EXCEPT ![k] = "rejected"]
    /\ sock' = [sock EXCEPT ![k] = "closed"]

\* PeerID fails, for which the TLS handshake may take any time, or the client
\* is unknown.
Refuse(k) ==
    /\ pc[k] = "accepted"
    /\ RejectUnpooled(k)
    /\ UNCHANGED <<items, hosts, conns, batch, bound, req, via, target, adm, returned>>

\* SetDeadline fails on a dead socket, or AddConn finds the client connected.
RefuseAdmitted(k) ==
    /\ pc[k] = "admitted"
    /\ sock[k] = "down" \/ AlreadyConnected(k)
    /\ RejectUnpooled(k)
    /\ UNCHANGED <<items, hosts, conns, batch, bound, req, via, target, adm, returned>>

AddConn(k) ==
    /\ pc[k] = "admitted"
    /\ \E ok \in BOOLEAN :
          /\ ok \/ sock[k] = "down"
          /\ ReplaceConn(k, ok)
          /\ pc' = [pc EXCEPT ![k] = IF ok THEN "handshake" ELSE "rejected"]
    /\ IF conns[Owner[k]] # NoConn THEN disconnected(Owner[k])
                                   ELSE UNCHANGED <<items, hosts, bound>>
    /\ UNCHANGED <<batch, req, via, target, adm, returned>>

-----------------------------------------------------------------------------
(* Requests through the pool, of handlers and of users.                    *)

Streams(k) == Cardinality({ r \in Requesters : req[r] = "sent" /\ via[r] = k })

CanTakeNewRequest(k) == sock[k] = "open" /\ Streams(k) < MaxStreams

Active(r) == IF r \in Conns THEN pc[r] \in Requesting ELSE target[r] # NoClient

ClientOf(r) == IF r \in Conns THEN Owner[r] ELSE target[r]

\* Where the handler goes when its request ends without an offer of tunnels.
AfterRequest(state) == CASE state = "handshake" -> "notify"
                         [] state = "info"      -> "served"
                         [] state = "notify"    -> "delete"

EndRequest(r) ==
    /\ req' = [req EXCEPT ![r] = "idle"]
    /\ via' = [via EXCEPT ![r] = NoConn]
    /\ IF r \in Conns
       THEN pc' = [pc EXCEPT ![r] = AfterRequest(pc[r])] /\ UNCHANGED target
       ELSE target' = [target EXCEPT ![r] = NoClient] /\ UNCHANGED pc

\* GetClientConn: the client has no connection, or one that can take the
\* request, or one that cannot and will be evicted.
GetClientConn(r) ==
    LET k == conns[ClientOf(r)]
    IN  /\ Active(r)
        /\ req[r] = "idle"
        /\ \/ /\ k = NoConn
              /\ EndRequest(r)
           \/ /\ k # NoConn
              /\ req' = [req EXCEPT ![r] = IF CanTakeNewRequest(k) THEN "sent" ELSE "evict"]
              /\ via' = [via EXCEPT ![r] = k]
              /\ UNCHANGED <<pc, target>>
        /\ UNCHANGED <<items, hosts, conns, sock, batch, bound, adm, returned>>

\* Faults: the eviction does not compare the connection with the one it saw;
\* or it returns only once it has evicted.
EvictAny(r) ==
    /\ req[r] = "evict"
    /\ DeleteConn(ClientOf(r))
    /\ EndRequest(r)
    /\ UNCHANGED <<batch, adm, returned>>

EvictOrWait(r) ==
    /\ req[r] = "evict"
    /\ conns[ClientOf(r)] = via[r]
    /\ close(ClientOf(r))
    /\ EndRequest(r)
    /\ UNCHANGED <<batch, adm, returned>>

\* GetClientConn again under pool.mu: the connection goes if it is still there.
Evict(r) ==
    /\ req[r] = "evict"
    /\ IF conns[ClientOf(r)] = via[r] THEN close(ClientOf(r))
                                      ELSE UNCHANGED <<conns, sock, items, hosts, bound>>
    /\ EndRequest(r)
    /\ UNCHANGED <<batch, adm, returned>>

\* Fault: a request without the timeout of DefaultTimeout, and a peer that does
\* not answer.
RequestEndsNoTimeout(r) ==
    /\ req[r] = "sent"
    /\ sock[via[r]] # "open"
    /\ EndRequest(r)
    /\ UNCHANGED <<items, hosts, conns, sock, batch, bound, adm, returned>>

\* The response of a push or of a proxied stream ends; or a handshake answer
\* is unusable; or the request fails, times out or is cancelled.
RequestEnds(r) ==
    /\ req[r] = "sent"
    /\ EndRequest(r)
    /\ UNCHANGED <<items, hosts, conns, sock, batch, bound, adm, returned>>

\* http2.Transport starts a request again whose connection died under it.
Retry(r) ==
    /\ req[r] = "sent"
    /\ sock[via[r]] # "open"
    /\ req' = [req EXCEPT ![r] = "idle"]
    /\ via' = [via EXCEPT ![r] = NoConn]
    /\ UNCHANGED <<items, hosts, conns, sock, pc, batch, bound, target, adm, returned>>

\* The client answers the handshake; an empty tunnel map is an error.
HandshakeAnswered(k) ==
    /\ pc[k] = "handshake"
    /\ req[k] = "sent"
    /\ sock[via[k]] = "open"
    /\ \E T \in Offers :
          /\ pc' = [pc EXCEPT ![k] = IF T = {} THEN "notify" ELSE "adding"]
          /\ batch' = [batch EXCEPT ![k].todo = T]
    /\ req' = [req EXCEPT ![k] = "idle"]
    /\ via' = [via EXCEPT ![k] = NoConn]
    /\ UNCHANGED <<items, hosts, conns, sock, bound, target, adm, returned>>

-----------------------------------------------------------------------------
(* addTunnels.                                                             *)

Usable(t) == t.proto = "http" /\ BaseDomain # NoDomain /\ t.host \in Slugs

Listen(k, t) ==
    /\ t.proto = "tcp"
    /\ bound[t.addr] = NoConn
    /\ bound' = [bound EXCEPT ![t.addr] = k]
    /\ batch' = [batch EXCEPT ![k].todo = @ \ {t},
                              ![k].listeners = @ \cup {<<k, t.addr>>}]
    /\ UNCHANGED pc

AddHost(k, t) ==
    /\ Usable(t)
    /\ batch' = [batch EXCEPT ![k].todo = @ \ {t},
                              ![k].hosts = @ \cup {httpFullHost(BaseDomain, t.host)}]
    /\ UNCHANGED <<bound, pc>>

\* Fault: the rollback forgets the listeners already open.
RollbackNothing(k) ==
    /\ UNCHANGED bound
    /\ batch' = [batch EXCEPT ![k] = EmptyBatch]
    /\ pc' = [pc EXCEPT ![k] = "notify"]

Rollback(k) ==
    /\ bound' = [a \in Addrs |-> IF <<bound[a], a>> \in batch[k].listeners
                                 THEN NoConn ELSE bound[a]]
    /\ batch' = [batch EXCEPT ![k] = EmptyBatch]
    /\ pc' = [pc EXCEPT ![k] = "notify"]

\* One turn of the loop; the order of the map is arbitrary.
AddTunnel(k) ==
    /\ pc[k] = "adding"
    /\ \E t \in batch[k].todo : \/ Listen(k, t)
                                \/ AddHost(k, t)
                                \/ ~Usable(t) /\ Rollback(k)
    /\ UNCHANGED <<items, hosts, conns, sock, req, via, target, adm, returned>>

\* The batch is complete and registry.set accepts it: the listeners start.
Register(k) ==
    /\ pc[k] = "adding"
    /\ batch[k].todo = {}
    /\ set(Owner[k], batch[k].hosts, batch[k].listeners)
    /\ batch' = [batch EXCEPT ![k] = EmptyBatch]
    /\ pc' = [pc EXCEPT ![k] = IF batch[k].hosts = {} THEN "served" ELSE "info"]
    /\ UNCHANGED <<conns, sock, bound, req, via, target, adm, returned>>

RegisterFails(k) ==
    /\ pc[k] = "adding"
    /\ batch[k].todo = {}
    /\ ~CanSet(Owner[k], batch[k].hosts)
    /\ Rollback(k)
    /\ UNCHANGED <<items, hosts, conns, sock, req, via, target, adm, returned>>

\* reject after notifyError: by identifier, whatever connection is there now.
RejectPooled(k) ==
    /\ pc[k] = "delete"
    /\ DeleteConn(Owner[k])
    /\ pc' = [pc EXCEPT ![k] = "rejected"]
    /\ UNCHANGED <<batch, req, via, target, adm, returned>>

-----------------------------------------------------------------------------
(* Users, the network and the server's owner.                              *)

\* handleHTTPConn finds the client for the Host header (or answers 404).
handleHTTPConn(u) ==
    /\ target[u] = NoClient
    /\ \E hp \in HostPorts : /\ Subscriber(hp) # NoClient
                             /\ target' = [target EXCEPT ![u] = Subscriber(hp)]
    /\ UNCHANGED <<items, hosts, conns, sock, pc, batch, bound, req, via, adm, returned>>

\* The accept loop of a listener, which runs once the batch is registered.
listen(u) ==
    /\ target[u] = NoClient
    /\ \E a \in Addrs :
          /\ bound[a] # NoConn
          /\ <<bound[a], a>> \notin batch[bound[a]].listeners
          /\ target' = [target EXCEPT ![u] = Owner[bound[a]]]
    /\ UNCHANGED <<items, hosts, conns, sock, pc, batch, bound, req, via, adm, returned>>

LinkDown(k) ==
    /\ sock[k] = "open"
    /\ sock' = [sock EXCEPT ![k] = "down"]
    /\ UNCHANGED <<items, hosts, conns, pc, batch, bound, req, via, target, adm, returned>>

SubscribeClient(c) ==
    /\ Subscribe(c)
    /\ UNCHANGED <<conns, sock, pc, batch, bound, req, via, target, adm, returned>>

\* Server.Unsubscribe: first the pool, then the registry.
UnsubscribeConn(c) ==
    /\ c \in Removable
    /\ adm[c] = "idle"
    /\ DeleteConn(c)
    /\ adm' = [adm EXCEPT ![c] = "deleted"]
    /\ UNCHANGED <<pc, batch, req, via, target, returned>>

UnsubscribeItem(c) ==
    /\ adm[c] = "deleted"
    /\ RegistryUnsubscribe(c)
    /\ returned' = returned \cup items[c].listeners
    /\ adm' = [adm EXCEPT ![c] = "idle"]
    /\ UNCHANGED <<conns, sock, pc, batch, bound, req, via, target>>

-----------------------------------------------------------------------------

HandlerStep(k) == \/ RefuseAdmitted(k) \/ AddConn(k)
                  \/ HandshakeAnswered(k)
                  \/ AddTunnel(k) \/ Register(k) \/ RegisterFails(k)
                  \/ RejectPooled(k)

RequestStep(r) == GetClientConn(r) \/ Evict(r) \/ RequestEnds(r) \/ Retry(r)

Next == \/ \E k \in Conns : \/ Accept(k) \/ Admit(k) \/ Refuse(k)
                            \/ HandlerStep(k)
                            \/ LinkDown(k) \/ MarkDead(k)
        \/ \E r \in Requesters : RequestStep(r)
        \/ \E u \in Users : handleHTTPConn(u) \/ listen(u)
        \/ \E c \in Clients : SubscribeClient(c) \/ UnsubscribeConn(c) \/ UnsubscribeItem(c)

Spec == Init /\ [][Next]_vars

StreamBroken(u) == req[u] = "sent" /\ sock[via[u]] # "open"

\* A handler past PeerID always has a step to take: AddConn pings with a
\* timeout, requests of handlers carry DefaultTimeout.  Nothing bounds the TLS
\* handshake, nor a user's stream while its connection lives.  MarkDead owes
\* nothing: the reader reports once, which PoolLocks has.
Fairness ==
    /\ \A k \in Conns : WF_vars(HandlerStep(k) \/ RequestStep(k))
    /\ \A u \in Users : /\ WF_vars(GetClientConn(u) \/ Evict(u))
                        /\ WF_vars(StreamBroken(u) /\ (RequestEnds(u) \/ Retry(u)))

FairSpec == Spec /\ Fairness

-----------------------------------------------------------------------------
(* Properties.  First the two actions that action properties are about.    *)

DisturbsNoOther ==
    \A c, d \in Clients : c # d /\ items'[c] # items[c] =>
        /\ items'[d] = items[d]
        /\ \A h \in HostNames : hosts[h] = d => hosts'[h] = d
        /\ \A a \in Addrs : bound[a] # NoConn /\ Owner[bound[a]] = d => bound'[a] = bound[a]

EvictsOnlyTheOneSeen ==
    \A r \in Requesters : req[r] = "evict" /\ req'[r] = "idle" =>
        \A c \in Clients : conns'[c] = conns[c] \/ conns[c] = via[r]

\* Every variable has the type its counterpart in the code has.
TypeOK ==
    /\ RegistryTypeOK
    /\ conns \in [Clients -> Conns \cup {NoConn}]
    /\ sock \in [Conns -> SockStates]
    /\ pc \in [Conns -> HandlerStates]
    /\ batch \in [Conns -> Batches]
    /\ bound \in [Addrs -> Conns \cup {NoConn}]
    /\ req \in [Requesters -> {"idle", "sent", "evict"}]
    /\ via \in [Requesters -> Conns \cup {NoConn}]
    /\ target \in [Users -> Clients \cup {NoClient}]
    /\ adm \in [Clients -> {"idle", "deleted"}]
    /\ returned \subseteq Listeners

\* When handleClient has returned, its socket is closed or in the pool under
\* its own client.  The reject path closes whatever connection the client has
\* now and not its own, so a handler whose connection was replaced relies on
\* the pool to have closed it.
NoSocketLeak ==
    \A k \in Conns : pc[k] \in Finished => sock[k] = "closed" \/ Pooled(k)

\* The open listeners are those of batches being added, of registered items,
\* and of items handed to the caller of Unsubscribe: a rollback, a disconnect
\* or a failed set leaves none behind, and none is closed while registered.
ListenersAccounted ==
    \A k \in Conns, a \in Addrs :
        bound[a] = k <=> \/ <<k, a>> \in batch[k].listeners
                        \/ <<k, a>> \in items[Owner[k]].listeners
                        \/ <<k, a>> \in returned

\* A client whose handler registered its tunnels and whose connection is still
\* pooled has an item in the registry, and every listener of that item is one
\* this handler opened: no late handler of an older connection put its own in
\* their place, no disconnect of an older connection cleared them.  (Whether the
\* item lacks a tunnel that was offered is not asked.  Unsubscribe does take the
\* item away; see UnsubscribedDisconnected.)
ServedKeepsTunnels ==
    \A k \in Conns : pc[k] \in {"info", "served"} /\ Pooled(k) /\ Owner[k] \notin Removable
        => /\ items[Owner[k]].kind = "item"
           /\ \A l \in items[Owner[k]].listeners : l[1] = k

\* A step that registers, clears or removes one client's item leaves the
\* routes and the listeners of every other client alone, although hosts are
\* deleted by name and without a look at their owner.
OthersUndisturbed == [][DisturbsNoOther]_vars

\* GetClientConn closes no other connection than the one it found unusable,
\* though the client may have reconnected before pool.mu is taken again.
EvictionSparesSuccessor == [][EvictsOnlyTheOneSeen]_vars

\* A handler that got past PeerID returns.
HandlerReturns == \A k \in Conns : pc[k] = "admitted" ~> pc[k] \in Finished

\* A user's request does not stay with a dead connection.
UserLeavesDeadConn ==
    \A u \in Users, k \in Conns : via[u] = k /\ sock[k] # "open" ~> via[u] # k

\* "cp is still registered but can no longer accept new streams": what
\* GetClientConn evicts cannot take a request at that moment.
EvictedIsUnusable ==
    [][\A r \in Requesters : req[r] = "evict" /\ req'[r] = "idle" /\ sock[via[r]] # "closed"
          => ~CanTakeNewRequest(via[r])]_vars

\* No handler of c is at work and nobody is unsubscribing it.
Quiet(c) == adm[c] = "idle" /\ \A k \in Conns : Owner[k] = c => pc[k] \in Finished \cup {"new"}

\* "disconnected clears resources used by client, it's invoked by connection
\* pool when client goes away": a client without a connection has nothing
\* registered, once its handlers have returned.
ResourcesCleared ==
    \A c \in Clients : Quiet(c) /\ conns[c] = NoConn => items[c].kind # "item"

\* "Unsubscribe removes client from registry, disconnects client if already
\* connected": a client that is not subscribed has no connection, once its
\* handlers and Unsubscribe have returned.
UnsubscribedDisconnected ==
    \A c \in Clients : Quiet(c) /\ ~IsSubscribed(c) => conns[c] = NoConn

==============================================================================
