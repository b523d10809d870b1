# A TLA+ model of go-stream-tunnel

Go Stream Tunnel exposes services behind a firewall: a client inside dials a
server outside, and the server sends the connections of its users down that one
HTTP/2 connection. This directory models the parts in which several goroutines,
two processes and an unreliable network meet, checks them with TLC on small
instances and proves the central safety properties with TLAPS for every size.

`PROJECT.json` lists components, runs, mutants, the map from definitions to
source lines, the findings, the hazards and the theorems. Paths below are
relative to the repository (`src/`).

## 1. Inventory

| Component | State | Operations | Meets |
|---|---|---|---|
| registry (`registry.go`) | `items`, `hosts`, one mutex | Subscribe, IsSubscribed, Subscriber, Unsubscribe, set, clear | called by handlers, by users' connections, by the pool through `disconnected`, by the owner of the server |
| connection pool (`pool.go`) | `conns`: at most one connection for each client; one mutex | AddConn, GetClientConn, MarkDead, DeleteConn, Ping, close | called by handlers, by the HTTP/2 transport (look-up, death of a connection), by Unsubscribe; calls `disconnected` with its mutex held |
| server, control connections (`server.go`) | one `handleClient` goroutine for each connection, the batch `addTunnels` builds, open listeners | handleClient, addTunnels, notifyError, notifyTunnelInfo, disconnected, Unsubscribe | registry, pool, client |
| server, users (`server.go`, `httphost.go`) | one goroutine for each user connection | listen, listenHTTP, handleHTTPConn, proxyConn | registry (host to client), pool (client to connection) |
| server, lifecycle (`server.go`) | two listeners | NewServer, Start, Stop | the context of the command |
| client, connection loop (`client.go`, `backoff.go`) | `conn`, `serverErr`, `lastDisconnect`, the backoff's clock; one mutex | Start, connect, dial, Stop, handleHandshakeError | server, context, callers of Stop |
| client, streams (`streamproxy.go`, `utils.go`, `proto/controlmsg.go`) | the table of local addresses; one local connection and one goroutine for each stream | Proxy, localAddrFor, transfer, flushWriter | server's proxyConn, local services |
| server command (`cmd/server`, `cmd/go-stream-tunnel/main.go`) | the context and its signal, the list of clients | Execute, tlsConfig, Subscribe of each listed client | server lifecycle |
| client configuration (`cmd/client`, `httphost.go`, `utils.go`) | the completed tunnels | loadClientConfigFromFile, completeTCP, completeHTTP, NormalizeAddress, proxy | the server's listeners and host names |
| CA command (`ca/`, `cmd/ca`) | four files | init, issue | other runs of itself, the file system |
| identifiers (`id/`) | none | New, String, UnmarshalText, PeerID | keys of registry and pool |
| flags, logging, keep-alive, chart, mocks | none of interest | | |

What is hard here:

* A request is addressed to a *client*; which *connection* carries it is decided
  when it is sent, and may have changed when it ends. The reject path of a
  handler, the eviction of an unusable connection and the retries of the HTTP/2
  transport all act on "the connection of client c", which may be a newer one.
* A connection can die at any moment of its own handshake, and its death is
  handled by a different goroutine than the handshake.
* Two handlers of the same client overlap whenever it reconnects quickly.
* The client holds its mutex while it dials and sleeps; a stop that comes at the
  wrong moment finds nothing to stop.
* Handlers of a lost connection run on while the next one is in use.
* AddConn pings the old connection with `pool.mu` held, and the answer can only be
  taken in by a reader that may itself be waiting for `pool.mu`.
* A proxied connection is four copying goroutines in two processes; the end of one
  of them has to end the others without cutting off what is still on its way.
* The name under which a connection reaches the client is what the server's system
  calls the listener, and is looked up in a table made from the client's file.
* The server can be stopped by a signal or a caller while it is starting.
* Each end learns of the loss of a connection in its own time.

What makes the parts correct: the two maps of the registry agree and no client
loses a name to another (registry); at most one connection for each client, none
leaked, none closed by mistake (pool); listeners neither leaked nor closed while
in use, tunnels present exactly while their connection is (server); every
handler and every user's request comes to an end (server); Start ends when it is
told to, and not before (client); everybody who needs the pool's lock gets it; a
finished answer is complete, and when a stream ends the goroutines that copy over it
end too unless a peer that stays has stopped reading (streams); a connection ends at the local address of the tunnel it came in by (configuration);
a stopped server accepts nobody (lifecycle); nothing the CA command reported as
created is damaged later; and as long as the network holds, client and server
together come to serve and stay (composition).

## 2. Modules

| Module | Models | Kind |
|---|---|---|
| `Identifiers` | the identities registry, pool and server share | constants |
| `HostDirectory` | what the registry promises: names are taken when free, in one step, and given back in one step | abstract specification |
| `Registry` | `registry.go` | component; refines `HostDirectory` with `owner <- hosts` |
| `ConnPool` | what the critical sections of `pool.go` do to pool and sockets | component |
| `TunnelServer` | `server.go` over registry and pool, users, network, Unsubscribe | composition |
| `MCTunnelServer` | instances of it | TLC |
| `Client` | `client.go`, loop and backoff | component |
| `PoolLocks`, `MCPoolLocks` | `pool.go` lock by lock: pings, readers, requests | component; refines `ConnPool` |
| `StreamPipe` | proxyConn, Proxy and transfer: one proxied connection | component |
| `TunnelRouting`, `MCTunnelRouting` | from the client's file to the local address of a connection | component across both programs |
| `ServerLifecycle` | the server command, NewServer, Start, Stop | component |
| `CACommand` | init and issue with their files | component |
| `TunnelSystem`, `MCTunnelSystem` | `Client` and `TunnelServer` joined by a network that may fail | composition |
| `TunnelServerProofs` (with the registry), `ClientProofs`, `PoolLocksProofs`, `StreamPipeProofs`, `ServerLifecycleProofs`, `CACommandProofs`, `TunnelRoutingProofs`, `TunnelSystemProofs` | theorems, section 4 | TLAPS |

Definitions marked "Fault" are plausible mistakes in the definition that follows
them. Nothing uses them; each one makes a run fail when it takes the place of the
original (the `mutants` of `PROJECT.json`), which shows that the property depends
on the code it is about.

### State and actions against the code

**Registry.** `items[c]` is `registry.items`. A missing key is `Absent`;
`voidRegistryItem`, which the code compares by address, is `Void`; anything else
has kind `"item"`. An item with no hosts and no listeners is therefore not `Void`,
as in the code. Hosts are a name with a port or without one; `trimPort` drops the
port, and `hosts` is keyed by the name. Every method runs under `registry.mu` and
is one action. `set` is the successful call; a call that fails changes nothing
and is `~CanSet` in its caller.

**ConnPool / TunnelServer.** `conns[c]` is `connPool.conns`. `sock[k]` follows
the server's end of connection `k`: `new`, `open`, `down` (will carry no further
request, not closed by the server yet) or `closed`. All of AddConn, MarkDead,
DeleteConn and the second half of GetClientConn runs with `pool.mu` held,
`disconnected` included, so each is one step. The first half of GetClientConn
takes the lock only to read the map and calls CanTakeNewRequest without it. The
model does both in one step: a connection that changes in between gives an
outcome that the next steps (`LinkDown`, `Retry`, `RequestEnds`) give as well.
The second half is the separate action `Evict`.

`pc[k]` is the position of `handleClient`:

| `pc` | position | leaves by |
|---|---|---|
| `accepted` | in PeerID, then subscription | `Admit`, `Refuse` |
| `admitted` | SetDeadline, AddConn | `AddConn`, `RefuseAdmitted` |
| `handshake` | the CONNECT request | `HandshakeAnswered`, or the end of the request |
| `adding` | addTunnels | `AddTunnel`, `Register`, `RegisterFails` |
| `info` | notifyTunnelInfo | the end of the request |
| `notify` | label reject, notifyError | the end of the request |
| `delete` | DeleteConn | `RejectPooled` |
| `served`, `rejected` | returned | |

Requests of handlers and users go through `GetClientConn`, then `Evict` or one of
`RequestEnds`, `Retry`. `Retry` and `CanTakeNewRequest` are the HTTP/2 transport's
and external. A user's goroutine is its request: `target[u]` is the client that
`listen` or `handleHTTPConn` chose. `Server.Unsubscribe` is two steps with
`adm[c]` between them; the listeners of the item it returns are its caller's and
are kept in `returned`.

`net.Listen` may fail for reasons outside the model (`~Usable(t) /\ Rollback(k)`
applies to every TCP tunnel), so when exactly each of several listeners is closed
cannot be observed, and `disconnected` and the rollback close them in one step.
The order in which a map of tunnels is traversed is arbitrary, so `todo` is a set.

**Client.** `main` is the position of Start: `loop`, `dialing` (TCP),
`handshaking` (TLS), `sleeping` (backoff), `serving`, `disconnected` (before the
check of the context), `checked` (before the section under `connMu`), `returned`.
`connMu` is held between steps exactly in `dialing`, `handshaking` and `sleeping`.
Time appears as ages that grow with `Tick` and saturate where no test can tell
the difference (`OldAge` is one more than `MaxElapsed`; `Hiccup`). `BackoffStops`
is the test of `cenkalti/backoff` (v4, configured in `cmd/client/options.go`); a
pause is an arbitrary member of `Pauses`, which covers growth and randomization.
`link` is the socket of the last successful dial. `serverErr` and `handler`
remember whether an error came over the connection in use or an older one.

**PoolLocks.** One action for each critical section of `pool.go`, with `mu` the holder
of `pool.mu` where the section is long: AddConn waits for the lock (`add[k] =
"lock"`), pings the old connection under it (`ping`), makes the new one (`create`),
whose reader runs from then on, and stores it (`store`); Ping holds the same lock
while it pings. `reader[k]` is the transport's goroutine that takes in answers and,
when the connection fails, calls MarkDead once and is gone: what is not in the pool at
that moment is never reported again, which `ReportNotLost` is about. A ping is
answered only by a connection that is open and has a running reader. GetClientConn is
three steps: look-up, CanTakeNewRequest without the lock, eviction with the comparison
made again. `ImplementsPool` says that all of this is, through a refinement mapping,
the pool of `ConnPool`: while AddConn has dropped the old connection and not made the
new one the lock is held, so the old one still counts as present.

**StreamPipe.** `main` and `upload` are proxyConn and its goroutine, `handler` and
`download` are Proxy and its goroutine. Bytes are counted in units on four hops;
`unflushed` is the buffer of the ResponseWriter. `got[e]` counts what has reached the
socket of the user or the local service, `unread[e]` what of it this end has not read
(`Reads`); a socket holds as much as a stream. `io.Copy` in proxyConn's goroutine is a
read and a write (`UploadReads`, `UploadWrites`), one step elsewhere, which is enabled
when the write can return. The writes of the last hops (`Deliver`, in `CopyDown` and
`CopyUp`) return when the socket has room. Nothing else ends them while the peer stays:
no deadline is set, and neither `cancel()` nor the broken stream reaches a goroutine in
`conn.Write`. A cancelled request (`CancelSeen`, `DoFails`, `Return`) breaks
the stream and loses any last part of what is in it, in both directions, as a lost
link does. The body of the request never ends by itself: proxyConn closes the pipe
after the request.

**TunnelRouting.** A text is a sequence of its parts, so `NormalizeAddress`,
`SplitHostPort` and `httpSlugFromHost` do to it what the code does, the lost
brackets of IPv6 addresses included. `Tables` is what the map iteration in
`proxy()` can make of tunnels with equal keys. `Bind` and `AddrString` are what
`net.Listen` and `Listener.Addr` do on a host with both families (external). `by`
and `dialed` in `conn[u]` remember how the connection came in; the code does not
have them, the properties need them.

**ServerLifecycle.** `phase` is the position of the command and of Start in it.
Stop is two steps with the closing of the first listener between them, for each of
its callers and for the goroutine that waits for the context (`watcher`).
`httpListener` is the field, `http` the listener. A Stop that reads the field while
Start assigns it is a race: `StopHTTP` finds it set or not, depending on the order.

**CACommand.** Runs are processes; each `os` call is a step, and a write is the
creation (truncation) of the file and its completion, so that a run can fail or be
killed with the file absent, `torn`, or whole. The contents of a file is the run
that wrote it; a certificate and a key match if the same run wrote them.

**TunnelSystem.** Every step is a step of `Client`, of `TunnelServer`, or of both
where one takes part in what the other does (connect, answered request, pushed
error). The guards that either module leaves to its environment are bound to the
other's state: a ping or a request is answered exactly if the client serves that
connection. A loss is seen by either end first, and the other end later. A tunnel
that can be opened is (`CanOpen`): no other process competes for its address.

## 3. Runs

| Run | Result | Shows |
|---|---|---|
| `server_reconnect` | pass | one client, two connections, a user, Unsubscribe, good and bad offers: `NoSocketLeak`, `ListenersAccounted`, `EvictionSparesSuccessor`; under fairness `HandlerReturns`, `UserLeavesDeadConn` |
| `server_rivals` | pass | two clients compete for one address and one name, one reconnects, a user: `ServedKeepsTunnels`, `OthersUndisturbed`; the registry under the server is consistent and implements `HostDirectory` |
| `client` | pass | `ServedIsStoppable`; under fairness `CancelWhileServingEnds`, `DialEnds` |
| `pool_locks` | pass | `SocketsAccounted`, `ReportNotLost` (the one report of a death does not come too early for the pool), the refinement `ImplementsPool`; under fairness `AddConnReturns` and `WaitersGetIn` (nobody waits for the lock for ever) |
| `stream` | pass | `AnswerComplete` (on the user's socket); under fairness, and if the peer goes on reading or closes, `ServerSideEnds`, `ProxyEnds`, `Flows` |
| `lifecycle` | pass | `ListedNotRefused`, `ReturnedClosed`; under fairness `SignalEnds`, `StopEnds` |
| `ca` | pass | `CreatedKept`, `ChainVerifies` over failing and killed runs |
| `routing` | pass | `SameTunnel`, `NoStranger`, `HTTPReachable` over restarts with another file |
| `system` | pass | `NoLossNoEnd`, `NoLimbo`, `FirstSessionServed` for both programs together |
| `server_stranded` | violation | finding 1 |
| `client_cancel` | violation | finding 2 |
| `stream_half_close` | violation | finding 3 |

Run one with `tlc -config ServerRivals.cfg MCTunnelServer`.

### Findings

1. **Tunnels without a connection** (`server.go:508`). A connection that dies
   between the handshake answer and `registry.set` is cleaned up before there is
   anything to clean up; the tunnels are registered afterwards. They stay, with
   nothing behind them, until the client connects again; that connection is
   refused, and its rejection clears them.
2. **Lost cancellation** (`client.go:109`). The one call of Stop may come while
   `c.conn` is nil, that is, whenever the client is between two connections; a
   dial that succeeds afterwards is served for good.
3. **A half-closed user loses the answer** (`server.go:744`). proxyConn cancels the
   request when the user has finished sending. What has not reached the user by
   then is lost with the stream, also in the other direction.

### Disagreements kept beside the runs

These properties state what a comment, a document or a test says, and the model of
the code violates each of them. They are not among the listed runs; each has a
configuration that shows its trace.

| Configuration, module | Property | What happens | What is said |
|---|---|---|---|
| `ServerUnsubscribe`, `MCTunnelServer` | `UnsubscribedDisconnected` | a handler past its subscription check puts its connection into the pool after Unsubscribe has emptied it (`server.go:530`) | "disconnects client if already connected" (`server.go:527`) |
| `ServerEviction`, `MCTunnelServer` | `EvictedIsUnusable` | the connection was full when looked up and has room when it is closed (`pool.go:69`) | "can no longer accept new streams" (`pool.go:58`) |
| `ClientMaxTime`, `Client` | `RetriesBeforeGivingUp` | the backoff's clock starts when a dial succeeds; after a connection that outlived `max_time` the first failed dial ends Start (`client.go:247`) | the time the client tries "if connection was lost" (`README.md:93`) |
| `ClientStaleError`, `Client` | `ErrorIsOfThisConnection` | a delayed handleHandshakeError stores its error for the next connection (`client.go:325`) | "On connection error a backoff policy is used" (`client.go:101`) |
| `SystemOneLoss`, `MCTunnelSystem` | `OneLossSurvived` | the handler of the lost connection rejects by identifier and closes the client's new connection; two disconnects within five seconds end the client (`server.go:384`) | the same |
| `LifecycleStop`, `ServerLifecycle` | `StopClosesListeners` | a Stop before `httpListener` is assigned leaves that listener open (`server.go:815`) | "Stop closes the server." (`server.go:805`) |
| `LifecycleStopClients`, `ServerLifecycle` | `StopDisconnects` | Stop does not touch the pool (`server.go:812`) | the same |
| `CAConcurrent`, `CACommand` | `CreatedKept` | of two inits that both found nothing the later one overwrites (`cmd/ca/options.go:135`) | "refusing to overwrite your root of trust" (`cmd/ca/options.go:136`) |
| `CAFailedWrite`, `CACommand` | `NoKeylessCertificate` | a torn certificate stays when writing it fails (`cmd/ca/options.go:111`) | "doesn't leave a half-written, keyless certificate behind" (`cmd/ca/options.go:107`) |
| `RoutingBarePort`, `MCTunnelRouting` | `PubliclyReachable` | a `remote_addr` that is a port listens on the loopback address (`utils.go:66`) | "reachable at `tunnel.example.com:80`" (`README.md:54`) |
| `RoutingDigits`, `MCTunnelRouting` | `SameTunnel` | the fall-back to the port finds the http tunnel whose subdomain is `80` (`streamproxy.go:139`) | "proxies to the Client local address" (`README.md:80`) |
| `RoutingNamed`, `MCTunnelRouting` | `SameTunnel` | a `remote_addr` with a host name is never found, or another tunnel is (`streamproxy.go:133`) | "handles both tcp/tcp4/tcp6 and http tunnels" (`streamproxy.go:19`) |
| `RoutingBasePort`, `MCTunnelRouting` | `SlugRoundTrip` | with a base domain that has a port the suffix is not found (`httphost.go:31`) | "its exact inverse" (`httphost.go:20`) |
| `RoutingBaseCase`, `MCTunnelRouting` | `HTTPReachable` | with an upper-case base domain every host is answered 404 (`server.go:679`) | "the incoming value must be folded to match" (`server.go:678`) |

`SameTunnel` and `HTTPReachable` hold in `routing`, where base domain and
`remote_addr` are written as in the README's examples, and `CreatedKept` holds in
`ca`, where runs do not overlap.

### Bounds

* Server: two connections of one client are the least for every race between an
  old and a new connection; a third of another client is the least for a conflict
  between clients. One address and one slug force conflicts. A stream limit of 1
  makes the limit bind at once. `SmallOffers` has a TCP, an HTTP and a mixed
  offer; `BadOffers` an empty one, one that fails after its first listener is
  open, and one with an invalid label. Unsubscribe is left to
  `server_reconnect`. Connections are finite in number, and when all are used up
  and all is quiet the model stops (`CHECK_DEADLOCK FALSE`); the server does not
  stop, it waits for the next connection.
* Client: pauses of 1 and 2 units, `MaxElapsed` 4 and `Hiccup` 2 let the backoff
  stop before, at and after a second failure and put a disconnect on either side
  of the hiccup limit. At most one error handler is pending at a time.
* PoolLocks: two connections of one client and one of each other user of the lock,
  two requests so that they can race for one eviction. A second client has only
  requests: it shares nothing with the first but the lock.
* StreamPipe: two units each way (`MaxUp`, `MaxDown`) through a window of one unit
  (`Window`): every hop, the sockets of user and local service included, can be empty,
  hold something, and block its writer.
* Lifecycle: a base domain is configured, so both listeners exist; two peers that
  connect at any time, one listed and one not, a listed one that never comes, two
  callers of Stop beside the signal.
* CA: three runs, of which the later ones find what the earlier ones left.
* Routing: files with up to two tunnels out of sixteen entries, eight with an error
  that one of the checks must find; two ports, both families, one user connection
  at a time that may outlive its session.
* System: one client with a tcp and an http tunnel, two connections, two failures of
  the network (`MaxLosses`): one for the first connection and one for its successor.

### Fairness

* Handlers past PeerID: `HandlerStep \/ RequestStep` is weakly fair, because
  AddConn's ping has `DefaultPingTimeout`, requests of handlers have
  `DefaultTimeout` and everything else is local. PeerID's TLS handshake has no
  deadline, so nothing is assumed about a handler that is `accepted`.
* `MarkDead` of `TunnelServer` owes nothing, here and in the system: no property of
  theirs needs the report of a dead connection. That the one call the reader makes
  finds what is in the pool is `ReportNotLost` and `WaitersGetIn` of `PoolLocks`.
* Users: a look-up and an eviction are local; a stream ends only if its
  connection is not open (the transport aborts it). A user may keep a stream on
  a live connection for ever.
* Client: every step of Start but ServeConn's return, the end of a sleep (which
  follows from `Tick`) and the end of a TLS handshake is fair. `net.Dialer` has a
  timeout, `tls.Conn` has none: `HandshakeHangs` is the exception the two liveness
  properties name. Waiters of `connMu` get strong fairness, since Go's mutex hands
  over to a starving waiter. The network is never obliged to fail.
* PoolLocks: whoever waits for `pool.mu` gets strong fairness for the same reason;
  who holds it goes on, since a ping ends by `DefaultPingTimeout`. That the ping is
  answered is not assumed: the reader that would take in the answer may itself be
  waiting for the lock.
* StreamPipe: the four goroutines run. User, local service, link and the reaction of
  the transport to a cancelled context owe nothing; in particular neither end has to
  read. The code gives such an end no deadline, so a user that keeps its connection
  and stops reading keeps proxyConn in `conn.Write` for ever, whatever has become of
  the request, and a local service that stops reading keeps Proxy. `ServerSideEnds`,
  `ProxyEnds` and `Flows` therefore have `KeepsReading` as a hypothesis: infinitely
  often the end has room for a unit or is gone. TLC refutes each of the three without
  it. The time-out in proxyConn's wait is why `WaitEnds` needs no other goroutine.
* Lifecycle: the goroutines of the process run; nobody is obliged to connect, to
  signal or to call Stop.
* System: both programs take their steps, and each end learns in the end that the
  other one is gone (TCP keep-alive, which `keepalive.go` sets, an error on the next
  write, or a ping that fails); no loss is owed.

## 4. Proofs

Each theorem holds for all values of the constants that satisfy the named
assumptions: `ClientAssumption` and `PoolAssumption` (the null values are not
members; `Owner` is a function to clients), `ServerAssumption` (connections and
users are disjoint, the pairs of an opener and an address are listeners, host names
contain what `httpFullHost` produces, a TCP tunnel names an address),
`ClientConfigAssumption` (pauses and limits are natural numbers), `LockAssumption`
(the holders of a lock can be told apart), `PipeAssumption` (amounts are natural
numbers, a window holds something), `LifecycleAssumption` and `CAAssumption` (flags
are Booleans, and the names of callers and runs are not used for anything else),
`RoutingAssumption` and `PortAssumption` (addresses, host names, labels and ports can
be told apart by how they are written, but a label may be a number; the server has
the loopback address; ports in the file are numbers) and `SystemAssumption` (one
client without users; the number of losses is natural).

* **Registry.** `RegistryConsistent` is inductive with the type invariant:
  `set` takes only free names, and a client whose item is replaced had none.
  `RegistryImplementsDirectory` maps Subscribe to a stutter, `set` to `Claim`, and
  `clear` and `Unsubscribe` to `Release`; consistency is needed for the last, since
  the code deletes names without looking at their owner.
* **TunnelServer.** None of the properties is inductive. `IInv` adds: a request
  under way has somebody waiting and a connection (`RequestInv`); what the pool
  holds belongs to the client it is filed under and is not closed, what it dropped
  is closed (`PoolInv`); a batch holds only listeners of its own handler and is
  empty unless the handler is adding (`BatchInv`); a listener in an item or among
  the returned ones was opened by a handler that has registered, and is in only
  one of these places (`PlaceInv`). From the last three follows that closing "the
  listeners of an item" closes nobody else's. `ServerNoSocketLeak`,
  `ServerListenersAccounted`, `ServerServedKeepsTunnels`, `ServerImplementsDirectory`,
  `ServerOthersUndisturbed` and `ServerEvictionSparesSuccessor` rest on
  `ServerInvariant`. There is one lemma for each conjunct with a step for every
  action, and the registry's steps are taken over from
  the registry's own lemmas. `ServerUsesPool` shows that all the server does to
  pool and sockets are steps of `ConnPool`, also where it closes a connection it has
  not given to the pool or evicts one it looked up earlier; this needs `IInv` and
  that nobody has accepted the socket of a handler that has not begun (`Unaccepted`).
  With `PoolImplementsAtomic` below, which maps the locked pool to the same
  specification, the server's model and the pool's code meet in `PSpec`.
* **Client.** `ServedIsStoppable` is inductive with the type invariant.
* **PoolLocks.** `LInv` adds to `SocketsAccounted` and `ReportNotLost` what the lock
  protects: the
  callers between locking and unlocking are its holder (`HolderInv`); only handed-over
  connections nobody has closed are in the pool, under their owner (`EntryInv`,
  `FiledInv`); only these and the one about to be stored have readers (`HandlerInv`); while AddConn makes a new
  connection the entry stays empty, and the connection it has closed is remembered
  (`OldInv`). There is one lemma for each action. `PoolImplementsAtomic` shows step by
  step that what the lock covers is one step of `ConnPool`: the close of the old
  connection is hidden until the new one is there, `StoreConn` and `NewClientConnFails` are
  `ReplaceStep`,
  and MarkDead, DeleteConn and the eviction close an entry only while nobody is in
  between. So the atomic pool `TunnelServer` is built from stands for the real one,
  for any number of connections and callers.
* **StreamPipe.** `AnswerComplete` rests on counting (`Conserved`: on an unbroken
  stream, whatever the service has sent is on one of the hops or has reached the
  user's socket) and on the order in which the goroutines finish (`DownloadInv`, `MainInv`);
  with `UpBound` and `DownBound` the same counts give the type invariant.
* **ServerLifecycle.** `ListedNotRefused` and `ReturnedClosed` are inductive with
  what Start relies on from earlier steps: all identifiers are subscribed before it
  is called (`AllSubscribed`), and the listener is there before the field is assigned
  (`HTTPOpened`).
* **CACommand.** `CATypeCorrect` holds for overlapping runs too. `CACreatedKept` and
  `CAChainVerifies` assume `Serial`; `CAConcurrent` shows the first fails without. The
  invariant says what a run has found and written so far (`WrittenInv`) and that what
  an issue has read is still there (`ReadInv`): a run that writes has found the
  directory without the files a finished run leaves.

* **TunnelRouting.** `RInv` says what connects the file to a connection under way:
  a running tunnel is one the file's entries can become (`RunningOK`), the table is
  one `proxy()` can make of the running tunnels (`TableOK`), listeners and hosts are
  those `addTunnels` makes of them, which it could (`ServingOK`), and a connection
  that was accepted remembers a tunnel, a listener of it that takes connections to
  the address dialed, and the name of this listener (`AcceptedBy`). The last part
  does not mention the session, so it survives any number of restarts with other
  files. Two facts carry the theorems: `FoundByListener` (what the table says of a
  listener's name is a tunnel at the listener's own address or at the wildcard one)
  and `OneName` (in a served session no two TCP tunnels have one remote address, for
  their listeners would clash; nothing on the client's side ensures this).
  `RoutingTypeCorrect` needs no hypothesis. The others name what the code takes for
  granted and nothing checks: `StrangersKeptOut` that no subdomain is a port number
  (`NoDigits`); `DeliveredToItsTunnel` also that no `remote_addr` is a host name
  (`NoNames`) and that the base domain has no port (`BaseBare`, as does `SlugKept`);
  `SubdomainFound` that the base domain is lower case (`BaseFolded`). None is
  idle: `RoutingDigits`, `RoutingNamed`, `RoutingBasePort` and `RoutingBaseCase` each
  break exactly one of them and show a failure; the instance of `Routing` meets
  all four.
* **TunnelSystem.** `SystemImplementsServer` and `SystemImplementsClient` show that
  each program, in the composition, takes only steps of its own specification, so
  that the theorems about `TunnelServer` and `Client` hold there. `SystemNoLossNoEnd`
  rests on `CalmUntilLoss`, which relates the two sides while nothing was lost: the
  client has dialed at most once and has seen no error, the server works for this
  connection only and is on its way to serving it, nothing is registered before
  its handler registers it, and what that handler has still to open can be opened.
  That every address and host name is free until then follows from the server's
  `IInv`. The hypothesis `CanServe` says that the server can open all
  tunnels the client may offer, one by one and together; otherwise the client gives
  up without any loss. `MCTunnelSystem` has TLC evaluate it for the instance.

Only model-checked: all liveness properties, since the prover cannot reason about
fairness, and the violations, which are traces. Every invariant and every action
property of the passing runs is a theorem. `RegistryTypeCorrect`
is about the registry by itself; `server_rivals` and `server_reconnect` check the
registry as the server uses it.

## 5. Not modelled, and the plan

Not modelled, and why:

* Cryptography, the contents of certificates, and the text form of identifiers
  (base 32 with check digits): data, not behaviour. Keys are model values.
* The parsing of flags and of YAML, `resolveConfigPath` and the commands `id` and
  `list`: they read and print, and change no state another part sees.
* Log lines, socket options, the Helm chart, generated mocks.
* `proxy.go`'s choice between a ProxyFunc and a static proxy: one indirection.
* Time as such: every timeout is a step that may happen, or must in the end.

Noticed on the way, without a model: `README.md` gives the server address a default
port of 5223, while an address without a port is refused by NormalizeAddress.

Next, in this order:

1. `TunnelServer` over `PoolLocks` directly: `PoolImplementsAtomic` and `ServerUsesPool`
   meet in `PSpec`, which says nothing of the order of pool and registry calls in one
   handler; composing the two would.
2. `TunnelSystem` with several clients and users: the theorems about the server
   hold for any number, `SystemNoLossNoEnd` for one.
3. Ports in the file given by the name of a service, or left empty for the system to
   choose: `TunnelRouting` takes them to be numbers (`PortAssumption`).
