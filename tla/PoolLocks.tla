------------------------------ MODULE PoolLocks -------------------------------
(***************************************************************************)
(* pool.go at the level of pool.mu.  AddConn and Ping wait for the answer  *)
(* to an HTTP/2 ping with the lock held, while the reader of the pinged    *)
(* connection may itself wait for the lock in MarkDead, and every look-up  *)
(* of every client waits behind them.                                      *)
(*                                                                         *)
(* A reader's critical section is one map access, so a read lock is never  *)
(* held between two steps: sync.RWMutex is the variable mu, its holder.    *)
(* `free` takes no part in the waiting (it locks only the registry, whose  *)
(* methods lock nothing else) and is part of the step that calls it.       *)
(***************************************************************************)
EXTENDS ConnPool

CONSTANTS
    Lookups,     \* callers of GetClientConn
    Pingers,     \* callers of Server.Ping
    NoProc

ASSUME LockAssumption == NoProc \notin Conns \cup Pingers /\ Conns \cap Pingers = {}

VARIABLES
    mu,          \* who holds pool.mu between two steps
    add,         \* add[k]: where AddConn is for connection k
    reader,      \* reader[k]: the readLoop of k's http2.ClientConn
    old,         \* the connection AddConn has closed, and what state it was in
    look,        \* look[r]: where GetClientConn is
    seen,        \* seen[r]: the client r asks for, and what it found
    ping         \* ping[p]: where Ping is, and for which client

lockVars == <<conns, sock, mu, add, reader, old, look, seen, ping>>

Nothing == [conn |-> NoConn, was |-> "new"]

LInit == /\ PInit
         /\ mu = NoProc
         /\ add = [k \in Conns |-> "new"]
         /\ reader = [k \in Conns |-> "none"]
         /\ old = Nothing
         /\ look = [r \in Lookups |-> "idle"]
         /\ seen = [r \in Lookups |-> [client |-> NoClient, conn |-> NoConn]]
         /\ ping = [p \in Pingers |-> [at |-> "idle", client |-> NoClient]]

Free == mu = NoProc

-----------------------------------------------------------------------------
(* The network and the readers of the connections.                         *)

\* A handler has accepted k and calls AddConn.
CallAddConn(k) ==
    /\ add[k] = "new"
    /\ add' = [add EXCEPT ![k] = "lock"]
    /\ sock' = [sock EXCEPT ![k] = "open"]
    /\ UNCHANGED <<conns, mu, reader, old, look, seen, ping>>

LinkDown(k) ==
    /\ sock[k] = "open"
    /\ sock' = [sock EXCEPT ![k] = "down"]
    /\ UNCHANGED <<conns, mu, add, reader, old, look, seen, ping>>

\* readLoop meets an error and goes to report it.
ReaderFails(k) ==
    /\ reader[k] = "running"
    /\ sock[k] # "open"
    /\ reader' = [reader EXCEPT ![k] = "dying"]
    /\ UNCHANGED <<conns, sock, mu, add, old, look, seen, ping>>

\* Fault: MarkDead that gives up when the lock is taken.
MarkDeadTry(k) ==
    /\ reader[k] = "dying"
    /\ IF Free /\ Pooled(k) THEN CloseConn(Owner[k]) ELSE UNCHANGED poolVars
    /\ reader' = [reader EXCEPT ![k] = "gone"]
    /\ UNCHANGED <<mu, add, old, look, seen, ping>>

\* Fault: MarkDead without the lock.
MarkDeadNoLock(k) ==
    /\ reader[k] = "dying"
    /\ IF Pooled(k) THEN CloseConn(Owner[k]) ELSE UNCHANGED poolVars
    /\ reader' = [reader EXCEPT ![k] = "gone"]
    /\ UNCHANGED <<mu, add, old, look, seen, ping>>

\* The reader reports the death once, as the last thing it does: what is not in
\* the pool at that moment is never reported again.
MarkDead(k) ==
    /\ reader[k] = "dying"
    /\ Free
    /\ IF Pooled(k) THEN CloseConn(Owner[k]) ELSE UNCHANGED poolVars
    /\ reader' = [reader EXCEPT ![k] = "gone"]
    /\ UNCHANGED <<mu, add, old, look, seen, ping>>

-----------------------------------------------------------------------------
(* AddConn.                                                                *)

LockAdd(k) ==
    /\ add[k] = "lock"
    /\ Free
    /\ mu' = k
    /\ add' = [add EXCEPT ![k] = IF conns[Owner[k]] = NoConn THEN "create" ELSE "ping"]
    /\ UNCHANGED <<conns, sock, reader, old, look, seen, ping>>

\* clientConn.Ping needs the peer, and a reader to take in the answer.
Answers(j) == sock[j] = "open" /\ reader[j] = "running"

\* errClientAlreadyConnected
PingAnswered(k) ==
    /\ add[k] = "ping"
    /\ Answers(conns[Owner[k]])
    /\ mu' = NoProc
    /\ add' = [add EXCEPT ![k] = "refused"]
    /\ UNCHANGED <<conns, sock, reader, old, look, seen, ping>>

\* Faults: the ping has no deadline, so only the end of the reader ends it; or
\* the old connection is left to itself.
PingFailsNoTimeout(k) ==
    /\ add[k] = "ping"
    /\ reader[conns[Owner[k]]] = "gone"
    /\ old' = [conn |-> conns[Owner[k]], was |-> sock[conns[Owner[k]]]]
    /\ CloseConn(Owner[k])
    /\ add' = [add EXCEPT ![k] = "create"]
    /\ UNCHANGED <<mu, reader, look, seen, ping>>

PingFailsNoClose(k) ==
    /\ add[k] = "ping"
    /\ conns' = [conns EXCEPT ![Owner[k]] = NoConn]
    /\ add' = [add EXCEPT ![k] = "create"]
    /\ UNCHANGED <<sock, mu, reader, old, look, seen, ping>>

\* No answer within DefaultPingTimeout, or the reader is already gone.
PingFails(k) ==
    /\ add[k] = "ping"
    /\ old' = [conn |-> conns[Owner[k]], was |-> sock[conns[Owner[k]]]]
    /\ CloseConn(Owner[k])
    /\ add' = [add EXCEPT ![k] = "create"]
    /\ UNCHANGED <<mu, reader, look, seen, ping>>

\* NewClientConn cannot write to a dead socket: close it and unlock.
NewClientConnFails(k) ==
    /\ add[k] = "create" /\ sock[k] = "down"
    /\ sock' = [sock EXCEPT ![k] = "closed"]
    /\ add' = [add EXCEPT ![k] = "failed"]
    /\ mu' = NoProc
    /\ old' = Nothing
    /\ UNCHANGED <<conns, reader, look, seen, ping>>

\* NewClientConn starts the reader, which may meet an error and ask for the lock
\* before the connection is in the pool ...
NewClientConn(k) ==
    /\ add[k] = "create"
    /\ add' = [add EXCEPT ![k] = "store"]
    /\ reader' = [reader EXCEPT ![k] = "running"]
    /\ UNCHANGED <<conns, sock, mu, old, look, seen, ping>>

\* ... where AddConn puts it; then unlock.
StoreConn(k) ==
    /\ add[k] = "store"
    /\ conns' = [conns EXCEPT ![Owner[k]] = k]
    /\ add' = [add EXCEPT ![k] = "added"]
    /\ mu' = NoProc
    /\ old' = Nothing
    /\ UNCHANGED <<sock, reader, look, seen, ping>>

\* The handler that was refused closes its own connection.
RejectCloses(k) ==
    /\ add[k] = "refused"
    /\ sock' = [sock EXCEPT ![k] = "closed"]
    /\ add' = [add EXCEPT ![k] = "failed"]
    /\ UNCHANGED <<conns, mu, reader, old, look, seen, ping>>

-----------------------------------------------------------------------------
(* GetClientConn, DeleteConn and Ping.                                     *)

CallGetClientConn(r, c) ==
    /\ look[r] = "idle"
    /\ look' = [look EXCEPT ![r] = "lookup"]
    /\ seen' = [seen EXCEPT ![r] = [client |-> c, conn |-> NoConn]]
    /\ UNCHANGED <<conns, sock, mu, add, reader, old, ping>>

\* Fault: the look-up goes on without having found anything.
LookupUnchecked(r) ==
    /\ look[r] = "lookup"
    /\ Free
    /\ look' = [look EXCEPT ![r] = "test"]
    /\ seen' = [seen EXCEPT ![r].conn = conns[seen[r].client]]
    /\ UNCHANGED <<conns, sock, mu, add, reader, old, ping>>

\* RLock, look, RUnlock
Lookup(r) ==
    /\ look[r] = "lookup"
    /\ Free
    /\ look' = [look EXCEPT ![r] = IF conns[seen[r].client] = NoConn THEN "idle" ELSE "test"]
    /\ seen' = [seen EXCEPT ![r].conn = conns[seen[r].client]]
    /\ UNCHANGED <<conns, sock, mu, add, reader, old, ping>>

\* CanTakeNewRequest, without the lock: a dead connection cannot, and a live one
\* cannot if its streams are all in use.
Test(r) ==
    /\ look[r] = "test"
    /\ look' \in { [look EXCEPT ![r] = s] :
                     s \in IF sock[seen[r].conn] = "open" THEN {"idle", "evict"} ELSE {"evict"} }
    /\ UNCHANGED <<conns, sock, mu, add, reader, old, seen, ping>>

\* Fault: the eviction takes the connection it saw for the one in the pool.
EvictUnchecked(r) ==
    /\ look[r] = "evict"
    /\ Free
    /\ conns' = [conns EXCEPT ![seen[r].client] = NoConn]
    /\ sock' = [sock EXCEPT ![seen[r].conn] = "closed"]
    /\ look' = [look EXCEPT ![r] = "idle"]
    /\ UNCHANGED <<mu, add, reader, old, seen, ping>>

Evict(r) ==
    /\ look[r] = "evict"
    /\ Free
    /\ IF conns[seen[r].client] = seen[r].conn THEN CloseConn(seen[r].client)
                                               ELSE UNCHANGED poolVars
    /\ look' = [look EXCEPT ![r] = "idle"]
    /\ UNCHANGED <<mu, add, reader, old, seen, ping>>

DeleteConn(c) ==
    /\ Free
    /\ conns[c] # NoConn
    /\ CloseConn(c)
    /\ UNCHANGED <<mu, add, reader, old, look, seen, ping>>

LockPing(p, c) ==
    /\ ping[p].at = "idle"
    /\ Free
    /\ conns[c] # NoConn
    /\ mu' = p
    /\ ping' = [ping EXCEPT ![p] = [at |-> "ping", client |-> c]]
    /\ UNCHANGED <<conns, sock, add, reader, old, look, seen>>

\* Answered or not, Ping unlocks and changes nothing.
PingReturns(p) ==
    /\ ping[p].at = "ping"
    /\ mu' = NoProc
    /\ ping' = [ping EXCEPT ![p] = [at |-> "idle", client |-> NoClient]]
    /\ UNCHANGED <<conns, sock, add, reader, old, look, seen>>

-----------------------------------------------------------------------------

HolderStep(k) == \/ PingAnswered(k) \/ PingFails(k)
                 \/ NewClientConnFails(k) \/ NewClientConn(k) \/ StoreConn(k)

Unlocking == \/ \E k \in Conns : HolderStep(k)
             \/ \E p \in Pingers : PingReturns(p)

LNext == \/ \E k \in Conns : \/ CallAddConn(k) \/ LinkDown(k) \/ ReaderFails(k) \/ MarkDead(k)
                             \/ LockAdd(k) \/ RejectCloses(k)
         \/ \E r \in Lookups : \/ \E c \in Clients : CallGetClientConn(r, c)
                               \/ Lookup(r) \/ Test(r) \/ Evict(r)
         \/ \E c \in Clients : DeleteConn(c) \/ \E p \in Pingers : LockPing(p, c)
         \/ Unlocking

LSpec == LInit /\ [][LNext]_lockVars

\* Whoever waits for pool.mu gets it in the end: sync.Mutex hands over to a
\* starving writer, and an unlock admits all waiting readers before the next
\* writer.  Who holds it goes on, pings end by their deadline.  Nothing is asked
\* of a reader that has not noticed the end.
LFairness ==
    /\ \A k \in Conns : SF_lockVars(MarkDead(k)) /\ SF_lockVars(LockAdd(k))
    /\ \A r \in Lookups : SF_lockVars(Lookup(r)) /\ WF_lockVars(Test(r)) /\ SF_lockVars(Evict(r))
    /\ WF_lockVars(Unlocking) /\ WF_lockVars(\E k \in Conns : RejectCloses(k))

FairLSpec == LSpec /\ LFairness

-----------------------------------------------------------------------------
(* Properties.                                                             *)

\* Who tests or evicts a connection, or pings it under the lock, has one.
HaveTargets ==
    /\ \A r \in Lookups : look[r] \in {"test", "evict"} => seen[r].conn \in Conns
    /\ \A k \in Conns : add[k] = "ping" => conns[Owner[k]] \in Conns

\* Every variable has the type its counterpart has, and nobody works on a
\* connection that is not there.
LockTypeOK ==
    /\ conns \in [Clients -> Conns \cup {NoConn}]
    /\ sock \in [Conns -> SockStates]
    /\ mu \in Conns \cup Pingers \cup {NoProc}
    /\ add \in [Conns -> {"new", "lock", "ping", "create", "store", "added",
                        "refused", "failed"}]
    /\ reader \in [Conns -> {"none", "running", "dying", "gone"}]
    /\ old \in [conn : Conns \cup {NoConn}, was : SockStates]
    /\ look \in [Lookups -> {"idle", "lookup", "test", "evict"}]
    /\ seen \in [Lookups -> [client : Clients \cup {NoClient}, conn : Conns \cup {NoConn}]]
    /\ ping \in [Pingers -> [at : {"idle", "ping"}, client : Clients \cup {NoClient}]]
    /\ HaveTargets

\* A socket that is not closed is in the pool, or a handler is still to hand it
\* over or to close it.
SocketsAccounted ==
    \A k \in Conns : sock[k] \in {"open", "down"} =>
        Pooled(k) \/ add[k] \in {"lock", "ping", "create", "store", "refused"}

\* No dead connection stays in the pool: one whose reader has made its only call
\* of MarkDead is neither there nor about to be put there, even if the connection
\* died between NewClientConn and the store, or while somebody pinged with the
\* lock held.
ReportNotLost ==
    \A k \in Conns : Pooled(k) \/ add[k] = "store" => reader[k] \in {"running", "dying"}

\* The old connection is closed and dropped before the new one is made; to
\* everybody who needs the lock it is replaced in one step.
Creating == mu \in Conns /\ add[mu] \in {"create", "store"}

atomicConns == IF Creating THEN [conns EXCEPT ![Owner[mu]] = old.conn] ELSE conns
atomicSock  == IF Creating /\ old.conn # NoConn THEN [sock EXCEPT ![old.conn] = old.was]
                                                ELSE sock

Atomic == INSTANCE ConnPool WITH conns <- atomicConns, sock <- atomicSock

\* The critical sections of the pool, with all that happens while a ping is
\* waited for, amount to the atomic steps the model of the server is built from.
ImplementsPool == Atomic!PSpec

\* AddConn returns, although it pings under the lock a connection whose reader
\* may be waiting for that lock.
AddConnReturns == \A k \in Conns : add[k] = "lock" ~> add[k] \in {"added", "failed"}

\* GetClientConn returns, whatever AddConn and Ping do for other clients.
LookupReturns == \A r \in Lookups : look[r] = "lookup" ~> look[r] = "idle"

\* The reader of a dead connection gets through MarkDead, and the connection is
\* out of the pool then.
ReaderGetsOut == \A k \in Conns : reader[k] = "dying" ~> reader[k] = "gone" /\ ~Pooled(k)

\* Nobody who needs the lock of the pool for one step waits for ever: neither
\* the requests that look a connection up, nor the readers that report a death
\* while AddConn, under the lock, waits for an answer only they could take in.
WaitersGetIn == LookupReturns /\ ReaderGetsOut

==============================================================================
