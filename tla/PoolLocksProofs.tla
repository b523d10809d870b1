--------------------------- MODULE PoolLocksProofs ---------------------------
(***************************************************************************)
(* Theorems about PoolLocks for any clients, connections and callers: no   *)
(* socket is lost, and the critical sections of pool.go implement the      *)
(* atomic pool of ConnPool.                                                *)
(*                                                                         *)
(* Both rest on what the lock protects while AddConn works under it:       *)
(* nobody else holds it, the entry AddConn has emptied stays empty, and    *)
(* the connection it has closed belongs to the same client.                *)
(***************************************************************************)
EXTENDS PoolLocks, TLAPS

\* Whoever is between locking and unlocking is the holder of pool.mu.
HolderInv ==
    /\ \A k \in Conns : add[k] \in {"ping", "create", "store"} <=> mu = k
    /\ \A p \in Pingers : ping[p].at = "ping" <=> mu = p

\* The pool files connections under their owner, and only those that AddConn has
\* handed to it and that nobody has closed.
EntryInv ==
    \A k \in Conns : Pooled(k) => add[k] = "added" /\ sock[k] \in {"open", "down"}

FiledInv == \A c \in Clients : conns[c] # NoConn => Owner[conns[c]] = c

\* A connection has a socket from the call of AddConn on; until it is handed
\* over nobody closes it, and only one that AddConn has taken has a reader.
HandlerInv ==
    \A k \in Conns : /\ add[k] = "new" <=> sock[k] = "new"
                     /\ add[k] \in {"lock", "ping", "create", "store", "refused"}
                          => sock[k] \in {"open", "down"}
                     /\ add[k] \notin {"store", "added"} => reader[k] = "none"

\* While AddConn makes the new connection the client has none, and the closed old
\* one is remembered; otherwise none is.
OldInv ==
    /\ ~Creating => old = Nothing
    /\ Creating => /\ conns[Owner[mu]] = NoConn
                   /\ old.conn # NoConn => /\ Owner[old.conn] = Owner[mu]
                                           /\ add[old.conn] = "added"
                                           /\ sock[old.conn] = "closed"
                                           /\ old.was \in {"open", "down"}

AskedInv == \A r \in Lookups : look[r] # "idle" => seen[r].client \in Clients

LInv == /\ LockTypeOK /\ HolderInv /\ EntryInv /\ FiledInv /\ HandlerInv /\ OldInv
        /\ AskedInv /\ SocketsAccounted /\ ReportNotLost

-----------------------------------------------------------------------------
(* The initial state, and one lemma for each action.                       *)

\* The pool starts with the invariant.
LEMMA LInitInv == LInit => LInv
BY PoolAssumption, ClientAssumption, LockAssumption
DEF LInit, PInit, LInv, LockTypeOK, HaveTargets, HolderInv, EntryInv, FiledInv, HandlerInv, OldInv, AskedInv,
    SocketsAccounted, ReportNotLost, Creating, Nothing, Pooled, SockStates

\* An entry is closed: pool.close empties it and closes the connection that
\* was in it; no other client notices.
Closed(c) ==
    /\ conns[c] \in Conns /\ Owner[conns[c]] = c
    /\ conns' \in [Clients -> Conns \cup {NoConn}] /\ conns'[c] = NoConn
    /\ sock' \in [Conns -> SockStates] /\ sock'[conns[c]] = "closed"
    /\ \A d \in Clients : d # c => conns'[d] = conns[d]
    /\ \A j \in Conns : j # conns[c] => sock'[j] = sock[j]
    /\ \A j \in Conns : Pooled(j)' <=> Pooled(j) /\ j # conns[c]
    /\ Pooled(conns[c])

\* pool.close does that to an entry of a well-formed pool.
LEMMA CloseConnEffect ==
    ASSUME LockTypeOK, FiledInv, NEW c \in Clients, conns[c] # NoConn, CloseConn(c)
    PROVE  Closed(c)
<1>1. conns[c] \in Conns /\ Owner[conns[c]] = c
  BY DEF LockTypeOK, FiledInv
<1>2. conns' = [conns EXCEPT ![c] = NoConn] /\ sock' = [sock EXCEPT ![conns[c]] = "closed"]
  BY DEF CloseConn
<1>3. \A k \in Conns : Pooled(k)' <=> Pooled(k) /\ k # conns[c]
  BY <1>1, <1>2, PoolAssumption DEF Pooled, LockTypeOK
<1> QED
  BY <1>1, <1>2, <1>3 DEF Closed, Pooled, LockTypeOK, SockStates

\* A handler calls AddConn with a new connection, which is in nobody's hands yet.
LEMMA CallAddConnInv ==
    ASSUME LInv, NEW k \in Conns, CallAddConn(k)
    PROVE  LInv'
<1> USE PoolAssumption, ClientAssumption, LockAssumption DEF CallAddConn, LInv, LockTypeOK
<1>1. LockTypeOK'
  BY DEF HaveTargets, HolderInv, Free, SockStates, Nothing
<1>2. HolderInv'
  BY DEF HolderInv, Free
<1>3. EntryInv'
  BY DEF EntryInv, HandlerInv, Pooled
<1>4. FiledInv'
  BY DEF FiledInv
<1>5. HandlerInv'
  BY DEF HandlerInv, EntryInv, Pooled
<1>6. OldInv'
  BY DEF OldInv, Creating, HolderInv, EntryInv, HandlerInv, Nothing, Free, Pooled
<1>7. AskedInv'
  BY DEF AskedInv
<1>8. SocketsAccounted' /\ ReportNotLost'
  BY DEF SocketsAccounted, ReportNotLost, EntryInv, HandlerInv, OldInv, Creating, HolderInv, Pooled
<1> QED
  BY <1>1, <1>2, <1>3, <1>4, <1>5, <1>6, <1>7, <1>8

\* The network takes an open connection, whoever has it.
LEMMA LinkDownInv ==
    ASSUME LInv, NEW k \in Conns, LinkDown(k)
    PROVE  LInv'
<1> USE PoolAssumption, ClientAssumption, LockAssumption DEF LinkDown, LInv, LockTypeOK
<1>1. LockTypeOK'
  BY DEF HaveTargets, HolderInv, Free, SockStates, Nothing
<1>2. HolderInv'
  BY DEF HolderInv, Free
<1>3. EntryInv'
  BY DEF EntryInv, HandlerInv, Pooled
<1>4. FiledInv'
  BY DEF FiledInv
<1>5. HandlerInv'
  BY DEF HandlerInv, EntryInv, Pooled
<1>6. OldInv'
  BY DEF OldInv, Creating, HolderInv, EntryInv, HandlerInv, Nothing, Free, Pooled
<1>7. AskedInv'
  BY DEF AskedInv
<1>8. SocketsAccounted' /\ ReportNotLost'
  BY DEF SocketsAccounted, ReportNotLost, EntryInv, HandlerInv, OldInv, Creating, HolderInv, Pooled
<1> QED
  BY <1>1, <1>2, <1>3, <1>4, <1>5, <1>6, <1>7, <1>8

\* A reader that runs belongs to a connection the pool was given.
LEMMA ReaderFailsInv ==
    ASSUME LInv, NEW k \in Conns, ReaderFails(k)
    PROVE  LInv'
<1> USE PoolAssumption, ClientAssumption, LockAssumption DEF ReaderFails, LInv, LockTypeOK
<1>1. LockTypeOK'
  BY DEF HaveTargets, HolderInv, Free, SockStates, Nothing
<1>2. HolderInv'
  BY DEF HolderInv, Free
<1>3. EntryInv'
  BY DEF EntryInv, HandlerInv, Pooled
<1>4. FiledInv'
  BY DEF FiledInv
<1>5. HandlerInv'
  BY DEF HandlerInv, EntryInv, Pooled
<1>6. OldInv'
  BY DEF OldInv, Creating, HolderInv, EntryInv, HandlerInv, Nothing, Free, Pooled
<1>7. AskedInv'
  BY DEF AskedInv
<1>8. SocketsAccounted' /\ ReportNotLost'
  BY DEF SocketsAccounted, ReportNotLost, EntryInv, HandlerInv, OldInv, Creating, HolderInv, Pooled
<1> QED
  BY <1>1, <1>2, <1>3, <1>4, <1>5, <1>6, <1>7, <1>8

\* MarkDead closes an entry, if it is this connection's, and its reader is gone.
LEMMA MarkDeadInv ==
    ASSUME LInv, NEW k \in Conns, MarkDead(k)
    PROVE  LInv'
<1> USE PoolAssumption, ClientAssumption, LockAssumption DEF MarkDead, poolVars, LInv, LockTypeOK
<1>a. CASE Pooled(k)
  <2> DEFINE c == Owner[k]
  <2>a. c \in Clients /\ conns[c] # NoConn /\ CloseConn(c) /\ conns[c] = k
    BY <1>a DEF Pooled
  <2>b. Closed(c)
    BY <2>a, CloseConnEffect
  <2> HIDE DEF c
  <2>1. LockTypeOK'
    <3>1. HaveTargets'
      BY <2>a, <2>b DEF HaveTargets, HolderInv, Free, Closed
    <3> QED
      BY <2>a, <2>b, <3>1 DEF SockStates, Nothing, Closed
  <2>2. HolderInv'
    BY <2>a, <2>b DEF HolderInv, Free, Closed
  <2>3. EntryInv'
    BY <2>a, <2>b DEF EntryInv, HandlerInv, Pooled, Closed
  <2>4. FiledInv'
    BY <2>a, <2>b DEF FiledInv, Closed
  <2>5. HandlerInv'
    BY <2>a, <2>b DEF HandlerInv, EntryInv, Pooled, Closed
  <2>6. OldInv'
    BY <2>a, <2>b DEF OldInv, Creating, HolderInv, EntryInv, HandlerInv, Nothing, Free, Pooled, Closed
  <2>7. AskedInv'
    BY <2>a, <2>b DEF AskedInv, Closed
  <2>8. SocketsAccounted' /\ ReportNotLost'
    BY <2>a, <2>b DEF SocketsAccounted, ReportNotLost, EntryInv, HandlerInv, OldInv, Creating, HolderInv, Pooled, Closed
  <2> QED
    BY <2>1, <2>2, <2>3, <2>4, <2>5, <2>6, <2>7, <2>8
<1>b. CASE ~(Pooled(k))
  <2>1. LockTypeOK'
    BY <1>b DEF HaveTargets, HolderInv, Free, SockStates, Nothing
  <2>2. HolderInv'
    BY <1>b DEF HolderInv, Free
  <2>3. EntryInv'
    BY <1>b DEF EntryInv, HandlerInv, Pooled
  <2>4. FiledInv'
    BY <1>b DEF FiledInv
  <2>5. HandlerInv'
    BY <1>b DEF HandlerInv, EntryInv, Pooled
  <2>6. OldInv'
    BY <1>b DEF OldInv, Creating, HolderInv, EntryInv, HandlerInv, Nothing, Free, Pooled
  <2>7. AskedInv'
    BY <1>b DEF AskedInv
  <2>8. SocketsAccounted' /\ ReportNotLost'
    BY <1>b DEF SocketsAccounted, ReportNotLost, EntryInv, HandlerInv, OldInv, Creating, HolderInv, Free, Pooled
  <2> QED
    BY <2>1, <2>2, <2>3, <2>4, <2>5, <2>6, <2>7, <2>8
<1> QED
  BY <1>a, <1>b

\* AddConn becomes the holder of the lock.
LEMMA LockAddInv ==
    ASSUME LInv, NEW k \in Conns, LockAdd(k)
    PROVE  LInv'
<1> USE PoolAssumption, ClientAssumption, LockAssumption DEF LockAdd, LInv, LockTypeOK
<1>a. CASE conns[Owner[k]] = NoConn
  <2>1. LockTypeOK'
    BY <1>a DEF HaveTargets, HolderInv, Free, SockStates, Nothing
  <2>2. HolderInv'
    BY <1>a DEF HolderInv, Free
  <2>3. EntryInv'
    BY <1>a DEF EntryInv, HandlerInv, Pooled
  <2>4. FiledInv'
    BY <1>a DEF FiledInv
  <2>5. HandlerInv'
    BY <1>a DEF HandlerInv, EntryInv, Pooled
  <2>6. OldInv'
    BY <1>a DEF OldInv, Creating, HolderInv, EntryInv, HandlerInv, Nothing, Free, Pooled
  <2>7. AskedInv'
    BY <1>a DEF AskedInv
  <2>8. SocketsAccounted' /\ ReportNotLost'
    BY <1>a DEF SocketsAccounted, ReportNotLost, EntryInv, HandlerInv, OldInv, Creating, HolderInv, Pooled
  <2> QED
    BY <2>1, <2>2, <2>3, <2>4, <2>5, <2>6, <2>7, <2>8
<1>b. CASE conns[Owner[k]] # NoConn
  <2>1. LockTypeOK'
    <3>1. HaveTargets'
      BY <1>b DEF HaveTargets, HolderInv, Free
    <3> QED
      BY <1>b, <3>1 DEF SockStates, Nothing
  <2>2. HolderInv'
    BY <1>b DEF HolderInv, Free
  <2>3. EntryInv'
    BY <1>b DEF EntryInv, HandlerInv, Pooled
  <2>4. FiledInv'
    BY <1>b DEF FiledInv
  <2>5. HandlerInv'
    BY <1>b DEF HandlerInv, EntryInv, Pooled
  <2>6. OldInv'
    BY <1>b DEF OldInv, Creating, HolderInv, EntryInv, HandlerInv, Nothing, Free, Pooled
  <2>7. AskedInv'
    BY <1>b DEF AskedInv
  <2>8. SocketsAccounted' /\ ReportNotLost'
    BY <1>b DEF SocketsAccounted, ReportNotLost, EntryInv, HandlerInv, OldInv, Creating, HolderInv, Pooled
  <2> QED
    BY <2>1, <2>2, <2>3, <2>4, <2>5, <2>6, <2>7, <2>8
<1> QED
  BY <1>a, <1>b

\* A refused handler keeps its socket.
LEMMA PingAnsweredInv ==
    ASSUME LInv, NEW k \in Conns, PingAnswered(k)
    PROVE  LInv'
<1> USE PoolAssumption, ClientAssumption, LockAssumption DEF PingAnswered, LInv, LockTypeOK
<1>1. LockTypeOK'
  BY DEF HaveTargets, HolderInv, Free, SockStates, Nothing
<1>2. HolderInv'
  BY DEF HolderInv, Free
<1>3. EntryInv'
  BY DEF EntryInv, HandlerInv, Pooled
<1>4. FiledInv'
  BY DEF FiledInv
<1>5. HandlerInv'
  BY DEF HandlerInv, EntryInv, Pooled
<1>6. OldInv'
  BY DEF OldInv, Creating, HolderInv, EntryInv, HandlerInv, Nothing, Free, Pooled
<1>7. AskedInv'
  BY DEF AskedInv
<1>8. SocketsAccounted' /\ ReportNotLost'
  BY DEF SocketsAccounted, ReportNotLost, EntryInv, HandlerInv, OldInv, Creating, HolderInv, Pooled
<1> QED
  BY <1>1, <1>2, <1>3, <1>4, <1>5, <1>6, <1>7, <1>8

\* AddConn closes the old connection and remembers it.
LEMMA PingFailsInv ==
    ASSUME LInv, NEW k \in Conns, PingFails(k)
    PROVE  LInv'
<1> USE PoolAssumption, ClientAssumption, LockAssumption DEF PingFails, LInv, LockTypeOK
<1>a. Owner[k] \in Clients /\ conns[Owner[k]] # NoConn /\ CloseConn(Owner[k])
  BY DEF HaveTargets
<1>b. Closed(Owner[k])
  BY <1>a, CloseConnEffect
<1>1. LockTypeOK'
  <2>1. HaveTargets'
    BY <1>b DEF HaveTargets, HolderInv, Free, Closed
  <2> QED
    BY <1>b, <2>1 DEF SockStates, Nothing, Closed
<1>2. HolderInv'
  BY <1>b DEF HolderInv, Free, Closed
<1>3. EntryInv'
  BY <1>b DEF EntryInv, HandlerInv, Pooled, Closed
<1>4. FiledInv'
  BY <1>b DEF FiledInv, Closed
<1>5. HandlerInv'
  BY <1>b DEF HandlerInv, EntryInv, Pooled, Closed
<1>6. OldInv'
  BY <1>b DEF OldInv, Creating, HolderInv, EntryInv, HandlerInv, Nothing, Free, Pooled, Closed
<1>7. AskedInv'
  BY <1>b DEF AskedInv, Closed
<1>8. SocketsAccounted' /\ ReportNotLost'
  BY <1>b DEF SocketsAccounted, ReportNotLost, EntryInv, HandlerInv, OldInv, Creating, HolderInv, Pooled, Closed
<1> QED
  BY <1>1, <1>2, <1>3, <1>4, <1>5, <1>6, <1>7, <1>8

\* AddConn closes what it was given; the entry it found or made empty stays so.
LEMMA NewClientConnFailsInv ==
    ASSUME LInv, NEW k \in Conns, NewClientConnFails(k)
    PROVE  LInv'
<1> USE PoolAssumption, ClientAssumption, LockAssumption DEF NewClientConnFails, LInv, LockTypeOK
<1>c. mu = k /\ Owner[k] \in Clients /\ conns[Owner[k]] = NoConn
  BY DEF HolderInv, OldInv, Creating
<1>1. LockTypeOK'
  BY <1>c DEF HaveTargets, HolderInv, Free, SockStates, Nothing
<1>2. HolderInv'
  BY <1>c DEF HolderInv, Free
<1>3. EntryInv'
  BY <1>c DEF EntryInv, HandlerInv, Pooled
<1>4. FiledInv'
  BY <1>c DEF FiledInv
<1>5. HandlerInv'
  BY <1>c DEF HandlerInv, EntryInv, Pooled
<1>6. OldInv'
  BY <1>c DEF OldInv, Creating, HolderInv, EntryInv, HandlerInv, Nothing, Free, Pooled
<1>7. AskedInv'
  BY <1>c DEF AskedInv
<1>8. SocketsAccounted' /\ ReportNotLost'
  BY <1>c DEF SocketsAccounted, ReportNotLost, EntryInv, HandlerInv, OldInv, Creating, HolderInv, Pooled
<1> QED
  BY <1>1, <1>2, <1>3, <1>4, <1>5, <1>6, <1>7, <1>8

\* The reader starts while AddConn holds the lock.
LEMMA NewClientConnInv ==
    ASSUME LInv, NEW k \in Conns, NewClientConn(k)
    PROVE  LInv'
<1> USE PoolAssumption, ClientAssumption, LockAssumption DEF NewClientConn, LInv, LockTypeOK
<1>c. mu = k /\ Owner[k] \in Clients /\ conns[Owner[k]] = NoConn
  BY DEF HolderInv, OldInv, Creating
<1>1. LockTypeOK'
  BY <1>c DEF HaveTargets, HolderInv, Free, SockStates, Nothing
<1>2. HolderInv'
  BY <1>c DEF HolderInv, Free
<1>3. EntryInv'
  BY <1>c DEF EntryInv, HandlerInv, Pooled
<1>4. FiledInv'
  BY <1>c DEF FiledInv
<1>5. HandlerInv'
  BY <1>c DEF HandlerInv, EntryInv, Pooled
<1>6. OldInv'
  BY <1>c DEF OldInv, Creating, HolderInv, EntryInv, HandlerInv, Nothing, Free, Pooled
<1>7. AskedInv'
  BY <1>c DEF AskedInv
<1>8. SocketsAccounted' /\ ReportNotLost'
  BY <1>c DEF SocketsAccounted, ReportNotLost, EntryInv, HandlerInv, OldInv, Creating, HolderInv, Pooled
<1> QED
  BY <1>1, <1>2, <1>3, <1>4, <1>5, <1>6, <1>7, <1>8

\* AddConn fills the entry it found or made empty.
LEMMA StoreConnInv ==
    ASSUME LInv, NEW k \in Conns, StoreConn(k)
    PROVE  LInv'
<1> USE PoolAssumption, ClientAssumption, LockAssumption DEF StoreConn, LInv, LockTypeOK
<1>c. mu = k /\ Owner[k] \in Clients /\ conns[Owner[k]] = NoConn
  BY DEF HolderInv, OldInv, Creating
<1>d. \A j \in Conns : Pooled(j)' <=> j = k \/ Pooled(j)
  BY <1>c DEF Pooled
<1>1. LockTypeOK'
  BY <1>c, <1>d DEF HaveTargets, HolderInv, Free, SockStates, Nothing
<1>2. HolderInv'
  BY <1>c, <1>d DEF HolderInv, Free
<1>3. EntryInv'
  BY <1>c, <1>d DEF EntryInv, HandlerInv, Pooled
<1>4. FiledInv'
  BY <1>c, <1>d DEF FiledInv
<1>5. HandlerInv'
  BY <1>c, <1>d DEF HandlerInv, EntryInv, Pooled
<1>6. OldInv'
  BY <1>c, <1>d DEF OldInv, Creating, HolderInv, EntryInv, HandlerInv, Nothing, Free, Pooled
<1>7. AskedInv'
  BY <1>c, <1>d DEF AskedInv
<1>8. SocketsAccounted' /\ ReportNotLost'
  BY <1>c, <1>d DEF SocketsAccounted, ReportNotLost, EntryInv, HandlerInv, OldInv, Creating, HolderInv, Pooled
<1> QED
  BY <1>1, <1>2, <1>3, <1>4, <1>5, <1>6, <1>7, <1>8

\* The socket a refused handler closes is not in the pool.
LEMMA RejectClosesInv ==
    ASSUME LInv, NEW k \in Conns, RejectCloses(k)
    PROVE  LInv'
<1> USE PoolAssumption, ClientAssumption, LockAssumption DEF RejectCloses, LInv, LockTypeOK
<1>1. LockTypeOK'
  BY DEF HaveTargets, HolderInv, Free, SockStates, Nothing
<1>2. HolderInv'
  BY DEF HolderInv, Free
<1>3. EntryInv'
  BY DEF EntryInv, HandlerInv, Pooled
<1>4. FiledInv'
  BY DEF FiledInv
<1>5. HandlerInv'
  BY DEF HandlerInv, EntryInv, Pooled
<1>6. OldInv'
  BY DEF OldInv, Creating, HolderInv, EntryInv, HandlerInv, Nothing, Free, Pooled
<1>7. AskedInv'
  BY DEF AskedInv
<1>8. SocketsAccounted' /\ ReportNotLost'
  BY DEF SocketsAccounted, ReportNotLost, EntryInv, HandlerInv, OldInv, Creating, HolderInv, Pooled
<1> QED
  BY <1>1, <1>2, <1>3, <1>4, <1>5, <1>6, <1>7, <1>8

\* A request asks for a client.
LEMMA CallGetClientConnInv ==
    ASSUME LInv, NEW r \in Lookups, NEW c \in Clients, CallGetClientConn(r, c)
    PROVE  LInv'
<1> USE PoolAssumption, ClientAssumption, LockAssumption DEF CallGetClientConn, LInv, LockTypeOK
<1>1. LockTypeOK'
  BY DEF HaveTargets, HolderInv, Free, SockStates, Nothing
<1>2. HolderInv'
  BY DEF HolderInv, Free
<1>3. EntryInv'
  BY DEF EntryInv, HandlerInv, Pooled
<1>4. FiledInv'
  BY DEF FiledInv
<1>5. HandlerInv'
  BY DEF HandlerInv, EntryInv, Pooled
<1>6. OldInv'
  BY DEF OldInv, Creating, HolderInv, EntryInv, HandlerInv, Nothing, Free, Pooled
<1>7. AskedInv'
  BY DEF AskedInv
<1>8. SocketsAccounted' /\ ReportNotLost'
  BY DEF SocketsAccounted, ReportNotLost, EntryInv, HandlerInv, OldInv, Creating, HolderInv, Pooled
<1> QED
  BY <1>1, <1>2, <1>3, <1>4, <1>5, <1>6, <1>7, <1>8

\* A request goes on only with a connection.
LEMMA LookupInv ==
    ASSUME LInv, NEW r \in Lookups, Lookup(r)
    PROVE  LInv'
<1> USE PoolAssumption, ClientAssumption, LockAssumption DEF Lookup, LInv, LockTypeOK
<1>a. seen[r].client \in Clients /\ conns[seen[r].client] \in Conns \cup {NoConn}
  BY DEF AskedInv
<1>b. /\ seen' \in [Lookups -> [client : Clients \cup {NoClient}, conn : Conns \cup {NoConn}]]
      /\ seen'[r].client = seen[r].client /\ seen'[r].conn = conns[seen[r].client]
      /\ \A q \in Lookups : q # r => seen'[q] = seen[q]
  BY <1>a
<1>c. look'[r] = "test" => conns[seen[r].client] # NoConn
  OBVIOUS
<1>1. LockTypeOK'
  <2>1. HaveTargets'
    BY <1>a, <1>b, <1>c DEF HaveTargets, HolderInv, Free
  <2> QED
    BY <1>a, <1>b, <1>c, <2>1 DEF SockStates, Nothing
<1>2. HolderInv'
  BY <1>a, <1>b, <1>c DEF HolderInv, Free
<1>3. EntryInv'
  BY <1>a, <1>b, <1>c DEF EntryInv, HandlerInv, Pooled
<1>4. FiledInv'
  BY <1>a, <1>b, <1>c DEF FiledInv
<1>5. HandlerInv'
  BY <1>a, <1>b, <1>c DEF HandlerInv, EntryInv, Pooled
<1>6. OldInv'
  BY <1>a, <1>b, <1>c DEF OldInv, Creating, HolderInv, EntryInv, HandlerInv, Nothing, Free, Pooled
<1>7. AskedInv'
  BY <1>a, <1>b, <1>c DEF AskedInv
<1>8. SocketsAccounted' /\ ReportNotLost'
  BY <1>a, <1>b, <1>c DEF SocketsAccounted, ReportNotLost, EntryInv, HandlerInv, OldInv, Creating, HolderInv, Pooled
<1> QED
  BY <1>1, <1>2, <1>3, <1>4, <1>5, <1>6, <1>7, <1>8

\* Testing a connection changes nothing of the pool.
LEMMA TestInv ==
    ASSUME LInv, NEW r \in Lookups, Test(r)
    PROVE  LInv'
<1> USE PoolAssumption, ClientAssumption, LockAssumption DEF Test, LInv, LockTypeOK
<1>a. PICK s \in {"idle", "evict"} : look' = [look EXCEPT ![r] = s]
  OBVIOUS
<1>1. LockTypeOK'
  BY <1>a DEF HaveTargets, HolderInv, Free, SockStates, Nothing
<1>2. HolderInv'
  BY <1>a DEF HolderInv, Free
<1>3. EntryInv'
  BY <1>a DEF EntryInv, HandlerInv, Pooled
<1>4. FiledInv'
  BY <1>a DEF FiledInv
<1>5. HandlerInv'
  BY <1>a DEF HandlerInv, EntryInv, Pooled
<1>6. OldInv'
  BY <1>a DEF OldInv, Creating, HolderInv, EntryInv, HandlerInv, Nothing, Free, Pooled
<1>7. AskedInv'
  BY <1>a DEF AskedInv
<1>8. SocketsAccounted' /\ ReportNotLost'
  BY <1>a DEF SocketsAccounted, ReportNotLost, EntryInv, HandlerInv, OldInv, Creating, HolderInv, Pooled
<1> QED
  BY <1>1, <1>2, <1>3, <1>4, <1>5, <1>6, <1>7, <1>8

\* The eviction closes the entry only if it is still the one that was looked up.
LEMMA EvictInv ==
    ASSUME LInv, NEW r \in Lookups, Evict(r)
    PROVE  LInv'
<1> USE PoolAssumption, ClientAssumption, LockAssumption DEF Evict, poolVars, LInv, LockTypeOK
<1>a. CASE conns[seen[r].client] = seen[r].conn
  <2> DEFINE c == seen[r].client
  <2>a. c \in Clients /\ conns[c] # NoConn /\ CloseConn(c)
    BY <1>a DEF AskedInv, HaveTargets
  <2>b. Closed(c)
    BY <2>a, CloseConnEffect
  <2> HIDE DEF c
  <2>1. LockTypeOK'
    BY <2>b DEF HaveTargets, HolderInv, Free, SockStates, Nothing, Closed
  <2>2. HolderInv'
    BY <2>b DEF HolderInv, Free, Closed
  <2>3. EntryInv'
    BY <2>b DEF EntryInv, HandlerInv, Pooled, Closed
  <2>4. FiledInv'
    BY <2>b DEF FiledInv, Closed
  <2>5. HandlerInv'
    BY <2>b DEF HandlerInv, EntryInv, Pooled, Closed
  <2>6. OldInv'
    BY <2>b DEF OldInv, Creating, HolderInv, EntryInv, HandlerInv, Nothing, Free, Pooled, Closed
  <2>7. AskedInv'
    BY <2>b DEF AskedInv, Closed
  <2>8. SocketsAccounted' /\ ReportNotLost'
    BY <2>b DEF SocketsAccounted, ReportNotLost, EntryInv, HandlerInv, OldInv, Creating, HolderInv, Pooled, Closed
  <2> QED
    BY <2>1, <2>2, <2>3, <2>4, <2>5, <2>6, <2>7, <2>8
<1>b. CASE ~(conns[seen[r].client] = seen[r].conn)
  <2>1. LockTypeOK'
    BY <1>b DEF HaveTargets, HolderInv, Free, SockStates, Nothing
  <2>2. HolderInv'
    BY <1>b DEF HolderInv, Free
  <2>3. EntryInv'
    BY <1>b DEF EntryInv, HandlerInv, Pooled
  <2>4. FiledInv'
    BY <1>b DEF FiledInv
  <2>5. HandlerInv'
    BY <1>b DEF HandlerInv, EntryInv, Pooled
  <2>6. OldInv'
    BY <1>b DEF OldInv, Creating, HolderInv, EntryInv, HandlerInv, Nothing, Free, Pooled
  <2>7. AskedInv'
    BY <1>b DEF AskedInv
  <2>8. SocketsAccounted' /\ ReportNotLost'
    BY <1>b DEF SocketsAccounted, ReportNotLost, EntryInv, HandlerInv, OldInv, Creating, HolderInv, Pooled
  <2> QED
    BY <2>1, <2>2, <2>3, <2>4, <2>5, <2>6, <2>7, <2>8
<1> QED
  BY <1>a, <1>b

\* DeleteConn closes an entry.
LEMMA DeleteConnInv ==
    ASSUME LInv, NEW c \in Clients, DeleteConn(c)
    PROVE  LInv'
<1> USE PoolAssumption, ClientAssumption, LockAssumption DEF DeleteConn, LInv, LockTypeOK
<1>a. c \in Clients /\ conns[c] # NoConn /\ CloseConn(c)
  BY DEF HaveTargets
<1>b. Closed(c)
  BY <1>a, CloseConnEffect
<1>1. LockTypeOK'
  BY <1>b DEF HaveTargets, HolderInv, Free, SockStates, Nothing, Closed
<1>2. HolderInv'
  BY <1>b DEF HolderInv, Free, Closed
<1>3. EntryInv'
  BY <1>b DEF EntryInv, HandlerInv, Pooled, Closed
<1>4. FiledInv'
  BY <1>b DEF FiledInv, Closed
<1>5. HandlerInv'
  BY <1>b DEF HandlerInv, EntryInv, Pooled, Closed
<1>6. OldInv'
  BY <1>b DEF OldInv, Creating, HolderInv, EntryInv, HandlerInv, Nothing, Free, Pooled, Closed
<1>7. AskedInv'
  BY <1>b DEF AskedInv, Closed
<1>8. SocketsAccounted' /\ ReportNotLost'
  BY <1>b DEF SocketsAccounted, ReportNotLost, EntryInv, HandlerInv, OldInv, Creating, HolderInv, Pooled, Closed
<1> QED
  BY <1>1, <1>2, <1>3, <1>4, <1>5, <1>6, <1>7, <1>8

\* Ping becomes the holder of the lock.
LEMMA LockPingInv ==
    ASSUME LInv, NEW p \in Pingers, NEW c \in Clients, LockPing(p, c)
    PROVE  LInv'
<1> USE PoolAssumption, ClientAssumption, LockAssumption DEF LockPing, LInv, LockTypeOK
<1>1. LockTypeOK'
  BY DEF HaveTargets, HolderInv, Free, SockStates, Nothing
<1>2. HolderInv'
  BY DEF HolderInv, Free
<1>3. EntryInv'
  BY DEF EntryInv, HandlerInv, Pooled
<1>4. FiledInv'
  BY DEF FiledInv
<1>5. HandlerInv'
  BY DEF HandlerInv, EntryInv, Pooled
<1>6. OldInv'
  BY DEF OldInv, Creating, HolderInv, EntryInv, HandlerInv, Nothing, Free, Pooled
<1>7. AskedInv'
  BY DEF AskedInv
<1>8. SocketsAccounted' /\ ReportNotLost'
  BY DEF SocketsAccounted, ReportNotLost, EntryInv, HandlerInv, OldInv, Creating, HolderInv, Pooled
<1> QED
  BY <1>1, <1>2, <1>3, <1>4, <1>5, <1>6, <1>7, <1>8

\* Ping gives the lock back.
LEMMA PingReturnsInv ==
    ASSUME LInv, NEW p \in Pingers, PingReturns(p)
    PROVE  LInv'
<1> USE PoolAssumption, ClientAssumption, LockAssumption DEF PingReturns, LInv, LockTypeOK
<1>1. LockTypeOK'
  BY DEF HaveTargets, HolderInv, Free, SockStates, Nothing
<1>2. HolderInv'
  BY DEF HolderInv, Free
<1>3. EntryInv'
  BY DEF EntryInv, HandlerInv, Pooled
<1>4. FiledInv'
  BY DEF FiledInv
<1>5. HandlerInv'
  BY DEF HandlerInv, EntryInv, Pooled
<1>6. OldInv'
  BY DEF OldInv, Creating, HolderInv, EntryInv, HandlerInv, Nothing, Free, Pooled
<1>7. AskedInv'
  BY DEF AskedInv
<1>8. SocketsAccounted' /\ ReportNotLost'
  BY DEF SocketsAccounted, ReportNotLost, EntryInv, HandlerInv, OldInv, Creating, HolderInv, Pooled
<1> QED
  BY <1>1, <1>2, <1>3, <1>4, <1>5, <1>6, <1>7, <1>8

\* Every step of the specification preserves the invariant.
LEMMA LNextInv == LInv /\ [LNext]_lockVars => LInv'
<1> SUFFICES ASSUME LInv, [LNext]_lockVars PROVE LInv'
  OBVIOUS
<1>1. CASE UNCHANGED lockVars
  BY <1>1 DEF lockVars, LInv, LockTypeOK, HaveTargets, HolderInv, EntryInv, FiledInv, HandlerInv,
              OldInv, AskedInv, SocketsAccounted, ReportNotLost, Creating, Pooled
<1>2. CASE Unlocking
  BY <1>2, PingAnsweredInv, PingFailsInv, NewClientConnFailsInv, NewClientConnInv,
     StoreConnInv, PingReturnsInv
  DEF Unlocking, HolderStep
<1>3. ASSUME NEW k \in Conns,
             CallAddConn(k) \/ LinkDown(k) \/ ReaderFails(k) \/ MarkDead(k) \/ LockAdd(k)
               \/ RejectCloses(k)
      PROVE  LInv'
  BY <1>3, CallAddConnInv, LinkDownInv, ReaderFailsInv, MarkDeadInv, LockAddInv, RejectClosesInv
<1>4. ASSUME NEW r \in Lookups,
             (\E c \in Clients : CallGetClientConn(r, c)) \/ Lookup(r) \/ Test(r) \/ Evict(r)
      PROVE  LInv'
  BY <1>4, CallGetClientConnInv, LookupInv, TestInv, EvictInv
<1>5. ASSUME NEW c \in Clients, DeleteConn(c) \/ \E p \in Pingers : LockPing(p, c)
      PROVE  LInv'
  BY <1>5, DeleteConnInv, LockPingInv
<1> QED
  BY <1>1, <1>2, <1>3, <1>4, <1>5 DEF LNext

\* The invariant of the pool and its callers.
LEMMA LInvariant == LSpec => []LInv
BY LInitInv, LNextInv, PTL DEF LSpec

\* Type correctness of the pool and its callers: AddConn's ping and the test in
\* GetClientConn always have a connection to work on.
THEOREM PoolLocksTypeCorrect == LSpec => []LockTypeOK
<1>1. LInv => LockTypeOK
  BY DEF LInv
<1> QED
  BY <1>1, LInvariant, PTL

\* No socket handed to the pool is lost, whatever interleaves with the pings
\* under the lock.
THEOREM PoolSocketsAccounted == LSpec => []SocketsAccounted
<1>1. LInv => SocketsAccounted
  BY DEF LInv
<1> QED
  BY <1>1, LInvariant, PTL

\* The one call of MarkDead a reader makes is never too early: a connection whose
\* reader has made it is not in the pool and will not be put there.
THEOREM PoolReportNotLost == LSpec => []ReportNotLost
<1>1. LInv => ReportNotLost
  BY DEF LInv
<1> QED
  BY <1>1, LInvariant, PTL

-----------------------------------------------------------------------------
(* The refinement: every critical section is a step of ConnPool or none.   *)

\* Outside AddConn's creation of a connection the pool is what it seems.
LEMMA AtomicIdle == ~Creating => atomicConns = conns /\ atomicSock = sock
BY DEF atomicConns, atomicSock

\* During it, the old connection still counts, unless there was none.
LEMMA AtomicCreating ==
    ASSUME LInv, Creating
    PROVE  /\ atomicConns = [conns EXCEPT ![Owner[mu]] = old.conn]
           /\ old.conn = NoConn => atomicConns = conns /\ atomicSock = sock
           /\ old.conn # NoConn => atomicSock = [sock EXCEPT ![old.conn] = old.was]
           /\ mu \in Conns /\ Owner[mu] \in Clients /\ conns[Owner[mu]] = NoConn
<1>1. mu \in Conns /\ Owner[mu] \in Clients /\ conns[Owner[mu]] = NoConn
  BY PoolAssumption DEF LInv, OldInv, Creating
<1>2. conns = [conns EXCEPT ![Owner[mu]] = NoConn]
  BY <1>1 DEF LInv, LockTypeOK
<1> QED
  BY <1>1, <1>2 DEF atomicConns, atomicSock, Creating

\* A step that touches neither the pool nor the sockets nor AddConn's creation
\* is not seen.
LEMMA AtomicSame ==
    ASSUME UNCHANGED <<conns, sock, old>>, Creating' <=> Creating, Creating => mu' = mu
    PROVE  UNCHANGED <<atomicConns, atomicSock>>
BY DEF atomicConns, atomicSock

\* The steps of readers, requests and pings that only look.
LookStep ==
    \/ \E k \in Conns : ReaderFails(k) \/ PingAnswered(k) \/ NewClientConn(k)
    \/ \E r \in Lookups : (\E c \in Clients : CallGetClientConn(r, c)) \/ Lookup(r) \/ Test(r)
    \/ \E p \in Pingers : (\E c \in Clients : LockPing(p, c)) \/ PingReturns(p)

\* None of them is a step of the abstract pool.
LEMMA LookRefines ==
    ASSUME LInv, LookStep
    PROVE  UNCHANGED <<atomicConns, atomicSock>>
<1> USE LockAssumption
    DEF LInv, LockTypeOK, HolderInv, Creating, Free, LookStep
<1>1. UNCHANGED <<conns, sock, old>>
  BY DEF ReaderFails, PingAnswered, NewClientConn, CallGetClientConn, Lookup, Test, LockPing, PingReturns
<1>2. CASE \E k \in Conns : NewClientConn(k)
  BY <1>1, <1>2, AtomicSame DEF NewClientConn
<1>3. CASE ~\E k \in Conns : NewClientConn(k)
  <2>1. Creating => UNCHANGED <<mu, add>>
    BY <1>3 DEF ReaderFails, PingAnswered, CallGetClientConn, Lookup, Test, LockPing, PingReturns
  <2>2. Creating' => Creating
    BY <1>3 DEF ReaderFails, PingAnswered, CallGetClientConn, Lookup, Test, LockPing, PingReturns
  <2> QED
    BY <1>1, <2>1, <2>2, AtomicSame
<1> QED
  BY <1>2, <1>3

\* Taking the lock is not seen, even if there is nothing to ping.
LEMMA LockAddRefines ==
    ASSUME LInv, NEW k \in Conns, LockAdd(k)
    PROVE  UNCHANGED <<atomicConns, atomicSock>>
<1>1. ~Creating /\ old = Nothing /\ UNCHANGED <<conns, sock, old>>
  BY LockAssumption DEF LInv, OldInv, LockAdd, Creating, Free
<1>2. LInv'
  BY LockAddInv
<1>3. Creating' => atomicConns' = conns' /\ atomicSock' = sock'
  BY <1>1, <1>2 DEF atomicConns, atomicSock, Nothing, LInv, OldInv, LockTypeOK
<1> QED
  BY <1>1, <1>3 DEF atomicConns, atomicSock

\* The old connection is closed and dropped out of sight.
LEMMA PingFailsRefines ==
    ASSUME LInv, NEW k \in Conns, PingFails(k)
    PROVE  UNCHANGED <<atomicConns, atomicSock>>
<1> USE PoolAssumption, LockAssumption DEF LInv, LockTypeOK
<1> DEFINE o == conns[Owner[k]]
<1>1. mu = k /\ o \in Conns /\ Owner[k] \in Clients
  BY DEF HolderInv, HaveTargets, PingFails
<1>2. ~Creating
  BY <1>1 DEF Creating, PingFails
<1>3. Creating' /\ mu' = k /\ old' = [conn |-> o, was |-> sock[o]]
  BY <1>1 DEF Creating, PingFails
<1>4. conns' = [conns EXCEPT ![Owner[k]] = NoConn] /\ sock' = [sock EXCEPT ![o] = "closed"]
  BY DEF PingFails, CloseConn
<1>5. atomicConns' = [conns' EXCEPT ![Owner[k]] = o]
  BY <1>3 DEF atomicConns
<1>6. atomicSock' = [sock' EXCEPT ![o] = sock[o]]
  BY <1>1, <1>3 DEF atomicSock
<1> QED
  BY <1>1, <1>2, <1>4, <1>5, <1>6, AtomicIdle

\* Sockets come, go down and are closed as in the abstract pool: the connection
\* AddConn has closed and not yet replaced is not among them.
LEMMA SockRefines ==
    ASSUME LInv, NEW k \in Conns, CallAddConn(k) \/ LinkDown(k) \/ RejectCloses(k)
    PROVE  Atomic!SockStep(k)
<1> USE PoolAssumption, LockAssumption DEF LInv, LockTypeOK
<1>1. UNCHANGED <<conns, mu, old>> /\ (Creating' <=> Creating)
  BY DEF CallAddConn, LinkDown, RejectCloses, Creating, HolderInv
<1>2. PICK s \in {"open", "down", "closed"} :
        /\ sock' = [sock EXCEPT ![k] = s]
        /\ \/ s = "open" /\ sock[k] = "new"
           \/ s = "down" /\ sock[k] = "open"
           \/ s = "closed" /\ sock[k] # "new" /\ add[k] = "refused"
  BY DEF CallAddConn, LinkDown, RejectCloses, HandlerInv
<1>3. Creating => k # old.conn
  BY <1>2 DEF OldInv, HandlerInv
<1>4. UNCHANGED atomicConns
  BY <1>1 DEF atomicConns
<1>5. atomicSock[k] = sock[k] /\ atomicSock' = [atomicSock EXCEPT ![k] = s]
  BY <1>1, <1>2, <1>3 DEF atomicSock
<1>6. ~Atomic!Pooled(k) \/ add[k] # "refused"
  BY <1>3 DEF Atomic!Pooled, atomicConns, EntryInv, Pooled, Creating
<1> QED
  BY <1>2, <1>4, <1>5, <1>6 DEF Atomic!SockStep

\* Whoever closes an entry of the pool does it with the lock free, in one step.
LEMMA CloseRefines ==
    ASSUME LInv, Free, mu' = mu, add' = add, NEW c \in Clients, conns[c] # NoConn, CloseConn(c)
    PROVE  Atomic!CloseConn(c) /\ atomicConns[c] # NoConn
<1>1. ~Creating /\ ~Creating'
  BY LockAssumption DEF Creating, Free
<1>2. atomicConns = conns /\ atomicSock = sock /\ atomicConns' = conns' /\ atomicSock' = sock'
  BY <1>1 DEF atomicConns, atomicSock
<1> QED
  BY <1>2 DEF Atomic!CloseConn, CloseConn

\* The new connection, or the failure to make it, replaces the old one in one
\* step.
LEMMA ReplaceRefines ==
    ASSUME LInv, NEW k \in Conns, NewClientConnFails(k) \/ StoreConn(k)
    PROVE  Atomic!ReplaceStep(k)
<1> USE PoolAssumption, LockAssumption DEF LInv, LockTypeOK
<1> DEFINE o == old.conn
           c == Owner[k]
<1>0. mu = k /\ add[k] \in {"create", "store"} /\ Creating /\ c \in Clients
  BY DEF HolderInv, NewClientConnFails, StoreConn, Creating
<1>1. conns[c] = NoConn /\ o # k
  BY <1>0 DEF OldInv
<1>2. ~Creating' /\ atomicConns' = conns' /\ atomicSock' = sock'
  BY <1>0, <1>1 DEF NewClientConnFails, StoreConn, Creating, atomicConns, atomicSock
<1>3. atomicConns = [conns EXCEPT ![c] = o]
  BY <1>0, <1>1 DEF atomicConns
<1>4. atomicSock = [j \in Conns |-> IF j = o THEN old.was ELSE sock[j]]
  <2>1. CASE o = NoConn
    BY <1>0, <2>1 DEF atomicSock
  <2>2. CASE o # NoConn
    BY <1>0, <2>2 DEF atomicSock
  <2> QED
    BY <2>1, <2>2
<1>5. \A j \in Conns : j = o => sock[j] = "closed"
  BY <1>0, <1>1 DEF OldInv
<1>6. atomicSock[k] = sock[k] /\ sock[k] \in {"open", "down"}
  BY <1>0, <1>1, <1>4 DEF HandlerInv, NewClientConnFails, StoreConn
<1>7. ~Atomic!Pooled(k)
  BY <1>0, <1>1, <1>3 DEF Atomic!Pooled
<1>8. PICK ok \in BOOLEAN :
        /\ ok \/ sock[k] = "down"
        /\ IF ok THEN conns' = [conns EXCEPT ![c] = k] /\ UNCHANGED sock
                 ELSE sock' = [sock EXCEPT ![k] = "closed"] /\ UNCHANGED conns
  <2>1. CASE NewClientConnFails(k)
    BY <2>1, FALSE \in BOOLEAN DEF NewClientConnFails
  <2>2. CASE StoreConn(k)
    BY <2>2, TRUE \in BOOLEAN DEF StoreConn
  <2> QED
    BY <2>1, <2>2
<1>9. atomicConns' = [atomicConns EXCEPT ![c] = IF ok THEN k ELSE NoConn]
  BY <1>0, <1>1, <1>2, <1>3, <1>8
<1>10. atomicSock' = [j \in Conns |-> IF j = o \/ (j = k /\ ~ok) THEN "closed"
                                                                 ELSE atomicSock[j]]
  BY <1>0, <1>1, <1>2, <1>4, <1>5, <1>8
<1>11. atomicConns[c] = o
  BY <1>0, <1>1, <1>3
<1> HIDE DEF o, c
<1>12. Atomic!ReplaceConn(k, ok)
  BY <1>9, <1>10, <1>11 DEF Atomic!ReplaceConn, c
<1> QED
  BY <1>6, <1>7, <1>8, <1>12 DEF Atomic!ReplaceStep

\* Nobody holds the lock at first, and the pool is what it seems.
LEMMA AtomicInit == LInit => Atomic!PInit
<1> SUFFICES ASSUME LInit PROVE Atomic!PInit
  OBVIOUS
<1>1. ~Creating
  BY LockAssumption DEF LInit, Creating
<1> QED
  BY <1>1, AtomicIdle DEF LInit, PInit, Atomic!PInit

\* Every step is a step of the abstract pool, or not seen in it.
LEMMA AtomicNext == LInv /\ [LNext]_lockVars => [Atomic!PNext]_(Atomic!poolVars)
<1> SUFFICES ASSUME LInv, [LNext]_lockVars
             PROVE  Atomic!PNext \/ UNCHANGED <<atomicConns, atomicSock>>
  BY DEF Atomic!poolVars
<1>1. CASE UNCHANGED lockVars
  BY <1>1 DEF lockVars, atomicConns, atomicSock, Creating
<1>2. CASE LookStep
  BY <1>2, LookRefines
<1>3. ASSUME NEW k \in Conns, CallAddConn(k) \/ LinkDown(k) \/ RejectCloses(k)
      PROVE  Atomic!PNext
  BY <1>3, SockRefines DEF Atomic!PNext
<1>4. ASSUME NEW k \in Conns, LockAdd(k) \/ PingFails(k)
      PROVE  UNCHANGED <<atomicConns, atomicSock>>
  BY <1>4, LockAddRefines, PingFailsRefines
<1>5. ASSUME NEW k \in Conns, NewClientConnFails(k) \/ StoreConn(k)
      PROVE  Atomic!PNext
  BY <1>5, ReplaceRefines DEF Atomic!PNext
<1>6. ASSUME Free, UNCHANGED <<mu, add, old>>, NEW c \in Clients,
             conns[c] # NoConn, CloseConn(c)
      PROVE  Atomic!PNext
  BY <1>6, CloseRefines DEF Atomic!PNext
<1>7. ASSUME Free, UNCHANGED <<mu, add, old>>, UNCHANGED poolVars
      PROVE  UNCHANGED <<atomicConns, atomicSock>>
  BY <1>7 DEF poolVars, atomicConns, atomicSock, Creating
<1>8. ASSUME NEW k \in Conns, MarkDead(k)
      PROVE  Atomic!PNext \/ UNCHANGED <<atomicConns, atomicSock>>
  <2>1. Free /\ UNCHANGED <<mu, add, old>>
    BY <1>8 DEF MarkDead
  <2>2. CASE Pooled(k)
    <3>1. Owner[k] \in Clients /\ conns[Owner[k]] # NoConn /\ CloseConn(Owner[k])
      BY <1>8, <2>2, PoolAssumption DEF MarkDead, Pooled
    <3> QED
      BY <2>1, <3>1, <1>6
  <2>3. CASE ~Pooled(k)
    BY <2>1, <2>3, <1>7, <1>8 DEF MarkDead
  <2> QED
    BY <2>2, <2>3
<1>9. ASSUME NEW r \in Lookups, Evict(r)
      PROVE  Atomic!PNext \/ UNCHANGED <<atomicConns, atomicSock>>
  <2>1. Free /\ UNCHANGED <<mu, add, old>>
    BY <1>9 DEF Evict
  <2>2. CASE conns[seen[r].client] = seen[r].conn
    <3>1. /\ seen[r].client \in Clients /\ conns[seen[r].client] # NoConn
          /\ CloseConn(seen[r].client)
      BY <1>9, <2>2, PoolAssumption DEF Evict, LInv, AskedInv, LockTypeOK, HaveTargets
    <3> QED
      BY <2>1, <3>1, <1>6
  <2>3. CASE conns[seen[r].client] # seen[r].conn
    BY <2>1, <2>3, <1>7, <1>9 DEF Evict
  <2> QED
    BY <2>2, <2>3
<1>10. ASSUME NEW c \in Clients, DeleteConn(c)
       PROVE  Atomic!PNext
  BY <1>10, <1>6 DEF DeleteConn
<1> QED
  BY <1>1, <1>2, <1>3, <1>4, <1>5, <1>8, <1>9, <1>10
  DEF LNext, Unlocking, HolderStep, LookStep

\* The critical sections of pool.go, with pings waited for under the lock, are the
\* atomic steps the model of the server is built from.
THEOREM PoolImplementsAtomic == LSpec => ImplementsPool
<1>1. LSpec => Atomic!PInit /\ [][Atomic!PNext]_(Atomic!poolVars)
  BY AtomicInit, AtomicNext, LInvariant, PTL DEF LSpec
<1> QED
  BY <1>1 DEF ImplementsPool, Atomic!PSpec

==============================================================================
