------------------------------- MODULE ConnPool -------------------------------
(***************************************************************************)
(* pool.go: the connection, at most one, over which the server reaches     *)
(* each client, and the state of the sockets handed to it.                 *)
(*                                                                         *)
(* AddConn, MarkDead, DeleteConn and the eviction in GetClientConn hold    *)
(* pool.mu from beginning to end, the call of `free` included, so each is  *)
(* one step.  This module says what the step does to the pool and to the   *)
(* sockets; `free` is Server.disconnected and belongs to the module that   *)
(* composes the pool with the registry.  conns is keyed by the address     *)
(* pool.addr derives from the identifier; pool.identifier is its inverse,  *)
(* so the key is the client itself.                                        *)
(***************************************************************************)
EXTENDS Identifiers

CONSTANTS
    Conns,       \* control connections, one for every accepted socket
    Owner,       \* Owner[k]: the identifier in the peer certificate of k
    NoConn

ASSUME PoolAssumption == /\ NoConn \notin Conns
                         /\ Owner \in [Conns -> Clients]

VARIABLES
    conns,       \* connPool.conns
    sock         \* the server's end of every control connection

poolVars == <<conns, sock>>

\* A socket is "new" until it is accepted.  "down" is a socket the server has
\* not closed and that will not carry another request: the peer is gone, or
\* the HTTP/2 connection was shut down by either end.
SockStates == {"new", "open", "down", "closed"}

PInit == /\ conns = [c \in Clients |-> NoConn]
         /\ sock = [k \in Conns |-> "new"]

Pooled(k) == conns[Owner[k]] = k

-----------------------------------------------------------------------------

\* Fault: pool.close that drops the entry and leaves the socket open.
CloseConnNoSocket(c) ==
    /\ conns' = [conns EXCEPT ![c] = NoConn]
    /\ UNCHANGED sock

\* pool.close without the callback: close the socket, drop the entry.
CloseConn(c) ==
    /\ sock' = [sock EXCEPT ![conns[c]] = "closed"]
    /\ conns' = [conns EXCEPT ![c] = NoConn]

\* AddConn finds a connection of the same client and its ping is answered
\* within DefaultPingTimeout; the new connection is refused.
AlreadyConnected(k) == conns[Owner[k]] # NoConn /\ sock[conns[Owner[k]]] = "open"

\* AddConn finds no connection, or one whose ping fails (it is dead, or too
\* slow to answer), which pool.close then closes and drops.  NewClientConn
\* writes the HTTP/2 preface: if that fails (ok = FALSE) conn is closed.
ReplaceConn(k, ok) ==
    LET old == conns[Owner[k]]
    IN  /\ conns' = [conns EXCEPT ![Owner[k]] = IF ok THEN k ELSE NoConn]
        /\ sock' = [j \in Conns |-> IF j = old \/ (j = k /\ ~ok) THEN "closed"
                                                                ELSE sock[j]]

-----------------------------------------------------------------------------
(* The pool as a specification of its own: what the rest of the server may *)
(* take each critical section for.  PoolLocks is shown to implement it.    *)

\* A connection arrives, loses its peer, or is closed by the handler that was
\* refused.
SockStep(k) ==
    /\ UNCHANGED conns
    /\ \/ sock[k] = "new" /\ sock' = [sock EXCEPT ![k] = "open"]
       \/ sock[k] = "open" /\ sock' = [sock EXCEPT ![k] = "down"]
       \/ sock[k] # "new" /\ ~Pooled(k) /\ sock' = [sock EXCEPT ![k] = "closed"]

\* AddConn replaces a connection by a newer one of the same client.
ReplaceStep(k) ==
    /\ sock[k] \in {"open", "down"}
    /\ ~Pooled(k)
    /\ \E ok \in BOOLEAN : (ok \/ sock[k] = "down") /\ ReplaceConn(k, ok)

PNext == \/ \E k \in Conns : SockStep(k) \/ ReplaceStep(k)
         \/ \E c \in Clients : conns[c] # NoConn /\ CloseConn(c)

PSpec == PInit /\ [][PNext]_poolVars

==============================================================================
