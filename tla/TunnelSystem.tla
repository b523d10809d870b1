----------------------------- MODULE TunnelSystem -----------------------------
(***************************************************************************)
(* A client and its server together: Client.tla and TunnelServer.tla, with *)
(* the network between them.  Each step is a step of one side, or of both  *)
(* where one takes part in what the other does: the TCP connect, a request *)
(* that is answered, an error that is pushed.                              *)
(*                                                                         *)
(* The two ends of a connection learn of its loss at different times, in   *)
(* either order, so that the client may be back on a new connection while  *)
(* the server's handler still works for the old one.  What each component  *)
(* alone leaves to its environment is bound here: a ping is answered, and  *)
(* a request answered or an error delivered, exactly when it goes to a     *)
(* connection the client is serving; and a healthy connection is not timed *)
(* out.  Nobody stops the client or cancels its context.                   *)
(***************************************************************************)
EXTENDS TunnelServer

CONSTANTS HasBackoff, Pauses, MaxElapsed, Hiccup,   \* those of Client
          MaxLosses                                 \* how often the network may fail

VARIABLES main, result, conn, link, ctx, stopper, serverErr, handler,
          sinceReset, sinceLost, sinceCut, pause, retries,    \* those of Client
          cur,      \* the connection the client dialed last
          losses    \* failures of the network so far

CL == INSTANCE Client

clientVars == <<main, result, conn, link, ctx, stopper, serverErr, handler,
                sinceReset, sinceLost, sinceCut, pause, retries>>

systemVars == <<vars, clientVars, cur, losses>>

\* One client, which the server lets in, and no users.
ASSUME SystemAssumption ==
    /\ MaxLosses \in Nat
    /\ Cardinality(Clients) = 1
    /\ AutoSubscribe
    /\ Users = {}
    /\ CL!ClientConfigAssumption

\* The client's end of k is open.
ClientOn(k) == cur = k /\ (main = "handshaking" \/ link = "up")

\* The client answers requests that come over k.
ClientServes(k) == cur = k /\ main = "serving" /\ link = "up"

SystemInit == Init /\ CL!Init /\ cur = NoConn /\ losses = 0

ServerOnly == UNCHANGED <<clientVars, cur, losses>>
ClientOnly == UNCHANGED <<vars, cur, losses>>

-----------------------------------------------------------------------------
(* Connecting.                                                             *)

Fresh == { k \in Conns : pc[k] = "new" }

\* The dial reaches the server's accept loop.
ConnectTCP ==
    /\ Fresh # {}
    /\ CL!Dialed
    /\ LET k == CHOOSE k \in Fresh : TRUE
       IN  cur' = k /\ Accept(k)
    /\ UNCHANGED losses

\* The client has finished the TLS handshake as soon as it has sent its
\* certificate.
ClientConnected ==
    /\ main = "handshaking" /\ sock[cur] = "open"
    /\ CL!DialSucceeds
    /\ ClientOnly

Lose == losses < MaxLosses /\ losses' = losses + 1

\* The network fails the dial or the handshake; or the server has closed.
DialFails ==
    /\ CL!DialFails
    /\ IF main = "handshaking" /\ sock[cur] # "open" THEN UNCHANGED losses ELSE Lose
    /\ UNCHANGED <<vars, cur>>

-----------------------------------------------------------------------------
(* Losing a connection, seen by either end first.                          *)

ClientLosesLink ==
    /\ CL!LinkDrops
    /\ Lose
    /\ UNCHANGED <<vars, cur>>

ServerLosesLink(k) ==
    /\ ClientOn(k)
    /\ LinkDown(k)
    /\ Lose
    /\ UNCHANGED <<clientVars, cur>>

ClientNotices ==
    /\ main = "serving"
    /\ sock[cur] # "open"
    /\ CL!LinkDrops
    /\ ClientOnly

ServerNotices(k) ==
    /\ ~ClientOn(k)
    /\ LinkDown(k)
    /\ ServerOnly

-----------------------------------------------------------------------------
(* The handler.                                                            *)

\* PeerID succeeds, the certificates being good, or fails with the connection.
AdmitOrRefuse(k) ==
    /\ IF ClientOn(k) THEN main = "serving" /\ Admit(k) ELSE Refuse(k)
    /\ ServerOnly

\* AddConn's ping of the connection in the pool: answered by a client that
\* serves it, and by nobody once the client has left it.
PingAnswered(k) ==
    LET old == conns[Owner[k]]
    IN  old # NoConn /\ ClientServes(old) /\ sock[old] = "open"

RefuseAnswered(k) ==
    /\ sock[k] = "down" \/ PingAnswered(k)
    /\ RefuseAdmitted(k)
    /\ ServerOnly

AddUnanswered(k) ==
    /\ ~PingAnswered(k)
    /\ AddConn(k)
    /\ ServerOnly

Answered(k) ==
    /\ ClientServes(via[k])
    /\ HandshakeAnswered(k)
    /\ ServerOnly

\* The client handles the error that notifyError pushes.
Notified(k) ==
    /\ pc[k] = "notify"
    /\ req[k] = "sent"
    /\ ClientServes(via[k])
    /\ serverErr # "current"
    /\ CL!ErrorPushed
    /\ ClientOnly

\* The response arrives, or the request ends with its connection.
Ends(k) ==
    /\ pc[k] = "info" \/ ~ClientServes(via[k]) \/ (pc[k] = "notify" /\ serverErr = "current")
    /\ RequestEnds(k)
    /\ ServerOnly

\* addTunnels turns no tunnel down but one it cannot open: net.Listen fails only
\* where a listener is open.
CanOpen(t) == IF t.proto = "tcp" THEN bound[t.addr] = NoConn ELSE Usable(t)

OpenTunnel(k) ==
    /\ AddTunnel(k)
    /\ pc'[k] = "adding" \/ \E t \in batch[k].todo : ~CanOpen(t)

HandlerOf(k) ==
    \/ RefuseAnswered(k) \/ AddUnanswered(k) \/ Answered(k) \/ Ends(k)
    \/ /\ OpenTunnel(k) \/ Register(k) \/ RegisterFails(k) \/ RejectPooled(k)
          \/ GetClientConn(k) \/ Evict(k) \/ Retry(k)
       /\ ServerOnly

ClientAlone ==
    /\ \/ CL!connect \/ CL!Wake
       \/ CL!ServeConnReturns \/ CL!CheckContext \/ CL!AfterDisconnect
    /\ ClientOnly

-----------------------------------------------------------------------------

SystemNext ==
    \/ ConnectTCP \/ ClientConnected \/ DialFails
    \/ ClientLosesLink \/ ClientNotices
    \/ ClientAlone
    \/ CL!handleHandshakeError /\ ClientOnly
    \/ CL!Tick /\ ClientOnly
    \/ \E k \in Conns :
          \/ ServerLosesLink(k) \/ ServerNotices(k)
          \/ AdmitOrRefuse(k) \/ HandlerOf(k) \/ Notified(k)
          \/ MarkDead(k) /\ ServerOnly

SystemSpec == SystemInit /\ [][SystemNext]_systemVars

\* Both programs take the steps they can, and each end of a connection learns
\* in the end that the other one is gone; the network need not fail.
FairSystemSpec ==
    /\ SystemSpec
    /\ WF_systemVars(ConnectTCP \/ ClientConnected \/ ClientAlone)
    /\ WF_systemVars(main = "handshaking" /\ sock[cur] # "open" /\ DialFails)
    /\ WF_systemVars(ClientNotices)
    /\ WF_systemVars(CL!handleHandshakeError /\ ClientOnly)
    /\ WF_systemVars(CL!Tick /\ ClientOnly)
    /\ \A k \in Conns : /\ WF_systemVars(ServerNotices(k))
                        /\ WF_systemVars(AdmitOrRefuse(k))
                        /\ WF_systemVars(HandlerOf(k))
                        /\ WF_systemVars(Notified(k))

-----------------------------------------------------------------------------

\* The tunnels of a client's file can be opened together: there are some, the host
\* names are valid and the TCP addresses differ.
Openable(T) ==
    /\ T # {}
    /\ \A t \in T : t.proto # "tcp" => Usable(t)
    /\ \A t, s \in T : t.proto = "tcp" /\ s.proto = "tcp" /\ t.addr = s.addr => t = s

\* Every file can be opened, and HTTP/2 admits a request (http2.Server: 250).
CanServe == MaxStreams > 0 /\ \A T \in Offers : Openable(T)

\* While the network does not fail, the client has no reason to give up: what one
\* session leaves behind on either side is no error in the next step of the
\* other (addTunnels and registry.set accept what they are offered), if the
\* server can serve the offers.
NoLossNoEnd == losses = 0 => main # "returned"

ServedBy(k) == pc[k] = "served" /\ Pooled(k) /\ items[Owner[k]].kind = "item"

\* A client does not sit on a connection the server does nothing for: the
\* server serves its tunnels, or the client learns that the connection is gone
\* (handleClient rejects by identifier; pool.close).
NoLimbo ==
    \A k \in Conns : ClientServes(k) ~> ServedBy(k) \/ ~ClientServes(k)

\* Without a failure of the network the first connection comes to be served
\* (Client.Start, handleClient).
FirstSessionServed ==
    [](losses = 0) => <>(\E k \in Conns : ClientServes(k) /\ ServedBy(k))

\* The server refuses nothing by itself here, every offer can be opened, and the
\* backoff has no limit: "On connection error a backoff policy is used to
\* reestablish the connection", so one failure does not end the client.
OneLossSurvived == losses <= 1 => main # "returned"

==============================================================================
