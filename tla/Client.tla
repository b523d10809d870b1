-------------------------------- MODULE Client --------------------------------
(***************************************************************************)
(* client.go: the loop of Client.Start, which dials with a backoff, serves *)
(* the control connection until it ends and decides whether to dial again; *)
(* the goroutine that turns the end of the context into one call of Stop;  *)
(* other callers of Stop; and the handlers that record an error the server *)
(* reported, which may still be running when their connection is gone.     *)
(*                                                                         *)
(* connMu is held from the beginning of connect to its end, the sleeps of  *)
(* the backoff included, and otherwise only for single steps: it is held   *)
(* between steps exactly when main is "dialing", "handshaking" (the TLS    *)
(* handshake, which has no deadline) or "sleeping".                        *)
(*                                                                         *)
(* Time is counted in units and appears as ages: the time since an event,  *)
(* which stops growing where no test can tell it from a later time.  The   *)
(* backoff is that of cenkalti/backoff, which cmd/client configures.       *)
(***************************************************************************)
EXTENDS Naturals

CONSTANTS
    HasBackoff,   \* ClientConfig.Backoff # nil
    Pauses,       \* the intervals the backoff may choose (at least one unit)
    MaxElapsed,   \* max_time of the backoff; 0: no limit
    Hiccup        \* a disconnect this soon after the last one ends Start (5s)

ASSUME ClientConfigAssumption ==
    /\ HasBackoff \in BOOLEAN
    /\ Pauses \subseteq Nat \ {0} /\ Pauses # {}
    /\ MaxElapsed \in Nat
    /\ Hiccup \in Nat \ {0}

VARIABLES
    main,         \* where Start is
    result,       \* why Start returned
    conn,         \* c.conn: "nil", or "set" to the socket that link describes
    link,         \* the socket of the last successful dial
    ctx,          \* the context given to Start
    stopper,      \* the goroutine that waits for ctx
    serverErr,    \* c.serverErr, with the connection it came over
    handler,      \* a handleHandshakeError that has not taken connMu yet
    sinceReset,   \* age of the last Reset of the backoff
    sinceLost,    \* age of the loss of the last connection, or of Start
    sinceCut,     \* age of c.lastDisconnect
    pause,        \* what is left of time.Sleep
    retries       \* whether NextBackOff returned a pause since the last Reset

vars == <<main, result, conn, link, ctx, stopper, serverErr, handler,
          sinceReset, sinceLost, sinceCut, pause, retries>>

ages == <<sinceReset, sinceLost, sinceCut>>

\* An error belongs to the connection in use ("current") or to an older one.
Errors == {"none", "current", "stale"}

Results == {"none", "ctx", "already", "dial", "backoff", "server", "stale", "hiccup"}

\* Age at which the tests of the backoff have the same outcome as ever after.
OldAge == MaxElapsed + 1

\* lastDisconnect is the zero time at first, which is older than any hiccup.
Init == /\ main = "loop" /\ result = "none"
        /\ conn = "nil" /\ link = "none"
        /\ ctx = "live" /\ stopper = "waiting"
        /\ serverErr = "none" /\ handler = "none"
        /\ sinceReset = 0 /\ sinceLost = 0 /\ sinceCut = Hiccup
        /\ pause = 0 /\ retries = "none"

InConnect == {"dialing", "handshaking", "sleeping"}

MuFree == main \notin InConnect

Return(why) == main' = "returned" /\ result' = why

-----------------------------------------------------------------------------
(* connect and dial.                                                       *)

\* An error of connect is reported as that of the context once it is done.
ConnectFails(why) == Return(IF ctx = "cancelled" THEN "ctx" ELSE why)

connect ==
    /\ main = "loop"
    /\ IF conn = "set" THEN ConnectFails("already")
                       ELSE main' = "dialing" /\ UNCHANGED result
    /\ UNCHANGED <<conn, link, ctx, stopper, serverErr, handler, ages, pause, retries>>

\* The TCP connection is there, and its TLS handshake begins.
Dialed ==
    /\ main = "dialing"
    /\ main' = "handshaking"
    /\ UNCHANGED <<result, conn, link, ctx, stopper, serverErr, handler, ages, pause, retries>>

\* Fault: connect does not keep the connection it dialed.
DialSucceedsForgotten ==
    /\ main = "handshaking"
    /\ main' = "serving"
    /\ link' = "up"
    /\ sinceReset' = 0
    /\ UNCHANGED <<result, conn, ctx, stopper, serverErr, handler, sinceLost, sinceCut, pause, retries>>

DialSucceeds ==
    /\ main = "handshaking"
    /\ main' = "serving"
    /\ conn' = "set"
    /\ link' = "up"
    /\ sinceReset' = IF HasBackoff THEN 0 ELSE sinceReset
    /\ retries' = "none"
    /\ UNCHANGED <<result, ctx, stopper, serverErr, handler, sinceLost, sinceCut, pause>>

\* Fault: the pause and not the time since Reset is compared with the limit.
BackoffStopsNever(d) == MaxElapsed # 0 /\ d > MaxElapsed

\* NextBackOff: stop when the pause would end later than MaxElapsed after the
\* last Reset.
BackoffStops(d) == MaxElapsed # 0 /\ sinceReset + d > MaxElapsed

\* The dial or the handshake fails; what was opened is closed.
DialFails ==
    /\ main \in {"dialing", "handshaking"}
    /\ IF HasBackoff
       THEN \E d \in Pauses :
               IF BackoffStops(d)
               THEN ConnectFails("backoff") /\ UNCHANGED <<pause, retries>>
               ELSE main' = "sleeping" /\ pause' = d /\ retries' = "some" /\ UNCHANGED result
       ELSE ConnectFails("dial") /\ UNCHANGED <<pause, retries>>
    /\ UNCHANGED <<conn, link, ctx, stopper, serverErr, handler, ages>>

Wake ==
    /\ main = "sleeping"
    /\ pause = 0
    /\ main' = "dialing"
    /\ UNCHANGED <<result, conn, link, ctx, stopper, serverErr, handler, ages, pause, retries>>

-----------------------------------------------------------------------------
(* The rest of Start.                                                      *)

ServeConnReturns ==
    /\ main = "serving"
    /\ link # "up"
    /\ main' = "disconnected"
    /\ UNCHANGED <<result, conn, link, ctx, stopper, serverErr, handler, ages, pause, retries>>

\* Fault: Start does not look at the context after a disconnect.
CheckContextSkipped ==
    /\ main = "disconnected"
    /\ main' = "checked"
    /\ UNCHANGED <<result, conn, link, ctx, stopper, serverErr, handler, ages, pause, retries>>

CheckContext ==
    /\ main = "disconnected"
    /\ IF ctx = "cancelled" THEN Return("ctx")
                            ELSE main' = "checked" /\ UNCHANGED result
    /\ UNCHANGED <<conn, link, ctx, stopper, serverErr, handler, ages, pause, retries>>

\* Fault: the error of the server is returned before the loop wraps it.
VerdictRaw == IF serverErr = "none" /\ sinceCut < Hiccup THEN "hiccup" ELSE serverErr

\* The result of Start if the disconnect is no reason to reconnect.
Verdict == CASE serverErr = "current" -> "server"
             [] serverErr = "stale"   -> "stale"
             [] serverErr = "none" /\ sinceCut < Hiccup -> "hiccup"
             [] OTHER -> "none"

Older(err) == IF err = "none" THEN "none" ELSE "stale"

\* The section under connMu.
AfterDisconnect ==
    /\ main = "checked"
    /\ conn' = "nil"
    /\ serverErr' = "none"
    /\ handler' = Older(handler)
    /\ sinceCut' = 0
    /\ IF Verdict = "none" THEN main' = "loop" /\ UNCHANGED result
                           ELSE Return(Verdict)
    /\ UNCHANGED <<link, ctx, stopper, sinceReset, sinceLost, pause, retries>>

-----------------------------------------------------------------------------
(* Stop, the handlers, the network and time.                               *)

Stop ==
    /\ MuFree
    /\ conn' = "nil"
    /\ link' = IF conn = "set" THEN "closed" ELSE link
    /\ sinceLost' = IF conn = "set" /\ link = "up" THEN 0 ELSE sinceLost

\* A call of Stop by the owner of the client.
StopCalled ==
    /\ Stop
    /\ UNCHANGED <<main, result, ctx, stopper, serverErr, handler,
                   sinceReset, sinceCut, pause, retries>>

\* The goroutine Start launches: <-ctx.Done(); c.Stop()
StopOnCancel ==
    /\ ctx = "cancelled"
    /\ stopper = "waiting"
    /\ Stop
    /\ stopper' = "done"
    /\ UNCHANGED <<main, result, ctx, serverErr, handler,
                   sinceReset, sinceCut, pause, retries>>

Cancel ==
    /\ ctx = "live"
    /\ ctx' = "cancelled"
    /\ UNCHANGED <<main, result, conn, link, stopper, serverErr, handler, ages, pause, retries>>

\* The server pushes an error; http2.Server starts a goroutine for it.
ErrorPushed ==
    /\ main = "serving"
    /\ link = "up"
    /\ handler = "none"
    /\ handler' = "current"
    /\ UNCHANGED <<main, result, conn, link, ctx, stopper, serverErr, ages, pause, retries>>

handleHandshakeError ==
    /\ handler # "none"
    /\ MuFree
    /\ serverErr' = handler
    /\ handler' = "none"
    /\ UNCHANGED <<main, result, conn, link, ctx, stopper, ages, pause, retries>>

LinkDrops ==
    /\ link = "up"
    /\ link' = "down"
    /\ sinceLost' = 0
    /\ UNCHANGED <<main, result, conn, ctx, stopper, serverErr, handler,
                   sinceReset, sinceCut, pause, retries>>

Grow(age, limit) == IF age < limit THEN age + 1 ELSE age

Tick ==
    /\ sinceReset' = Grow(sinceReset, OldAge)
    /\ sinceLost'  = Grow(sinceLost, OldAge)
    /\ sinceCut'   = Grow(sinceCut, Hiccup)
    /\ pause' = IF pause > 0 THEN pause - 1 ELSE 0
    /\ UNCHANGED <<main, result, conn, link, ctx, stopper, serverErr, handler, retries>>

-----------------------------------------------------------------------------

StartStep == \/ connect \/ Dialed \/ DialSucceeds \/ DialFails \/ Wake
             \/ ServeConnReturns \/ CheckContext \/ AfterDisconnect

Next == \/ StartStep
        \/ StopCalled \/ StopOnCancel \/ Cancel
        \/ ErrorPushed \/ handleHandshakeError
        \/ LinkDrops \/ Tick

Spec == Init /\ [][Next]_vars

\* Start never stands still but in ServeConn, in a sleep and in the TLS
\* handshake (net.Dialer has a timeout, tls.Conn has none), time passes, and a
\* mutex somebody waits for is handed over (Go's mutex does not let a waiter
\* starve).  The network need not fail, nobody need call Stop or cancel the
\* context.
FairSpec == /\ Spec
            /\ WF_vars(main # "handshaking" /\ StartStep)
            /\ WF_vars(Tick)
            /\ SF_vars(StopOnCancel)
            /\ SF_vars(handleHandshakeError)

-----------------------------------------------------------------------------
(* Properties.                                                             *)

\* Every variable keeps its type.
TypeOK ==
    /\ main \in {"loop", "dialing", "handshaking", "sleeping", "serving", "disconnected", "checked", "returned"}
    /\ result \in Results
    /\ conn \in {"nil", "set"}
    /\ link \in {"none", "up", "down", "closed"}
    /\ ctx \in {"live", "cancelled"}
    /\ stopper \in {"waiting", "done"}
    /\ serverErr \in Errors
    /\ handler \in Errors
    /\ sinceReset \in 0..OldAge
    /\ sinceLost \in 0..OldAge
    /\ sinceCut \in 0..Hiccup
    /\ pause \in Nat
    /\ retries \in {"none", "some"}

\* Stop can always reach the connection that Start serves: a socket that is
\* not closed while it is served is the one c.conn names.  And connect never
\* fails with "already connected".
ServedIsStoppable ==
    /\ main = "serving" /\ conn = "nil" => link = "closed"
    /\ main \in InConnect \cup {"loop"} => conn = "nil"
    /\ result # "already"

\* A context that is cancelled while a connection is served ends Start, on
\* whichever side of the cancellation the connection breaks.
CancelWhileServingEnds ==
    (main = "serving" /\ ctx = "cancelled" /\ stopper = "waiting") ~> main = "returned"

\* The server accepts the TCP connection and never ends the TLS handshake.
HandshakeHangs == [](main = "handshaking")

\* A dialing client with a limit on its backoff does not dial for ever: it
\* gets a connection or Start returns, however the failures of dials and
\* handshakes alternate with the pauses (unless one handshake hangs).
DialEnds == MaxElapsed # 0 =>
    (main = "dialing" ~> (main \in {"serving", "returned"} \/ HandshakeHangs))

\* Start returns once its context is cancelled (the regression test
\* TestClient_StartReturnsPromptlyOnContextCancellation asks for it), unless
\* it is stuck in a handshake.
CancelEnds == ctx = "cancelled" ~> (main = "returned" \/ HandshakeHangs)

\* max_time is the "maximal time client would try to reconnect to the server
\* if connection was lost", and after Reset NextBackOff "should return desired
\* time duration for 1st reconnection attempt": a client that gives up has
\* retried at least once, or has tried for max_time less a pause.
RetriesBeforeGivingUp ==
    result = "backoff" => retries = "some" \/ \E d \in Pauses : sinceLost + d > MaxElapsed

\* Start "returns error if there is a connection error, or server cannot open
\* requested tunnels": not for what the server said over an older connection.
ErrorIsOfThisConnection == result # "stale"

==============================================================================
