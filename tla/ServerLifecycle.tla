--------------------------- MODULE ServerLifecycle ----------------------------
(***************************************************************************)
(* The life of a server: Execute of the server command (configuration, the *)
(* listener NewServer opens, the subscriptions, then Start), the listener  *)
(* Start opens for http tunnels, the goroutine that waits for the context, *)
(* and Stop, which the owner of a Server may also call itself.             *)
(*                                                                         *)
(* Start assigns s.httpListener and Stop reads it, without a lock.  What a *)
(* Stop finds that races with the assignment, nil or half of the interface *)
(* value included, is what it finds if it comes before it: nothing that it *)
(* could close.                                                            *)
(***************************************************************************)
EXTENDS FiniteSets

CONSTANTS
    Peers,           \* clients that may connect
    ClientIDs,       \* the identifiers of -client-ids, {} if not given
    HTTPConfigured,  \* BaseDomain and HTTPAddr are both set
    Stoppers         \* owners that call Stop

ASSUME LifecycleAssumption == HTTPConfigured \in BOOLEAN /\ "watcher" \notin Stoppers

VARIABLES
    phase,         \* where Execute, and Start in it, is
    control,       \* the listener for clients
    http,          \* the listener for users of http tunnels
    httpListener,  \* the field of Server: "nil" or "set"
    httpLoop,      \* listenHTTP runs
    subscribed,    \* identifiers in the registry
    stop,          \* stop[s]: where s is in Stop
    ctxDone,       \* the context is cancelled
    peer           \* peer[p]: what became of p's connection

lifeVars == <<phase, control, http, httpListener, httpLoop, subscribed, stop, ctxDone, peer>>

Callers == Stoppers \cup {"watcher"}

LifeInit == /\ phase = "configuring"
            /\ control = "none" /\ http = "none" /\ httpListener = "nil"
            /\ httpLoop = FALSE
            /\ subscribed = {}
            /\ stop = [s \in Callers |-> "idle"]
            /\ ctxDone = FALSE
            /\ peer = [p \in Peers |-> "away"]

AutoSubscribe == ClientIDs = {}

Over == phase \in {"returned", "exited"}

-----------------------------------------------------------------------------
(* Execute up to Start.                                                    *)

\* No usable key pair, or no authority for clients: the process ends.
tlsConfigFails ==
    /\ phase = "configuring"
    /\ phase' = "exited"
    /\ UNCHANGED <<control, http, httpListener, httpLoop, subscribed, stop, ctxDone, peer>>

\* The listener for clients is opened here; the process ends if it cannot be.
NewServer ==
    /\ phase = "configuring"
    /\ \/ phase' = "exited" /\ UNCHANGED control
       \/ phase' = "subscribing" /\ control' = "open"
    /\ UNCHANGED <<http, httpListener, httpLoop, subscribed, stop, ctxDone, peer>>

\* One identifier of the list; a malformed one ends the process.
SubscribeNext ==
    /\ phase = "subscribing"
    /\ \E i \in ClientIDs \ subscribed : subscribed' = subscribed \cup {i}
    /\ UNCHANGED <<phase, control, http, httpListener, httpLoop, stop, ctxDone, peer>>

SubscribeFails ==
    /\ phase = "subscribing"
    /\ ClientIDs \ subscribed # {}
    /\ phase' = "exited"
    /\ control' = "closed"
    /\ peer' = [p \in Peers |-> "away"]
    /\ UNCHANGED <<http, httpListener, httpLoop, subscribed, stop, ctxDone>>

\* Fault: Start does not wait for the subscriptions.
CallStartEarly ==
    /\ phase = "subscribing"
    /\ phase' = IF HTTPConfigured THEN "listening" ELSE "spawning"
    /\ UNCHANGED <<control, http, httpListener, httpLoop, subscribed, stop, ctxDone, peer>>

CallStart ==
    /\ phase = "subscribing"
    /\ ClientIDs \subseteq subscribed
    /\ phase' = IF HTTPConfigured THEN "listening" ELSE "spawning"
    /\ UNCHANGED <<control, http, httpListener, httpLoop, subscribed, stop, ctxDone, peer>>

-----------------------------------------------------------------------------
(* Start.                                                                  *)

OpenHTTP ==
    /\ phase = "listening"
    /\ http' = "open"
    /\ phase' = "assigning"
    /\ UNCHANGED <<control, httpListener, httpLoop, subscribed, stop, ctxDone, peer>>

\* What waits to be accepted goes with its listener.
CloseControl ==
    /\ control' = "closed"
    /\ peer' = [p \in Peers |-> IF peer[p] = "waiting" THEN "away" ELSE peer[p]]

\* Faults: the error return that leaves the listener of NewServer open; an error
\* that is not looked at.
OpenHTTPFailsIgnored ==
    /\ phase = "listening"
    /\ phase' = "assigning"
    /\ UNCHANGED <<control, http, httpListener, httpLoop, subscribed, stop, ctxDone, peer>>

OpenHTTPFailsLeaking ==
    /\ phase = "listening"
    /\ phase' = "returned"
    /\ UNCHANGED <<control, http, httpListener, httpLoop, subscribed, stop, ctxDone, peer>>

OpenHTTPFails ==
    /\ phase = "listening"
    /\ CloseControl
    /\ phase' = "returned"
    /\ UNCHANGED <<http, httpListener, httpLoop, subscribed, stop, ctxDone>>

\* s.httpListener = httpLn; go s.listenHTTP(httpLn)
AssignHTTP ==
    /\ phase = "assigning"
    /\ httpListener' = "set"
    /\ httpLoop' = TRUE
    /\ phase' = "spawning"
    /\ UNCHANGED <<control, http, subscribed, stop, ctxDone, peer>>

\* The goroutine that waits for the context.
SpawnWatcher ==
    /\ phase = "spawning"
    /\ stop' = [stop EXCEPT !["watcher"] = "armed"]
    /\ phase' = "accepting"
    /\ UNCHANGED <<control, http, httpListener, httpLoop, subscribed, ctxDone, peer>>

\* Accept, and what handleClient decides about the client.  Errors other than
\* net.ErrClosed are logged and change nothing.
Accept(p) ==
    /\ phase = "accepting"
    /\ control = "open"
    /\ peer[p] = "waiting"
    /\ peer' = [peer EXCEPT ![p] = IF AutoSubscribe \/ p \in subscribed THEN "served"
                                                                       ELSE "refused"]
    /\ UNCHANGED <<phase, control, http, httpListener, httpLoop, subscribed, stop, ctxDone>>

\* Fault: the loop goes on whatever the error.
AcceptClosedIgnored ==
    /\ phase = "accepting"
    /\ control = "closed"
    /\ UNCHANGED lifeVars

AcceptClosed ==
    /\ phase = "accepting"
    /\ control = "closed"
    /\ phase' = "returned"
    /\ UNCHANGED <<control, http, httpListener, httpLoop, subscribed, stop, ctxDone, peer>>

HTTPLoopEnds ==
    /\ httpLoop
    /\ http = "closed"
    /\ httpLoop' = FALSE
    /\ UNCHANGED <<phase, control, http, httpListener, subscribed, stop, ctxDone, peer>>

-----------------------------------------------------------------------------
(* Stop, in two halves.                                                    *)

StopControl(s) ==
    /\ control # "none"
    /\ \/ s \in Stoppers /\ stop[s] = "idle" /\ phase # "exited"
       \/ s = "watcher" /\ stop[s] = "armed" /\ ctxDone
    /\ CloseControl
    /\ stop' = [stop EXCEPT ![s] = "half"]
    /\ UNCHANGED <<phase, http, httpListener, httpLoop, subscribed, ctxDone>>

\* Fault: Stop closes the listener for clients only.
StopHTTPForgotten(s) ==
    /\ stop[s] = "half"
    /\ stop' = [stop EXCEPT ![s] = "done"]
    /\ UNCHANGED <<phase, control, http, httpListener, httpLoop, subscribed, ctxDone, peer>>

StopHTTP(s) ==
    /\ stop[s] = "half"
    /\ http' = IF httpListener = "set" THEN "closed" ELSE http
    /\ stop' = [stop EXCEPT ![s] = "done"]
    /\ UNCHANGED <<phase, control, httpListener, httpLoop, subscribed, ctxDone, peer>>

-----------------------------------------------------------------------------
(* Clients and signals.                                                    *)

Dial(p) ==
    /\ peer[p] = "away"
    /\ control = "open"
    /\ peer' = [peer EXCEPT ![p] = "waiting"]
    /\ UNCHANGED <<phase, control, http, httpListener, httpLoop, subscribed, stop, ctxDone>>

Leave(p) ==
    /\ peer[p] # "away"
    /\ peer' = [peer EXCEPT ![p] = "away"]
    /\ UNCHANGED <<phase, control, http, httpListener, httpLoop, subscribed, stop, ctxDone>>

Signal ==
    /\ ~ctxDone
    /\ ctxDone' = TRUE
    /\ UNCHANGED <<phase, control, http, httpListener, httpLoop, subscribed, stop, peer>>

-----------------------------------------------------------------------------

ExecuteStep == \/ tlsConfigFails \/ NewServer \/ SubscribeNext \/ SubscribeFails \/ CallStart
               \/ OpenHTTP \/ OpenHTTPFails \/ AssignHTTP \/ SpawnWatcher \/ AcceptClosed

LifeNext == \/ ExecuteStep \/ HTTPLoopEnds \/ Signal
            \/ \E p \in Peers : Accept(p) \/ Dial(p) \/ Leave(p)
            \/ \E s \in Callers : StopControl(s) \/ StopHTTP(s)

LifeSpec == LifeInit /\ [][LifeNext]_lifeVars

\* The goroutines run; nobody is obliged to connect, to signal or to call Stop.
FairLifeSpec ==
    /\ LifeSpec
    /\ WF_lifeVars(ExecuteStep) /\ WF_lifeVars(HTTPLoopEnds)
    /\ WF_lifeVars(StopControl("watcher"))
    /\ \A s \in Callers : WF_lifeVars(StopHTTP(s))

-----------------------------------------------------------------------------
(* Properties.                                                             *)

\* Every variable has the type its counterpart has, and a field that is set has
\* a listener behind it.
LifeTypeOK ==
    /\ phase \in {"configuring", "subscribing", "listening", "assigning", "spawning",
                  "accepting", "returned", "exited"}
    /\ control \in {"none", "open", "closed"} /\ http \in {"none", "open", "closed"}
    /\ httpListener \in {"nil", "set"} /\ httpLoop \in BOOLEAN
    /\ subscribed \subseteq ClientIDs
    /\ stop \in [Callers -> {"idle", "armed", "half", "done"}]
    /\ ctxDone \in BOOLEAN
    /\ peer \in [Peers -> {"away", "waiting", "served", "refused"}]
    /\ httpListener = "set" => http # "none"

\* The listener is open from NewServer on, but a client of the list that connects
\* while the server starts is not refused.
ListedNotRefused == \A p \in Peers : peer[p] = "refused" => p \notin ClientIDs

\* When Start has returned, whichever way, the listener for clients is closed:
\* "it must be closed here or its file descriptor leaks".
ReturnedClosed == phase = "returned" => control = "closed"

\* A signal ends the server: Start returns and both listeners are closed, also
\* when the signal comes before Start, or between the steps of Start, or during
\* somebody else's Stop.
SignalEnds ==
    ctxDone ~> Over /\ control # "open" /\ http # "open" /\ ~httpLoop

\* Stop ends Start.
StopEnds == \A s \in Stoppers : stop[s] = "done" ~> Over

\* "Stop closes the server": once Stop and Start have returned, nobody accepts
\* connections.
StopClosesListeners ==
    phase = "returned" /\ (\E s \in Stoppers : stop[s] = "done") => http # "open"

\* "Stop closes the server": once Stop and Start have returned, no client is
\* connected.
StopDisconnects ==
    phase = "returned" /\ (\E s \in Stoppers : stop[s] = "done")
        => \A p \in Peers : peer[p] # "served"

==============================================================================
