------------------------------ MODULE StreamPipe ------------------------------
(***************************************************************************)
(* One proxied connection from end to end: server.go's proxyConn with its  *)
(* uploading goroutine, one HTTP/2 stream of the control connection, and   *)
(* StreamProxy.Proxy with its downloading goroutine in the client.  The    *)
(* user and the local service are the environment.                         *)
(*                                                                         *)
(* Bytes travel in order on every hop, so each hop is the number of units  *)
(* in it.  What breaks a stream (the link, or the transport that acts on a *)
(* cancelled context) lets through some of the units on their way.  A      *)
(* write to a peer that has closed may vanish or may fail; a write to one  *)
(* that stays waits until the peer has read enough, for ever if it never   *)
(* does: no deadline is set, and neither cancel nor the broken stream      *)
(* reaches a goroutine inside conn.Write.                                  *)
(***************************************************************************)
EXTENDS Integers

CONSTANTS
    MaxUp,       \* units the user sends at most
    MaxDown,     \* units the local service sends at most
    Window       \* units one direction of a stream or of a socket holds (flow control)

ASSUME PipeAssumption == MaxUp \in Nat /\ MaxDown \in Nat /\ Window \in Nat \ {0}

VARIABLES
    user,        \* the user's end: "open", "fin" (has sent all), "gone"
    local,       \* the local service's end, "none" before it is dialed
    stream,      \* "open", "cancelled" by the server, or "lost" with the link
    started,     \* response headers are on their way
    main,        \* proxyConn
    upload,      \* the goroutine of proxyConn: user to client
    handler,     \* StreamProxy.Proxy, client to local service
    download,    \* the goroutine of Proxy: local service to server
    sent,        \* sent[e]: units that end e has sent
    got,         \* got[e]: units that have reached the socket of end e
    unread,      \* unread[e]: those of them that end e has not read
    fromUser, inReq, fromLocal, inResp,   \* units on each hop
    unflushed    \* units in the buffer of the ResponseWriter

ends   == <<user, local, unread>>
codes  == <<main, upload, handler, download>>
up     == <<fromUser, inReq>>
down   == <<fromLocal, inResp, unflushed>>
vars   == <<user, local, stream, started, main, upload, handler, download,
            sent, got, unread, fromUser, inReq, fromLocal, inResp, unflushed>>

Ends == {"user", "local"}

Init == /\ user = "open" /\ local = "none"
        /\ stream = "open" /\ started = FALSE
        /\ main = "requesting" /\ upload = "reading"
        /\ handler = "dialing" /\ download = "none"
        /\ sent = [e \in Ends |-> 0] /\ got = [e \in Ends |-> 0]
        /\ unread = [e \in Ends |-> 0]
        /\ fromUser = 0 /\ inReq = 0 /\ fromLocal = 0 /\ inResp = 0 /\ unflushed = 0

-----------------------------------------------------------------------------
(* The user, the local service and the link.                               *)

UserSends ==
    /\ user = "open" /\ main # "returned" /\ sent["user"] < MaxUp
    /\ sent' = [sent EXCEPT !["user"] = @ + 1]
    /\ fromUser' = fromUser + 1
    /\ UNCHANGED <<ends, stream, started, codes, got, inReq, down>>

UserCloses ==
    /\ \/ user = "open" /\ user' \in {"fin", "gone"}
       \/ user = "fin" /\ user' = "gone"
    /\ UNCHANGED <<local, unread, stream, started, codes, sent, got, up, down>>

LocalSends ==
    /\ local = "open" /\ handler # "returned" /\ sent["local"] < MaxDown
    /\ sent' = [sent EXCEPT !["local"] = @ + 1]
    /\ fromLocal' = fromLocal + 1
    /\ UNCHANGED <<ends, stream, started, codes, got, up, inResp, unflushed>>

LocalCloses ==
    /\ \/ local = "open" /\ local' \in {"fin", "gone"}
       \/ local = "fin" /\ local' = "gone"
    /\ UNCHANGED <<user, unread, stream, started, codes, sent, got, up, down>>

Peer(e) == IF e = "user" THEN user ELSE local

\* An end reads when it likes, or never.
Reads(e) ==
    /\ Peer(e) # "gone" /\ unread[e] > 0
    /\ unread' = [unread EXCEPT ![e] = @ - 1]
    /\ UNCHANGED <<user, local, stream, started, codes, sent, got, up, down>>

\* The stream breaks; of what is on its way any first part still arrives.
Break(how) ==
    /\ stream' = IF stream = "open" THEN how ELSE stream
    /\ inReq' \in 0 .. inReq
    /\ inResp' \in 0 .. inResp

LinkDrops ==
    /\ stream = "open"
    /\ Break("lost")
    /\ UNCHANGED <<ends, started, codes, sent, got, fromUser, fromLocal, unflushed>>

-----------------------------------------------------------------------------
(* proxyConn.                                                              *)

\* A write to an end that stays returns when its socket has room.
Deliver(e) ==
    /\ Peer(e) # "gone" /\ unread[e] < Window
    /\ unread' = [unread EXCEPT ![e] = @ + 1]
    /\ got' = [got EXCEPT ![e] = @ + 1]

\* proxyConn returns, which closes body, request, pipe and user connection; a
\* response that has ended leaves nothing to cancel.
Return ==
    /\ main' = "returned"
    /\ IF handler = "returned" THEN UNCHANGED <<stream, inReq, inResp>>
                               ELSE Break("cancelled")

\* httpClient.Do returns when the response headers come.
DoReturns ==
    /\ main = "requesting" /\ started
    /\ main' = "downloading"
    /\ UNCHANGED <<ends, stream, started, upload, handler, download, sent, got, up, down>>

\* It fails when the stream breaks or the uploading goroutine cancels.
DoFails ==
    /\ main = "requesting"
    /\ stream # "open" \/ upload = "ended"
    /\ main' = "returned"
    /\ Break("cancelled")
    /\ UNCHANGED <<ends, started, upload, handler, download, sent, got, fromUser,
                   fromLocal, unflushed>>

\* transfer(conn, resp.Body): one unit for the user.
CopyDown ==
    /\ main = "downloading" /\ inResp > 0
    /\ inResp' = inResp - 1
    /\ \/ Deliver("user") /\ UNCHANGED main
       \/ /\ user = "gone"
          /\ main' \in {"downloading", "waiting"}
          /\ UNCHANGED <<unread, got>>
    /\ UNCHANGED <<user, local, stream, started, upload, handler, download, sent, up,
                   fromLocal, unflushed>>

CopyDownEnds ==
    /\ main = "downloading" /\ inResp = 0
    /\ handler = "returned" \/ stream # "open"
    /\ main' = "waiting"
    /\ UNCHANGED <<ends, stream, started, upload, handler, download, sent, got, up, down>>

\* Fault: wait for the uploading goroutine without DefaultTimeout.
WaitEndsNoTimeout ==
    /\ main = "waiting" /\ upload = "ended"
    /\ Return
    /\ UNCHANGED <<ends, started, upload, handler, download, sent, got, fromUser,
                   fromLocal, unflushed>>

\* The uploading goroutine is done or DefaultTimeout is over, whichever it is.
WaitEnds ==
    /\ main = "waiting"
    /\ Return
    /\ UNCHANGED <<ends, started, upload, handler, download, sent, got, fromUser,
                   fromLocal, unflushed>>

\* Fault: a read of nothing that is counted.
UploadReadsNothing ==
    /\ upload = "reading" /\ main # "returned"
    /\ fromUser' = fromUser - 1
    /\ upload' = "writing"
    /\ UNCHANGED <<ends, stream, started, main, handler, download, sent, got, inReq, down>>

\* transfer(pw, conn): io.Copy reads from the user, what handleHTTPConn has read
\* ahead first ...
UploadReads ==
    /\ upload = "reading" /\ main # "returned" /\ fromUser > 0
    /\ fromUser' = fromUser - 1
    /\ upload' = "writing"
    /\ UNCHANGED <<ends, stream, started, main, handler, download, sent, got, inReq, down>>

\* ... and its write to the pipe lasts until the transport has taken the unit.
PipeBroken == main = "returned" \/ stream # "open" \/ handler = "returned"

UploadWrites ==
    /\ upload = "writing" /\ ~PipeBroken /\ inReq < Window
    /\ inReq' = inReq + 1
    /\ upload' = "reading"
    /\ UNCHANGED <<ends, stream, started, main, handler, download, sent, got, fromUser, down>>

\* The user has finished, its connection is closed, or the pipe is: cancel the
\* request and close done.
UploadEnds ==
    /\ \/ upload = "reading" /\ main = "returned"
       \/ upload = "reading" /\ user = "fin" /\ fromUser = 0
       \/ upload = "reading" /\ user = "gone"
       \/ upload = "writing" /\ PipeBroken
    /\ upload' = "ended"
    /\ UNCHANGED <<ends, stream, started, main, handler, download, sent, got, up, down>>

\* The transport sees the cancelled context.  Do is the one that watches it; once
\* the headers are there, the goroutine that sends the body may see it or be
\* waiting for the next unit.
CancelSeen ==
    /\ stream = "open" /\ upload = "ended" /\ handler # "returned"
    /\ Break("cancelled")
    /\ UNCHANGED <<ends, started, codes, sent, got, fromUser, fromLocal, unflushed>>

-----------------------------------------------------------------------------
(* StreamProxy.Proxy.                                                      *)

DialSucceeds ==
    /\ handler = "dialing"
    /\ handler' = "copying" /\ download' = "copying" /\ local' = "open"
    /\ UNCHANGED <<user, unread, stream, started, main, upload, sent, got, up, down>>

\* The handler's return ends the response and flushes what it holds.
EndResponse ==
    /\ handler' = "returned"
    /\ started' = TRUE
    /\ inResp' = IF stream = "open" THEN inResp + unflushed ELSE inResp
    /\ unflushed' = 0

\* Unsupported protocol, no target, or no connection to it.
DialFails ==
    /\ handler = "dialing"
    /\ EndResponse
    /\ UNCHANGED <<ends, stream, main, upload, download, sent, got, up, fromLocal>>

\* transfer(local, r)
CopyUp ==
    /\ handler = "copying" /\ inReq > 0
    /\ inReq' = inReq - 1
    /\ \/ Deliver("local") /\ UNCHANGED handler
       \/ /\ local = "gone"
          /\ handler' \in {"copying", "draining"}
          /\ UNCHANGED <<unread, got>>
    /\ UNCHANGED <<user, local, stream, started, main, upload, download, sent, fromUser, down>>

\* The body never ends but by an error: proxyConn closes the pipe only after the
\* request is over.
CopyUpEnds ==
    /\ handler = "copying" /\ inReq = 0 /\ stream # "open"
    /\ handler' = "draining"
    /\ UNCHANGED <<ends, stream, started, main, upload, download, sent, got, up, down>>

\* Fault: Proxy returns without waiting for its goroutine.
ProxyReturnsEarly ==
    /\ handler = "draining"
    /\ EndResponse
    /\ UNCHANGED <<ends, stream, main, upload, download, sent, got, up, fromLocal>>

\* <-done, then the deferred local.Close()
ProxyReturns ==
    /\ handler = "draining" /\ download = "ended"
    /\ EndResponse
    /\ UNCHANGED <<ends, stream, main, upload, download, sent, got, up, fromLocal>>

\* Fault: a Write that leaves the bytes in the buffer of the ResponseWriter.
WriteNoFlush ==
    /\ unflushed' = unflushed + 1
    /\ UNCHANGED <<inResp, started>>

\* flushWriter.Write: the first flush also sends the headers.
Write ==
    /\ inResp' = inResp + unflushed + 1
    /\ unflushed' = 0
    /\ started' = TRUE

\* transfer(flushWriter{w}, local)
DownloadCopies ==
    /\ download = "copying" /\ fromLocal > 0
    /\ stream = "open" /\ inResp < Window
    /\ fromLocal' = fromLocal - 1
    /\ Write
    /\ UNCHANGED <<ends, stream, codes, sent, got, up>>

\* Fault: a goroutine that does not notice the failure of its writes.
DownloadEndsBlind ==
    /\ download = "copying" /\ fromLocal = 0 /\ local \in {"fin", "gone"}
    /\ download' = "ended"
    /\ UNCHANGED <<ends, stream, started, main, upload, handler, sent, got, up, down>>

DownloadEnds ==
    /\ download = "copying"
    /\ IF fromLocal = 0 THEN local \in {"fin", "gone"} ELSE stream # "open"
    /\ download' = "ended"
    /\ UNCHANGED <<ends, stream, started, main, upload, handler, sent, got, up, down>>

-----------------------------------------------------------------------------

MainStep     == DoReturns \/ DoFails \/ CopyDown \/ CopyDownEnds \/ WaitEnds
UploadStep   == UploadReads \/ UploadWrites \/ UploadEnds
HandlerStep  == DialSucceeds \/ DialFails \/ CopyUp \/ CopyUpEnds \/ ProxyReturns
DownloadStep == DownloadCopies \/ DownloadEnds

Next == \/ UserSends \/ UserCloses \/ LocalSends \/ LocalCloses
        \/ (\E e \in Ends : Reads(e)) \/ LinkDrops \/ CancelSeen
        \/ MainStep \/ UploadStep \/ HandlerStep \/ DownloadStep

Spec == Init /\ [][Next]_vars

\* The goroutines run; user, local service, link and the transport's reaction to
\* a cancelled context owe nothing.
Fairness == /\ WF_vars(MainStep) /\ WF_vars(UploadStep)
            /\ WF_vars(HandlerStep) /\ WF_vars(DownloadStep)

FairSpec == Spec /\ Fairness

-----------------------------------------------------------------------------
(* Properties.                                                             *)

\* Every variable has the type its counterpart has; no stream and no socket holds
\* more than its flow control window.
TypeOK ==
    /\ user \in {"open", "fin", "gone"}
    /\ local \in {"none", "open", "fin", "gone"}
    /\ stream \in {"open", "cancelled", "lost"}
    /\ started \in BOOLEAN
    /\ main \in {"requesting", "downloading", "waiting", "returned"}
    /\ upload \in {"reading", "writing", "ended"}
    /\ handler \in {"dialing", "copying", "draining", "returned"}
    /\ download \in {"none", "copying", "ended"}
    /\ sent \in [Ends -> 0 .. MaxUp + MaxDown] /\ got \in [Ends -> 0 .. MaxUp + MaxDown]
    /\ unread \in [Ends -> 0 .. Window]
    /\ fromUser \in 0 .. MaxUp /\ fromLocal \in 0 .. MaxDown
    /\ inReq \in 0 .. Window /\ inResp \in 0 .. Window /\ unflushed \in 0 .. MaxDown

\* A proxied connection that ends without its stream being broken has given the
\* user everything the local service sent, although Proxy may have stopped
\* reading from the user first.
AnswerComplete ==
    main = "returned" /\ stream = "open" /\ user # "gone" => got["user"] = sent["local"]

\* An end that never leaves a writer waiting for ever: it goes on reading what is
\* written to it, or closes.
KeepsReading(e) == []<>(Peer(e) = "gone" \/ unread[e] < Window)

\* When the response has ended or the stream is broken, both goroutines of the
\* server end and the user's connection is closed, even if the user keeps its
\* side open and silent; only a user that stays and stops reading keeps them.
ServerSideEnds ==
    KeepsReading("user") =>
        (handler = "returned" \/ stream # "open" ~> main = "returned" /\ upload = "ended")

\* When the stream is broken and the local service closes, or has sent all and goes
\* on reading, Proxy and its goroutine end and the local connection is closed.
ProxyEnds ==
    KeepsReading("local") =>
        (stream # "open" /\ local \in {"fin", "gone"}
             ~> handler = "returned" /\ download = "ended")

Undisturbed == user = "open" /\ local = "open" /\ stream = "open" /\ handler # "returned"

\* While both ends stay and read and the link holds, everything sent arrives without
\* either end having to send more or to close: an interactive protocol is not held
\* up by a buffer.
Flows ==
    <>[]Undisturbed /\ KeepsReading("user") /\ KeepsReading("local")
        => <>[](got["local"] = sent["user"] /\ got["user"] = sent["local"])

\* What TestStreamProxy_Proxy_Success expects of a user that sends, closes its
\* sending side and waits: if the link holds and the service has read everything,
\* answered and closed, the user gets the answer.
HalfCloseAnswered ==
    main = "returned" /\ handler = "returned" /\ user = "fin" /\ stream # "lost"
        /\ got["local"] = sent["user"] /\ unread["local"] = 0 /\ local = "gone"
            => got["user"] = sent["local"]

==============================================================================
