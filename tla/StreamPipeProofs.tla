--------------------------- MODULE StreamPipeProofs ---------------------------
(***************************************************************************)
(* Theorems about StreamPipe for any amount of data and any flow control   *)
(* window.  That the answer is complete rests on counting: as long as the  *)
(* stream is not broken, what the local service has sent is on one of the  *)
(* hops or has reached the user, and the two sides finish in an order that *)
(* leaves the hops empty.                                                  *)
(***************************************************************************)
EXTENDS StreamPipe, TLAPS

\* No hop holds more than was sent into it.
UpBound ==
    /\ got["local"] + inReq + fromUser + (IF upload = "writing" THEN 1 ELSE 0) <= sent["user"]
    /\ sent["user"] <= MaxUp

DownBound ==
    /\ got["user"] + inResp + unflushed + fromLocal <= sent["local"]
    /\ sent["local"] <= MaxDown

\* flushWriter leaves nothing in the buffer.
Flushed == unflushed = 0

\* Nothing is lost on the way down, unless the stream breaks or the user goes.
Conserved ==
    stream = "open" /\ user # "gone" =>
        sent["local"] = got["user"] + inResp + unflushed + fromLocal

\* The downloading goroutine is there when the local connection is, ends before
\* Proxy does, and ends on an unbroken stream only when it has read everything.
DownloadInv ==
    /\ handler = "dialing" => download = "none"
    /\ download = "none" => local = "none" /\ fromLocal = 0
    /\ handler = "returned" => download # "copying"
    /\ stream = "open" /\ download = "ended" => fromLocal = 0 /\ local \in {"fin", "gone"}

\* proxyConn stops copying down an unbroken stream only at the end of the response.
MainInv ==
    main \in {"waiting", "returned"} /\ stream = "open" /\ user # "gone" =>
        handler = "returned" /\ inResp = 0

PipeInv == /\ TypeOK /\ UpBound /\ DownBound /\ Flushed /\ Conserved
           /\ DownloadInv /\ MainInv

\* A pipe starts with the invariant.
LEMMA PipeInitInv == Init => PipeInv
<1> SUFFICES ASSUME Init PROVE PipeInv
  OBVIOUS
<1> USE PipeAssumption DEF Init, Ends
<1>1. TypeOK
  <2>1. 0 \in 0 .. MaxUp + MaxDown /\ 0 \in 0 .. MaxUp /\ 0 \in 0 .. MaxDown /\ 0 \in 0 .. Window
    OBVIOUS
  <2>2. /\ sent \in [Ends -> 0 .. MaxUp + MaxDown]
        /\ got \in [Ends -> 0 .. MaxUp + MaxDown]
        /\ unread \in [Ends -> 0 .. Window]
    BY <2>1
  <2> QED
    BY <2>1, <2>2 DEF TypeOK
<1>2. UpBound /\ DownBound
  BY DEF UpBound, DownBound
<1>3. Flushed /\ Conserved /\ DownloadInv /\ MainInv
  BY DEF Flushed, Conserved, DownloadInv, MainInv
<1> QED
  BY <1>1, <1>2, <1>3 DEF PipeInv

\* The user and the local service, which read or not, the link and the transport:
\* whatever breaks the stream ends the promise.
LEMMA EnvInv == PipeInv /\ (UserSends \/ UserCloses \/ LocalSends \/ LocalCloses \/ LinkDrops \/ CancelSeen
    \/ \E e \in Ends : Reads(e)) => PipeInv'
<1> SUFFICES ASSUME PipeInv PROVE (UserSends \/ UserCloses \/ LocalSends \/ LocalCloses \/ LinkDrops \/ CancelSeen
    \/ \E e \in Ends : Reads(e)) => PipeInv'
  OBVIOUS
<1> USE PipeAssumption DEF PipeInv, TypeOK, Ends, ends, codes, up, down
<1>1. CASE UserSends
  <2>1. UpBound' /\ DownBound' /\ Flushed'
    BY <1>1 DEF UserSends, UpBound, DownBound, Flushed
  <2>2. TypeOK'
    BY <1>1, <2>1 DEF UserSends, UpBound, DownBound, Flushed
  <2>3. Conserved'
    BY <1>1 DEF UserSends, Conserved, Flushed, DownloadInv
  <2>4. DownloadInv'
    BY <1>1 DEF UserSends, DownloadInv, Flushed
  <2>5. MainInv'
    BY <1>1 DEF UserSends, MainInv, DownloadInv, Flushed
  <2> QED
    BY <2>1, <2>2, <2>3, <2>4, <2>5
<1>2. CASE UserCloses
  <2>1. UpBound' /\ DownBound' /\ Flushed'
    BY <1>2 DEF UserCloses, UpBound, DownBound, Flushed
  <2>2. TypeOK'
    BY <1>2, <2>1 DEF UserCloses, UpBound, DownBound, Flushed
  <2>3. Conserved'
    BY <1>2 DEF UserCloses, Conserved, Flushed, DownloadInv
  <2>4. DownloadInv'
    BY <1>2 DEF UserCloses, DownloadInv, Flushed
  <2>5. MainInv'
    BY <1>2 DEF UserCloses, MainInv, DownloadInv, Flushed
  <2> QED
    BY <2>1, <2>2, <2>3, <2>4, <2>5
<1>3. CASE LocalSends
  <2>1. UpBound' /\ DownBound' /\ Flushed'
    BY <1>3 DEF LocalSends, UpBound, DownBound, Flushed
  <2>2. TypeOK'
    BY <1>3, <2>1 DEF LocalSends, UpBound, DownBound, Flushed
  <2>3. Conserved'
    BY <1>3 DEF LocalSends, Conserved, Flushed, DownloadInv
  <2>4. DownloadInv'
    BY <1>3 DEF LocalSends, DownloadInv, Flushed
  <2>5. MainInv'
    BY <1>3 DEF LocalSends, MainInv, DownloadInv, Flushed
  <2> QED
    BY <2>1, <2>2, <2>3, <2>4, <2>5
<1>4. CASE LocalCloses
  <2>1. UpBound' /\ DownBound' /\ Flushed'
    BY <1>4 DEF LocalCloses, UpBound, DownBound, Flushed
  <2>2. TypeOK'
    BY <1>4, <2>1 DEF LocalCloses, UpBound, DownBound, Flushed
  <2>3. Conserved'
    BY <1>4 DEF LocalCloses, Conserved, Flushed, DownloadInv
  <2>4. DownloadInv'
    BY <1>4 DEF LocalCloses, DownloadInv, Flushed
  <2>5. MainInv'
    BY <1>4 DEF LocalCloses, MainInv, DownloadInv, Flushed
  <2> QED
    BY <2>1, <2>2, <2>3, <2>4, <2>5
<1>5. CASE LinkDrops
  <2>1. UpBound' /\ DownBound' /\ Flushed'
    BY <1>5 DEF LinkDrops, UpBound, DownBound, Flushed, Break
  <2>2. TypeOK'
    BY <1>5, <2>1 DEF LinkDrops, UpBound, DownBound, Flushed, Break
  <2>3. Conserved'
    BY <1>5 DEF LinkDrops, Conserved, Flushed, DownloadInv, Break
  <2>4. DownloadInv'
    BY <1>5 DEF LinkDrops, DownloadInv, Flushed, Break
  <2>5. MainInv'
    BY <1>5 DEF LinkDrops, MainInv, DownloadInv, Flushed, Break
  <2> QED
    BY <2>1, <2>2, <2>3, <2>4, <2>5
<1>6. CASE CancelSeen
  <2>1. UpBound' /\ DownBound' /\ Flushed'
    BY <1>6 DEF CancelSeen, UpBound, DownBound, Flushed, Break
  <2>2. TypeOK'
    BY <1>6, <2>1 DEF CancelSeen, UpBound, DownBound, Flushed, Break
  <2>3. Conserved'
    BY <1>6 DEF CancelSeen, Conserved, Flushed, DownloadInv, Break
  <2>4. DownloadInv'
    BY <1>6 DEF CancelSeen, DownloadInv, Flushed, Break
  <2>5. MainInv'
    BY <1>6 DEF CancelSeen, MainInv, DownloadInv, Flushed, Break
  <2> QED
    BY <2>1, <2>2, <2>3, <2>4, <2>5
<1>7. ASSUME NEW e \in Ends, Reads(e) PROVE PipeInv'
  <2>1. UpBound' /\ DownBound' /\ Flushed'
    BY <1>7 DEF Reads, UpBound, DownBound, Flushed
  <2>2. TypeOK'
    BY <1>7 DEF Reads
  <2>3. Conserved' /\ DownloadInv' /\ MainInv'
    BY <1>7 DEF Reads, Conserved, DownloadInv, MainInv
  <2> QED
    BY <2>1, <2>2, <2>3
<1> QED
  BY <1>1, <1>2, <1>3, <1>4, <1>5, <1>6, <1>7

\* The steps of proxyConn.
LEMMA MainStepInv == PipeInv /\ (MainStep) => PipeInv'
<1> SUFFICES ASSUME PipeInv PROVE (MainStep) => PipeInv'
  OBVIOUS
<1> USE PipeAssumption DEF PipeInv, TypeOK, Ends, ends, codes, up, down
<1>1. CASE DoReturns
  <2>1. UpBound' /\ DownBound' /\ Flushed'
    BY <1>1 DEF DoReturns, UpBound, DownBound, Flushed
  <2>2. TypeOK'
    BY <1>1, <2>1 DEF DoReturns, UpBound, DownBound, Flushed
  <2>3. Conserved'
    BY <1>1 DEF DoReturns, Conserved, Flushed, DownloadInv
  <2>4. DownloadInv'
    BY <1>1 DEF DoReturns, DownloadInv, Flushed
  <2>5. MainInv'
    BY <1>1 DEF DoReturns, MainInv, DownloadInv, Flushed
  <2> QED
    BY <2>1, <2>2, <2>3, <2>4, <2>5
<1>2. CASE DoFails
  <2>1. UpBound' /\ DownBound' /\ Flushed'
    BY <1>2 DEF DoFails, UpBound, DownBound, Flushed, Break
  <2>2. TypeOK'
    BY <1>2, <2>1 DEF DoFails, UpBound, DownBound, Flushed, Break
  <2>3. Conserved'
    BY <1>2 DEF DoFails, Conserved, Flushed, DownloadInv, Break
  <2>4. DownloadInv'
    BY <1>2 DEF DoFails, DownloadInv, Flushed, Break
  <2>5. MainInv'
    BY <1>2 DEF DoFails, MainInv, DownloadInv, Flushed, Break
  <2> QED
    BY <2>1, <2>2, <2>3, <2>4, <2>5
<1>3. CASE CopyDown
  <2>1. UpBound' /\ DownBound' /\ Flushed'
    BY <1>3 DEF CopyDown, Deliver, Peer, UpBound, DownBound, Flushed
  <2>2. TypeOK'
    BY <1>3, <2>1 DEF CopyDown, Deliver, Peer, UpBound, DownBound, Flushed
  <2>3. Conserved'
    BY <1>3 DEF CopyDown, Deliver, Peer, Conserved, Flushed, DownloadInv
  <2>4. DownloadInv'
    BY <1>3 DEF CopyDown, Deliver, Peer, DownloadInv, Flushed
  <2>5. MainInv'
    BY <1>3 DEF CopyDown, Deliver, Peer, MainInv, DownloadInv, Flushed
  <2> QED
    BY <2>1, <2>2, <2>3, <2>4, <2>5
<1>4. CASE CopyDownEnds
  <2>1. UpBound' /\ DownBound' /\ Flushed'
    BY <1>4 DEF CopyDownEnds, UpBound, DownBound, Flushed
  <2>2. TypeOK'
    BY <1>4, <2>1 DEF CopyDownEnds, UpBound, DownBound, Flushed
  <2>3. Conserved'
    BY <1>4 DEF CopyDownEnds, Conserved, Flushed, DownloadInv
  <2>4. DownloadInv'
    BY <1>4 DEF CopyDownEnds, DownloadInv, Flushed
  <2>5. MainInv'
    BY <1>4 DEF CopyDownEnds, MainInv, DownloadInv, Flushed
  <2> QED
    BY <2>1, <2>2, <2>3, <2>4, <2>5
<1>5. CASE WaitEnds
  <2>1. UpBound' /\ DownBound' /\ Flushed'
    BY <1>5 DEF WaitEnds, UpBound, DownBound, Flushed, Return, Break
  <2>2. TypeOK'
    BY <1>5, <2>1 DEF WaitEnds, UpBound, DownBound, Flushed, Return, Break
  <2>3. Conserved'
    BY <1>5 DEF WaitEnds, Conserved, Flushed, DownloadInv, Return, Break
  <2>4. DownloadInv'
    BY <1>5 DEF WaitEnds, DownloadInv, Flushed, Return, Break
  <2>5. MainInv'
    BY <1>5 DEF WaitEnds, MainInv, DownloadInv, Flushed, Return, Break
  <2> QED
    BY <2>1, <2>2, <2>3, <2>4, <2>5
<1> QED
  BY <1>1, <1>2, <1>3, <1>4, <1>5 DEF MainStep

\* The steps of proxyConn's goroutine.
LEMMA UploadStepInv == PipeInv /\ (UploadStep) => PipeInv'
<1> SUFFICES ASSUME PipeInv PROVE (UploadStep) => PipeInv'
  OBVIOUS
<1> USE PipeAssumption DEF PipeInv, TypeOK, Ends, ends, codes, up, down
<1>1. CASE UploadReads
  <2>1. UpBound' /\ DownBound' /\ Flushed'
    BY <1>1 DEF UploadReads, UpBound, DownBound, Flushed
  <2>2. TypeOK'
    BY <1>1, <2>1 DEF UploadReads, UpBound, DownBound, Flushed
  <2>3. Conserved'
    BY <1>1 DEF UploadReads, Conserved, Flushed, DownloadInv
  <2>4. DownloadInv'
    BY <1>1 DEF UploadReads, DownloadInv, Flushed
  <2>5. MainInv'
    BY <1>1 DEF UploadReads, MainInv, DownloadInv, Flushed
  <2> QED
    BY <2>1, <2>2, <2>3, <2>4, <2>5
<1>2. CASE UploadWrites
  <2>1. UpBound' /\ DownBound' /\ Flushed'
    BY <1>2 DEF UploadWrites, UpBound, DownBound, Flushed, PipeBroken
  <2>2. TypeOK'
    BY <1>2, <2>1 DEF UploadWrites, UpBound, DownBound, Flushed, PipeBroken
  <2>3. Conserved'
    BY <1>2 DEF UploadWrites, Conserved, Flushed, DownloadInv, PipeBroken
  <2>4. DownloadInv'
    BY <1>2 DEF UploadWrites, DownloadInv, Flushed, PipeBroken
  <2>5. MainInv'
    BY <1>2 DEF UploadWrites, MainInv, DownloadInv, Flushed, PipeBroken
  <2> QED
    BY <2>1, <2>2, <2>3, <2>4, <2>5
<1>3. CASE UploadEnds
  <2>1. UpBound' /\ DownBound' /\ Flushed'
    BY <1>3 DEF UploadEnds, UpBound, DownBound, Flushed, PipeBroken
  <2>2. TypeOK'
    BY <1>3, <2>1 DEF UploadEnds, UpBound, DownBound, Flushed, PipeBroken
  <2>3. Conserved'
    BY <1>3 DEF UploadEnds, Conserved, Flushed, DownloadInv, PipeBroken
  <2>4. DownloadInv'
    BY <1>3 DEF UploadEnds, DownloadInv, Flushed, PipeBroken
  <2>5. MainInv'
    BY <1>3 DEF UploadEnds, MainInv, DownloadInv, Flushed, PipeBroken
  <2> QED
    BY <2>1, <2>2, <2>3, <2>4, <2>5
<1> QED
  BY <1>1, <1>2, <1>3 DEF UploadStep

\* The steps of Proxy: it returns after its goroutine.
LEMMA HandlerStepInv == PipeInv /\ (HandlerStep) => PipeInv'
<1> SUFFICES ASSUME PipeInv PROVE (HandlerStep) => PipeInv'
  OBVIOUS
<1> USE PipeAssumption DEF PipeInv, TypeOK, Ends, ends, codes, up, down
<1>1. CASE DialSucceeds
  <2>1. UpBound' /\ DownBound' /\ Flushed'
    BY <1>1 DEF DialSucceeds, UpBound, DownBound, Flushed
  <2>2. TypeOK'
    BY <1>1, <2>1 DEF DialSucceeds, UpBound, DownBound, Flushed
  <2>3. Conserved'
    BY <1>1 DEF DialSucceeds, Conserved, Flushed, DownloadInv
  <2>4. DownloadInv'
    BY <1>1 DEF DialSucceeds, DownloadInv, Flushed
  <2>5. MainInv'
    BY <1>1 DEF DialSucceeds, MainInv, DownloadInv, Flushed
  <2> QED
    BY <2>1, <2>2, <2>3, <2>4, <2>5
<1>2. CASE DialFails
  <2>1. UpBound' /\ DownBound' /\ Flushed'
    BY <1>2 DEF DialFails, UpBound, DownBound, Flushed, EndResponse
  <2>2. TypeOK'
    BY <1>2, <2>1 DEF DialFails, UpBound, DownBound, Flushed, EndResponse
  <2>3. Conserved'
    BY <1>2 DEF DialFails, Conserved, Flushed, DownloadInv, EndResponse
  <2>4. DownloadInv'
    BY <1>2 DEF DialFails, DownloadInv, Flushed, EndResponse
  <2>5. MainInv'
    BY <1>2 DEF DialFails, MainInv, DownloadInv, Flushed, EndResponse
  <2> QED
    BY <2>1, <2>2, <2>3, <2>4, <2>5
<1>3. CASE CopyUp
  <2>1. UpBound' /\ DownBound' /\ Flushed'
    BY <1>3 DEF CopyUp, Deliver, Peer, UpBound, DownBound, Flushed
  <2>2. TypeOK'
    BY <1>3, <2>1 DEF CopyUp, Deliver, Peer, UpBound, DownBound, Flushed
  <2>3. Conserved'
    BY <1>3 DEF CopyUp, Deliver, Peer, Conserved, Flushed, DownloadInv
  <2>4. DownloadInv'
    BY <1>3 DEF CopyUp, Deliver, Peer, DownloadInv, Flushed
  <2>5. MainInv'
    BY <1>3 DEF CopyUp, Deliver, Peer, MainInv, DownloadInv, Flushed
  <2> QED
    BY <2>1, <2>2, <2>3, <2>4, <2>5
<1>4. CASE CopyUpEnds
  <2>1. UpBound' /\ DownBound' /\ Flushed'
    BY <1>4 DEF CopyUpEnds, UpBound, DownBound, Flushed
  <2>2. TypeOK'
    BY <1>4, <2>1 DEF CopyUpEnds, UpBound, DownBound, Flushed
  <2>3. Conserved'
    BY <1>4 DEF CopyUpEnds, Conserved, Flushed, DownloadInv
  <2>4. DownloadInv'
    BY <1>4 DEF CopyUpEnds, DownloadInv, Flushed
  <2>5. MainInv'
    BY <1>4 DEF CopyUpEnds, MainInv, DownloadInv, Flushed
  <2> QED
    BY <2>1, <2>2, <2>3, <2>4, <2>5
<1>5. CASE ProxyReturns
  <2>1. UpBound' /\ DownBound' /\ Flushed'
    BY <1>5 DEF ProxyReturns, UpBound, DownBound, Flushed, EndResponse
  <2>2. TypeOK'
    BY <1>5, <2>1 DEF ProxyReturns, UpBound, DownBound, Flushed, EndResponse
  <2>3. Conserved'
    BY <1>5 DEF ProxyReturns, Conserved, Flushed, DownloadInv, EndResponse
  <2>4. DownloadInv'
    BY <1>5 DEF ProxyReturns, DownloadInv, Flushed, EndResponse
  <2>5. MainInv'
    BY <1>5 DEF ProxyReturns, MainInv, DownloadInv, Flushed, EndResponse
  <2> QED
    BY <2>1, <2>2, <2>3, <2>4, <2>5
<1> QED
  BY <1>1, <1>2, <1>3, <1>4, <1>5 DEF HandlerStep

\* The steps of Proxy's goroutine.
LEMMA DownloadStepInv == PipeInv /\ (DownloadStep) => PipeInv'
<1> SUFFICES ASSUME PipeInv PROVE (DownloadStep) => PipeInv'
  OBVIOUS
<1> USE PipeAssumption DEF PipeInv, TypeOK, Ends, ends, codes, up, down
<1>1. CASE DownloadCopies
  <2>1. UpBound' /\ DownBound' /\ Flushed'
    BY <1>1 DEF DownloadCopies, UpBound, DownBound, Flushed, Write
  <2>2. TypeOK'
    BY <1>1, <2>1 DEF DownloadCopies, UpBound, DownBound, Flushed, Write
  <2>3. Conserved'
    BY <1>1 DEF DownloadCopies, Conserved, Flushed, DownloadInv, Write
  <2>4. DownloadInv'
    BY <1>1 DEF DownloadCopies, DownloadInv, Flushed, Write
  <2>5. MainInv'
    BY <1>1 DEF DownloadCopies, MainInv, DownloadInv, Flushed, Write
  <2> QED
    BY <2>1, <2>2, <2>3, <2>4, <2>5
<1>2. CASE DownloadEnds
  <2>1. UpBound' /\ DownBound' /\ Flushed'
    BY <1>2 DEF DownloadEnds, UpBound, DownBound, Flushed
  <2>2. TypeOK'
    BY <1>2, <2>1 DEF DownloadEnds, UpBound, DownBound, Flushed
  <2>3. Conserved'
    BY <1>2 DEF DownloadEnds, Conserved, Flushed, DownloadInv
  <2>4. DownloadInv'
    BY <1>2 DEF DownloadEnds, DownloadInv, Flushed
  <2>5. MainInv'
    BY <1>2 DEF DownloadEnds, MainInv, DownloadInv, Flushed
  <2> QED
    BY <2>1, <2>2, <2>3, <2>4, <2>5
<1> QED
  BY <1>1, <1>2 DEF DownloadStep

\* Every step of the specification preserves the invariant.
LEMMA PipeNextInv == PipeInv /\ [Next]_vars => PipeInv'
<1> SUFFICES ASSUME PipeInv, [Next]_vars PROVE PipeInv'
  OBVIOUS
<1>1. CASE UNCHANGED vars
  BY <1>1 DEF vars, PipeInv, TypeOK, UpBound, DownBound, Flushed, Conserved, DownloadInv, MainInv
<1> QED
  BY <1>1, EnvInv, MainStepInv, UploadStepInv, HandlerStepInv, DownloadStepInv DEF Next

\* The invariant of a proxied connection.
LEMMA PipeInvariant == Spec => []PipeInv
BY PipeInitInv, PipeNextInv, PTL DEF Spec

\* Type correctness: no stream ever holds more than its flow control window, and no
\* hop more than was sent.
THEOREM PipeTypeCorrect == Spec => []TypeOK
<1>1. PipeInv => TypeOK
  BY DEF PipeInv
<1> QED
  BY <1>1, PipeInvariant, PTL

\* A proxied connection that ends on an unbroken stream has given the user the
\* whole answer, whichever of the four goroutines finished first.
THEOREM PipeAnswerComplete == Spec => []AnswerComplete
<1>1. PipeInv => AnswerComplete
  <2> SUFFICES ASSUME PipeInv, main = "returned", stream = "open", user # "gone"
               PROVE  got["user"] = sent["local"]
    BY DEF AnswerComplete
  <2>1. handler = "returned" /\ inResp = 0 /\ unflushed = 0
    BY DEF PipeInv, MainInv, Flushed
  <2>2. fromLocal = 0
    BY <2>1 DEF PipeInv, DownloadInv, TypeOK
  <2> QED
    BY <2>1, <2>2 DEF PipeInv, Conserved, TypeOK, Ends
<1> QED
  BY <1>1, PipeInvariant, PTL

==============================================================================
