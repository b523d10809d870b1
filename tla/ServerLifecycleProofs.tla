------------------------ MODULE ServerLifecycleProofs ------------------------
(***************************************************************************)
(* Theorems about ServerLifecycle for any clients, any list of identifiers *)
(* and any number of callers of Stop.  The invariants are inductive only   *)
(* with what Start relies on from its own earlier steps: all identifiers   *)
(* of the list are subscribed before it is called, and the listener for    *)
(* http tunnels is there before the field is assigned.                     *)
(***************************************************************************)
EXTENDS ServerLifecycle, TLAPS

\* Start has been called.
Started == phase \in {"listening", "assigning", "spawning", "accepting", "returned"}

\* Execute subscribes the whole list before that.
AllSubscribed == Started => ClientIDs \subseteq subscribed

\* There is something to assign.
HTTPOpened == phase = "assigning" => http # "none"

LifeInv == /\ LifeTypeOK /\ AllSubscribed /\ HTTPOpened
           /\ ListedNotRefused /\ ReturnedClosed

\* Closing the listener sends those that wait to be accepted away and touches
\* nobody else.
LEMMA CloseControlKeeps ==
    ASSUME LifeTypeOK, ListedNotRefused, CloseControl
    PROVE  /\ control' = "closed"
           /\ peer' \in [Peers -> {"away", "waiting", "served", "refused"}]
           /\ ListedNotRefused'
BY DEF LifeTypeOK, ListedNotRefused, CloseControl

\* The server starts with the invariant.
LEMMA LifeInitInv == LifeInit => LifeInv
BY DEF LifeInit, LifeInv, LifeTypeOK, AllSubscribed, Started, HTTPOpened, ListedNotRefused,
       ReturnedClosed

\* Every step of Execute, with Start in it, preserves the invariant.
LEMMA ExecuteInv == LifeInv /\ ExecuteStep => LifeInv'
<1> SUFFICES ASSUME LifeInv, ExecuteStep PROVE LifeInv'
  OBVIOUS
<1> USE DEF LifeInv, LifeTypeOK, AllSubscribed, Started, HTTPOpened, ListedNotRefused,
            ReturnedClosed
<1>1. CASE tlsConfigFails
  BY <1>1 DEF tlsConfigFails
<1>2. CASE NewServer
  BY <1>2 DEF NewServer
<1>3. CASE SubscribeNext
  BY <1>3 DEF SubscribeNext
<1>4. CASE SubscribeFails
  BY <1>4 DEF SubscribeFails
<1>5. CASE CallStart
  BY <1>5 DEF CallStart
<1>6. CASE OpenHTTP
  BY <1>6 DEF OpenHTTP
<1>7. CASE OpenHTTPFails
  BY <1>7, CloseControlKeeps DEF OpenHTTPFails
<1>8. CASE AssignHTTP
  BY <1>8 DEF AssignHTTP
<1>9. CASE SpawnWatcher
  BY <1>9 DEF SpawnWatcher, Callers
<1>10. CASE AcceptClosed
  BY <1>10 DEF AcceptClosed
<1> QED
  BY <1>1, <1>2, <1>3, <1>4, <1>5, <1>6, <1>7, <1>8, <1>9, <1>10 DEF ExecuteStep

\* So does what a client does and what becomes of it: it is refused only by a
\* server that has subscribed the whole list.
LEMMA PeerInv ==
    ASSUME LifeInv, NEW p \in Peers, Accept(p) \/ Dial(p) \/ Leave(p)
    PROVE  LifeInv'
<1> USE DEF LifeInv, LifeTypeOK, AllSubscribed, Started, HTTPOpened, ListedNotRefused,
            ReturnedClosed
<1>1. CASE Accept(p)
  <2>1. p \in ClientIDs => peer'[p] = "served"
    BY <1>1 DEF Accept
  <2> QED
    BY <1>1, <2>1 DEF Accept
<1>2. CASE Dial(p)
  BY <1>2 DEF Dial
<1>3. CASE Leave(p)
  BY <1>3 DEF Leave
<1> QED
  BY <1>1, <1>2, <1>3

\* So does Stop, at whatever point of Start its two halves come.
LEMMA StopInv ==
    ASSUME LifeInv, NEW s \in Callers, StopControl(s) \/ StopHTTP(s)
    PROVE  LifeInv'
<1> USE DEF LifeInv, LifeTypeOK, AllSubscribed, Started, HTTPOpened, ReturnedClosed
<1>1. CASE StopControl(s)
  BY <1>1, CloseControlKeeps DEF StopControl
<1>2. CASE StopHTTP(s)
  BY <1>2 DEF StopHTTP, ListedNotRefused
<1> QED
  BY <1>1, <1>2

\* Every step of the specification preserves it.
LEMMA LifeNextInv == LifeInv /\ [LifeNext]_lifeVars => LifeInv'
<1> SUFFICES ASSUME LifeInv, [LifeNext]_lifeVars PROVE LifeInv'
  OBVIOUS
<1>1. CASE HTTPLoopEnds
  BY <1>1 DEF HTTPLoopEnds, LifeInv, LifeTypeOK, AllSubscribed, Started, HTTPOpened,
              ListedNotRefused, ReturnedClosed
<1>2. CASE Signal
  BY <1>2 DEF Signal, LifeInv, LifeTypeOK, AllSubscribed, Started, HTTPOpened,
              ListedNotRefused, ReturnedClosed
<1>3. CASE UNCHANGED lifeVars
  BY <1>3 DEF lifeVars, LifeInv, LifeTypeOK, AllSubscribed, Started, HTTPOpened,
              ListedNotRefused, ReturnedClosed
<1> QED
  BY <1>1, <1>2, <1>3, ExecuteInv, PeerInv, StopInv DEF LifeNext

\* The invariant of the server's life.
LEMMA LifeInvariant == LifeSpec => []LifeInv
BY LifeInitInv, LifeNextInv, PTL DEF LifeSpec

\* Type correctness of the server's life: in particular, the field that Stop
\* reads is never set without a listener behind it.
THEOREM LifeTypeCorrect == LifeSpec => []LifeTypeOK
<1>1. LifeInv => LifeTypeOK
  BY DEF LifeInv
<1> QED
  BY <1>1, LifeInvariant, PTL

\* No client of the list is refused, however early it connects: the listener is
\* open before the identifiers are subscribed, but nobody accepts before.
THEOREM LifeListedNotRefused == LifeSpec => []ListedNotRefused
<1>1. LifeInv => ListedNotRefused
  BY DEF LifeInv
<1> QED
  BY <1>1, LifeInvariant, PTL

\* Whichever way Start returns, with an error of its own or after a Stop, the
\* listener NewServer opened is closed.
THEOREM LifeReturnedClosed == LifeSpec => []ReturnedClosed
<1>1. LifeInv => ReturnedClosed
  BY DEF LifeInv
<1> QED
  BY <1>1, LifeInvariant, PTL

==============================================================================
