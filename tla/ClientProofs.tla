----------------------------- MODULE ClientProofs -----------------------------
(***************************************************************************)
(* Theorems about Client for every configuration of the backoff.  The      *)
(* property ServedIsStoppable is inductive with the type invariant: c.conn *)
(* is set only where a dial ends and every step that resets it closes the  *)
(* socket or comes after ServeConn has returned.                           *)
(***************************************************************************)
EXTENDS Client, TLAPS

\* Every step of the client keeps the types.
LEMMA TypeStep == ASSUME TypeOK, [Next]_vars PROVE TypeOK'
<1> USE ClientConfigAssumption DEF TypeOK, OldAge
<1>1. CASE connect      BY <1>1 DEF connect, ConnectFails, Return, Results, ages
<1>2. CASE DialSucceeds BY <1>2 DEF DialSucceeds, Results, Errors
<1>3. CASE DialFails    BY <1>3 DEF DialFails, ConnectFails, Return, Results, ages
<1>4. CASE Wake         BY <1>4 DEF Wake, ages
<1>5. CASE ServeConnReturns BY <1>5 DEF ServeConnReturns, ages
<1>6. CASE CheckContext BY <1>6 DEF CheckContext, Return, Results, ages
<1>7. CASE AfterDisconnect
  BY <1>7 DEF AfterDisconnect, Verdict, Return, Results, Older, Errors
<1>8. CASE StopCalled   BY <1>8 DEF StopCalled, Stop
<1>9. CASE StopOnCancel BY <1>9 DEF StopOnCancel, Stop
<1>10. CASE Cancel      BY <1>10 DEF Cancel, ages
<1>11. CASE ErrorPushed BY <1>11 DEF ErrorPushed, Errors, ages
<1>12. CASE handleHandshakeError BY <1>12 DEF handleHandshakeError, Errors, ages
<1>13. CASE LinkDrops   BY <1>13 DEF LinkDrops
<1>14. CASE Tick        BY <1>14 DEF Tick, Grow
<1>15. CASE Dialed      BY <1>15 DEF Dialed, ages
<1>16. CASE UNCHANGED vars BY <1>16 DEF vars
<1> QED BY <1>1, <1>2, <1>3, <1>4, <1>5, <1>6, <1>7, <1>8, <1>9, <1>10, <1>11, <1>12,
           <1>13, <1>14, <1>15, <1>16 DEF Next, StartStep

\* Every step keeps the served connection within reach of Stop.
LEMMA StoppableStep ==
    ASSUME TypeOK, ServedIsStoppable, [Next]_vars PROVE ServedIsStoppable'
<1> USE DEF TypeOK, ServedIsStoppable, InConnect
<1>1. CASE connect      BY <1>1 DEF connect, ConnectFails, Return
<1>2. CASE DialSucceeds BY <1>2 DEF DialSucceeds, Results, Errors
<1>3. CASE DialFails    BY <1>3 DEF DialFails, ConnectFails, Return
<1>4. CASE Wake         BY <1>4 DEF Wake
<1>5. CASE ServeConnReturns BY <1>5 DEF ServeConnReturns
<1>6. CASE CheckContext BY <1>6 DEF CheckContext, Return
<1>7. CASE AfterDisconnect BY <1>7 DEF AfterDisconnect, Verdict, Return, Errors
<1>8. CASE StopCalled   BY <1>8 DEF StopCalled, Stop
<1>9. CASE StopOnCancel BY <1>9 DEF StopOnCancel, Stop
<1>10. CASE Cancel      BY <1>10 DEF Cancel
<1>11. CASE ErrorPushed BY <1>11 DEF ErrorPushed
<1>12. CASE handleHandshakeError BY <1>12 DEF handleHandshakeError
<1>13. CASE LinkDrops   BY <1>13 DEF LinkDrops
<1>14. CASE Tick        BY <1>14 DEF Tick
<1>15. CASE Dialed      BY <1>15 DEF Dialed
<1>16. CASE UNCHANGED vars BY <1>16 DEF vars
<1> QED BY <1>1, <1>2, <1>3, <1>4, <1>5, <1>6, <1>7, <1>8, <1>9, <1>10, <1>11, <1>12,
           <1>13, <1>14, <1>15, <1>16 DEF Next, StartStep

\* The variables of the client keep their types.
THEOREM ClientTypeCorrect == Spec => []TypeOK
<1>1. Init => TypeOK
  BY ClientConfigAssumption DEF Init, TypeOK, Results, Errors, OldAge
<1> QED BY <1>1, TypeStep, PTL DEF Spec

\* Stop always reaches the connection Start serves, and connect never finds a
\* connection that Start has left behind.
THEOREM ClientServedIsStoppable == Spec => []ServedIsStoppable
<1>1. Init => ServedIsStoppable
  BY DEF Init, ServedIsStoppable, InConnect
<1> QED BY <1>1, ClientTypeCorrect, StoppableStep, PTL DEF Spec

==============================================================================
