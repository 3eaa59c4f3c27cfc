----------------------- MODULE ConnectionManagerProofs -----------------------
(***************************************************************************)
(* Theorems about ConnectionManager, for every set of callers and every    *)
(* value of the policy constants.                                          *)
(***************************************************************************)
EXTENDS ConnectionManager, NaturalLemmas, TLAPS

-----------------------------------------------------------------------------
(* The state machine's table, event by event. *)

\* transition() as the table defines it: the CONNECT, RETRY and
\* CONNECT_SUCCESS / CONNECT_FAILED / CONNECTION_LOST events the manager sends.
LEMMA Table ==
  ASSUME NEW s \in SM!States
  PROVE  /\ SM!After(s, "CONNECT") = IF s = "DISCONNECTED" THEN "CONNECTING" ELSE s
         /\ SM!After(s, "CONNECT_SUCCESS") = IF s = "CONNECTING" THEN "CONNECTED" ELSE s
         /\ SM!After(s, "CONNECT_FAILED") = IF s = "CONNECTING" THEN "FAILED" ELSE s
         /\ SM!Accepts(s, "CONNECTION_LOST") <=> s = "CONNECTED"
         /\ SM!After(s, "CONNECTION_LOST") = IF s = "CONNECTED" THEN "RECONNECTING" ELSE s
<1>1. SM!After(s, "CONNECT") = IF s = "DISCONNECTED" THEN "CONNECTING" ELSE s
  BY DEF SM!After, SM!Accepts, SM!Transitions, SM!States
<1>2. SM!After(s, "CONNECT_SUCCESS") = IF s = "CONNECTING" THEN "CONNECTED" ELSE s
  BY DEF SM!After, SM!Accepts, SM!Transitions, SM!States
<1>3. SM!After(s, "CONNECT_FAILED") = IF s = "CONNECTING" THEN "FAILED" ELSE s
  BY DEF SM!After, SM!Accepts, SM!Transitions, SM!States
<1>4. SM!Accepts(s, "CONNECTION_LOST") <=> s = "CONNECTED"
  BY DEF SM!Accepts, SM!Transitions, SM!States
<1>5. SM!After(s, "CONNECTION_LOST") = IF s = "CONNECTED" THEN "RECONNECTING" ELSE s
  BY DEF SM!After, SM!Accepts, SM!Transitions, SM!States
<1>6. QED BY <1>1, <1>2, <1>3, <1>4, <1>5

\* RETRY out of RECONNECTING is the only RETRY the manager sends.
LEMMA RetryTable == SM!After("RECONNECTING", "RETRY") = "CONNECTING"
BY DEF SM!After, SM!Accepts, SM!Transitions, SM!States

-----------------------------------------------------------------------------
(* The pieces of the code that touch the manager's fields. *)

Manager == [state: SM!States, failures: Nat, backoff: InitialBackoff..MaxBackoff]

\* Doubling keeps the backoff within its bounds.
LEMMA DoubledInRange ==
  ASSUME NEW b \in InitialBackoff..MaxBackoff
  PROVE  Doubled(b) \in InitialBackoff..MaxBackoff
BY PolicyAssumption DEF Doubled

\* _handle_connection_failure() counts one failure and leaves the state alone.
LEMMA CountFailureShape ==
  ASSUME NEW m \in Manager
  PROVE  /\ CountFailure(m) \in Manager
         /\ CountFailure(m).state = m.state
         /\ CountFailure(m).failures = m.failures + 1
BY DoubledInRange DEF CountFailure, Manager

LEMMA FreshShape ==
  ASSUME NEW m \in Manager
  PROVE  /\ Fresh(m) \in Manager
         /\ Fresh(m).state = m.state
         /\ Fresh(m).failures = 0
         /\ Fresh(m).backoff = InitialBackoff
BY PolicyAssumption DEF Fresh, Manager

\* handle_connection_lost() ends in RECONNECTING from every state.
LEMMA LostShape ==
  ASSUME NEW m \in Manager
  PROVE  /\ Lost(m) \in Manager
         /\ Lost(m).state = "RECONNECTING"
<1>1. CASE m.state = "RECONNECTING"
  BY <1>1 DEF Lost
<1>2. CASE m.state # "RECONNECTING"
  <2>1. m.state \in SM!States
    BY DEF Manager
  <2>2. Lost(m) = [CountFailure(m) EXCEPT !.state = "RECONNECTING"]
    BY <1>2, <2>1, Table DEF Lost
  <2>3. "RECONNECTING" \in SM!States
    BY DEF SM!States
  <2>4. QED
    BY <2>2, <2>3, CountFailureShape DEF Manager
<1>3. QED BY <1>1, <1>2

LEMMA ForgivenShape ==
  ASSUME NEW m \in Manager
  PROVE  /\ Forgiven(m) \in Manager
         /\ Forgiven(m).state = m.state
         /\ Forgiven(m).failures < MaxFailures
BY FreshShape, PolicyAssumption DEF Forgiven, Manager

\* An attempt leaves counter and backoff alone and can only move the state to
\* CONNECTING.
LEMMA StartConnectingShape ==
  ASSUME NEW m \in Manager
  PROVE  /\ StartConnecting(m) \in Manager
         /\ StartConnecting(m).failures = m.failures
         /\ StartConnecting(m).backoff = m.backoff
         /\ StartConnecting(m).state =
              IF m.state \in {"RECONNECTING", "DISCONNECTED"} THEN "CONNECTING" ELSE m.state
<1>1. m.state \in SM!States /\ "CONNECTING" \in SM!States
  BY DEF Manager, SM!States
<1>2. CASE m.state = "RECONNECTING"
  <2>1. StartConnecting(m) = [m EXCEPT !.state = "CONNECTING"]
    BY <1>2, RetryTable DEF StartConnecting, Fire, Manager
  <2>2. QED BY <1>1, <1>2, <2>1 DEF Manager
<1>3. CASE m.state # "RECONNECTING"
  <2>1. StartConnecting(m) =
          [m EXCEPT !.state = IF m.state = "DISCONNECTED" THEN "CONNECTING" ELSE m.state]
    BY <1>1, <1>3, Table DEF StartConnecting, Fire, Manager
  <2>2. QED BY <1>1, <1>3, <2>1 DEF Manager
<1>4. QED BY <1>2, <1>3

\* The two ends of an attempt both leave CONNECTING.
LEMMA SucceededShape ==
  ASSUME NEW m \in Manager
  PROVE  /\ Fire(Fresh(m), "CONNECT_SUCCESS") \in Manager
         /\ Fire(Fresh(m), "CONNECT_SUCCESS").state =
              IF m.state = "CONNECTING" THEN "CONNECTED" ELSE m.state
         /\ Fire(Fresh(m), "CONNECT_SUCCESS").failures = 0
         /\ Fire(Fresh(m), "CONNECT_SUCCESS").backoff = InitialBackoff
<1>1. m.state \in SM!States /\ "CONNECTED" \in SM!States
  BY DEF Manager, SM!States
<1>2. Fire(Fresh(m), "CONNECT_SUCCESS") =
        [Fresh(m) EXCEPT !.state = IF m.state = "CONNECTING" THEN "CONNECTED" ELSE m.state]
  BY <1>1, Table, FreshShape DEF Fire, Manager
<1>3. QED BY <1>1, <1>2, FreshShape DEF Manager

LEMMA FailedShape ==
  ASSUME NEW m \in Manager
  PROVE  /\ Fire(CountFailure(m), "CONNECT_FAILED") \in Manager
         /\ Fire(CountFailure(m), "CONNECT_FAILED").state =
              IF m.state = "CONNECTING" THEN "FAILED" ELSE m.state
<1>1. m.state \in SM!States /\ "FAILED" \in SM!States
  BY DEF Manager, SM!States
<1>2. Fire(CountFailure(m), "CONNECT_FAILED") =
        [CountFailure(m) EXCEPT !.state = IF m.state = "CONNECTING" THEN "FAILED" ELSE m.state]
  BY <1>1, Table, CountFailureShape DEF Fire, Manager
<1>3. QED BY <1>1, <1>2, CountFailureShape DEF Manager

\* Reconciling either changes nothing or loses a connection.
LEMMA ReconciledShape ==
  ASSUME TypeOK
  PROVE  /\ Reconciled \in Manager
         /\ \/ Reconciled = mgr
            \/ mgr.state = "CONNECTED" /\ Reconciled.state = "RECONNECTING"
BY LostShape DEF Reconciled, TypeOK, Manager

-----------------------------------------------------------------------------
(* Type correctness. *)

\* However the link closes, the pending tasks stay within their bound.
LEMMA CloseLinkTypeOK ==
  ASSUME TypeOK, CloseLink
  PROVE  link' \in BOOLEAN /\ lostTasks' \in 0..MaxLostTasks
<1>1. lostTasks \in Nat /\ MaxLostTasks \in Nat
  BY ShapeAssumption DEF TypeOK
<1>2. lostTasks' = lostTasks + 1 \/ lostTasks' = lostTasks
  BY DEF CloseLink
<1>3. lostTasks' <= MaxLostTasks
  BY DEF CloseLink
<1>4. link' \in BOOLEAN
  BY DEF CloseLink
<1>5. QED BY <1>1, <1>2, <1>3, <1>4

\* The step every way into connect() shares.
LEMMA AttemptTypeOK ==
  ASSUME TypeOK, NEW c \in Callers, NEW m \in Manager, Attempt(c, m)
  PROVE  TypeOK'
<1>1. mgr' \in Manager
  BY StartConnectingShape DEF Attempt
<1>2. elapsed' \in 0..MaxBackoff
  BY PolicyAssumption DEF Attempt
<1>3. /\ pc' \in [Callers -> {"idle", "sleeping", "connecting"}]
      /\ wait' \in [Callers -> 0..MaxBackoff]
      /\ result' \in [Callers -> {"none", "ok", "refused"}]
  BY PolicyAssumption DEF Attempt, TypeOK
<1>4. link' \in BOOLEAN /\ lostTasks' \in 0..MaxLostTasks
  <2>1. CASE UNCHANGED <<link, lostTasks>>
    BY <2>1 DEF TypeOK
  <2>2. CASE CloseLink
    BY <2>2, CloseLinkTypeOK
  <2>3. QED BY <2>1, <2>2 DEF Attempt
<1>5. QED BY <1>1, <1>2, <1>3, <1>4 DEF TypeOK, Manager

\* Every field keeps its type: in particular the backoff never leaves
\* InitialBackoff..MaxBackoff, however many failures are counted.
THEOREM TypeCorrect == Spec => []TypeOK
<1>1. Init => TypeOK
  <2> SUFFICES ASSUME Init PROVE TypeOK
    OBVIOUS
  <2>1. mgr \in [state: SM!States, failures: Nat, backoff: InitialBackoff..MaxBackoff]
    BY PolicyAssumption DEF Init, SM!States
  <2>2. elapsed \in 0..MaxBackoff /\ lostTasks \in 0..MaxLostTasks
    BY PolicyAssumption, ShapeAssumption DEF Init
  <2>3. link \in BOOLEAN
    BY DEF Init
  <2>4. /\ pc \in [Callers -> {"idle", "sleeping", "connecting"}]
        /\ wait \in [Callers -> 0..MaxBackoff]
        /\ result \in [Callers -> {"none", "ok", "refused"}]
    BY PolicyAssumption DEF Init
  <2>5. QED BY <2>1, <2>2, <2>3, <2>4 DEF TypeOK
<1>2. TypeOK /\ [Next]_vars => TypeOK'
  <2> SUFFICES ASSUME TypeOK, [Next]_vars PROVE TypeOK'
    OBVIOUS
  <2> USE PolicyAssumption, ShapeAssumption
  <2>0. mgr \in Manager
    BY DEF TypeOK, Manager
  <2>1. ASSUME NEW c \in Callers, AlreadyConnected(c) PROVE TypeOK'
    BY <2>1 DEF AlreadyConnected, Return, TypeOK
  <2>2. ASSUME NEW c \in Callers, RefuseBusy(c) PROVE TypeOK'
    BY <2>2 DEF RefuseBusy, Return, TypeOK
  <2>3. ASSUME NEW c \in Callers, RefuseLockedOut(c) PROVE TypeOK'
    BY <2>3, ReconciledShape DEF RefuseLockedOut, Return, TypeOK, Manager
  <2>4. ASSUME NEW c \in Callers, StartSleep(c) PROVE TypeOK'
    <3>1. Forgiven(Reconciled) \in Manager
      BY ReconciledShape, ForgivenShape
    <3>2. Forgiven(Reconciled).backoff - elapsed \in 0..MaxBackoff
      BY <2>4, <3>1 DEF StartSleep, MustWait, TypeOK, Manager
    <3>3. QED
      BY <2>4, <3>1, <3>2 DEF StartSleep, TypeOK, Manager
  <2>5. ASSUME NEW c \in Callers, AttemptNow(c) PROVE TypeOK'
    <3>1. Forgiven(Reconciled) \in Manager
      BY ReconciledShape, ForgivenShape
    <3>2. Attempt(c, Forgiven(Reconciled))
      BY <2>5 DEF AttemptNow
    <3>3. QED
      BY <3>1, <3>2, AttemptTypeOK
  <2>6. ASSUME NEW c \in Callers, Wake(c) PROVE TypeOK'
    BY <2>0, <2>6, AttemptTypeOK DEF Wake
  <2>7. ASSUME NEW c \in Callers, ConnectSucceeds(c) PROVE TypeOK'
    <3>1. mgr' \in Manager
      BY <2>0, <2>7, SucceededShape DEF ConnectSucceeds
    <3>2. link' \in BOOLEAN /\ lostTasks' \in 0..MaxLostTasks
      BY <2>7 DEF ConnectSucceeds, TypeOK
    <3>3. QED
      BY <2>7, <3>1, <3>2 DEF ConnectSucceeds, Return, TypeOK, Manager
  <2>8. ASSUME NEW c \in Callers, ConnectFails(c) PROVE TypeOK'
    <3>1. mgr' \in Manager
      BY <2>0, <2>8, FailedShape DEF ConnectFails
    <3>2. link' \in BOOLEAN /\ lostTasks' \in 0..MaxLostTasks
      <4>1. CASE UNCHANGED <<link, lostTasks>>
        BY <4>1 DEF TypeOK
      <4>2. CASE CloseLink
        BY <4>2, CloseLinkTypeOK
      <4>3. CASE lostTasks < MaxLostTasks /\ lostTasks' = lostTasks + 1 /\ link' = link
        BY <4>3 DEF TypeOK
      <4>4. QED BY <2>8, <4>1, <4>2, <4>3 DEF ConnectFails
    <3>3. QED
      BY <2>8, <3>1, <3>2 DEF ConnectFails, Return, TypeOK, Manager
  <2>9. ASSUME NEW c \in Callers, Cancel(c) PROVE TypeOK'
    BY <2>9 DEF Cancel, Return, TypeOK
  <2>10. CASE LinkDrops
    BY <2>10, CloseLinkTypeOK DEF LinkDrops, TypeOK
  <2>11. CASE RunLost
    BY <2>0, <2>11, LostShape DEF RunLost, TypeOK, Manager
  <2>12. CASE ResetFailures
    <3>1. mgr' \in Manager
      BY <2>0, <2>12, FreshShape DEF ResetFailures, Manager, SM!States
    <3>2. QED
      BY <2>12, <3>1 DEF ResetFailures, TypeOK, Manager
  <2>13. CASE Tick
    BY <2>13 DEF Tick, TypeOK
  <2>14. CASE UNCHANGED vars
    BY <2>14 DEF vars, TypeOK
  <2>15. QED
    BY <2>1, <2>2, <2>3, <2>4, <2>5, <2>6, <2>7, <2>8, <2>9, <2>10, <2>11,
       <2>12, <2>13, <2>14 DEF Next, Ensure, Resolve
<1>3. QED
  BY <1>1, <1>2, PTL DEF Spec

-----------------------------------------------------------------------------
(* The backoff is a function of the failures. *)

\* The recursive function exists, so its equations hold.
LEMMA UncappedShape ==
  /\ Uncapped \in [Nat -> Nat]
  /\ Uncapped[0] = InitialBackoff
  /\ \A n \in Nat : Uncapped[n + 1] = 2 * Uncapped[n]
<1> DEFINE E(n, f) == IF n = 0 THEN InitialBackoff ELSE 2 * f[n - 1]
           g == [n \in Nat |-> [x \in Nat |-> 2 * x]]
<1>0. g \in [Nat -> [Nat -> Nat]] /\ InitialBackoff \in Nat
  BY PolicyAssumption
<1> DEFINE f == Recursion(Nat, InitialBackoff, g)
<1> HIDE DEF g, f
<1>1. f \in [Nat -> Nat] /\ f[0] = InitialBackoff /\ \A n \in Nat : f[n + 1] = g[n][f[n]]
  <2>1. FollowsRule(Nat, InitialBackoff, g, f)
    BY <1>0, PrimitiveRecursion, Zenon DEF f
  <2>2. QED BY <2>1 DEF FollowsRule
<1>2. f = [n \in Nat |-> E(n, f)]
  <2>1. ASSUME NEW n \in Nat PROVE f[n] = E(n, f)
    <3>1. CASE n = 0
      BY <1>1, <3>1
    <3>2. CASE n # 0
      <4>1. n - 1 \in Nat /\ (n - 1) + 1 = n
        BY <3>2
      <4>2. f[(n - 1) + 1] = 2 * f[n - 1]
        BY <1>1, <4>1 DEF g
      <4>3. QED BY <1>1, <3>2, <4>1, <4>2
    <3>3. QED BY <3>1, <3>2
  <2>2. QED BY <1>1, <2>1
<1>3. Uncapped = [n \in Nat |-> E(n, Uncapped)]
  <2>1. Uncapped = CHOOSE u : u = [n \in Nat |-> E(n, u)]
    BY DEF Uncapped
  <2> HIDE DEF E
  <2>2. QED BY <1>2, <2>1, Zenon
<1>4. Uncapped[0] = InitialBackoff
  BY <1>3
<1>5. \A n \in Nat : Uncapped[n + 1] = 2 * Uncapped[n]
  BY <1>3
<1>6. Uncapped \in [Nat -> Nat]
  <2> DEFINE S == {n \in Nat : Uncapped[n] \in Nat}
  <2>1. 0 \in S
    BY <1>4, PolicyAssumption
  <2>2. \A n \in S : n + 1 \in S
    BY <1>5
  <2>3. S = Nat
    <3> HIDE DEF S
    <3>1. S \in SUBSET Nat
      BY DEF S
    <3>2. QED BY <2>1, <2>2, <3>1, Induction
  <2>4. QED BY <1>3, <2>3
<1>7. QED BY <1>4, <1>5, <1>6

\* Counting one more failure doubles the backoff, cap included.
LEMMA BackoffStep ==
  ASSUME NEW n \in Nat
  PROVE  /\ BackoffAfter(0) = InitialBackoff
         /\ Doubled(BackoffAfter(n)) = BackoffAfter(n + 1)
<1>1. Uncapped[n] \in Nat /\ Uncapped[n + 1] = 2 * Uncapped[n] /\ Uncapped[0] = InitialBackoff
  BY UncappedShape
<1>2. QED BY <1>1, PolicyAssumption DEF BackoffAfter, Doubled

\* m's backoff is the one its failures call for.
Matches(m) == m.backoff = BackoffAfter(m.failures)

LEMMA MatchesKept ==
  ASSUME NEW m \in Manager, Matches(m)
  PROVE  /\ Matches(CountFailure(m)) /\ Matches(Fresh(m)) /\ Matches(Lost(m))
         /\ Matches(Forgiven(m)) /\ Matches(StartConnecting(m))
<1>1. Matches(CountFailure(m))
  BY BackoffStep DEF Matches, CountFailure, Manager
<1>2. Matches(Fresh(m))
  BY BackoffStep DEF Matches, Fresh
<1>3. Matches(Lost(m))
  <2>1. CASE m.state = "RECONNECTING"
    BY <2>1 DEF Lost
  <2>2. CASE m.state # "RECONNECTING"
    BY <1>1, <2>2, CountFailureShape DEF Lost, Matches, Manager
  <2>3. QED BY <2>1, <2>2
<1>4. Matches(Forgiven(m))
  BY <1>2 DEF Forgiven
<1>5. Matches(StartConnecting(m))
  BY StartConnectingShape DEF Matches
<1>6. QED BY <1>1, <1>2, <1>3, <1>4, <1>5

\* Whatever the callers do, and whoever counts, loses or forgives failures: the
\* backoff is INITIAL_BACKOFF doubled once for each failure, and MAX_BACKOFF
\* from there on.
THEOREM BackoffIsFunctionOfFailures == Spec => []BackoffMatchesFailures
<1>1. Init => BackoffMatchesFailures
  BY BackoffStep DEF Init, BackoffMatchesFailures
<1>2. TypeOK /\ BackoffMatchesFailures /\ [Next]_vars => BackoffMatchesFailures'
  <2> SUFFICES ASSUME TypeOK, BackoffMatchesFailures, [Next]_vars
               PROVE  Matches(mgr')
    BY DEF BackoffMatchesFailures, Matches
  <2>1. mgr \in Manager /\ Matches(mgr)
    BY DEF TypeOK, Manager, BackoffMatchesFailures, Matches
  <2>2. Reconciled \in Manager /\ Matches(Reconciled)
    BY <2>1, MatchesKept, ReconciledShape DEF Reconciled
  <2>3. Forgiven(Reconciled) \in Manager /\ Matches(Forgiven(Reconciled))
    BY <2>2, MatchesKept, ForgivenShape
  <2>4. ASSUME NEW c \in Callers, NEW m \in Manager, Matches(m), Attempt(c, m)
        PROVE  Matches(mgr')
    BY <2>4, MatchesKept DEF Attempt
  <2>5. ASSUME NEW c \in Callers, Ensure(c) PROVE Matches(mgr')
    <3>1. CASE AlreadyConnected(c) \/ RefuseBusy(c)
      BY <2>1, <3>1 DEF AlreadyConnected, RefuseBusy
    <3>2. CASE RefuseLockedOut(c)
      BY <2>2, <3>2 DEF RefuseLockedOut
    <3>3. CASE StartSleep(c)
      BY <2>3, <3>3 DEF StartSleep
    <3>4. CASE AttemptNow(c)
      BY <2>3, <2>4, <3>4 DEF AttemptNow
    <3>5. QED BY <2>5, <3>1, <3>2, <3>3, <3>4 DEF Ensure
  <2>6. ASSUME NEW c \in Callers, Wake(c) PROVE Matches(mgr')
    BY <2>1, <2>4, <2>6 DEF Wake
  <2>7. ASSUME NEW c \in Callers, ConnectSucceeds(c) PROVE Matches(mgr')
    BY <2>1, <2>7, SucceededShape, BackoffStep DEF ConnectSucceeds, Matches
  <2>8. ASSUME NEW c \in Callers, ConnectFails(c) PROVE Matches(mgr')
    BY <2>1, <2>8, MatchesKept, CountFailureShape DEF ConnectFails, Fire, Matches, Manager
  <2>9. CASE \E c \in Callers : Cancel(c)
    BY <2>1, <2>9 DEF Cancel
  <2>10. CASE LinkDrops \/ Tick \/ UNCHANGED vars
    BY <2>1, <2>10 DEF LinkDrops, Tick, vars
  <2>11. CASE RunLost
    BY <2>1, <2>11, MatchesKept DEF RunLost
  <2>12. CASE ResetFailures
    BY <2>1, <2>12, BackoffStep DEF ResetFailures, Fresh, Matches
  <2>13. QED
    BY <2>5, <2>6, <2>7, <2>8, <2>9, <2>10, <2>11, <2>12 DEF Next, Resolve
<1>3. QED
  BY <1>1, <1>2, TypeCorrect, PTL DEF Spec

-----------------------------------------------------------------------------
(* The manager cannot wedge in CONNECTING unless a call is cancelled. *)

\* A caller that starts connect() is there to leave CONNECTING again.
LEMMA AttemptNotWedged ==
  ASSUME TypeOK, NEW c \in Callers, NEW m \in Manager, Attempt(c, m)
  PROVE  NeverWedged'
BY DEF Attempt, NeverWedged, TypeOK

\* With no cancellation, the machine is in CONNECTING only while some caller is
\* inside connect(), for any number of callers, drops and late callbacks.  So
\* can_connect cannot stay false for ever.
THEOREM NoWedge ==
  ASSUME Cancellable = {}
  PROVE  Spec => []NeverWedged
<1>1. Init => NeverWedged
  BY DEF Init, NeverWedged
<1>2. TypeOK /\ NeverWedged /\ [Next]_vars => NeverWedged'
  <2> SUFFICES ASSUME TypeOK, NeverWedged, [Next]_vars PROVE NeverWedged'
    OBVIOUS
  <2>0. mgr \in Manager
    BY DEF TypeOK, Manager
  <2>1. ASSUME NEW c \in Callers, AlreadyConnected(c) PROVE NeverWedged'
    BY <2>1 DEF AlreadyConnected, Return, NeverWedged, TypeOK
  <2>2. ASSUME NEW c \in Callers, RefuseBusy(c) PROVE NeverWedged'
    BY <2>2 DEF RefuseBusy, Return, NeverWedged, TypeOK
  <2>3. ASSUME NEW c \in Callers, RefuseLockedOut(c) PROVE NeverWedged'
    BY <2>3 DEF RefuseLockedOut, NeverWedged, SM!CanConnect
  <2>4. ASSUME NEW c \in Callers, StartSleep(c) PROVE NeverWedged'
    <3>1. mgr'.state = Reconciled.state
      BY <2>4, ReconciledShape, ForgivenShape DEF StartSleep
    <3>2. QED
      BY <2>4, <3>1 DEF StartSleep, NeverWedged, SM!CanConnect
  <2>5. ASSUME NEW c \in Callers, AttemptNow(c) PROVE NeverWedged'
    <3>1. Forgiven(Reconciled) \in Manager
      BY ReconciledShape, ForgivenShape
    <3>2. QED
      BY <2>5, <3>1, AttemptNotWedged DEF AttemptNow
  <2>6. ASSUME NEW c \in Callers, Wake(c) PROVE NeverWedged'
    BY <2>0, <2>6, AttemptNotWedged DEF Wake
  <2>7. ASSUME NEW c \in Callers, ConnectSucceeds(c) PROVE NeverWedged'
    BY <2>0, <2>7, SucceededShape DEF ConnectSucceeds, NeverWedged
  <2>8. ASSUME NEW c \in Callers, ConnectFails(c) PROVE NeverWedged'
    BY <2>0, <2>8, FailedShape DEF ConnectFails, NeverWedged
  <2>9. ASSUME NEW c \in Callers, Cancel(c) PROVE NeverWedged'
    BY <2>9 DEF Cancel
  <2>10. CASE LinkDrops
    BY <2>10 DEF LinkDrops, NeverWedged
  <2>11. CASE RunLost
    BY <2>0, <2>11, LostShape DEF RunLost, NeverWedged
  <2>12. CASE ResetFailures
    BY <2>0, <2>12, FreshShape DEF ResetFailures, NeverWedged
  <2>13. CASE Tick
    BY <2>13 DEF Tick, NeverWedged
  <2>14. CASE UNCHANGED vars
    BY <2>14 DEF vars, NeverWedged
  <2>15. QED
    BY <2>1, <2>2, <2>3, <2>4, <2>5, <2>6, <2>7, <2>8, <2>9, <2>10, <2>11,
       <2>12, <2>13, <2>14 DEF Next, Ensure, Resolve
<1>3. QED
  BY <1>1, <1>2, TypeCorrect, PTL DEF Spec

-----------------------------------------------------------------------------
(* What True promises. *)

\* Whoever calls, whatever is cancelled, dropped or late: only a call that has
\* just made an attempt of its own may answer True over a transport that is
\* down; nobody is told True by the state machine alone.
THEOREM TrueIsChecked == Spec => OkIsChecked
<1>1. TypeOK /\ [Next]_vars => \A c \in Callers : ReturnsTrue(c) => link' \/ pc[c] = "connecting"
  <2> SUFFICES ASSUME TypeOK, [Next]_vars, NEW d \in Callers, ReturnsTrue(d),
                      pc[d] # "connecting"
               PROVE  link'
    OBVIOUS
  <2>1. ASSUME NEW c \in Callers, AlreadyConnected(c) PROVE link'
    BY <2>1, LostShape DEF AlreadyConnected, Reconciled, TypeOK, Manager
  <2>2. ASSUME NEW c \in Callers, ConnectSucceeds(c) PROVE FALSE
    BY <2>2 DEF ConnectSucceeds, Return, ReturnsTrue, TypeOK
  <2>3. ASSUME NEW c \in Callers, RefuseBusy(c) \/ RefuseLockedOut(c) \/ ConnectFails(c)
        PROVE  FALSE
    BY <2>3 DEF RefuseBusy, RefuseLockedOut, ConnectFails, Return, ReturnsTrue, TypeOK
  <2>4. ASSUME NEW c \in Callers, StartSleep(c) \/ AttemptNow(c) \/ Wake(c) \/ Cancel(c)
        PROVE  FALSE
    BY <2>4 DEF StartSleep, AttemptNow, Wake, Attempt, Cancel, Return, ReturnsTrue, TypeOK
  <2>5. CASE LinkDrops \/ RunLost \/ ResetFailures \/ Tick \/ UNCHANGED vars
    BY <2>5 DEF LinkDrops, RunLost, ResetFailures, Tick, vars, ReturnsTrue
  <2>6. QED
    BY <2>1, <2>2, <2>3, <2>4, <2>5 DEF Next, Ensure, Resolve
<1>2. QED
  BY <1>1, TypeCorrect, PTL DEF Spec, OkIsChecked

-----------------------------------------------------------------------------
(* One caller and no disconnect callback: the policy holds.                *)
(* SleepInv is why: nothing changes the manager while the caller sleeps,   *)
(* so what it checked before the sleep still holds when it wakes.          *)

SleepInv ==
  /\ lostTasks = 0
  /\ \A c \in Callers : pc[c] = "sleeping" =>
       /\ mgr.failures < MaxFailures
       /\ wait[c] + elapsed >= mgr.backoff

\* Counting and forgiving never hide a failure the lockout should see.
LEMMA ReconciledCounts ==
  ASSUME TypeOK
  PROVE  mgr.failures <= Reconciled.failures
<1>1. mgr \in Manager
  BY DEF TypeOK, Manager
<1>2. Reconciled = mgr \/ (mgr.state = "CONNECTED" /\ Reconciled = Lost(mgr))
  BY DEF Reconciled
<1>3. ASSUME mgr.state = "CONNECTED" PROVE mgr.failures <= Lost(mgr).failures
  <2>1. Lost(mgr) = [CountFailure(mgr) EXCEPT !.state = "RECONNECTING"]
    BY <1>1, <1>3, Table DEF Lost, Manager
  <2>2. QED BY <1>1, <2>1, CountFailureShape DEF Manager
<1>4. QED BY <1>1, <1>2, <1>3 DEF Manager

THEOREM SleepInvariant ==
  ASSUME HasCallback = FALSE, \A c, d \in Callers : c = d
  PROVE  Spec => []SleepInv
<1>1. Init => SleepInv
  BY DEF Init, SleepInv
<1>2. TypeOK /\ SleepInv /\ [Next]_vars => SleepInv'
  <2> SUFFICES ASSUME TypeOK, SleepInv, [Next]_vars PROVE SleepInv'
    OBVIOUS
  <2>0. CloseLink => lostTasks' = 0
    BY DEF CloseLink, SleepInv
  <2>1. ASSUME NEW c \in Callers, AlreadyConnected(c) \/ RefuseBusy(c) PROVE SleepInv'
    BY <2>1 DEF AlreadyConnected, RefuseBusy, Return, SleepInv, TypeOK
  <2>2. ASSUME NEW c \in Callers, RefuseLockedOut(c) PROVE SleepInv'
    BY <2>2 DEF RefuseLockedOut, Return, SleepInv, TypeOK
  <2>3. ASSUME NEW c \in Callers, StartSleep(c) PROVE SleepInv'
    <3>1. Forgiven(Reconciled) \in Manager /\ Forgiven(Reconciled).failures < MaxFailures
      BY ReconciledShape, ForgivenShape
    <3>2. wait'[c] + elapsed' >= mgr'.backoff /\ mgr'.failures < MaxFailures
      BY <2>3, <3>1 DEF StartSleep, TypeOK, Manager
    <3>3. QED
      BY <2>3, <3>2 DEF StartSleep, SleepInv, TypeOK
  <2>4. ASSUME NEW c \in Callers, NEW m, Attempt(c, m) PROVE SleepInv'
    BY <2>0, <2>4 DEF Attempt, SleepInv, TypeOK
  <2>5. ASSUME NEW c \in Callers, ConnectSucceeds(c) \/ ConnectFails(c) PROVE SleepInv'
    BY <2>0, <2>5 DEF ConnectSucceeds, ConnectFails, Return, SleepInv, TypeOK
  <2>6. ASSUME NEW c \in Callers, Cancel(c) PROVE SleepInv'
    BY <2>6 DEF Cancel, Return, SleepInv, TypeOK
  <2>7. CASE LinkDrops
    BY <2>0, <2>7 DEF LinkDrops, SleepInv
  <2>8. CASE RunLost
    BY <2>8 DEF RunLost, SleepInv
  <2>9. CASE ResetFailures
    <3>1. mgr'.failures = 0 /\ mgr'.backoff = InitialBackoff
      BY <2>9 DEF ResetFailures, Fresh
    <3>2. InitialBackoff <= mgr.backoff
      BY PolicyAssumption DEF TypeOK
    <3>3. ASSUME NEW c \in Callers, pc[c] = "sleeping"
          PROVE  wait[c] + elapsed >= InitialBackoff
      BY <3>2, <3>3, PolicyAssumption DEF SleepInv, TypeOK
    <3>4. QED
      BY <2>9, <3>1, <3>3, PolicyAssumption DEF ResetFailures, SleepInv
  <2>10. CASE Tick
    <3>1. ASSUME NEW c \in Callers, pc[c] = "sleeping"
          PROVE  wait'[c] + elapsed' >= mgr.backoff
      BY <2>10, <3>1, PolicyAssumption DEF Tick, SleepInv, TypeOK
    <3>2. QED
      BY <2>10, <3>1 DEF Tick, SleepInv
  <2>11. CASE UNCHANGED vars
    BY <2>11 DEF vars, SleepInv
  <2>12. QED
    BY <2>1, <2>2, <2>3, <2>4, <2>5, <2>6, <2>7, <2>8, <2>9, <2>10, <2>11
       DEF Next, Ensure, Resolve, AttemptNow, Wake
<1>3. QED
  BY <1>1, <1>2, TypeCorrect, PTL DEF Spec

\* Only these two steps start an attempt.
LEMMA WhoStarts ==
  ASSUME TypeOK, [Next]_vars, NEW d \in Callers, Starts(d)
  PROVE  AttemptNow(d) \/ Wake(d)
<1>1. ASSUME NEW c \in Callers, AttemptNow(c) \/ Wake(c) PROVE c = d
  BY <1>1 DEF AttemptNow, Wake, Attempt, Starts, TypeOK
<1>2. ASSUME NEW c \in Callers,
             \/ AlreadyConnected(c) \/ RefuseBusy(c) \/ RefuseLockedOut(c)
             \/ StartSleep(c) \/ Resolve(c) \/ Cancel(c)
      PROVE  FALSE
  BY <1>2 DEF AlreadyConnected, RefuseBusy, RefuseLockedOut, StartSleep, Resolve,
              ConnectSucceeds, ConnectFails, Cancel, Return, Starts, TypeOK
<1>3. ~(LinkDrops \/ RunLost \/ ResetFailures \/ Tick \/ UNCHANGED vars)
  BY DEF LinkDrops, RunLost, ResetFailures, Tick, vars, Starts
<1>4. QED
  BY <1>1, <1>2, <1>3 DEF Next, Ensure

\* One caller, no callback: attempts keep the current backoff's distance.
THEOREM BackoffRespected ==
  ASSUME HasCallback = FALSE, \A c, d \in Callers : c = d
  PROVE  Spec => AttemptsSpaced
<1>1. TypeOK /\ SleepInv /\ [Next]_vars =>
        \A c \in Callers : Starts(c) => mgr'.failures = 0 \/ elapsed >= mgr'.backoff
  <2> SUFFICES ASSUME TypeOK, SleepInv, [Next]_vars, NEW c \in Callers, Starts(c)
               PROVE  mgr'.failures = 0 \/ elapsed >= mgr'.backoff
    OBVIOUS
  <2>1. CASE AttemptNow(c)
    <3>1. Forgiven(Reconciled) \in Manager
      BY ReconciledShape, ForgivenShape
    <3>2. /\ mgr'.failures = Forgiven(Reconciled).failures
          /\ mgr'.backoff = Forgiven(Reconciled).backoff
      BY <2>1, <3>1, StartConnectingShape DEF AttemptNow, Attempt
    <3>3. QED
      BY <2>1, <3>1, <3>2 DEF AttemptNow, MustWait, Manager, TypeOK
  <2>2. CASE Wake(c)
    <3>1. mgr \in Manager
      BY DEF TypeOK, Manager
    <3>2. mgr'.backoff = mgr.backoff
      BY <2>2, <3>1, StartConnectingShape DEF Wake, Attempt
    <3>3. QED
      BY <2>2, <3>2 DEF Wake, SleepInv, TypeOK
  <2>3. QED BY <2>1, <2>2, WhoStarts
<1>2. QED
  BY <1>1, TypeCorrect, SleepInvariant, PTL DEF Spec, AttemptsSpaced

\* One caller, no callback: after MaxFailures failures in a row there is no
\* attempt for MaxBackoff.
THEOREM LockoutRespected ==
  ASSUME HasCallback = FALSE, \A c, d \in Callers : c = d
  PROVE  Spec => LockoutHolds
<1>1. TypeOK /\ SleepInv /\ [Next]_vars =>
        \A c \in Callers : Starts(c) => mgr.failures < MaxFailures \/ elapsed = MaxBackoff
  <2> SUFFICES ASSUME TypeOK, SleepInv, [Next]_vars, NEW c \in Callers, Starts(c)
               PROVE  mgr.failures < MaxFailures \/ elapsed = MaxBackoff
    OBVIOUS
  <2>1. CASE AttemptNow(c)
    <3>1. Reconciled.failures < MaxFailures \/ elapsed >= MaxBackoff
      BY <2>1, ReconciledShape, PolicyAssumption DEF AttemptNow, LockedOut, Manager, TypeOK
    <3>2. QED
      BY <3>1, ReconciledCounts, ReconciledShape, PolicyAssumption DEF TypeOK, Manager
  <2>2. CASE Wake(c)
    BY <2>2 DEF Wake, SleepInv
  <2>3. QED BY <2>1, <2>2, WhoStarts
<1>2. QED
  BY <1>1, TypeCorrect, SleepInvariant, PTL DEF Spec, LockoutHolds

-----------------------------------------------------------------------------
(* Refinement: the manager implements the machine's own specification.      *)

\* The moves the manager makes, each the table's answer to one event.
LEMMA Moves ==
  ASSUME mgr.state \in SM!States,
         \/ mgr'.state = mgr.state
         \/ mgr.state \in {"RECONNECTING", "DISCONNECTED"} /\ mgr'.state = "CONNECTING"
         \/ mgr.state = "CONNECTING" /\ mgr'.state \in {"CONNECTED", "FAILED"}
         \/ mgr.state = "CONNECTED" /\ mgr'.state \in {"RECONNECTING", "CONNECTING"}
  PROVE  [SM!Next]_(mgr.state)
<1>1. ASSUME NEW e \in SM!Events, SM!Accepts(mgr.state, e), mgr'.state = SM!After(mgr.state, e)
      PROVE  SM!Next
  BY <1>1 DEF SM!Next, SM!Fire
<1>2. CASE mgr.state = "RECONNECTING" /\ mgr'.state = "CONNECTING"
  BY <1>1, <1>2, RetryTable DEF SM!Accepts, SM!Events, SM!States, SM!Transitions
<1>3. CASE mgr.state = "DISCONNECTED" /\ mgr'.state = "CONNECTING"
  BY <1>1, <1>3, Table DEF SM!Accepts, SM!Events, SM!States, SM!Transitions
<1>4. CASE mgr.state = "CONNECTING" /\ mgr'.state = "CONNECTED"
  BY <1>1, <1>4, Table DEF SM!Accepts, SM!Events, SM!States, SM!Transitions
<1>5. CASE mgr.state = "CONNECTING" /\ mgr'.state = "FAILED"
  BY <1>1, <1>5, Table DEF SM!Accepts, SM!Events, SM!States, SM!Transitions
<1>6. CASE mgr.state = "CONNECTED" /\ mgr'.state = "RECONNECTING"
  BY <1>1, <1>6, Table DEF SM!Events
<1>7. CASE mgr.state = "CONNECTED" /\ mgr'.state = "CONNECTING"
  <2>1. SM!After(mgr.state, "CONNECTION_LOST") = "RECONNECTING"
    BY <1>7, Table
  <2>2. SM!Accepts("RECONNECTING", "RETRY")
    BY DEF SM!Accepts, SM!States, SM!Transitions
  <2>3. SM!LostAndRetry
    BY <1>7, <2>1, <2>2, Table, RetryTable DEF SM!LostAndRetry
  <2>4. QED BY <2>3 DEF SM!Next
<1>8. CASE mgr'.state = mgr.state
  BY <1>8
<1>9. QED BY <1>2, <1>3, <1>4, <1>5, <1>6, <1>7, <1>8

\* An attempt, from the manager as it is or as reconciling left it.
LEMMA AttemptMoves ==
  ASSUME TypeOK, NEW c \in Callers, NEW m \in Manager, Attempt(c, m),
         m.state = mgr.state \/ (mgr.state = "CONNECTED" /\ m.state = "RECONNECTING")
  PROVE  [SM!Next]_(mgr.state)
<1>1. mgr.state \in SM!States
  BY DEF TypeOK
<1>2. mgr'.state = IF m.state \in {"RECONNECTING", "DISCONNECTED"} THEN "CONNECTING" ELSE m.state
  BY StartConnectingShape DEF Attempt
<1>3. QED BY <1>1, <1>2, Moves

\* With no disconnect callback there is never a disconnect task.
LEMMA NoLostTasks ==
  ASSUME HasCallback = FALSE
  PROVE  Spec => [](lostTasks = 0)
<1>1. Init => lostTasks = 0
  BY DEF Init
<1>2. lostTasks = 0 /\ [Next]_vars => (lostTasks = 0)'
  BY DEF Next, Ensure, Resolve, AlreadyConnected, RefuseBusy, RefuseLockedOut, StartSleep,
         AttemptNow, Wake, Attempt, CloseLink, ConnectSucceeds, ConnectFails, Cancel,
         LinkDrops, RunLost, ResetFailures, Tick, vars
<1>3. QED BY <1>1, <1>2, PTL DEF Spec

\* Without a callback that forces the state, and without reset_failures(), every
\* step of every number of callers is a step of the table, or no step at all:
\* the events the table refuses change nothing.
THEOREM TableFollowed ==
  ASSUME HasCallback = FALSE, MayReset = FALSE
  PROVE  Spec => FollowsTable
<1>1. Init => SM!Init
  BY DEF Init, SM!Init
<1>2. TypeOK /\ lostTasks = 0 /\ [Next]_vars => [SM!Next]_(mgr.state)
  <2> SUFFICES ASSUME TypeOK, lostTasks = 0, [Next]_vars PROVE [SM!Next]_(mgr.state)
    OBVIOUS
  <2>0. mgr \in Manager /\ mgr.state \in SM!States
    BY DEF TypeOK, Manager
  <2>1. ASSUME NEW c \in Callers,
               \/ AlreadyConnected(c) \/ RefuseBusy(c) \/ Cancel(c)
        PROVE  [SM!Next]_(mgr.state)
    BY <2>1 DEF AlreadyConnected, RefuseBusy, Cancel
  <2>2. ASSUME NEW c \in Callers, RefuseLockedOut(c) PROVE [SM!Next]_(mgr.state)
    BY <2>0, <2>2, ReconciledShape, Moves DEF RefuseLockedOut
  <2>3. ASSUME NEW c \in Callers, StartSleep(c) PROVE [SM!Next]_(mgr.state)
    BY <2>0, <2>3, ReconciledShape, ForgivenShape, Moves DEF StartSleep
  <2>4. ASSUME NEW c \in Callers, AttemptNow(c) PROVE [SM!Next]_(mgr.state)
    <3>1. Forgiven(Reconciled) \in Manager /\ Forgiven(Reconciled).state = Reconciled.state
      BY ReconciledShape, ForgivenShape
    <3>2. QED
      BY <2>4, <3>1, ReconciledShape, AttemptMoves DEF AttemptNow
  <2>5. ASSUME NEW c \in Callers, Wake(c) PROVE [SM!Next]_(mgr.state)
    BY <2>0, <2>5, AttemptMoves DEF Wake
  <2>6. ASSUME NEW c \in Callers, ConnectSucceeds(c) PROVE [SM!Next]_(mgr.state)
    BY <2>0, <2>6, SucceededShape, Moves DEF ConnectSucceeds
  <2>7. ASSUME NEW c \in Callers, ConnectFails(c) PROVE [SM!Next]_(mgr.state)
    BY <2>0, <2>7, FailedShape, Moves DEF ConnectFails
  <2>8. CASE LinkDrops \/ Tick \/ UNCHANGED vars
    BY <2>8 DEF LinkDrops, Tick, vars
  <2>9. ~RunLost /\ ~ResetFailures
    BY DEF RunLost, ResetFailures
  <2>10. QED
    BY <2>1, <2>2, <2>3, <2>4, <2>5, <2>6, <2>7, <2>8, <2>9 DEF Next, Ensure, Resolve
<1>3. QED
  BY <1>1, <1>2, TypeCorrect, NoLostTasks, PTL DEF Spec, FollowsTable, SM!Spec

=============================================================================
