------------------------- MODULE BLETransportProofs -------------------------
(***************************************************************************)
(* Theorems about BLETransport, for every finite set of tasks and every    *)
(* value of the limits.                                                    *)
(***************************************************************************)
EXTENDS BLETransport, FiniteSetTheorems, SequenceTheorems, TLAPS

-----------------------------------------------------------------------------
(* Types.  The pieces the actions are made of, then the actions. *)

Places == {"idle", "closing", "scanning"} \cup Connecting \cup Disconnecting \cup Sending

FieldsTyped ==
  /\ client \in Handles \cup {NoClient}
  /\ connected \in BOOLEAN
  /\ timeouts \in Nat
  /\ queue \in Seq(Tasks) /\ Len(queue) <= QueueSize

TasksTyped ==
  /\ pc \in [Tasks -> Places]
  /\ held \in [Tasks -> Handles \cup {NoClient}]

LinkTyped ==
  /\ live \in Handles \cup {NoClient}
  /\ notifying \in BOOLEAN
  /\ owed \in Seq(Tasks) /\ Len(owed) <= MaxOwed

LEMMA TypeParts == TypeOK <=> FieldsTyped /\ TasksTyped /\ LinkTyped /\ crossed \subseteq Tasks
BY DEF TypeOK, FieldsTyped, TasksTyped, LinkTyped, Places

\* Nothing refers to a new client.
LEMMA NewClientsFresh ==
  ASSUME NEW h \in NewClients
  PROVE  h \in Handles /\ h \notin InUse
<1>1. CASE Handles \subseteq InUse
  BY <1>1 DEF NewClients
<1>2. CASE ~(Handles \subseteq InUse)
  <2>1. \E k \in Handles : k \notin InUse
    BY <1>2
  <2>2. h = CHOOSE k \in Handles : k \notin InUse
    BY <1>2 DEF NewClients
  <2>3. QED BY <2>1, <2>2
<1>3. QED BY <1>1, <1>2

LEMMA EmptiedTyped == \A q : Emptied(q) \in Seq(Tasks) /\ Len(Emptied(q)) <= QueueSize
BY LimitAssumption DEF Emptied

\* The handler never leaves more than QueueSize answers.
LEMMA PutTyped ==
  ASSUME NEW q \in Seq(Tasks), Len(q) <= QueueSize, NEW a \in Tasks
  PROVE  Put(q, a) \in Seq(Tasks) /\ Len(Put(q, a)) <= QueueSize
<1>1. CASE Len(q) < QueueSize
  <2>1. Put(q, a) = Append(q, a)
    BY <1>1 DEF Put
  <2>2. Append(q, a) \in Seq(Tasks) /\ Len(Append(q, a)) = Len(q) + 1
    BY AppendProperties
  <2>3. Len(q) \in Nat
    BY LenProperties
  <2>4. QED BY <1>1, <2>1, <2>2, <2>3, LimitAssumption
<1>2. CASE ~(Len(q) < QueueSize)
  BY <1>2, LimitAssumption DEF Put
<1>3. QED BY <1>1, <1>2

LEMMA LeaveTyped ==
  ASSUME TasksTyped, NEW t \in Tasks, Leave(t)
  PROVE  TasksTyped'
BY DEF TasksTyped, Leave, Goto, Places

LEMMA GotoTyped ==
  ASSUME TasksTyped, NEW t \in Tasks, NEW p \in Places, Goto(t, p), UNCHANGED held
  PROVE  TasksTyped'
BY DEF TasksTyped, Goto

LEMMA CallTyped ==
  ASSUME TasksTyped, FieldsTyped, NEW t \in Tasks, NEW p \in Places, CallClient(t, p)
  PROVE  TasksTyped'
BY DEF TasksTyped, FieldsTyped, CallClient, Goto

LEMMA LinkDownTyped ==
  ASSUME LinkTyped, LinkDown
  PROVE  LinkTyped'
<1>1. <<>> \in Seq(Tasks) /\ Len(<<>>) = 0
  BY EmptySeq
<1>2. owed' \in Seq(Tasks) /\ Len(owed') <= MaxOwed
  BY <1>1, LimitAssumption DEF LinkDown
<1>3. QED BY <1>2 DEF LinkTyped, LinkDown

LEMMA CloseTyped ==
  ASSUME LinkTyped, NEW h, Close(h)
  PROVE  LinkTyped'
BY LinkDownTyped DEF LinkTyped, Close, link

LEMMA SameFields == FieldsTyped /\ UNCHANGED fields => FieldsTyped'
BY DEF FieldsTyped, fields

LEMMA SameLink == LinkTyped /\ UNCHANGED link => LinkTyped'
BY DEF LinkTyped, link

LEMMA ForgetTyped ==
  ASSUME TasksTyped, NEW t \in Tasks, Forget(t)
  PROVE  FieldsTyped' /\ TasksTyped'
<1>1. TasksTyped'
  BY LeaveTyped DEF Forget
<1>2. FieldsTyped'
  BY EmptiedTyped DEF Forget, FieldsTyped
<1>3. QED BY <1>1, <1>2

LEMMA BeginDisconnectTyped ==
  ASSUME FieldsTyped, TasksTyped, NEW t \in Tasks, BeginDisconnect(t)
  PROVE  FieldsTyped' /\ TasksTyped'
<1>1. CASE Leave(t) /\ UNCHANGED fields
  BY <1>1, LeaveTyped, SameFields
<1>2. CASE CallClient(t, "stopping") /\ UNCHANGED fields
  <2>1. "stopping" \in Places
    BY DEF Places, Disconnecting
  <2>2. QED BY <1>2, <2>1, CallTyped, SameFields
<1>3. CASE Forget(t)
  BY <1>3, ForgetTyped
<1>4. QED BY <1>1, <1>2, <1>3 DEF BeginDisconnect

LEMMA StepTyped ==
  ASSUME FieldsTyped, TasksTyped, LinkTyped, [Next]_vars
  PROVE  FieldsTyped' /\ TasksTyped' /\ LinkTyped'
<1> USE DEF Places, Connecting, Disconnecting, Sending
<1>1. ASSUME NEW t \in Tasks, StartConnect(t) PROVE FieldsTyped' /\ TasksTyped' /\ LinkTyped'
  BY <1>1, GotoTyped, SameFields, SameLink DEF StartConnect
<1>2. ASSUME NEW t \in Tasks, StaleClosed(t) PROVE FieldsTyped' /\ TasksTyped' /\ LinkTyped'
  BY <1>2, GotoTyped, SameFields, LinkDownTyped DEF StaleClosed, CloseStale
<1>3. ASSUME NEW t \in Tasks, Discovered(t) \/ NotDiscovered(t)
      PROVE  FieldsTyped' /\ TasksTyped' /\ LinkTyped'
  BY <1>3, GotoTyped, SameFields, SameLink DEF Discovered, NotDiscovered
<1>4. ASSUME NEW t \in Tasks, Established(t) PROVE FieldsTyped' /\ TasksTyped' /\ LinkTyped'
  <2>1. PICK h \in Handles : client' = h /\ held' = [held EXCEPT ![t] = h] /\ live' = h
    BY <1>4, NewClientsFresh DEF Established
  <2>2. <<>> \in Seq(Tasks) /\ Len(<<>>) = 0
    BY EmptySeq
  <2>3. owed' \in Seq(Tasks) /\ Len(owed') <= MaxOwed
    BY <1>4, <2>2, LimitAssumption DEF Established
  <2>4. LinkTyped'
    BY <1>4, <2>1, <2>3 DEF Established, LinkTyped
  <2>5. TasksTyped'
    BY <1>4, <2>1 DEF Established, TasksTyped, Goto
  <2>6. FieldsTyped'
    BY <1>4, <2>1 DEF Established, FieldsTyped
  <2>7. QED BY <2>4, <2>5, <2>6
<1>5. ASSUME NEW t \in Tasks, EstablishedDead(t) PROVE FieldsTyped' /\ TasksTyped' /\ LinkTyped'
  <2>1. client' \in Handles
    BY <1>5, NewClientsFresh DEF EstablishedDead
  <2>2. FieldsTyped'
    BY <1>5, <2>1 DEF EstablishedDead, FieldsTyped
  <2>3. QED BY <1>5, <2>2, LeaveTyped, SameLink DEF EstablishedDead
<1>6. ASSUME NEW t \in Tasks, EstablishFails(t) PROVE FieldsTyped' /\ TasksTyped' /\ LinkTyped'
  BY <1>6, LeaveTyped, CallTyped, SameFields, SameLink DEF EstablishFails
<1>7. ASSUME NEW t \in Tasks, Abandoned(t) PROVE FieldsTyped' /\ TasksTyped' /\ LinkTyped'
  <2>1. LinkTyped'
    BY <1>7, CloseTyped, SameLink DEF Abandoned
  <2>2. FieldsTyped'
    BY <1>7 DEF Abandoned, FieldsTyped
  <2>3. QED BY <1>7, <2>1, <2>2, LeaveTyped DEF Abandoned
<1>8. ASSUME NEW t \in Tasks, Subscribed(t) PROVE FieldsTyped' /\ TasksTyped' /\ LinkTyped'
  <2>1. FieldsTyped' /\ LinkTyped'
    BY <1>8 DEF Subscribed, FieldsTyped, LinkTyped
  <2>2. QED BY <1>8, <2>1, LeaveTyped DEF Subscribed
<1>9. ASSUME NEW t \in Tasks, MayNotify(t) PROVE LinkTyped'
  BY <1>9 DEF MayNotify, LinkTyped
<1>10. ASSUME NEW t \in Tasks, SubscribeFails(t) PROVE FieldsTyped' /\ TasksTyped' /\ LinkTyped'
  BY <1>10, <1>9, GotoTyped, SameFields DEF SubscribeFails
<1>11. ASSUME NEW t \in Tasks, Resubscribe(t) PROVE FieldsTyped' /\ TasksTyped' /\ LinkTyped'
  BY <1>11, LeaveTyped, CallTyped, SameFields, SameLink DEF Resubscribe
<1>12. ASSUME NEW t \in Tasks, ResubscribeFails(t) PROVE FieldsTyped' /\ TasksTyped' /\ LinkTyped'
  BY <1>12, <1>9, BeginDisconnectTyped DEF ResubscribeFails, GiveUp
<1>13. ASSUME NEW t \in Tasks, Disconnect(t) \/ BreakerTrips(t) \/ GattFails(t)
       PROVE  FieldsTyped' /\ TasksTyped' /\ LinkTyped'
  BY <1>13, BeginDisconnectTyped, SameLink DEF Disconnect, BreakerTrips, GattFails
<1>14. ASSUME NEW t \in Tasks, Stopped(t) PROVE FieldsTyped' /\ TasksTyped' /\ LinkTyped'
  <2>1. LinkTyped'
    BY <1>14 DEF Stopped, LinkTyped
  <2>2. QED BY <1>14, <2>1, ForgetTyped, CallTyped, SameFields DEF Stopped
<1>15. ASSUME NEW t \in Tasks, HungUp(t) PROVE FieldsTyped' /\ TasksTyped' /\ LinkTyped'
  BY <1>15, CloseTyped, SameLink, ForgetTyped DEF HungUp
<1>16. ASSUME NEW t \in Tasks, BeginSend(t) PROVE FieldsTyped' /\ TasksTyped' /\ LinkTyped'
  <2>1. FieldsTyped'
    BY <1>16, EmptiedTyped DEF BeginSend, FieldsTyped
  <2>2. QED BY <1>16, <2>1, CallTyped, SameLink DEF BeginSend
<1>17. ASSUME NEW t \in Tasks, Written(t) PROVE FieldsTyped' /\ TasksTyped' /\ LinkTyped'
  <2>1. owed' \in Seq(Tasks) /\ Len(owed') <= MaxOwed
    BY <1>17, AppendProperties, LimitAssumption DEF Written, LinkTyped
  <2>2. LinkTyped'
    BY <1>17, <2>1 DEF Written, LinkTyped
  <2>3. QED BY <1>17, <2>2, LeaveTyped, CallTyped, SameFields DEF Written
<1>18. ASSUME NEW t \in Tasks, ReadDone(t) PROVE FieldsTyped' /\ TasksTyped' /\ LinkTyped'
  BY <1>18, GotoTyped, SameFields, SameLink DEF ReadDone
<1>19. ASSUME NEW t \in Tasks, Received(t) PROVE FieldsTyped' /\ TasksTyped' /\ LinkTyped'
  <2>1. queue' \in Seq(Tasks) /\ Len(queue') = Len(queue) - 1
    BY <1>19, HeadTailProperties DEF Received, FieldsTyped
  <2>2. Len(queue) \in Nat
    BY LenProperties DEF FieldsTyped
  <2>3. timeouts' \in Nat
    BY <1>19 DEF Received, FieldsTyped
  <2>4. FieldsTyped'
    BY <1>19, <2>1, <2>2, <2>3, LimitAssumption DEF Received, FieldsTyped
  <2>5. QED BY <1>19, <2>4, LeaveTyped, SameLink DEF Received
<1>20. ASSUME NEW t \in Tasks, TimedOut(t) PROVE FieldsTyped' /\ TasksTyped' /\ LinkTyped'
  <2>1. FieldsTyped'
    BY <1>20 DEF TimedOut, FieldsTyped, Counted
  <2>2. QED BY <1>20, <2>1, LeaveTyped, SameLink DEF TimedOut
<1>21. CASE Notify
  <2>1. Head(owed) \in Tasks /\ Tail(owed) \in Seq(Tasks) /\ Len(Tail(owed)) = Len(owed) - 1
    BY <1>21, HeadTailProperties DEF Notify, LinkTyped
  <2>2. Len(owed) \in Nat
    BY LenProperties DEF LinkTyped
  <2>3. LinkTyped'
    BY <1>21, <2>1, <2>2, LimitAssumption DEF Notify, LinkTyped
  <2>4. queue' \in Seq(Tasks) /\ Len(queue') <= QueueSize
    BY <1>21, <2>1, PutTyped DEF Notify, FieldsTyped
  <2>5. FieldsTyped' /\ TasksTyped'
    BY <1>21, <2>4 DEF Notify, FieldsTyped, TasksTyped
  <2>6. QED BY <2>3, <2>5
<1>22. CASE LinkDrops
  <2>1. TasksTyped'
    BY <1>22 DEF LinkDrops, TasksTyped
  <2>2. QED BY <1>22, <2>1, LinkDownTyped, SameFields DEF LinkDrops
<1>23. CASE UNCHANGED vars
  BY <1>23, SameFields, SameLink DEF vars, TasksTyped
<1>24. QED
  BY <1>1, <1>2, <1>3, <1>4, <1>5, <1>6, <1>7, <1>8, <1>10, <1>11, <1>12, <1>13, <1>14,
     <1>15, <1>16, <1>17, <1>18, <1>19, <1>20, <1>21, <1>22, <1>23
  DEF Next, Call, Continue, Connect, Send

LEMMA InitTyped == Init => FieldsTyped /\ TasksTyped /\ LinkTyped /\ crossed \subseteq Tasks
<1>1. <<>> \in Seq(Tasks) /\ Len(<<>>) = 0
  BY EmptySeq
<1>2. ASSUME Init PROVE FieldsTyped /\ LinkTyped
  <2>1. queue \in Seq(Tasks) /\ Len(queue) = 0 /\ owed \in Seq(Tasks) /\ Len(owed) = 0
    BY <1>1, <1>2 DEF Init
  <2>2. Len(queue) <= QueueSize /\ Len(owed) <= MaxOwed
    BY <2>1, LimitAssumption
  <2>3. connected \in BOOLEAN /\ notifying \in BOOLEAN /\ timeouts \in Nat
    BY <1>2 DEF Init
  <2>4. client \in Handles \cup {NoClient} /\ live \in Handles \cup {NoClient}
    BY <1>2 DEF Init
  <2>5. QED BY <2>1, <2>2, <2>3, <2>4 DEF FieldsTyped, LinkTyped
<1>3. Init => TasksTyped
  BY DEF Init, TasksTyped, Places
<1>4. QED BY <1>2, <1>3 DEF Init

LEMMA CrossedTyped ==
  ASSUME crossed \subseteq Tasks, [Next]_vars
  PROVE  crossed' \subseteq Tasks
<1>1. ASSUME NEW t \in Tasks, BeginSend(t) PROVE crossed' \subseteq Tasks
  BY <1>1 DEF BeginSend, Senders
<1>2. ASSUME NEW t \in Tasks, Connect(t) PROVE UNCHANGED crossed
  BY <1>2 DEF Connect, StaleClosed, Discovered, NotDiscovered, Established, EstablishedDead,
     EstablishFails, Abandoned, Subscribed, SubscribeFails, Resubscribe, ResubscribeFails
<1>3. ASSUME NEW t \in Tasks, Send(t) PROVE UNCHANGED crossed
  BY <1>3 DEF Send, Written, ReadDone, GattFails, Received, TimedOut
<1>4. ASSUME NEW t \in Tasks,
             StartConnect(t) \/ Disconnect(t) \/ BreakerTrips(t) \/ Stopped(t) \/ HungUp(t)
      PROVE  UNCHANGED crossed
  BY <1>4 DEF StartConnect, Disconnect, BreakerTrips, Stopped, HungUp
<1>5. CASE Notify \/ LinkDrops \/ UNCHANGED vars
  BY <1>5 DEF Notify, LinkDrops, vars
<1>6. QED
  BY <1>1, <1>2, <1>3, <1>4, <1>5 DEF Next, Call, Continue

(* The transport's fields, the tasks and the link keep their types, and the *)
(* notification queue never holds more than its maxsize.                    *)
THEOREM TypeCorrect == Spec => []TypeOK
<1>1. Init => TypeOK
  BY InitTyped, TypeParts
<1>2. TypeOK /\ [Next]_vars => TypeOK'
  <2> SUFFICES ASSUME TypeOK, [Next]_vars PROVE TypeOK'
    OBVIOUS
  <2>1. FieldsTyped /\ TasksTyped /\ LinkTyped /\ crossed \subseteq Tasks
    BY TypeParts
  <2>2. FieldsTyped' /\ TasksTyped' /\ LinkTyped' /\ crossed' \subseteq Tasks
    BY <2>1, StepTyped, CrossedTyped
  <2>3. QED
    BY <2>2 DEF TypeOK, FieldsTyped, TasksTyped, LinkTyped, Places
<1>3. QED BY <1>1, <1>2, PTL DEF Spec

-----------------------------------------------------------------------------
(* A live client without notifications is somebody's unfinished business. *)

Minded ==
  client # NoClient /\ live = client /\ ~notifying
    => \E t \in Tasks : pc[t] \in Subscribing \cup Disconnecting

\* Only a task that leaves Subscribing or Disconnecting can break Minded.
LEMMA MindedKept ==
  ASSUME TypeOK, Minded, NEW t \in Tasks, UNCHANGED <<client, live, notifying>>,
         NEW p, Goto(t, p), pc[t] \notin Subscribing \cup Disconnecting
                            \/ p \in Subscribing \cup Disconnecting
  PROVE  Minded'
BY DEF TypeOK, Minded, Goto

\* A client that is not live, or is None, or notifies, needs nobody.
LEMMA NobodyNeeded ==
  ASSUME client' = NoClient \/ live' # client' \/ notifying'
  PROVE  Minded'
BY DEF Minded

LEMMA MindedDisconnect ==
  ASSUME TypeOK, Minded, NEW t \in Tasks, BeginDisconnect(t),
         live' = live, notifying' = notifying
  PROVE  Minded'
<1>1. CASE client = NoClient /\ UNCHANGED fields
  BY <1>1, NobodyNeeded DEF fields
<1>2. CASE CallClient(t, "stopping") /\ UNCHANGED fields
  <2>1. "stopping" \in Subscribing \cup Disconnecting
    BY DEF Disconnecting
  <2>2. QED BY <1>2, <2>1, MindedKept DEF CallClient, fields
<1>3. CASE Forget(t)
  BY <1>3, NobodyNeeded DEF Forget
<1>4. QED BY <1>1, <1>2, <1>3 DEF BeginDisconnect

LEMMA MindedStep ==
  ASSUME TypeOK, Minded, [Next]_vars
  PROVE  Minded'
<1> USE DEF Subscribing, Disconnecting, Sending
<1>1. ASSUME NEW t \in Tasks,
             StartConnect(t) \/ Discovered(t) \/ NotDiscovered(t) \/ ReadDone(t)
      PROVE  Minded'
  BY <1>1, MindedKept DEF StartConnect, Discovered, NotDiscovered, ReadDone, fields, link
<1>2. ASSUME NEW t \in Tasks, StaleClosed(t) PROVE Minded'
  <2>1. live' = NoClient
    BY <1>2 DEF StaleClosed, CloseStale, LinkDown
  <2>2. QED BY <2>1, NobodyNeeded
<1>3. ASSUME NEW t \in Tasks, Established(t) PROVE Minded'
  <2>1. pc'[t] = "subscribing"
    BY <1>3 DEF Established, Goto, TypeOK
  <2>2. QED BY <2>1 DEF Minded
<1>4. ASSUME NEW t \in Tasks, EstablishedDead(t) PROVE Minded'
  <2>1. client' \notin InUse /\ live' = live
    BY <1>4, NewClientsFresh DEF EstablishedDead, link
  <2>2. client' # live
    BY <2>1 DEF InUse
  <2>3. QED BY <2>1, <2>2, NobodyNeeded
<1>5. ASSUME NEW t \in Tasks, EstablishFails(t) PROVE Minded'
  BY <1>5, MindedKept DEF EstablishFails, Leave, CallClient, fields, link
<1>6. ASSUME NEW t \in Tasks, Abandoned(t) \/ HungUp(t) PROVE Minded'
  BY <1>6, NobodyNeeded DEF Abandoned, HungUp, Forget
<1>7. ASSUME NEW t \in Tasks, Subscribed(t) PROVE Minded'
  BY <1>7, NobodyNeeded DEF Subscribed
<1>8. ASSUME NEW t \in Tasks, SubscribeFails(t) PROVE Minded'
  <2>1. pc'[t] = "pausing"
    BY <1>8 DEF SubscribeFails, Goto, TypeOK
  <2>2. QED BY <2>1 DEF Minded
<1>9. ASSUME NEW t \in Tasks, Resubscribe(t) PROVE Minded'
  <2>1. CASE client = NoClient
    BY <1>9, <2>1, NobodyNeeded DEF Resubscribe, fields
  <2>2. CASE client # NoClient
    BY <1>9, <2>2, MindedKept DEF Resubscribe, CallClient, fields, link
  <2>3. QED BY <2>1, <2>2
<1>10. ASSUME NEW t \in Tasks, ResubscribeFails(t) PROVE Minded'
  <2>1. CASE notifying' = TRUE
    BY <2>1, NobodyNeeded
  <2>2. CASE notifying' = notifying
    BY <1>10, <2>2, MindedDisconnect DEF ResubscribeFails, GiveUp, MayNotify
  <2>3. QED BY <1>10, <2>1, <2>2 DEF ResubscribeFails, MayNotify
<1>11. ASSUME NEW t \in Tasks, Disconnect(t) \/ BreakerTrips(t) \/ GattFails(t) PROVE Minded'
  BY <1>11, MindedDisconnect DEF Disconnect, BreakerTrips, GattFails, link
<1>12. ASSUME NEW t \in Tasks, Stopped(t) PROVE Minded'
  <2>1. CASE Forget(t)
    BY <2>1, NobodyNeeded DEF Forget
  <2>2. CASE CallClient(t, "hanging")
    <3>1. pc'[t] = "hanging"
      BY <2>2 DEF CallClient, Goto, TypeOK
    <3>2. QED BY <3>1 DEF Minded
  <2>3. QED BY <1>12, <2>1, <2>2 DEF Stopped
<1>13. ASSUME NEW t \in Tasks, BeginSend(t) PROVE Minded'
  BY <1>13, MindedKept DEF BeginSend, CallClient, link
<1>14. ASSUME NEW t \in Tasks, Written(t) PROVE Minded'
  BY <1>14, MindedKept DEF Written, Leave, CallClient, fields
<1>15. ASSUME NEW t \in Tasks, Received(t) \/ TimedOut(t) PROVE Minded'
  BY <1>15, MindedKept DEF Received, TimedOut, Leave, link
<1>16. CASE Notify \/ UNCHANGED vars
  BY <1>16 DEF Notify, vars, fields, link, Minded
<1>17. CASE LinkDrops
  <2>1. live' = NoClient
    BY <1>17 DEF LinkDrops, LinkDown
  <2>2. QED BY <2>1, NobodyNeeded
<1>18. QED
  BY <1>1, <1>2, <1>3, <1>4, <1>5, <1>6, <1>7, <1>8, <1>9, <1>10, <1>11, <1>12, <1>13,
     <1>14, <1>15, <1>16, <1>17
  DEF Next, Call, Continue, Connect, Send

(* With nobody inside connect() or disconnect(), a transport that says      *)
(* is_connected has its notifications on, for any number of tasks.          *)
THEOREM NotDeaf == Spec => []NeverDeaf
<1>1. Init => Minded
  BY DEF Init, Minded
<1>2. TypeOK /\ Minded /\ [Next]_vars => Minded'
  BY MindedStep
<1>3. Minded => NeverDeaf
  BY DEF Minded, NeverDeaf, IsConnected
<1>4. QED BY <1>1, <1>2, <1>3, TypeCorrect, PTL DEF Spec

-----------------------------------------------------------------------------
(* Most steps start no send, and leave the history, the queue and what the  *)
(* inverter owes alone or empty them.                                       *)

Quiet ==
  /\ crossed' = crossed
  /\ Senders' \subseteq Senders
  /\ queue' = queue \/ queue' = <<>>
  /\ owed' = owed \/ owed' = <<>>
  /\ timeouts' \in {0, timeouts}

LEMMA GotoSenders ==
  ASSUME TypeOK, NEW t \in Tasks, NEW p, Goto(t, p), p \notin Sending \/ pc[t] \in Sending
  PROVE  Senders' \subseteq Senders
BY DEF TypeOK, Senders, Goto

LEMMA LeaveSenders ==
  ASSUME TypeOK, NEW t \in Tasks, Leave(t)
  PROVE  Senders' \subseteq Senders /\ t \notin Senders'
<1>1. Senders' \subseteq Senders
  BY GotoSenders DEF Leave, Sending
<1>2. pc'[t] = "idle"
  BY DEF Leave, Goto, TypeOK
<1>3. QED BY <1>1, <1>2 DEF Senders, Sending

LEMMA ForgetQuiet ==
  ASSUME TypeOK, NEW t \in Tasks, Forget(t)
  PROVE  Senders' \subseteq Senders /\ queue' = <<>> /\ timeouts' = 0
BY LeaveSenders DEF Forget, Emptied

LEMMA BeginDisconnectQuiet ==
  ASSUME TypeOK, NEW t \in Tasks, BeginDisconnect(t)
  PROVE  /\ Senders' \subseteq Senders
         /\ queue' = queue \/ queue' = <<>>
         /\ timeouts' \in {0, timeouts}
<1>1. CASE Leave(t) /\ UNCHANGED fields
  BY <1>1, LeaveSenders DEF fields
<1>2. CASE CallClient(t, "stopping") /\ UNCHANGED fields
  BY <1>2, GotoSenders DEF CallClient, fields, Sending
<1>3. CASE Forget(t)
  BY <1>3, ForgetQuiet
<1>4. QED BY <1>1, <1>2, <1>3 DEF BeginDisconnect

\* The steps of a task that are not quiet.
Loud(t) == BeginSend(t) \/ Written(t) \/ Received(t) \/ TimedOut(t)

LEMMA QuietSteps ==
  ASSUME TypeOK, [Next]_vars
  PROVE  Quiet \/ Notify \/ \E t \in Tasks : Loud(t)
<1> USE DEF Quiet
<1>1. ASSUME NEW t \in Tasks,
             StartConnect(t) \/ Discovered(t) \/ NotDiscovered(t) \/ ReadDone(t)
      PROVE  Quiet
  BY <1>1, GotoSenders DEF StartConnect, Discovered, NotDiscovered, ReadDone, fields, link, Sending
<1>2. ASSUME NEW t \in Tasks, StaleClosed(t) PROVE Quiet
  BY <1>2, GotoSenders DEF StaleClosed, CloseStale, LinkDown, fields, Sending
<1>3. ASSUME NEW t \in Tasks, Established(t) PROVE Quiet
  BY <1>3, GotoSenders DEF Established, Sending
<1>4. ASSUME NEW t \in Tasks, EstablishedDead(t) PROVE Quiet
  BY <1>4, LeaveSenders DEF EstablishedDead, link
<1>5. ASSUME NEW t \in Tasks, EstablishFails(t) \/ Resubscribe(t) PROVE Quiet
  BY <1>5, LeaveSenders, GotoSenders
  DEF EstablishFails, Resubscribe, CallClient, fields, link, Sending
<1>6. ASSUME NEW t \in Tasks, Abandoned(t) PROVE Quiet
  BY <1>6, LeaveSenders DEF Abandoned, Close, LinkDown, link
<1>7. ASSUME NEW t \in Tasks, Subscribed(t) PROVE Quiet
  BY <1>7, LeaveSenders DEF Subscribed
<1>8. ASSUME NEW t \in Tasks, SubscribeFails(t) PROVE Quiet
  BY <1>8, GotoSenders DEF SubscribeFails, MayNotify, fields, Sending
<1>9. ASSUME NEW t \in Tasks, ResubscribeFails(t) PROVE Quiet
  BY <1>9, BeginDisconnectQuiet DEF ResubscribeFails, GiveUp, MayNotify
<1>10. ASSUME NEW t \in Tasks, Disconnect(t) \/ BreakerTrips(t) \/ GattFails(t) PROVE Quiet
  BY <1>10, BeginDisconnectQuiet DEF Disconnect, BreakerTrips, GattFails, link
<1>11. ASSUME NEW t \in Tasks, Stopped(t) PROVE Quiet
  <2>1. CASE Forget(t)
    BY <1>11, <2>1, ForgetQuiet DEF Stopped
  <2>2. CASE CallClient(t, "hanging") /\ UNCHANGED fields
    BY <1>11, <2>2, GotoSenders DEF Stopped, CallClient, fields, Sending
  <2>3. QED BY <1>11, <2>1, <2>2 DEF Stopped
<1>12. ASSUME NEW t \in Tasks, HungUp(t) PROVE Quiet
  BY <1>12, ForgetQuiet DEF HungUp, Close, LinkDown, link
<1>13. CASE LinkDrops \/ UNCHANGED vars
  BY <1>13 DEF LinkDrops, LinkDown, vars, fields, link, Senders
<1>14. QED
  BY <1>1, <1>2, <1>3, <1>4, <1>5, <1>6, <1>7, <1>8, <1>9, <1>10, <1>11, <1>12, <1>13
  DEF Next, Call, Continue, Connect, Send, Loud

-----------------------------------------------------------------------------
(* A send that met no other is the only sender, and everything in the queue *)
(* and on its way is its own.                                               *)

AllOf(q, t) == \A i \in 1..Len(q) : q[i] = t

Undisturbed(t) == pc[t] \in Sending /\ t \notin crossed

Alone ==
  \A t \in Tasks : Undisturbed(t) =>
    Senders \subseteq {t} /\ AllOf(queue, t) /\ AllOf(owed, t)

LEMMA NoneIsAll == \A t : AllOf(<<>>, t)
BY EmptySeq DEF AllOf

LEMMA TailOf ==
  ASSUME NEW q \in Seq(Tasks), q # <<>>, NEW t, AllOf(q, t)
  PROVE  Head(q) = t /\ AllOf(Tail(q), t)
<1>1. Len(q) \in Nat /\ Len(q) >= 1
  BY LenProperties, EmptySeq
<1>2. Len(Tail(q)) = Len(q) - 1 /\ \A i \in 1 .. Len(Tail(q)) : Tail(q)[i] = q[i + 1]
  BY HeadTailProperties
<1>3. Head(q) = q[1]
  BY <1>1
<1>4. QED BY <1>1, <1>2, <1>3 DEF AllOf

LEMMA AppendOf ==
  ASSUME NEW q \in Seq(Tasks), NEW t \in Tasks, AllOf(q, t)
  PROVE  AllOf(Append(q, t), t)
<1>1. Len(q) \in Nat
  BY LenProperties
<1>2. QED BY <1>1, AppendProperties DEF AllOf

LEMMA PutOf ==
  ASSUME NEW q \in Seq(Tasks), NEW t \in Tasks, AllOf(q, t)
  PROVE  AllOf(Put(q, t), t)
<1>1. AllOf(<<t>>, t)
  BY DEF AllOf
<1>2. QED BY <1>1, AppendOf DEF Put

LEMMA AloneQuiet ==
  ASSUME Alone, Quiet
  PROVE  Alone'
<1> SUFFICES ASSUME NEW t \in Tasks, Undisturbed(t)'
             PROVE  (Senders \subseteq {t})' /\ AllOf(queue', t) /\ AllOf(owed', t)
  BY DEF Alone, AllOf
<1>1. t \in Senders' /\ t \notin crossed'
  BY DEF Undisturbed, Senders
<1>2. Undisturbed(t)
  BY <1>1 DEF Quiet, Undisturbed, Senders
<1>3. QED BY <1>2, NoneIsAll DEF Quiet, Alone

LEMMA AloneStep ==
  ASSUME TypeOK, Alone, [Next]_vars
  PROVE  Alone'
<1>1. CASE Quiet
  BY <1>1, AloneQuiet
<1>2. ASSUME NEW u \in Tasks, BeginSend(u) PROVE Alone'
  <2> SUFFICES ASSUME NEW t \in Tasks, Undisturbed(t)'
               PROVE  (Senders \subseteq {t})' /\ AllOf(queue', t) /\ AllOf(owed', t)
    BY DEF Alone, AllOf
  <2>1. pc' = [pc EXCEPT ![u] = "writing"] /\ queue' = <<>> /\ owed' = owed
    BY <1>2 DEF BeginSend, CallClient, Goto, Emptied, link
  <2>2. pc[u] \notin Sending
    BY <1>2 DEF BeginSend, Sending
  <2>3. CASE Senders = {} /\ owed = <<>>
    <3>1. Senders' \subseteq {u}
      BY <2>1, <2>3 DEF Senders, TypeOK
    <3>2. t = u
      BY <3>1 DEF Undisturbed, Senders
    <3>3. QED BY <3>1, <3>2, <2>1, <2>3, NoneIsAll
  <2>4. CASE ~(Senders = {} /\ owed = <<>>)
    <3>1. crossed' = crossed \cup Senders \cup {u}
      BY <1>2, <2>4 DEF BeginSend
    <3>2. t # u /\ t \notin Senders
      BY <3>1 DEF Undisturbed
    <3>3. pc'[t] = pc[t]
      BY <2>1, <3>2 DEF TypeOK
    <3>4. QED BY <3>2, <3>3 DEF Undisturbed, Senders
  <2>5. QED BY <2>3, <2>4
<1>3. ASSUME NEW u \in Tasks, Written(u) PROVE Alone'
  <2> SUFFICES ASSUME NEW t \in Tasks, Undisturbed(t)'
               PROVE  (Senders \subseteq {t})' /\ AllOf(queue', t) /\ AllOf(owed', t)
    BY DEF Alone, AllOf
  <2>1. Senders' \subseteq Senders
    BY <1>3, GotoSenders, LeaveSenders DEF Written, CallClient, Sending
  <2>2. Undisturbed(t)
    BY <1>3, <2>1 DEF Written, Undisturbed, Senders
  <2>3. Senders \subseteq {t} /\ AllOf(queue, t) /\ AllOf(owed, t)
    BY <2>2 DEF Alone
  <2>4. u = t
    BY <1>3, <2>3 DEF Written, Senders, Sending
  <2>5. AllOf(owed', t)
    BY <1>3, <2>3, <2>4, AppendOf DEF Written, TypeOK
  <2>6. QED BY <1>3, <2>1, <2>3, <2>5 DEF Written, fields
<1>4. ASSUME NEW u \in Tasks, Received(u) PROVE Alone'
  <2> SUFFICES ASSUME NEW t \in Tasks, Undisturbed(t)'
               PROVE  (Senders \subseteq {t})' /\ AllOf(queue', t) /\ AllOf(owed', t)
    BY DEF Alone, AllOf
  <2>1. Senders' \subseteq Senders
    BY <1>4, LeaveSenders DEF Received
  <2>2. Undisturbed(t)
    BY <1>4, <2>1 DEF Received, Undisturbed, Senders
  <2>3. Senders \subseteq {t} /\ AllOf(queue, t) /\ AllOf(owed, t)
    BY <2>2 DEF Alone
  <2>4. AllOf(queue', t)
    BY <1>4, <2>3, TailOf DEF Received, TypeOK
  <2>5. QED BY <1>4, <2>1, <2>3, <2>4 DEF Received, link
<1>5. ASSUME NEW u \in Tasks, TimedOut(u) PROVE Alone'
  <2>1. Senders' \subseteq Senders
    BY <1>5, LeaveSenders DEF TimedOut
  <2> SUFFICES ASSUME NEW t \in Tasks, Undisturbed(t)'
               PROVE  (Senders \subseteq {t})' /\ AllOf(queue', t) /\ AllOf(owed', t)
    BY DEF Alone, AllOf
  <2>2. Undisturbed(t)
    BY <1>5, <2>1 DEF TimedOut, Undisturbed, Senders
  <2>3. QED BY <1>5, <2>1, <2>2 DEF TimedOut, Alone, link
<1>6. CASE Notify
  <2> SUFFICES ASSUME NEW t \in Tasks, Undisturbed(t)'
               PROVE  (Senders \subseteq {t})' /\ AllOf(queue', t) /\ AllOf(owed', t)
    BY DEF Alone, AllOf
  <2>1. Undisturbed(t) /\ Senders' = Senders
    BY <1>6 DEF Notify, Undisturbed, Senders
  <2>2. Senders \subseteq {t} /\ AllOf(queue, t) /\ AllOf(owed, t)
    BY <2>1 DEF Alone
  <2>3. Head(owed) = t /\ AllOf(Tail(owed), t)
    BY <1>6, <2>2, TailOf DEF Notify, TypeOK
  <2>4. AllOf(queue', t)
    BY <1>6, <2>2, <2>3, PutOf DEF Notify, TypeOK
  <2>5. QED BY <1>6, <2>1, <2>2, <2>3, <2>4 DEF Notify
<1>7. QED
  BY <1>1, <1>2, <1>3, <1>4, <1>5, <1>6, QuietSteps DEF Loud

(* A send that met no other send, and no answer still under way when it     *)
(* began, gets the answer to its own command, for any number of tasks, any  *)
(* size of the queue and any delay.                                         *)
THEOREM OwnAnswerOnly == Spec => []OwnAnswer
<1>1. Init => Alone
  BY DEF Init, Alone, Undisturbed, Sending
<1>2. TypeOK /\ Alone /\ [Next]_vars => Alone'
  BY AloneStep
<1>3. TypeOK /\ Alone => OwnAnswer
  <2> SUFFICES ASSUME TypeOK, Alone, NEW t \in Tasks,
                      pc[t] = "awaiting", t \notin crossed, queue # <<>>
               PROVE  Head(queue) = t
    BY DEF OwnAnswer
  <2>1. AllOf(queue, t)
    BY DEF Alone, Undisturbed, Sending
  <2>2. QED BY <2>1, TailOf DEF TypeOK
<1>4. QED BY <1>1, <1>2, <1>3, TypeCorrect, PTL DEF Spec

-----------------------------------------------------------------------------
(* The breaker's overshoot. *)

LEMMA SendersFinite ==
  /\ IsFiniteSet(Senders) /\ Cardinality(Senders) \in Nat
  /\ Cardinality(Tasks) \in Nat
  /\ Cardinality(Senders) <= Cardinality(Tasks)
<1>1. Senders \subseteq Tasks
  BY DEF Senders
<1>2. QED BY <1>1, TaskAssumption, FS_Subset, FS_CardinalityType

LEMMA SendersFiniteNext ==
  Cardinality(Senders') \in Nat /\ Cardinality(Senders') <= Cardinality(Tasks)
<1>1. Senders' \subseteq Tasks
  BY DEF Senders
<1>2. IsFiniteSet(Senders') /\ Cardinality(Senders') <= Cardinality(Tasks)
  BY <1>1, TaskAssumption, FS_Subset
<1>3. QED BY <1>2, FS_CardinalityType

LEMMA FewerSenders ==
  ASSUME Senders' \subseteq Senders
  PROVE  Cardinality(Senders') <= Cardinality(Senders)
BY SendersFinite, FS_Subset

LEMMA BreakerStep ==
  ASSUME TypeOK, BreakerBounds, [Next]_vars
  PROVE  BreakerBounds'
<1> USE SendersFinite, SendersFiniteNext, LimitAssumption
<1>1. ASSUME Senders' \subseteq Senders, timeouts' \in {0, timeouts} PROVE BreakerBounds'
  <2>1. Cardinality(Senders') <= Cardinality(Senders)
    BY <1>1, FewerSenders
  <2>2. timeouts \in Nat
    BY DEF TypeOK
  <2>3. QED BY <1>1, <2>1, <2>2 DEF BreakerBounds
<1>2. ASSUME NEW t \in Tasks, BeginSend(t) PROVE BreakerBounds'
  <2>1. timeouts' = timeouts /\ timeouts \in Nat /\ timeouts < MaxTimeouts
    BY <1>2 DEF BeginSend, BreakerOpen, TypeOK
  <2>2. QED BY <2>1 DEF BreakerBounds
<1>3. ASSUME NEW t \in Tasks, Written(t) PROVE BreakerBounds'
  <2>1. Senders' \subseteq Senders
    BY <1>3, GotoSenders, LeaveSenders DEF Written, CallClient, Sending
  <2>2. QED BY <1>1, <1>3, <2>1 DEF Written, fields
<1>4. ASSUME NEW t \in Tasks, Received(t) PROVE BreakerBounds'
  BY <1>1, <1>4, LeaveSenders DEF Received
<1>5. ASSUME NEW t \in Tasks, TimedOut(t) PROVE BreakerBounds'
  <2>1. Senders' \subseteq Senders \ {t} /\ t \in Senders
    BY <1>5, LeaveSenders DEF TimedOut, Senders
  <2>2. IsFiniteSet(Senders \ {t}) /\ Cardinality(Senders \ {t}) = Cardinality(Senders) - 1
    BY <2>1, FS_RemoveElement
  <2>3. Cardinality(Senders') <= Cardinality(Senders) - 1
    BY <2>1, <2>2, FS_Subset
  <2>4. timeouts' = timeouts + 1 /\ timeouts \in Nat
    BY <1>5 DEF TimedOut, Counted, TypeOK
  <2>5. QED BY <2>3, <2>4 DEF BreakerBounds
<1>6. CASE Notify
  <2>1. Senders' \subseteq Senders
    BY <1>6 DEF Notify, Senders
  <2>2. QED BY <1>1, <1>6, <2>1 DEF Notify
<1>7. CASE Quiet
  BY <1>1, <1>7 DEF Quiet
<1>8. QED
  BY <1>2, <1>3, <1>4, <1>5, <1>6, <1>7, QuietSteps DEF Loud

(* The consecutive timeouts pass the breaker's limit by no more than the    *)
(* sends that were under way together, for any number of tasks.             *)
THEOREM BreakerIsBounded == Spec => []BreakerBounds
<1>1. Init => BreakerBounds
  <2> SUFFICES ASSUME Init PROVE BreakerBounds
    OBVIOUS
  <2>1. Senders = {} /\ timeouts = 0
    BY DEF Init, Senders, Sending
  <2>2. Cardinality(Senders) = 0
    BY <2>1, FS_EmptySet
  <2>3. QED BY <2>1, <2>2, SendersFinite, LimitAssumption DEF BreakerBounds
<1>2. TypeOK /\ BreakerBounds /\ [Next]_vars => BreakerBounds'
  BY BreakerStep
<1>3. QED BY <1>1, <1>2, TypeCorrect, PTL DEF Spec
=============================================================================
