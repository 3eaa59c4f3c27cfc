---------------------------- MODULE BLETransport ----------------------------
(***************************************************************************)
(* infrastructure/transport/ble_transport.py: connect(), disconnect() and  *)
(* send() of the one BLETransport the coordinator, its entities and the    *)
(* connection manager share, cut at their awaits.  No lock serialises      *)
(* them: a task between two awaits of one method may find the fields       *)
(* changed by another task's method.  pc[t] names the await task t is at:  *)
(*                                                                         *)
(*   connect()     closing, scanning, establishing, subscribing, pausing,  *)
(*                 resubscribing, abandoning                               *)
(*   disconnect()  stopping (stop_notify), hanging (client.disconnect)     *)
(*   send()        writing, reading, awaiting (the notification queue)     *)
(*                                                                         *)
(* Bleak, the adapter and the inverter are external.  A BleakClient is a   *)
(* handle; the inverter accepts one link at a time, and live is the handle *)
(* whose link that is.  A call on any other handle fails.  The inverter    *)
(* answers commands in the order it got them, late or never.               *)
(***************************************************************************)
EXTENDS Naturals, Sequences, FiniteSets

CONSTANTS
  Tasks,        \* coroutines that use the transport
  Handles,      \* BleakClient objects; more than can be referred to at once
  NoClient,     \* None
  MaxTimeouts,  \* MAX_CONSECUTIVE_TIMEOUTS
  QueueSize,    \* maxsize of the notification queue
  MaxOwed       \* bound: answers the inverter has yet to send

ASSUME HandleAssumption == NoClient \notin Handles

ASSUME TaskAssumption == IsFiniteSet(Tasks)

ASSUME LimitAssumption ==
  /\ MaxTimeouts \in Nat \ {0}
  /\ QueueSize \in Nat \ {0}
  /\ MaxOwed \in Nat

VARIABLES
  client,     \* _client
  connected,  \* _connected
  timeouts,   \* _consecutive_timeouts
  queue,      \* _notification_queue: for each answer, the task that asked
  pc,         \* the await each task is at
  held,       \* the handle the awaited call is on
  live,       \* the handle whose link is up: handle.is_connected
  notifying,  \* the live link delivers notifications
  owed,       \* answers the inverter has yet to send: the tasks that asked
  crossed     \* history: tasks whose last send overlapped another, or an old answer

fields == <<client, connected, timeouts, queue>>
link == <<live, notifying, owed>>
vars == <<fields, pc, held, link, crossed>>

Connecting == {"establishing", "subscribing", "pausing", "resubscribing", "abandoning"}
Subscribing == {"subscribing", "pausing", "resubscribing"}
Disconnecting == {"stopping", "hanging"}
Sending == {"writing", "reading", "awaiting"}

Senders == {t \in Tasks : pc[t] \in Sending}

TypeOK ==
  /\ client \in Handles \cup {NoClient}
  /\ connected \in BOOLEAN
  /\ timeouts \in Nat
  /\ queue \in Seq(Tasks) /\ Len(queue) <= QueueSize
  /\ pc \in [Tasks -> {"idle", "closing", "scanning"} \cup Connecting
                      \cup Disconnecting \cup Sending]
  /\ held \in [Tasks -> Handles \cup {NoClient}]
  /\ live \in Handles \cup {NoClient}
  /\ notifying \in BOOLEAN
  /\ owed \in Seq(Tasks) /\ Len(owed) <= MaxOwed
  /\ crossed \subseteq Tasks

Init ==
  /\ client = NoClient
  /\ connected = FALSE
  /\ timeouts = 0
  /\ queue = <<>>
  /\ pc = [t \in Tasks |-> "idle"]
  /\ held = [t \in Tasks |-> NoClient]
  /\ live = NoClient
  /\ notifying = FALSE
  /\ owed = <<>>
  /\ crossed = {}

-----------------------------------------------------------------------------
(* The synchronous pieces.  A definition whose name starts with Mutant is   *)
(* what a plausible bug would make of the one that follows it; no           *)
(* specification uses it.                                                   *)

IsConnected == connected /\ client # NoClient /\ live = client

MutantOneLate == timeouts > MaxTimeouts

\* The circuit breaker of send().
BreakerOpen == timeouts >= MaxTimeouts

MutantUncounted(n) == n

Counted(n) == n + 1

MutantKept(q) == q

\* _clear_notification_queue()
Emptied(q) == <<>>

MutantUnbounded(q, a) == Append(q, a)

\* _notification_handler(): a full queue is emptied and keeps the newest.
Put(q, a) == IF Len(q) < QueueSize THEN Append(q, a) ELSE <<a>>

LinkDown == live' = NoClient /\ notifying' = FALSE /\ owed' = <<>>

\* Bleak closes the link of handle h, if it has one.
Close(h) == IF live = h THEN LinkDown ELSE UNCHANGED link

MutantLeaveStale == UNCHANGED link

\* close_stale_connections_by_address()
CloseStale == LinkDown

Goto(t, p) == pc' = [pc EXCEPT ![t] = p]

\* The awaited call is on what self._client is now.
CallClient(t, p) ==
  /\ Goto(t, p)
  /\ held' = [held EXCEPT ![t] = client]

Leave(t) ==
  /\ Goto(t, "idle")
  /\ held' = [held EXCEPT ![t] = NoClient]

\* The finally clause of disconnect(), and its return.
Forget(t) ==
  /\ client' = NoClient
  /\ connected' = FALSE
  /\ timeouts' = 0
  /\ queue' = Emptied(queue)
  /\ Leave(t)

\* disconnect() up to its first await.
BeginDisconnect(t) ==
  \/ /\ client = NoClient
     /\ Leave(t)
     /\ UNCHANGED fields
  \/ /\ client # NoClient /\ live = client
     /\ CallClient(t, "stopping")
     /\ UNCHANGED fields
  \/ /\ client # NoClient /\ live # client
     /\ Forget(t)

InUse == {client, live} \cup {held[t] : t \in Tasks}

\* The BleakClient a connection makes: one that nothing refers to yet.
NewClients ==
  IF Handles \subseteq InUse THEN {} ELSE {CHOOSE h \in Handles : h \notin InUse}

-----------------------------------------------------------------------------
(* connect() *)

\* Nothing here or in connection_manager.py asks is_connected before: a manager
\* that a success left in FAILED calls connect() on a transport that is open.
StartConnect(t) ==
  /\ pc[t] = "idle"
  /\ Goto(t, "closing")
  /\ UNCHANGED <<fields, held, link, crossed>>

\* Stale links are closed; then no scanner, or no device yet, or a device.
StaleClosed(t) ==
  /\ pc[t] = "closing"
  /\ CloseStale
  /\ \E p \in {"idle", "scanning", "establishing"} : Goto(t, p)
  /\ UNCHANGED <<fields, held, crossed>>

Discovered(t) ==
  /\ pc[t] = "scanning"
  /\ Goto(t, "establishing")
  /\ UNCHANGED <<fields, held, link, crossed>>

NotDiscovered(t) ==
  /\ pc[t] = "scanning"
  /\ Goto(t, "idle")
  /\ UNCHANGED <<fields, held, link, crossed>>

\* establish_connection() returns a client: start_notify() is called on it.
Established(t) ==
  /\ pc[t] = "establishing"
  /\ live = NoClient
  /\ \E h \in NewClients :
       /\ client' = h
       /\ held' = [held EXCEPT ![t] = h]
       /\ live' = h
  /\ notifying' = FALSE
  /\ owed' = <<>>
  /\ Goto(t, "subscribing")
  /\ UNCHANGED <<connected, timeouts, queue, crossed>>

\* It returns one whose link is gone again: connect() keeps it, returns False.
EstablishedDead(t) ==
  /\ pc[t] = "establishing"
  /\ client' \in NewClients
  /\ Leave(t)
  /\ UNCHANGED <<connected, timeouts, queue, link, crossed>>

\* It raises: the client of before, if there is one, is disconnected.
EstablishFails(t) ==
  /\ pc[t] = "establishing"
  /\ IF client = NoClient THEN Leave(t) ELSE CallClient(t, "abandoning")
  /\ UNCHANGED <<fields, link, crossed>>

Abandoned(t) ==
  /\ pc[t] = "abandoning"
  /\ Close(held[t]) \/ UNCHANGED link
  /\ client' = NoClient
  /\ Leave(t)
  /\ UNCHANGED <<connected, timeouts, queue, crossed>>

\* start_notify() returns: connect() returns True.
Subscribed(t) ==
  /\ pc[t] \in {"subscribing", "resubscribing"}
  /\ live = held[t]
  /\ notifying' = TRUE
  /\ connected' = TRUE
  /\ timeouts' = 0
  /\ Leave(t)
  /\ UNCHANGED <<client, queue, live, owed, crossed>>

\* A start_notify() that failed or timed out may have taken effect.
MayNotify(t) ==
  /\ UNCHANGED notifying \/ (live = held[t] /\ notifying' = TRUE)
  /\ UNCHANGED <<live, owed>>

SubscribeFails(t) ==
  /\ pc[t] = "subscribing"
  /\ MayNotify(t)
  /\ Goto(t, "pausing")
  /\ UNCHANGED <<fields, held, crossed>>

\* With self._client gone, the AttributeError leaves connect().
Resubscribe(t) ==
  /\ pc[t] = "pausing"
  /\ IF client = NoClient THEN Leave(t) ELSE CallClient(t, "resubscribing")
  /\ UNCHANGED <<fields, link, crossed>>

MutantReturnOnly(t) == Leave(t) /\ UNCHANGED fields

\* What connect() does when the second start_notify() fails.
GiveUp(t) == BeginDisconnect(t)

ResubscribeFails(t) ==
  /\ pc[t] = "resubscribing"
  /\ MayNotify(t)
  /\ GiveUp(t)
  /\ UNCHANGED crossed

Connect(t) ==
  \/ StaleClosed(t) \/ Discovered(t) \/ NotDiscovered(t)
  \/ Established(t) \/ EstablishedDead(t) \/ EstablishFails(t) \/ Abandoned(t)
  \/ Subscribed(t) \/ SubscribeFails(t) \/ Resubscribe(t) \/ ResubscribeFails(t)

-----------------------------------------------------------------------------
(* disconnect() *)

Disconnect(t) ==
  /\ pc[t] = "idle"
  /\ client # NoClient
  /\ BeginDisconnect(t)
  /\ UNCHANGED <<link, crossed>>

\* stop_notify() returns, fails or times out; self._client is read again.
Stopped(t) ==
  /\ pc[t] = "stopping"
  /\ UNCHANGED notifying \/ (live = held[t] /\ notifying' = FALSE)
  /\ IF client = NoClient
     THEN Forget(t)                 \* AttributeError, caught
     ELSE CallClient(t, "hanging") /\ UNCHANGED fields
  /\ UNCHANGED <<live, owed, crossed>>

\* client.disconnect() returns, or fails or times out with the link still up.
HungUp(t) ==
  /\ pc[t] = "hanging"
  /\ Close(held[t]) \/ UNCHANGED link
  /\ Forget(t)
  /\ UNCHANGED crossed

-----------------------------------------------------------------------------
(* send() *)

BeginSend(t) ==
  /\ pc[t] = "idle"
  /\ IsConnected
  /\ ~BreakerOpen
  /\ queue' = Emptied(queue)
  /\ CallClient(t, "writing")
  /\ crossed' = IF Senders = {} /\ owed = <<>> THEN crossed \ {t}
                ELSE crossed \cup Senders \cup {t}
  /\ UNCHANGED <<client, connected, timeouts, link>>

\* The breaker is open: disconnect, then RuntimeError.
BreakerTrips(t) ==
  /\ pc[t] = "idle"
  /\ IsConnected
  /\ BreakerOpen
  /\ BeginDisconnect(t)
  /\ UNCHANGED <<link, crossed>>

\* The write is acknowledged; the inverter will answer, or never.  With
\* self._client gone, read_gatt_char() is an AttributeError and send() raises.
Written(t) ==
  /\ pc[t] = "writing"
  /\ live = held[t]
  /\ \/ owed' = owed
     \/ Len(owed) < MaxOwed /\ owed' = Append(owed, t)
  /\ IF client = NoClient THEN Leave(t) ELSE CallClient(t, "reading")
  /\ UNCHANGED <<fields, live, notifying, crossed>>

ReadDone(t) ==
  /\ pc[t] = "reading"
  /\ live = held[t]
  /\ Goto(t, "awaiting")
  /\ UNCHANGED <<fields, held, link, crossed>>

\* BleakError: disconnect, then RuntimeError.
GattFails(t) ==
  /\ pc[t] \in {"writing", "reading"}
  /\ BeginDisconnect(t)
  /\ UNCHANGED <<link, crossed>>

\* queue.get() returns: an answer resets the breaker, a row of dashes does not.
Received(t) ==
  /\ pc[t] = "awaiting"
  /\ queue # <<>>
  /\ queue' = Tail(queue)
  /\ timeouts' \in {0, timeouts}
  /\ Leave(t)
  /\ UNCHANGED <<client, connected, link, crossed>>

\* TimeoutError, from the queue or from Bleak.
TimedOut(t) ==
  /\ pc[t] \in Sending
  /\ timeouts' = Counted(timeouts)
  /\ Leave(t)
  /\ UNCHANGED <<client, connected, queue, link, crossed>>

Send(t) ==
  Written(t) \/ ReadDone(t) \/ GattFails(t) \/ Received(t) \/ TimedOut(t)

-----------------------------------------------------------------------------
(* The inverter and the radio. *)

Notify ==
  /\ owed # <<>>
  /\ owed' = Tail(owed)
  /\ queue' = IF notifying THEN Put(queue, Head(owed)) ELSE queue
  /\ UNCHANGED <<client, connected, timeouts, pc, held, live, notifying, crossed>>

LinkDrops ==
  /\ live # NoClient
  /\ LinkDown
  /\ UNCHANGED <<fields, pc, held, crossed>>

-----------------------------------------------------------------------------

Continue(t) == Connect(t) \/ Stopped(t) \/ HungUp(t) \/ Send(t)

Call(t) == StartConnect(t) \/ Disconnect(t) \/ BeginSend(t) \/ BreakerTrips(t)

Next == (\E t \in Tasks : Call(t) \/ Continue(t)) \/ Notify \/ LinkDrops

Spec == Init /\ [][Next]_vars

(* An await ends: Bleak's calls and the queue have timeouts.  The scheduled *)
(* refresh calls again and again: connect() when the transport is down, and *)
(* send() when it is open.  What only the radio decides (a device is *)
(* discovered, a link or a subscription succeeds) happens if it is tried    *)
(* for ever.                                                                *)
Fairness ==
  /\ \A t \in Tasks :
       /\ WF_vars(Continue(t))
       /\ WF_vars(~IsConnected /\ StartConnect(t))
       /\ WF_vars(BeginSend(t) \/ BreakerTrips(t))
       /\ SF_vars(StaleClosed(t) /\ pc'[t] = "establishing")
  /\ SF_vars(\E t \in Tasks : Established(t))
  /\ SF_vars(\E t \in Tasks : Subscribed(t))

FairSpec == Spec /\ Fairness

-----------------------------------------------------------------------------
(* Properties *)

(* A send that met no other send, and no answer still under way when it     *)
(* began, gets the answer to its own command: clearing the queue first      *)
(* (ble_transport.py:396) is enough for it.                                 *)
OwnAnswer ==
  \A t \in Tasks :
    pc[t] = "awaiting" /\ t \notin crossed /\ queue # <<>> => Head(queue) = t

(* What connect(), disconnect() and failed calls leave behind is never a    *)
(* transport that says is_connected and is deaf: with nobody inside         *)
(* connect() or disconnect(), a client whose link is up has its             *)
(* notifications on.                                                        *)
NeverDeaf ==
  IsConnected /\ (\A t \in Tasks : pc[t] \notin Subscribing \cup Disconnecting)
    => notifying

(* The breaker is looked at before a send and counts after it: sends that   *)
(* are under way together overshoot it by one each and no more.             *)
BreakerBounds ==
  timeouts + Cardinality(Senders) < MaxTimeouts + Cardinality(Tasks)

(* A link on which the inverter never answers again is given up, however    *)
(* the tasks interleave (the purpose of the circuit breaker,                *)
(* ble_transport.py:379-393).                                               *)
ZombieDropped == []<><<Notify>>_vars \/ []<>~IsConnected

(* No sequence of failures, not even a disconnect that timed out and left   *)
(* the link with a client nobody refers to, keeps the transport from        *)
(* connecting again (closing stale links, ble_transport.py:145), unless     *)
(* somebody calls disconnect() for ever.                                    *)
Reachable == []<>IsConnected \/ []<><<\E t \in Tasks : Disconnect(t)>>_vars

(* "Called before sending new command to ensure we get the correct response *)
(* (not a stale one)", ble_transport.py:617-618, for every send.            *)
CorrectResponse ==
  \A t \in Tasks : pc[t] = "awaiting" /\ queue # <<>> => Head(queue) = t
=============================================================================
