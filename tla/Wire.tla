-------------------------------- MODULE Wire --------------------------------
(***************************************************************************)
(* The link to the inverter with those who use it: refreshes, reads of one *)
(* register and writes over one TCP transport, which SerialConnectionManager *)
(* connects and async_shutdown() disconnects; or, over BLE, notifications  *)
(* that go to decode_response() as they are.                               *)
(***************************************************************************)
EXTENDS TcpRtuTransport

LOCAL INSTANCE Functions

CONSTANTS
  Refreshes, Reads,  \* tasks that call ensure_connected() first
  Asks,              \* Asks[t]: the kinds of command the task sends
  Payloads           \* bound: the notifications

ASSUME WireAssumption ==
  /\ Refreshes \cup Reads = Tasks \ Writers
  /\ Asks \in [Tasks -> SUBSET Commands]
  /\ \A p \in Payloads : p.kind \in Commands /\ p.bytes \in Seq(Bytes)

VARIABLES
  link,     \* which transport the entry has: tcp or ble
  mgr,      \* the manager's state machine
  stopped,  \* async_shutdown() has begun
  closing,  \* it is in disconnect()
  old,      \* history: the connections made before it began
  last      \* history: what the last notification was decoded to

rest == <<link, mgr, stopped, closing, old, last>>
vars == <<tcpVars, rest>>

SM == INSTANCE ConnectionStateMachine WITH state <- mgr

TypeOK ==
  /\ TcpTypeOK
  /\ link \in {"tcp", "ble"} /\ mgr \in SM!States
  /\ last \in [kind: Commands, bytes: Seq(Bytes), result: Verdicts] \cup {None}
  /\ stopped \in BOOLEAN /\ closing \in BOOLEAN /\ old \subseteq Conns

Init ==
  /\ TcpInit
  /\ link \in {"tcp", "ble"} /\ mgr = "DISCONNECTED"
  /\ stopped = FALSE /\ closing = FALSE /\ old = {} /\ last = None

-----------------------------------------------------------------------------
(* The callers *)

MutantTrusted == mgr

\* The manager's own look at the transport.
Reconciled ==
  IF mgr = "CONNECTED" /\ ~IsConnected THEN SM!After(mgr, "CONNECTION_LOST") ELSE mgr

ConnectEvent(s) == IF s = "RECONNECTING" THEN "RETRY" ELSE "CONNECT"

\* ensure_connected(), for a task that is not sending.  async_shutdown() leaves
\* no mark: a number that slept between two read-backs connects again after it.
EnsureConnected(t) ==
  /\ link = "tcp" /\ t \in Tasks \ Writers /\ pc[t] = "idle"
  /\ \/ /\ Reconciled = "CONNECTED"
        /\ pc' = [pc EXCEPT ![t] = "ready"]
        /\ mgr' = Reconciled
        /\ UNCHANGED <<fields, queue, on, cmd, sent, conn, history, budget>>
     \/ /\ SM!CanConnect(Reconciled)
        /\ StartConnect(t)
        /\ mgr' = SM!After(Reconciled, ConnectEvent(Reconciled))
     \/ /\ SM!CanConnect(Reconciled) /\ Reconciled # "DISCONNECTED"
        /\ pc' = [pc EXCEPT ![t] = "backoff"]
        /\ mgr' = Reconciled
        /\ UNCHANGED <<fields, queue, on, cmd, sent, conn, history, budget>>
  /\ UNCHANGED <<link, stopped, closing, old, last>>

\* The machine is not asked again whether it can connect.
BackoffOver(t) ==
  /\ pc[t] = "backoff"
  /\ StartConnect(t)
  /\ mgr' = SM!After(mgr, ConnectEvent(mgr))
  /\ UNCHANGED <<link, stopped, closing, old, last>>

ConnectReturns(t) ==
  /\ \/ Drained(t) /\ mgr' = SM!After(mgr, "CONNECT_SUCCESS")
     \/ (OpenFails(t) \/ Reset(t)) /\ mgr' = SM!After(mgr, "CONNECT_FAILED")
  /\ UNCHANGED <<link, stopped, closing, old, last>>

\* A refresh looks at is_connected before every batch, a read and a write do not.
MaySend(t) ==
  \/ t \in Refreshes /\ pc[t] = "ready" /\ IsConnected
  \/ t \in Reads /\ pc[t] = "ready"
  \/ t \in Writers /\ pc[t] = "idle"

SendCommand(t, kind) == MaySend(t) /\ Send(t, kind)

\* No batch is left, or the transport is not connected.
Finish(t) ==
  /\ pc[t] = "ready"
  /\ pc' = [pc EXCEPT ![t] = "idle"]
  /\ UNCHANGED <<fields, queue, on, cmd, sent, conn, history, budget>>

MutantAsksManager == mgr = "CONNECTED"

ToDisconnect == IsConnected

\* async_shutdown(): what runs is not cancelled.
Shutdown ==
  /\ link = "tcp" /\ ~stopped /\ stopped' = TRUE
  /\ old' = {c \in Conns : conn[c].status # "unused"}
  /\ closing' = ToDisconnect
  /\ IF ToDisconnect THEN StartDisconnect ELSE UNCHANGED tcpVars
  /\ UNCHANGED <<link, mgr, last>>

ShutdownEnds ==
  /\ closing /\ Prompt /\ closing' = FALSE
  /\ Disconnected
  /\ UNCHANGED <<link, mgr, stopped, old, last>>

\* BLETransport.send() returns the notification as it came, unless it begins
\* with dashes.  Decoding keeps no state, so one is enough.
Notified(p) ==
  /\ link = "ble" /\ last = None
  /\ p.bytes # <<>> => p.bytes[1] # Dash
  /\ last' = [kind |-> p.kind, bytes |-> p.bytes, result |-> DecodeResponse(p.bytes, p.kind)]
  /\ UNCHANGED <<tcpVars, link, mgr, stopped, closing, old>>

-----------------------------------------------------------------------------
Steady == UNCHANGED rest

\* A task is at one await at a time, and this is how it goes on from there.
Resume(t) ==
  \/ BackoffOver(t) \/ ConnectReturns(t)
  \/ (Opened(t) \/ Locked(t) \/ TimeOut(t) \/ EndOfStream(t) \/ Finish(t)) /\ Steady

Network(c) ==
  \/ Answers(c) \/ Refuses(c) \/ Ignores(c)
  \/ \E n \in Bursts : Disturbed(c, n)
  \/ \E n \in 1..Len(conn[c].coming) : Deliver(c, n)
  \/ FinArrives(c) \/ ResetArrives(c)

Next ==
  \/ \E t \in Tasks : \/ EnsureConnected(t) \/ Resume(t)
                      \/ \E kind \in Asks[t] : SendCommand(t, kind) /\ Steady
  \/ \E c \in Conns : Network(c) /\ Steady
  \/ Shutdown \/ ShutdownEnds
  \/ \E p \in Payloads : Notified(p)

\* asyncio runs what is ready, timeouts end, a refresh comes back every
\* interval until the shutdown and an attempt to connect ends.  What the gateway sends, and what
\* a user does, need never happen.
Fairness ==
  /\ \A t \in Tasks : WF_vars(Resume(t))
  /\ \A t \in Refreshes : WF_vars(~stopped /\ EnsureConnected(t))

Spec == Init /\ [][Next]_vars /\ Fairness

-----------------------------------------------------------------------------
(* Properties *)

\* tcp_rtu_transport.py: the answers on a connection are given out in the order
\* of the commands, each at most once and none of another connection; and as
\* long as no command on it has failed, each command is given its own.  (After
\* one whose answer comes late, every command is given the previous answer.)
OwnAnswer ==
  \A k \in Numbers : answer[k] # None =>
     /\ answer[k] <= k /\ sentOn[answer[k]] = sentOn[k]
     /\ \A j \in Numbers : j < k /\ answer[j] # None => answer[j] < answer[k]
     /\ answer[k] = k \/ \E j \in givenUp : j < k /\ sentOn[j] = sentOn[k]

\* modbus_rtu_protocol.py: what a command is told is what some whole frame of
\* the bytes says, an exception never as values; and if one that fits the
\* command is within reach, it is one that fits.
OutcomeTrue ==
  last # None =>
    LET r == last.result
        InReach == {i \in 1..Len(last.bytes) : i <= SyncWindow /\ FrameAt(last.bytes, i)
                                               /\ Fits(last.bytes[i].frame, last.kind)}
    IN /\ r.verdict \in {"values", "refused"} =>
            /\ \E i \in 1..Len(last.bytes) : FrameAt(last.bytes, i) /\ last.bytes[i].frame = r.frame
            /\ (r.verdict = "refused") = r.frame.refused
       /\ InReach # {} /\ Dash \notin Range(last.bytes) =>
            r.frame # None /\ Fits(r.frame, last.kind)

\* tcp_rtu_transport.py: every command that has been accepted ends, with an
\* answer or an exception, and lets the next one have the lock.
SendEnds ==
  \A t \in Tasks : pc[t] \in {"queued", "reading"} ~> pc[t] \notin {"queued", "reading"}

\* connection_manager.py, 54-60: a transport that is down does not stay down
\* because the state machine still says CONNECTED.
Recovers ==
  link = "tcp" /\ ~IsConnected ~>
     IsConnected \/ stopped \/ \A c \in Conns : conn[c].status # "unused"

\* coordinator.py: async_shutdown() closes what was open: once it is over no
\* connection made before it is, whatever still runs and connects again, except
\* one whose place a connect() that is still under way is going to take.
ClosedByShutdown ==
  stopped /\ ~closing =>
    \A c \in old : Open(c) => c = stream /\ ~connected /\ \E t \in Tasks : pc[t] = "opening"
=============================================================================
