------------------------------ MODULE WireProofs ------------------------------
(***************************************************************************)
(* Proofs about Wire, for any tasks, commands, connections and bytes: what *)
(* is open is what the transport knows of, and what was open when the      *)
(* shutdown began is closed when it is over.                               *)
(***************************************************************************)
EXTENDS Wire, TLAPS

Places == {"idle", "backoff", "opening", "ready", "queued"} \cup Waiting

\* A connection that has been made.
Made(s) == "status" \in DOMAIN s /\ s.status # "unused"

Statused(f) == DOMAIN f = Conns /\ \A c \in Conns : "status" \in DOMAIN f[c]

\* A connection that is open is the one in the fields; while connect() is in
\* progress they may say that there is none, but then a task is opening another.
\* After the shutdown an old one can be open only in that last case, since what
\* a task opens is a new one.
ClosedInv ==
  /\ stream \in Conns \cup {None} /\ pc \in [Tasks -> Places] /\ Statused(conn)
  /\ \A c \in Conns : Open(c) => c = stream /\ (connected \/ \E t \in Tasks : pc[t] = "opening")
  /\ old \subseteq Conns /\ \A c \in old : conn[c].status # "unused"
  /\ stopped /\ ~closing => \A c \in old : Open(c) => ~connected

\* A step that opens nothing, and takes nobody to or from connecting.
Quietly ==
  /\ UNCHANGED <<stopped, closing, old>>
  /\ pc' \in [Tasks -> Places] /\ Statused(conn')
  /\ \A t \in Tasks : pc'[t] = "opening" \/ pc[t] = "opening" => pc'[t] = pc[t]
  /\ \A c \in Conns : Open(c)' => Open(c)
  /\ \A c \in Conns : conn[c].status # "unused" => conn'[c].status # "unused"
  /\ \/ UNCHANGED <<stream, connected>>
     \/ stream' = None /\ \A c \in Conns : ~Open(c)'

LEMMA QuietlyKeeps ==
  ASSUME ClosedInv, Quietly
  PROVE  ClosedInv'
<1>1. CASE UNCHANGED <<stream, connected>>
  BY <1>1 DEF ClosedInv, Quietly
<1>2. CASE stream' = None /\ \A c \in Conns : ~Open(c)'
  BY <1>2 DEF ClosedInv, Quietly
<1> QED
  BY <1>1, <1>2 DEF Quietly

\* Closing what is in the fields leaves nothing open.
ClosesAll ==
  /\ Statused(conn') /\ \A c \in Conns : ~Open(c)'
  /\ \A c \in Conns : conn[c].status # "unused" => conn'[c].status # "unused"

LEMMA ClosedAll ==
  ASSUME ClosedInv, conn' = Closed(stream)
  PROVE  ClosesAll
BY DEF ClosedInv, ClosesAll, Closed, Open, Quiet, Statused

LEMMA Moves ==
  ASSUME ClosedInv, NEW t \in Tasks, NEW p \in Places, pc' = [pc EXCEPT ![t] = p],
         pc[t] # "opening", p # "opening"
  PROVE  /\ pc' \in [Tasks -> Places]
         /\ \A u \in Tasks : pc'[u] = "opening" \/ pc[u] = "opening"
                                => pc'[u] = pc[u]
BY DEF ClosedInv

\* The places send() goes to.
LEMMA SearchMoves ==
  ASSUME NEW t \in Tasks, NEW k, NEW c, NEW b, Search(t, k, c, b)
  PROVE  \E p \in {"idle", "ready", "reading"} : pc' = [pc EXCEPT ![t] = p]
BY DEF Search, Return, Fail, Leave, Wait

LEMMA SendMoves ==
  ASSUME ClosedInv, NEW t \in Tasks, NEW k, Transmit(t, k),
         pc[t] # "opening", UNCHANGED rest
  PROVE  Quietly
<1> USE DEF Places, Waiting
<1>1. \E p \in {"idle", "ready", "reading"} : pc' = [pc EXCEPT ![t] = p]
  BY SearchMoves DEF Transmit, NoWriter, Broken, Written, Fail, Leave
<1>2. /\ pc' \in [Tasks -> Places]
      /\ \A u \in Tasks : pc'[u] = "opening" \/ pc[u] = "opening"
                             => pc'[u] = pc[u]
  BY <1>1, Moves
<1>3. CASE NoWriter(t, k)
  BY <1>2, <1>3 DEF NoWriter, fields, rest, Quietly, Open, ClosedInv
<1>4. CASE Broken(t, k)
  <2>1. ClosesAll
    BY <1>4, ClosedAll DEF Broken, InvalidateSocket
  <2> QED
    BY <1>2, <1>4, <2>1 DEF Broken, InvalidateSocket, rest, Quietly, ClosesAll
<1>5. CASE Written(t, k)
  <2>1. /\ stream \in Conns /\ conn[stream].status \in {"up", "fin"}
        /\ "status" \in DOMAIN conn[stream]
    BY <1>5 DEF Written, ClosedInv, Statused
  <2>2. PICK x : conn' = [conn EXCEPT ![stream] = x] /\ Made(x)
    <3>1. \A left : Made(WrittenTo(conn[stream], k, left))
      BY <2>1 DEF Made, WrittenTo
    <3> QED
      BY <1>5, <3>1 DEF Written
  <2>3. /\ Statused(conn') /\ \A c \in Conns : c # stream => conn'[c] = conn[c]
        /\ \A c \in Conns : conn[c].status # "unused" => conn'[c].status # "unused"
    BY <2>1, <2>2 DEF ClosedInv, Statused, Made
  <2>4. \A c \in Conns : Open(c)' => Open(c)
    BY <2>1, <2>3 DEF Open
  <2> QED
    BY <1>2, <1>5, <2>3, <2>4 DEF Written, rest, Quietly
<1> QED
  BY <1>3, <1>4, <1>5 DEF Transmit

-----------------------------------------------------------------------------
(* Connecting *)

LEMMA StartConnectCloses ==
  ASSUME ClosedInv, NEW t \in Tasks, StartConnect(t), UNCHANGED <<stopped, closing, old>>
  PROVE  ClosedInv'
BY DEF ClosedInv, StartConnect, Open, Places

LEMMA OpenedCloses ==
  ASSUME ClosedInv, NEW t \in Tasks, Opened(t), UNCHANGED rest
  PROVE  ClosedInv'
<1>1. PICK c \in Conns :
        /\ conn[c].status = "unused" /\ stream' = c
        /\ conn' = [Closed(stream) EXCEPT ![c] = Quiet("up")]
  BY DEF Opened
<1>2. /\ Statused(conn') /\ \A d \in Conns : Open(d)' => d = c
      /\ \A d \in Conns : conn[d].status # "unused" => conn'[d].status # "unused"
  BY <1>1 DEF ClosedInv, Closed, Open, Quiet, Statused
<1>3. c \notin old
  BY <1>1 DEF ClosedInv
<1>4. pc' \in [Tasks -> Places]
  BY DEF Opened, ClosedInv, Places, Waiting
<1> QED
  BY <1>1, <1>2, <1>3, <1>4 DEF Opened, ClosedInv, rest

LEMMA FailedCloses ==
  ASSUME ClosedInv, NEW t \in Tasks, ConnectFailed(t), UNCHANGED <<stopped, closing, old>>
  PROVE  ClosedInv'
<1>1. ClosesAll
  BY ClosedAll DEF ConnectFailed
<1>2. pc' \in [Tasks -> Places] /\ \A u \in Tasks : pc'[u] \in {pc[u], "idle"}
  BY DEF ConnectFailed, ClosedInv, Places
<1> QED
  BY <1>1, <1>2 DEF ConnectFailed, ClosedInv, ClosesAll

LEMMA EnsureCloses ==
  ASSUME ClosedInv, NEW t \in Tasks, EnsureConnected(t)
  PROVE  ClosedInv'
<1>1. UNCHANGED <<stopped, closing, old>> /\ pc[t] = "idle"
  BY DEF EnsureConnected
<1>2. CASE StartConnect(t)
  BY <1>1, <1>2, StartConnectCloses
<1>3. CASE \E p \in {"ready", "backoff"} : pc' = [pc EXCEPT ![t] = p] /\ UNCHANGED <<fields, conn>>
  <2>1. pc' \in [Tasks -> Places] /\ \A u \in Tasks : pc[u] = "opening" => pc'[u] = "opening"
    BY <1>1, <1>3 DEF ClosedInv, Places
  <2> QED
    BY <1>1, <1>3, <2>1 DEF ClosedInv, fields, Open
<1> QED
  BY <1>2, <1>3 DEF EnsureConnected

\* A task goes on from one await to the next and touches nothing else.
LEMMA MoveCloses ==
  ASSUME ClosedInv, NEW t \in Tasks, NEW p \in {"idle", "ready", "queued"},
         pc' = [pc EXCEPT ![t] = p], pc[t] # "opening",
         UNCHANGED <<fields, conn, stopped, closing, old>>
  PROVE  ClosedInv'
<1>1. Quietly
  BY Moves DEF Quietly, ClosedInv, fields, Open, Places
<1> QED
  BY <1>1, QuietlyKeeps

LEMMA ReturnsCloses ==
  ASSUME ClosedInv, NEW t \in Tasks, ConnectReturns(t)
  PROVE  ClosedInv'
<1>1. CASE Drained(t)
  BY <1>1, MoveCloses DEF ConnectReturns, Drained
<1>2. CASE OpenFails(t) \/ Reset(t)
  BY <1>2, FailedCloses DEF ConnectReturns, OpenFails, Reset
<1> QED
  BY <1>1, <1>2 DEF ConnectReturns

-----------------------------------------------------------------------------
(* Sending, and the network *)

LEMMA EndCloses ==
  ASSUME ClosedInv, NEW t \in Tasks, TimeOut(t) \/ EndOfStream(t), UNCHANGED rest
  PROVE  ClosedInv'
<1>1. \E p \in {"idle", "ready"} : pc' = [pc EXCEPT ![t] = p]
  BY DEF TimeOut, EndOfStream, Fail, Leave
<1>2. pc[t] # "opening"
  BY DEF TimeOut, EndOfStream
<1>3. CASE UNCHANGED <<fields, conn>>
  BY <1>1, <1>2, <1>3, MoveCloses DEF rest
<1>4. CASE InvalidateSocket
  <2>1. ClosesAll
    BY <1>4, ClosedAll DEF InvalidateSocket
  <2>2. Quietly
    BY <1>1, <1>2, <1>4, <2>1, Moves DEF InvalidateSocket, Quietly, rest, Places, ClosesAll
  <2> QED
    BY <2>2, QuietlyKeeps
<1> QED
  BY <1>3, <1>4 DEF TimeOut, EndOfStream

LEMMA SendCloses ==
  ASSUME ClosedInv, NEW t \in Tasks, NEW kind, SendCommand(t, kind), UNCHANGED rest
  PROVE  ClosedInv'
<1>1. pc[t] \in {"ready", "idle"}
  BY DEF SendCommand, MaySend
<1>2. CASE Transmit(t, Len(sent) + 1)
  BY <1>1, <1>2, SendMoves, QuietlyKeeps
<1>3. CASE pc' = [pc EXCEPT ![t] = "queued"] /\ UNCHANGED <<fields, conn>>
  BY <1>1, <1>3, MoveCloses DEF rest
<1> QED
  BY <1>2, <1>3 DEF SendCommand, Send

LEMMA LockedCloses ==
  ASSUME ClosedInv, NEW t \in Tasks, Locked(t), UNCHANGED rest
  PROVE  ClosedInv'
BY SendMoves, QuietlyKeeps DEF Locked

LEMMA NetworkCloses ==
  ASSUME ClosedInv, NEW c \in Conns, Network(c), UNCHANGED rest
  PROVE  ClosedInv'
<1>1. conn[c].status = "up"
  BY DEF Network, Answers, Refuses, Ignores, Answered, Disturbed, Deliver, FinArrives, ResetArrives
<1>2. /\ DOMAIN conn' = Conns /\ \A d \in Conns : d # c => conn'[d] = conn[d]
      /\ Made(conn'[c])
  <2>0. DOMAIN conn = Conns /\ "status" \in DOMAIN conn[c]
    BY DEF ClosedInv, Statused
  <2>1. ASSUME NEW bytes, Answered(c, bytes)
        PROVE  /\ DOMAIN conn' = Conns /\ \A d \in Conns : d # c => conn'[d] = conn[d]
               /\ Made(conn'[c])
    BY <1>1, <2>0, <2>1 DEF Answered, Made
  <2>2. CASE \E n \in Bursts : Disturbed(c, n)
    BY <1>1, <2>0, <2>2 DEF Disturbed, Made
  <2>3. CASE \E n \in 1..Len(conn[c].coming) : Deliver(c, n)
    BY <1>1, <2>0, <2>3 DEF Deliver, Made
  <2>4. CASE FinArrives(c) \/ ResetArrives(c)
    BY <2>0, <2>4 DEF FinArrives, ResetArrives, Made, Quiet
  <2> QED
    BY <2>1, <2>2, <2>3, <2>4 DEF Network, Answers, Refuses, Ignores
<1>3. /\ Statused(conn') /\ \A d \in Conns : Open(d)' => Open(d)
      /\ \A d \in Conns : conn[d].status # "unused" => conn'[d].status # "unused"
  BY <1>1, <1>2 DEF ClosedInv, Open, Statused, Made
<1>4. UNCHANGED <<stream, connected>>
  BY DEF Network, Answers, Refuses, Ignores, Answered, Disturbed, Deliver, FinArrives,
     ResetArrives, fields
<1>5. \/ UNCHANGED pc
      \/ \E t \in Tasks : /\ pc[t] = "reading"
                          /\ \E p \in {"idle", "ready", "reading"} : pc' = [pc EXCEPT ![t] = p]
  <2>1. ASSUME NEW n, Deliver(c, n), pc' # pc
        PROVE  \E t \in Tasks : /\ pc[t] = "reading"
                               /\ \E p \in {"idle", "ready", "reading"} : pc' = [pc EXCEPT ![t] = p]
    <3>1. PICK t \in Reader(c) :
            /\ pc[t] = "reading"
            /\ Search(t, cmd[t], c, rxbuf \o SubSeq(conn[c].coming, 1, n))
      BY <2>1 DEF Deliver
    <3> QED
      BY <3>1, SearchMoves DEF Reader
  <2> QED
    BY <2>1 DEF Network, Answers, Refuses, Ignores, Answered, Disturbed, FinArrives,
       ResetArrives, caller
<1>6. Quietly
  BY <1>3, <1>4, <1>5, Moves DEF Quietly, rest, ClosedInv, Places, Waiting
<1> QED
  BY <1>6, QuietlyKeeps

-----------------------------------------------------------------------------
(* The shutdown *)

LEMMA ShutdownCloses ==
  ASSUME ClosedInv, Shutdown
  PROVE  ClosedInv'
<1>1. pc' = pc /\ UNCHANGED <<stream, connected>>
  BY DEF Shutdown, StartDisconnect, tcpVars, fields, caller
<1>2. old' = {c \in Conns : conn[c].status # "unused"}
  BY DEF Shutdown
<1>3. CASE IsConnected
  <2>1. ClosesAll
    BY <1>3, ClosedAll DEF Shutdown, ToDisconnect, StartDisconnect
  <2> QED
    BY <1>1, <1>2, <2>1 DEF ClosedInv, ClosesAll
<1>4. CASE ~IsConnected
  <2>1. conn' = conn
    BY <1>4 DEF Shutdown, ToDisconnect, tcpVars
  <2>2. \A c \in Conns : Open(c) => ~connected
    BY <1>4 DEF ClosedInv, IsConnected
  <2> QED
    BY <1>1, <1>2, <2>1, <2>2 DEF ClosedInv, Open
<1> QED
  BY <1>3, <1>4

LEMMA ShutdownEndsCloses ==
  ASSUME ClosedInv, ShutdownEnds
  PROVE  ClosedInv'
<1>1. ClosesAll
  BY ClosedAll DEF ShutdownEnds, Disconnected
<1> QED
  BY <1>1 DEF ShutdownEnds, Disconnected, caller, ClosedInv, ClosesAll

LEMMA ClosedNext == ClosedInv /\ [Next]_vars => ClosedInv'
<1> SUFFICES ASSUME ClosedInv, [Next]_vars PROVE ClosedInv'
  OBVIOUS
<1>1. ASSUME NEW t \in Tasks, Resume(t)
      PROVE  ClosedInv'
  <2>1. CASE BackoffOver(t)
    BY <2>1, StartConnectCloses DEF BackoffOver
  <2>2. CASE ConnectReturns(t)
    BY <2>2, ReturnsCloses
  <2>3. CASE Finish(t) /\ Steady
    BY <2>3, MoveCloses DEF Finish, Steady, rest
  <2> QED
    BY <1>1, <2>1, <2>2, <2>3, OpenedCloses, LockedCloses, EndCloses DEF Resume, Steady
<1>2. ASSUME NEW t \in Tasks, NEW kind, SendCommand(t, kind), Steady
      PROVE  ClosedInv'
  BY <1>2, SendCloses DEF Steady
<1>3. ASSUME NEW c \in Conns, Network(c), Steady
      PROVE  ClosedInv'
  BY <1>3, NetworkCloses DEF Steady
<1>4. CASE UNCHANGED <<fields, caller, conn, stopped, closing, old>>
  BY <1>4 DEF ClosedInv, fields, caller, Open
<1>5. ASSUME NEW p, Notified(p)
      PROVE  ClosedInv'
  BY <1>4, <1>5 DEF Notified, tcpVars
<1>6. CASE UNCHANGED vars
  BY <1>4, <1>6 DEF vars, tcpVars, rest
<1> QED
  BY <1>1, <1>2, <1>3, <1>5, <1>6, EnsureCloses, ShutdownCloses, ShutdownEndsCloses DEF Next

\* coordinator.py: once async_shutdown() is over, no connection that was made
\* before it is open, whatever sends, fails, closes and connects again meanwhile;
\* the one exception is a connection that connect() was about to replace while
\* the shutdown passed it by, and only until that connect() ends.
THEOREM ShutdownClosesWhatWasOpen == Spec => []ClosedByShutdown
<1>1. Init => ClosedInv
  BY DEF Init, TcpInit, ClosedInv, Open, Quiet, Places, Statused
<1>2. Spec => []ClosedInv
  BY <1>1, ClosedNext, PTL DEF Spec
<1>3. ClosedInv => ClosedByShutdown
  BY DEF ClosedInv, ClosedByShutdown
<1> QED
  BY <1>2, <1>3, PTL

-----------------------------------------------------------------------------
(* Refinement: whoever connects, the manager keeps to the machine's table.   *)

LEMMA AfterAState ==
  ASSUME NEW s \in SM!States, NEW e
  PROVE  /\ SM!After(s, e) \in SM!States
         /\ ~SM!Accepts(s, e) => SM!After(s, e) = s
<1>1. CASE SM!Accepts(s, e)
  <2>1. \E u \in SM!States : <<s, e, u>> \in SM!Transitions
    BY <1>1 DEF SM!Accepts
  <2>2. (CHOOSE u \in SM!States : <<s, e, u>> \in SM!Transitions) \in SM!States
    BY <2>1
  <2> QED
    BY <1>1, <2>2 DEF SM!After
<1>2. CASE ~SM!Accepts(s, e)
  BY <1>2 DEF SM!After
<1> QED
  BY <1>1, <1>2

\* An event, whether the table accepts it or refuses it.
LEMMA EventMoves ==
  ASSUME mgr \in SM!States, NEW e \in SM!Events, mgr' = SM!After(mgr, e)
  PROVE  mgr' \in SM!States /\ [SM!Next]_mgr
<1>1. mgr' \in SM!States /\ (~SM!Accepts(mgr, e) => mgr' = mgr)
  BY AfterAState
<1>2. SM!Accepts(mgr, e) => SM!Next
  BY DEF SM!Next, SM!Fire
<1> QED
  BY <1>1, <1>2

LEMMA LostTable ==
  /\ SM!Accepts("CONNECTED", "CONNECTION_LOST")
  /\ SM!After("CONNECTED", "CONNECTION_LOST") = "RECONNECTING"
  /\ SM!Accepts("RECONNECTING", "RETRY")
<1>1. \A u \in SM!States : <<"CONNECTED", "CONNECTION_LOST", u>> \in SM!Transitions
                              <=> u = "RECONNECTING"
  BY DEF SM!States, SM!Transitions
<1>2. "RECONNECTING" \in SM!States
  BY DEF SM!States
<1>3. SM!Accepts("CONNECTED", "CONNECTION_LOST")
  BY <1>1, <1>2 DEF SM!Accepts
<1>4. (CHOOSE u \in SM!States : <<"CONNECTED", "CONNECTION_LOST", u>> \in SM!Transitions)
        = "RECONNECTING"
  BY <1>1, <1>2
<1>5. SM!Accepts("RECONNECTING", "RETRY")
  BY DEF SM!Accepts, SM!States, SM!Transitions
<1> QED
  BY <1>3, <1>4, <1>5 DEF SM!After

LEMMA EnsureMoves ==
  ASSUME mgr \in SM!States, NEW t \in Tasks, EnsureConnected(t)
  PROVE  mgr' \in SM!States /\ [SM!Next]_mgr
<1> USE DEF SM!Events
<1>1. mgr' = Reconciled \/ mgr' = SM!After(Reconciled, ConnectEvent(Reconciled))
  BY DEF EnsureConnected
<1>2. CASE mgr = "CONNECTED" /\ ~IsConnected
  <2>1. Reconciled = SM!After(mgr, "CONNECTION_LOST") /\ Reconciled = "RECONNECTING"
    BY <1>2, LostTable DEF Reconciled
  <2>2. ConnectEvent(Reconciled) = "RETRY"
    BY <2>1 DEF ConnectEvent
  <2>3. CASE mgr' = Reconciled
    BY <2>1, <2>3, EventMoves
  <2>4. CASE mgr' = SM!After(Reconciled, ConnectEvent(Reconciled))
    <3>1. SM!LostAndRetry
      BY <1>2, <2>1, <2>2, <2>4, LostTable DEF SM!LostAndRetry
    <3>2. mgr' \in SM!States
      BY <2>1, <2>4, AfterAState
    <3> QED
      BY <3>1, <3>2 DEF SM!Next
  <2> QED
    BY <1>1, <2>3, <2>4
<1>3. CASE ~(mgr = "CONNECTED" /\ ~IsConnected)
  <2>1. Reconciled = mgr /\ ConnectEvent(mgr) \in {"RETRY", "CONNECT"}
    BY <1>3 DEF Reconciled, ConnectEvent
  <2>2. CASE mgr' = SM!After(mgr, ConnectEvent(mgr))
    BY <2>1, <2>2, EventMoves
  <2> QED
    BY <1>1, <2>1, <2>2
<1> QED
  BY <1>2, <1>3

\* Every step of every number of tasks: what an attempt that ends is told, and a
\* wake from the pause whose event nobody checks again, included.
LEMMA MgrNext == mgr \in SM!States /\ [Next]_vars => mgr' \in SM!States /\ [SM!Next]_mgr
<1> SUFFICES ASSUME mgr \in SM!States, [Next]_vars PROVE mgr' \in SM!States /\ [SM!Next]_mgr
  OBVIOUS
<1>1. ASSUME NEW t \in Tasks, BackoffOver(t)
      PROVE  mgr' \in SM!States /\ [SM!Next]_mgr
  <2>1. mgr' = SM!After(mgr, ConnectEvent(mgr)) /\ ConnectEvent(mgr) \in SM!Events
    BY <1>1 DEF BackoffOver, ConnectEvent, SM!Events
  <2> QED
    BY <2>1, EventMoves
<1>2. ASSUME NEW t \in Tasks, ConnectReturns(t)
      PROVE  mgr' \in SM!States /\ [SM!Next]_mgr
  <2>1. \E e \in SM!Events : mgr' = SM!After(mgr, e)
    BY <1>2 DEF ConnectReturns, SM!Events
  <2> QED
    BY <2>1, EventMoves
<1>3. CASE mgr' = mgr
  BY <1>3
<1>4. CASE Steady \/ Shutdown \/ ShutdownEnds \/ (\E p \in Payloads : Notified(p)) \/ UNCHANGED vars
  BY <1>3, <1>4 DEF Steady, Shutdown, ShutdownEnds, Notified, vars, rest
<1> QED
  BY <1>1, <1>2, <1>4, EnsureMoves DEF Next, Resume

\* connection_manager.py over the TCP transport: refreshes and reads that find the
\* link down, wake from a pause and end their attempts in any order take the
\* machine only along its table, and leave it alone where the table refuses.
THEOREM LinkFollowsTable == Spec => SM!Spec
<1>1. Init => SM!Init /\ mgr \in SM!States
  BY DEF Init, SM!Init, SM!States
<1>2. mgr \in SM!States /\ [Next]_vars => (mgr \in SM!States)' /\ [SM!Next]_mgr
  BY MgrNext
<1> QED
  BY <1>1, <1>2, PTL DEF Spec, SM!Spec
=============================================================================
