-------------------------- MODULE ConnectionManager --------------------------
(***************************************************************************)
(* infrastructure/transport/connection_manager.py: ensure_connected() and  *)
(* handle_connection_lost(), cut at their awaits.  Several callers (the    *)
(* scheduled refresh, single-register reads of entities) may be inside     *)
(* ensure_connected() at once; nothing serialises them.  A caller is       *)
(*                                                                         *)
(*   idle        outside ensure_connected()                                *)
(*   sleeping    in `await asyncio.sleep(wait_time)' (backoff)             *)
(*   connecting  in `await self._connect_transport(address)'               *)
(*                                                                         *)
(* The transport is external here: link is what transport.is_connected     *)
(* answers.  The BLE manager hands Bleak a callback that schedules         *)
(* handle_connection_lost() as a task (HasCallback); the serial and TCP    *)
(* manager has none.                                                       *)
(***************************************************************************)
EXTENDS Integers

CONSTANTS
  Callers,         \* coroutines that call ensure_connected()
  MaxFailures,     \* MAX_CONSECUTIVE_FAILURES
  InitialBackoff,  \* INITIAL_BACKOFF, in ticks
  MaxBackoff,      \* MAX_BACKOFF, in ticks
  HasCallback,     \* TRUE: ConnectionManager (BLE); FALSE: SerialConnectionManager
  Cancellable,     \* the callers whose task may be cancelled at an await
  MayReset,        \* TRUE: reset_failures() may be called
  MaxLostTasks     \* bound: disconnect tasks that are scheduled and not yet run

ASSUME PolicyAssumption ==
  /\ MaxFailures \in Nat \ {0}
  /\ InitialBackoff \in Nat \ {0}
  /\ MaxBackoff \in Nat
  /\ InitialBackoff < MaxBackoff

ASSUME ShapeAssumption ==
  /\ HasCallback \in BOOLEAN
  /\ MayReset \in BOOLEAN
  /\ Cancellable \subseteq Callers
  /\ MaxLostTasks \in Nat \ {0}

VARIABLES
  mgr,        \* [state, failures, backoff]: state machine, counter, _backoff_time
  elapsed,    \* time since _last_connection_attempt; MaxBackoff stands for "or more"
  pc,         \* where each caller is
  wait,       \* what is left of each caller's backoff sleep
  result,     \* what each caller's last call returned
  link,       \* transport.is_connected
  lostTasks   \* handle_connection_lost() tasks created by the callback, not yet run

vars == <<mgr, elapsed, pc, wait, result, link, lostTasks>>

SM == INSTANCE ConnectionStateMachine WITH state <- mgr.state

TypeOK ==
  /\ mgr \in [state: SM!States, failures: Nat, backoff: InitialBackoff..MaxBackoff]
  /\ elapsed \in 0..MaxBackoff
  /\ pc \in [Callers -> {"idle", "sleeping", "connecting"}]
  /\ wait \in [Callers -> 0..MaxBackoff]
  /\ result \in [Callers -> {"none", "ok", "refused"}]
  /\ link \in BOOLEAN
  /\ lostTasks \in 0..MaxLostTasks

Init ==
  /\ mgr = [state |-> "DISCONNECTED", failures |-> 0, backoff |-> InitialBackoff]
  /\ elapsed = MaxBackoff          \* _last_connection_attempt = 0.0
  /\ pc = [c \in Callers |-> "idle"]
  /\ wait = [c \in Callers |-> 0]
  /\ result = [c \in Callers |-> "none"]
  /\ link = FALSE
  /\ lostTasks = 0

-----------------------------------------------------------------------------
(* What the synchronous pieces of the code do to the manager's own fields.  *)
(* A definition whose name starts with Mutant is what a plausible bug would *)
(* make of the one that follows it; no specification uses it.               *)

MutantUncapped(b) == 2 * b

Doubled(b) == IF 2 * b < MaxBackoff THEN 2 * b ELSE MaxBackoff


Fire(m, e) == [m EXCEPT !.state = SM!After(@, e)]

\* _handle_connection_failure()
CountFailure(m) ==
  [state |-> m.state, failures |-> m.failures + 1, backoff |-> Doubled(m.backoff)]

MutantFreshCounterOnly(m) == [m EXCEPT !.failures = 0]

Fresh(m) == [state |-> m.state, failures |-> 0, backoff |-> InitialBackoff]

\* handle_connection_lost(): no await inside, so it runs as one piece.
Lost(m) ==
  IF m.state = "RECONNECTING" THEN m
  ELSE [CountFailure(m) EXCEPT
          !.state = IF SM!Accepts(m.state, "CONNECTION_LOST")
                    THEN SM!After(m.state, "CONNECTION_LOST")
                    ELSE "RECONNECTING"]

\* The event an attempt sends; the value transition() returns is not looked at.
StartConnecting(m) ==
  Fire(m, IF m.state = "RECONNECTING" THEN "RETRY" ELSE "CONNECT")

MutantTrustMachine == mgr

\* The state machine says CONNECTED and the transport disagrees.
Reconciled ==
  IF mgr.state = "CONNECTED" /\ ~link THEN Lost(mgr) ELSE mgr

MutantLockedForEver(m) == m.failures >= MaxFailures

MutantLockedOneLate(m) == m.failures > MaxFailures /\ elapsed < MaxBackoff

LockedOut(m) == m.failures >= MaxFailures /\ elapsed < MaxBackoff

\* The failure counter is forgiven after MaxBackoff without an attempt.
Forgiven(m) == IF m.failures >= MaxFailures THEN Fresh(m) ELSE m

MutantWaitInitial(m) == m.failures > 0 /\ elapsed < InitialBackoff

MustWait(m) == m.failures > 0 /\ elapsed < m.backoff

\* The link closes under the manager: Bleak's callback creates a task.
CloseLink ==
  /\ link' = FALSE
  /\ lostTasks' = IF link /\ HasCallback THEN lostTasks + 1 ELSE lostTasks
  /\ lostTasks' <= MaxLostTasks

Return(c, r) ==
  /\ pc' = [pc EXCEPT ![c] = "idle"]
  /\ result' = [result EXCEPT ![c] = r]

-----------------------------------------------------------------------------
(* ensure_connected() up to its first await or return. *)

AlreadyConnected(c) ==
  /\ pc[c] = "idle"
  /\ Reconciled.state = "CONNECTED"
  /\ Return(c, "ok")
  /\ UNCHANGED <<mgr, elapsed, wait, link, lostTasks>>

\* Another caller is connecting (or was, and never finished).
RefuseBusy(c) ==
  /\ pc[c] = "idle"
  /\ Reconciled.state # "CONNECTED"
  /\ ~SM!CanConnect(Reconciled.state)
  /\ Return(c, "refused")
  /\ UNCHANGED <<mgr, elapsed, wait, link, lostTasks>>

RefuseLockedOut(c) ==
  /\ pc[c] = "idle"
  /\ SM!CanConnect(Reconciled.state)
  /\ LockedOut(Reconciled)
  /\ mgr' = Reconciled
  /\ Return(c, "refused")
  /\ UNCHANGED <<elapsed, wait, link, lostTasks>>

StartSleep(c) ==
  /\ pc[c] = "idle"
  /\ SM!CanConnect(Reconciled.state)
  /\ ~LockedOut(Reconciled)
  /\ MustWait(Forgiven(Reconciled))
  /\ mgr' = Forgiven(Reconciled)
  /\ wait' = [wait EXCEPT ![c] = Forgiven(Reconciled).backoff - elapsed]
  /\ pc' = [pc EXCEPT ![c] = "sleeping"]
  /\ result' = [result EXCEPT ![c] = "none"]
  /\ UNCHANGED <<elapsed, link, lostTasks>>

\* From `self._last_connection_attempt = time.time()' to the await of connect().
\* connect() itself first closes what it finds open: close_stale_connections in
\* the BLE transport, `_connected = False' in the TCP one, nothing in the serial one.
Attempt(c, m) ==
  /\ mgr' = StartConnecting(m)
  /\ elapsed' = 0
  /\ pc' = [pc EXCEPT ![c] = "connecting"]
  /\ wait' = [wait EXCEPT ![c] = 0]
  /\ result' = [result EXCEPT ![c] = "none"]
  /\ \/ UNCHANGED <<link, lostTasks>>
     \/ CloseLink

AttemptNow(c) ==
  /\ pc[c] = "idle"
  /\ SM!CanConnect(Reconciled.state)
  /\ ~LockedOut(Reconciled)
  /\ ~MustWait(Forgiven(Reconciled))
  /\ Attempt(c, Forgiven(Reconciled))

\* The sleep is over.  Nothing is checked again before the attempt.
Wake(c) ==
  /\ pc[c] = "sleeping"
  /\ wait[c] = 0
  /\ Attempt(c, mgr)

\* connect() answered True.  Nobody asks is_connected again: between the moment
\* the link stood and this one another task may have disconnected (BLE, inside
\* start_notify) or given up the socket (TCP, while the buffer was drained).
ConnectSucceeds(c) ==
  /\ pc[c] = "connecting"
  /\ mgr' = Fire(Fresh(mgr), "CONNECT_SUCCESS")
  /\ Return(c, "ok")
  /\ link' \in BOOLEAN
  /\ \/ UNCHANGED lostTasks
     \/ /\ HasCallback /\ ~link'
        /\ lostTasks < MaxLostTasks
        /\ lostTasks' = lostTasks + 1
  /\ UNCHANGED <<elapsed, wait>>

\* An attempt whose link still stands when it answers.
ConnectHolds(c) == ConnectSucceeds(c) /\ link'

MutantFailsSilently(c) ==
  /\ pc[c] = "connecting"
  /\ mgr' = CountFailure(mgr)
  /\ Return(c, "refused")
  /\ UNCHANGED <<elapsed, wait, link, lostTasks>>

MutantFailsToDisconnected(c) ==
  /\ pc[c] = "connecting"
  /\ mgr' = [CountFailure(mgr) EXCEPT !.state = "DISCONNECTED"]
  /\ Return(c, "refused")
  /\ UNCHANGED <<elapsed, wait, link, lostTasks>>

\* connect() answered False or raised: the decorator turns the exception into
\* False.  The transport may have thrown away the client it shares with another
\* caller, and a client that connected and was dropped again has called back.
ConnectFails(c) ==
  /\ pc[c] = "connecting"
  /\ mgr' = Fire(CountFailure(mgr), "CONNECT_FAILED")
  /\ Return(c, "refused")
  /\ \/ UNCHANGED <<link, lostTasks>>
     \/ CloseLink
     \/ /\ HasCallback
        /\ lostTasks < MaxLostTasks
        /\ lostTasks' = lostTasks + 1
        /\ UNCHANGED link
  /\ UNCHANGED <<elapsed, wait>>

\* CancelledError is no Exception: the handlers of ensure_connected() do not run.
Cancel(c) ==
  /\ c \in Cancellable
  /\ pc[c] # "idle"
  /\ Return(c, "none")
  /\ wait' = [wait EXCEPT ![c] = 0]
  /\ UNCHANGED <<mgr, elapsed, link, lostTasks>>

\* The device, the cable or somebody's transport.disconnect() ends the link.
LinkDrops ==
  /\ link
  /\ CloseLink
  /\ UNCHANGED <<mgr, elapsed, pc, wait, result>>

\* The event loop runs a task the callback created.
RunLost ==
  /\ lostTasks > 0
  /\ lostTasks' = lostTasks - 1
  /\ mgr' = Lost(mgr)
  /\ UNCHANGED <<elapsed, pc, wait, result, link>>

ResetFailures ==
  /\ MayReset
  /\ mgr' = [Fresh(mgr) EXCEPT !.state = "DISCONNECTED"]
  /\ UNCHANGED <<elapsed, pc, wait, result, link, lostTasks>>

\* A task that is ready runs before the clock reaches the next tick.
Tick ==
  /\ lostTasks = 0
  /\ elapsed < MaxBackoff \/ \E c \in Callers : wait[c] > 0
  /\ elapsed' = IF elapsed < MaxBackoff THEN elapsed + 1 ELSE elapsed
  /\ wait' = [c \in Callers |-> IF wait[c] > 0 THEN wait[c] - 1 ELSE 0]
  /\ UNCHANGED <<mgr, pc, result, link, lostTasks>>

Ensure(c) == \/ AlreadyConnected(c)
             \/ RefuseBusy(c)
             \/ RefuseLockedOut(c)
             \/ StartSleep(c)
             \/ AttemptNow(c)

Resolve(c) == ConnectSucceeds(c) \/ ConnectFails(c)

Next ==
  \/ \E c \in Callers : Ensure(c) \/ Wake(c) \/ Resolve(c) \/ Cancel(c)
  \/ LinkDrops
  \/ RunLost
  \/ ResetFailures
  \/ Tick

Spec == Init /\ [][Next]_vars

(* Home Assistant calls again and again, the event loop runs what is ready,   *)
(* the clock moves, connect() is bounded by its timeouts, and a device that   *)
(* is tried for ever is not out of reach for ever: some attempt ends with     *)
(* its link up.                                                               *)
Fairness ==
  /\ \A c \in Callers : WF_vars(Ensure(c)) /\ WF_vars(Wake(c)) /\ WF_vars(Resolve(c))
  /\ SF_vars(\E c \in Callers : ConnectHolds(c))
  /\ WF_vars(RunLost)
  /\ WF_vars(Tick)

FairSpec == Spec /\ Fairness

-----------------------------------------------------------------------------
(* Properties *)

\* The machine is in CONNECTING only while some caller is inside connect():
\* otherwise can_connect stays false and every later call is refused for ever.
NeverWedged ==
  mgr.state = "CONNECTING" => \E c \in Callers : pc[c] = "connecting"

\* INITIAL_BACKOFF doubled n times.
Uncapped[n \in Nat] == IF n = 0 THEN InitialBackoff ELSE 2 * Uncapped[n - 1]

\* The backoff that goes with n failures in a row.
BackoffAfter(n) == IF Uncapped[n] < MaxBackoff THEN Uncapped[n] ELSE MaxBackoff

\* The backoff is the initial one doubled once per counted failure, up to the
\* cap, whichever of the four places counted or forgave the failures.
BackoffMatchesFailures == mgr.backoff = BackoffAfter(mgr.failures)

\* This step is c's call returning True.
ReturnsTrue(c) ==
  result'[c] = "ok" /\ (result[c] # "ok" \/ pc'[c] # pc[c])

Starts(c) == pc[c] # "connecting" /\ pc'[c] = "connecting"

\* Only an attempt of its own may answer True unchecked: a call that returns
\* True because the machine says CONNECTED found the transport open.  So a link
\* that went down under the machine, or under the attempt that reported it up,
\* is noticed by the next call of anybody.
OkIsChecked ==
  [][\A c \in Callers : ReturnsTrue(c) => link' \/ pc[c] = "connecting"]_vars

\* No attempt starts before the current backoff has passed since the last one.
AttemptsSpaced ==
  [][\A c \in Callers :
       Starts(c) => mgr'.failures = 0 \/ elapsed >= mgr'.backoff]_vars

\* After MaxFailures failures no attempt starts until MaxBackoff has passed.
LockoutHolds ==
  [][\A c \in Callers :
       Starts(c) => mgr.failures < MaxFailures \/ elapsed = MaxBackoff]_vars

\* Whatever happened before, calls to ensure_connected() succeed over an open
\* transport again and again: no sequence of failures, drops, late callbacks and
\* attempts that answer True over a link already gone ends the attempts.
Recovers == []<>(link /\ \E c \in Callers : result[c] = "ok")

\* The manager moves its machine only along the machine's table.
FollowsTable == SM!Spec

\* A call that returns True leaves the machine CONNECTED.
OkMeansConnected ==
  [][\A c \in Callers : ReturnsTrue(c) => mgr'.state = "CONNECTED"]_vars
=============================================================================
