----------------------- MODULE ConnectionStateMachine -----------------------
(***************************************************************************)
(* The connection state machine of the integration                         *)
(* (infrastructure/state_machines/connection_state_machine.py): a table of *)
(* (state, event) pairs.  An event with no entry for the current state is  *)
(* refused and changes nothing.                                            *)
(*                                                                         *)
(* Read on its own, Spec is the abstract promise "the state moves only     *)
(* along the table".  ConnectionManager uses the operators and is shown    *)
(* to implement Spec when no disconnect callback can force the state.      *)
(***************************************************************************)
VARIABLE state

States == {"DISCONNECTED", "CONNECTING", "CONNECTED", "RECONNECTING",
           "FAILED", "BACKOFF"}

Events == {"CONNECT", "CONNECT_SUCCESS", "CONNECT_FAILED", "DISCONNECT",
           "CONNECTION_LOST", "RETRY", "BACKOFF_EXPIRED"}

\* _transitions, as <<from, event, to>>.
Transitions ==
  {<<"DISCONNECTED", "CONNECT",         "CONNECTING">>,
   <<"CONNECTING",   "CONNECT_SUCCESS", "CONNECTED">>,
   <<"CONNECTING",   "CONNECT_FAILED",  "FAILED">>,
   <<"CONNECTED",    "DISCONNECT",      "DISCONNECTED">>,
   <<"CONNECTED",    "CONNECTION_LOST", "RECONNECTING">>,
   <<"FAILED",       "RETRY",           "BACKOFF">>,
   <<"BACKOFF",      "BACKOFF_EXPIRED", "CONNECTING">>,
   <<"RECONNECTING", "RETRY",           "CONNECTING">>}

CanConnect(s) == s \in {"DISCONNECTED", "FAILED", "BACKOFF", "RECONNECTING"}

\* transition(): what it returns, and the state it leaves behind.
Accepts(s, e) == \E t \in States : <<s, e, t>> \in Transitions

After(s, e) ==
  IF Accepts(s, e) THEN CHOOSE t \in States : <<s, e, t>> \in Transitions ELSE s

Init == state = "DISCONNECTED"

Fire(e) == /\ Accepts(state, e)
           /\ state' = After(state, e)

\* A lost link noticed by the caller that reconnects: two events with no await
\* between them, so no other coroutine sees the state in the middle.
LostAndRetry ==
  /\ Accepts(state, "CONNECTION_LOST")
  /\ Accepts(After(state, "CONNECTION_LOST"), "RETRY")
  /\ state' = After(After(state, "CONNECTION_LOST"), "RETRY")

Next == (\E e \in Events : Fire(e)) \/ LostAndRetry

Spec == Init /\ [][Next]_state
=============================================================================
