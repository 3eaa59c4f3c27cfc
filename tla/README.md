# Formal models of the SRNE inverter integration

TLA+ models of the Home Assistant integration in
`custom_components/srne_inverter/`, the TLC runs that check them on small
instances, and TLAPS proofs of what matters most for every value of the
constants. Paths below are relative to that directory.

The program is one asyncio event loop: a coroutine runs without interruption
from one `await` to the next, so an action of a model is what a coroutine does
between two awaits, and what other coroutines do in between is interleaving.

## 1. The system

| Component | State it keeps | Operations | Talks to |
|---|---|---|---|
| `infrastructure/state_machines/connection_state_machine.py` | one of six states | `transition`, `force_state`, `reset`, `can_connect` | owned by the connection manager |
| `infrastructure/transport/connection_manager.py` | failure counter, backoff, time of the last attempt | `ensure_connected`, `handle_connection_lost`, `reset_failures` | calls `transport.connect`; called by refreshes and single reads; Bleak calls it back |
| `infrastructure/transport/ble_transport.py` | client, `_connected`, notification queue, consecutive timeouts, learned timeouts | `connect`, `disconnect`, `send`, `_notification_handler` | Bleak; timing collector |
| `tcp_rtu_transport.py`, `serial_transport.py` | socket or port, receive buffer, a lock | `connect`, `disconnect`, `send` | asyncio streams |
| `infrastructure/protocol/` | none | build and decode frames, CRC | used by every reader and writer |
| `application/use_cases/refresh_data_use_case.py` | registers found to fail in this refresh, counters | `execute`, `_read_batch`, `_split_and_retry_batch` | connection manager, transport, protocol |
| `application/services/batch_builder_service.py` | a cache | `build_batches` | called by the coordinator |
| `application/services/transaction_manager_service.py` | failed registers, a write queue nobody fills | `initialize_failed_registers`, `get_failed_registers` | coordinator |
| `application/services/disabled_entity_service.py` | subscribers, name-to-register map | `get_disabled_addresses`, `_handle_registry_event` | entity registry events, coordinator |
| `coordinator.py` | failed registers, batches, unavailable sensors, learned timeouts | `_async_update_data`, `_load_storage`, `_save_storage`, `_rebuild_batches`, `clear_failed_registers`, `async_read_register`, `async_write_register` | all of the above; a file (`Store`) |
| `application/use_cases/write_register_use_case.py` | a record per write | `execute`, `_authenticate` | transport, protocol |
| timing collector, timeout learner | samples | `calculate_timeout` | transport, coordinator |
| `entities/*` | optimistic value, pending flag | set a value, verify it by reading back | coordinator |
| `presets/preset_manager.py` | presets | `apply_preset`, `save_custom_preset` | coordinator writes, one after the other |
| `config_flow/onboarding.py`, `onboarding/*` | onboarding state, history, context | the step handlers, feature detection | a container of its own |
| `config_flow/options/*`, `config_flow/helpers/*`, `validation/*` | form data | pages, schemas, rules | coordinator |
| `config_loader.py`, `entity_manager.py`, `entity_factory.py`, `presentation/container.py` | configuration, wiring | load, merge, create | start-up only |
| `__init__.py` | the config entry | set-up, unload, services, `_hide_failed_entities` | all |

What is hard about it, and what makes each part correct:

* **Connecting.** Several coroutines enter `ensure_connected()` at once and no
  lock is held across its awaits; the link drops at any time; the disconnect
  callback arrives later as a task. Correct: nobody is told True on the word of
  the machine alone, nobody is locked out for ever, attempts keep the backoff.
* **Discovery of unsupported registers.** A rejected batch is halved until the
  rejected words are alone. What is found is kept in four places (use case,
  coordinator, transaction manager, disk), used for the batches, and hides
  entities for good. Correct: while answers go to the reads they belong to, a
  working register is never blamed; a supported
  one is never lost by the halving, what is found survives, and the batches
  follow the exclusions.
* **One answer queue for all senders** (BLE), with late, stale and lost answers.
  Correct: an answer is given to the command it answers.
* **A TCP stream without frames**, with a receive buffer that outlives a command,
  a lock, and `connect()` and `disconnect()` that do not take it. Correct: answers
  keep the order of their commands, every command ends and frees the lock,
  a dead link is noticed, a shut-down closes what was open.
* **Decoding**: prefix, dashes, a search for a frame that fits, a fall-back.
  Correct: what a command is told is what some whole frame says.
* **Writes** that need a password sent before them, verified after them, or that
  come in sequences. Correct: success means that the inverter had the value, the
  value of a failed write does not stay on display, a preset that is reported as
  applied is not half of one, and every call ends.
* **Onboarding**: step handlers that ignore refused transitions, detection tasks
  that outlive their page, settings that are written only if they differ from what
  was (or was not) read. Correct: the machine is where the flow is, and the new
  entry says what the inverter holds.
* **Changing an entry** while the integration is set up, running or reloaded.
  Correct: what is saved was written, and what is in the entry comes into force.

## 2. Modules

| Module | Models |
|---|---|
| `ConnectionStateMachine` | the transition table; `Spec` is the abstract promise "the state moves along the table" |
| `ConnectionManager` | `ensure_connected()` and its callbacks for a set `Callers`; uses the table through `SM == INSTANCE ...` |
| `MCConnection` | model values for TLC |
| `ConnectionManagerProofs` | theorems about it |
| `BatchBuilder` | the loop of `_build_batches_from_registers()` as a recursive function |
| `RegisterDiscovery` | coordinator, refresh use case, transaction manager, disabled entity service, set-up and unload |
| `MCDiscovery` | a small register map; its batches come from `BatchBuilder` |
| `RegisterDiscoveryProofs` | theorems about it, about the builder, and about both |
| `BLETransport` | one `BLETransport` shared by a set `Tasks` of coroutines; Bleak, the radio and the inverter around it |
| `MCTransport` | model values for TLC |
| `BLETransportProofs` | theorems about it |
| `RegisterWrites` | number, select and switch entities, `apply_preset()`, `WriteRegisterUseCase`, with refreshes and an inverter that locks, rounds and is changed at its panel |
| `MCWrites`, `RegisterWritesProofs` | instance and theorems |
| `ConfigEntry` | the config entry, set-up, unload and reload, the update listener |
| `OnboardingStateMachine` | the table of `onboarding/state_machine.py` |
| `Onboarding` | the step handlers of `config_flow/onboarding.py`; EXTENDS the two above |
| `OptionsFlow` | the pages of the options flow; EXTENDS `ConfigEntry` |
| `Installation` | onboarding, options flow and integration together |
| `MCConfig`, `InstallationProofs` | instance and theorems |
| `ModbusRTUProtocol` | frames and `decode_response()` as operators |
| `TcpRtuTransport` | the TCP transport, the stream under it and the gateway behind it |
| `Wire` | the transport with those who use it: manager, refreshes, reads, writes, shut-down; and BLE notifications that are decoded |
| `MCWire`, `WireProofs`, `WireAnswersProofs` | instance and theorems: on the shut-down and the machine; on types, decoding and the order of answers |
| `NaturalLemmas` | least elements, induction and recursion over the numbers, for the proofs |

### ConnectionManager

`mgr` is the manager (`state`, `failures`, `backoff`), `elapsed` the time since
`_last_connection_attempt`, `pc`, `wait`, `result` each caller's place, remaining
sleep and last answer, `link` the transport's `is_connected`, `lostTasks` the
scheduled `handle_connection_lost()` tasks. `ensure_connected()` is cut at its two
awaits, the sleep and `connect()`:

| Action | Code |
|---|---|
| `AlreadyConnected`, `RefuseBusy`, `RefuseLockedOut` | the returns of lines 71-98, after the reconciliation of 61-69 (`Reconciled`) |
| `StartSleep`, `Wake` | 100-113 and what follows the sleep |
| `AttemptNow`, `Attempt` | 115-124, the event sent and the first thing `connect()` does to an open link |
| `ConnectSucceeds`, `ConnectFails` | 126-138, with the decorator that turns exceptions into False |
| `LinkDrops`, `CloseLink`, `RunLost` | the end of a link, Bleak's callback, and its task |
| `ResetFailures`, `Cancel`, `Tick` | `reset_failures()`, cancellation at an await, time |

Time is counted in ticks of one second; `elapsed` stops at `MaxBackoff`, beyond
which no guard can tell it apart. `ConnectSucceeds` leaves open whether the link is up:
`connect()` may answer True over a transport that another task disconnected while
notifications were being started, or that was lost while the stream was drained.
The two managers of the code are two values of
`HasCallback`. The initial value of `elapsed` is `MaxBackoff` because
`_last_connection_attempt` starts at 0.0.

### RegisterDiscovery

`coord`, `tm`, `stored`, `found` are the four copies of the failed set;
`disabled`, `notice` the entity registry and an event on its way; `polled` the
registers of `_register_batches`; `run` what each of two refreshes does. A refresh
is `idle`, `connecting`, `reading` with a list `todo` of reads still to be made,
`saving` what it found, or `learning` (saving the learned timeouts, which writes
the failed registers too). The recursion of `_split_and_retry_batch()` is the
list: a failed read is replaced by its halves at its head (`Split`), which is the
order in which the recursion makes the reads.

The "forced" refresh is the one `clear_failed_registers()` awaits: it calls
`async_refresh()` and does not wait for a scheduled one that is already reading.
No code of the repository reaches that method at present (the options page that
calls it looks it up on the dictionary `__init__.py` stores instead of on the
coordinator); it is public and tested, so it is modelled.

A batch is the range of words it reads; names and values of registers are left
out, and `data` is the set of registers a value was got for. `Mapped[S]` are those of the
registers `S` that get a place in its batches: the builder skips one that lies inside
an earlier one of several words.

Whose answer a read gets depends on the transport. `locking` says whether `send()` takes a
lock (TCP and serial do, BLE does not); `late` are the answers on their way to commands
nobody waits for any longer. `Answered` and `Rejected` give a read its own answer,
`Misled` a late one or, without a lock, the answer to the read the other refresh has under
way; `OtherCommand` is an entity's own read or write of which the answer may come to a
refresh. `crossed` is history: at some point an answer could have been taken for that to
another command.

### BLETransport

`client`, `connected`, `timeouts`, `queue` are the fields `_client`, `_connected`,
`_consecutive_timeouts`, `_notification_queue`; `pc[t]` is the await task `t` is at and
`held[t]` the client object the awaited call is on, which need not be `client` any
longer when the call returns. `live` is the client whose link is up (a peripheral
holds one link), `notifying` whether that link delivers notifications, `owed` the
answers the inverter has still to send. An answer is the task that asked.

| Action | Code |
|---|---|
| `StartConnect`, `StaleClosed`, `Discovered`, `NotDiscovered` | 115-200: stale links closed, scanners, the wait for discovery |
| `Established`, `EstablishedDead`, `EstablishFails`, `Abandoned` | 202-220 and the handler 256-264 |
| `Subscribed`, `SubscribeFails`, `Resubscribe`, `ResubscribeFails` | the two attempts of 222-254 |
| `Disconnect`, `Stopped`, `HungUp` | 280-311; `BeginDisconnect` is the part up to the first await, also called by `connect` and `send`; `Forget` is the `finally` |
| `BeginSend`, `BreakerTrips` | 373-410, the sends that are refused for want of a connection change nothing |
| `Written`, `ReadDone`, `Received`, `TimedOut`, `GattFails` | 410-551 |
| `Notify`, `LinkDrops` | `_notification_handler` and the radio |

Where the code reads `self._client` again after an await, so does the model: a
`disconnect()` that was at `stop_notify` of an old client goes on to close the new
one, and an AttributeError on None ends the call the way the handlers there do.
`crossed` is history: the sends that overlapped another one, or began while an
answer was still to come. `connect()` may be called on a transport that is connected:
by the second of two callers that both found no connection, and by a manager whose
machine stays in FAILED (section 5, finding 1).

### RegisterWrites

A call is a *plan*: the settings it writes one after the other, one for an entity,
several for a preset. `call[c]` is the place of caller `c` in it; a `transport.send()`
is one step. `dev` is the inverter, `data` is `coordinator.data`, `opt` the optimistic
values, `refresh` a refresh with the batches it has read.

| Action | Code |
|---|---|
| `SetNumber`, `SelectOption`, `Turn` | `async_set_native_value()`, `async_select_option()`, `async_turn_on/off()` up to the first send |
| `ApplyPreset` | `apply_preset()` with `_validate_settings()` |
| `StartWrite`, `NotSent`, `Authenticated`, `WrongPassword`, `AuthLost` | `WriteRegisterUseCase.execute()`, `_authenticate_with_password()` |
| `Accepted`, `WriteRejected`, `WriteLost` | `_write_register()` and what the entity or the preset makes of its result |
| `Verified`, `NotVerified`, `ReadRejected` | `_verify_write()` and `async_read_register()` |
| `StartRefresh`, `ReadBatch`, `Publish`, `RefreshFails` | a refresh and `_handle_coordinator_update()` of every entity |
| `Relock`, `StateMoves`, `Panel` | the inverter (external) |

### ConfigEntry, Onboarding, OptionsFlow

`phase` is where set-up is: `setup` (before the entry is read), `refreshing`, `stored`
(the coordinator is in `hass.data`), `loaded` (the listener is added), `retry`. The
listener exists only when `loaded`, so a change between `ReadEntry` and `SetupDone`
is noticed only if its page asks for the reload itself; `missed` records the others.
`reloads` counts the reloads that wait for the entry's lock.

In `Onboarding` an action is a step handler from one submitted form to the next one
shown, cut where it talks to the inverter (`SettingsRead`, the write of each setting).
A write is told True by any answer without an error: after one that failed, the next
may be told so by the late answer to it (`WriteMistaken`). `SettingOrder` is one order of
writing; the code's is that in which the settings were chosen.
`machine` is the state machine the handlers move with `After`, which refuses
silently as `transition()` does. Two detection tasks may run; each connects on its
own and an inverter takes one connection.

In `OptionsFlow` a page is submitted (`BatteryConfig`, `BatteryManagement`,
`InverterOutput`), validated against the readings, written field by field and only
then saved; without a coordinator it is saved unwritten (`SubmitBlind`). A form is in
units, `Scale` register steps each. A pair of fields is compared from the side whose
definition names the other (`LessThan`, `GreaterThan`); the rules "or equal to" are left out.
The other pages only update the entry; one of them shows an empty form after it has
saved, and submitting that erases the overrides (`SubmitSuccess`).

### ModbusRTUProtocol, TcpRtuTransport, Wire

A byte is a place of a frame, or noise, a zero or a dash; a byte may stand for
several. The CRC is taken as perfect: a piece of a buffer passes it when it is one
whole frame. `stream` is `_reader` and `_writer`, `rxbuf` the buffer, `queue` the lock
with those who wait for it, `conn[c]` a connection with what the gateway has been
asked, what is on its way and what is unread. `pc` is the await a task is at:

| Action | Code |
|---|---|
| `StartConnect`, `Opened`, `Drained`, `OpenFails`, `Reset` | `connect()`, with the draining of 0.05 s |
| `Send`, `Locked`, `Written`, `NoWriter`, `Broken` | `send()` up to its first read |
| `Deliver`, `Search` | the bytes that come, `_extract_one_frame()`, the trimming of the buffer |
| `TimeOut`, `EndOfStream` | how a send ends without an answer, `_invalidate_socket()` |
| `StartDisconnect`, `Disconnected` | `disconnect()` |
| `EnsureConnected`, `BackoffOver`, `ConnectReturns` | `ensure_connected()`, reduced to what it does to the machine and the transport |
| `SendCommand`, `Finish` | a refresh (asks `is_connected` before a batch), a read and a write (do not) |
| `Shutdown`, `ShutdownEnds` | `async_shutdown()` |
| `Notified` | a notification handed to `decode_response()` |

`Wire` leaves the numbers of the backoff to `ConnectionManager`: a caller that may
attempt may also sleep first, for as long as it likes.

## 3. Runs

Run `tlc -config <cfg> <module>` in this directory.

| Run | Instance | Shows |
|---|---|---|
| `connection_ble` | two callers, callbacks, resets; 3 failures, backoff 1..10 ticks | `NeverWedged`, `BackoffMatchesFailures`, `OkIsChecked`, and that calls succeed over an open link again and again (`Recovers`) |
| `connection_serial` | one caller, no callback, cancellation; the code's constants 5, 1, 300 | `AttemptsSpaced`, `LockoutHolds`, and the refinement `FollowsTable` |
| `connection_sticky` | one caller, no callback | **violated**: success does not always leave the machine CONNECTED |
| `register_discovery` | registers 0, 1 (three words, over register 2), 2 and 5; words 1 and 2 unsupported; with and without a lock; three troubles | `OnlyUnsupportedFail`, `BatchesCurrent`, `CleanRefreshComplete`, `EventuallyKnown` |
| `discovery_resplit` | same | **violated**: a saved failed register is still polled |
| `discovery_clear` | same | **violated**: a clear does not ask for all registers again |
| `discovery_late` | same | **violated**: a working register is blamed (`FailedAreUnsupported`, without the exception `OnlyUnsupportedFail` makes) |
| `ble_transport` | two tasks that do everything, breaker at 2, queue of 1, 2 answers owed | `OwnAnswer`, `NeverDeaf`, `BreakerBounds`, `ZombieDropped`, `Reachable` |
| `ble_answers` | same | **violated**: of two sends under way, one gets the other's answer |
| `register_writes` | a number on a rounding protected register, a select, a switch, three presets; two callers, two calls, one trouble | `SuccessMeansHeld`, `NoFailedValueShown`, `PresetKeepsOrder`, `CallsEnd`, `Settles` |
| `installation` | the three SOC thresholds, a page with two of them in units of two steps, one feature, two detection tasks; two edits, one trouble | `MachineKnowsStep`, `ConfigInForce`, `SavedMeansWritten`, `PageKeepsOrder`, `SettingsHeld`, `ThresholdsInOrder`, `DetectionEnds`, `OverridesInForce` |
| `wire` | a refresh, a read and a write; two commands, two connections, one trouble; 1,548 notifications | `OwnAnswer`, `OutcomeTrue`, `ClosedByShutdown`, `SendEnds`, `Recovers` |

Each property of a passing run was also checked to fail when one mapped
definition is replaced by a `Mutant...` definition: a plausible bug at that
place of the code.

**Bounds.** `connection_ble` shortens the policy (3 failures, cap 10) so that two
callers, the cap, the lock-out and its end all occur: 1, 2, 4, 8, 10 is the
sequence of backoffs, and with three failures the lock-out starts before the cap
is reached while concurrent callers and callbacks push the counter past it.
`failures` itself is bounded by the run, not by a guard: the lock-out, and the
forgiving after it, keep it small. `MaxLostTasks` = 2 lets a stale callback and a
new one be outstanding together. `connection_serial` needs no abstraction of the
constants. `MCDiscovery` has two batches (so that a link can be lost between them
and inside the first), the largest as long as 2^`MaxDepth` words, as 32 = 2^5 in the
code (`MAX_REGISTERS_PER_BATCH`, `MAX_SPLIT_DEPTH`), a register of three words of which two
are refused, one that lies inside it and gets no place of its own unless the other is
excluded, and one entity on a supported and one on an unsupported register.
`MaxTrouble` = 3 allows any three of timeouts, late and foreign answers, commands of entities,
drops, refused connections, failed loads and saves, toggles, clears and
stops in one behaviour: enough for a crash during a save after a lost link, or a
clear during a refresh that then times out. 1.6 million states.
`MCTransport` has two tasks, the least with an interleaving; a breaker at 2 instead of
5 and a queue of 1 instead of 10 are reached as the code's limits would be, by the
same steps done fewer times; `MaxOwed` = 2 lets a late answer and a new one be
outstanding together. Five client objects are more than two tasks and two fields
can refer to, so a new one always exists.

`MCWrites`: two callers, so that a preset and an entity, or two calls to one entity,
overlap with each other and with a refresh; `MaxAttempts` 2 instead of 4 still has a
read-back that is not the last and one that is; `Coarse` is the number's register, as
the pack-scaled voltages of the code are. The presets are a good one, one whose
second pair is out of order (it must be refused), and a partial one. One trouble
lets any one answer, refresh or panel change go wrong during two calls.
`MCConfig`: with three thresholds the order of two pairs is at stake; the order of
writing is not the order of the thresholds; the forms and presets have a good and a
bad member each, one preset needs a feature the inverter has and may fail to
detect; the settings of the page start at other values than the defaults. Two edits are a
submission and a second page in the middle of its writes or of the reload it causes.
`MCWire`: two commands suffice for an answer that goes to the wrong one, two
connections for one that is lost or shut down and the next, which may be opened
after the shut-down; `ScanWindow` 2, `Cap` 4, `Keep` 2, `Bursts` {2} keep the order of
the code's 64, 2048 and 512: noise as long as the window hides every answer until the
buffer is cut. An answer of two bytes is the least that can come in pieces. The
notifications are every combination of a prefix (none, one zero, one more than may be
stripped, noise up to the window, dashes), a frame (whole, cut or none), and what
follows.

**Fairness.** `RegisterWrites`: weak fairness of each call (every send is answered or
times out) and of the refresh. `Installation`: weak fairness of the steps of set-up and
reload, of the detection tasks and of the page that waits for them; no submission
is ever forced. `Wire`: weak fairness of each task's next step, since asyncio runs what
is ready and every wait there has a timeout, and, until the shut-down, of the refreshes'
`EnsureConnected`, since they come back every interval; nothing of the gateway or the network, and
not of writes or the shut-down. `ConnectionManager`: weak fairness of each caller's steps (Home
Assistant polls for ever and the loop runs what is ready), of the tasks and the
clock, and strong fairness of "some attempt succeeds with its link
up" (`ConnectHolds`): a device that is tried infinitely often is not always out of reach. `RegisterDiscovery`: weak fairness of
the set-up (Home Assistant retries it), of the poll, of the notice and of every
refresh's next step; troubles have none and are bounded, so liveness says what
happens once the troubles are over. `BLETransport`: weak fairness of every await (Bleak's
calls and the queue have timeouts) and of the polling that calls `connect` on a
transport that is down, or `send`; strong fairness of what the radio decides, that a device is there, a link
and a subscription succeed. `Reachable` excepts an endless stream of `disconnect()`
calls, which only shut-down and the set-up dialogue make; `ZombieDropped` excepts an
inverter that answers for ever.

## 4. Proofs

`tlapm <module>` checks each of `ConnectionManagerProofs`, `RegisterDiscoveryProofs`,
`BLETransportProofs`, `RegisterWritesProofs`, `InstallationProofs`, `WireProofs`,
`WireAnswersProofs` and `NaturalLemmas`. The assumptions are those of the modules on their
constants, and what a theorem names. Every safety property of a passing run is
proved, some under a hypothesis on the constants that the theorem names.

* `NaturalLemmas`, what the proofs about recursive functions rest on. The provers cannot
  instantiate an induction rule that has an operator as a parameter; that a non-empty
  set of numbers has a least element (`Least`) they can use, and with it induction over
  the *set* of the numbers that have a property (`Induction`), and that a function
  defined by recursion over the numbers satisfies its equation (`PrimitiveRecursion`).

* `ConnectionManagerProofs`
  * `TypeCorrect`: types, for any callers and constants with
    `0 < InitialBackoff < MaxBackoff`.
  * `NoWedge`: if no caller is cancelled, CONNECTING means somebody is connecting.
    Inductive by itself once the moves of the machine are known (`Moves`): every
    step that enters CONNECTING sets a caller's `pc`, and every step that resets
    such a `pc` sends CONNECT_SUCCESS or CONNECT_FAILED, which both leave it.
  * `TrueIsChecked`: a call that makes no attempt answers True only with an open link. What
    an attempt answers is `connect()`'s word, which may be out of date; the next call of
    anybody finds out.
  * `BackoffRespected`, `LockoutRespected`: for one caller and no callback. The
    strengthening (`SleepInvariant`) says that a sleeping caller has waited and will
    wait exactly the backoff in force, and that no counter changes while it
    sleeps; with several callers this is false, see section 6.
  * `BackoffIsFunctionOfFailures`: `BackoffMatchesFailures`, inductive with the types: each of the
    four places that change the counter moves the backoff with it (`MatchesKept`), because
    capping before or after doubling makes no difference (`BackoffStep`).
  * `TableFollowed`: the refinement `Spec => SM!Spec` without callbacks and resets
    (with them, `force_state` and `reset` leave the table, which is their purpose).
* `RegisterDiscoveryProofs`, for every register map, device and way of batching
  * `TypeCorrect`: in particular every register that is listed as failed is one of
    the configuration and no read is split deeper than `MaxDepth`.
  * `OnlyUnsupported`: `OnlyUnsupportedFail`, which excepts behaviours in which an answer could
    have been taken for that to another command: one was late, or without a lock two
    commands were under way at once. The invariant (`FailInv`) adds what is in flight
    (`run[i].saving`), because a stop may leave it on disk, and that a read that is given
    another's answer is in such a behaviour (`MisledCrosses`).
  * `BatchesAreCurrent`: `BatchesCurrent`, which is inductive as it stands.
  * `CleanIsComplete`: `CleanRefreshComplete`, if the batches take in every register they are said
    to (`Mapped`), and a bound `reach[d]` on the words of a read at depth `d` at most halves
    from one depth to the next and ends at one word. With at most 32 words to a batch
    and depth 5, `reach[d]` is 2^(5 - d): this is the argument why
    `MAX_REGISTERS_PER_BATCH` and `MAX_SPLIT_DEPTH` fit together (`CleanAsShipped` has the
    numbers filled in). The property has the same exception as `OnlyUnsupportedFail`. The invariant (`CleanInv`) says that
    each supported register has been read or is covered by a read still to be made,
    and that no such read is too long for its depth; a single word that is refused
    is not supported. It needs `FailAlways` to know that no rejection is a stray one.
  * `BatchesTakeAll`: what the loop of the batch builder makes of any finite set of
    registers, each at most `MaxBatch` words long. By induction on the address the loop has
    come to (`GroupedGood`): every register below it lies in a batch, what is covered ends
    where the batch under construction ends, and no batch reaches beyond it (`Good`). The
    step is that of a new batch (`PlaceNew`) or of one that grows (`PlaceFits`).
  * `CleanWhenBuilt`: `CleanIsComplete` with the builder's own batches, whose coverage and size
    are no longer assumed.
* `BLETransportProofs`, for every finite set of tasks and all limits
  * `TypeCorrect`: with it, the queue keeps to its size.
  * `OwnAnswerOnly`: the invariant (`Alone`) is that a send that met no other is the
    only sender, and that the queue and what the inverter owes hold its answers
    only; other tasks may connect and disconnect as they like.
  * `NotDeaf`: `NeverDeaf` is not inductive; `Minded` is: whenever the transport's client
    is live without notifications, some task is inside the subscription or inside
    `disconnect()`. It does not mention `_connected`, which is stale on a reconnect.
  * `BreakerIsBounded`: inductive as it stands. A send is let in below the limit, so
    each of the others adds one at most.
  Most steps are alike to the last three (`Quiet`); `QuietSteps` separates them once.
* `RegisterWritesProofs`, for any registers, entities, presets and callers
  * `TypeCorrect`: with it, the read-backs stop at `_WRITE_VERIFY_MAX_ATTEMPTS`.
  * `SuccessIsHeld`: the invariant (`HeldInv`) is that while a call verifies, what its
    register holds now is among what it has held since the acknowledgement; whoever
    else writes the register extends that history.
  * `NothingFailedShown`: with `HeldInv`, inductive: what ends a call takes its value off the
    display, or the inverter has acknowledged it.
  * `PresetsKeepOrder`: if the thresholds are not rounded, what a call has written so far
    without failing is what the inverter holds, as long as nobody else writes them
    (`KeptInv`).
* `InstallationProofs`, for any registers, features, options, pages and presets
  * `TypeCorrect`: the strengthening (`TypedInv`) adds what the current step of a flow
    implies: an entry exists where it is used, a detection result exists after its
    page, a submitted form is within its ranges.
  * `EntryInForce`: the invariant (`ForceInv`) follows the entry through set-up: once it has
    been read, what runs is what it says, or a reload is to come, or the change was
    missed.
  * `SavedIsWritten`, `PageInOrder`: by the fields a page has passed (`SavedInv`); the order in
    units is the order in steps, because related fields share a scale.
  * `NewEntryHeld`, `NewThresholdsInOrder`: by the settings the handler has passed
    (`PathInv`), if the order of writing names the registers in question.
  * `MachineStaysWithFlow`: `MachineKnowsStep`; the strengthening (`StepInv`) says for each step the
    states the machine may be in, those between a detection and its page included.
* `WireProofs`
  * `ShutdownClosesWhatWasOpen`: every connection that is open is the transport's `stream`
    (`ClosedInv`), and the shut-down either closed that one or found it down, and then it
    stays so until a `connect()` that is under way replaces it. What is opened afterwards
    is none of those.
  * `LinkFollowsTable`: the refinement `Spec => SM!Spec`, with the events the table refuses as
    stuttering steps.
* `WireAnswersProofs`, for any tasks, commands, sizes of frames, limits and noise
  * `DecodingIsTrue`: `OutcomeTrue`, for every sequence of bytes (`DecodeTrue`): the search gives a
    frame that is whole and fits, and the fall-back on the leading bytes gives a whole one.
  * `LinkTypeOK`: types. The strengthening (`TcpInv`) adds that the lock is held by whoever
    reads, and that a connection has been asked only what was sent.
  * `AnswersInOrder`: `OwnAnswer`. The invariant (`AnswerInv`) looks at the answers on their way on the
    current connection as one line, in the buffer, unread, in the network and still to
    be made. The line is in order (`Flow`), all of it later than what has been given out
    (`FlowInv`), and who waits for the lock was sent later than all that were written
    (`QueueLater`). A frame that is found is at the head of the line; since every
    command that was written has been given up, answered, or is the one waited for
    (`Accounted`), the frame is the reader's own if none was given up. A dropped
    connection takes its line with it, which `ClosedInv` is needed for.

Only model-checked: every liveness property (the prover has no rule for fairness), that
is `Recovers`, `ZombieDropped`, `Reachable`, `EventuallyKnown`, `CallsEnd`, `Settles`,
`DetectionEnds`, `OverridesInForce`, `SendEnds`; and what the violated runs show.

## 5. What the runs found

1. `connection_sticky`: after one failed attempt the machine is in FAILED, from which
   the manager sends CONNECT; the table wants RETRY and BACKOFF. The refused
   transition is ignored, the transport connects, CONNECT_SUCCESS is refused as
   well, and the machine stays FAILED over an open link: every later call connects
   anew.
2. `discovery_resplit`: the coordinator adds what it found to its own set, but builds the
   batches from the transaction manager's, so batches are split again in every
   cycle until the next restart.
3. `discovery_clear`: clearing empties the coordinator's set and the file, not the
   transaction manager's.
4. `discovery_late`: a rejection that arrives after its read timed out is attributed to
   the next read; over BLE so is the rejection of a read or write under way at the
   same time. A working register is then blamed, saved and hidden.
5. `ble_answers`: `send` has no lock. The waiter that came first takes what arrives, so
   with a refresh and a write under way together the answer to one is returned for
   the other.

What holds in the passing runs has its exceptions in the properties themselves, and
those are worth knowing:

* `OwnAnswer` (TCP): after one command that failed while its answer was on the way, every
  later command on that connection is given the answer of the one before it. A read's
  answer is accepted for a write, since decoding falls back to the leading frame.
* `SendEnds`, `OwnAnswer`: noise as long as the search window hides every answer, though the
  comment of the search speaks of resynchronising (`tcp_rtu_transport.py:115-116`), until the
  buffer outgrows its limit.
* The draining in `connect()` runs without the lock while `_connected` is already True: a
  write that is sent then fails at `read()`, or its answer is drained though the
  inverter has carried it out.
* `OkIsChecked`: the attempt that connects may itself answer True over a link that is
  down again: `connect()` does not look at it a second time.
* `OnlyUnsupportedFail`, `CleanRefreshComplete`, `EventuallyKnown` except behaviours in which an
  answer could be taken for another's; over BLE two commands at once are enough.
* `ClosedByShutdown` speaks of the connections made before the shut-down.
  `async_shutdown()` cancels nothing and leaves no mark: a refresh that is about to
  connect, or a number that sleeps between two read-backs, opens a new one afterwards.
* After one failed attempt the machine stays FAILED (finding 1), so over TCP every refresh
  opens a new connection; the old one is closed by the destructor of its
  `StreamWriter`.
* `ConfigInForce`: options saved while the integration is being set up are noticed by
  nobody until the next reload. `OverridesInForce`: a re-detection never undoes an override.
* `SettingsHeld`: a setting equal to a default that was never read is not written and yet
  stored in the entry. So is one whose write was told of the late answer to an earlier,
  failed one. A preset that fails validation leaves its settings behind, and
  "skip" then validates them again.
* `SavedMeansWritten` speaks of pages submitted to a running coordinator: during a reload a
  page is saved without a write. A field left empty is compared with a reading in
  other units.
* `NoFailedValueShown` excepts nothing, but `Settles` leaves out switches: a switch lets go of
  its optimistic value only when the state agrees, so it may stick.
* `SuccessMeansHeld` is about numbers: a select, a switch and a preset do not read back. A
  preset that fails half-way leaves a mixture of two, and one that sets two of the
  thresholds may put them out of order with the third.

## 6. What is left out, and the plan

Assumed rather than modelled: nobody cancels `ensure_connected()` in
`connection_ble` (a cancelled caller inside `connect()` leaves CONNECTING for ever;
`NoWedge` names the assumption). `BLETransport`: tasks are not cancelled at an await, and
durations (and the learned timeouts that set them) are left out, since a timeout
may come at any time. `RegisterDiscovery` has at most one register at an address and one
session at a time; a read that takes another's values takes them for all its words.
`Onboarding`: the flow's commands come one at a time and nobody else uses its transport. `RegisterWrites` takes a send as one step: whose answer it gets is the
matter of the transports. `Wire` compares two callers of the manager only where the
transport is concerned.

Partly modelled, and what is missing:

* The serial transport hands each command to pymodbus under a lock and keeps nothing.
* `OptionsFlow`: the hard-coded fall-back forms, select fields, the rules "or equal to", the
  handler that takes a page for valid when its validation raises (`validate_field()`
  catches what a conversion raises), and the expert page, which
  names a page the configuration does not have and never shows a field.
* Presets: saving and deleting custom presets is file output.
* Entities: sensors and binary sensors compute what they show from `coordinator.data`.
* Batches: the filters by feature, option and register type only shrink the set that
  `BatchBuilder` is given.

Next would come:

1. `RegisterDiscovery` extended by unavailable sensors, which are computed from the data
   of the previous refresh.
2. The suffix matching of `_map_entity_to_address()` over the names of the configuration.
3. `ConnectionManager` composed with `BLETransport`, with `Wire`'s reduced manager as the
   abstract specification of the former.

Not modelled: form layout and schemas, translations, YAML content, logging,
statistics of the timing collector, value scaling of sensors, the package `validation/`,
which nothing imports, the write queue of the transaction manager, which nothing
fills, and a set-up that fails without shutting its container down
(`__init__.py:238-241`).
