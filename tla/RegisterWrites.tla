--------------------------- MODULE RegisterWrites ---------------------------
(***************************************************************************)
(* How a setting is changed: the number, select and switch entities and    *)
(* PresetManager.apply_preset() call coordinator.async_write_register(),   *)
(* which runs WriteRegisterUseCase, while refreshes go on.                 *)
(*                                                                         *)
(* A call is a plan: the (register, value) pairs it writes one after the   *)
(* other, a single pair for an entity.  It is cut at its awaits: the       *)
(* authentication, the write, each read-back.  A transport.send is one     *)
(* step, from the request to its answer: whose answer it is belongs to     *)
(* TcpRtuTransport and BLETransport.                                          *)
(*                                                                         *)
(* The inverter is external.  It accepts a write to a protected register   *)
(* only while it is unlocked, may store a neighbour of the value it        *)
(* acknowledged (Coarse registers), and is changed at its own panel.       *)
(***************************************************************************)
EXTENDS Integers, Sequences

CONSTANTS
  Registers,
  Protected,    \* the registers from 0xE000 to 0xE0FF
  Coarse,       \* the registers in which the inverter rounds
  Values,       \* of registers
  Numbers, Selects, Switches,  \* the entities
  Optimistic,   \* the numbers and selects with `optimistic: true'
  Target,       \* Target[e]: the register entity e writes
  Source,       \* Source[e]: the register entity e shows
  OtherState,   \* the value of a state register that is neither on nor off
  Batches,      \* the sequence of sets of registers a refresh reads
  Stop, ToAC, ToBattery,  \* discharge_stop_soc, switch_to_ac_soc, switch_to_battery_soc
  Presets,      \* the settings of a preset with its overrides, as plans
  Choices,      \* Choices[e]: the values the user may pick for entity e
  PanelChanges, \* the settings somebody may make at the inverter's own panel
  Starts,       \* what the registers may hold at first
  Callers,
  MaxAttempts,  \* _WRITE_VERIFY_MAX_ATTEMPTS
  Slack,        \* twice the tolerance of the read-back, in steps (the pack scale)
  None, Preset, \* no value; the "entity" of apply_preset()
  MaxCalls,     \* bound: calls
  MaxTrouble    \* bound: lost answers, odd refusals, failed refreshes, panel changes

Entities == Numbers \cup Selects \cup Switches

Settings == [reg: Registers, val: Values]

ASSUME WritesAssumption ==
  /\ Protected \subseteq Registers /\ Coarse \subseteq Registers
  /\ Values \subseteq Nat /\ OtherState \in Values
  /\ Target \in [Entities -> Registers] /\ Source \in [Entities -> Registers]
  /\ Optimistic \subseteq Numbers \cup Selects
  /\ Numbers \cap Selects = {} /\ (Numbers \cup Selects) \cap Switches = {}
  /\ Batches \in Seq(SUBSET Registers)
  /\ {Stop, ToAC, ToBattery} \subseteq Registers
  /\ Presets \subseteq Seq(Settings)
  /\ PanelChanges \subseteq Settings
  /\ Choices \in [Entities -> SUBSET Values] /\ Starts \subseteq [Registers -> Values]
  /\ None \notin Values \cup Callers /\ Preset \notin Entities
  /\ MaxAttempts \in Nat \ {0} /\ Slack \in Nat \ {0}
  /\ MaxCalls \in Nat /\ MaxTrouble \in Nat

VARIABLES
  dev,       \* the registers of the inverter
  unlocked,  \* it takes writes to protected registers
  password,  \* the one in the config entry: none (0), right, wrong
  data,      \* coordinator.data
  opt,       \* each entity's optimistic value
  call,      \* what each caller is doing
  refresh,   \* the refresh: batches read so far, values of their registers
  good,      \* coordinator.last_update_success
  acked,     \* history: the values the inverter acknowledged for each entity
  calls,     \* calls left
  budget     \* troubles left

vars == <<dev, unlocked, password, data, opt, call, refresh, good, acked, calls, budget>>

\* `at' is the place in the plan; `clean': no setting has failed so far.
\* History: `seen', what the register has held since the inverter acknowledged
\* the write; `alone', nobody else has written the SOC registers meanwhile.
Calls == [pc: {"idle", "pick", "auth", "write", "verify", "ok", "failed"},
          entity: Entities \cup {Preset},
          plan: Seq(Settings), at: Nat, tries: 0..(MaxAttempts - 1),
          clean: BOOLEAN, seen: SUBSET Values, alone: BOOLEAN]

Idle == [pc |-> "idle", entity |-> Preset, plan |-> <<>>, at |-> 1, tries |-> 0,
         clean |-> TRUE, seen |-> {}, alone |-> TRUE]

Waiting(d) == [pc |-> "idle", next |-> 1, snap |-> d]

TypeOK ==
  /\ dev \in [Registers -> Values] /\ data \in [Registers -> Values]
  /\ unlocked \in BOOLEAN /\ good \in BOOLEAN
  /\ password \in {"none", "right", "wrong"}
  /\ opt \in [Entities -> Values \cup {None}]
  /\ call \in [Callers -> Calls]
  /\ \A c \in Callers :
        call[c].pc \in {"pick", "auth", "write", "verify"} => call[c].at \in DOMAIN call[c].plan
  /\ refresh \in [pc: {"idle", "reading"}, next: Nat, snap: [Registers -> Values]]
  /\ acked \in [Entities -> SUBSET Values]
  /\ calls \in 0..MaxCalls /\ budget \in 0..MaxTrouble

\* The first refresh of the session is over: it has read everything.
Init ==
  /\ dev \in Starts /\ data = dev
  /\ unlocked = FALSE /\ good = TRUE
  /\ password \in {"none", "right", "wrong"}
  /\ opt = [e \in Entities |-> None]
  /\ call = [c \in Callers |-> Idle]
  /\ refresh = Waiting(dev)
  /\ acked = [e \in Entities |-> {}]
  /\ calls = MaxCalls /\ budget = MaxTrouble

Trouble == budget > 0 /\ budget' = budget - 1

-----------------------------------------------------------------------------
(* Operators *)

Setting(k) == k.plan[k.at]

\* PresetManager._validate_settings(): only settings that are both in the
\* plan are compared.
Less(plan, a, b) ==
  \A i, j \in DOMAIN plan :
     plan[i].reg = a /\ plan[j].reg = b => plan[i].val < plan[j].val

MutantOneOrder(plan) == Less(plan, Stop, ToAC)

Valid(plan) == Less(plan, Stop, ToAC) /\ Less(plan, ToAC, ToBattery)

\* The read-back counts as the value that was written.
Close(v, w) == 2 * (v - w) <= Slack /\ 2 * (w - v) <= Slack

MutantOffByOne(k, ok) ==
  IF k.entity # Preset
    THEN [k EXCEPT !.pc = IF ok THEN "ok" ELSE "failed", !.tries = 0]
  ELSE [k EXCEPT !.at = @ + 1, !.clean = @ /\ ok,
                 !.pc = IF k.at <= Len(k.plan) THEN "pick"
                        ELSE IF k.clean /\ ok THEN "ok" ELSE "failed"]

\* The setting is done: an entity's call ends, apply_preset() goes to the next.
AfterSetting(k, ok) ==
  IF k.entity # Preset
    THEN [k EXCEPT !.pc = IF ok THEN "ok" ELSE "failed", !.tries = 0]
  ELSE [k EXCEPT !.at = @ + 1, !.clean = @ /\ ok,
                 !.pc = IF k.at < Len(k.plan) THEN "pick"
                        ELSE IF k.clean /\ ok THEN "ok" ELSE "failed"]

MutantKeepsOnError(e, ok) ==
  IF e \in Numbers THEN [opt EXCEPT ![e] = None] ELSE opt

\* A failed call reverts the optimistic value, and so does a verified number.
Shed(e, ok) ==
  IF e \in Entities /\ (~ok \/ e \in Numbers) THEN [opt EXCEPT ![e] = None] ELSE opt

\* The end of a setting, for call c.
Conclude(c, ok) ==
  /\ call' = [call EXCEPT ![c] = AfterSetting(@, ok)]
  /\ opt' = Shed(call[c].entity, ok)

\* What a switch makes of a machine state: neither on nor off is None.
SwitchState(v) == IF v = OtherState THEN None ELSE v

\* What a state or value from coordinator.data says.
Confirmed(e, d) == IF e \in Switches THEN SwitchState(d[Source[e]]) ELSE d[Source[e]]

Shown(e) == IF opt[e] # None THEN opt[e] ELSE Confirmed(e, data)

MutantSelectKeeps(d) ==
  [e \in Entities |->
     IF e \in Numbers \/ Confirmed(e, d) = opt[e] THEN None ELSE opt[e]]

\* _handle_coordinator_update() of every entity.  A number compares its
\* optimistic value with native_value, which is that same value: it always
\* lets it go.  A select lets go on a mismatch too.
Heard(d) ==
  [e \in Entities |->
     IF e \in Switches /\ Confirmed(e, d) # opt[e] THEN opt[e] ELSE None]

\* The registers change: the histories of the calls take note.  `by' is the
\* caller whose write it is, if any.
Noted(new, by) ==
  [c \in Callers |->
     [call[c] EXCEPT
        !.seen = IF call[c].pc = "verify" THEN @ \cup {new[Setting(call[c]).reg]} ELSE @,
        !.alone = @ /\ (c = by \/ \A r \in {Stop, ToAC, ToBattery} : new[r] = dev[r])]]

\* What the inverter may hold once it has acknowledged v for register r.
Stored(r, v) ==
  {v} \cup {w \in Values : r \in Coarse /\ (w = v + 1 \/ v = w + 1)}

-----------------------------------------------------------------------------
(* Calls *)

Free(c) == call[c].pc \in {"idle", "ok", "failed"} /\ calls > 0

\* An entity's setting is asked for: a number and a select may show it at once,
\* a switch always does.
Begin(c, e, v) ==
  /\ Free(c) /\ v \in Choices[e]
  /\ opt' = IF e \in Optimistic \cup Switches THEN [opt EXCEPT ![e] = v] ELSE opt
  /\ call' = [call EXCEPT ![c] = [Idle EXCEPT !.pc = "pick", !.entity = e,
                                    !.plan = <<[reg |-> Target[e], val |-> v]>>]]
  /\ calls' = calls - 1
  /\ UNCHANGED <<dev, unlocked, password, data, refresh, good, acked, budget>>

\* async_set_native_value()
SetNumber(c, e, v) == e \in Numbers /\ Begin(c, e, v)

\* async_select_option()
SelectOption(c, e, v) == e \in Selects /\ Begin(c, e, v)

\* async_turn_on(), async_turn_off()
Turn(c, e, v) == e \in Switches /\ Begin(c, e, v)

\* apply_preset(): a plan that is not valid is refused before anything is written.
ApplyPreset(c, plan) ==
  /\ Free(c) /\ plan # <<>> /\ Valid(plan)
  /\ call' = [call EXCEPT ![c] = [Idle EXCEPT !.pc = "pick", !.plan = plan]]
  /\ calls' = calls - 1
  /\ UNCHANGED <<dev, unlocked, password, data, opt, refresh, good, acked, budget>>

\* WriteRegisterUseCase.execute() up to its first send.
StartWrite(c) ==
  /\ call[c].pc = "pick"
  /\ Setting(call[c]).reg \in Protected => password # "none"
  /\ call' = [call EXCEPT ![c].pc =
                IF Setting(call[c]).reg \in Protected THEN "auth" ELSE "write"]
  /\ UNCHANGED <<dev, unlocked, password, data, opt, refresh, good, acked, calls, budget>>

\* Nothing is sent: the register is protected and no password configured, or a
\* preset's setting has no register or a value that cannot be encoded.
NotSent(c) ==
  /\ call[c].pc = "pick"
  /\ \/ Setting(call[c]).reg \in Protected /\ password = "none" /\ UNCHANGED budget
     \/ call[c].entity = Preset /\ Trouble
  /\ Conclude(c, FALSE)
  /\ UNCHANGED <<dev, unlocked, password, data, refresh, good, acked, calls>>

\* _authenticate_with_password(): the answer to the write to 0xE203.
Authenticated(c) ==
  /\ call[c].pc = "auth" /\ password = "right"
  /\ unlocked' = TRUE
  /\ call' = [call EXCEPT ![c].pc = "write"]
  /\ UNCHANGED <<dev, password, data, opt, refresh, good, acked, calls, budget>>

WrongPassword(c) ==
  /\ call[c].pc = "auth" /\ password = "wrong"
  /\ Conclude(c, FALSE)
  /\ UNCHANGED <<dev, unlocked, password, data, refresh, good, acked, calls, budget>>

\* No answer, or the link is down; the inverter may have taken the password.
AuthLost(c) ==
  /\ call[c].pc = "auth" /\ Trouble
  /\ unlocked' \in {unlocked, unlocked \/ password = "right"}
  /\ Conclude(c, FALSE)
  /\ UNCHANGED <<dev, password, data, refresh, good, acked, calls>>

Writable(r) == r \in Protected => unlocked

\* _write_register(): an answer without "error" is a success.  A number goes
\* on to read the register back.
Accepted(c) ==
  /\ call[c].pc = "write" /\ Writable(Setting(call[c]).reg)
  /\ \E v \in Stored(Setting(call[c]).reg, Setting(call[c]).val) :
        LET new == [dev EXCEPT ![Setting(call[c]).reg] = v] IN
        /\ dev' = new
        /\ IF call[c].entity \in Numbers
             THEN /\ call' = [Noted(new, c) EXCEPT ![c].pc = "verify", ![c].seen = {v}]
                  /\ opt' = opt
             ELSE /\ call' = [Noted(new, c) EXCEPT ![c] = AfterSetting(@, TRUE)]
                  /\ opt' = Shed(call[c].entity, TRUE)
  /\ acked' = [e \in Entities |-> IF e = call[c].entity
                                  THEN acked[e] \cup {Setting(call[c]).val} ELSE acked[e]]
  /\ UNCHANGED <<unlocked, password, data, refresh, good, calls, budget>>

\* The inverter answers with an exception: it has locked itself again, or it
\* cannot make the change now.
WriteRejected(c) ==
  /\ call[c].pc = "write"
  /\ \/ ~Writable(Setting(call[c]).reg) /\ UNCHANGED budget
     \/ Trouble
  /\ Conclude(c, FALSE)
  /\ UNCHANGED <<dev, unlocked, password, data, refresh, good, acked, calls>>

\* The request or its answer is lost: the call fails, the write may be done.
WriteLost(c) ==
  /\ call[c].pc = "write" /\ Trouble
  /\ LET s == Setting(call[c]) IN
     \E new \in {dev} \cup {[dev EXCEPT ![s.reg] = v] :
                               v \in {w \in Stored(s.reg, s.val) : Writable(s.reg)}} :
        /\ dev' = new
        /\ call' = [Noted(new, c) EXCEPT ![c] = AfterSetting(@, FALSE)]
        /\ opt' = Shed(call[c].entity, FALSE)
  /\ UNCHANGED <<unlocked, password, data, refresh, good, acked, calls>>

MutantReadsCache(c) == data[Setting(call[c]).reg]

\* coordinator.async_read_register().  It catches every exception and returns None
\* for it, so that _verify_write()'s own except, which would take the write for
\* verified, has nothing to catch.
ReadBack(c) == dev[Setting(call[c]).reg]

\* _verify_write(): one more attempt is over without the value.
MutantTriesForEver(c) ==
  IF call[c].tries + 1 = MaxAttempts THEN UNCHANGED <<call, opt>>
  ELSE call' = [call EXCEPT ![c].tries = @ + 1] /\ opt' = opt

Again(c) ==
  IF call[c].tries + 1 = MaxAttempts THEN Conclude(c, FALSE)
  ELSE call' = [call EXCEPT ![c].tries = @ + 1] /\ opt' = opt

Verified(c) ==
  /\ call[c].pc = "verify" /\ Close(ReadBack(c), Setting(call[c]).val)
  /\ Conclude(c, TRUE)
  /\ UNCHANGED <<dev, unlocked, password, data, refresh, good, acked, calls, budget>>

\* Another value, or no answer at all.
NotVerified(c) ==
  /\ call[c].pc = "verify" /\ Again(c)
  /\ \/ ~Close(ReadBack(c), Setting(call[c]).val) /\ UNCHANGED budget
     \/ Trouble
  /\ UNCHANGED <<dev, unlocked, password, data, refresh, good, acked, calls>>

\* The read is answered with an exception: async_read_register() returns
\* 0x2D2D, and no further attempt is made.
ReadRejected(c) ==
  /\ call[c].pc = "verify" /\ Trouble
  /\ Conclude(c, FALSE)
  /\ UNCHANGED <<dev, unlocked, password, data, refresh, good, acked, calls>>

-----------------------------------------------------------------------------
(* Refreshes *)

StartRefresh ==
  /\ refresh.pc = "idle"
  /\ refresh' = [refresh EXCEPT !.pc = "reading", !.next = 1]
  /\ UNCHANGED <<dev, unlocked, password, data, opt, call, good, acked, calls, budget>>

ReadBatch ==
  /\ refresh.pc = "reading" /\ refresh.next \in DOMAIN Batches
  /\ refresh' = [refresh EXCEPT
                   !.next = @ + 1,
                   !.snap = [r \in Registers |-> IF r \in Batches[refresh.next]
                                                 THEN dev[r] ELSE refresh.snap[r]]]
  /\ UNCHANGED <<dev, unlocked, password, data, opt, call, good, acked, calls, budget>>

\* coordinator.data is replaced, and every entity hears of it.
Publish ==
  /\ refresh.pc = "reading" /\ refresh.next = Len(Batches) + 1
  /\ data' = refresh.snap /\ good' = TRUE
  /\ opt' = Heard(refresh.snap)
  /\ refresh' = Waiting(refresh.snap)
  /\ UNCHANGED <<dev, unlocked, password, call, acked, calls, budget>>

\* UpdateFailed: the data stay; the entities hear of the first failure.
RefreshFails ==
  /\ refresh.pc = "reading" /\ Trouble
  /\ good' = FALSE
  /\ opt' = IF good THEN Heard(data) ELSE opt
  /\ refresh' = Waiting(data)
  /\ UNCHANGED <<dev, unlocked, password, data, call, acked, calls>>

-----------------------------------------------------------------------------
(* The inverter *)

Relock ==
  /\ unlocked /\ unlocked' = FALSE /\ Trouble
  /\ UNCHANGED <<dev, password, data, opt, call, refresh, good, acked, calls>>

\* The state a switch shows follows its command register, or is another one.
StateMoves(e) ==
  /\ \E v \in {dev[Target[e]], OtherState} :
        /\ dev[Source[e]] # v
        /\ IF v = OtherState THEN Trouble ELSE UNCHANGED budget
        /\ dev' = [dev EXCEPT ![Source[e]] = v]
        /\ call' = Noted(dev', None)
  /\ UNCHANGED <<unlocked, password, data, opt, refresh, good, acked, calls>>

Panel(s) ==
  /\ Trouble /\ dev[s.reg] # s.val
  /\ dev' = [dev EXCEPT ![s.reg] = s.val]
  /\ call' = Noted(dev', None)
  /\ UNCHANGED <<unlocked, password, data, opt, refresh, good, acked, calls>>

-----------------------------------------------------------------------------
Working(c) ==
  \/ StartWrite(c) \/ NotSent(c)
  \/ Authenticated(c) \/ WrongPassword(c) \/ AuthLost(c)
  \/ Accepted(c) \/ WriteRejected(c) \/ WriteLost(c)
  \/ Verified(c) \/ NotVerified(c) \/ ReadRejected(c)

Refreshing == StartRefresh \/ ReadBatch \/ Publish \/ RefreshFails

Next ==
  \/ \E c \in Callers : \/ \E e \in Entities, v \in Values :
                              SetNumber(c, e, v) \/ SelectOption(c, e, v) \/ Turn(c, e, v)
                        \/ \E plan \in Presets : ApplyPreset(c, plan)
                        \/ Working(c)
  \/ Refreshing
  \/ Relock
  \/ \E e \in Switches : StateMoves(e)
  \/ \E s \in PanelChanges : Panel(s)

\* A call goes on until it ends: each send is answered or times out.  Home
\* Assistant calls for a refresh every update interval.
Fairness == /\ \A c \in Callers : WF_vars(Working(c))
            /\ WF_vars(Refreshing)

Spec == Init /\ [][Next]_vars /\ Fairness

-----------------------------------------------------------------------------
(* Properties *)

\* configurable_number.py: a number that reports success has been seen on the
\* inverter, within the tolerance, since the inverter acknowledged the write.
SuccessMeansHeld ==
  \A c \in Callers :
     call[c].pc = "ok" /\ call[c].entity \in Numbers =>
        \E v \in call[c].seen : Close(v, Setting(call[c]).val)

\* An optimistic value is one a call in flight asks for, or one the inverter
\* has acknowledged: whatever two calls to one entity and the refreshes do to
\* it, the value of a failed write does not stay on display.
NoFailedValueShown ==
  \A e \in Entities :
     \/ opt[e] \in acked[e] \cup {None}
     \/ \E c \in Callers : /\ call[c].pc \in {"pick", "auth", "write", "verify"}
                           /\ call[c].entity = e /\ Setting(call[c]).val = opt[e]

\* preset_manager.py: when apply_preset() reports that all of a preset with
\* the three SOC thresholds was applied, and nobody else wrote one of them
\* meanwhile, the inverter has them in order, though it was given them one by
\* one and other writes failed on the way.
PresetKeepsOrder ==
  \A c \in Callers :
     /\ call[c].pc = "ok" /\ call[c].entity = Preset /\ call[c].alone
     /\ {Stop, ToAC, ToBattery} \subseteq {call[c].plan[i].reg : i \in DOMAIN call[c].plan}
     => dev[Stop] < dev[ToAC] /\ dev[ToAC] < dev[ToBattery]

\* Every call ends: no lost answer and no register that keeps another value
\* holds a caller for ever.
CallsEnd ==
  \A c \in Callers : call[c].pc = "pick" ~> call[c].pc \in {"ok", "failed"}

\* Once the writes are over, numbers and selects show what the inverter holds,
\* whatever a refresh that overlapped them has published in between.
Settles ==
  <>[](\A e \in Numbers \cup Selects : Shown(e) = dev[Source[e]])
=============================================================================
