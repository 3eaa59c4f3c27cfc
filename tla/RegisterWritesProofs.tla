------------------------ MODULE RegisterWritesProofs ------------------------
(***************************************************************************)
(* Theorems about RegisterWrites, for any registers, entities, presets,    *)
(* callers and bounds.                                                     *)
(***************************************************************************)
EXTENDS RegisterWrites, TLAPS

-----------------------------------------------------------------------------
(* One call *)

Busy == {"pick", "auth", "write", "verify"}

\* A call with a setting to work on.
CallTyped(k) == k \in Calls /\ (k.pc \in Busy => k.at \in DOMAIN k.plan)

LEMMA PlanElements ==
  ASSUME NEW s \in Seq(Settings)
  PROVE  /\ DOMAIN s = 1..Len(s) /\ Len(s) \in Nat
         /\ \A i \in DOMAIN s : s[i].reg \in Registers /\ s[i].val \in Values
<1>1. DOMAIN s = 1..Len(s) /\ Len(s) \in Nat /\ \A i \in DOMAIN s : s[i] \in Settings
  OBVIOUS
<1>2. QED BY <1>1 DEF Settings

LEMMA SettingTyped ==
  ASSUME NEW k, CallTyped(k), k.pc \in Busy
  PROVE  Setting(k).reg \in Registers /\ Setting(k).val \in Values
<1>1. k.plan \in Seq(Settings)
  BY DEF CallTyped, Calls
<1>2. QED BY <1>1, PlanElements DEF CallTyped, Setting

LEMMA IdleTyped == CallTyped(Idle)
<1>1. Idle \in Calls
  BY WritesAssumption DEF Idle, Calls
<1>2. QED BY <1>1 DEF CallTyped, Idle, Busy

\* What a call is after a setting that went well or not.
LEMMA AfterSettingShape ==
  ASSUME NEW k, CallTyped(k), k.pc \in Busy, NEW ok \in BOOLEAN
  PROVE  LET n == AfterSetting(k, ok) IN
         /\ CallTyped(n) /\ n.entity = k.entity /\ n.plan = k.plan
         /\ n.seen = k.seen /\ n.alone = k.alone
         /\ n.pc \in {"pick", "ok", "failed"}
         /\ k.entity # Preset => n.at = k.at /\ n.pc = IF ok THEN "ok" ELSE "failed"
         /\ k.entity = Preset => /\ n.at = k.at + 1 /\ n.clean = (k.clean /\ ok)
                                 /\ n.pc = "pick" => k.at < Len(k.plan)
                                 /\ n.pc = "ok" => k.at >= Len(k.plan) /\ k.clean /\ ok
<1> DEFINE n == AfterSetting(k, ok)
<1>1. k \in Calls /\ k.at \in 1..Len(k.plan) /\ Len(k.plan) \in Nat /\ k.plan \in Seq(Settings)
  <2>1. k \in Calls /\ k.at \in DOMAIN k.plan
    BY DEF CallTyped
  <2>2. k.plan \in Seq(Settings)
    BY <2>1 DEF Calls
  <2>3. QED BY <2>1, <2>2, PlanElements
<1>2. CASE k.entity # Preset
  <2> DEFINE p == IF ok THEN "ok" ELSE "failed"
  <2>1. n = [k EXCEPT !.pc = p, !.tries = 0]
    BY <1>2 DEF AfterSetting
  <2>2. p \in {"ok", "failed"} /\ 0 \in 0..(MaxAttempts - 1)
    BY WritesAssumption
  <2>3. n \in Calls
    BY <2>1, <2>2, <1>1 DEF Calls
  <2>4. /\ n.entity = k.entity /\ n.plan = k.plan /\ n.seen = k.seen /\ n.alone = k.alone
        /\ n.at = k.at /\ n.pc = p
    BY <2>1, <1>1 DEF Calls
  <2>5. QED BY <2>2, <2>3, <2>4, <1>2 DEF CallTyped, Busy
<1>3. CASE k.entity = Preset
  <2> DEFINE p == IF k.at < Len(k.plan) THEN "pick"
                  ELSE IF k.clean /\ ok THEN "ok" ELSE "failed"
  <2>1. n = [k EXCEPT !.at = @ + 1, !.clean = @ /\ ok, !.pc = p]
    BY <1>3 DEF AfterSetting
  <2>2. k.at + 1 \in Nat /\ (k.clean /\ ok) \in BOOLEAN /\ p \in {"pick", "ok", "failed"}
    BY <1>1 DEF Calls
  <2>3. n \in Calls
    BY <2>1, <2>2, <1>1 DEF Calls
  <2>4. /\ n.entity = k.entity /\ n.plan = k.plan /\ n.seen = k.seen /\ n.alone = k.alone
        /\ n.at = k.at + 1 /\ n.clean = (k.clean /\ ok) /\ n.pc = p
    BY <2>1, <1>1 DEF Calls
  <2>5. p = "pick" => k.at < Len(k.plan)
    OBVIOUS
  <2>6. p = "ok" => k.at >= Len(k.plan) /\ k.clean /\ ok
    BY <1>1
  <2>7. n.pc \in Busy => n.at \in DOMAIN n.plan
    <3>1. p \in Busy => k.at + 1 \in 1..Len(k.plan)
      BY <1>1 DEF Busy
    <3>2. DOMAIN k.plan = 1..Len(k.plan)
      BY <1>1
    <3>3. QED BY <3>1, <3>2, <2>4
  <2>8. QED BY <2>2, <2>3, <2>4, <2>5, <2>6, <2>7, <1>3 DEF CallTyped
<1>4. QED BY <1>2, <1>3

-----------------------------------------------------------------------------
(* All calls *)

CallsTyped == call \in [Callers -> Calls] /\ \A c \in Callers : CallTyped(call[c])

RegistersTyped == dev \in [Registers -> Values] /\ data \in [Registers -> Values]

RestTyped ==
  /\ unlocked \in BOOLEAN /\ good \in BOOLEAN
  /\ password \in {"none", "right", "wrong"}
  /\ refresh \in [pc: {"idle", "reading"}, next: Nat, snap: [Registers -> Values]]
  /\ acked \in [Entities -> SUBSET Values]
  /\ calls \in 0..MaxCalls /\ budget \in 0..MaxTrouble

OptTyped == opt \in [Entities -> Values \cup {None}]

LEMMA TypeParts == TypeOK <=> CallsTyped /\ RegistersTyped /\ RestTyped /\ OptTyped
<1>1. TypeOK => CallsTyped /\ RegistersTyped /\ RestTyped /\ OptTyped
  BY DEF TypeOK, CallsTyped, CallTyped, RegistersTyped, RestTyped, OptTyped, Busy
<1>2. CallsTyped /\ RegistersTyped /\ RestTyped /\ OptTyped => TypeOK
  BY DEF TypeOK, CallsTyped, CallTyped, RegistersTyped, RestTyped, OptTyped, Busy
<1>3. QED BY <1>1, <1>2

LEMMA TypeAfter ==
  ASSUME CallsTyped', RegistersTyped', RestTyped', OptTyped'
  PROVE  TypeOK'
BY DEF TypeOK, CallsTyped, CallTyped, RegistersTyped, RestTyped, OptTyped, Busy

\* Two calls that differ in their histories only.
Alike(k, n) ==
  /\ n.pc = k.pc /\ n.entity = k.entity /\ n.plan = k.plan
  /\ n.at = k.at /\ n.tries = k.tries /\ n.clean = k.clean

WithHistory(k, v, a) == [k EXCEPT !.seen = v, !.alone = a]

LEMMA HistoryShape ==
  ASSUME NEW k, CallTyped(k), NEW v \in SUBSET Values, NEW a \in BOOLEAN
  PROVE  /\ CallTyped(WithHistory(k, v, a)) /\ Alike(k, WithHistory(k, v, a))
         /\ WithHistory(k, v, a).seen = v /\ WithHistory(k, v, a).alone = a
<1>1. k \in Calls
  BY DEF CallTyped
<1>2. /\ WithHistory(k, v, a) \in Calls /\ Alike(k, WithHistory(k, v, a))
      /\ WithHistory(k, v, a).seen = v /\ WithHistory(k, v, a).alone = a
  BY <1>1 DEF Calls, Alike, WithHistory
<1>3. CallTyped(WithHistory(k, v, a))
  BY <1>2 DEF Alike, CallTyped
<1>4. QED BY <1>2, <1>3

LEMMA NotedShape ==
  ASSUME CallsTyped, NEW new \in [Registers -> Values], NEW by
  PROVE  /\ Noted(new, by) \in [Callers -> Calls]
         /\ \A c \in Callers :
              LET n == Noted(new, by)[c] IN
              /\ CallTyped(n) /\ Alike(call[c], n)
              /\ n.seen = IF call[c].pc = "verify"
                          THEN call[c].seen \cup {new[Setting(call[c]).reg]} ELSE call[c].seen
              /\ n.alone => /\ call[c].alone
                            /\ c = by \/ \A r \in {Stop, ToAC, ToBattery} : new[r] = dev[r]
<1>1. ASSUME NEW c \in Callers
      PROVE  LET n == Noted(new, by)[c] IN
             /\ CallTyped(n) /\ Alike(call[c], n)
             /\ n.seen = IF call[c].pc = "verify"
                         THEN call[c].seen \cup {new[Setting(call[c]).reg]} ELSE call[c].seen
             /\ n.alone => /\ call[c].alone
                           /\ c = by \/ \A r \in {Stop, ToAC, ToBattery} : new[r] = dev[r]
  <2>1. CallTyped(call[c])
    BY DEF CallsTyped
  <2>2. PICK v : v = IF call[c].pc = "verify"
                     THEN call[c].seen \cup {new[Setting(call[c]).reg]} ELSE call[c].seen
    OBVIOUS
  <2>3. PICK a \in BOOLEAN :
          a = (/\ call[c].alone
               /\ c = by \/ \A r \in {Stop, ToAC, ToBattery} : new[r] = dev[r])
    OBVIOUS
  <2>4. Noted(new, by)[c] = WithHistory(call[c], v, a)
    BY <2>2, <2>3 DEF Noted, WithHistory
  <2>5. v \in SUBSET Values
    <3>1. call[c].seen \in SUBSET Values
      BY <2>1 DEF CallTyped, Calls
    <3>2. call[c].pc = "verify" => Setting(call[c]).reg \in Registers
      BY <2>1, SettingTyped DEF Busy
    <3>3. QED BY <2>2, <3>1, <3>2
  <2>6. PICK n : n = Noted(new, by)[c]
    OBVIOUS
  <2>7. CallTyped(n) /\ Alike(call[c], n) /\ n.seen = v /\ n.alone = a
    <3>1. /\ CallTyped(WithHistory(call[c], v, a)) /\ Alike(call[c], WithHistory(call[c], v, a))
          /\ WithHistory(call[c], v, a).seen = v /\ WithHistory(call[c], v, a).alone = a
      BY <2>1, <2>3, <2>5, HistoryShape, Zenon
    <3>2. QED BY <2>4, <2>6, <3>1
  <2>8. n.alone => /\ call[c].alone
                   /\ c = by \/ \A r \in {Stop, ToAC, ToBattery} : new[r] = dev[r]
    BY <2>3, <2>7
  <2>9. QED BY <2>2, <2>6, <2>7, <2>8
<1>2. \A c \in Callers : Noted(new, by)[c] \in Calls
  BY <1>1 DEF CallTyped
<1>3. Noted(new, by) \in [Callers -> Calls]
  BY <1>2 DEF Noted
<1>4. QED BY <1>1, <1>3

LEMMA ShedTyped ==
  ASSUME OptTyped, NEW e, NEW ok
  PROVE  Shed(e, ok) \in [Entities -> Values \cup {None}]
BY DEF Shed, OptTyped

LEMMA HeardTyped ==
  ASSUME OptTyped, NEW d
  PROVE  Heard(d) \in [Entities -> Values \cup {None}]
BY DEF Heard, OptTyped

\* The end of a setting, as the invariants need it.
LEMMA ConcludeShape ==
  ASSUME CallsTyped, OptTyped, NEW c \in Callers, call[c].pc \in Busy,
         NEW ok \in BOOLEAN, Conclude(c, ok)
  PROVE  /\ CallsTyped' /\ OptTyped'
         /\ opt' = Shed(call[c].entity, ok)
         /\ call'[c] = AfterSetting(call[c], ok)
         /\ \A d \in Callers \ {c} : call'[d] = call[d]
<1>1. /\ call' = [call EXCEPT ![c] = AfterSetting(call[c], ok)]
      /\ opt' = Shed(call[c].entity, ok)
  BY DEF Conclude
<1>2. CallTyped(AfterSetting(call[c], ok))
  BY AfterSettingShape DEF CallsTyped
<1>3. /\ call'[c] = AfterSetting(call[c], ok)
      /\ \A d \in Callers \ {c} : call'[d] = call[d]
  BY <1>1 DEF CallsTyped
<1>4. CallsTyped'
  BY <1>1, <1>2, <1>3 DEF CallsTyped, CallTyped
<1>5. QED BY <1>1, <1>3, <1>4, ShedTyped DEF OptTyped

LEMMA TroubleTyped ==
  ASSUME budget \in 0..MaxTrouble, Trouble \/ UNCHANGED budget
  PROVE  budget' \in 0..MaxTrouble
BY WritesAssumption DEF Trouble

-----------------------------------------------------------------------------
(* Type correctness *)

LEMMA SetsTyped == None \notin Values /\ Values \subseteq Nat /\ Preset \notin Entities
BY WritesAssumption

LEMMA BeginTyped ==
  ASSUME NEW c \in Callers, NEW e \in Entities, NEW v \in Values
  PROVE  CallTyped([Idle EXCEPT !.pc = "pick", !.entity = e,
                                !.plan = <<[reg |-> Target[e], val |-> v]>>])
<1>1. Idle \in Calls
  BY IdleTyped DEF CallTyped
<1>2. PICK s \in Settings : s = [reg |-> Target[e], val |-> v]
  BY WritesAssumption DEF Settings
<1>3. PICK plan : plan = <<s>>
  OBVIOUS
<1>4. plan \in Seq(Settings) /\ 1 \in DOMAIN plan
  BY <1>2, <1>3
<1>5. [Idle EXCEPT !.pc = "pick", !.entity = e, !.plan = plan] \in Calls
  BY <1>1, <1>4 DEF Calls
<1>6. [Idle EXCEPT !.pc = "pick", !.entity = e, !.plan = plan].at \in DOMAIN plan
  BY <1>4 DEF Idle
<1>7. QED BY <1>2, <1>3, <1>4, <1>5, <1>6 DEF CallTyped, Idle

LEMMA PresetTyped ==
  ASSUME NEW plan \in Presets, plan # <<>>
  PROVE  CallTyped([Idle EXCEPT !.pc = "pick", !.plan = plan])
<1>1. plan \in Seq(Settings)
  BY WritesAssumption
<1>2. 1 \in DOMAIN plan
  BY <1>1
<1>3. Idle \in Calls
  BY IdleTyped DEF CallTyped
<1>4. [Idle EXCEPT !.pc = "pick", !.plan = plan] \in Calls
  BY <1>1, <1>3 DEF Calls
<1>5. QED BY <1>1, <1>2, <1>4 DEF CallTyped, Idle

\* A call moves to another stage, or counts one more attempt.
LEMMA MovedTyped ==
  ASSUME NEW k, CallTyped(k), k.pc \in Busy, NEW p \in Busy
  PROVE  CallTyped([k EXCEPT !.pc = p])
<1>1. k \in Calls /\ k.at \in DOMAIN k.plan
  BY DEF CallTyped
<1>2. [k EXCEPT !.pc = p] \in Calls
  BY <1>1 DEF Calls, Busy
<1>3. QED BY <1>1, <1>2 DEF CallTyped, Calls

LEMMA TriedTyped ==
  ASSUME NEW k, CallTyped(k), k.tries + 1 # MaxAttempts
  PROVE  CallTyped([k EXCEPT !.tries = k.tries + 1])
<1>1. k \in Calls
  BY DEF CallTyped
<1>2. k.tries + 1 \in 0..(MaxAttempts - 1)
  <2>1. k.tries \in 0..(MaxAttempts - 1)
    BY <1>1 DEF Calls
  <2>2. MaxAttempts \in Nat \ {0}
    BY WritesAssumption
  <2>3. QED BY <2>1, <2>2
<1>3. [k EXCEPT !.tries = k.tries + 1] \in Calls
  BY <1>1, <1>2 DEF Calls
<1>4. QED BY <1>1, <1>3 DEF CallTyped, Calls

LEMMA OneCallTyped ==
  ASSUME CallsTyped, NEW c \in Callers, NEW n, CallTyped(n), call' = [call EXCEPT ![c] = n]
  PROVE  CallsTyped'
<1>1. \A d \in Callers : CallTyped(call'[d])
  BY DEF CallsTyped
<1>2. call' \in [Callers -> Calls]
  BY DEF CallsTyped, CallTyped
<1>3. QED BY <1>1, <1>2 DEF CallsTyped, CallTyped

LEMMA StoredTyped ==
  ASSUME NEW r \in Registers, NEW v \in Values
  PROVE  Stored(r, v) \subseteq Values
BY DEF Stored

LEMMA InitTyped == Init => TypeOK
<1> SUFFICES ASSUME Init PROVE TypeOK
  OBVIOUS
<1>1. CallsTyped
  BY IdleTyped DEF Init, CallsTyped, CallTyped
<1>2. RegistersTyped
  BY WritesAssumption DEF Init, RegistersTyped
<1>3. refresh \in [pc: {"idle", "reading"}, next: Nat, snap: [Registers -> Values]]
  <2>1. dev \in [Registers -> Values] /\ refresh = Waiting(dev)
    BY WritesAssumption DEF Init
  <2>2. QED BY <2>1 DEF Waiting
<1>4. calls \in 0..MaxCalls /\ budget \in 0..MaxTrouble
  BY WritesAssumption DEF Init
<1>5. RestTyped
  BY <1>3, <1>4 DEF Init, RestTyped
<1>6. OptTyped
  BY DEF Init, OptTyped
<1>7. QED BY <1>1, <1>2, <1>5, <1>6, TypeParts

\* The steps of a call before and after its write.
LEMMA CallStepsTyped ==
  ASSUME TypeOK, NEW c \in Callers,
         \/ StartWrite(c) \/ NotSent(c) \/ Authenticated(c) \/ WrongPassword(c)
         \/ AuthLost(c) \/ WriteRejected(c) \/ Verified(c) \/ NotVerified(c) \/ ReadRejected(c)
  PROVE  TypeOK'
<1>1. CallsTyped /\ RegistersTyped /\ RestTyped /\ OptTyped
  BY TypeParts
<1>2. CallTyped(call[c])
  BY <1>1 DEF CallsTyped
<1>3. call[c].pc \in Busy
  BY DEF StartWrite, NotSent, Authenticated, WrongPassword, AuthLost,
         WriteRejected, Verified, NotVerified, ReadRejected, Busy
<1>4. RegistersTyped'
  BY <1>1 DEF StartWrite, NotSent, Authenticated, WrongPassword, AuthLost,
         WriteRejected, Verified, NotVerified, ReadRejected, RegistersTyped
<1>5. RestTyped'
  <2>1. budget' \in 0..MaxTrouble
    BY <1>1, TroubleTyped DEF StartWrite, NotSent, Authenticated, WrongPassword,
           AuthLost, WriteRejected, Verified, NotVerified, ReadRejected, RestTyped
  <2>2. unlocked' \in BOOLEAN
    BY <1>1 DEF StartWrite, NotSent, Authenticated, WrongPassword, AuthLost,
           WriteRejected, Verified, NotVerified, ReadRejected, RestTyped
  <2>3. QED BY <2>1, <2>2, <1>1 DEF StartWrite, NotSent, Authenticated,
           WrongPassword, AuthLost, WriteRejected, Verified, NotVerified, ReadRejected, RestTyped
<1>6. CallsTyped' /\ OptTyped'
  <2>1. CASE \E ok \in BOOLEAN : Conclude(c, ok)
    BY <2>1, <1>1, <1>3, ConcludeShape
  <2>2. CASE StartWrite(c) \/ Authenticated(c)
    <3>1. PICK p \in Busy : call' = [call EXCEPT ![c] = [call[c] EXCEPT !.pc = p]]
      BY <2>2 DEF StartWrite, Authenticated, Busy
    <3>2. OptTyped'
      BY <2>2, <1>1 DEF StartWrite, Authenticated, OptTyped
    <3>3. QED BY <3>1, <3>2, <1>1, <1>2, <1>3, MovedTyped, OneCallTyped
  <2>3. CASE NotVerified(c) /\ ~\E ok \in BOOLEAN : Conclude(c, ok)
    <3>1. /\ call[c].tries + 1 # MaxAttempts /\ opt' = opt
          /\ call' = [call EXCEPT ![c] = [call[c] EXCEPT !.tries = call[c].tries + 1]]
      BY <2>3 DEF NotVerified, Again
    <3>2. QED BY <3>1, <1>1, <1>2, TriedTyped, OneCallTyped DEF OptTyped
  <2>4. QED BY <2>1, <2>2, <2>3 DEF NotSent, WrongPassword, AuthLost,
           WriteRejected, Verified, ReadRejected
<1>7. QED BY <1>4, <1>5, <1>6, TypeAfter

LEMMA RequestsTyped ==
  ASSUME TypeOK, NEW c \in Callers,
         \/ \E e \in Entities, v \in Values : Begin(c, e, v)
         \/ \E plan \in Presets : ApplyPreset(c, plan)
  PROVE  TypeOK'
<1>1. CallsTyped /\ RegistersTyped /\ RestTyped /\ OptTyped
  BY TypeParts
<1>2. RegistersTyped'
  BY <1>1 DEF Begin, ApplyPreset, RegistersTyped
<1>3. RestTyped'
  <2>1. calls > 0 /\ calls' = calls - 1
    BY DEF Begin, ApplyPreset, Free
  <2>2. calls' \in 0..MaxCalls
    BY <2>1, <1>1, WritesAssumption DEF RestTyped
  <2>3. QED BY <2>2, <1>1 DEF Begin, ApplyPreset, RestTyped
<1>4. CallsTyped' /\ OptTyped'
  <2>1. ASSUME NEW e \in Entities, NEW v \in Values, Begin(c, e, v)
        PROVE  CallsTyped' /\ OptTyped'
    <3>1. CallsTyped'
      BY <2>1, <1>1, BeginTyped, OneCallTyped DEF Begin
    <3>2. OptTyped'
      BY <2>1, <1>1 DEF Begin, OptTyped
    <3>3. QED BY <3>1, <3>2
  <2>2. ASSUME NEW plan \in Presets, ApplyPreset(c, plan)
        PROVE  CallsTyped' /\ OptTyped'
    <3>1. CallsTyped'
      BY <2>2, <1>1, PresetTyped, OneCallTyped DEF ApplyPreset
    <3>2. OptTyped'
      BY <2>2, <1>1 DEF ApplyPreset, OptTyped
    <3>3. QED BY <3>1, <3>2
  <2>3. QED BY <2>1, <2>2
<1>5. QED BY <1>2, <1>3, <1>4, TypeAfter

\* The call c after its write, which left the registers as `new'.
LEMMA WrittenTyped ==
  ASSUME CallsTyped, NEW new \in [Registers -> Values], NEW c \in Callers, NEW n, CallTyped(n),
         call' = [Noted(new, c) EXCEPT ![c] = n]
  PROVE  CallsTyped'
<1>1. Noted(new, c) \in [Callers -> Calls] /\ \A d \in Callers : CallTyped(Noted(new, c)[d])
  BY NotedShape
<1>2. n \in Calls
  BY DEF CallTyped
<1>3. call' \in [Callers -> Calls] /\ \A d \in Callers : call'[d] = IF d = c THEN n ELSE Noted(new, c)[d]
  BY <1>1, <1>2
<1>4. QED BY <1>1, <1>3 DEF CallsTyped, CallTyped

\* The call that goes on to read back what it wrote.
LEMMA VerifyingTyped ==
  ASSUME NEW k, CallTyped(k), k.pc \in Busy, NEW v \in Values
  PROVE  CallTyped([k EXCEPT !.pc = "verify", !.seen = {v}])
<1>1. k \in Calls /\ k.at \in DOMAIN k.plan
  BY DEF CallTyped
<1>2. {v} \in SUBSET Values
  OBVIOUS
<1>3. [k EXCEPT !.pc = "verify", !.seen = {v}] \in Calls
  BY <1>1, <1>2 DEF Calls
<1>4. QED BY <1>1, <1>3 DEF CallTyped, Calls

LEMMA AcceptedShape ==
  ASSUME TypeOK, NEW c \in Callers, Accepted(c)
  PROVE  /\ call[c].pc = "write" /\ CallTyped(Noted(dev', c)[c]) /\ Noted(dev', c)[c].pc = "write"
         /\ \E v \in Values :
              /\ v \in Stored(Setting(call[c]).reg, Setting(call[c]).val)
              /\ dev' = [dev EXCEPT ![Setting(call[c]).reg] = v]
              /\ dev' \in [Registers -> Values]
              /\ \/ /\ call[c].entity \in Numbers /\ opt' = opt
                    /\ call' = [Noted(dev', c) EXCEPT
                                  ![c] = [Noted(dev', c)[c] EXCEPT !.pc = "verify", !.seen = {v}]]
                 \/ /\ call[c].entity \notin Numbers /\ opt' = Shed(call[c].entity, TRUE)
                    /\ call' = [Noted(dev', c) EXCEPT
                                  ![c] = AfterSetting(Noted(dev', c)[c], TRUE)]
<1>1. CallsTyped /\ RegistersTyped
  BY TypeParts
<1>2. call[c].pc = "write" /\ CallTyped(call[c])
  BY <1>1 DEF Accepted, CallsTyped
<1>3. Setting(call[c]).reg \in Registers /\ Setting(call[c]).val \in Values
  BY <1>2, SettingTyped DEF Busy
<1>4. PICK v \in Stored(Setting(call[c]).reg, Setting(call[c]).val) :
        /\ dev' = [dev EXCEPT ![Setting(call[c]).reg] = v]
        /\ IF call[c].entity \in Numbers
             THEN /\ call' = [Noted(dev', c) EXCEPT ![c].pc = "verify", ![c].seen = {v}]
                  /\ opt' = opt
             ELSE /\ call' = [Noted(dev', c) EXCEPT ![c] = AfterSetting(@, TRUE)]
                  /\ opt' = Shed(call[c].entity, TRUE)
  BY DEF Accepted
<1>5. v \in Values
  BY <1>3, <1>4, StoredTyped
<1>6. dev' \in [Registers -> Values]
  BY <1>1, <1>4, <1>5 DEF RegistersTyped
<1>7. /\ Noted(dev', c) \in [Callers -> Calls]
      /\ CallTyped(Noted(dev', c)[c]) /\ Alike(call[c], Noted(dev', c)[c])
  BY <1>1, <1>6, NotedShape
<1>8. ASSUME call[c].entity \in Numbers
      PROVE  call' = [Noted(dev', c) EXCEPT
                        ![c] = [Noted(dev', c)[c] EXCEPT !.pc = "verify", !.seen = {v}]]
  <2>1. PICK f \in [Callers -> Calls] : f = Noted(dev', c)
    BY <1>7
  <2>2. call' = [f EXCEPT ![c].pc = "verify", ![c].seen = {v}]
    BY <1>4, <1>8, <2>1
  <2>3. [f EXCEPT ![c].pc = "verify", ![c].seen = {v}]
          = [f EXCEPT ![c] = [f[c] EXCEPT !.pc = "verify", !.seen = {v}]]
    BY <2>1 DEF Calls
  <2>4. QED BY <2>1, <2>2, <2>3
<1>9. QED BY <1>2, <1>4, <1>5, <1>6, <1>7, <1>8 DEF Alike

LEMMA WriteLostShape ==
  ASSUME TypeOK, NEW c \in Callers, WriteLost(c)
  PROVE  /\ call[c].pc = "write" /\ CallTyped(Noted(dev', c)[c]) /\ Noted(dev', c)[c].pc = "write"
         /\ dev' \in [Registers -> Values] /\ opt' = Shed(call[c].entity, FALSE)
         /\ call' = [Noted(dev', c) EXCEPT ![c] = AfterSetting(Noted(dev', c)[c], FALSE)]
<1>1. CallsTyped /\ RegistersTyped
  BY TypeParts
<1>2. call[c].pc = "write" /\ CallTyped(call[c])
  BY <1>1 DEF WriteLost, CallsTyped
<1>3. Setting(call[c]).reg \in Registers /\ Setting(call[c]).val \in Values
  BY <1>2, SettingTyped DEF Busy
<1>4. /\ dev' \in {dev} \cup {[dev EXCEPT ![Setting(call[c]).reg] = v] :
                  v \in {w \in Stored(Setting(call[c]).reg, Setting(call[c]).val) :
                           Writable(Setting(call[c]).reg)}}
      /\ call' = [Noted(dev', c) EXCEPT ![c] = AfterSetting(@, FALSE)]
      /\ opt' = Shed(call[c].entity, FALSE)
  BY DEF WriteLost
<1>5. dev' \in [Registers -> Values]
  BY <1>1, <1>3, <1>4, StoredTyped DEF RegistersTyped
<1>6. /\ Noted(dev', c) \in [Callers -> Calls]
      /\ CallTyped(Noted(dev', c)[c]) /\ Alike(call[c], Noted(dev', c)[c])
  BY <1>1, <1>5, NotedShape
<1>7. QED BY <1>2, <1>4, <1>5, <1>6 DEF Alike

LEMMA WritesTyped ==
  ASSUME TypeOK, NEW c \in Callers, Accepted(c) \/ WriteLost(c)
  PROVE  TypeOK'
<1>1. CallsTyped /\ RegistersTyped /\ RestTyped /\ OptTyped
  BY TypeParts
<1>2. CASE Accepted(c)
  <2>1. PICK v \in Values :
          /\ dev' \in [Registers -> Values]
          /\ \/ /\ opt' = opt
                /\ call' = [Noted(dev', c) EXCEPT
                              ![c] = [Noted(dev', c)[c] EXCEPT !.pc = "verify", !.seen = {v}]]
             \/ /\ opt' = Shed(call[c].entity, TRUE)
                /\ call' = [Noted(dev', c) EXCEPT
                              ![c] = AfterSetting(Noted(dev', c)[c], TRUE)]
    BY <1>2, AcceptedShape
  <2>2. CallTyped(Noted(dev', c)[c]) /\ Noted(dev', c)[c].pc \in Busy
    BY <1>2, AcceptedShape DEF Busy
  <2>3. CallTyped([Noted(dev', c)[c] EXCEPT !.pc = "verify", !.seen = {v}])
    BY <2>2, VerifyingTyped
  <2>4. CallTyped(AfterSetting(Noted(dev', c)[c], TRUE))
    BY <2>2, AfterSettingShape
  <2>5. CallsTyped'
    BY <1>1, <2>1, <2>3, <2>4, WrittenTyped
  <2>6. OptTyped'
    <3>1. Shed(call[c].entity, TRUE) \in [Entities -> Values \cup {None}]
      BY <1>1, ShedTyped, Zenon
    <3>2. QED BY <1>1, <2>1, <3>1 DEF OptTyped
  <2>7. RegistersTyped'
    BY <1>1, <1>2, <2>1 DEF Accepted, RegistersTyped
  <2>8. RestTyped'
    <3>1. call[c].pc = "write" /\ CallTyped(call[c])
      BY <1>1, <1>2 DEF Accepted, CallsTyped
    <3>2. Setting(call[c]).val \in Values
      BY <3>1, SettingTyped DEF Busy
    <3>3. acked' = [e \in Entities |-> IF e = call[c].entity
                                       THEN acked[e] \cup {Setting(call[c]).val} ELSE acked[e]]
      BY <1>2 DEF Accepted
    <3>4. acked' \in [Entities -> SUBSET Values]
      BY <1>1, <3>2, <3>3 DEF RestTyped
    <3>5. QED BY <1>1, <1>2, <3>4 DEF Accepted, RestTyped
  <2>9. QED BY <2>5, <2>6, <2>7, <2>8, TypeAfter
<1>3. CASE WriteLost(c)
  <2>1. CallTyped(AfterSetting(Noted(dev', c)[c], FALSE))
    BY <1>3, WriteLostShape, AfterSettingShape DEF Busy
  <2>2. CallsTyped'
    BY <1>1, <1>3, <2>1, WriteLostShape, WrittenTyped
  <2>3. OptTyped' /\ RegistersTyped'
    <3>1. Shed(call[c].entity, FALSE) \in [Entities -> Values \cup {None}]
      BY <1>1, ShedTyped, Zenon
    <3>2. data' = data /\ dev' \in [Registers -> Values] /\ opt' = Shed(call[c].entity, FALSE)
      BY <1>3, WriteLostShape DEF WriteLost
    <3>3. QED BY <1>1, <3>1, <3>2 DEF OptTyped, RegistersTyped
  <2>4. RestTyped'
    BY <1>1, <1>3, TroubleTyped DEF WriteLost, RestTyped
  <2>5. QED BY <2>2, <2>3, <2>4, TypeAfter
<1>4. QED BY <1>2, <1>3

LEMMA RefreshStepsTyped ==
  ASSUME TypeOK, Refreshing
  PROVE  TypeOK'
<1>1. CallsTyped /\ RegistersTyped /\ RestTyped /\ OptTyped
  BY TypeParts
<1>2. CallsTyped'
  BY <1>1 DEF Refreshing, StartRefresh, ReadBatch, Publish, RefreshFails, CallsTyped
<1>3. refresh \in [pc: {"idle", "reading"}, next: Nat, snap: [Registers -> Values]]
  BY <1>1 DEF RestTyped
<1>4. refresh.snap \in [Registers -> Values] /\ refresh.next \in Nat
  BY <1>3
<1>5. RegistersTyped'
  BY <1>1, <1>4 DEF Refreshing, StartRefresh, ReadBatch, Publish, RefreshFails, RegistersTyped
<1>6. OptTyped'
  BY <1>1, HeardTyped DEF Refreshing, StartRefresh, ReadBatch, Publish, RefreshFails, OptTyped
<1>7. refresh' \in [pc: {"idle", "reading"}, next: Nat, snap: [Registers -> Values]]
  <2>1. ASSUME NEW d \in [Registers -> Values]
        PROVE  Waiting(d) \in [pc: {"idle", "reading"}, next: Nat, snap: [Registers -> Values]]
    BY DEF Waiting
  <2>2. CASE StartRefresh
    BY <1>3, <2>2 DEF StartRefresh
  <2>3. CASE ReadBatch
    <3>1. PICK snap : snap = [r \in Registers |-> IF r \in Batches[refresh.next]
                                                 THEN dev[r] ELSE refresh.snap[r]]
      OBVIOUS
    <3>2. snap \in [Registers -> Values]
      BY <1>1, <1>4, <3>1 DEF RegistersTyped
    <3>3. PICK n \in Nat : n = refresh.next + 1
      BY <1>4
    <3>4. refresh' = [refresh EXCEPT !.next = n, !.snap = snap]
      BY <2>3, <3>1, <3>3 DEF ReadBatch
    <3>5. QED BY <1>3, <3>2, <3>3, <3>4
  <2>4. CASE Publish \/ RefreshFails
    BY <1>1, <1>4, <2>1, <2>4 DEF Publish, RefreshFails, RegistersTyped
  <2>5. QED BY <2>2, <2>3, <2>4 DEF Refreshing
<1>8. RestTyped'
  <2>1. budget' \in 0..MaxTrouble
    BY <1>1, TroubleTyped DEF Refreshing, StartRefresh, ReadBatch, Publish, RefreshFails, RestTyped
  <2>2. QED BY <1>1, <1>7, <2>1 DEF Refreshing, StartRefresh, ReadBatch, Publish, RefreshFails,
               RestTyped
<1>9. QED BY <1>2, <1>5, <1>6, <1>8, TypeAfter

\* The inverter changes one of its registers by itself.
LEMMA InverterShape ==
  ASSUME TypeOK, (\E e \in Switches : StateMoves(e)) \/ (\E s \in PanelChanges : Panel(s))
  PROVE  /\ dev' \in [Registers -> Values] /\ call' = Noted(dev', None)
         /\ UNCHANGED <<unlocked, password, data, opt, refresh, good, acked, calls>>
         /\ budget' \in 0..MaxTrouble
<1>1. RegistersTyped /\ RestTyped
  BY TypeParts
<1>2. ASSUME NEW e \in Switches, StateMoves(e)
      PROVE  dev' \in [Registers -> Values] /\ budget' \in 0..MaxTrouble
  <2>1. e \in Entities
    BY DEF Entities
  <2>2. Target[e] \in Registers /\ Source[e] \in Registers /\ OtherState \in Values
    BY <2>1, WritesAssumption
  <2>3. PICK v \in {dev[Target[e]], OtherState} :
          /\ dev' = [dev EXCEPT ![Source[e]] = v]
          /\ IF v = OtherState THEN Trouble ELSE UNCHANGED budget
    BY <1>2 DEF StateMoves
  <2>4. dev' \in [Registers -> Values]
    BY <1>1, <2>2, <2>3 DEF RegistersTyped
  <2>5. budget' \in 0..MaxTrouble
    BY <1>1, <2>3, TroubleTyped DEF RestTyped
  <2>6. QED BY <2>4, <2>5
<1>3. ASSUME NEW s \in PanelChanges, Panel(s)
      PROVE  dev' \in [Registers -> Values] /\ budget' \in 0..MaxTrouble
  <2>1. s.reg \in Registers /\ s.val \in Values
    BY WritesAssumption DEF Settings
  <2>2. dev' \in [Registers -> Values]
    BY <1>1, <1>3, <2>1 DEF Panel, RegistersTyped
  <2>3. budget' \in 0..MaxTrouble
    BY <1>1, <1>3, TroubleTyped DEF Panel, RestTyped
  <2>4. QED BY <2>2, <2>3
<1>4. /\ call' = Noted(dev', None)
      /\ UNCHANGED <<unlocked, password, data, opt, refresh, good, acked, calls>>
  BY DEF StateMoves, Panel
<1>5. QED BY <1>2, <1>3, <1>4

LEMMA InverterTyped ==
  ASSUME TypeOK, Relock \/ (\E e \in Switches : StateMoves(e)) \/ (\E s \in PanelChanges : Panel(s))
  PROVE  TypeOK'
<1>1. CallsTyped /\ RegistersTyped /\ RestTyped /\ OptTyped
  BY TypeParts
<1>2. CASE Relock
  <2>1. RestTyped'
    BY <1>1, <1>2, TroubleTyped DEF Relock, RestTyped
  <2>2. QED BY <1>1, <1>2, <2>1, TypeAfter DEF Relock, CallsTyped, RegistersTyped, OptTyped
<1>3. CASE (\E e \in Switches : StateMoves(e)) \/ (\E s \in PanelChanges : Panel(s))
  <2>1. CallsTyped'
    BY <1>1, <1>3, InverterShape, NotedShape DEF CallsTyped
  <2>2. RegistersTyped' /\ RestTyped' /\ OptTyped'
    BY <1>1, <1>3, InverterShape DEF RegistersTyped, RestTyped, OptTyped
  <2>3. QED BY <2>1, <2>2, TypeAfter
<1>4. QED BY <1>2, <1>3

\* Every step, sorted by what the proofs know of it.
LEMMA Steps ==
  ASSUME [Next]_vars
  PROVE  \/ UNCHANGED vars
         \/ Refreshing \/ Relock
         \/ (\E e \in Switches : StateMoves(e)) \/ (\E s \in PanelChanges : Panel(s))
         \/ \E c \in Callers :
              \/ \E e \in Entities, v \in Values : Begin(c, e, v)
              \/ \E plan \in Presets : ApplyPreset(c, plan)
              \/ Working(c)
BY DEF Next, SetNumber, SelectOption, Turn

(* The registers, the entities' optimistic values and the calls keep their  *)
(* types, a call under way always has a setting to work on, and a read-back *)
(* is never tried more than _WRITE_VERIFY_MAX_ATTEMPTS times.               *)
THEOREM TypeCorrect == Spec => []TypeOK
<1>1. Init => TypeOK
  BY InitTyped
<1>2. TypeOK /\ [Next]_vars => TypeOK'
  <2> SUFFICES ASSUME TypeOK, [Next]_vars PROVE TypeOK'
    OBVIOUS
  <2>1. ASSUME UNCHANGED vars PROVE TypeOK'
    <3>1. CallsTyped /\ RegistersTyped /\ RestTyped /\ OptTyped
      BY TypeParts
    <3>2. QED BY <2>1, <3>1, TypeAfter DEF vars, CallsTyped, RegistersTyped, RestTyped, OptTyped
  <2>2. ASSUME NEW c \in Callers, Working(c) PROVE TypeOK'
    BY <2>2, CallStepsTyped, WritesTyped DEF Working
  <2>3. QED BY <2>1, <2>2, Steps, RequestsTyped, RefreshStepsTyped, InverterTyped
<1>3. QED BY <1>1, <1>2, PTL DEF Spec

-----------------------------------------------------------------------------
(* What the steps of a call do to it, for the invariants *)

Concluded(c) ==
  /\ call[c].pc \in Busy /\ UNCHANGED <<dev, acked>>
  /\ \/ Conclude(c, FALSE)
     \/ Conclude(c, TRUE) /\ call[c].pc = "verify" /\ Close(ReadBack(c), Setting(call[c]).val)

Moved(c) ==
  /\ call[c].pc \in {"pick", "auth"} /\ UNCHANGED <<dev, acked, opt>>
  /\ \E p \in {"auth", "write"} : call' = [call EXCEPT ![c] = [call[c] EXCEPT !.pc = p]]

Retried(c) ==
  /\ call[c].pc = "verify" /\ UNCHANGED <<dev, acked, opt>>
  /\ call' = [call EXCEPT ![c] = [call[c] EXCEPT !.tries = call[c].tries + 1]]

LEMMA WorkingCases ==
  ASSUME NEW c \in Callers, Working(c)
  PROVE  Concluded(c) \/ Moved(c) \/ Retried(c) \/ Accepted(c) \/ WriteLost(c)
<1>1. CASE StartWrite(c) \/ Authenticated(c)
  BY <1>1 DEF StartWrite, Authenticated, Moved
<1>2. CASE NotSent(c) \/ WrongPassword(c) \/ AuthLost(c) \/ WriteRejected(c) \/ ReadRejected(c)
  BY <1>2 DEF NotSent, WrongPassword, AuthLost, WriteRejected, ReadRejected, Concluded, Busy
<1>3. CASE Verified(c)
  BY <1>3 DEF Verified, Concluded, Busy
<1>4. CASE NotVerified(c)
  BY <1>4 DEF NotVerified, Again, Concluded, Retried, Busy
<1>5. QED BY <1>1, <1>2, <1>3, <1>4 DEF Working

\* A call that moved or tried again is otherwise as it was.
LEMMA OnTheWay ==
  ASSUME CallsTyped, NEW c \in Callers, Moved(c) \/ Retried(c)
  PROVE  /\ UNCHANGED <<dev, acked, opt>>
         /\ \A d \in Callers \ {c} : call'[d] = call[d]
         /\ call[c].pc \in Busy /\ call'[c].pc \in Busy
         /\ call'[c].pc = "verify" => call[c].pc = "verify"
         /\ call'[c].entity = call[c].entity /\ call'[c].plan = call[c].plan
         /\ call'[c].at = call[c].at /\ call'[c].clean = call[c].clean
         /\ call'[c].seen = call[c].seen /\ call'[c].alone = call[c].alone
BY DEF Moved, Retried, CallsTyped, Calls, Busy

\* The calls after a write by c, or after the inverter's own changes.
LEMMA OthersAfterWrite ==
  ASSUME TypeOK, NEW by,
         \/ by \in Callers /\ (Accepted(by) \/ WriteLost(by))
         \/ by = None /\ ((\E e \in Switches : StateMoves(e)) \/ (\E s \in PanelChanges : Panel(s)))
  PROVE  \A d \in Callers \ {by} :
           /\ Alike(call[d], call'[d])
           /\ call'[d].seen = IF call[d].pc = "verify"
                              THEN call[d].seen \cup {dev'[Setting(call[d]).reg]} ELSE call[d].seen
           /\ call'[d].alone => /\ call[d].alone
                                /\ \A r \in {Stop, ToAC, ToBattery} : dev'[r] = dev[r]
<1>1. CallsTyped
  BY TypeParts
<1>2. dev' \in [Registers -> Values]
  BY AcceptedShape, WriteLostShape, InverterShape
<1>3. Noted(dev', by) \in [Callers -> Calls]
  BY <1>1, <1>2, NotedShape
<1>4. \A d \in Callers \ {by} : call'[d] = Noted(dev', by)[d]
  <2>1. CASE by \in Callers /\ Accepted(by)
    <3>1. \E n : call' = [Noted(dev', by) EXCEPT ![by] = n]
      BY <2>1, AcceptedShape
    <3>2. QED BY <3>1, <1>3
  <2>2. CASE by \in Callers /\ WriteLost(by)
    <3>1. \E n : call' = [Noted(dev', by) EXCEPT ![by] = n]
      BY <2>2, WriteLostShape
    <3>2. QED BY <3>1, <1>3
  <2>3. CASE by = None /\ ((\E e \in Switches : StateMoves(e)) \/ (\E s \in PanelChanges : Panel(s)))
    BY <2>3, InverterShape
  <2>4. QED BY <2>1, <2>2, <2>3
<1>5. ASSUME NEW d \in Callers \ {by}
      PROVE  /\ Alike(call[d], call'[d])
             /\ call'[d].seen = IF call[d].pc = "verify"
                                THEN call[d].seen \cup {dev'[Setting(call[d]).reg]} ELSE call[d].seen
             /\ call'[d].alone => /\ call[d].alone
                                  /\ \A r \in {Stop, ToAC, ToBattery} : dev'[r] = dev[r]
  <2>1. d \in Callers /\ d # by /\ call'[d] = Noted(dev', by)[d]
    BY <1>4
  <2>2. LET n == Noted(dev', by)[d] IN
        /\ Alike(call[d], n)
        /\ n.seen = IF call[d].pc = "verify"
                    THEN call[d].seen \cup {dev'[Setting(call[d]).reg]} ELSE call[d].seen
        /\ n.alone => /\ call[d].alone
                      /\ d = by \/ \A r \in {Stop, ToAC, ToBattery} : dev'[r] = dev[r]
    BY <1>1, <1>2, <2>1, NotedShape
  <2> HIDE <1>1, <1>2, <1>3, <1>4
  <2>3. QED BY <2>1, <2>2
<1>6. QED BY <1>5

LEMMA NoCaller == None \notin Callers
BY WritesAssumption

LEMMA RequestShape ==
  ASSUME TypeOK, NEW c \in Callers,
         \/ \E e \in Entities, v \in Values : Begin(c, e, v)
         \/ \E plan \in Presets : ApplyPreset(c, plan)
  PROVE  /\ UNCHANGED <<dev, acked>> /\ call[c].pc \notin Busy
         /\ \A d \in Callers \ {c} : call'[d] = call[d]
         /\ call'[c].pc = "pick"
         /\ \/ /\ call'[c].entity = Preset /\ Valid(call'[c].plan) /\ call'[c].at = 1
               /\ opt' = opt
            \/ /\ call'[c].entity \in Entities
               /\ opt' = opt \/ opt' = [opt EXCEPT ![call'[c].entity] = Setting(call'[c]).val]
<1>1. CallsTyped /\ OptTyped
  BY TypeParts
<1>2. ASSUME NEW e \in Entities, NEW v \in Values, Begin(c, e, v)
      PROVE  /\ \A d \in Callers \ {c} : call'[d] = call[d]
             /\ call'[c].pc = "pick" /\ call'[c].entity = e /\ Setting(call'[c]).val = v
             /\ opt' = opt \/ opt' = [opt EXCEPT ![e] = v]
  <2>1. PICK n : n = [Idle EXCEPT !.pc = "pick", !.entity = e,
                                  !.plan = <<[reg |-> Target[e], val |-> v]>>]
    OBVIOUS
  <2>2. n.pc = "pick" /\ n.entity = e /\ Setting(n).val = v
    BY <2>1 DEF Idle, Setting
  <2>3. call' = [call EXCEPT ![c] = n]
    BY <1>2, <2>1 DEF Begin
  <2>4. call'[c] = n /\ \A d \in Callers \ {c} : call'[d] = call[d]
    BY <1>1, <2>3 DEF CallsTyped
  <2>5. QED BY <1>2, <2>2, <2>4 DEF Begin
<1>3. ASSUME NEW plan \in Presets, ApplyPreset(c, plan)
      PROVE  /\ \A d \in Callers \ {c} : call'[d] = call[d]
             /\ call'[c].pc = "pick" /\ call'[c].entity = Preset /\ Valid(call'[c].plan)
             /\ call'[c].at = 1 /\ opt' = opt
  <2>1. PICK n : n = [Idle EXCEPT !.pc = "pick", !.plan = plan]
    OBVIOUS
  <2>2. n.pc = "pick" /\ n.entity = Preset /\ n.plan = plan /\ n.at = 1
    BY <2>1 DEF Idle
  <2>3. call' = [call EXCEPT ![c] = n]
    BY <1>3, <2>1 DEF ApplyPreset
  <2>4. call'[c] = n /\ \A d \in Callers \ {c} : call'[d] = call[d]
    BY <1>1, <2>3 DEF CallsTyped
  <2>5. QED BY <1>3, <2>2, <2>4 DEF ApplyPreset
<1>4. UNCHANGED <<dev, acked>> /\ call[c].pc \notin Busy
  BY DEF Begin, ApplyPreset, Free, Busy
<1>5. QED BY <1>2, <1>3, <1>4

-----------------------------------------------------------------------------
(* What has been seen of a write *)

\* While a number's write is read back, what the register has held since the
\* inverter acknowledged it is on record.
Held(k, d) ==
  /\ k.pc = "verify" => k.entity \in Numbers /\ d[Setting(k).reg] \in k.seen
  /\ k.pc = "ok" /\ k.entity \in Numbers => \E v \in k.seen : Close(v, Setting(k).val)

HeldInv == \A c \in Callers : Held(call[c], dev)

LEMMA NumbersAreEntities == \A e \in Numbers : e \in Entities /\ e # Preset
BY WritesAssumption DEF Entities

\* The call of c, once c has written.
LEMMA WriterAfter ==
  ASSUME TypeOK, NEW c \in Callers, Accepted(c) \/ WriteLost(c)
  PROVE  LET k == call[c]  n == call'[c] IN
         /\ k.pc = "write" /\ n.entity = k.entity /\ n.plan = k.plan /\ (n.alone => k.alone)
         /\ n.pc \in {"pick", "verify", "ok", "failed"}
         /\ n.pc = "verify" => /\ Accepted(c) /\ k.entity \in Numbers /\ n.at = k.at
                               /\ n.seen = {dev'[Setting(k).reg]}
         /\ k.entity \in Numbers => n.pc \in {"verify", "failed"}
         /\ k.entity # Preset => n.pc # "pick" /\ (n.pc = "ok" => Accepted(c))
         /\ k.entity = Preset => /\ n.at = k.at + 1 /\ (n.clean => k.clean /\ Accepted(c))
                                 /\ n.pc = "ok" => n.clean /\ k.at >= Len(k.plan)
<1> DEFINE k == call[c]
           m == Noted(dev', c)[c]
<1>1. CallsTyped
  BY TypeParts
<1>2. /\ k.pc = "write" /\ CallTyped(m) /\ m.pc \in Busy
      /\ dev' \in [Registers -> Values]
  BY AcceptedShape, WriteLostShape DEF Busy
<1>3. Noted(dev', c) \in [Callers -> Calls] /\ Alike(k, m) /\ (m.alone => k.alone)
  BY <1>1, <1>2, NotedShape
<1>4. /\ m.entity = k.entity /\ m.plan = k.plan /\ m.at = k.at /\ m.clean = k.clean
      /\ Setting(m) = Setting(k)
  BY <1>3 DEF Alike, Setting
<1>5. m \in Calls
  BY <1>2 DEF CallTyped
<1>6. ASSUME NEW ok \in BOOLEAN, call' = [Noted(dev', c) EXCEPT ![c] = AfterSetting(m, ok)]
      PROVE  LET n == call'[c] IN
             /\ n.entity = k.entity /\ n.plan = k.plan /\ (n.alone => k.alone)
             /\ n.pc \in {"pick", "ok", "failed"}
             /\ k.entity # Preset => n.pc = IF ok THEN "ok" ELSE "failed"
             /\ k.entity = Preset => /\ n.at = k.at + 1 /\ n.clean = (k.clean /\ ok)
                                     /\ n.pc = "ok" => k.at >= Len(k.plan) /\ k.clean /\ ok
  <2>1. call'[c] = AfterSetting(m, ok)
    BY <1>3, <1>6
  <2>2. LET n == AfterSetting(m, ok) IN
        /\ n.entity = m.entity /\ n.plan = m.plan /\ n.alone = m.alone
        /\ n.pc \in {"pick", "ok", "failed"}
        /\ m.entity # Preset => n.pc = IF ok THEN "ok" ELSE "failed"
        /\ m.entity = Preset => /\ n.at = m.at + 1 /\ n.clean = (m.clean /\ ok)
                                /\ n.pc = "ok" => m.at >= Len(m.plan) /\ m.clean /\ ok
    BY <1>2, AfterSettingShape
  <2> HIDE DEF m
  <2>3. QED BY <1>3, <1>4, <2>1, <2>2
<1>7. CASE WriteLost(c)
  <2>1. call' = [Noted(dev', c) EXCEPT ![c] = AfterSetting(m, FALSE)]
    BY <1>7, WriteLostShape
  <2> HIDE DEF m
  <2>2. PICK ok \in BOOLEAN : ~ok /\ call' = [Noted(dev', c) EXCEPT ![c] = AfterSetting(m, ok)]
    BY <2>1
  <2>3. LET n == call'[c] IN
          /\ n.entity = k.entity /\ n.plan = k.plan /\ (n.alone => k.alone)
          /\ n.pc \in {"pick", "ok", "failed"}
          /\ k.entity # Preset => n.pc = IF ok THEN "ok" ELSE "failed"
          /\ k.entity = Preset => /\ n.at = k.at + 1 /\ n.clean = (k.clean /\ ok)
                                  /\ n.pc = "ok" => k.at >= Len(k.plan) /\ k.clean /\ ok
    BY <1>6, <2>2
  <2>4. QED BY <1>2, <1>7, <2>2, <2>3, NumbersAreEntities
<1>8. CASE Accepted(c)
  <2>1. PICK v \in Values :
          /\ dev' = [dev EXCEPT ![Setting(k).reg] = v]
          /\ \/ /\ k.entity \in Numbers
                /\ call' = [Noted(dev', c) EXCEPT ![c] = [m EXCEPT !.pc = "verify", !.seen = {v}]]
             \/ /\ k.entity \notin Numbers
                /\ call' = [Noted(dev', c) EXCEPT ![c] = AfterSetting(m, TRUE)]
    BY <1>8, AcceptedShape
  <2>2. CASE call' = [Noted(dev', c) EXCEPT ![c] = AfterSetting(m, TRUE)] /\ k.entity \notin Numbers
    <3> HIDE DEF m
    <3>1. PICK ok \in BOOLEAN : ok /\ call' = [Noted(dev', c) EXCEPT ![c] = AfterSetting(m, ok)]
      BY <2>2
    <3>2. LET n == call'[c] IN
            /\ n.entity = k.entity /\ n.plan = k.plan /\ (n.alone => k.alone)
            /\ n.pc \in {"pick", "ok", "failed"}
            /\ k.entity # Preset => n.pc = IF ok THEN "ok" ELSE "failed"
            /\ k.entity = Preset => /\ n.at = k.at + 1 /\ n.clean = (k.clean /\ ok)
                                    /\ n.pc = "ok" => k.at >= Len(k.plan) /\ k.clean /\ ok
      BY <1>6, <3>1
    <3>3. QED BY <1>2, <1>8, <2>2, <3>1, <3>2, NumbersAreEntities
  <2>3. CASE /\ k.entity \in Numbers
             /\ call' = [Noted(dev', c) EXCEPT ![c] = [m EXCEPT !.pc = "verify", !.seen = {v}]]
    <3>1. call'[c] = [m EXCEPT !.pc = "verify", !.seen = {v}]
      BY <1>3, <2>3
    <3> HIDE DEF m
    <3>2. /\ call'[c].pc = "verify" /\ call'[c].seen = {v} /\ call'[c].entity = m.entity
          /\ call'[c].plan = m.plan /\ call'[c].at = m.at /\ call'[c].alone = m.alone
      BY <1>5, <3>1 DEF Calls
    <3>3. k.pc \in Busy /\ CallTyped(k)
      BY <1>1, <1>2 DEF CallsTyped, Busy
    <3>4. Setting(k).reg \in Registers
      BY <3>3, SettingTyped
    <3>5. dev'[Setting(k).reg] = v
      BY <2>1, <3>4, TypeParts DEF RegistersTyped
    <3>6. QED BY <1>2, <1>3, <1>4, <1>8, <2>3, <3>2, <3>5, NumbersAreEntities
  <2>4. QED BY <2>1, <2>2, <2>3
<1>9. QED BY <1>7, <1>8

LEMMA HeldStep ==
  ASSUME TypeOK, HeldInv, [Next]_vars
  PROVE  HeldInv'
<1>1. CallsTyped
  BY TypeParts
<1>2. ASSUME NEW d \in Callers, Held(call[d], dev), Alike(call[d], call'[d]),
             call'[d].seen = IF call[d].pc = "verify"
                             THEN call[d].seen \cup {dev'[Setting(call[d]).reg]} ELSE call[d].seen
      PROVE  Held(call'[d], dev')
  BY <1>2 DEF Held, Alike, Setting
<1>3. ASSUME UNCHANGED <<dev, call>> PROVE HeldInv'
  BY <1>3 DEF HeldInv
<1>4. ASSUME NEW c \in Callers,
             \/ \E e \in Entities, v \in Values : Begin(c, e, v)
             \/ \E plan \in Presets : ApplyPreset(c, plan)
      PROVE  HeldInv'
  <2>1. dev' = dev /\ call'[c].pc = "pick" /\ \A d \in Callers \ {c} : call'[d] = call[d]
    BY <1>4, RequestShape
  <2>2. QED BY <2>1 DEF HeldInv, Held
<1>5. ASSUME NEW c \in Callers, Moved(c) \/ Retried(c)
      PROVE  HeldInv'
  <2>1. Held(call'[c], dev')
    BY <1>1, <1>5, OnTheWay DEF HeldInv, Held, Setting, Busy
  <2>2. dev' = dev /\ \A d \in Callers \ {c} : call'[d] = call[d]
    BY <1>1, <1>5, OnTheWay
  <2>3. QED BY <2>1, <2>2 DEF HeldInv
<1>6. ASSUME NEW c \in Callers, Concluded(c)
      PROVE  HeldInv'
  <2>1. PICK ok \in BOOLEAN :
          /\ Conclude(c, ok)
          /\ ok => call[c].pc = "verify" /\ Close(ReadBack(c), Setting(call[c]).val)
    BY <1>6 DEF Concluded
  <2>2. call[c].pc \in Busy /\ dev' = dev /\ OptTyped
    BY <1>6, TypeParts DEF Concluded
  <2>3. call'[c] = AfterSetting(call[c], ok) /\ \A d \in Callers \ {c} : call'[d] = call[d]
    BY <1>1, <2>1, <2>2, ConcludeShape
  <2>4. CallTyped(call[c])
    BY <1>1 DEF CallsTyped
  <2>5. LET k == call[c]  n == call'[c] IN
        /\ n.entity = k.entity /\ n.plan = k.plan /\ n.seen = k.seen
        /\ n.pc \in {"pick", "ok", "failed"}
        /\ k.entity # Preset => n.at = k.at /\ n.pc = IF ok THEN "ok" ELSE "failed"
    BY <2>2, <2>3, <2>4, AfterSettingShape
  <2>6. ASSUME call'[c].pc = "ok", call'[c].entity \in Numbers
        PROVE  \E v \in call'[c].seen : Close(v, Setting(call'[c]).val)
    <3>1. call[c].entity # Preset /\ ok
      BY <2>5, <2>6, NumbersAreEntities
    <3>2. dev[Setting(call[c]).reg] \in call[c].seen
      BY <2>1, <3>1 DEF HeldInv, Held
    <3>3. Setting(call'[c]) = Setting(call[c])
      BY <2>5, <3>1 DEF Setting
    <3>4. QED BY <2>1, <2>5, <3>1, <3>2, <3>3 DEF ReadBack
  <2>7. Held(call'[c], dev')
    BY <2>5, <2>6 DEF Held
  <2>8. QED BY <2>2, <2>3, <2>7 DEF HeldInv
<1>7. ASSUME NEW c \in Callers, Accepted(c) \/ WriteLost(c)
      PROVE  HeldInv'
  <2>1. Held(call'[c], dev')
    BY <1>7, WriterAfter DEF Held, Setting
  <2>2. QED BY <1>2, <1>7, <2>1, OthersAfterWrite DEF HeldInv
<1>8. ASSUME (\E e \in Switches : StateMoves(e)) \/ (\E s \in PanelChanges : Panel(s))
      PROVE  HeldInv'
  BY <1>2, <1>8, NoCaller, OthersAfterWrite DEF HeldInv
<1>9. ASSUME Refreshing \/ Relock PROVE UNCHANGED <<dev, call>>
  BY <1>9 DEF Refreshing, Relock, StartRefresh, ReadBatch, Publish, RefreshFails
<1>10. QED
  BY <1>3, <1>4, <1>5, <1>6, <1>7, <1>8, <1>9, Steps, WorkingCases DEF vars

THEOREM HeldAlways == Spec => []HeldInv
<1>1. Init => HeldInv
  BY DEF Init, HeldInv, Held, Idle
<1>2. TypeOK /\ HeldInv /\ [Next]_vars => HeldInv'
  BY HeldStep
<1>3. QED BY <1>1, <1>2, TypeCorrect, PTL DEF Spec

(* configurable_number.py: whatever refreshes, other writes, the panel and  *)
(* lost answers do meanwhile, a number's call that reports success has had  *)
(* its value in the register, within the tolerance, since the inverter      *)
(* acknowledged the write.                                                  *)
THEOREM SuccessIsHeld == Spec => []SuccessMeansHeld
<1>1. HeldInv => SuccessMeansHeld
  BY DEF HeldInv, Held, SuccessMeansHeld
<1>2. QED BY <1>1, HeldAlways, PTL

-----------------------------------------------------------------------------
(* Values on display *)

InFlight(e, v, k) == k.pc \in Busy /\ k.entity = e /\ Setting(k).val = v

LEMMA ShownMeaning ==
  NoFailedValueShown <=> \A e \in Entities : \/ opt[e] \in acked[e] \cup {None}
                                            \/ \E c \in Callers : InFlight(e, opt[e], call[c])
BY DEF NoFailedValueShown, InFlight, Busy

LEMMA ShownAfter ==
  ASSUME \A e \in Entities : \/ opt'[e] \in acked'[e] \cup {None}
                             \/ \E c \in Callers : InFlight(e, opt'[e], call'[c])
  PROVE  NoFailedValueShown'
BY DEF NoFailedValueShown, InFlight, Busy

LEMMA ShedValue ==
  ASSUME OptTyped, NEW e \in Entities \cup {Preset}, NEW d \in Entities, NEW ok
  PROVE  /\ Shed(e, ok)[d] \in {opt[d], None}
         /\ d = e /\ (~ok \/ e \in Numbers) => Shed(e, ok)[d] = None
BY DEF Shed, OptTyped

LEMMA ShownStep ==
  ASSUME TypeOK, HeldInv, NoFailedValueShown, [Next]_vars
  PROVE  NoFailedValueShown'
<1>1. CallsTyped /\ OptTyped /\ RestTyped
  BY TypeParts
<1>2. \A e \in Entities : \/ opt[e] \in acked[e] \cup {None}
                          \/ \E c \in Callers : InFlight(e, opt[e], call[c])
  BY ShownMeaning
<1>3. \A c \in Callers : CallTyped(call[c]) /\ call[c].entity \in Entities \cup {Preset}
  BY <1>1 DEF CallsTyped, CallTyped, Calls
<1>4. SUFFICES ASSUME NEW e \in Entities
               PROVE  \/ opt'[e] \in acked'[e] \cup {None}
                      \/ \E c \in Callers : InFlight(e, opt'[e], call'[c])
  BY ShownAfter
\* Whatever leaves the call of a value on display alone keeps it in flight.
<1>5. ASSUME opt'[e] \in {opt[e], None}, acked[e] \subseteq acked'[e],
             \A c \in Callers : InFlight(e, opt[e], call[c]) =>
                 InFlight(e, opt[e], call'[c]) \/ opt'[e] \in acked'[e] \cup {None}
      PROVE  \/ opt'[e] \in acked'[e] \cup {None}
             \/ \E c \in Callers : InFlight(e, opt'[e], call'[c])
  BY <1>2, <1>5
<1>6. CASE UNCHANGED vars
  BY <1>5, <1>6 DEF vars
<1>7. ASSUME NEW c \in Callers,
             \/ \E f \in Entities, v \in Values : Begin(c, f, v)
             \/ \E plan \in Presets : ApplyPreset(c, plan)
      PROVE  \/ opt'[e] \in acked'[e] \cup {None}
             \/ \E d \in Callers : InFlight(e, opt'[e], call'[d])
  <2>1. /\ acked' = acked /\ call[c].pc \notin Busy /\ call'[c].pc \in Busy
        /\ \A d \in Callers \ {c} : call'[d] = call[d]
        /\ \/ opt' = opt
           \/ /\ call'[c].entity \in Entities
              /\ opt' = [opt EXCEPT ![call'[c].entity] = Setting(call'[c]).val]
    BY <1>7, RequestShape DEF Busy
  <2>2. CASE opt'[e] = opt[e]
    BY <1>5, <2>1, <2>2 DEF InFlight
  <2>3. CASE opt'[e] # opt[e]
    BY <1>1, <2>1, <2>3 DEF InFlight, OptTyped
  <2>4. QED BY <2>2, <2>3
<1>8. ASSUME NEW c \in Callers, Concluded(c)
      PROVE  \/ opt'[e] \in acked'[e] \cup {None}
             \/ \E d \in Callers : InFlight(e, opt'[e], call'[d])
  <2>1. PICK ok \in BOOLEAN : Conclude(c, ok)
    BY <1>8 DEF Concluded
  <2>2. /\ opt' = Shed(call[c].entity, ok)
        /\ \A d \in Callers \ {c} : call'[d] = call[d]
    BY <1>1, <1>8, <2>1, ConcludeShape DEF Concluded
  <2>3. opt'[e] \in {opt[e], None}
    BY <1>1, <1>3, <2>2, ShedValue
  <2>4. ASSUME InFlight(e, opt[e], call[c]) PROVE opt'[e] \in acked'[e] \cup {None}
    <3>1. call[c].entity = e
      BY <2>4 DEF InFlight
    <3>2. CASE Conclude(c, FALSE)
      <4>1. opt' = Shed(e, FALSE)
        BY <3>1, <3>2 DEF Conclude
      <4>2. Shed(e, FALSE)[e] = None
        BY <1>1, ShedValue, Zenon
      <4>3. QED BY <4>1, <4>2
    <3>3. CASE call[c].pc = "verify" /\ Conclude(c, TRUE)
      <4>1. opt' = Shed(e, TRUE)
        BY <3>1, <3>3 DEF Conclude
      <4>2. e \in Numbers
        BY <3>1, <3>3 DEF HeldInv, Held
      <4>3. Shed(e, TRUE)[e] = None
        BY <1>1, <4>2, ShedValue, Zenon
      <4>4. QED BY <4>1, <4>3
    <3>4. QED BY <1>8, <3>2, <3>3 DEF Concluded
  <2>5. QED
    BY <1>5, <1>8, <2>2, <2>3, <2>4 DEF Concluded
<1>9. ASSUME NEW c \in Callers, Moved(c) \/ Retried(c)
      PROVE  \/ opt'[e] \in acked'[e] \cup {None}
             \/ \E d \in Callers : InFlight(e, opt'[e], call'[d])
  <2>1. /\ UNCHANGED <<acked, opt>> /\ \A d \in Callers \ {c} : call'[d] = call[d]
        /\ call'[c].pc \in Busy /\ call'[c].entity = call[c].entity
        /\ Setting(call'[c]) = Setting(call[c])
    BY <1>1, <1>9, OnTheWay DEF Setting
  <2>2. QED BY <1>5, <2>1 DEF InFlight
<1>10. ASSUME NEW c \in Callers, Accepted(c) \/ WriteLost(c)
       PROVE  \/ opt'[e] \in acked'[e] \cup {None}
              \/ \E d \in Callers : InFlight(e, opt'[e], call'[d])
  <2>1. \A d \in Callers \ {c} : Alike(call[d], call'[d])
    BY <1>10, OthersAfterWrite
  <2>2. acked[e] \subseteq acked'[e]
    BY <1>1, <1>10 DEF Accepted, WriteLost, RestTyped
  <2>3. opt'[e] \in {opt[e], None}
    <3>1. PICK ok \in BOOLEAN : opt' = opt \/ opt' = Shed(call[c].entity, ok)
      BY <1>10, AcceptedShape, WriteLostShape
    <3>2. QED BY <1>1, <1>3, <3>1, ShedValue
  <2>4. ASSUME InFlight(e, opt[e], call[c]) PROVE opt'[e] \in acked'[e] \cup {None}
    <3>1. call[c].entity = e /\ Setting(call[c]).val = opt[e]
      BY <2>4 DEF InFlight
    <3>2. CASE Accepted(c)
      <4>1. acked'[e] = acked[e] \cup {Setting(call[c]).val}
        BY <3>1, <3>2 DEF Accepted
      <4>2. QED BY <2>3, <3>1, <4>1
    <3>3. CASE WriteLost(c)
      <4>1. opt' = Shed(e, FALSE)
        BY <3>1, <3>3, WriteLostShape
      <4>2. Shed(e, FALSE)[e] = None
        BY <1>1, ShedValue, Zenon
      <4>3. QED BY <4>1, <4>2
    <3>4. QED BY <1>10, <3>2, <3>3
  <2>5. ASSUME NEW d \in Callers \ {c}, InFlight(e, opt[e], call[d])
        PROVE  InFlight(e, opt[e], call'[d])
    BY <2>1, <2>5 DEF InFlight, Alike, Setting
  <2>6. QED BY <1>5, <2>2, <2>3, <2>4, <2>5
<1>11. ASSUME (\E f \in Switches : StateMoves(f)) \/ (\E s \in PanelChanges : Panel(s))
       PROVE  \/ opt'[e] \in acked'[e] \cup {None}
              \/ \E d \in Callers : InFlight(e, opt'[e], call'[d])
  <2>1. \A d \in Callers : Alike(call[d], call'[d])
    BY <1>11, NoCaller, OthersAfterWrite
  <2>2. UNCHANGED <<opt, acked>>
    BY <1>11, InverterShape
  <2>3. QED BY <1>5, <2>1, <2>2 DEF InFlight, Alike, Setting
<1>12. ASSUME Refreshing \/ Relock
       PROVE  \/ opt'[e] \in acked'[e] \cup {None}
              \/ \E d \in Callers : InFlight(e, opt'[e], call'[d])
  <2>1. UNCHANGED <<acked, call>>
    BY <1>12 DEF Refreshing, Relock, StartRefresh, ReadBatch, Publish, RefreshFails
  <2>2. opt'[e] \in {opt[e], None}
    BY <1>1, <1>12 DEF Refreshing, Relock, StartRefresh, ReadBatch, Publish, RefreshFails,
       Heard, OptTyped
  <2>3. QED BY <1>5, <2>1, <2>2
<1>13. QED
  BY <1>6, <1>7, <1>8, <1>9, <1>10, <1>11, <1>12, Steps, WorkingCases

(* An entity shows a value of its own only while a call asks for it or      *)
(* after the inverter acknowledged it, however the calls and the refreshes  *)
(* overlap.                                                                 *)
THEOREM NothingFailedShown == Spec => []NoFailedValueShown
<1>1. Init => NoFailedValueShown
  BY DEF Init, NoFailedValueShown
<1>2. TypeOK /\ HeldInv /\ NoFailedValueShown /\ [Next]_vars => NoFailedValueShown'
  BY ShownStep
<1>3. QED BY <1>1, <1>2, TypeCorrect, HeldAlways, PTL DEF Spec

-----------------------------------------------------------------------------
(* Presets *)

SOC == {Stop, ToAC, ToBattery}

\* The threshold r, if the first n settings of the plan have it, is one of them.
Given(k, d, n, r) ==
  \A j \in DOMAIN k.plan : j <= n /\ k.plan[j].reg = r =>
     \E i \in DOMAIN k.plan : k.plan[i].reg = r /\ k.plan[i].val = d[r]

\* A preset that has gone well so far, with nobody else at the thresholds, has
\* left them as it says.
Kept(k, d) ==
  k.entity = Preset /\ k.pc \in Busy \cup {"ok"} =>
    /\ Valid(k.plan)
    /\ k.pc = "ok" => k.clean
    /\ k.clean /\ k.alone =>
         \A r \in SOC : Given(k, d, IF k.pc = "ok" THEN Len(k.plan) ELSE k.at - 1, r)

KeptInv == \A c \in Callers : Kept(call[c], dev)

LEMMA KeptAlike ==
  ASSUME NEW k, NEW n, NEW d, NEW new, Kept(k, d), Alike(k, n),
         n.alone => k.alone /\ \A r \in SOC : new[r] = d[r]
  PROVE  Kept(n, new)
BY DEF Kept, Alike, Given

LEMMA KeptOrder ==
  ASSUME NEW k, CallTyped(k), Kept(k, dev), RegistersTyped,
         k.pc = "ok", k.entity = Preset, k.alone,
         SOC \subseteq {k.plan[i].reg : i \in DOMAIN k.plan}
  PROVE  dev[Stop] < dev[ToAC] /\ dev[ToAC] < dev[ToBattery]
<1>1. k.plan \in Seq(Settings)
  BY DEF CallTyped, Calls
<1>2. DOMAIN k.plan = 1..Len(k.plan) /\ Len(k.plan) \in Nat
  BY <1>1, PlanElements
<1>3. ASSUME NEW r \in SOC
      PROVE  \E i \in DOMAIN k.plan : k.plan[i].reg = r /\ k.plan[i].val = dev[r]
  <2>1. PICK j \in DOMAIN k.plan : k.plan[j].reg = r
    OBVIOUS
  <2>2. j <= Len(k.plan)
    BY <1>2
  <2>3. Given(k, dev, Len(k.plan), r)
    BY DEF Kept
  <2>4. QED BY <2>1, <2>2, <2>3 DEF Given
<1>4. PICK a \in DOMAIN k.plan : k.plan[a].reg = Stop /\ k.plan[a].val = dev[Stop]
  BY <1>3 DEF SOC
<1>5. PICK b \in DOMAIN k.plan : k.plan[b].reg = ToAC /\ k.plan[b].val = dev[ToAC]
  BY <1>3 DEF SOC
<1>6. PICK c \in DOMAIN k.plan : k.plan[c].reg = ToBattery /\ k.plan[c].val = dev[ToBattery]
  BY <1>3 DEF SOC
<1>7. Less(k.plan, Stop, ToAC) /\ Less(k.plan, ToAC, ToBattery)
  BY DEF Kept, Valid
<1>8. k.plan[a].val < k.plan[b].val
  BY <1>4, <1>5, <1>7 DEF Less
<1>9. k.plan[b].val < k.plan[c].val
  BY <1>5, <1>6, <1>7 DEF Less
<1>10. QED BY <1>4, <1>5, <1>6, <1>8, <1>9

\* The setting at k.at is written: the thresholds are given one further.
LEMMA GivenMore ==
  ASSUME TypeOK, SOC \cap Coarse = {}, NEW c \in Callers, Accepted(c), NEW r \in SOC,
         Given(call[c], dev, call[c].at - 1, r), NEW n \in Int, n <= call[c].at,
         NEW m, m.plan = call[c].plan
  PROVE  Given(m, dev', n, r)
<1> DEFINE k == call[c]
<1>1. call[c].pc = "write" /\ CallTyped(k)
  BY TypeParts DEF Accepted, CallsTyped
<1>2. /\ k.plan \in Seq(Settings) /\ k.at \in DOMAIN k.plan /\ k.at \in Nat
      /\ Setting(k).reg \in Registers
  BY <1>1, SettingTyped DEF CallTyped, Calls, Busy
<1>3. DOMAIN k.plan \subseteq Nat
  BY <1>2, PlanElements
<1>4. PICK v \in Values : /\ v \in Stored(Setting(k).reg, Setting(k).val)
                          /\ dev' = [dev EXCEPT ![Setting(k).reg] = v]
  BY AcceptedShape
<1>5. RegistersTyped
  BY TypeParts
<1> HIDE DEF k
<1>6. CASE Setting(k).reg = r
  <2>1. r \notin Coarse
    OBVIOUS
  <2>2. v = Setting(k).val
    BY <1>4, <1>6, <2>1 DEF Stored
  <2>3. dev'[r] = Setting(k).val
    BY <1>2, <1>4, <1>5, <1>6, <2>2 DEF RegistersTyped
  <2>4. QED BY <1>2, <1>6, <2>3 DEF Given, Setting, k
<1>7. CASE Setting(k).reg # r
  <2>1. dev'[r] = dev[r]
    BY <1>4, <1>5, <1>7 DEF RegistersTyped
  <2>2. SUFFICES ASSUME NEW j \in DOMAIN k.plan, j <= n, k.plan[j].reg = r
                 PROVE  \E i \in DOMAIN k.plan : k.plan[i].reg = r /\ k.plan[i].val = dev'[r]
    BY DEF Given, k
  <2>3. j # k.at
    BY <1>7, <2>2 DEF Setting
  <2>4. n <= k.at
    BY DEF k
  <2>5. j <= k.at - 1
    BY <1>2, <1>3, <2>2, <2>3, <2>4
  <2>6. Given(k, dev, k.at - 1, r)
    BY DEF k
  <2>7. QED BY <2>1, <2>2, <2>5, <2>6 DEF Given
<1>8. QED BY <1>6, <1>7

LEMMA KeptStep ==
  ASSUME SOC \cap Coarse = {}, TypeOK, TypeOK', HeldInv, KeptInv, [Next]_vars
  PROVE  KeptInv'
<1>1. CallsTyped /\ CallsTyped'
  BY TypeParts DEF TypeOK, CallsTyped, CallTyped, Busy
<1>2. ASSUME UNCHANGED <<dev, call>> PROVE KeptInv'
  BY <1>2 DEF KeptInv
<1>3. ASSUME NEW c \in Callers, dev' = dev, Kept(call'[c], dev'),
             \A d \in Callers \ {c} : call'[d] = call[d]
      PROVE  KeptInv'
  BY <1>3 DEF KeptInv
<1>4. ASSUME NEW c \in Callers,
             \/ \E e \in Entities, v \in Values : Begin(c, e, v)
             \/ \E plan \in Presets : ApplyPreset(c, plan)
      PROVE  KeptInv'
  <2>1. /\ dev' = dev /\ \A d \in Callers \ {c} : call'[d] = call[d]
        /\ call'[c].pc = "pick"
        /\ call'[c].entity = Preset => Valid(call'[c].plan) /\ call'[c].at = 1
    BY <1>4, RequestShape, SetsTyped
  <2>2. DOMAIN call'[c].plan \subseteq Nat \ {0}
    <3>1. call'[c].plan \in Seq(Settings)
      BY <1>1 DEF CallsTyped, CallTyped, Calls
    <3>2. QED BY <3>1, PlanElements
  <2>3. ASSUME call'[c].at = 1, NEW r PROVE Given(call'[c], dev', call'[c].at - 1, r)
    BY <2>2, <2>3 DEF Given
  <2>4. Kept(call'[c], dev')
    BY <2>1, <2>3 DEF Kept
  <2>5. QED BY <1>3, <2>1, <2>4
<1>5. ASSUME NEW c \in Callers, Moved(c) \/ Retried(c)
      PROVE  KeptInv'
  <2>1. /\ dev' = dev /\ \A d \in Callers \ {c} : call'[d] = call[d]
        /\ call[c].pc \in Busy /\ call'[c].pc \in Busy
        /\ call'[c].entity = call[c].entity /\ call'[c].plan = call[c].plan
        /\ call'[c].at = call[c].at /\ call'[c].clean = call[c].clean
        /\ call'[c].alone = call[c].alone
    BY <1>1, <1>5, OnTheWay
  <2>2. call[c].pc # "ok" /\ call'[c].pc # "ok"
    BY <2>1 DEF Busy
  <2>3. Kept(call[c], dev)
    BY DEF KeptInv
  <2>4. Kept(call'[c], dev')
    BY <2>1, <2>2, <2>3 DEF Kept, Given
  <2>5. QED BY <1>3, <2>1, <2>4
<1>6. ASSUME NEW c \in Callers, Concluded(c)
      PROVE  KeptInv'
  <2>1. PICK ok \in BOOLEAN : Conclude(c, ok) /\ (ok => call[c].pc = "verify")
    BY <1>6 DEF Concluded
  <2>2. call[c].pc \in Busy /\ dev' = dev /\ OptTyped /\ CallTyped(call[c])
    BY <1>1, <1>6, TypeParts DEF Concluded, CallsTyped
  <2>3. call'[c] = AfterSetting(call[c], ok) /\ \A d \in Callers \ {c} : call'[d] = call[d]
    BY <1>1, <2>1, <2>2, ConcludeShape
  <2>4. LET k == call[c]  n == call'[c] IN
        /\ n.entity = k.entity /\ n.plan = k.plan
        /\ k.entity = Preset => /\ n.clean = (k.clean /\ ok)
                                /\ n.pc = "ok" => ok
    BY <2>2, <2>3, AfterSettingShape
  <2>5. ok => call[c].entity # Preset
    BY <2>1, NumbersAreEntities DEF HeldInv, Held
  <2>6. Kept(call[c], dev)
    BY DEF KeptInv
  <2>7. Kept(call'[c], dev')
    BY <2>2, <2>4, <2>5, <2>6 DEF Kept
  <2>8. QED BY <1>3, <2>2, <2>3, <2>7
<1>7. ASSUME NEW c \in Callers, Accepted(c) \/ WriteLost(c)
      PROVE  KeptInv'
  <2>1. Kept(call[c], dev)
    BY DEF KeptInv
  <2>2. /\ call[c].pc = "write" /\ call'[c].entity = call[c].entity
        /\ call'[c].plan = call[c].plan /\ (call'[c].alone => call[c].alone)
        /\ call'[c].pc = "verify" => call[c].entity \in Numbers
        /\ call[c].entity = Preset =>
             /\ call'[c].at = call[c].at + 1 /\ (call'[c].clean => call[c].clean /\ Accepted(c))
             /\ call'[c].pc = "ok" => call'[c].clean /\ call[c].at >= Len(call[c].plan)
    BY <1>7, WriterAfter
  <2>3. call[c].at \in Nat /\ Len(call[c].plan) \in Nat
    BY <1>1, PlanElements DEF CallsTyped, CallTyped, Calls
  <2>4. ASSUME call[c].entity = Preset, call'[c].clean, call'[c].alone, NEW r \in SOC
        PROVE  Given(call'[c], dev', IF call'[c].pc = "ok" THEN Len(call'[c].plan)
                                     ELSE call'[c].at - 1, r)
    <3>1. PICK n \in Int : n = IF call'[c].pc = "ok" THEN Len(call'[c].plan) ELSE call'[c].at - 1
      BY <2>2, <2>3, <2>4
    <3>2. n <= call[c].at
      BY <2>2, <2>3, <2>4, <3>1
    <3>3. Accepted(c) /\ call[c].clean /\ call[c].alone
      BY <2>2, <2>4
    <3>4. Given(call[c], dev, call[c].at - 1, r)
      BY <2>1, <2>2, <2>4, <3>3 DEF Kept, Busy
    <3>5. Given(call'[c], dev', n, r)
      BY <2>2, <3>2, <3>3, <3>4, GivenMore
    <3>6. QED BY <3>1, <3>5
  <2>5. Kept(call'[c], dev')
    BY <2>1, <2>2, <2>4 DEF Kept, Busy
  <2>6. ASSUME NEW d \in Callers \ {c} PROVE Kept(call'[d], dev')
    <3>1. Kept(call[d], dev)
      BY DEF KeptInv
    <3>2. /\ Alike(call[d], call'[d])
          /\ call'[d].alone => call[d].alone /\ \A r \in SOC : dev'[r] = dev[r]
      BY <1>7, OthersAfterWrite DEF SOC
    <3>3. QED BY <3>1, <3>2, KeptAlike
  <2>7. QED BY <2>5, <2>6 DEF KeptInv
<1>8. ASSUME (\E e \in Switches : StateMoves(e)) \/ (\E s \in PanelChanges : Panel(s))
      PROVE  KeptInv'
  <2>1. ASSUME NEW d \in Callers PROVE Kept(call'[d], dev')
    <3>1. Kept(call[d], dev)
      BY DEF KeptInv
    <3>2. /\ Alike(call[d], call'[d])
          /\ call'[d].alone => call[d].alone /\ \A r \in SOC : dev'[r] = dev[r]
      BY <1>8, NoCaller, OthersAfterWrite DEF SOC
    <3>3. QED BY <3>1, <3>2, KeptAlike
  <2>2. QED BY <2>1 DEF KeptInv
<1>9. ASSUME Refreshing \/ Relock PROVE UNCHANGED <<dev, call>>
  BY <1>9 DEF Refreshing, Relock, StartRefresh, ReadBatch, Publish, RefreshFails
<1>10. QED
  BY <1>2, <1>4, <1>5, <1>6, <1>7, <1>8, <1>9, Steps, WorkingCases DEF vars

(* preset_manager.py: a preset reported as applied has left the three SOC   *)
(* thresholds in order, unless somebody else wrote one of them meanwhile,   *)
(* if the inverter keeps the thresholds it acknowledges as they are.        *)
THEOREM PresetsKeepOrder ==
  ASSUME {Stop, ToAC, ToBattery} \cap Coarse = {}
  PROVE  Spec => []PresetKeepsOrder
<1>1. Init => KeptInv
  <2>1. \A d : Kept(Idle, d)
    BY DEF Kept, Idle, Busy
  <2>2. QED BY <2>1 DEF Init, KeptInv
<1>2. TypeOK /\ TypeOK' /\ HeldInv /\ KeptInv /\ [Next]_vars => KeptInv'
  BY KeptStep DEF SOC
<1>3. TypeOK /\ KeptInv => PresetKeepsOrder
  <2>1. ASSUME TypeOK, KeptInv, NEW c \in Callers, call[c].pc = "ok", call[c].entity = Preset,
               call[c].alone, SOC \subseteq {call[c].plan[i].reg : i \in DOMAIN call[c].plan}
        PROVE  dev[Stop] < dev[ToAC] /\ dev[ToAC] < dev[ToBattery]
    <3>1. CallTyped(call[c]) /\ Kept(call[c], dev) /\ RegistersTyped
      BY <2>1, TypeParts DEF KeptInv, CallsTyped
    <3>2. QED BY <2>1, <3>1, KeptOrder
  <2>2. QED BY <2>1 DEF PresetKeepsOrder, SOC
<1>4. QED BY <1>1, <1>2, <1>3, TypeCorrect, HeldAlways, PTL DEF Spec
=============================================================================
