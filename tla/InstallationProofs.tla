-------------------------- MODULE InstallationProofs --------------------------
(***************************************************************************)
(* Proofs about Installation, for any registers, features, presets, pages  *)
(* and detection tasks.                                                    *)
(*                                                                         *)
(* LinkInv says how far the flows and the integration have come together;  *)
(* FormInv what the validation of a page leaves true while it is written.  *)
(* With the types they are inductive; the other invariants rest on them.   *)
(***************************************************************************)
EXTENDS Installation, TLAPS

\* The steps that come after a detection.
Chosen == {"detection_review", "reading", "preset_selection", "manual_config",
           "review", "writing"}

DetectedInv == step \in Chosen => detected # None

LinkInv ==
  /\ entry # None => step = "created"
  /\ phase # "none" => entry # None
  /\ job.pc # "menu" => entry # None

\* The values of a page that is being written are in range, and in order.
FormInv ==
  /\ job.pc = "writing" =>
       \A f \in Fields : job.form[f] # None => job.form[f] \in Low[f]..High[f]
  /\ job.pc \in {"writing", "saved"} =>
       \A p \in Below : job.form[p[1]] # None /\ job.form[p[2]] # None
                           => job.form[p[1]] < job.form[p[2]]

TypedInv == TypeOK /\ DetectedInv /\ LinkInv /\ FormInv

-----------------------------------------------------------------------------
(* The onboarding *)

LEMMA AfterTyped ==
  /\ \A m, t \in States : After(m, t) \in States
  /\ {"device_scan", "device_selected", "welcome", "user_level", "hardware_detection",
      "detection_review", "preset_selection", "manual_config", "validation", "review"}
        \subseteq States
  BY DEF After, States

LEMMA ValidateTyped ==
  ASSUME FlowTypeOK, NEW s \in SomeSettings, Validate(s)
  PROVE  /\ settings' \in SomeSettings /\ skip' \in BOOLEAN
         /\ step' \in {"review", "preset_selection", "manual_config"}
         /\ machine' \in States
<1>1. After(machine, "validation") \in States
  BY AfterTyped DEF FlowTypeOK
<1>2. After(After(machine, "validation"), "review") \in States
  BY <1>1, AfterTyped
<1> QED
  BY <1>1, <1>2 DEF Validate, FlowTypeOK

\* What a step handler that does not validate leaves well typed.
LEMMA HandlerTyped ==
  ASSUME FlowTypeOK, EntryTypeOK, DetectedInv,
         \/ Pick \/ ConfirmBluetooth \/ Welcome \/ DetectionShown
         \/ ReviewBasic \/ ReviewAdvanced \/ SettingsRead \/ ReopenPresets
         \/ \E t \in Tasks : \/ \E l \in {"basic", "advanced"} : UserLevel(l, t)
                             \/ ReopenDetection(t) \/ Detected(t)
  PROVE  FlowTypeOK' /\ DetectedInv'
<1> USE DEF FlowTypeOK, DetectedInv, Chosen, Steps
<1>1. /\ \A m, t \in States : After(m, t) \in States
      /\ {"device_scan", "device_selected", "welcome", "user_level", "hardware_detection",
          "detection_review", "preset_selection", "manual_config"} \subseteq States
  BY AfterTyped
<1>2. CASE Pick
  <2>1. After(machine, "device_selected") \in States
    BY <1>1
  <2>2. machine' \in States
    BY <1>2, <1>1, <2>1 DEF Pick, ShowWelcome
  <2> QED
    BY <1>2, <2>2 DEF Pick
<1>3. CASE ConfirmBluetooth
  <2>1. After(machine, "device_selected") \in States
    BY <1>1
  <2>2. After(After(machine, "device_selected"), "welcome") \in States
    BY <1>1, <2>1
  <2>3. machine' \in States
    BY <1>3, <1>1, <2>2 DEF ConfirmBluetooth, ShowWelcome
  <2> QED
    BY <1>3, <2>3 DEF ConfirmBluetooth
<1>4. CASE Welcome
  BY <1>4, <1>1 DEF Welcome
<1>5. CASE DetectionShown
  BY <1>5 DEF DetectionShown, HasResult
<1>6. CASE ReviewBasic
  BY <1>6, <1>1 DEF ReviewBasic
<1>7. CASE ReviewAdvanced
  BY <1>7, <1>1 DEF ReviewAdvanced, Connecting
<1>8. CASE SettingsRead
  <2>1. PICK got \in Readable("flow") :
          /\ current' = [r \in Registers |-> IF r \in got THEN dev[r] ELSE Defaults[r]]
          /\ read' = got
    BY <1>8 DEF SettingsRead
  <2>2. current' \in [Registers -> Values] /\ read' \subseteq Registers
    BY <2>1, OnboardingAssumption DEF Readable, EntryTypeOK
  <2> QED
    BY <1>8, <2>2 DEF SettingsRead, Released
<1>9. CASE ReopenPresets
  BY <1>9 DEF ReopenPresets
<1>10. ASSUME NEW t \in Tasks, NEW l \in {"basic", "advanced"}, UserLevel(l, t)
       PROVE  FlowTypeOK' /\ DetectedInv'
  BY <1>10, <1>1 DEF UserLevel, StartTask, Connecting
<1>11. ASSUME NEW t \in Tasks, ReopenDetection(t)
       PROVE  FlowTypeOK' /\ DetectedInv'
  BY <1>11 DEF ReopenDetection, StartTask, Connecting
<1>12. ASSUME NEW t \in Tasks, Detected(t)
       PROVE  FlowTypeOK' /\ DetectedInv'
  <2>1. PICK fs \in Results(t) : detected' = IF step = "created" THEN detected ELSE fs
    BY <1>12 DEF Detected
  <2>2. fs \in SUBSET Features /\ fs # None
    BY EntryAssumption, OnboardingAssumption DEF Results, Probed
  <2>3. detected' \in {None} \cup SUBSET Features /\ DetectedInv'
    BY <1>12, <2>1, <2>2 DEF Detected
  <2>4. machine' \in States
    BY <1>12, <1>1 DEF Detected
  <2>5. /\ tasks' \in [Tasks -> {"none", "probing", "done"}]
        /\ link' \in Tasks \cup {"flow", None}
    BY <1>12 DEF Detected, Released
  <2>6. UNCHANGED <<step, level, settings, skip, current, read, at, failed>>
    BY <1>12 DEF Detected
  <2> QED
    BY <2>3, <2>4, <2>5, <2>6
<1> QED
  BY <1>2, <1>3, <1>4, <1>5, <1>6, <1>7, <1>8, <1>9, <1>10, <1>11, <1>12

LEMMA ChoiceTyped ==
  ASSUME FlowTypeOK, DetectedInv,
         \/ \E p \in Presets : PickPreset(p)
         \/ SkipPreset
         \/ \E form \in Forms : ManualConfig(form)
  PROVE  FlowTypeOK' /\ DetectedInv'
<1> USE DEF FlowTypeOK, DetectedInv, Chosen, Steps
<1>1. ASSUME NEW p \in Presets, PickPreset(p)
      PROVE  FlowTypeOK' /\ DetectedInv'
  BY <1>1, ValidateTyped, OnboardingAssumption DEF PickPreset
<1>2. CASE SkipPreset
  BY <1>2, ValidateTyped DEF SkipPreset
<1>3. ASSUME NEW form \in Forms, ManualConfig(form)
      PROVE  FlowTypeOK' /\ DetectedInv'
  <2>1. Updated(settings, form) \in SomeSettings
    BY OnboardingAssumption DEF Updated, SomeSettings
  <2> QED
    BY <1>3, <2>1, ValidateTyped DEF ManualConfig
<1> QED
  BY <1>1, <1>2, <1>3

LEMMA Place ==
  ASSUME NEW R, NEW q \in Seq(R), NEW i \in DOMAIN q
  PROVE  /\ q[i] \in R /\ i \in Nat \ {0} /\ i <= Len(q)
         /\ i + 1 \in 1..(Len(q) + 1)
<1>1. Len(q) \in Nat /\ DOMAIN q = 1..Len(q) /\ q \in [1..Len(q) -> R]
  OBVIOUS
<1> QED
  BY <1>1

LEMMA WriteTyped ==
  ASSUME FlowTypeOK, DetectedInv,
         Confirm \/ PassOver \/ WriteSetting \/ WriteMistaken \/ WriteFails \/ Create
  PROVE  FlowTypeOK' /\ DetectedInv'
<1> USE DEF FlowTypeOK, DetectedInv, Chosen, Steps
<1>0. ASSUME at \in DOMAIN SettingOrder
      PROVE  SettingOrder[at] \in Registers /\ at + 1 \in 1..(Len(SettingOrder) + 1)
  BY <1>0, Place, OnboardingAssumption
<1>1. CASE Confirm
  <2>1. 1 \in 1..(Len(SettingOrder) + 1) /\ Len(SettingOrder) + 1 \in 1..(Len(SettingOrder) + 1)
    OBVIOUS
  <2>2. at' \in 1..(Len(SettingOrder) + 1) /\ link' \in Tasks \cup {"flow", None}
    BY <1>1, <2>1 DEF Confirm, Connecting
  <2> QED
    BY <1>1, <2>2 DEF Confirm
<1>2. CASE PassOver
  BY <1>0, <1>2 DEF PassOver
<1>3. CASE WriteSetting \/ WriteMistaken
  BY <1>0, <1>3 DEF WriteSetting, WriteMistaken
<1>4. CASE WriteFails
  <2>1. failed' \subseteq Registers
    BY <1>0, <1>4 DEF WriteFails, Failed
  <2> QED
    BY <1>0, <1>4, <2>1 DEF WriteFails
<1>5. CASE Create
  BY <1>5, OnboardingAssumption DEF Create, Released, Absent, SomeSettings
<1> QED
  BY <1>1, <1>2, <1>3, <1>4, <1>5

LEMMA FlowTyped ==
  ASSUME FlowTypeOK, EntryTypeOK, DetectedInv, FlowNext
  PROVE  FlowTypeOK' /\ DetectedInv'
BY HandlerTyped, ChoiceTyped, WriteTyped DEF FlowNext, PickBle, PickUsb, PickTcp

-----------------------------------------------------------------------------
(* The integration and the entry *)

LEMMA LifecycleTyped ==
  ASSUME EntryTypeOK, LinkInv, Lifecycle \/ Refresh
  PROVE  /\ EntryTypeOK' /\ entry' = entry
         /\ phase' # "none" => entry # None
<1> USE DEF EntryTypeOK
<1>1. CASE ReadEntry
  <2>1. Configured(entry) \in [features: SUBSET Features, options: Options \cup {None}]
    BY <1>1 DEF ReadEntry, LinkInv, Configured, Merged, Entries
  <2> QED
    BY <1>1, <2>1 DEF ReadEntry, LinkInv
<1>2. CASE Refreshed
  BY <1>2 DEF Refreshed, LinkInv
<1>3. CASE RefreshFails
  BY <1>3, EntryAssumption DEF RefreshFails, LinkInv, Trouble
<1>4. CASE SetupDone
  BY <1>4 DEF SetupDone, LinkInv
<1>5. CASE SetupRetried
  BY <1>5 DEF SetupRetried, LinkInv
<1>6. CASE Reload
  BY <1>6 DEF Reload, LinkInv
<1>7. CASE Refresh
  BY <1>7 DEF Refresh, LinkInv
<1> QED
  BY <1>1, <1>2, <1>3, <1>4, <1>5, <1>6, <1>7 DEF Lifecycle

LEMMA PanelTyped ==
  ASSUME EntryTypeOK, NEW s \in PanelChanges, Panel(s)
  PROVE  EntryTypeOK' /\ entry' = entry /\ phase' = phase
<1>1. s.reg \in Registers /\ s.val \in Values
  BY EntryAssumption
<1> QED
  BY <1>1, EntryAssumption DEF EntryTypeOK, Panel, Trouble

LEMMA UpdateTyped ==
  ASSUME EntryTypeOK, NEW new \in Entries, NEW b \in BOOLEAN, UpdateEntry(new, b)
  PROVE  /\ entry' \in Entries /\ entry' # None
         /\ reloads' \in Nat /\ missed' \in BOOLEAN
<1>1. new # None
  BY EntryAssumption
<1>2. reloads' \in Nat
  BY DEF UpdateEntry, EntryTypeOK
<1> QED
  BY <1>1, <1>2 DEF UpdateEntry, EntryTypeOK

\* What a step of the onboarding does to the entry.
LEMMA FlowEntry ==
  ASSUME TypedInv, FlowNext
  PROVE  /\ EntryTypeOK'
         /\ entry' # None => step' = "created"
         /\ phase' # "none" => entry' # None
         /\ entry # None => entry' = entry
<1> USE DEF TypedInv, TypeOK, LinkInv, EntryTypeOK
<1>1. CASE UNCHANGED entryVars /\ (step' = step \/ step # "created")
  BY <1>1 DEF entryVars
<1>2. ASSUME NEW t \in Tasks, Detected(t)
      PROVE  EntryTypeOK' /\ step' = step /\ UNCHANGED <<entry, phase>>
  <2>1. budget' \in 0..MaxTrouble
    <3>1. PICK fs \in Results(t) : budget' = IF link = t /\ fs # Hardware THEN budget - 1 ELSE budget
      BY <1>2 DEF Detected
    <3>2. link = t /\ fs # Hardware => budget > 0
      BY <3>1 DEF Results, Probed
    <3> QED
      BY <3>1, <3>2, EntryAssumption
  <2> QED
    BY <1>2, <2>1 DEF Detected
<1>3. CASE SettingsRead
  <2>1. budget' \in 0..MaxTrouble
    <3>1. PICK got \in Readable("flow") : budget' = IF link = "flow" /\ got # Registers THEN budget - 1 ELSE budget
      BY <1>3 DEF SettingsRead
    <3>2. link = "flow" /\ got # Registers => budget > 0
      BY <3>1 DEF Readable
    <3> QED
      BY <3>1, <3>2, EntryAssumption
  <2> QED
    BY <1>3, <2>1 DEF SettingsRead
<1>4. ASSUME at \in DOMAIN SettingOrder, Pending(SettingOrder[at])
      PROVE  [dev EXCEPT ![SettingOrder[at]] = settings[SettingOrder[at]]] \in [Registers -> Values]
  <2>1. SettingOrder[at] \in Registers
    BY <1>4, Place, OnboardingAssumption
  <2>2. settings[SettingOrder[at]] \in Values
    BY <1>4, <2>1 DEF Pending, FlowTypeOK, SomeSettings
  <2> QED
    BY <2>2
<1>5. CASE WriteSetting \/ WriteMistaken
  <2>1. CASE WriteSetting
    BY <1>4, <1>5, <2>1 DEF WriteSetting
  <2>2. CASE WriteMistaken
    BY <2>2, Place, OnboardingAssumption DEF WriteMistaken
  <2> QED
    BY <1>5, <2>1, <2>2
<1>6. CASE WriteFails
  <2>1. dev' \in [Registers -> Values]
    BY <1>4, <1>6 DEF WriteFails
  <2>2. budget' = budget \/ (budget > 0 /\ budget' = budget - 1)
    BY <1>6 DEF WriteFails, Trouble
  <2>3. budget' \in 0..MaxTrouble
    BY <2>2, EntryAssumption
  <2> QED
    BY <1>6, <2>1, <2>3 DEF WriteFails
<1>7. CASE Create
  <2>1. detected \in SUBSET Features
    BY <1>7 DEF Create, DetectedInv, Chosen, FlowTypeOK
  <2>2. settings \in [Registers -> Nat \cup {None}]
    BY EntryAssumption DEF FlowTypeOK, SomeSettings
  <2>3. entry' \in Entries
    BY <1>7, <2>1, <2>2, OnboardingAssumption DEF Create, Entries
  <2>4. entry' # None
    BY <2>3, EntryAssumption
  <2> QED
    BY <1>7, <2>3, <2>4 DEF Create
<1>8. CASE Pick \/ ConfirmBluetooth \/ Welcome \/ DetectionShown \/ ReviewBasic
           \/ ReviewAdvanced \/ ReopenPresets \/ SkipPreset \/ Confirm \/ PassOver
  BY <1>1, <1>8 DEF Pick, ConfirmBluetooth, Welcome, DetectionShown, ReviewBasic,
     ReviewAdvanced, ReopenPresets, SkipPreset, Confirm, PassOver
<1>9. CASE \/ \E p \in Presets : PickPreset(p)
           \/ \E form \in Forms : ManualConfig(form)
           \/ \E t \in Tasks : \/ \E l \in {"basic", "advanced"} : UserLevel(l, t)
                               \/ ReopenDetection(t)
  BY <1>1, <1>9 DEF PickPreset, ManualConfig, UserLevel, ReopenDetection
<1> QED
  BY <1>2, <1>3, <1>5, <1>6, <1>7, <1>8, <1>9 DEF FlowNext, PickBle, PickUsb, PickTcp

-----------------------------------------------------------------------------
(* The options flow *)

LEMMA MenuTyped ==
  /\ Menu \in Jobs /\ Menu.at \in 1..(Len(Page) + 1) /\ Menu.pc = "menu"
  /\ LET new == [Menu EXCEPT !.pc = "detecting"] IN
     new \in Jobs /\ new.pc = "detecting" /\ new.at \in 1..(Len(Page) + 1)
  /\ \A form \in [Registers -> Nat \cup {None}] :
        LET new == [Menu EXCEPT !.pc = "writing", !.form = form] IN
        /\ new \in Jobs /\ new.pc = "writing" /\ new.form = form
        /\ new.at = 1 /\ new.at \in 1..(Len(Page) + 1) /\ new.lost = {}
<1>1. 1 \in 1..(Len(Page) + 1)
  BY OptionsAssumption
<1>2. [r \in Registers |-> None] \in [Registers -> Nat \cup {None}]
  OBVIOUS
<1>3. /\ Menu \in Jobs /\ Menu.at \in 1..(Len(Page) + 1) /\ Menu.pc = "menu"
  BY <1>1, <1>2 DEF Menu, Jobs
<1>4. LET new == [Menu EXCEPT !.pc = "detecting"] IN
      new \in Jobs /\ new.pc = "detecting" /\ new.at \in 1..(Len(Page) + 1)
  BY <1>1, <1>2 DEF Menu, Jobs
<1>5. ASSUME NEW form \in [Registers -> Nat \cup {None}]
      PROVE  LET new == [Menu EXCEPT !.pc = "writing", !.form = form] IN
             /\ new \in Jobs /\ new.pc = "writing" /\ new.form = form
             /\ new.at = 1 /\ new.at \in 1..(Len(Page) + 1) /\ new.lost = {}
  <2> DEFINE new == [Menu EXCEPT !.pc = "writing", !.form = form]
  <2>1. new.pc = "writing" /\ new.at = 1 /\ new.lost = {}
    BY DEF Menu
  <2>2. new.form = form
    BY DEF Menu
  <2>3. \A j \in Jobs : [j EXCEPT !.pc = "writing", !.form = form] \in Jobs
    BY DEF Jobs
  <2>4. new \in Jobs
    BY <1>3, <2>3
  <2> HIDE DEF new
  <2> QED
    BY <1>1, <2>1, <2>2, <2>4 DEF new
<1> QED
  BY <1>3, <1>4, <1>5

LEMMA FormTyped ==
  ASSUME EntryTypeOK, NEW form \in PageForms
  PROVE  form \in [Registers -> Nat \cup {None}]
<1>1. ASSUME form = Untouched PROVE form \in [Registers -> Nat \cup {None}]
  <2>1. \A a \in Nat, b \in Nat \ {0} : a \div b \in Nat
    OBVIOUS
  <2>2. \A f \in Registers : data[f] \in Nat /\ Scale[f] \in Nat \ {0}
    BY EntryAssumption, OptionsAssumption DEF EntryTypeOK
  <2>3. \A f \in Registers : Shown(f, data[f]) \in Nat
    BY <2>1, <2>2 DEF Shown
  <2> QED
    BY <1>1, <2>3 DEF Untouched
<1> QED
  BY <1>1, OptionsAssumption DEF PageForms

LEMMA SavedTyped ==
  ASSUME entry \in Entries, NEW form \in [Registers -> Nat \cup {None}]
  PROVE  /\ Saved(form) \in Entries
         /\ \A r \in Registers : form[r] # None => Saved(form).settings[r] = form[r]
BY DEF Saved, Entries

\* A job that goes back to the menu, or waits for a detection.
LEMMA Idle ==
  ASSUME job' = Menu \/ job' = [Menu EXCEPT !.pc = "detecting"],
         edits' \in 0..MaxEdits
  PROVE  OptionsTypeOK' /\ FormInv' /\ job'.pc \notin {"writing", "saved"}
<1>1. job' \in Jobs /\ job'.at \in 1..(Len(Page) + 1) /\ job'.pc \in {"menu", "detecting"}
  BY MenuTyped
<1> QED
  BY <1>1 DEF OptionsTypeOK, FormInv

LEMMA EditTyped ==
  ASSUME OptionsTypeOK, Edit
  PROVE  edits' \in 0..MaxEdits /\ entry # None
BY OptionsAssumption DEF OptionsTypeOK, Edit

LEMMA SubmitTyped ==
  ASSUME TypedInv, NEW form \in PageForms, Submit(form)
  PROVE  OptionsTypeOK' /\ FormInv' /\ EntryTypeOK' /\ entry' = entry /\ entry # None
<1>1. form \in [Registers -> Nat \cup {None}]
  BY FormTyped DEF TypedInv, TypeOK
<1>2. /\ job' \in Jobs /\ job'.pc = "writing" /\ job'.form = form
      /\ job'.at \in 1..(Len(Page) + 1)
  BY <1>1, MenuTyped DEF Submit
<1>3. edits' \in 0..MaxEdits /\ entry # None
  BY EditTyped DEF Submit, TypedInv, TypeOK
<1>4. ASSUME NEW p \in Below, form[p[1]] # None, form[p[2]] # None
      PROVE  form[p[1]] < form[p[2]]
  BY <1>4 DEF Below, Submit, FormValid, Other
<1>5. FormInv'
  BY <1>2, <1>4 DEF FormInv, Submit, FormValid
<1>6. EntryTypeOK'
  BY DEF TypedInv, TypeOK, EntryTypeOK, Submit
<1> QED
  BY <1>2, <1>3, <1>5, <1>6 DEF OptionsTypeOK, Submit

\* The fields of the page are written one after the other.
LEMMA WritingTyped ==
  ASSUME TypedInv, PassField \/ WriteField \/ FieldFails
  PROVE  /\ OptionsTypeOK' /\ FormInv' /\ EntryTypeOK' /\ entry' = entry
         /\ job.pc = "writing" /\ job'.pc = "writing" /\ job'.form = job.form
         /\ job.at \in DOMAIN Page /\ job'.at = job.at + 1 /\ Field \in Fields
<1>1. job.pc = "writing" /\ job.at \in DOMAIN Page /\ job \in Jobs
  BY DEF PassField, WriteField, FieldFails, TypedInv, TypeOK, OptionsTypeOK
<1>2. Field \in Registers /\ Field \in Fields /\ job.at + 1 \in 1..(Len(Page) + 1)
  BY <1>1, Place, OptionsAssumption DEF Field, Fields
<1>3. /\ job' \in Jobs /\ job'.pc = "writing" /\ job'.form = job.form
      /\ job'.at = job.at + 1
  <2>1. \A j \in Jobs, l \in SUBSET Registers :
           /\ [j EXCEPT !.at = @ + 1] \in Jobs
           /\ [j EXCEPT !.at = @ + 1, !.lost = l] \in Jobs
    <3>1. \A j \in Jobs : j.at + 1 \in Nat \ {0}
      BY DEF Jobs
    <3>2. \A j \in Jobs, n \in Nat \ {0}, l \in SUBSET Registers :
             /\ [j EXCEPT !.at = n] \in Jobs
             /\ [j EXCEPT !.at = n, !.lost = l] \in Jobs
      BY DEF Jobs
    <3> QED
      BY <3>1, <3>2
  <2>2. job.lost \cup {Field} \in SUBSET Registers
    BY <1>1, <1>2 DEF Jobs
  <2>3. CASE job' = [job EXCEPT !.at = @ + 1]
    <3>1. job' \in Jobs
      BY <1>1, <2>1, <2>3
    <3> QED
      BY <1>1, <2>3, <3>1 DEF Jobs
  <2>4. CASE job' = [job EXCEPT !.at = @ + 1, !.lost = Lost]
    <3>1. job' \in Jobs
      BY <1>1, <2>1, <2>2, <2>4 DEF Lost
    <3> QED
      BY <1>1, <2>4, <3>1 DEF Jobs
  <2> QED
    BY <2>3, <2>4 DEF PassField, WriteField, FieldFails
<1>4. FormInv'
  BY <1>1, <1>3 DEF FormInv, TypedInv
<1>5. job.form[Field] # None => Written(Field, job.form[Field]) \in Values
  BY <1>1, <1>2, OptionsAssumption DEF TypedInv, FormInv, Written
<1>6. dev' \in [Registers -> Values]
  <2>1. job.form[Field] # None =>
          [dev EXCEPT ![Field] = Written(Field, job.form[Field])] \in [Registers -> Values]
    BY <1>2, <1>5 DEF TypedInv, TypeOK, EntryTypeOK
  <2>2. dev \in [Registers -> Values]
    BY DEF TypedInv, TypeOK, EntryTypeOK
  <2> QED
    BY <2>1, <2>2 DEF PassField, WriteField, FieldFails, entryVars
<1>7. budget' \in 0..MaxTrouble /\ edits' = edits
  BY EntryAssumption DEF PassField, WriteField, FieldFails, entryVars, Trouble,
     TypedInv, TypeOK, EntryTypeOK
<1>8. EntryTypeOK' /\ entry' = entry
  BY <1>6, <1>7 DEF PassField, WriteField, FieldFails, entryVars, TypedInv, TypeOK, EntryTypeOK
<1> QED
  BY <1>1, <1>2, <1>3, <1>4, <1>7, <1>8 DEF TypedInv, TypeOK, OptionsTypeOK

LEMMA SavingTyped ==
  ASSUME EntryTypeOK, NEW new \in Entries, NEW b \in BOOLEAN, UpdateEntry(new, b),
         UNCHANGED <<dev, phase, active, data, touched>>, budget' \in 0..MaxTrouble
  PROVE  EntryTypeOK' /\ entry' # None
BY UpdateTyped DEF EntryTypeOK

\* Pages that save something and go back to the menu.
LEMMA SaveTyped ==
  ASSUME TypedInv, NEW new \in Entries, NEW b \in BOOLEAN, Save(new, b)
  PROVE  OptionsTypeOK' /\ FormInv' /\ EntryTypeOK' /\ entry' # None /\ entry # None
<1>1. edits' \in 0..MaxEdits /\ entry # None
  BY EditTyped DEF Save, TypedInv, TypeOK
<1>2. OptionsTypeOK' /\ FormInv'
  BY <1>1, Idle DEF Save
<1>3. EntryTypeOK' /\ entry' # None
  BY SavingTyped DEF Save, TypedInv, TypeOK, EntryTypeOK
<1> QED
  BY <1>1, <1>2, <1>3

LEMMA BlindTyped ==
  ASSUME TypedInv, NEW form \in PageForms, SubmitBlind(form)
  PROVE  OptionsTypeOK' /\ FormInv' /\ EntryTypeOK' /\ entry' # None /\ entry # None
<1>1. edits' \in 0..MaxEdits /\ entry # None
  BY EditTyped DEF SubmitBlind, TypedInv, TypeOK
<1>2. OptionsTypeOK' /\ FormInv'
  BY <1>1, Idle DEF SubmitBlind
<1>3. Saved(form) \in Entries
  BY <1>1, FormTyped, SavedTyped DEF TypedInv, TypeOK, EntryTypeOK
<1>4. EntryTypeOK' /\ entry' # None
  BY <1>3, SavingTyped DEF SubmitBlind, TypedInv, TypeOK, EntryTypeOK
<1> QED
  BY <1>1, <1>2, <1>4

LEMMA SavePageTyped ==
  ASSUME TypedInv, SavePage
  PROVE  /\ OptionsTypeOK' /\ FormInv' /\ EntryTypeOK' /\ entry' # None /\ entry # None
         /\ job'.pc = "saved" /\ job'.form = job.form
         /\ \A f \in Fields : job.form[f] # None => entry'.settings[f] = job.form[f]
<1>1. entry \in Entries /\ entry # None /\ job \in Jobs /\ job.at \in 1..(Len(Page) + 1)
  BY DEF TypedInv, TypeOK, EntryTypeOK, LinkInv, SavePage, OptionsTypeOK
<1>2. /\ job' \in Jobs /\ job'.pc = "saved" /\ job'.form = job.form /\ job'.at = job.at
  BY <1>1 DEF SavePage, Jobs
<1>3. FormInv'
  BY <1>2 DEF FormInv, TypedInv, SavePage
<1>4. Saved(job.form) \in Entries
  BY <1>1, SavedTyped DEF Jobs
<1>5. EntryTypeOK' /\ entry' # None
  BY <1>4, SavingTyped DEF SavePage, TypedInv, TypeOK, EntryTypeOK
<1>6. \A f \in Fields : f \in Registers
  BY Place, OptionsAssumption DEF Fields
<1>7. \A f \in Fields : job.form[f] # None => entry'.settings[f] = job.form[f]
  BY <1>1, <1>6, SavedTyped DEF SavePage, UpdateEntry, Jobs
<1> QED
  BY <1>1, <1>2, <1>3, <1>5, <1>7 DEF SavePage, OptionsTypeOK, TypedInv, TypeOK

LEMMA RedetectedTyped ==
  ASSUME TypedInv, Redetected
  PROVE  OptionsTypeOK' /\ FormInv' /\ EntryTypeOK' /\ entry' # None /\ entry # None
<1>1. entry \in Entries /\ entry # None
  BY DEF TypedInv, TypeOK, EntryTypeOK, LinkInv, Redetected
<1>2. OptionsTypeOK' /\ FormInv'
  BY Idle DEF Redetected, TypedInv, TypeOK, OptionsTypeOK
<1>3. PICK fs \in SUBSET Truth :
        /\ IF fs = Truth THEN UNCHANGED budget ELSE Trouble
        /\ UpdateEntry([entry EXCEPT !.detected = fs], TRUE)
  BY DEF Redetected
<1>4. [entry EXCEPT !.detected = fs] \in Entries
  <2>1. fs \in SUBSET Features
    BY OptionsAssumption
  <2> QED
    BY <1>1, <2>1 DEF Entries
<1>5. budget' \in 0..MaxTrouble
  BY <1>3, EntryAssumption DEF Trouble, TypedInv, TypeOK, EntryTypeOK
<1>6. UNCHANGED <<dev, phase, active, data, touched>>
  BY DEF Redetected
<1>7. EntryTypeOK' /\ entry' # None
  BY <1>3, <1>4, <1>5, <1>6, SavingTyped, Zenon DEF TypedInv, TypeOK
<1> QED
  BY <1>1, <1>2, <1>7

LEMMA OptionsTyped ==
  ASSUME TypedInv, OptionsNext
  PROVE  /\ OptionsTypeOK' /\ FormInv' /\ EntryTypeOK'
         /\ entry # None /\ entry' # None /\ phase' = phase
<1>1. ASSUME NEW form \in PageForms, SubmitPage(form)
      PROVE  /\ OptionsTypeOK' /\ FormInv' /\ EntryTypeOK'
             /\ entry # None /\ entry' # None /\ phase' = phase
  BY <1>1, SubmitTyped, BlindTyped DEF SubmitPage, Submit, SubmitBlind
<1>2. CASE PassField \/ WriteField \/ FieldFails
  <2>1. entry # None
    BY <1>2, WritingTyped DEF TypedInv, LinkInv
  <2> QED
    BY <1>2, <2>1, WritingTyped DEF PassField, WriteField, FieldFails, entryVars
<1>3. CASE SavePage
  BY <1>3, SavePageTyped DEF SavePage
<1>4. CASE RejectPage
  <2>1. OptionsTypeOK' /\ FormInv'
    BY <1>4, Idle DEF RejectPage, TypedInv, TypeOK, OptionsTypeOK
  <2> QED
    BY <1>4, <2>1 DEF RejectPage, entryVars, TypedInv, TypeOK, EntryTypeOK, LinkInv
<1>5. ASSUME NEW new \in Entries, NEW b \in BOOLEAN, Save(new, b)
      PROVE  /\ OptionsTypeOK' /\ FormInv' /\ EntryTypeOK'
             /\ entry # None /\ entry' # None /\ phase' = phase
  BY <1>5, SaveTyped DEF Save
<1>6. ASSUME entry \in Entries
      PROVE  /\ \A o \in Options : WithOptions(o) \in Entries
             /\ \A fs \in Edits \cup {None} : [entry EXCEPT !.overrides = fs] \in Entries
             /\ \A p \in Templates : Saved(p) \in Entries
  <2>1. \A p \in Templates : p \in [Registers -> Nat \cup {None}]
    <3>1. Values \subseteq Nat
      BY EntryAssumption
    <3>2. Templates \subseteq [Registers -> Values \cup {None}]
      BY OptionsAssumption
    <3> QED
      BY <3>1, <3>2
  <2>2. \A p \in Templates : Saved(p) \in Entries
    BY <1>6, <2>1, SavedTyped
  <2>3. \A o \in Options : WithOptions(o) \in Entries
    BY <1>6 DEF WithOptions, Entries
  <2>4. \A fs \in {None} \cup SUBSET Features : [entry EXCEPT !.overrides = fs] \in Entries
    BY <1>6 DEF Entries
  <2> QED
    BY <2>2, <2>3, <2>4, OptionsAssumption
<1>7. (\E new \in Entries, b \in BOOLEAN : Save(new, b)) =>
         /\ OptionsTypeOK' /\ FormInv' /\ EntryTypeOK'
         /\ entry # None /\ entry' # None /\ phase' = phase
  BY <1>5
<1>8. entry # None => entry \in Entries
  BY DEF TypedInv, TypeOK, EntryTypeOK
<1>9. ASSUME NEW o \in Options, \/ SaveIntegration(o) \/ SaveInterval(o)
                                \/ SaveCategories(o) \/ SavePreferences(o)
      PROVE  \E new \in Entries, b \in BOOLEAN : Save(new, b)
  <2>1. \E b \in BOOLEAN : Save(WithOptions(o), b)
    BY <1>9 DEF SaveIntegration, SaveInterval, SaveCategories, SavePreferences
  <2> QED
    BY <1>6, <1>8, <2>1 DEF Save, Edit
<1>10. ASSUME NEW fs \in Edits \cup {None}, SaveOverrides(fs)
       PROVE  \E new \in Entries, b \in BOOLEAN : Save(new, b)
  <2>1. [entry EXCEPT !.overrides = fs] \in Entries
    BY <1>6, <1>8, <1>10 DEF SaveOverrides, Save, Edit
  <2> QED
    BY <1>10, <2>1 DEF SaveOverrides
<1>11. ASSUME NEW p \in Templates, SavePreset(p)
       PROVE  \E new \in Entries, b \in BOOLEAN : Save(new, b)
  <2>1. Saved(p) \in Entries
    BY <1>6, <1>8, <1>11 DEF SavePreset, Save, Edit
  <2> QED
    BY <1>11, <2>1 DEF SavePreset
<1>12. CASE Redetect
  <2>1. OptionsTypeOK' /\ FormInv' /\ entry # None
    BY <1>12, EditTyped, Idle DEF Redetect, TypedInv, TypeOK
  <2> QED
    BY <1>12, <2>1 DEF Redetect, entryVars, TypedInv, TypeOK, EntryTypeOK
<1>13. CASE Redetected
  BY <1>13, RedetectedTyped DEF Redetected
<1> QED
  BY <1>1, <1>2, <1>3, <1>4, <1>7, <1>9, <1>10, <1>11, <1>12, <1>13
     DEF OptionsNext, SubmitSuccess, Writing, BatteryConfig, BatteryManagement, InverterOutput

-----------------------------------------------------------------------------
(* Types *)

LEMMA TypedInit == Init => TypedInv
<1> SUFFICES ASSUME Init PROVE TypedInv
  OBVIOUS
<1> USE DEF Init
<1>1. EntryTypeOK
  <2>1. dev \in [Registers -> Values]
    BY EntryAssumption DEF EntryInit
  <2>2. MaxTrouble \in 0..MaxTrouble
    BY EntryAssumption
  <2> QED
    BY <2>1, <2>2 DEF EntryInit, EntryTypeOK
<1>2. FlowTypeOK
  <2>1. 1 \in 1..(Len(SettingOrder) + 1)
    BY OnboardingAssumption
  <2>2. step \in Steps /\ machine \in States
    BY DEF FlowInit, Steps, States
  <2>3. settings \in SomeSettings /\ current \in [Registers -> Values]
    BY OnboardingAssumption DEF FlowInit, Absent, SomeSettings
  <2> QED
    BY <2>1, <2>2, <2>3 DEF FlowInit, FlowTypeOK
<1>3. OptionsTypeOK /\ job.pc = "menu"
  <2>1. MaxEdits \in 0..MaxEdits
    BY OptionsAssumption
  <2> QED
    BY <2>1, MenuTyped DEF OptionsInit, OptionsTypeOK
<1>4. LinkInv /\ DetectedInv /\ FormInv
  BY <1>3 DEF EntryInit, FlowInit, LinkInv, DetectedInv, Chosen, FormInv
<1> QED
  BY <1>1, <1>2, <1>3, <1>4 DEF TypedInv, TypeOK

LEMMA TypedNext == TypedInv /\ [Next]_vars => TypedInv'
<1> SUFFICES ASSUME TypedInv, [Next]_vars PROVE TypedInv'
  OBVIOUS
<1>1. CASE FlowNext /\ UNCHANGED optionVars
  <2>1. FlowTypeOK' /\ DetectedInv'
    BY <1>1, FlowTyped DEF TypedInv, TypeOK
  <2>2. /\ EntryTypeOK' /\ (entry' # None => step' = "created")
        /\ (phase' # "none" => entry' # None) /\ (entry # None => entry' = entry)
    BY <1>1, FlowEntry
  <2>3. OptionsTypeOK' /\ FormInv'
    BY <1>1 DEF optionVars, TypedInv, TypeOK, OptionsTypeOK, FormInv
  <2>4. LinkInv'
    BY <1>1, <2>2 DEF optionVars, TypedInv, LinkInv
  <2> QED
    BY <2>1, <2>2, <2>3, <2>4 DEF TypedInv, TypeOK
<1>2. ASSUME UNCHANGED flowVars PROVE FlowTypeOK' /\ DetectedInv' /\ step' = step
  BY <1>2 DEF flowVars, TypedInv, TypeOK, FlowTypeOK, DetectedInv
<1>3. CASE OptionsNext /\ UNCHANGED flowVars
  <2>1. LinkInv'
    BY <1>2, <1>3, OptionsTyped DEF TypedInv, LinkInv
  <2> QED
    BY <1>2, <1>3, <2>1, OptionsTyped DEF TypedInv, TypeOK
<1>4. ASSUME UNCHANGED optionVars PROVE OptionsTypeOK' /\ FormInv' /\ job' = job
  BY <1>4 DEF optionVars, TypedInv, TypeOK, OptionsTypeOK, FormInv
<1>5. CASE (Lifecycle \/ Refresh) /\ UNCHANGED <<flowVars, optionVars>>
  <2>1. EntryTypeOK' /\ entry' = entry /\ (phase' # "none" => entry # None)
    BY <1>5, LifecycleTyped DEF TypedInv, TypeOK
  <2>2. LinkInv'
    BY <1>2, <1>4, <1>5, <2>1 DEF TypedInv, LinkInv
  <2> QED
    BY <1>2, <1>4, <1>5, <2>1, <2>2 DEF TypedInv, TypeOK
<1>6. ASSUME NEW s \in PanelChanges, Panel(s), UNCHANGED <<flowVars, optionVars>>
      PROVE  TypedInv'
  <2>1. EntryTypeOK' /\ entry' = entry /\ phase' = phase
    BY <1>6, PanelTyped DEF TypedInv, TypeOK
  <2>2. LinkInv'
    BY <1>2, <1>4, <1>6, <2>1 DEF TypedInv, LinkInv
  <2> QED
    BY <1>2, <1>4, <1>6, <2>1, <2>2 DEF TypedInv, TypeOK
<1>7. CASE UNCHANGED vars
  <2>1. EntryTypeOK' /\ UNCHANGED <<entry, phase>>
    BY <1>7 DEF vars, entryVars, TypedInv, TypeOK, EntryTypeOK
  <2>2. LinkInv'
    BY <1>2, <1>4, <1>7, <2>1 DEF vars, TypedInv, LinkInv
  <2> QED
    BY <1>2, <1>4, <1>7, <2>1, <2>2 DEF vars, TypedInv, TypeOK
<1> QED
  BY <1>1, <1>3, <1>5, <1>6, <1>7 DEF Next

\* Every variable keeps its type, whatever the onboarding, the options flow,
\* the integration and the panel do: what is written is a value the register
\* may hold, and the entry exists whenever the integration or a page needs it.
THEOREM TypeCorrect == Spec => []TypeOK
<1>1. Spec => []TypedInv
  BY TypedInit, TypedNext, PTL DEF Spec
<1>2. TypedInv => TypeOK
  BY DEF TypedInv
<1> QED
  BY <1>1, <1>2, PTL

-----------------------------------------------------------------------------
(* What is in force *)

\* From the moment set-up reads the entry.
ForceInv ==
  phase \in {"refreshing", "stored", "loaded"} /\ ~missed /\ reloads = 0
    => active = Configured(entry)

\* An update of the entry that nobody has to notice changes nothing.
LEMMA UpdateForced ==
  ASSUME EntryTypeOK, ForceInv, NEW new, NEW b \in BOOLEAN, UpdateEntry(new, b),
         UNCHANGED <<phase, active>>
  PROVE  ForceInv'
<1>1. SUFFICES ASSUME phase \in {"refreshing", "stored", "loaded"}, ~missed', reloads' = 0
               PROVE  active = Configured(entry')
  BY DEF ForceInv
<1>2. reloads \in Nat
  BY DEF EntryTypeOK
<1>3. reloads = 0 /\ ~b /\ ~(new # entry /\ phase = "loaded")
  BY <1>1, <1>2 DEF UpdateEntry
<1>4. ~missed /\ ~(new # entry /\ phase \in {"refreshing", "stored"} /\ ~b)
  BY <1>1 DEF UpdateEntry
<1>5. new = entry
  BY <1>1, <1>3, <1>4
<1> QED
  BY <1>1, <1>3, <1>4, <1>5 DEF UpdateEntry, ForceInv

\* After the entry is created, of the onboarding only a detection still runs.
LEMMA FlowAfterCreation ==
  ASSUME FlowNext, step = "created"
  PROVE  UNCHANGED <<dev, entry, phase, active, data, reloads, missed, touched, step, read>>
BY DEF FlowNext, PickBle, PickUsb, PickTcp, Pick, ConfirmBluetooth, Welcome, UserLevel,
   ReopenDetection, Detected, DetectionShown, ReviewBasic, ReviewAdvanced, SettingsRead,
   PickPreset, SkipPreset, ReopenPresets, ManualConfig, Confirm, PassOver, WriteSetting,
   WriteMistaken, WriteFails, Create

\* Only one step of the onboarding creates the entry, with what was chosen.
LEMMA OnlyCreate ==
  ASSUME FlowNext, step # "created", step' = "created"
  PROVE  Create
<1>1. ASSUME NEW s, Validate(s) PROVE FALSE
  BY <1>1 DEF Validate
<1>2. ASSUME \/ Pick \/ ConfirmBluetooth \/ Welcome \/ DetectionShown
             \/ ReviewBasic \/ ReviewAdvanced \/ SettingsRead \/ ReopenPresets
             \/ Confirm \/ PassOver \/ WriteSetting \/ WriteMistaken \/ WriteFails
      PROVE  FALSE
  BY <1>2 DEF Pick, ConfirmBluetooth, Welcome, DetectionShown, ReviewBasic, ReviewAdvanced,
     SettingsRead, ReopenPresets, Confirm, PassOver, WriteSetting, WriteMistaken, WriteFails
<1>3. ASSUME NEW t \in Tasks, \/ \E l \in {"basic", "advanced"} : UserLevel(l, t)
                              \/ ReopenDetection(t) \/ Detected(t)
      PROVE  FALSE
  BY <1>3 DEF UserLevel, ReopenDetection, Detected
<1> QED
  BY <1>1, <1>2, <1>3 DEF FlowNext, PickBle, PickUsb, PickTcp, PickPreset, SkipPreset, ManualConfig

\* Before, only the creation changes the entry or the integration.
LEMMA FlowBeforeCreation ==
  ASSUME FlowNext
  PROVE  Create \/ UNCHANGED <<entry, phase, active, data, reloads, missed>>
BY DEF FlowNext, PickBle, PickUsb, PickTcp, Pick, ConfirmBluetooth, Welcome, UserLevel,
   ReopenDetection, Detected, DetectionShown, ReviewBasic, ReviewAdvanced, SettingsRead,
   PickPreset, SkipPreset, ReopenPresets, ManualConfig, Confirm, PassOver, WriteSetting,
   WriteMistaken, WriteFails, entryVars

LEMMA ForceNext == TypedInv /\ ForceInv /\ [Next]_vars => ForceInv'
<1> SUFFICES ASSUME TypedInv, ForceInv, [Next]_vars PROVE ForceInv'
  OBVIOUS
<1>1. CASE UNCHANGED <<entry, phase, active, reloads, missed>>
  BY <1>1 DEF ForceInv
<1>2. CASE FlowNext
  BY <1>1, <1>2, FlowBeforeCreation DEF Create, ForceInv
<1>3. CASE OptionsNext
  <2>1. ASSUME NEW new, NEW b \in BOOLEAN, UpdateEntry(new, b), UNCHANGED <<phase, active>>
        PROVE  ForceInv'
    BY <2>1, UpdateForced DEF TypedInv, TypeOK
  <2>2. ASSUME NEW form \in PageForms, SubmitPage(form)
        PROVE  ForceInv'
    BY <1>1, <2>1, <2>2 DEF SubmitPage, Submit, SubmitBlind
  <2>3. ASSUME NEW new, NEW b \in BOOLEAN, Save(new, b)
        PROVE  ForceInv'
    BY <2>1, <2>3 DEF Save
  <2>4. CASE Writing
    BY <1>1, <2>1, <2>4 DEF Writing, PassField, WriteField, FieldFails, SavePage, RejectPage, entryVars
  <2>5. CASE Redetect \/ Redetected
    BY <1>1, <2>1, <2>5 DEF Redetect, Redetected, entryVars
  <2> QED
    BY <1>3, <2>2, <2>3, <2>4, <2>5 DEF OptionsNext, BatteryConfig, BatteryManagement, InverterOutput,
       SaveIntegration, SaveInterval, SaveCategories, SavePreferences, SaveOverrides, SubmitSuccess,
       SavePreset
<1>4. CASE Lifecycle \/ Refresh
  BY <1>4 DEF Lifecycle, ReadEntry, Refreshed, RefreshFails, SetupDone, SetupRetried, Reload,
     Refresh, ForceInv
<1>5. ASSUME NEW s \in PanelChanges, Panel(s)
      PROVE  ForceInv'
  BY <1>1, <1>5 DEF Panel
<1>6. CASE UNCHANGED vars
  BY <1>1, <1>6 DEF vars, entryVars
<1> QED
  BY <1>2, <1>3, <1>4, <1>5, <1>6 DEF Next

\* __init__.py: however many changes come in a row and whatever set-up is doing,
\* an integration that is loaded, with no reload to come, runs with the features
\* and the options of its entry, unless a change fell between the reading of the
\* entry and the end of set-up.
THEOREM EntryInForce == Spec => []ConfigInForce
<1>1. Init => TypedInv /\ ForceInv
  BY TypedInit DEF Init, EntryInit, ForceInv
<1>2. Spec => [](TypedInv /\ ForceInv)
  BY <1>1, TypedNext, ForceNext, PTL DEF Spec
<1>3. ForceInv => ConfigInForce
  BY DEF ForceInv, ConfigInForce
<1> QED
  BY <1>2, <1>3, PTL

-----------------------------------------------------------------------------
(* What a settings page saves *)

\* A field of the page is done: it was not submitted, its write failed, or the
\* inverter has it.
Kept(f) ==
  \/ job.form[f] = None \/ f \in job.lost \/ f \in touched
  \/ dev[f] = Written(f, job.form[f])

SavedInv ==
  /\ job.pc = "writing" => \A i \in DOMAIN Page : i < job.at => Kept(Page[i])
  /\ SavedMeansWritten

LEMMA FieldsAreRegisters == \A f \in Fields : f \in Registers
BY Place, OptionsAssumption DEF Fields

\* The page is neither written nor changed, but for what is touched.
LEMMA SavedQuiet ==
  ASSUME SavedInv, UNCHANGED <<job, entry>>, touched \subseteq touched',
         \A r \in Registers : dev'[r] = dev[r] \/ r \in touched'
  PROVE  SavedInv'
<1>1. \A f \in Fields : Kept(f) => Kept(f)'
  BY FieldsAreRegisters DEF Kept
<1>2. \A i \in DOMAIN Page : Page[i] \in Fields
  BY DEF Fields
<1>3. SavedMeansWritten'
  BY FieldsAreRegisters DEF SavedInv, SavedMeansWritten
<1> QED
  BY <1>1, <1>2, <1>3 DEF SavedInv

LEMMA SavedWriting ==
  ASSUME TypedInv, SavedInv, PassField \/ WriteField \/ FieldFails
  PROVE  SavedInv'
<1>1. /\ job.pc = "writing" /\ job'.pc = "writing" /\ job'.form = job.form
      /\ job.at \in DOMAIN Page /\ job'.at = job.at + 1 /\ Field \in Fields
  BY WritingTyped
<1>2. touched' = touched
  BY DEF PassField, WriteField, FieldFails, entryVars
<1>3. job.lost \subseteq job'.lost
  BY DEF PassField, WriteField, FieldFails, Lost, TypedInv, TypeOK, OptionsTypeOK, Jobs
<1>4. PICK f \in Registers : f = Field
  BY <1>1, FieldsAreRegisters
<1>5. /\ dev \in [Registers -> Values] /\ job \in Jobs
      /\ \A g \in Registers : g # f => dev'[g] = dev[g]
      /\ dev'[f] = dev[f] \/ (job.form[f] # None /\ dev'[f] = Written(f, job.form[f]))
  BY <1>4 DEF PassField, WriteField, FieldFails, entryVars, TypedInv, TypeOK, EntryTypeOK, OptionsTypeOK
<1>6. \A g \in Registers : Kept(g) => Kept(g)'
  BY <1>1, <1>2, <1>3, <1>5 DEF Kept
<1>7. Kept(f)'
  <2>1. CASE PassField
    BY <1>1, <1>4, <2>1 DEF PassField, Kept
  <2>2. CASE WriteField
    <3>1. dev'[f] = Written(f, job.form[f])
      BY <1>4, <1>5, <2>2 DEF WriteField
    <3> QED
      BY <1>1, <3>1 DEF Kept
  <2>3. CASE FieldFails
    <3>1. f \in job'.lost
      BY <1>4, <1>5, <2>3 DEF FieldFails, Lost, Jobs
    <3> QED
      BY <3>1 DEF Kept
  <2> QED
    BY <2>1, <2>2, <2>3
<1>8. \A i \in DOMAIN Page : i < job'.at => i < job.at \/ i = job.at
  <2>1. \A i \in DOMAIN Page : i \in Nat
    BY OptionsAssumption
  <2>2. job.at \in Nat
    BY <1>5 DEF Jobs
  <2> QED
    BY <1>1, <2>1, <2>2
<1>9. \A i \in DOMAIN Page : Page[i] \in Registers
  BY FieldsAreRegisters DEF Fields
<1>10. \A i \in DOMAIN Page : i < job'.at => Kept(Page[i])'
  BY <1>1, <1>4, <1>6, <1>7, <1>8, <1>9 DEF SavedInv, Field
<1> QED
  BY <1>1, <1>10 DEF SavedInv, SavedMeansWritten

LEMMA SavedSaving ==
  ASSUME TypedInv, SavedInv, SavePage
  PROVE  SavedInv'
<1>1. /\ job'.pc = "saved" /\ job'.form = job.form
      /\ \A f \in Fields : job.form[f] # None => entry'.settings[f] = job.form[f]
  BY SavePageTyped
<1>2. \A i \in DOMAIN Page : i < job.at
  BY OptionsAssumption DEF SavePage
<1>3. \A f \in Fields : Kept(f) /\ f \notin job.lost
  BY <1>2 DEF SavedInv, SavePage, Fields
<1> QED
  BY <1>1, <1>3 DEF SavedInv, SavedMeansWritten, Kept, SavePage

LEMMA SavedNext == TypedInv /\ SavedInv /\ [Next]_vars => SavedInv'
<1> SUFFICES ASSUME TypedInv, SavedInv, [Next]_vars PROVE SavedInv'
  OBVIOUS
<1>1. ASSUME job'.pc \notin {"writing", "saved"} PROVE SavedInv'
  BY <1>1 DEF SavedInv, SavedMeansWritten
<1>2. CASE FlowNext /\ UNCHANGED optionVars
  <2>1. CASE job.pc = "menu"
    BY <1>1, <1>2, <2>1 DEF optionVars
  <2>2. CASE job.pc # "menu"
    <3>1. UNCHANGED <<dev, entry, touched>>
      BY <1>2, <2>2, FlowAfterCreation DEF TypedInv, LinkInv
    <3> QED
      BY <1>2, <3>1, SavedQuiet DEF optionVars
  <2> QED
    BY <2>1, <2>2
<1>3. CASE OptionsNext
  <2>1. ASSUME job' = Menu \/ job' = [Menu EXCEPT !.pc = "detecting"]
        PROVE  SavedInv'
    BY <1>1, <2>1, MenuTyped
  <2>2. ASSUME NEW form \in PageForms, Submit(form)
        PROVE  SavedInv'
    <3>1. job'.pc = "writing" /\ job'.at = 1
      BY <2>2, MenuTyped, FormTyped DEF Submit, TypedInv, TypeOK
    <3>2. \A i \in DOMAIN Page : ~(i < 1)
      BY OptionsAssumption
    <3> QED
      BY <3>1, <3>2 DEF SavedInv, SavedMeansWritten
  <2>3. ASSUME NEW form \in PageForms, SubmitPage(form)
        PROVE  SavedInv'
    BY <2>1, <2>2, <2>3 DEF SubmitPage, SubmitBlind
  <2>4. CASE Writing
    BY <2>1, <2>4, SavedWriting, SavedSaving DEF Writing, RejectPage
  <2>5. ASSUME NEW new, NEW b \in BOOLEAN, Save(new, b)
        PROVE  SavedInv'
    BY <2>1, <2>5 DEF Save
  <2>6. CASE Redetect \/ Redetected
    BY <2>1, <2>6 DEF Redetect, Redetected
  <2> QED
    BY <1>3, <2>3, <2>4, <2>5, <2>6 DEF OptionsNext, BatteryConfig, BatteryManagement, InverterOutput,
       SaveIntegration, SaveInterval, SaveCategories, SavePreferences, SaveOverrides, SubmitSuccess,
       SavePreset
<1>4. CASE (Lifecycle \/ Refresh) /\ UNCHANGED optionVars
  <2>1. UNCHANGED <<dev, entry, touched>>
    BY <1>4 DEF Lifecycle, ReadEntry, Refreshed, RefreshFails, SetupDone, SetupRetried, Reload, Refresh
  <2> QED
    BY <1>4, <2>1, SavedQuiet DEF optionVars
<1>5. ASSUME NEW s \in PanelChanges, Panel(s), UNCHANGED optionVars
      PROVE  SavedInv'
  <2>1. \A r \in Registers : dev'[r] = dev[r] \/ r \in touched'
    BY <1>5 DEF Panel, TypedInv, TypeOK, EntryTypeOK
  <2>2. touched \subseteq touched' /\ entry' = entry
    BY <1>5 DEF Panel
  <2> QED
    BY <1>5, <2>1, <2>2, SavedQuiet DEF optionVars
<1>6. CASE UNCHANGED vars
  BY <1>6, SavedQuiet DEF vars, entryVars, optionVars
<1> QED
  BY <1>2, <1>3, <1>4, <1>5, <1>6 DEF Next

LEMMA SavedAlways == Spec => [](TypedInv /\ SavedInv)
<1>1. Init => TypedInv /\ SavedInv
  BY TypedInit, MenuTyped DEF Init, OptionsInit, SavedInv, SavedMeansWritten
<1> QED
  BY <1>1, TypedNext, SavedNext, PTL DEF Spec

\* options/base.py: what a settings page reports as saved was written to the
\* inverter, every field, and is in the options as it was typed, unless somebody
\* changed it at the panel: whatever reloads, failures and other pages there were.
THEOREM SavedIsWritten == Spec => []SavedMeansWritten
<1>1. SavedInv => SavedMeansWritten
  BY DEF SavedInv
<1> QED
  BY <1>1, SavedAlways, PTL

\* validation_engine.py: two thresholds submitted together and saved are in
\* order on the inverter, whatever the scale of their unit.
THEOREM PageInOrder == Spec => []PageKeepsOrder
<1>1. TypedInv /\ SavedInv => PageKeepsOrder
  <2> SUFFICES ASSUME TypedInv, SavedInv, NEW p \in Below, job.pc = "saved",
                      job.form[p[1]] # None, job.form[p[2]] # None,
                      {p[1], p[2]} \cap touched = {}
               PROVE  dev[p[1]] < dev[p[2]]
    BY DEF PageKeepsOrder
  <2>1. p[1] \in Fields /\ p[2] \in Fields /\ Scale[p[1]] = Scale[p[2]]
    BY OptionsAssumption DEF Below
  <2>2. p[1] \in Registers /\ p[2] \in Registers
    BY <2>1, FieldsAreRegisters
  <2>3. dev[p[1]] = Scale[p[1]] * job.form[p[1]] /\ dev[p[2]] = Scale[p[1]] * job.form[p[2]]
    BY <2>1 DEF SavedInv, SavedMeansWritten, Written
  <2>4. job.form[p[1]] < job.form[p[2]]
    BY DEF TypedInv, FormInv
  <2>5. /\ Scale[p[1]] \in Nat \ {0}
        /\ job.form[p[1]] \in Nat /\ job.form[p[2]] \in Nat
    BY <2>2, OptionsAssumption DEF TypedInv, TypeOK, OptionsTypeOK, Jobs
  <2>6. \A s \in Nat \ {0}, a, b \in Nat : a < b => s * a < s * b
    OBVIOUS
  <2> QED
    BY <2>3, <2>4, <2>5, <2>6
<1> QED
  BY <1>1, SavedAlways, PTL

-----------------------------------------------------------------------------
(* What the onboarding writes *)

\* The write of a setting is behind us.
Done(r) ==
  \/ settings[r] \in {None, dev[r]}
  \/ r \in failed \cup touched
  \/ settings[r] = current[r] /\ r \notin read

PathInv ==
  /\ step = "writing" => \A i \in DOMAIN SettingOrder : i < at => Done(SettingOrder[i])
  /\ \A r \in read : \/ dev[r] = current[r] \/ r \in touched
                     \/ /\ step = "writing"
                        /\ \E i \in DOMAIN SettingOrder : i < at /\ SettingOrder[i] = r
  /\ step = "created" => read = {}
  /\ step \in {"review", "writing"} => Valid(settings)

\* Neither the choice nor the place changes, and of the inverter only what is
\* touched; without something read or written not even that matters.
LEMMA PathQuiet ==
  ASSUME PathInv, UNCHANGED <<step, settings, current, read, at, failed>>,
         \/ step = "created"
         \/ /\ touched \subseteq touched'
            /\ \A r \in Registers : dev'[r] = dev[r] \/ r \in touched',
         FlowTypeOK
  PROVE  PathInv'
<1>1. CASE step = "created"
  BY <1>1 DEF PathInv
<1>2. CASE step # "created"
  <2>1. \A i \in DOMAIN SettingOrder : SettingOrder[i] \in Registers
    BY Place, OnboardingAssumption
  <2>2. \A r \in Registers : Done(r) => Done(r)'
    BY <1>2 DEF Done
  <2>3. \A r \in read : r \in Registers
    BY DEF FlowTypeOK
  <2> QED
    BY <1>2, <2>1, <2>2, <2>3 DEF PathInv
<1> QED
  BY <1>1, <1>2

\* A handler on the way to the write.
LEMMA PathOnTheWay ==
  ASSUME PathInv, step # "writing", step' \notin {"writing", "created"},
         UNCHANGED <<dev, touched, current, read>>,
         step' = "review" => Valid(settings')
  PROVE  PathInv'
BY DEF PathInv

LEMMA PathConfirm ==
  ASSUME TypedInv, PathInv, Confirm
  PROVE  PathInv'
<1>1. \A i \in DOMAIN SettingOrder : SettingOrder[i] \in Registers /\ ~(i < 1)
  BY Place, OnboardingAssumption
<1>2. settings = Absent => \A r \in Registers : Done(r)'
  BY DEF Confirm, Done, Absent
<1>3. \A i \in DOMAIN SettingOrder : i < at' => Done(SettingOrder[i])'
  BY <1>1, <1>2 DEF Confirm
<1>4. UNCHANGED <<dev, touched, current, read, settings>> /\ step = "review" /\ step' = "writing"
  BY DEF Confirm, entryVars
<1> QED
  BY <1>3, <1>4 DEF PathInv

LEMMA PathWriting ==
  ASSUME TypedInv, PathInv, PassOver \/ WriteSetting \/ WriteMistaken \/ WriteFails
  PROVE  PathInv'
<1>0. PassOver \/ WriteSetting \/ WriteMistaken \/ WriteFails
  OBVIOUS
<1>1. /\ step = "writing" /\ at \in DOMAIN SettingOrder /\ at' = at + 1
      /\ UNCHANGED <<step, settings, current, read>> /\ failed \subseteq failed'
      /\ touched \subseteq touched'
  BY DEF PassOver, WriteSetting, WriteMistaken, WriteFails, entryVars, Failed
<1>2. PICK r \in Registers : r = SettingOrder[at]
  BY <1>1, Place, OnboardingAssumption
<1>3. /\ dev \in [Registers -> Values]
      /\ \A q \in Registers : q # r => dev'[q] = dev[q]
      /\ dev'[r] \in {dev[r], settings[r]}
  BY <1>2 DEF PassOver, WriteSetting, WriteMistaken, WriteFails, entryVars, TypedInv, TypeOK, EntryTypeOK
<1>4. \A q \in Registers : Done(q) => Done(q)'
  BY <1>1, <1>3 DEF Done
<1>5. \A i \in DOMAIN SettingOrder : i \in Nat /\ SettingOrder[i] \in Registers
  BY Place, OnboardingAssumption
<1>6. Done(r)'
  <2>1. CASE PassOver
    <3>1. settings[r] \in {None, current[r]} /\ UNCHANGED <<dev, failed>>
      BY <1>2, <2>1 DEF PassOver, Pending, entryVars
    <3>2. Done(r)
      <4>1. CASE settings[r] = None \/ r \notin read
        BY <3>1, <4>1 DEF Done
      <4>2. CASE settings[r] = current[r] /\ r \in read
        <5>1. \/ dev[r] = current[r] \/ r \in touched
              \/ \E i \in DOMAIN SettingOrder : i < at /\ SettingOrder[i] = r
          BY <4>2 DEF PathInv
        <5>2. \A i \in DOMAIN SettingOrder : i < at => Done(SettingOrder[i])
          BY <1>1 DEF PathInv
        <5> QED
          BY <4>2, <5>1, <5>2 DEF Done
      <4> QED
        BY <3>1, <4>1, <4>2
    <3> QED
      BY <1>4, <3>2
  <2>2. CASE WriteSetting
    <3>1. dev'[r] = settings[r]
      BY <1>2, <1>3, <2>2 DEF WriteSetting
    <3> QED
      BY <1>1, <3>1 DEF Done
  <2>3. CASE WriteFails
    BY <1>2, <2>3 DEF WriteFails, Failed, Done
  <2>4. CASE WriteMistaken
    BY <1>2, <2>4 DEF WriteMistaken, Done
  <2> QED
    BY <1>0, <2>1, <2>2, <2>3, <2>4
<1>7. at \in Nat /\ \A i \in DOMAIN SettingOrder : i < at' <=> i < at \/ i = at
  BY <1>1, <1>5
<1>8. \A i \in DOMAIN SettingOrder : i < at' => Done(SettingOrder[i])'
  BY <1>1, <1>2, <1>4, <1>5, <1>6, <1>7 DEF PathInv
<1>9. \A q \in read : \/ dev'[q] = current[q] \/ q \in touched'
                      \/ \E i \in DOMAIN SettingOrder : i < at' /\ SettingOrder[i] = q
  <2>1. SUFFICES ASSUME NEW q \in read
                 PROVE  \/ dev'[q] = current[q] \/ q \in touched'
                        \/ \E i \in DOMAIN SettingOrder : i < at' /\ SettingOrder[i] = q
    OBVIOUS
  <2>2. q \in Registers
    BY DEF TypedInv, TypeOK, FlowTypeOK
  <2>3. CASE q = r
    BY <1>1, <1>2, <1>7, <2>3
  <2>4. CASE q # r
    BY <1>1, <1>3, <1>7, <2>2, <2>4 DEF PathInv
  <2> QED
    BY <2>3, <2>4
<1>10. /\ step' = "writing" /\ settings' = settings /\ read' = read /\ current' = current
       /\ Valid(settings)
  BY <1>1 DEF PathInv
<1>11. \A q \in read' : \/ dev'[q] = current'[q] \/ q \in touched'
                        \/ /\ step' = "writing"
                           /\ \E i \in DOMAIN SettingOrder : i < at' /\ SettingOrder[i] = q
  BY <1>9, <1>10
<1> QED
  BY <1>8, <1>10, <1>11 DEF PathInv

LEMMA PathFlow ==
  ASSUME TypedInv, PathInv, FlowNext
  PROVE  PathInv'
<1>1. ASSUME NEW s, Validate(s), step \in {"preset_selection", "manual_config"},
             UNCHANGED <<dev, touched, current, read>>
      PROVE  PathInv'
  BY <1>1, PathOnTheWay DEF Validate
<1>2. CASE \/ \E p \in Presets : PickPreset(p)
           \/ SkipPreset
           \/ \E form \in Forms : ManualConfig(form)
  BY <1>1, <1>2 DEF PickPreset, SkipPreset, ManualConfig, entryVars
<1>3. CASE \/ Pick \/ ConfirmBluetooth \/ Welcome \/ DetectionShown
           \/ ReviewBasic \/ ReviewAdvanced \/ ReopenPresets
           \/ \E t \in Tasks : \/ \E l \in {"basic", "advanced"} : UserLevel(l, t)
                               \/ ReopenDetection(t)
  BY <1>3, PathOnTheWay DEF Pick, ConfirmBluetooth, Welcome, DetectionShown, ReviewBasic,
     ReviewAdvanced, ReopenPresets, UserLevel, ReopenDetection, entryVars
<1>4. ASSUME NEW t \in Tasks, Detected(t)
      PROVE  PathInv'
  BY <1>4, PathQuiet DEF Detected, TypedInv, TypeOK
<1>5. CASE SettingsRead
  <2>1. PICK got \in Readable("flow") :
          /\ current' = [r \in Registers |-> IF r \in got THEN dev[r] ELSE Defaults[r]]
          /\ read' = got
    BY <1>5 DEF SettingsRead
  <2>2. \A r \in read' : dev[r] = current'[r]
    BY <2>1 DEF Readable
  <2> QED
    BY <1>5, <2>2 DEF SettingsRead, PathInv
<1>6. CASE Create
  BY <1>6 DEF Create, PathInv
<1> QED
  BY <1>2, <1>3, <1>4, <1>5, <1>6, PathConfirm, PathWriting
     DEF FlowNext, PickBle, PickUsb, PickTcp

LEMMA PathNext == TypedInv /\ PathInv /\ [Next]_vars => PathInv'
<1> SUFFICES ASSUME TypedInv, PathInv, [Next]_vars PROVE PathInv'
  OBVIOUS
<1>1. FlowTypeOK /\ dev \in [Registers -> Values]
  BY DEF TypedInv, TypeOK, EntryTypeOK
<1>2. CASE OptionsNext /\ UNCHANGED flowVars
  <2>1. step = "created"
    BY <1>2, OptionsTyped DEF TypedInv, LinkInv
  <2> QED
    BY <1>1, <1>2, <2>1, PathQuiet DEF flowVars
<1>3. CASE (Lifecycle \/ Refresh) /\ UNCHANGED flowVars
  <2>1. UNCHANGED <<dev, touched>>
    BY <1>3 DEF Lifecycle, ReadEntry, Refreshed, RefreshFails, SetupDone, SetupRetried, Reload, Refresh
  <2> QED
    BY <1>1, <1>3, <2>1, PathQuiet DEF flowVars
<1>4. ASSUME NEW s \in PanelChanges, Panel(s), UNCHANGED flowVars
      PROVE  PathInv'
  <2>1. \A r \in Registers : dev'[r] = dev[r] \/ r \in touched'
    BY <1>1, <1>4 DEF Panel
  <2>2. touched \subseteq touched'
    BY <1>4 DEF Panel
  <2> QED
    BY <1>1, <1>4, <2>1, <2>2, PathQuiet DEF flowVars
<1>5. CASE UNCHANGED vars
  BY <1>1, <1>5, PathQuiet DEF vars, flowVars, entryVars
<1> QED
  BY <1>2, <1>3, <1>4, <1>5, PathFlow DEF Next

LEMMA PathAlways == Spec => [](TypedInv /\ PathInv)
<1>1. Init => TypedInv /\ PathInv
  BY TypedInit DEF Init, FlowInit, PathInv
<1> QED
  BY <1>1, TypedNext, PathNext, PTL DEF Spec

\* The entry is created when the write has gone through the whole order.
LEMMA Creation ==
  ASSUME TypedInv, PathInv, [Next]_vars, Creates
  PROVE  /\ entry'.settings = settings /\ Valid(settings)
         /\ \A i \in DOMAIN SettingOrder : Done(SettingOrder[i])
<1>1. Create
  BY OnlyCreate DEF Creates, Next, vars, flowVars
<1>2. \A i \in DOMAIN SettingOrder : i < at
  BY <1>1, OnboardingAssumption DEF Create
<1> QED
  BY <1>1, <1>2 DEF Create, PathInv

\* onboarding.py: with an order of writing that names every register, the
\* inverter holds the settings of a new entry, but for those that failed, were
\* changed at the panel, or equal a default that was never read.
THEOREM NewEntryHeld ==
  ASSUME \A r \in Registers : \E i \in DOMAIN SettingOrder : SettingOrder[i] = r
  PROVE  Spec => SettingsHeld
<1>1. TypedInv /\ PathInv /\ [Next]_vars =>
        (Creates => \A r \in Registers :
                      \/ entry'.settings[r] \in {None, dev[r]}
                      \/ r \in failed \cup touched
                      \/ entry'.settings[r] = current[r] /\ r \notin read)
  <2> SUFFICES ASSUME TypedInv, PathInv, [Next]_vars, Creates, NEW r \in Registers
               PROVE  \/ entry'.settings[r] \in {None, dev[r]}
                      \/ r \in failed \cup touched
                      \/ entry'.settings[r] = current[r] /\ r \notin read
    OBVIOUS
  <2>1. Done(r) /\ entry'.settings = settings
    BY Creation
  <2> QED
    BY <2>1 DEF Done
<1> QED
  BY <1>1, PathAlways, PTL DEF Spec, SettingsHeld

\* onboarding.py: the thresholds of a new entry are in order on the inverter if
\* each was read or changed and none failed, though they are written one by one
\* and the equal ones not at all.
THEOREM NewThresholdsInOrder ==
  ASSUME \A r \in {Stop, ToAC, ToBattery} : \E i \in DOMAIN SettingOrder : SettingOrder[i] = r
  PROVE  Spec => ThresholdsInOrder
<1>1. TypedInv /\ PathInv /\ [Next]_vars =>
        (/\ Creates
         /\ \A r \in {Stop, ToAC, ToBattery} :
               /\ entry'.settings[r] \in Values \ {0}
               /\ r \notin failed \cup touched
               /\ r \in read \/ entry'.settings[r] # current[r]
         => dev[Stop] < dev[ToAC] /\ dev[ToAC] < dev[ToBattery])
  <2> SUFFICES ASSUME TypedInv, PathInv, [Next]_vars, Creates,
                      \A r \in {Stop, ToAC, ToBattery} :
                        /\ entry'.settings[r] \in Values \ {0}
                        /\ r \notin failed \cup touched
                        /\ r \in read \/ entry'.settings[r] # current[r]
               PROVE  dev[Stop] < dev[ToAC] /\ dev[ToAC] < dev[ToBattery]
    OBVIOUS
  <2>1. entry'.settings = settings /\ Valid(settings)
    BY Creation
  <2>2. \A r \in {Stop, ToAC, ToBattery} : Done(r)
    BY Creation
  <2>3. None \notin Values
    BY EntryAssumption
  <2>4. \A r \in {Stop, ToAC, ToBattery} : settings[r] \in Values \ {0} /\ settings[r] = dev[r]
    BY <2>1, <2>2, <2>3 DEF Done
  <2> QED
    BY <2>1, <2>4 DEF Valid, Less
<1> QED
  BY <1>1, PathAlways, PTL DEF Spec, ThresholdsInOrder

-----------------------------------------------------------------------------
(* The machine and the steps                                               *)
(*                                                                         *)
(* StepInv says what a single detection leaves behind: it has not begun,   *)
(* it runs and there is no result, or it is over and moves nothing more.   *)

\* A second page of the detection was opened.
TwoTasks == \E t, u \in Tasks : t # u /\ tasks[t] # "none" /\ tasks[u] # "none"

BeforeDetection == {"device", "bluetooth_confirm", "welcome", "user_level"}

StepInv ==
  \/ TwoTasks
  \/ /\ step \in BeforeDetection => detected = None /\ \A t \in Tasks : tasks[t] = "none"
     /\ step = "hardware_detection" =>
          /\ \E t \in Tasks : tasks[t] # "none"
          /\ \/ machine = "hardware_detection" /\ detected = None
             \/ machine = "detection_review" /\ \A t \in Tasks : tasks[t] # "probing"
     /\ step \notin BeforeDetection \cup {"hardware_detection"} =>
          \A t \in Tasks : tasks[t] # "probing"
     /\ step # "hardware_detection" =>
          \/ machine = Label(step)
          \/ step \in {"preset_selection", "manual_config"} /\ machine = "validation"

\* The moves the step handlers ask for.
LEMMA AfterTable ==
  /\ After("device_scan", "device_selected") = "device_selected"
  /\ After("device_selected", "welcome") = "welcome"
  /\ After("welcome", "user_level") = "user_level"
  /\ After("user_level", "hardware_detection") = "hardware_detection"
  /\ After("hardware_detection", "detection_review") = "detection_review"
  /\ After("detection_review", "preset_selection") = "preset_selection"
  /\ After("detection_review", "manual_config") = "manual_config"
  /\ After("preset_selection", "validation") = "validation"
  /\ After("manual_config", "validation") = "validation"
  /\ After("validation", "validation") = "validation"
  /\ After("validation", "review") = "review"
<1>1. /\ CanTransition("device_scan", "device_selected")
      /\ CanTransition("device_selected", "welcome")
      /\ CanTransition("welcome", "user_level")
      /\ CanTransition("user_level", "hardware_detection")
      /\ CanTransition("hardware_detection", "detection_review")
      /\ CanTransition("detection_review", "preset_selection")
  BY DEF CanTransition, Moves
<1>2. /\ CanTransition("detection_review", "manual_config")
      /\ CanTransition("preset_selection", "validation")
      /\ CanTransition("manual_config", "validation")
      /\ CanTransition("validation", "review")
  BY DEF CanTransition, Moves
<1> QED
  BY <1>1, <1>2 DEF After

\* Opening the page once more makes it two.
LEMMA TasksStay ==
  ASSUME TypedInv, [Next]_vars
  PROVE  TwoTasks => TwoTasks'
<1>1. \A t \in Tasks : tasks[t] # "none" => tasks'[t] # "none"
  <2>1. CASE UNCHANGED tasks
    BY <2>1
  <2>2. ASSUME NEW t \in Tasks, StartTask(t) \/ Detected(t)
        PROVE  \A u \in Tasks : tasks[u] # "none" => tasks'[u] # "none"
    BY <2>2 DEF StartTask, Detected, TypedInv, TypeOK, FlowTypeOK
  <2>3. CASE FlowNext
    BY <2>1, <2>2, <2>3 DEF FlowNext, PickBle, PickUsb, PickTcp, Pick, ConfirmBluetooth,
       Welcome, UserLevel, ReopenDetection, DetectionShown, ReviewBasic, ReviewAdvanced,
       SettingsRead, PickPreset, SkipPreset, ReopenPresets, ManualConfig, Confirm,
       PassOver, WriteSetting, WriteMistaken, WriteFails, Create
  <2> QED
    BY <2>1, <2>3 DEF Next, vars, flowVars
<1> QED
  BY <1>1 DEF TwoTasks

\* The steps up to the detection.
LEMMA StepDetecting ==
  ASSUME TypedInv, StepInv, ~TwoTasks,
         \/ Pick \/ ConfirmBluetooth \/ Welcome \/ DetectionShown
         \/ \E t \in Tasks : \/ \E l \in {"basic", "advanced"} : UserLevel(l, t)
                             \/ ReopenDetection(t) \/ Detected(t)
  PROVE  StepInv'
<1> USE DEF BeforeDetection, Label
<1>1. CASE Pick
  BY <1>1, AfterTable DEF Pick, ShowWelcome, StepInv
<1>2. CASE ConfirmBluetooth
  BY <1>2, AfterTable DEF ConfirmBluetooth, ShowWelcome, StepInv
<1>3. CASE Welcome
  BY <1>3, AfterTable DEF Welcome, StepInv
<1>4. CASE DetectionShown
  BY <1>4 DEF DetectionShown, HasResult, StepInv
<1>5. ASSUME NEW t \in Tasks, NEW l \in {"basic", "advanced"}, UserLevel(l, t)
      PROVE  StepInv'
  <2>1. machine' = "hardware_detection" /\ detected' = None /\ step' = "hardware_detection"
    BY <1>5, AfterTable DEF UserLevel, StepInv
  <2>2. tasks'[t] # "none"
    BY <1>5 DEF UserLevel, StartTask, TypedInv, TypeOK, FlowTypeOK
  <2> QED
    BY <2>1, <2>2 DEF StepInv
<1>6. ASSUME NEW t \in Tasks, ReopenDetection(t)
      PROVE  StepInv'
  <2>1. PICK u \in Tasks : tasks[u] # "none"
    BY <1>6 DEF ReopenDetection, StepInv
  <2>2. TwoTasks'
    BY <1>6, <2>1 DEF ReopenDetection, StartTask, TwoTasks, TypedInv, TypeOK, FlowTypeOK
  <2> QED
    BY <2>2 DEF StepInv
<1>7. ASSUME NEW t \in Tasks, Detected(t)
      PROVE  StepInv'
  <2>1. step = "hardware_detection" /\ machine = "hardware_detection"
    BY <1>7 DEF Detected, StepInv
  <2>2. \A u \in Tasks : tasks'[u] # "probing"
    BY <1>7 DEF Detected, TwoTasks, TypedInv, TypeOK, FlowTypeOK
  <2>3. tasks'[t] # "none" /\ machine' = "detection_review" /\ step' = "hardware_detection"
    BY <1>7, <2>1, AfterTable DEF Detected, TypedInv, TypeOK, FlowTypeOK
  <2> QED
    BY <2>2, <2>3 DEF StepInv
<1> QED
  BY <1>1, <1>2, <1>3, <1>4, <1>5, <1>6, <1>7

\* The steps after it.
LEMMA StepChoosing ==
  ASSUME TypedInv, StepInv, ~TwoTasks,
         \/ ReviewBasic \/ ReviewAdvanced \/ SettingsRead
         \/ \E p \in Presets : PickPreset(p)
         \/ SkipPreset \/ ReopenPresets
         \/ \E form \in Forms : ManualConfig(form)
         \/ Confirm \/ PassOver \/ WriteSetting \/ WriteMistaken \/ WriteFails \/ Create
  PROVE  StepInv'
<1> USE DEF BeforeDetection, Label
<1>1. CASE ReviewBasic
  BY <1>1, AfterTable DEF ReviewBasic, StepInv
<1>2. CASE ReviewAdvanced
  BY <1>2, AfterTable DEF ReviewAdvanced, StepInv
<1>3. CASE SettingsRead \/ ReopenPresets
  BY <1>3 DEF SettingsRead, ReopenPresets, StepInv
<1>4. ASSUME NEW s, Validate(s), step \in {"preset_selection", "manual_config"},
             UNCHANGED tasks
      PROVE  StepInv'
  <2>1. After(machine, "validation") = "validation"
    BY <1>4, AfterTable DEF StepInv
  <2>2. \/ step' = "review" /\ machine' = "review"
        \/ step' \in {"preset_selection", "manual_config"} /\ machine' = "validation"
    BY <1>4, <2>1, AfterTable DEF Validate
  <2> QED
    BY <1>4, <2>2 DEF StepInv
<1>5. CASE \/ \E p \in Presets : PickPreset(p)
           \/ SkipPreset
           \/ \E form \in Forms : ManualConfig(form)
  BY <1>4, <1>5 DEF PickPreset, SkipPreset, ManualConfig
<1>6. CASE Confirm \/ PassOver \/ WriteSetting \/ WriteMistaken \/ WriteFails \/ Create
  BY <1>6 DEF Confirm, PassOver, WriteSetting, WriteMistaken, WriteFails, Create, StepInv
<1> QED
  BY <1>1, <1>2, <1>3, <1>5, <1>6

LEMMA StepNext == TypedInv /\ StepInv /\ [Next]_vars => StepInv'
<1> SUFFICES ASSUME TypedInv, StepInv, [Next]_vars PROVE StepInv'
  OBVIOUS
<1>1. CASE TwoTasks
  BY <1>1, TasksStay DEF StepInv
<1>2. CASE ~TwoTasks /\ FlowNext
  BY <1>2, StepDetecting, StepChoosing DEF FlowNext, PickBle, PickUsb, PickTcp
<1>3. CASE UNCHANGED flowVars
  BY <1>3 DEF flowVars, StepInv, TwoTasks
<1> QED
  BY <1>1, <1>2, <1>3 DEF Next, vars

\* onboarding.py: whatever the user does with the forms and whatever the
\* inverter answers, no move that a handler asks for is refused unless the page
\* of the detection was opened twice: the machine stays with the flow.
THEOREM MachineStaysWithFlow == Spec => []MachineKnowsStep
<1>1. Init => StepInv
  BY DEF Init, FlowInit, StepInv, BeforeDetection, Label
<1>2. StepInv => MachineKnowsStep
  BY DEF StepInv, MachineKnowsStep, TwoTasks, Label
<1>3. Init => TypedInv
  BY TypedInit
<1> QED
  BY <1>1, <1>2, <1>3, TypedNext, StepNext, PTL DEF Spec

=============================================================================
