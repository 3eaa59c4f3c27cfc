----------------------------- MODULE Onboarding -----------------------------
(***************************************************************************)
(* config_flow/onboarding.py: from a device to a config entry.             *)
(*                                                                         *)
(* An action is a step handler, from the submitted form to the next form   *)
(* it shows; handlers that wait for the inverter are cut there.  One form  *)
(* is submitted at a time, but the page of the detection may be opened     *)
(* again: every time it starts another task.  Tasks and handlers each make *)
(* a connection of their own; an inverter takes one at a time, and who is  *)
(* not connected reads nothing.                                            *)
(***************************************************************************)
EXTENDS ConfigEntry, OnboardingStateMachine, Sequences

CONSTANTS
  Hardware,     \* the features the inverter has
  Inferred,     \* the ones its name suggests
  Presets,      \* records: needs (features), settings
  Forms,        \* what a manual form may say
  Defaults,     \* _get_default_settings()
  SettingOrder, \* the registers, in the order they are written (the code's is that in
                \* which custom_settings got them; one fixed order stands for it)
  NewOptions,   \* the options of a new entry
  Stop, ToAC, ToBattery,
  Tasks         \* bound: detection tasks

Absent == [r \in Registers |-> None]

SomeSettings == [Registers -> Values \cup {None}]

ASSUME OnboardingAssumption ==
  /\ Hardware \subseteq Features /\ Inferred \subseteq Features
  /\ Presets \subseteq [needs: SUBSET Features, settings: SomeSettings]
  /\ Forms \subseteq SomeSettings
  /\ Defaults \in [Registers -> Values]
  /\ SettingOrder \in Seq(Registers) /\ NewOptions \in Options
  /\ {Stop, ToAC, ToBattery} \subseteq Registers
  /\ None \notin Tasks

VARIABLES
  step,      \* the form on display, or what the handler is waiting for
  machine,   \* _state_machine.current_state
  level,     \* user_level
  detected,  \* detected_features, None before the first detection
  settings,  \* custom_settings
  skip,      \* the preset form offers "skip"
  current,   \* what the new settings are compared with
  read,      \* history: the settings `current' has from the inverter
  tasks,     \* the detection tasks
  link,      \* who is connected
  at, failed \* the write: the place in the order, the settings that failed

flowVars == <<step, machine, level, detected, settings, skip, current, read,
              tasks, link, at, failed>>

Steps == {"device", "bluetooth_confirm", "welcome", "user_level",
          "hardware_detection", "detection_review", "reading", "preset_selection",
          "manual_config", "review", "writing", "created"}

FlowTypeOK ==
  /\ step \in Steps /\ machine \in States
  /\ level \in {"basic", "advanced"}
  /\ detected \in {None} \cup SUBSET Features
  /\ settings \in SomeSettings /\ skip \in BOOLEAN
  /\ current \in [Registers -> Values] /\ read \subseteq Registers
  /\ tasks \in [Tasks -> {"none", "probing", "done"}]
  /\ link \in Tasks \cup {"flow", None}
  /\ at \in 1..(Len(SettingOrder) + 1) /\ failed \subseteq Registers

FlowInit ==
  /\ step \in {"device", "bluetooth_confirm"} /\ machine = "device_scan"
  /\ level = "basic" /\ detected = None
  /\ settings = Absent /\ skip = TRUE
  /\ current = Defaults /\ read = {}
  /\ tasks = [t \in Tasks |-> "none"] /\ link = None
  /\ at = 1 /\ failed = {}

-----------------------------------------------------------------------------
(* Operators *)

\* _validate_settings() on two of the thresholds: one that is missing or zero
\* is not compared (a missing battery threshold counts as 100, above the rest).
Less(s, a, b) ==
  s[a] \in Values \ {0} /\ s[b] \in Values \ {0} => s[a] < s[b]

MutantFirstPairOnly(s) == Less(s, Stop, ToAC)

Valid(s) == Less(s, Stop, ToAC) /\ Less(s, ToAC, ToBattery)

\* _filter_presets_by_features()
Available(p) == p.needs \subseteq detected

\* custom_settings.update(form)
Updated(s, form) == [r \in Registers |-> IF form[r] # None THEN form[r] ELSE s[r]]

\* A task or handler that begins to talk to the inverter connects if it can.
Connecting(who) == IF link = None THEN who ELSE link

Released(who) == IF link = who THEN None ELSE link

\* The end of a handler that has submitted settings `s': async_step_validation().
\* From a failed validation the user is back at the form, without "skip".
Validate(s) ==
  LET validating == After(machine, "validation") IN
  /\ settings' = s
  /\ IF Valid(s)
       THEN /\ step' = "review" /\ machine' = After(validating, "review")
            /\ skip' = skip
       ELSE /\ step' = IF level = "basic" THEN "preset_selection" ELSE "manual_config"
            /\ machine' = validating
            /\ skip' = FALSE

-----------------------------------------------------------------------------
(* The device and the user *)

MutantShowWelcome(m) == m

\* async_step_welcome() without input: a machine still at DEVICE_SELECTED moves on.
ShowWelcome(m) == IF m = "device_selected" THEN After(m, "welcome") ELSE m

\* async_step_user() asks for the kind of connection, and the handler of that
\* kind for a device that is not configured yet.
Pick ==
  /\ step = "device" /\ entry = None
  /\ step' = "welcome"
  /\ machine' = ShowWelcome(After(machine, "device_selected"))
  /\ UNCHANGED <<level, detected, settings, skip, current, read, tasks, link, at, failed>>
  /\ UNCHANGED entryVars

PickBle == Pick

PickUsb == Pick

PickTcp == Pick

\* async_step_bluetooth_confirm(), then device_selected().
ConfirmBluetooth ==
  /\ step = "bluetooth_confirm" /\ entry = None
  /\ step' = "welcome"
  /\ machine' = ShowWelcome(After(After(machine, "device_selected"), "welcome"))
  /\ UNCHANGED <<level, detected, settings, skip, current, read, tasks, link, at, failed>>
  /\ UNCHANGED entryVars

Welcome ==
  /\ step = "welcome"
  /\ step' = "user_level" /\ machine' = After(machine, "user_level")
  /\ UNCHANGED <<level, detected, settings, skip, current, read, tasks, link, at, failed>>
  /\ UNCHANGED entryVars

\* async_create_task(self._run_detection())
StartTask(t) ==
  /\ tasks[t] = "none"
  /\ tasks' = [tasks EXCEPT ![t] = "probing"]
  /\ link' = Connecting(t)

UserLevel(l, t) ==
  /\ step = "user_level"
  /\ level' = l
  /\ step' = "hardware_detection" /\ machine' = After(machine, "hardware_detection")
  /\ StartTask(t)
  /\ UNCHANGED <<detected, settings, skip, current, read, at, failed>>
  /\ UNCHANGED entryVars

-----------------------------------------------------------------------------
(* Detection *)

MutantAnyFeature == detected \notin {None, {}}

\* There is a result, be it that the inverter has none of the features.
HasResult == detected # None

\* The page of the detection is opened again: async_step_hardware_detection()
\* starts another task as long as there is no result.
ReopenDetection(t) ==
  /\ step = "hardware_detection" /\ ~HasResult
  /\ StartTask(t)
  /\ UNCHANGED <<step, machine, level, detected, settings, skip, current, read, at, failed>>
  /\ UNCHANGED entryVars

\* detect_all_features(): a feature whose register does not answer is taken
\* as missing.
Probed(t) == IF link = t /\ budget = 0 THEN {Hardware} ELSE SUBSET Hardware

\* When the probing breaks off, the name of the device decides.
Results(t) ==
  IF link = t /\ budget = 0 THEN Probed(t) ELSE Probed(t) \cup {Inferred}

\* The end of _run_detection(): whatever form is on display by now, the result
\* replaces the one before and the machine is moved.  Once the flow has created
\* its entry nobody looks at it.
Detected(t) ==
  /\ tasks[t] = "probing"
  /\ \E fs \in Results(t) :
        /\ detected' = IF step = "created" THEN detected ELSE fs
        /\ budget' = IF link = t /\ fs # Hardware THEN budget - 1 ELSE budget
  /\ machine' = After(machine, "detection_review")
  /\ tasks' = [tasks EXCEPT ![t] = "done"]
  /\ link' = Released(t)
  /\ UNCHANGED <<step, level, settings, skip, current, read, at, failed>>
  /\ UNCHANGED <<dev, entry, phase, active, data, reloads, missed, touched>>

\* The task is done, or the page is opened: progress_done, the next form.
DetectionShown ==
  /\ step = "hardware_detection" /\ HasResult
  /\ step' = "detection_review"
  /\ UNCHANGED <<machine, level, detected, settings, skip, current, read, tasks, link, at, failed>>
  /\ UNCHANGED entryVars

\* async_step_detection_review(): the overrides of the form have other names
\* than the one the handler looks for, so the features stay as detected.
ReviewBasic ==
  /\ step = "detection_review" /\ level = "basic"
  /\ step' = "preset_selection" /\ machine' = After(machine, "preset_selection")
  /\ skip' = TRUE
  /\ UNCHANGED <<level, detected, settings, current, read, tasks, link, at, failed>>
  /\ UNCHANGED entryVars

\* ... and the manual form reads the current settings first.
ReviewAdvanced ==
  /\ step = "detection_review" /\ level # "basic"
  /\ step' = "reading" /\ machine' = After(machine, "manual_config")
  /\ link' = Connecting("flow")
  /\ UNCHANGED <<level, detected, settings, skip, current, read, tasks, at, failed>>
  /\ UNCHANGED entryVars

\* The sets of registers that a handler or task may get an answer for.
Readable(who) == IF link = who /\ budget = 0 THEN {Registers} ELSE SUBSET Registers

\* _read_current_settings(): what cannot be read has its default.
SettingsRead ==
  /\ step = "reading"
  /\ \E got \in Readable("flow") :
        /\ budget' = IF link = "flow" /\ got # Registers THEN budget - 1 ELSE budget
        /\ current' = [r \in Registers |-> IF r \in got THEN dev[r] ELSE Defaults[r]]
        /\ read' = got
  /\ touched' = {}
  /\ step' = "manual_config" /\ link' = Released("flow")
  /\ UNCHANGED <<machine, level, detected, settings, skip, tasks, at, failed>>
  /\ UNCHANGED <<dev, entry, phase, active, data, reloads, missed>>

-----------------------------------------------------------------------------
(* Choosing the settings *)

PickPreset(p) ==
  /\ step = "preset_selection" /\ Available(p)
  /\ Validate(p.settings)
  /\ UNCHANGED <<level, detected, current, read, tasks, link, at, failed>>
  /\ UNCHANGED entryVars

\* "Use current settings": custom_settings stay as an earlier choice left them.
SkipPreset ==
  /\ step = "preset_selection" /\ skip
  /\ Validate(settings)
  /\ UNCHANGED <<level, detected, current, read, tasks, link, at, failed>>
  /\ UNCHANGED entryVars

\* The preset form is opened again, with "skip".
ReopenPresets ==
  /\ step = "preset_selection" /\ ~skip /\ skip' = TRUE
  /\ UNCHANGED <<step, machine, level, detected, settings, current, read, tasks, link, at, failed>>
  /\ UNCHANGED entryVars

ManualConfig(form) ==
  /\ step = "manual_config"
  /\ Validate(Updated(settings, form))
  /\ UNCHANGED <<level, detected, current, read, tasks, link, at, failed>>
  /\ UNCHANGED entryVars

-----------------------------------------------------------------------------
(* Writing and creating the entry *)

\* async_step_review(): with no settings there is nothing to write.
Confirm ==
  /\ step = "review"
  /\ step' = "writing" /\ at' = IF settings = Absent THEN Len(SettingOrder) + 1 ELSE 1
  /\ link' = IF settings = Absent THEN link ELSE Connecting("flow")
  /\ UNCHANGED <<machine, level, detected, settings, skip, current, read, tasks, failed>>
  /\ UNCHANGED entryVars

Pending(r) == settings[r] \notin {None, current[r]}

\* _write_settings_to_inverter(): a setting that is not given, or equal to the
\* one it is compared with, is passed over.
PassOver ==
  /\ step = "writing" /\ at \in DOMAIN SettingOrder
  /\ ~Pending(SettingOrder[at])
  /\ at' = at + 1
  /\ UNCHANGED <<step, machine, level, detected, settings, skip, current, read, tasks, link, failed>>
  /\ UNCHANGED entryVars

WriteSetting ==
  /\ step = "writing" /\ at \in DOMAIN SettingOrder
  /\ Pending(SettingOrder[at])
  /\ dev' = [dev EXCEPT ![SettingOrder[at]] = settings[SettingOrder[at]]]
  /\ at' = at + 1
  /\ UNCHANGED <<step, machine, level, detected, settings, skip, current, read, tasks, link, failed>>
  /\ UNCHANGED <<entry, phase, active, data, reloads, missed, touched, budget>>

\* async_write_register() takes any frame without an error for success: after a
\* write that failed because its answer was late, the next one may be told of that
\* answer, though the inverter did not take it.
WriteMistaken ==
  /\ step = "writing" /\ at \in DOMAIN SettingOrder
  /\ Pending(SettingOrder[at]) /\ failed # {}
  /\ touched' = touched \cup {SettingOrder[at]}
  /\ at' = at + 1
  /\ UNCHANGED <<step, machine, level, detected, settings, skip, current, read, tasks, link, failed>>
  /\ UNCHANGED <<dev, entry, phase, active, data, reloads, missed, budget>>

MutantForgetsFailure(r) == failed

Failed(r) == failed \cup {r}

\* The password or the write is refused, or an answer is lost; the write may
\* be done all the same.
WriteFails ==
  /\ step = "writing" /\ at \in DOMAIN SettingOrder
  /\ LET r == SettingOrder[at] IN
     /\ Pending(r)
     /\ dev' \in {dev, [dev EXCEPT ![r] = settings[r]]}
     /\ failed' = Failed(r)
  /\ IF link = "flow" THEN Trouble ELSE UNCHANGED budget
  /\ at' = at + 1
  /\ UNCHANGED <<step, machine, level, detected, settings, skip, current, read, tasks, link>>
  /\ UNCHANGED <<entry, phase, active, data, reloads, missed, touched>>

\* The entry is created whether or not every write succeeded, and the flow is
\* forgotten; a detection that still runs is not.
Create ==
  /\ step = "writing" /\ at = Len(SettingOrder) + 1
  /\ step' = "created" /\ link' = Released("flow")
  /\ entry' = [settings |-> settings, detected |-> detected, overrides |-> None, options |-> NewOptions]
  /\ phase' = "setup"
  /\ level' = "basic" /\ detected' = None /\ settings' = Absent /\ skip' = TRUE
  /\ current' = Defaults /\ read' = {} /\ at' = 1 /\ failed' = {}
  /\ UNCHANGED <<machine, tasks>>
  /\ UNCHANGED <<dev, active, data, reloads, missed, touched, budget>>

-----------------------------------------------------------------------------
FlowNext ==
  \/ PickBle \/ PickUsb \/ PickTcp \/ ConfirmBluetooth \/ Welcome
  \/ \E t \in Tasks : \/ \E l \in {"basic", "advanced"} : UserLevel(l, t)
                      \/ ReopenDetection(t)
                      \/ Detected(t)
  \/ DetectionShown \/ ReviewBasic \/ ReviewAdvanced \/ SettingsRead
  \/ \E p \in Presets : PickPreset(p)
  \/ SkipPreset \/ ReopenPresets
  \/ \E form \in Forms : ManualConfig(form)
  \/ Confirm \/ PassOver \/ WriteSetting \/ WriteMistaken \/ WriteFails \/ Create

-----------------------------------------------------------------------------
(* Properties *)

\* The state of the machine that goes with a step.
Label(s) == CASE s \in {"device", "bluetooth_confirm"} -> "device_scan"
              [] s = "reading" -> "manual_config"
              [] s \in {"writing", "created"} -> "review"
              [] OTHER -> s

\* onboarding.py: unless the page of the detection was opened twice, the state
\* machine is where the flow is, but for two leads: the detection moves it
\* before its result is shown, and a failed validation leaves it behind.  A
\* refused move, which nothing reports, would leave it somewhere else for good.
MachineKnowsStep ==
  \/ machine = Label(step)
  \/ step = "hardware_detection" /\ machine = "detection_review"
  \/ step \in {"preset_selection", "manual_config"} /\ machine = "validation"
  \/ \E t, u \in Tasks : t # u /\ tasks[t] # "none" /\ tasks[u] # "none"

Creates == step # "created" /\ step' = "created"

\* onboarding.py: when the entry is created, the inverter holds each of its
\* settings, unless the write of it failed or was told of another's answer, it was
\* changed at the panel, or it was equal to the value it was compared with, which
\* may be a mere default.
SettingsHeld ==
  [][Creates =>
       \A r \in Registers :
          \/ entry'.settings[r] \in {None, dev[r]}
          \/ r \in failed \cup touched
          \/ entry'.settings[r] = current[r] /\ r \notin read]_<<flowVars, entryVars>>

\* onboarding.py: three thresholds that went through the flow are in order on
\* the inverter when the entry is created, if none failed (nor was told of another's
\* answer) and each was read
\* from the inverter or differed from its default: they were checked together
\* and written one by one, the equal ones not at all.
ThresholdsInOrder ==
  [][/\ Creates
     /\ \A r \in {Stop, ToAC, ToBattery} :
           /\ entry'.settings[r] \in Values \ {0}
           /\ r \notin failed \cup touched
           /\ r \in read \/ entry'.settings[r] # current[r]
     => dev[Stop] < dev[ToAC] /\ dev[ToAC] < dev[ToBattery]]_<<flowVars, entryVars>>

\* onboarding.py: the detection comes to a result, with as many tasks as there
\* are and no answer from the inverter at all.
DetectionEnds ==
  step = "hardware_detection" ~> step = "detection_review"
=============================================================================
