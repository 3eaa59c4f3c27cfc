---------------------------- MODULE OptionsFlow ----------------------------
(***************************************************************************)
(* config_flow/options: changing the settings and the options of an entry  *)
(* while the integration runs, reloads, or is not there.                   *)
(*                                                                         *)
(* A settings page shows coordinator.data and writes every field it gets   *)
(* back to the inverter, one after the other.  A field with a scale shows  *)
(* a reading only in whole units, and a unit is Scale steps of the         *)
(* register: build_schema() scales the scaled value once more, and         *)
(* parse_user_input() and _convert_value_to_register() undo it once each.  *)
(***************************************************************************)
EXTENDS ConfigEntry, Sequences

CONSTANTS
  Page,        \* the fields of the page, in order
  Scale,       \* steps of the register to a unit on the form
  Low, High,   \* the range of a field, in units
  LessThan,    \* <<f, g>>: the definition of f says must_be_less_than g
  GreaterThan, \* <<f, g>>: the definition of f says must_be_greater_than g
  Units,       \* bound: what is typed into a field
  Templates,   \* the settings of the presets
  Truth,       \* the features the inverter has
  Edits,       \* the features a user may set by hand
  MaxEdits     \* bound: steps of the options flow

Fields == {Page[i] : i \in DOMAIN Page}

\* The first of such a pair is to be below the second, whichever of them says so.
Below == LessThan \cup {<<p[2], p[1]>> : p \in GreaterThan}

ASSUME OptionsAssumption ==
  /\ Page \in Seq(Registers) /\ Units \subseteq Nat
  /\ Scale \in [Registers -> Nat \ {0}]
  /\ Low \in [Registers -> Nat] /\ High \in [Registers -> Nat]
  /\ LessThan \subseteq Fields \X Fields /\ GreaterThan \subseteq Fields \X Fields
  /\ \A p \in Below : Scale[p[1]] = Scale[p[2]]
  /\ \A f \in Fields : \A u \in Low[f]..High[f] : Scale[f] * u \in Values
  /\ Templates \subseteq [Registers -> Values \cup {None}]
  /\ Truth \subseteq Features /\ Edits \subseteq SUBSET Features
  /\ None \notin Nat
  /\ MaxEdits \in Nat

VARIABLES
  job,   \* what the options flow is doing
  edits  \* steps left

optionVars == <<job, edits>>

\* `form': the submitted values, None for a field left empty; `lost': the
\* fields of which a write failed.
Jobs == [pc: {"menu", "writing", "detecting", "saved"},
         form: [Registers -> Nat \cup {None}], at: Nat \ {0},
         lost: SUBSET Registers]

Menu == [pc |-> "menu", form |-> [r \in Registers |-> None], at |-> 1, lost |-> {}]

OptionsTypeOK ==
  /\ job \in Jobs /\ job.at \in 1..(Len(Page) + 1)
  /\ edits \in 0..MaxEdits

OptionsInit == job = Menu /\ edits = MaxEdits

Edit == /\ entry # None /\ job.pc \in {"menu", "saved"} /\ edits > 0 /\ edits' = edits - 1

-----------------------------------------------------------------------------
(* The page *)

\* The default of a field, in units.
Shown(f, raw) == raw \div Scale[f]

MutantScaledTwice(f, u) == Scale[f] * Scale[f] * u

\* What a field writes to its register.
Written(f, u) == Scale[f] * u

\* The value another field is compared with: the one on the form, or else the
\* reading in steps, which is not in the units of the form.
Other(form, f) == IF form[f] # None THEN form[f] ELSE data[f]

MutantRangeOnly(form) ==
  \A f \in Fields : form[f] # None => form[f] \in Low[f]..High[f]

\* validate_field() of every submitted field, against the readings and the form:
\* a pair is looked at from the side that names the other.
FormValid(form) ==
  /\ \A f \in Fields : form[f] # None => form[f] \in Low[f]..High[f]
  /\ \A p \in LessThan : form[p[1]] # None => form[p[1]] < Other(form, p[2])
  /\ \A p \in GreaterThan : form[p[1]] # None => form[p[1]] > Other(form, p[2])

\* The page as it comes: every field with the value it shows.
Untouched == [f \in Registers |-> IF f \in Fields THEN Shown(f, data[f]) ELSE None]

\* Defaults left alone or replaced, fields left empty.
PageForms ==
  {form \in [Registers -> Units \cup {None}] : \A r \in Registers \ Fields : form[r] = None}
  \cup {Untouched}

Saved(form) ==
  [entry EXCEPT !.settings = [r \in Registers |-> IF form[r] # None THEN form[r] ELSE @[r]]]

\* _handle_form_submission_dynamic(): the readings are there, the form is valid.
Submit(form) ==
  /\ Edit /\ Running /\ FormValid(form)
  /\ job' = [Menu EXCEPT !.pc = "writing", !.form = form]
  /\ touched' = {}
  /\ UNCHANGED <<dev, entry, phase, active, data, reloads, missed, budget>>

\* The integration is being reloaded: there is no coordinator, the form is
\* checked only against itself, and saved without a write.
SubmitBlind(form) ==
  /\ Edit /\ ~Running
  /\ \A f \in Fields : form[f] # None => form[f] \in Low[f]..High[f]
  /\ \A p \in Below : form[p[1]] # None /\ form[p[2]] # None => form[p[1]] < form[p[2]]
  /\ UpdateEntry(Saved(form), FALSE)
  /\ job' = Menu
  /\ UNCHANGED <<dev, phase, active, data, touched, budget>>

SubmitPage(form) == Submit(form) \/ SubmitBlind(form)

\* Each page has a handler of its own, which leads to the same submission.
BatteryConfig(form) == SubmitPage(form)

BatteryManagement(form) == SubmitPage(form)

InverterOutput(form) == SubmitPage(form)

Field == Page[job.at]

\* _write_config_to_inverter(): the next field, if it was submitted.
PassField ==
  /\ job.pc = "writing" /\ job.at \in DOMAIN Page /\ job.form[Field] = None
  /\ job' = [job EXCEPT !.at = @ + 1]
  /\ UNCHANGED <<entryVars, edits>>

WriteField ==
  /\ job.pc = "writing" /\ job.at \in DOMAIN Page /\ job.form[Field] # None
  /\ dev' = [dev EXCEPT ![Field] = Written(Field, job.form[Field])]
  /\ job' = [job EXCEPT !.at = @ + 1]
  /\ UNCHANGED <<entry, phase, active, data, reloads, missed, touched, budget, edits>>

MutantGoesOn == job.lost

Lost == job.lost \cup {Field}

\* The inverter refuses the value, or the write or its answer is lost.
FieldFails ==
  /\ job.pc = "writing" /\ job.at \in DOMAIN Page /\ job.form[Field] # None
  /\ Trouble /\ dev' \in {dev, [dev EXCEPT ![Field] = Written(Field, job.form[Field])]}
  /\ job' = [job EXCEPT !.at = @ + 1, !.lost = Lost]
  /\ UNCHANGED <<entry, phase, active, data, reloads, missed, touched, edits>>

\* Everything was written: the options are saved.
SavePage ==
  /\ job.pc = "writing" /\ job.at = Len(Page) + 1 /\ job.lost = {}
  /\ UpdateEntry(Saved(job.form), FALSE)
  /\ job' = [job EXCEPT !.pc = "saved"]
  /\ UNCHANGED <<dev, phase, active, data, touched, budget, edits>>

\* Something failed: the form again, with errors, and nothing saved.
RejectPage ==
  /\ job.pc = "writing" /\ job.at = Len(Page) + 1 /\ job.lost # {}
  /\ job' = Menu
  /\ UNCHANGED <<entryVars, edits>>

-----------------------------------------------------------------------------
(* The other pages *)

Save(new, explicit) ==
  /\ Edit /\ UpdateEntry(new, explicit)
  /\ job' = Menu
  /\ UNCHANGED <<dev, phase, active, data, touched, budget>>

WithOptions(o) == [entry EXCEPT !.options = o]

\* The listener sees to the reload.  To clear the failed registers the first
\* page looks for the coordinator in the wrong place; it saves all the same.
SaveIntegration(o) == Save(WithOptions(o), FALSE)

SaveInterval(o) == Save(WithOptions(o), FALSE)

SaveCategories(o) == Save(WithOptions(o), FALSE)

\* user_preferences reloads the integration itself as well.
SavePreferences(o) == Save(WithOptions(o), TRUE)

\* hardware_features: every feature on the form becomes an override.
SaveOverrides(fs) == Save([entry EXCEPT !.overrides = fs], TRUE)

\* The form that then reports success has no fields: when it is submitted there is
\* nothing on it, and no feature is overridden any more.
SubmitSuccess == entry # None /\ entry.overrides # None /\ SaveOverrides(None)

\* presets: the settings go into the options, not to the inverter.
SavePreset(p) == Save(Saved(p), FALSE)

\* redetect_hardware: the probing goes through the running coordinator, which
\* may be shut down before it is done.
Redetect ==
  /\ Edit /\ Running
  /\ job' = [Menu EXCEPT !.pc = "detecting"]
  /\ UNCHANGED entryVars

\* A feature whose register does not answer is taken as missing.
Redetected ==
  /\ job.pc = "detecting"
  /\ \E fs \in SUBSET Truth :
        /\ IF fs = Truth THEN UNCHANGED budget ELSE Trouble
        /\ UpdateEntry([entry EXCEPT !.detected = fs], TRUE)
  /\ job' = Menu
  /\ UNCHANGED <<dev, phase, active, data, touched, edits>>

Writing == PassField \/ WriteField \/ FieldFails \/ SavePage \/ RejectPage

OptionsNext ==
  \/ \E form \in PageForms :
        BatteryConfig(form) \/ BatteryManagement(form) \/ InverterOutput(form)
  \/ Writing
  \/ \E o \in Options : \/ SaveIntegration(o) \/ SaveInterval(o) \/ SaveCategories(o)
                        \/ SavePreferences(o)
  \/ (\E fs \in Edits : SaveOverrides(fs)) \/ SubmitSuccess
  \/ \E p \in Templates : SavePreset(p)
  \/ Redetect \/ Redetected

-----------------------------------------------------------------------------
(* Properties *)

\* options/base.py: what a settings page reports as saved was written to the
\* inverter, every field of it, and is in the options as it was typed; only
\* somebody at the panel makes it different.
SavedMeansWritten ==
  job.pc = "saved" => \A f \in Fields : job.form[f] # None =>
     /\ entry.settings[f] = job.form[f]
     /\ dev[f] = Written(f, job.form[f]) \/ f \in touched

\* validation_engine.py: two thresholds that were submitted together and saved
\* are in order on the inverter: they were compared in the units of the form
\* and written one by one, in steps.
PageKeepsOrder ==
  \A p \in Below :
     /\ job.pc = "saved" /\ job.form[p[1]] # None /\ job.form[p[2]] # None
     /\ {p[1], p[2]} \cap touched = {}
     => dev[p[1]] < dev[p[2]]
=============================================================================
