---------------------------- MODULE ConfigEntry ----------------------------
(***************************************************************************)
(* What the onboarding and the options flow share: the inverter, the       *)
(* config entry Home Assistant keeps for it, and the integration that is   *)
(* set up from the entry and reloaded when it changes.                     *)
(*                                                                         *)
(* The entry is stored at once when it is updated.  The integration runs   *)
(* with what the entry said when set-up read it: whether it notices a      *)
(* change depends on the update listener, which __init__.py adds at the    *)
(* end of set-up and Home Assistant drops when the integration unloads.    *)
(***************************************************************************)
EXTENDS Integers

CONSTANTS
  Registers,   \* the registers that hold settings
  Values,      \* of registers
  Features,    \* the hardware features
  Options,     \* the other options: update interval, visible groups, ...
  Starts,      \* what the registers may hold at first
  PanelChanges,  \* the settings somebody may make at the inverter's own panel
  None,
  MaxTrouble   \* bound: failed reads, writes and refreshes, panel changes

\* `overrides': the features the user has set by hand, None before that.
Entries == [settings: [Registers -> Nat \cup {None}],
            detected: SUBSET Features,
            overrides: {None} \cup SUBSET Features,
            options: Options]

ASSUME EntryAssumption ==
  /\ Values \subseteq Nat /\ Starts \subseteq [Registers -> Values]
  /\ PanelChanges \subseteq [reg: Registers, val: Values]
  /\ None \notin Values \cup Options \cup Entries /\ \A fs \in SUBSET Features : fs # None
  /\ MaxTrouble \in Nat

VARIABLES
  dev,      \* the registers of the inverter
  entry,    \* the config entry, None before it is created
  phase,    \* of the integration
  active,   \* the features and options it runs with
  data,     \* coordinator.data
  reloads,  \* reloads that wait for the entry's set-up lock
  missed,   \* history: the entry was changed when nobody listened
  touched,  \* history: registers changed at the panel since they were read or submitted,
            \* or whose write was told of the answer to another
  budget    \* troubles left

entryVars == <<dev, entry, phase, active, data, reloads, missed, touched, budget>>

EntryTypeOK ==
  /\ dev \in [Registers -> Values] /\ data \in [Registers -> Values]
  /\ entry \in Entries \cup {None}
  /\ phase \in {"none", "setup", "refreshing", "stored", "loaded", "retry"}
  /\ active \in [features: SUBSET Features, options: Options \cup {None}]
  /\ reloads \in Nat /\ missed \in BOOLEAN
  /\ touched \subseteq Registers /\ budget \in 0..MaxTrouble

EntryInit ==
  /\ dev \in Starts /\ data = dev
  /\ entry = None /\ phase = "none"
  /\ active = [features |-> {}, options |-> None]
  /\ reloads = 0 /\ missed = FALSE /\ touched = {} /\ budget = MaxTrouble

Trouble == budget > 0 /\ budget' = budget - 1

\* hass.data has the coordinator.
Running == phase \in {"stored", "loaded"}

-----------------------------------------------------------------------------
(* Changing the entry *)

MutantDetectedWins(e) == IF e.detected # {} THEN e.detected
                         ELSE IF e.overrides # None THEN e.overrides ELSE {}

\* merge_detected_features(): the dictionaries name every feature, so the
\* later one says it all.
Merged(e) == IF e.overrides # None THEN e.overrides ELSE e.detected

MutantListenerOnly(new, explicit) ==
  /\ entry' = new
  /\ reloads' = IF new # entry /\ phase = "loaded" THEN reloads + 1 ELSE reloads
  /\ missed' = (missed \/ (new # entry /\ phase \in {"refreshing", "stored"} /\ ~explicit))

\* async_update_entry(): the listener, if there is one, asks for a reload
\* when something has changed; some steps ask for one themselves.
UpdateEntry(new, explicit) ==
  /\ entry' = new
  /\ reloads' = reloads + (IF new # entry /\ phase = "loaded" THEN 1 ELSE 0)
                        + (IF explicit THEN 1 ELSE 0)
  /\ missed' = (missed \/ (new # entry /\ phase \in {"refreshing", "stored"} /\ ~explicit))

-----------------------------------------------------------------------------
(* Set-up and reload *)

\* create_container(): what the container and the coordinator keep of an entry.
Configured(e) == [features |-> Merged(e), options |-> e.options]

\* async_setup_entry() loads the device configuration and reads the entry.
ReadEntry ==
  /\ phase = "setup"
  /\ active' = Configured(entry)
  /\ phase' = "refreshing" /\ missed' = FALSE
  /\ UNCHANGED <<dev, entry, data, reloads, touched, budget>>

\* The first refresh is done: the coordinator is put into hass.data.
Refreshed ==
  /\ phase = "refreshing"
  /\ data' = dev /\ phase' = "stored"
  /\ UNCHANGED <<dev, entry, active, reloads, missed, touched, budget>>

\* ConfigEntryNotReady: Home Assistant tries again later.
RefreshFails ==
  /\ phase = "refreshing" /\ Trouble
  /\ phase' = "retry"
  /\ UNCHANGED <<dev, entry, active, data, reloads, missed, touched>>

\* The platforms are set up, the unsupported entities hidden, the listener added.
SetupDone ==
  /\ phase = "stored" /\ phase' = "loaded"
  /\ UNCHANGED <<dev, entry, active, data, reloads, missed, touched, budget>>

SetupRetried ==
  /\ phase = "retry" /\ phase' = "setup"
  /\ UNCHANGED <<dev, entry, active, data, reloads, missed, touched, budget>>

\* A reload gets the set-up lock: async_unload_entry(), then set-up.
Reload ==
  /\ reloads > 0 /\ phase \in {"loaded", "retry"}
  /\ reloads' = reloads - 1 /\ phase' = "setup"
  /\ UNCHANGED <<dev, entry, active, data, missed, touched, budget>>

\* A refresh of the running integration.
Refresh ==
  /\ Running /\ data # dev /\ data' = dev
  /\ UNCHANGED <<dev, entry, phase, active, reloads, missed, touched, budget>>

Lifecycle ==
  ReadEntry \/ Refreshed \/ RefreshFails \/ SetupDone \/ SetupRetried \/ Reload

\* Somebody changes a setting at the inverter.
Panel(s) ==
  /\ Trouble /\ dev[s.reg] # s.val
  /\ dev' = [dev EXCEPT ![s.reg] = s.val]
  /\ touched' = touched \cup {s.reg}
  /\ UNCHANGED <<entry, phase, active, data, reloads, missed>>

-----------------------------------------------------------------------------
(* Properties *)

\* __init__.py: an integration that is set up, with no reload to come, runs
\* with the features and options of the entry, unless they were changed between
\* the moment set-up read the entry and the moment it added the listener: a
\* step that asks for the reload itself is never missed, however many come in
\* a row and whatever set-up is doing.
ConfigInForce ==
  phase = "loaded" /\ reloads = 0 /\ ~missed =>
     active = Configured(entry)

Overridden(fs) == entry # None /\ entry.overrides = fs

\* hardware_features.py, config_loader.py: features set by hand come into force,
\* whatever a detection says later, unless they are set differently first.
OverridesInForce ==
  \A fs \in SUBSET Features :
     Overridden(fs) ~> ~Overridden(fs) \/ (phase = "loaded" /\ active.features = fs)
=============================================================================
