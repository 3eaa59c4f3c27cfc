---------------------------- MODULE Installation ----------------------------
(***************************************************************************)
(* One inverter from its discovery on: the onboarding creates the entry,   *)
(* the integration is set up from it, and the options flow changes it,     *)
(* while detection tasks of the onboarding may still run and somebody      *)
(* turns the knobs of the inverter.                                        *)
(***************************************************************************)
EXTENDS Onboarding, OptionsFlow

vars == <<entryVars, flowVars, optionVars>>

TypeOK == EntryTypeOK /\ FlowTypeOK /\ OptionsTypeOK

Init == EntryInit /\ FlowInit /\ OptionsInit

Next ==
  \/ FlowNext /\ UNCHANGED optionVars
  \/ OptionsNext /\ UNCHANGED flowVars
  \/ (Lifecycle \/ Refresh) /\ UNCHANGED <<flowVars, optionVars>>
  \/ \E s \in PanelChanges : Panel(s) /\ UNCHANGED <<flowVars, optionVars>>

\* Home Assistant's loop runs what is ready: set-up, a reload that has the
\* lock, a detection task, the page that waits for it.  What a person does, or
\* a failure, need never happen.
Fairness ==
  /\ WF_vars(ReadEntry /\ UNCHANGED <<flowVars, optionVars>>)
  /\ WF_vars(Refreshed /\ UNCHANGED <<flowVars, optionVars>>)
  /\ WF_vars(SetupDone /\ UNCHANGED <<flowVars, optionVars>>)
  /\ WF_vars(SetupRetried /\ UNCHANGED <<flowVars, optionVars>>)
  /\ WF_vars(Reload /\ UNCHANGED <<flowVars, optionVars>>)
  /\ \A t \in Tasks : WF_vars(Detected(t) /\ UNCHANGED optionVars)
  /\ WF_vars(DetectionShown /\ UNCHANGED optionVars)

Spec == Init /\ [][Next]_vars /\ Fairness
=============================================================================
