----------------------- MODULE OnboardingStateMachine -----------------------
(***************************************************************************)
(* onboarding/state_machine.py: the states of the onboarding, the moves    *)
(* its table allows, and transition(), which refuses the others.           *)
(***************************************************************************)
States == {"device_scan", "device_selected", "welcome", "user_level",
           "hardware_detection", "detection_review", "detection_failed",
           "preset_selection", "manual_config", "validation", "review",
           "write_settings", "write_failed", "complete"}

\* TRANSITIONS, a row for each state that one can leave.
Moves ==
  UNION {{"device_scan"} \X {"device_selected"},
         {"device_selected"} \X {"welcome"},
         {"welcome"} \X {"user_level", "device_scan"},
         {"user_level"} \X {"hardware_detection", "welcome"},
         {"hardware_detection"} \X {"detection_review", "detection_failed", "user_level"},
         {"detection_review"} \X {"preset_selection", "manual_config", "hardware_detection"},
         {"detection_failed"} \X {"hardware_detection", "manual_config"},
         {"preset_selection"} \X {"validation", "manual_config", "detection_review"},
         {"manual_config"} \X {"validation", "detection_review"},
         {"validation"} \X {"review", "preset_selection", "manual_config"},
         {"review"} \X {"write_settings", "validation"},
         {"write_settings"} \X {"complete", "write_failed"},
         {"write_failed"} \X {"write_settings", "review"}}

CanTransition(from, to) == <<from, to>> \in Moves

\* transition(): the state afterwards; a move that is not in the table is
\* refused with FALSE, which no caller looks at.
After(from, to) == IF CanTransition(from, to) THEN to ELSE from
=============================================================================
