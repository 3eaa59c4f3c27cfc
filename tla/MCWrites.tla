------------------------------ MODULE MCWrites ------------------------------
(* An instance of RegisterWrites: a number on a rounding, protected register, *)
(* a select, the switch of the inverter, and presets over the SOC thresholds. *)
EXTENDS RegisterWrites, TLC

CONSTANTS limit, stop, ac, battery, priority, power, state

MCRegisters == {limit, stop, ac, battery, priority, power, state}
MCProtected == {limit, stop, ac, battery}
MCTarget == "number" :> limit @@ "select" :> priority @@ "switch" :> power
MCSource == "number" :> limit @@ "select" :> priority @@ "switch" :> state
MCChoices == "number" :> {1} @@ "select" :> {1} @@ "switch" :> {0, 1}
MCBatches == <<{limit, priority, state}>>
Thresholds(a, b, c) ==
  <<[reg |-> stop, val |-> a], [reg |-> ac, val |-> b], [reg |-> battery, val |-> c]>>
MCPresets == {Thresholds(1, 2, 3), Thresholds(0, 3, 2),
              <<[reg |-> stop, val |-> 3], [reg |-> priority, val |-> 1]>>}
MCPanel == {[reg |-> priority, val |-> 0], [reg |-> ac, val |-> 0]}
MCStarts == {limit :> 0 @@ stop :> 0 @@ ac :> 1 @@ battery :> 2
             @@ priority :> 0 @@ power :> 0 @@ state :> 0}
=============================================================================
