------------------------------ MODULE MCConfig ------------------------------
(* An instance of Installation: the three thresholds of the presets, two of  *)
(* which are also on a page, where a unit is two steps.                      *)
EXTENDS Installation, TLC

CONSTANTS stop, ac, battery, grid, o1

Map(s, a, b) == stop :> s @@ ac :> a @@ battery :> b

MCRegisters == {stop, ac, battery}
MCStarts == {Map(1, 2, 4)}
MCDefaults == Map(1, 2, 3)
MCPresets == {[needs |-> {grid}, settings |-> Map(2, 3, 4)],
              [needs |-> {}, settings |-> Map(2, 4, 3)]}
MCForms == {Map(2, 3, 4), Map(2, 4, 3)}
MCOrder == <<battery, ac, stop>>
MCPage == <<ac, battery>>
MCScale == Map(1, 2, 2)
MCLow == Map(0, 1, 2)
MCHigh == Map(4, 2, 2)
MCLessThan == {<<ac, battery>>}
MCTemplates == {Map(2, 3, 4)}
MCPanel == {[reg |-> battery, val |-> 2]}
MCEdits == {{}}
=============================================================================
