------------------------------ MODULE MCPedal ------------------------------
(* Two presets, the second without a cabinet and with a model that is in   *)
(* flash and does not load.                                                *)
EXTENDS Pedal

P(m, i, g) == [model |-> m, ir |-> i, gain |-> g, eq |-> 0, bypass |-> FALSE]

TwoPresets  == 0 :> P("m1", "i1", 0) @@ 1 :> P("m2", Null, 1)
TwoModels   == <<"m1", "m2">>
OneIr       == <<"i1">>
Detents     == {-1, 0, 1}
FirstLoads  == {"m1"}
TwoFields   == <<"model", "bypass">>
Readings    == {Null, "A4"}

(* For the disagreements of README.md: every model loads, a preset names a *)
(* model that is not in flash, flash holds no models.                      *)
BothLoad    == {"m1", "m2"}
LostPreset  == 0 :> P("m1", "i1", 0) @@ 1 :> P("m3", Null, 0)
Direct      == 0 :> [P(Null, Null, 1) EXCEPT !.bypass = TRUE]
OneModel    == <<"m1">>
NoModels    == <<>>
NoIrs       == <<>>
=============================================================================
