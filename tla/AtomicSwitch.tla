---------------------------- MODULE AtomicSwitch ----------------------------
(***************************************************************************)
(* What a preset switch promises the listener (src/PresetManager.h:5,      *)
(* "switch cleanly"): between the start and the end of a switch every      *)
(* block is silent, and every other block is rendered from the complete    *)
(* configuration of one preset, plus the live edits made since.  Pointers, *)
(* the heap and the order in which the pieces are replaced do not appear.  *)
(***************************************************************************)
CONSTANTS
  Null, Model, Ir, Setting, Value,
  Preset,     \* the presets
  ValueOf,    \* ValueOf[p][s]: the value preset p gives setting s
  ModelOf,    \* ModelOf[p]: the model it names, Null for none
  IrOf,       \* IrOf[p]: the impulse response it names, Null for none
  BypassOf,   \* BypassOf[p]: its bypass flag
  Live        \* Live[s]: the values a live edit can give setting s

VARIABLES
  cfg,     \* the configuration blocks are rendered from, Hidden in a switch
  target,  \* the preset of the latest switch
  out      \* what the latest block rendered

vars == <<cfg, target, out>>

Hidden == [kind |-> "hidden"]
Config(s, b, m, i) ==
  [kind |-> "shown", setting |-> s, bypass |-> b, model |-> m, ir |-> i]

(* Where a switch to p may end.  A preset that names a model gets that     *)
(* model, or bypass if it cannot be had; one that names none keeps         *)
(* whatever model stage there was.  A missing cabinet is left out.         *)
Outcomes(p) ==
  [kind : {"shown"}, setting : {ValueOf[p]}, bypass : {TRUE, BypassOf[p]},
   model : Model \cup {Null}, ir : {Null, IrOf[p]}]

Kept(p, c) ==
  IF ModelOf[p] = Null THEN c.bypass = BypassOf[p]
  ELSE c.bypass \/ c.model = ModelOf[p]

Render(c) ==
  CASE c = Hidden            -> [kind |-> "silence"]
    [] c # Hidden /\ c.bypass -> [kind |-> "dry"]
    [] OTHER -> [kind |-> "wet", setting |-> c.setting,
                 model |-> c.model, ir |-> c.ir]

Begin(p) ==
  /\ cfg # Hidden
  /\ cfg' = Hidden
  /\ target' = p
  /\ UNCHANGED out

Finish ==
  /\ cfg = Hidden
  /\ \E c \in Outcomes(target) : Kept(target, c) /\ cfg' = c
  /\ UNCHANGED <<target, out>>

Edit(s) ==
  /\ cfg # Hidden
  /\ \E v \in Live[s] : cfg' = [cfg EXCEPT !.setting[s] = v]
  /\ UNCHANGED <<target, out>>

Block ==
  /\ out' = Render(cfg)
  /\ UNCHANGED <<cfg, target>>

Init ==
  /\ cfg \in {Config(s, TRUE, Null, Null) : s \in [Setting -> Value]}
  /\ target \in Preset
  /\ out = [kind |-> "silence"]

Next ==
  \/ \E p \in Preset : Begin(p)
  \/ Finish
  \/ \E s \in Setting : Edit(s)
  \/ Block

Spec == Init /\ [][Next]_vars
=============================================================================
