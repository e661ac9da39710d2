---------------------------- MODULE PresetSwitch ----------------------------
(***************************************************************************)
(* PresetManager::ApplyPreset (src/PresetManager.cpp:82-152) with the two  *)
(* calls that rebuild the signal chain, ModelManager::Load and             *)
(* LoadIrFromQspi, run by the main loop while the audio interrupt renders  *)
(* blocks between any two of its steps.  pc is the main loop's place in    *)
(* the code; the variables in the second group are its locals.             *)
(***************************************************************************)
EXTENDS AudioEngine, FiniteSets, Sequences

CONSTANTS
  Preset,     \* presets a switch may be asked for, edited ones included
  First,      \* the preset applied at boot
  ValueOf,    \* ValueOf[p][s]: the value preset p gives setting s
  ModelOf,    \* ModelOf[p]: the model name in p, Null when empty
  IrOf,       \* IrOf[p]: the cabinet name in p, Null when empty
  BypassOf,   \* BypassOf[p]: the bypass flag of p
  Live,       \* Live[s]: the values an encoder can give setting s
  Default,    \* the engine's member initialisers
  ApplyOrder  \* the order in which ApplyPreset writes the settings

ASSUME PresetAssumption ==
  /\ First \in Preset
  /\ ValueOf \in [Preset -> [Setting -> Value]]
  /\ ModelOf \in [Preset -> Model \cup {Null}]
  /\ IrOf \in [Preset -> Ir \cup {Null}]
  /\ BypassOf \in [Preset -> BOOLEAN]
  /\ Live \in [Setting -> SUBSET Value]
  /\ Default \in [Setting -> Value]
  /\ ApplyOrder \in Seq(Setting) /\ Len(ApplyOrder) > 0
  /\ \A s \in Setting : \E i \in 1..Len(ApplyOrder) : ApplyOrder[i] = s
  /\ Null \notin Model \cup Ir

VARIABLES
  pc,         \* where the main loop is
  running,    \* StartAudio has been called
  target,     \* argument p of ApplyPreset
  at,         \* index in ApplyOrder of the next write
  model,      \* local model of Load
  old_model,  \* local old of SwapModel, then the returned temporary
  new_ir,     \* locals of ApplyPreset
  old_ir

locals == <<at, model, old_model, new_ir, old_ir>>
vars == <<engineVars, pc, running, target, locals>>

MainPC == {"boot", "loop", "bypass", "setting", "find_model", "move_model",
           "null_model", "delete_model", "build_model", "reset_model",
           "own_model", "store_model", "no_model", "build_ir", "own_ir",
           "store_ir", "delete_ir", "unmute"}

TypeOK ==
  /\ EngineTypeOK
  /\ pc \in MainPC
  /\ running \in BOOLEAN
  /\ target \in Preset
  /\ at \in 1..Len(ApplyOrder)
  /\ model \in Pointer /\ old_model \in Pointer
  /\ new_ir \in Pointer /\ old_ir \in Pointer

(* Power-on: the engine's member initialisers, no preset applied yet.      *)
Init ==
  /\ heap = [a \in Addr |-> Free]
  /\ active_model = Null /\ model_owner = Null
  /\ active_ir = Null /\ ir_owner = Null
  /\ setting = Default
  /\ bypass = TRUE
  /\ muted = FALSE
  /\ out = Silence
  /\ pc = "boot"
  /\ running = FALSE
  /\ target = First
  /\ at = 1
  /\ model = Null /\ old_model = Null /\ new_ir = Null /\ old_ir = Null

-----------------------------------------------------------------------------
(* ApplyPreset, one step per effect the interrupt could see.               *)

Goto(from, to) == pc = from /\ pc' = to

(* Slip: the engine is not muted first.                                    *)
BeginUnmuted(p) ==
  /\ \/ pc = "boot" /\ p = First
     \/ pc = "loop" /\ running
  /\ pc' = "bypass"
  /\ target' = p
  /\ UNCHANGED <<engineVars, running, locals>>

Begin(p) ==
  /\ \/ pc = "boot" /\ p = First
     \/ pc = "loop" /\ running
  /\ pc' = "bypass"
  /\ SetMuted(TRUE)
  /\ target' = p
  /\ UNCHANGED <<heap, active_model, active_ir, model_owner, ir_owner,
                 setting, bypass, out, running, locals>>

ApplyBypass ==
  /\ Goto("bypass", "setting")
  /\ SetBypass(BypassOf[target])
  /\ UNCHANGED <<heap, active_model, active_ir, model_owner, ir_owner,
                 setting, muted, out, running, target, locals>>

ApplySetting ==
  /\ pc = "setting"
  /\ Set(ApplyOrder[at], ValueOf[target][ApplyOrder[at]])
  /\ IF at = Len(ApplyOrder)
       THEN pc' = "find_model" /\ at' = 1
       ELSE pc' = pc /\ at' = at + 1
  /\ UNCHANGED <<heap, active_model, active_ir, model_owner, ir_owner,
                 bypass, muted, out, running, target,
                 model, old_model, new_ir, old_ir>>

(* Slip: an empty name is handed to Load like any other.                   *)
FindModelAlways ==
  /\ \/ Goto("find_model", "no_model")
     \/ Goto("find_model", "move_model")
  /\ UNCHANGED <<engineVars, running, target, locals>>

(* An empty name skips the model stage; a name that is not in flash, or    *)
(* whose blob is out of the image, fails before the engine is touched.     *)
FindModel ==
  /\ \/ ModelOf[target] = Null /\ Goto("find_model", "build_ir")
     \/ ModelOf[target] # Null /\ Goto("find_model", "no_model")
     \/ ModelOf[target] # Null /\ Goto("find_model", "move_model")
  /\ UNCHANGED <<engineVars, running, target, locals>>

(* Slips: the old model is kept until the new one is swapped in; the       *)
(* interrupt's pointer is not cleared before the object is destroyed.      *)
KeepModel ==
  /\ Goto("move_model", "build_model")
  /\ UNCHANGED <<engineVars, running, target, locals>>

NullModelForgotten ==
  /\ Goto("null_model", "delete_model")
  /\ UNCHANGED <<engineVars, running, target, locals>>

(* SwapModel(nullptr): the owner moves into a local, the interrupt's       *)
(* pointer is cleared, and the returned owner destroys the object.         *)
MoveModel ==
  /\ Goto("move_model", "null_model")
  /\ old_model' = model_owner
  /\ model_owner' = Null
  /\ UNCHANGED <<heap, active_model, active_ir, ir_owner, setting, bypass,
                 muted, out, running, target, at, model, new_ir, old_ir>>

NullModel ==
  /\ Goto("null_model", "delete_model")
  /\ active_model' = Null
  /\ UNCHANGED <<heap, active_ir, model_owner, ir_owner, setting, bypass,
                 muted, out, running, target, locals>>

DeleteModel ==
  /\ Goto("delete_model", "build_model")
  /\ Delete(old_model)
  /\ old_model' = Null
  /\ UNCHANGED <<active_model, active_ir, model_owner, ir_owner, setting,
                 bypass, muted, out, running, target, at, model, new_ir,
                 old_ir>>

(* get_dsp_namb may throw or return null: Load then returns false.         *)
BuildModel ==
  \/ /\ Goto("build_model", "no_model")
     /\ UNCHANGED <<engineVars, running, target, locals>>
  \/ /\ Goto("build_model", "reset_model")
     /\ \E a \in Addr :
          /\ Allocate(a, [kind |-> "model", name |-> ModelOf[target],
                          ready |-> FALSE])
          /\ model' = a
     /\ UNCHANGED <<active_model, active_ir, model_owner, ir_owner, setting,
                    bypass, muted, out, running, target, at, old_model,
                    new_ir, old_ir>>

ResetModel ==
  /\ Goto("reset_model", "own_model")
  /\ heap' = [heap EXCEPT ![model].ready = TRUE]
  /\ UNCHANGED <<active_model, active_ir, model_owner, ir_owner, setting,
                 bypass, muted, out, running, target, locals>>

(* SwapModel(std::move(model)): the owner that comes back is empty.        *)
OwnModel ==
  /\ Goto("own_model", "store_model")
  /\ old_model' = model_owner
  /\ model_owner' = model
  /\ UNCHANGED <<heap, active_model, active_ir, ir_owner, setting, bypass,
                 muted, out, running, target, at, model, new_ir, old_ir>>

StoreModel ==
  /\ Goto("store_model", "build_ir")
  /\ active_model' = model
  /\ Delete(old_model)
  /\ model' = Null
  /\ old_model' = Null
  /\ UNCHANGED <<active_ir, model_owner, ir_owner, setting, bypass,
                 muted, out, running, target, at, new_ir, old_ir>>

(* Slip: the result of Load is not looked at.                              *)
NoModelIgnored ==
  /\ Goto("no_model", "build_ir")
  /\ UNCHANGED <<engineVars, running, target, locals>>

NoModel ==
  /\ Goto("no_model", "build_ir")
  /\ SetBypass(TRUE)
  /\ UNCHANGED <<heap, active_model, active_ir, model_owner, ir_owner,
                 setting, muted, out, running, target, locals>>

(* No name, no entry, or a blob the loader rejects: new_ir stays null.     *)
BuildIr ==
  \/ /\ Goto("build_ir", "own_ir")
     /\ UNCHANGED <<engineVars, running, target, locals>>
  \/ /\ IrOf[target] # Null
     /\ Goto("build_ir", "own_ir")
     /\ \E a \in Addr :
          /\ Allocate(a, [kind |-> "ir", name |-> IrOf[target],
                          ready |-> TRUE])
          /\ new_ir' = a
     /\ UNCHANGED <<active_model, active_ir, model_owner, ir_owner, setting,
                    bypass, muted, out, running, target, at, model,
                    old_model, old_ir>>

OwnIr ==
  /\ Goto("own_ir", "store_ir")
  /\ old_ir' = ir_owner
  /\ ir_owner' = new_ir
  /\ UNCHANGED <<heap, active_model, active_ir, model_owner, setting, bypass,
                 muted, out, running, target, at, model, old_model, new_ir>>

StoreIr ==
  /\ Goto("store_ir", "delete_ir")
  /\ active_ir' = new_ir
  /\ UNCHANGED <<heap, active_model, model_owner, ir_owner, setting, bypass,
                 muted, out, running, target, locals>>

(* Slips: the cabinet that was swapped out is not deleted; a path through  *)
(* ApplyPreset does not unmute.                                            *)
DeleteIrForgotten ==
  /\ Goto("delete_ir", "unmute")
  /\ new_ir' = Null
  /\ old_ir' = Null
  /\ UNCHANGED <<engineVars, running, target, at, model, old_model>>

UnmuteForgotten ==
  /\ Goto("unmute", "loop")
  /\ UNCHANGED <<engineVars, running, target, locals>>

DeleteIr ==
  /\ Goto("delete_ir", "unmute")
  /\ Delete(old_ir)
  /\ new_ir' = Null
  /\ old_ir' = Null
  /\ UNCHANGED <<active_model, active_ir, model_owner, ir_owner, setting,
                 bypass, muted, out, running, target, at, model, old_model>>

Unmute ==
  /\ Goto("unmute", "loop")
  /\ SetMuted(FALSE)
  /\ UNCHANGED <<heap, active_model, active_ir, model_owner, ir_owner,
                 setting, bypass, out, running, target, locals>>

Apply ==
  \/ ApplyBypass \/ ApplySetting \/ FindModel
  \/ MoveModel \/ NullModel \/ DeleteModel \/ BuildModel \/ ResetModel
  \/ OwnModel \/ StoreModel \/ NoModel
  \/ BuildIr \/ OwnIr \/ StoreIr \/ DeleteIr \/ Unmute

-----------------------------------------------------------------------------
(* The rest of the main loop, and the interrupt.                           *)

StartAudio ==
  /\ pc = "loop"
  /\ ~running
  /\ running' = TRUE
  /\ UNCHANGED <<engineVars, pc, target, locals>>

(* An encoder turned in performance mode changes one setting, unmuted.     *)
LiveEdit(s) ==
  /\ pc = "loop"
  /\ running
  /\ \E v \in Live[s] : Set(s, v)
  /\ UNCHANGED <<heap, active_model, active_ir, model_owner, ir_owner,
                 bypass, muted, out, pc, running, target, locals>>

AudioBlock ==
  /\ running
  /\ Process
  /\ UNCHANGED <<pc, running, target, locals>>

Next ==
  \/ \E p \in Preset : Begin(p)
  \/ Apply
  \/ StartAudio
  \/ \E s \in Setting : LiveEdit(s)
  \/ AudioBlock

Safety == Init /\ [][Next]_vars

(* The interrupt always returns, so the main loop gets the processor back  *)
(* and a call of ApplyPreset is carried on; nothing makes the player start *)
(* one.  The codec's DMA raises the interrupt for ever.                    *)
Spec == Safety /\ WF_vars(Apply) /\ WF_vars(StartAudio) /\ WF_vars(AudioBlock)

-----------------------------------------------------------------------------
(* Properties.                                                             *)

(* Whenever the interrupt fires, muted or not, the pointers it would read  *)
(* are null or lead to an object of the right kind that is allocated and   *)
(* initialised: SwapModel and SwapIR (AudioEngine.cpp:81-100) never let a  *)
(* freed or half-built object be reached.                                  *)
NoDanglingPointer ==
  /\ active_model # Null =>
       heap[active_model].kind = "model" /\ heap[active_model].ready
  /\ active_ir # Null => heap[active_ir].kind = "ir"

(* At most one model object exists at any moment, however often switches   *)
(* fail: two do not fit in SRAM (ModelManager.cpp:36-43).                  *)
OneModelAtATime ==
  Cardinality({a \in Addr : heap[a].kind = "model"}) <= 1

(* Between two switches the heap holds what the engine owns and nothing    *)
(* else: no path through Load, LoadIrFromQspi or a failure of either loses *)
(* an object (PresetManager.cpp:147-148).                                  *)
NoLeak ==
  pc = "loop" =>
    {a \in Addr : heap[a] # Free} = {model_owner, ir_owner} \ {Null}

(* After a switch to a preset that names a model, either that model is     *)
(* live or the engine is in bypass (PresetManager.cpp:113-129).            *)
NamedModelOrBypass ==
  (pc = "loop" /\ ModelOf[target] # Null /\ ~bypass)
    => NameAt(active_model) = ModelOf[target]

(* A preset that names no model keeps the one that plays, whichever preset *)
(* it came from, and one that names a model puts that model in its place   *)
(* or nothing: no switch ever brings up a third model, and no live edit,   *)
(* block or cabinet changes the model at all (PresetManager.cpp:116-129).  *)
OnlyNamingReplaces ==
  [][NameAt(active_model)' # NameAt(active_model)
       => /\ ModelOf[target] # Null
          /\ NameAt(active_model)' \in {Null, ModelOf[target]}]_vars

(* The comment at PresetManager.cpp:113-115 read for every preset: no      *)
(* model but the preset's own runs with bypass disengaged. The code does   *)
(* otherwise: README.md, Disagreements.                                    *)
NoStaleModel ==
  (pc = "loop" /\ ~bypass)
    => NameAt(active_model) \in {Null, ModelOf[target]}

(* ModelManager.h:6, "Audio keeps running on the previous model during the *)
(* ~10-15 ms load": while Load works, a block rendered by the running      *)
(* engine is not silent. The code does otherwise: README.md,               *)
(* Disagreements.                                                          *)
AudioRunsDuringLoad ==
  [][(AudioBlock /\ pc \in {"build_model", "reset_model"}) => out' # Silence]_vars

(* Every switch is finished and unmutes the engine (PresetManager.cpp:151) *)
(* on every path through it.                                               *)
SwitchEnds == muted ~> ~muted

(* The pieces are replaced one by one, yet every block is rendered from    *)
(* one complete configuration or is silent: see AtomicSwitch.              *)
Atomic == INSTANCE AtomicSwitch WITH
  cfg <- IF muted THEN [kind |-> "hidden"]
         ELSE [kind |-> "shown", setting |-> setting, bypass |-> bypass,
               model |-> NameAt(active_model), ir |-> NameAt(active_ir)]

SwitchIsAtomic == Atomic!Spec
=============================================================================
