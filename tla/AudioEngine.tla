---------------------------- MODULE AudioEngine ----------------------------
(***************************************************************************)
(* The state the main loop and the audio interrupt share                   *)
(* (src/AudioEngine.h:84-106), and the two sides of every access to it.    *)
(*                                                                         *)
(* The interrupt runs to completion before the main loop resumes, so a     *)
(* whole call of Process is one step; the main loop can be interrupted     *)
(* between any two of its own steps, so SwapModel and SwapIR are split     *)
(* into the move of the owner and the store of the pointer the interrupt   *)
(* reads.                                                                  *)
(*                                                                         *)
(* Objects live at addresses of a heap, so that a freed address can be     *)
(* handed out again.  Audio data, and the arithmetic on it, are abstracted *)
(* to the name of what produced them.                                      *)
(***************************************************************************)
EXTENDS Integers

CONSTANTS
  Addr,      \* heap addresses
  Null,      \* nullptr
  Model,     \* names of the amp models in flash
  Ir,        \* names of the impulse responses in flash
  Setting,   \* the scalar settings: gain, volume, EQ, gate, ...
  Value      \* values of a setting

ASSUME NullIsNoAddr == Null \notin Addr
ASSUME NoSharedNames == Model \cap Ir = {}

VARIABLES
  heap,          \* what each address holds
  active_model,  \* the pointers the interrupt reads ...
  active_ir,
  model_owner,   \* ... and the owners, main loop only
  ir_owner,
  setting,       \* input_gain_, output_vol_, the EQ, gate, compressor, delay
  bypass,
  muted,
  out            \* what the latest audio block rendered

engineVars == <<heap, active_model, active_ir, model_owner, ir_owner,
                setting, bypass, muted, out>>

Free    == [kind |-> "free",  name |-> Null, ready |-> FALSE]
ModelObject == [kind : {"model"}, name : Model, ready : BOOLEAN]
IrObject    == [kind : {"ir"}, name : Ir, ready : {TRUE}]
Objects     == {Free} \cup ModelObject \cup IrObject

Pointer == Addr \cup {Null}

Silence == [kind |-> "silence"]
Dry     == [kind |-> "dry"]
Wet(s, m, i) == [kind |-> "wet", setting |-> s, model |-> m, ir |-> i]

(* Dereferencing a pointer: the name of the object, Null for nullptr.      *)
NameAt(ptr) == IF ptr = Null THEN Null ELSE heap[ptr].name

EngineTypeOK ==
  /\ heap \in [Addr -> Objects]
  /\ active_model \in Pointer /\ model_owner \in Pointer
  /\ active_ir \in Pointer /\ ir_owner \in Pointer
  /\ setting \in [Setting -> Value]
  /\ bypass \in BOOLEAN
  /\ muted \in BOOLEAN

-----------------------------------------------------------------------------
(* The interrupt's side: one block of AudioEngine::Process.                *)

Rendered ==
  CASE muted            -> Silence
    [] ~muted /\ bypass -> Dry
    [] OTHER            -> Wet(setting, NameAt(active_model), NameAt(active_ir))

Process ==
  /\ out' = Rendered
  /\ UNCHANGED <<heap, active_model, active_ir, model_owner, ir_owner,
                 setting, bypass, muted>>

-----------------------------------------------------------------------------
(* The main loop's side.  Each operator says what it changes; its user     *)
(* says what stays.                                                        *)

SetMuted(m)  == muted' = m
SetBypass(b) == bypass' = b
Set(s, v)    == setting' = [setting EXCEPT ![s] = v]

Allocate(ptr, object) ==
  /\ heap[ptr] = Free
  /\ heap' = [heap EXCEPT ![ptr] = object]

Delete(ptr) ==
  heap' = [a \in Addr |-> IF a = ptr THEN Free ELSE heap[a]]

=============================================================================
