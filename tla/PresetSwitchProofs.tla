------------------------- MODULE PresetSwitchProofs -------------------------
(***************************************************************************)
(* Proofs about PresetSwitch, for any number of addresses, presets, models,*)
(* cabinets and settings.                                                  *)
(***************************************************************************)
EXTENDS PresetSwitch, FiniteSetTheorems, TLAPS

(* The model stage: who may point where at each place of the code.         *)
ModelInv ==
  /\ old_model # Null => pc \in {"null_model", "delete_model"}
  /\ model # Null <=> pc \in {"reset_model", "own_model", "store_model"}
  /\ pc \in {"null_model", "delete_model", "build_model", "reset_model",
             "own_model"} => model_owner = Null
  /\ pc = "store_model" => model_owner = model
  /\ active_model = CASE pc = "null_model"  -> old_model
                      [] pc = "store_model" -> Null
                      [] OTHER              -> model_owner
  /\ \A a \in Addr : heap[a].kind = "model"
                       <=> a \in {model_owner, old_model, model}
  /\ \A a \in Addr : (heap[a].kind = "model" /\ ~heap[a].ready)
                       => pc = "reset_model"
  /\ pc \in {"move_model", "null_model", "delete_model", "build_model",
             "reset_model", "own_model", "store_model", "no_model"}
       => ModelOf[target] # Null

(* The cabinet stage, in the same way.                                     *)
IrInv ==
  /\ new_ir # Null => pc \in {"own_ir", "store_ir", "delete_ir"}
  /\ old_ir # Null => pc \in {"store_ir", "delete_ir"}
  /\ pc \in {"store_ir", "delete_ir"} => ir_owner = new_ir
  /\ pc = "own_ir" => (new_ir = Null \/ new_ir # ir_owner)
  /\ old_ir # Null => old_ir # ir_owner
  /\ active_ir = IF pc = "store_ir" THEN old_ir ELSE ir_owner
  /\ \A a \in Addr : heap[a].kind = "ir" <=> a \in {ir_owner, old_ir, new_ir}

(* How far the configuration of target has been written.                   *)
Written(i) == \A j \in 1..(i - 1) :
                setting[ApplyOrder[j]] = ValueOf[target][ApplyOrder[j]]

SettingInv ==
  /\ muted <=> pc \notin {"boot", "loop"}
  /\ pc = "setting" => Written(at)
  /\ pc \notin {"boot", "loop", "bypass", "setting"} => setting = ValueOf[target]
  /\ pc # "setting" => at = 1
  /\ pc \notin {"boot", "loop", "bypass"} => bypass \in {TRUE, BypassOf[target]}

ModelStageDone == {"build_ir", "own_ir", "store_ir", "delete_ir", "unmute"}

ResolvedInv ==
  /\ pc \in {"setting", "find_model"} => bypass = BypassOf[target]
  /\ ModelOf[target] = Null /\ pc \in ModelStageDone
       => bypass = BypassOf[target]
  /\ ModelOf[target] # Null /\ pc \in ModelStageDone \cup {"loop"}
       => bypass \/ NameAt(active_model) = ModelOf[target]
  /\ pc \in {"reset_model", "own_model", "store_model"}
       => heap[model].name = ModelOf[target]
  /\ new_ir # Null => heap[new_ir].name = IrOf[target]
  /\ pc = "unmute" => NameAt(active_ir) \in {Null, IrOf[target]}

PtrInv == TypeOK /\ ModelInv /\ IrInv
Inv    == PtrInv /\ SettingInv /\ ResolvedInv

-----------------------------------------------------------------------------
(* The pointers are safe at power-on and every step keeps them safe.       *)

LEMMA ObjectTypes ==
  /\ Free \in Objects
  /\ \A m \in Model : [kind |-> "model", name |-> m, ready |-> FALSE] \in Objects
  /\ \A i \in Ir : [kind |-> "ir", name |-> i, ready |-> TRUE] \in Objects
  /\ \A h \in Objects : h.kind \in {"free", "model", "ir"}
  /\ \A h \in Objects : h.kind = "model" => h.name \in Model
  /\ \A h \in Objects : h.kind = "ir" => h.name \in Ir
  /\ \A h \in Objects : h.kind = "model" => [h EXCEPT !.ready = TRUE] \in Objects
<1>1. Free \in Objects
  BY DEF Objects
<1>2. \A m \in Model :
        [kind |-> "model", name |-> m, ready |-> FALSE] \in Objects
  BY DEF Objects, ModelObject
<1>3. \A i \in Ir : [kind |-> "ir", name |-> i, ready |-> TRUE] \in Objects
  BY DEF Objects, IrObject
<1>4. ASSUME NEW h \in Objects
      PROVE  /\ h.kind \in {"free", "model", "ir"}
             /\ h.kind = "model" => h \in ModelObject /\ h.name \in Model
             /\ h.kind = "ir" => h.name \in Ir
  <2>1. CASE h = Free
    BY <2>1 DEF Free
  <2>2. CASE h \in ModelObject
    BY <2>2 DEF ModelObject
  <2>3. CASE h \in IrObject
    BY <2>3 DEF IrObject
  <2> QED
    BY <2>1, <2>2, <2>3 DEF Objects
<1>5. ASSUME NEW h \in Objects, h.kind = "model"
      PROVE  [h EXCEPT !.ready = TRUE] \in Objects
  <2>1. h \in ModelObject
    BY <1>4, <1>5
  <2>2. [h EXCEPT !.ready = TRUE] \in ModelObject
    BY <2>1 DEF ModelObject
  <2> QED
    BY <2>2 DEF Objects
<1> QED
  BY <1>1, <1>2, <1>3, <1>4, <1>5

LEMMA InitPtr == Init => PtrInv
<1> SUFFICES ASSUME Init PROVE PtrInv
  OBVIOUS
<1> USE PresetAssumption, NullIsNoAddr
<1>1. TypeOK
  <2>1. heap \in [Addr -> Objects]
    BY ObjectTypes DEF Init
  <2>2. 1 \in 1..Len(ApplyOrder)
    OBVIOUS
  <2> QED
    BY <2>1, <2>2 DEF Init, TypeOK, EngineTypeOK, MainPC, Pointer
<1>2. ModelInv /\ IrInv
  BY DEF Init, ModelInv, IrInv, Free
<1> QED
  BY <1>1, <1>2 DEF PtrInv

LEMMA NextType == PtrInv /\ [Next]_vars => TypeOK'
<1> SUFFICES ASSUME TypeOK, ModelInv, [Next]_vars PROVE TypeOK'
  BY DEF PtrInv
<1> USE PresetAssumption, NullIsNoAddr DEF TypeOK, EngineTypeOK, Pointer, MainPC, Goto, locals
<1>1. ASSUME NEW p \in Preset, Begin(p) PROVE TypeOK'
  BY <1>1 DEF Begin, SetMuted
<1>2. CASE ApplyBypass
  BY <1>2 DEF ApplyBypass, SetBypass
<1>3. CASE ApplySetting
  BY <1>3 DEF ApplySetting, Set
<1>4. CASE FindModel
  BY <1>4 DEF FindModel, engineVars
<1>5. CASE MoveModel
  BY <1>5 DEF MoveModel
<1>6. CASE NullModel
  BY <1>6 DEF NullModel
<1>7. CASE DeleteModel
  BY <1>7, ObjectTypes DEF DeleteModel, Delete
<1>8. CASE BuildModel
  <2>1. ASSUME ModelOf[target] # Null
        PROVE  [kind |-> "model", name |-> ModelOf[target], ready |-> FALSE]
                 \in Objects
    BY <2>1, ObjectTypes
  <2>2. CASE UNCHANGED heap
    BY <1>8, <2>2 DEF BuildModel, engineVars, Allocate
  <2>3. CASE ~UNCHANGED heap
    <3>1. heap' \in [Addr -> Objects] /\ model' \in Pointer
      <4>1. PICK a \in Addr :
              /\ heap' = [heap EXCEPT ![a] = [kind |-> "model", name |-> ModelOf[target], ready |-> FALSE]]
              /\ model' = a
        BY <1>8, <2>3 DEF BuildModel, engineVars, Allocate
      <4>2. ModelOf[target] # Null
        BY <1>8 DEF BuildModel, ModelInv
      <4> QED
        BY <2>1, <4>1, <4>2
    <3> QED
      BY <1>8, <2>3, <3>1 DEF BuildModel, engineVars
  <2> QED
    BY <2>2, <2>3
<1>9. CASE ResetModel
  <2>1. model \in Addr /\ heap[model].kind = "model"
    BY <1>9 DEF ResetModel, ModelInv
  <2>2. heap' = [heap EXCEPT ![model] = [heap[model] EXCEPT !.ready = TRUE]]
    BY <1>9 DEF ResetModel
  <2>3. heap' \in [Addr -> Objects]
    BY <2>1, <2>2, ObjectTypes
  <2> QED
    BY <1>9, <2>3 DEF ResetModel
<1>10. CASE OwnModel
  BY <1>10 DEF OwnModel
<1>11. CASE StoreModel
  BY <1>11, ObjectTypes DEF StoreModel, Delete
<1>12. CASE NoModel
  BY <1>12 DEF NoModel, SetBypass
<1>13. CASE BuildIr
  <2>1. ASSUME IrOf[target] # Null
        PROVE  [kind |-> "ir", name |-> IrOf[target], ready |-> TRUE]
                 \in Objects
    BY <2>1, ObjectTypes
  <2>2. CASE UNCHANGED heap
    BY <1>13, <2>2 DEF BuildIr, engineVars, Allocate
  <2>3. CASE ~UNCHANGED heap
    <3>1. heap' \in [Addr -> Objects] /\ new_ir' \in Pointer
      <4>1. PICK a \in Addr :
              /\ heap' = [heap EXCEPT ![a] = [kind |-> "ir", name |-> IrOf[target], ready |-> TRUE]]
              /\ new_ir' = a
        BY <1>13, <2>3 DEF BuildIr, engineVars, Allocate
      <4>2. IrOf[target] # Null
        BY <1>13, <2>3 DEF BuildIr, engineVars
      <4> QED
        BY <2>1, <4>1, <4>2
    <3> QED
      BY <1>13, <2>3, <3>1 DEF BuildIr, engineVars
  <2> QED
    BY <2>2, <2>3
<1>14. CASE OwnIr
  BY <1>14 DEF OwnIr
<1>15. CASE StoreIr
  BY <1>15 DEF StoreIr
<1>16. CASE DeleteIr
  BY <1>16, ObjectTypes DEF DeleteIr, Delete
<1>17. CASE Unmute
  BY <1>17 DEF Unmute, SetMuted
<1>18. CASE StartAudio
  BY <1>18 DEF StartAudio, engineVars
<1>19. ASSUME NEW s \in Setting, LiveEdit(s) PROVE TypeOK'
  BY <1>19 DEF LiveEdit, Set
<1>20. CASE AudioBlock
  BY <1>20 DEF AudioBlock, Process
<1>21. CASE UNCHANGED vars
  BY <1>21 DEF vars, engineVars
<1> QED
  BY <1>1, <1>2, <1>3, <1>4, <1>5, <1>6, <1>7, <1>8, <1>9, <1>10, <1>11, <1>12, <1>13, <1>14, <1>15, <1>16, <1>17, <1>18, <1>19, <1>20, <1>21 DEF Next, Apply

LEMMA NextModel == PtrInv /\ [Next]_vars => ModelInv'
<1> SUFFICES ASSUME PtrInv, [Next]_vars PROVE ModelInv'
  OBVIOUS
<1> USE NullIsNoAddr DEF PtrInv, TypeOK, EngineTypeOK, Pointer, ModelInv, Goto, locals
<1>1. ASSUME NEW p \in Preset, Begin(p) PROVE ModelInv'
  BY <1>1 DEF Begin
<1>2. CASE ApplyBypass
  BY <1>2 DEF ApplyBypass
<1>3. CASE ApplySetting
  BY <1>3 DEF ApplySetting
<1>4. CASE FindModel
  BY <1>4 DEF FindModel, engineVars
<1>5. CASE MoveModel
  BY <1>5 DEF MoveModel
<1>6. CASE NullModel
  BY <1>6 DEF NullModel
<1>7. CASE DeleteModel
  BY <1>7 DEF DeleteModel, Delete, Free
<1>8. CASE BuildModel
  BY <1>8 DEF BuildModel, engineVars, Allocate, Free
<1>9. CASE ResetModel
  BY <1>9 DEF ResetModel
<1>10. CASE OwnModel
  BY <1>10 DEF OwnModel
<1>11. CASE StoreModel
  BY <1>11 DEF StoreModel, Delete, Free
<1>12. CASE NoModel
  BY <1>12 DEF NoModel
<1>13. CASE BuildIr
  BY <1>13 DEF BuildIr, engineVars, Allocate, Free
<1>14. CASE OwnIr
  BY <1>14 DEF OwnIr
<1>15. CASE StoreIr
  BY <1>15 DEF StoreIr
<1>16. CASE DeleteIr
  <2>1. \A a \in Addr : heap[a].kind = "model" => a # old_ir
    BY <1>16 DEF DeleteIr, IrInv
  <2>2. \A a \in Addr : /\ heap'[a].kind = "model" <=> heap[a].kind = "model"
                        /\ heap[a].kind = "model" => heap'[a] = heap[a]
    BY <1>16, <2>1 DEF DeleteIr, Delete, Free, IrInv
  <2> QED
    BY <1>16, <2>2 DEF DeleteIr
<1>17. CASE Unmute
  BY <1>17 DEF Unmute
<1>18. CASE StartAudio
  BY <1>18 DEF StartAudio, engineVars
<1>19. ASSUME NEW s \in Setting, LiveEdit(s) PROVE ModelInv'
  BY <1>19 DEF LiveEdit
<1>20. CASE AudioBlock
  BY <1>20 DEF AudioBlock, Process
<1>21. CASE UNCHANGED vars
  BY <1>21 DEF vars, engineVars
<1> QED
  BY <1>1, <1>2, <1>3, <1>4, <1>5, <1>6, <1>7, <1>8, <1>9, <1>10, <1>11, <1>12, <1>13, <1>14, <1>15, <1>16, <1>17, <1>18, <1>19, <1>20, <1>21 DEF Next, Apply

LEMMA NextIr == PtrInv /\ [Next]_vars => IrInv'
<1> SUFFICES ASSUME PtrInv, [Next]_vars PROVE IrInv'
  OBVIOUS
<1> USE NullIsNoAddr DEF PtrInv, TypeOK, EngineTypeOK, Pointer, IrInv, Goto, locals
<1>1. ASSUME NEW p \in Preset, Begin(p) PROVE IrInv'
  BY <1>1 DEF Begin
<1>2. CASE ApplyBypass
  BY <1>2 DEF ApplyBypass
<1>3. CASE ApplySetting
  BY <1>3 DEF ApplySetting
<1>4. CASE FindModel
  BY <1>4 DEF FindModel, engineVars
<1>5. CASE MoveModel
  BY <1>5 DEF MoveModel
<1>6. CASE NullModel
  BY <1>6 DEF NullModel
<1>7. CASE DeleteModel
  <2>1. \A a \in Addr : heap'[a].kind = "ir" <=> heap[a].kind = "ir"
    BY <1>7 DEF DeleteModel, Delete, Free, ModelInv
  <2> QED
    BY <1>7, <2>1 DEF DeleteModel
<1>8. CASE BuildModel
  BY <1>8 DEF BuildModel, engineVars, Allocate, Free
<1>9. CASE ResetModel
  BY <1>9 DEF ResetModel
<1>10. CASE OwnModel
  BY <1>10 DEF OwnModel
<1>11. CASE StoreModel
  <2>1. old_model = Null
    BY <1>11 DEF StoreModel, ModelInv
  <2>2. \A a \in Addr : heap'[a] = heap[a]
    BY <1>11, <2>1 DEF StoreModel, Delete
  <2> QED
    BY <1>11, <2>2 DEF StoreModel
<1>12. CASE NoModel
  BY <1>12 DEF NoModel
<1>13. CASE BuildIr
  BY <1>13 DEF BuildIr, engineVars, Allocate, Free
<1>14. CASE OwnIr
  BY <1>14 DEF OwnIr
<1>15. CASE StoreIr
  BY <1>15 DEF StoreIr
<1>16. CASE DeleteIr
  BY <1>16 DEF DeleteIr, Delete, Free
<1>17. CASE Unmute
  BY <1>17 DEF Unmute
<1>18. CASE StartAudio
  BY <1>18 DEF StartAudio, engineVars
<1>19. ASSUME NEW s \in Setting, LiveEdit(s) PROVE IrInv'
  BY <1>19 DEF LiveEdit
<1>20. CASE AudioBlock
  BY <1>20 DEF AudioBlock, Process
<1>21. CASE UNCHANGED vars
  BY <1>21 DEF vars, engineVars
<1> QED
  BY <1>1, <1>2, <1>3, <1>4, <1>5, <1>6, <1>7, <1>8, <1>9, <1>10, <1>11, <1>12, <1>13, <1>14, <1>15, <1>16, <1>17, <1>18, <1>19, <1>20, <1>21 DEF Next, Apply

LEMMA PtrInvariant == Spec => []PtrInv
<1>1. Init => PtrInv
  BY InitPtr
<1>2. PtrInv /\ [Next]_vars => PtrInv'
  BY NextType, NextModel, NextIr DEF PtrInv
<1> QED
  BY <1>1, <1>2, PTL DEF Spec, Safety

(* Every variable keeps its type.                                          *)
THEOREM TypeCorrect == Spec => []TypeOK
<1>1. PtrInv => TypeOK
  BY DEF PtrInv
<1> QED
  BY <1>1, PtrInvariant, PTL

(* The audio interrupt never reaches a freed or half-built object.         *)
THEOREM PointersSafe == Spec => []NoDanglingPointer
<1>1. PtrInv => NoDanglingPointer
  BY NullIsNoAddr DEF PtrInv, TypeOK, EngineTypeOK, Pointer, ModelInv, IrInv,
                      NoDanglingPointer
<1> QED
  BY <1>1, PtrInvariant, PTL

(* Two models are never allocated together.                                *)
THEOREM OneModel == Spec => []OneModelAtATime
<1>1. ASSUME PtrInv PROVE OneModelAtATime
  <2> DEFINE M == {a \in Addr : heap[a].kind = "model"}
  <2>1. \E x : M \subseteq {x}
    <3>1. M \subseteq {model_owner, old_model, model} \ {Null}
      BY <1>1, NullIsNoAddr DEF PtrInv, ModelInv
    <3>2. CASE old_model # Null
      BY <1>1, <3>1, <3>2 DEF PtrInv, ModelInv
    <3>3. CASE old_model = Null /\ model # Null
      BY <1>1, <3>1, <3>3 DEF PtrInv, ModelInv
    <3>4. CASE old_model = Null /\ model = Null
      BY <3>1, <3>4
    <3> QED
      BY <3>2, <3>3, <3>4
  <2>2. PICK x : M \subseteq {x}
    BY <2>1
  <2>3. M = {} \/ M = {x}
    BY <2>2
  <2>4. Cardinality({}) = 0 /\ Cardinality({x}) = 1
    BY FS_EmptySet, FS_Singleton
  <2>5. Cardinality(M) <= 1
    <3> HIDE DEF M
    <3> QED
      BY <2>3, <2>4
  <2> QED
    BY <2>5 DEF OneModelAtATime
<1> QED
  BY <1>1, PtrInvariant, PTL

(* Between switches nothing is allocated but what the engine owns.         *)
THEOREM HeapBalanced == Spec => []NoLeak
<1>1. ASSUME PtrInv PROVE NoLeak
  <2>1. ASSUME NEW a \in Addr
        PROVE  heap[a] # Free <=> heap[a].kind \in {"model", "ir"}
    <3>1. heap[a] \in Objects
      BY <1>1 DEF PtrInv, TypeOK, EngineTypeOK
    <3>2. Free.kind = "free"
      BY DEF Free
    <3>3. \A h \in ModelObject : h.kind = "model"
      BY DEF ModelObject
    <3>4. \A h \in IrObject : h.kind = "ir"
      BY DEF IrObject
    <3> QED
      BY <3>1, <3>2, <3>3, <3>4 DEF Objects
  <2>2. SUFFICES ASSUME pc = "loop"
                 PROVE  {a \in Addr : heap[a] # Free}
                          = {model_owner, ir_owner} \ {Null}
    BY DEF NoLeak
  <2>3. old_model = Null /\ model = Null /\ new_ir = Null /\ old_ir = Null
    BY <1>1, <2>2 DEF PtrInv, ModelInv, IrInv
  <2>4. ASSUME NEW a \in Addr
        PROVE  heap[a] # Free <=> a \in {model_owner, ir_owner}
    BY <1>1, <2>1, <2>3, NullIsNoAddr DEF PtrInv, ModelInv, IrInv
  <2>5. {model_owner, ir_owner} \ {Null} \subseteq Addr
    BY <1>1 DEF PtrInv, TypeOK, EngineTypeOK, Pointer
  <2> QED
    BY <2>4, <2>5, NullIsNoAddr
<1> QED
  BY <1>1, PtrInvariant, PTL

-----------------------------------------------------------------------------
(* The configuration is the target's by the time the engine is unmuted.    *)

LEMMA NextSettings == Inv /\ [Next]_vars => SettingInv'
<1> SUFFICES ASSUME Inv, [Next]_vars PROVE SettingInv'
  OBVIOUS
<1> USE DEF Inv, PtrInv, TypeOK, EngineTypeOK, SettingInv, Written, Goto, locals, MainPC
<1>1. ASSUME NEW p \in Preset, Begin(p) PROVE SettingInv'
  BY <1>1 DEF Begin, SetMuted
<1>2. CASE ApplyBypass
  BY <1>2 DEF ApplyBypass, SetBypass
<1>3. CASE ApplySetting
  <2> DEFINE v == ValueOf[target]
             k == ApplyOrder[at]
  <2>1. k \in Setting /\ Len(ApplyOrder) \in Nat
    BY PresetAssumption
  <2>2. setting' = [setting EXCEPT ![k] = v[k]]
    BY <1>3 DEF ApplySetting, Set
  <2>3. \A j \in 1..at : setting'[ApplyOrder[j]] = v[ApplyOrder[j]]
    <3>1. \A j \in 1..at : ApplyOrder[j] \in Setting
      BY PresetAssumption
    <3>2. \A j \in 1..at : j = at \/ j \in 1..(at - 1)
      BY <2>1
    <3> QED
      BY <1>3, <2>1, <2>2, <3>1, <3>2 DEF ApplySetting
  <2>4. CASE at = Len(ApplyOrder)
    <3>1. \A s \in Setting : setting'[s] = v[s]
      BY <2>3, <2>4, PresetAssumption
    <3>2. v \in [Setting -> Value] /\ setting' \in [Setting -> Value]
      BY <2>1, <2>2, PresetAssumption
    <3>3. setting' = v
      BY <3>1, <3>2
    <3> QED
      BY <1>3, <2>4, <3>3 DEF ApplySetting
  <2>5. CASE at # Len(ApplyOrder)
    <3>1. (at + 1) - 1 = at
      BY <2>1
    <3> QED
      BY <1>3, <2>3, <2>5, <3>1 DEF ApplySetting
  <2> QED
    BY <2>4, <2>5
<1>4. CASE FindModel
  BY <1>4 DEF FindModel, engineVars
<1>5. CASE MoveModel
  BY <1>5 DEF MoveModel
<1>6. CASE NullModel
  BY <1>6 DEF NullModel
<1>7. CASE DeleteModel
  BY <1>7 DEF DeleteModel
<1>8. CASE BuildModel
  BY <1>8 DEF BuildModel, engineVars
<1>9. CASE ResetModel
  BY <1>9 DEF ResetModel
<1>10. CASE OwnModel
  BY <1>10 DEF OwnModel
<1>11. CASE StoreModel
  BY <1>11 DEF StoreModel
<1>12. CASE NoModel
  BY <1>12 DEF NoModel, SetBypass
<1>13. CASE BuildIr
  BY <1>13 DEF BuildIr, engineVars
<1>14. CASE OwnIr
  BY <1>14 DEF OwnIr
<1>15. CASE StoreIr
  BY <1>15 DEF StoreIr
<1>16. CASE DeleteIr
  BY <1>16 DEF DeleteIr
<1>17. CASE Unmute
  BY <1>17 DEF Unmute, SetMuted
<1>18. CASE StartAudio
  BY <1>18 DEF StartAudio, engineVars
<1>19. ASSUME NEW s \in Setting, LiveEdit(s) PROVE SettingInv'
  BY <1>19 DEF LiveEdit
<1>20. CASE AudioBlock
  BY <1>20 DEF AudioBlock, Process
<1>21. CASE UNCHANGED vars
  BY <1>21 DEF vars, engineVars
<1> QED
  BY <1>1, <1>2, <1>3, <1>4, <1>5, <1>6, <1>7, <1>8, <1>9, <1>10, <1>11, <1>12, <1>13, <1>14, <1>15, <1>16, <1>17, <1>18, <1>19, <1>20, <1>21 DEF Next, Apply

LEMMA NextResolved == Inv /\ [Next]_vars => ResolvedInv'
<1> SUFFICES ASSUME Inv, [Next]_vars PROVE ResolvedInv'
  OBVIOUS
<1> USE NullIsNoAddr DEF Inv, PtrInv, TypeOK, EngineTypeOK, Pointer, ResolvedInv, ModelStageDone, NameAt, Goto, locals
<1>1. ASSUME NEW p \in Preset, Begin(p) PROVE ResolvedInv'
  BY <1>1 DEF Begin, SetMuted, IrInv
<1>2. CASE ApplyBypass
  BY <1>2 DEF ApplyBypass, SetBypass
<1>3. CASE ApplySetting
  BY <1>3 DEF ApplySetting
<1>4. CASE FindModel
  BY <1>4 DEF FindModel, engineVars
<1>5. CASE MoveModel
  BY <1>5 DEF MoveModel
<1>6. CASE NullModel
  BY <1>6 DEF NullModel
<1>7. CASE DeleteModel
  BY <1>7 DEF DeleteModel, IrInv
<1>8. CASE BuildModel
  <2>1. new_ir = Null
    BY <1>8 DEF BuildModel, IrInv
  <2>2. CASE pc' = "reset_model"
    <3>1. heap'[model'].name = ModelOf[target]
      BY <1>8, <2>2 DEF BuildModel, Allocate
    <3> QED
      BY <1>8, <2>1, <2>2, <3>1 DEF BuildModel, ModelInv
  <2>3. CASE pc' = "no_model"
    BY <1>8, <2>1, <2>3 DEF BuildModel, engineVars
  <2> QED
    BY <1>8, <2>2, <2>3 DEF BuildModel
<1>9. CASE ResetModel
  BY <1>9 DEF ResetModel
<1>10. CASE OwnModel
  BY <1>10 DEF OwnModel
<1>11. CASE StoreModel
  <2>1. old_model = Null /\ new_ir = Null /\ model \in Addr
    BY <1>11 DEF StoreModel, ModelInv, IrInv
  <2>2. heap'[model].name = heap[model].name
    BY <1>11, <2>1 DEF StoreModel, Delete
  <2> QED
    BY <1>11, <2>1, <2>2 DEF StoreModel, ModelInv
<1>12. CASE NoModel
  BY <1>12 DEF NoModel, SetBypass, IrInv, ModelInv
<1>13. CASE BuildIr
  BY <1>13 DEF BuildIr, engineVars, Allocate, Free
<1>14. CASE OwnIr
  BY <1>14 DEF OwnIr
<1>15. CASE StoreIr
  BY <1>15 DEF StoreIr
<1>16. CASE DeleteIr
  <2>1. active_ir # old_ir \/ active_ir = Null
    BY <1>16 DEF DeleteIr, IrInv
  <2>2. active_model # Null => active_model # old_ir
    BY <1>16 DEF DeleteIr, IrInv, ModelInv
  <2>3. NameAt(active_ir)' = NameAt(active_ir)
    BY <1>16, <2>1 DEF DeleteIr, Delete
  <2>4. NameAt(active_model)' = NameAt(active_model)
    BY <1>16, <2>2 DEF DeleteIr, Delete
  <2>5. NameAt(active_ir) \in {Null, IrOf[target]}
    BY <1>16, <2>1 DEF DeleteIr, IrInv
  <2>6. new_ir' = Null
    BY <1>16 DEF DeleteIr
  <2> HIDE DEF NameAt
  <2> QED
    BY <1>16, <2>3, <2>4, <2>5, <2>6 DEF DeleteIr
<1>17. CASE Unmute
  BY <1>17 DEF Unmute
<1>18. CASE StartAudio
  BY <1>18 DEF StartAudio, engineVars
<1>19. ASSUME NEW s \in Setting, LiveEdit(s) PROVE ResolvedInv'
  BY <1>19 DEF LiveEdit
<1>20. CASE AudioBlock
  BY <1>20 DEF AudioBlock, Process
<1>21. CASE UNCHANGED vars
  BY <1>21 DEF vars, engineVars
<1> QED
  BY <1>1, <1>2, <1>3, <1>4, <1>5, <1>6, <1>7, <1>8, <1>9, <1>10, <1>11, <1>12, <1>13, <1>14, <1>15, <1>16, <1>17, <1>18, <1>19, <1>20, <1>21 DEF Next, Apply

LEMMA Invariant == Spec => []Inv
<1>1. Init => Inv
  BY InitPtr DEF Init, Inv, SettingInv, ResolvedInv, ModelStageDone
<1>2. Inv /\ [Next]_vars => Inv'
  BY NextType, NextModel, NextIr, NextSettings, NextResolved DEF Inv, PtrInv
<1> QED
  BY <1>1, <1>2, PTL DEF Spec, Safety

(* After a switch, the model that runs is the one the preset names.        *)
THEOREM ModelResolved == Spec => []NamedModelOrBypass
<1>1. Inv => NamedModelOrBypass
  BY DEF Inv, ResolvedInv, ModelStageDone, NamedModelOrBypass
<1> QED
  BY <1>1, Invariant, PTL

-----------------------------------------------------------------------------
(* The model that is heard changes only when a preset that names one takes *)
(* it away or puts its own in its place.                                   *)

Heard == NameAt(active_model)

LEMMA NextHeard ==
  ASSUME Inv, [Next]_vars, Heard' # Heard
  PROVE  ModelOf[target] # Null /\ Heard' \in {Null, ModelOf[target]}
<1> USE NullIsNoAddr DEF Heard, NameAt, Inv, PtrInv, TypeOK, EngineTypeOK, Pointer, Goto, locals
<1>1. CASE NullModel
  BY <1>1 DEF NullModel, ModelInv
<1>2. CASE StoreModel
  <2>1. old_model = Null /\ model \in Addr /\ ModelOf[target] # Null
    BY <1>2 DEF StoreModel, ModelInv
  <2>2. heap'[model].name = heap[model].name
    BY <1>2, <2>1 DEF StoreModel, Delete
  <2> QED
    BY <1>2, <2>1, <2>2 DEF StoreModel, ResolvedInv
<1>3. ASSUME NEW p \in Preset, Begin(p) PROVE Heard' = Heard
  BY <1>3 DEF Begin, SetMuted
<1>4. CASE ApplyBypass
  BY <1>4 DEF ApplyBypass, SetBypass
<1>5. CASE ApplySetting
  BY <1>5 DEF ApplySetting
<1>6. CASE FindModel
  BY <1>6 DEF FindModel, engineVars
<1>7. CASE MoveModel
  BY <1>7 DEF MoveModel
<1>8. CASE DeleteModel
  BY <1>8 DEF DeleteModel, ModelInv
<1>9. CASE BuildModel
  BY <1>9 DEF BuildModel, ModelInv, engineVars
<1>10. CASE ResetModel
  BY <1>10 DEF ResetModel, ModelInv
<1>11. CASE OwnModel
  BY <1>11 DEF OwnModel
<1>12. CASE NoModel
  BY <1>12 DEF NoModel, SetBypass
<1>13. CASE BuildIr
  <2>1. active_model # Null => heap[active_model].kind = "model"
    BY <1>13 DEF BuildIr, ModelInv
  <2> QED
    BY <1>13, <2>1 DEF BuildIr, engineVars, Allocate, Free
<1>14. CASE OwnIr
  BY <1>14 DEF OwnIr
<1>15. CASE StoreIr
  BY <1>15 DEF StoreIr
<1>16. CASE DeleteIr
  <2>1. active_model # Null => active_model # old_ir
    BY <1>16 DEF DeleteIr, IrInv, ModelInv
  <2> QED
    BY <1>16, <2>1 DEF DeleteIr, Delete
<1>17. CASE Unmute
  BY <1>17 DEF Unmute
<1>18. CASE StartAudio
  BY <1>18 DEF StartAudio, engineVars
<1>19. ASSUME NEW s \in Setting, LiveEdit(s) PROVE Heard' = Heard
  BY <1>19 DEF LiveEdit
<1>20. CASE AudioBlock
  BY <1>20 DEF AudioBlock, Process
<1>21. CASE UNCHANGED vars
  BY <1>21 DEF vars, engineVars
<1> QED
  BY <1>1, <1>2, <1>3, <1>4, <1>5, <1>6, <1>7, <1>8, <1>9, <1>10, <1>11, <1>12, <1>13, <1>14, <1>15, <1>16, <1>17, <1>18, <1>19, <1>20, <1>21 DEF Next, Apply

(* A switch brings up no model but the one its preset names.               *)
THEOREM OnlyNaming == Spec => OnlyNamingReplaces
<1>1. ASSUME Inv, [Next]_vars
      PROVE  [NameAt(active_model)' # NameAt(active_model)
                => /\ ModelOf[target] # Null
                   /\ NameAt(active_model)' \in {Null, ModelOf[target]}]_vars
  BY <1>1, NextHeard DEF Heard
<1> QED
  BY <1>1, Invariant, PTL DEF Spec, Safety, OnlyNamingReplaces

-----------------------------------------------------------------------------
(* ApplyPreset implements AtomicSwitch: Begin and Unmute are the abstract  *)
(* Begin and Finish, and every step between them stutters.                 *)

Shown == Atomic!Config(setting, bypass, NameAt(active_model), NameAt(active_ir))
Cfg   == IF muted THEN [kind |-> "hidden"]
         ELSE [kind |-> "shown", setting |-> setting, bypass |-> bypass,
               model |-> NameAt(active_model), ir |-> NameAt(active_ir)]

LEMMA NamesTyped ==
  Inv => /\ NameAt(active_model) \in Model \cup {Null}
         /\ NameAt(active_ir) \in Ir \cup {Null}
<1> SUFFICES ASSUME Inv
             PROVE  /\ NameAt(active_model) \in Model \cup {Null}
                    /\ NameAt(active_ir) \in Ir \cup {Null}
  OBVIOUS
<1>1. active_model # Null =>
        active_model \in Addr /\ heap[active_model].kind = "model"
  BY DEF Inv, PtrInv, TypeOK, EngineTypeOK, Pointer, ModelInv
<1>2. active_ir # Null => active_ir \in Addr /\ heap[active_ir].kind = "ir"
  BY DEF Inv, PtrInv, TypeOK, EngineTypeOK, Pointer, IrInv
<1> QED
  BY <1>1, <1>2, ObjectTypes DEF Inv, PtrInv, TypeOK, EngineTypeOK, NameAt

LEMMA InitImplements == Init => Atomic!Init
<1> SUFFICES ASSUME Init PROVE Atomic!Init
  OBVIOUS
<1>1. Cfg = Atomic!Config(Default, TRUE, Null, Null)
  BY DEF Init, Cfg, Atomic!Config, NameAt
<1>2. out = [kind |-> "silence"] /\ target \in Preset
  BY PresetAssumption DEF Init, Silence
<1> QED
  BY <1>1, <1>2, PresetAssumption DEF Atomic!Init, Cfg

LEMMA NextImplements == Inv /\ [Next]_vars => [Atomic!Next]_Atomic!vars
<1> SUFFICES ASSUME Inv, [Next]_vars PROVE [Atomic!Next]_Atomic!vars
  OBVIOUS
<1> USE DEF Inv, SettingInv
<1>0. ASSUME muted, muted', UNCHANGED <<target, out>>
      PROVE  UNCHANGED Atomic!vars
  BY <1>0 DEF Atomic!vars
<1>1. ASSUME NEW p \in Preset, Begin(p) PROVE Atomic!Begin(p)
  BY <1>1 DEF Begin, SetMuted, Atomic!Begin, Atomic!Hidden
<1>2. CASE Unmute
  <2>1. Cfg' = Shown
    BY <1>2 DEF Unmute, Goto, SetMuted, Cfg, Shown, Atomic!Config, NameAt
  <2>2. setting = ValueOf[target] /\ bypass \in {TRUE, BypassOf[target]}
    BY <1>2 DEF Unmute, Goto
  <2>3. /\ NameAt(active_model) \in Model \cup {Null}
        /\ NameAt(active_ir) \in {Null, IrOf[target]}
    BY <1>2, NamesTyped DEF Unmute, Goto, ResolvedInv
  <2>4. Shown \in Atomic!Outcomes(target)
    BY <2>2, <2>3 DEF Shown, Atomic!Config, Atomic!Outcomes
  <2>5. Atomic!Kept(target, Shown)
    <3>1. Shown.bypass = bypass /\ Shown.model = NameAt(active_model)
      BY DEF Shown, Atomic!Config
    <3> QED
      BY <1>2, <3>1 DEF Unmute, Goto, ResolvedInv, ModelStageDone, Atomic!Kept
  <2>6. Cfg = Atomic!Hidden
    BY <1>2 DEF Unmute, Goto, Cfg, Atomic!Hidden
  <2>7. UNCHANGED <<target, out>>
    BY <1>2 DEF Unmute
  <2> QED
    BY <2>1, <2>4, <2>5, <2>6, <2>7 DEF Atomic!Next, Atomic!Finish, Cfg
<1>3. ASSUME Apply, ~Unmute PROVE UNCHANGED Atomic!vars
  <2>1. muted
    BY <1>3 DEF Apply, ApplyBypass, ApplySetting, FindModel, MoveModel,
      NullModel, DeleteModel, BuildModel, ResetModel, OwnModel, StoreModel,
      NoModel, BuildIr, OwnIr, StoreIr, DeleteIr, Goto
  <2>2. UNCHANGED <<muted, target, out>>
    BY <1>3 DEF Apply, ApplyBypass, ApplySetting, FindModel, MoveModel,
      NullModel, DeleteModel, BuildModel, ResetModel, OwnModel, StoreModel,
      NoModel, BuildIr, OwnIr, StoreIr, DeleteIr, Goto, engineVars
  <2> QED
    BY <1>0, <2>1, <2>2
<1>4. CASE StartAudio
  BY <1>4 DEF StartAudio, engineVars, NameAt, Atomic!vars
<1>5. ASSUME NEW s \in Setting, LiveEdit(s) PROVE Atomic!Edit(s)
  <2>1. PICK v \in Live[s] : setting' = [setting EXCEPT ![s] = v]
    BY <1>5 DEF LiveEdit, Set
  <2>2. Cfg = Shown /\ Cfg' = [Shown EXCEPT !.setting[s] = v]
    BY <1>5, <2>1 DEF LiveEdit, Cfg, Shown, Atomic!Config, NameAt
  <2>3. Cfg # Atomic!Hidden
    BY <2>2 DEF Shown, Atomic!Config, Atomic!Hidden
  <2> QED
    BY <1>5, <2>2, <2>3 DEF LiveEdit, Atomic!Edit, Cfg
<1>6. CASE AudioBlock
  <2>1. UNCHANGED <<Cfg, target>>
    BY <1>6 DEF AudioBlock, Process, Cfg, NameAt
  <2>2. out' = Atomic!Render(Cfg)
    <3>1. out' = Rendered
      BY <1>6 DEF AudioBlock, Process
    <3>2. CASE muted
      BY <3>1, <3>2 DEF Rendered, Silence, Cfg, Atomic!Render, Atomic!Hidden
    <3>3. CASE ~muted
      BY <3>1, <3>3 DEF Rendered, Dry, Wet, Cfg, Atomic!Render, Atomic!Hidden
    <3> QED
      BY <3>2, <3>3
  <2> QED
    BY <2>1, <2>2 DEF Atomic!Next, Atomic!Block, Cfg
<1>7. CASE UNCHANGED vars
  BY <1>7 DEF vars, engineVars, NameAt, Atomic!vars
<1> QED
  BY <1>1, <1>2, <1>3, <1>4, <1>5, <1>6, <1>7 DEF Next, Atomic!Next

(* A switch is atomic for the listener, for any presets and any heap.      *)
THEOREM Implements == Spec => SwitchIsAtomic
<1> QED
  BY InitImplements, NextImplements, Invariant, PTL
     DEF Spec, Safety, SwitchIsAtomic, Atomic!Spec

=============================================================================
