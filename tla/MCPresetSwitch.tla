--------------------------- MODULE MCPresetSwitch ---------------------------
(* A small instance: four presets, two models, one cabinet.  pA and pB     *)
(* name different models; pDirect names none and is bypassed, like the     *)
(* preset synthesised for an empty image; pEmpty names none and is not.    *)
(*                                                                         *)
(* With it the memory the objects come from.  A behaviour moves the one or *)
(* the other: the switch works on objects, _sbrk on addresses.             *)
EXTENDS PresetSwitch, MCSdramHeap

CONSTANTS a1, a2, a3, null, clean, amp, cab, gain, eq, delay,
          pA, pB, pDirect, pEmpty, turned, boot

MCAddr    == {a1, a2, a3}
MCModel   == {clean, amp}
MCIr      == {cab}
MCSetting == {gain, eq, delay}
MCPreset  == {pA, pB, pDirect, pEmpty}
MCValue   == MCPreset \cup {turned, boot}
MCValueOf == [p \in MCPreset |-> [s \in MCSetting |-> p]]
MCModelOf == [p \in MCPreset |->
                CASE p = pA -> clean [] p = pB -> amp [] OTHER -> null]
MCIrOf    == [p \in MCPreset |-> IF p \in {pB, pEmpty} THEN cab ELSE null]
MCBypassOf  == [p \in MCPreset |-> p = pDirect]
MCLive    == [s \in MCSetting |-> IF s = delay THEN {} ELSE {turned}]
MCDefault == [s \in MCSetting |-> boot]
MCOrder   == <<gain, eq, delay>>

VARIABLE part

MemoryInit == Init /\ HeapInit /\ part \in {"switch", "break"}

Switching(step) == part = "switch" /\ step /\ UNCHANGED <<part, brk>>
BreakStep == part = "break" /\ HeapNext /\ UNCHANGED <<part, vars>>

MemoryNext == Switching(Next) \/ BreakStep

MemorySpec ==
  /\ MemoryInit
  /\ [][MemoryNext]_<<vars, brk, part>>
  /\ WF_vars(Switching(Apply)) /\ WF_vars(Switching(StartAudio))
  /\ WF_vars(Switching(AudioBlock))
=============================================================================
