------------------------------ MODULE MCInputs ------------------------------
(***************************************************************************)
(* The contacts under the player's feet and hands: those of the switches   *)
(* and those of a knob.  They share nothing, so a behaviour moves one of   *)
(* them.                                                                   *)
(*                                                                         *)
(* The knob: registers of three samples, two of chatter, two detents       *)
(* either way; a drain can hold every detent between two of them.          *)
(***************************************************************************)
EXTENDS MCControls, QuadEncoder

VARIABLE part

switches == vars

SwitchStep == part = "switches" /\ Next /\ UNCHANGED <<part, encoder>>
Knob(step) == part = "knob" /\ step /\ UNCHANGED <<part, switches>>

InputsInit == Init /\ KnobInit /\ part \in {"switches", "knob"}

InputsNext == SwitchStep \/ Knob(KnobNext)

InputsSpec ==
  /\ InputsInit
  /\ [][InputsNext]_<<switches, encoder, part>>
  /\ WF_switches(SwitchStep)
  /\ WF_encoder(Knob(PollIsr)) /\ WF_encoder(Knob(Drain))
=============================================================================
