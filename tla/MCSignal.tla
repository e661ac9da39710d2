------------------------------ MODULE MCSignal ------------------------------
(***************************************************************************)
(* The stages between the input and the output: the equaliser, the echo    *)
(* and the cabinet, and the tuner's capture and analysis.  They share      *)
(* nothing, so a behaviour moves one of them.                              *)
(*                                                                         *)
(* The equaliser: two of the three bands, which is enough for a band to    *)
(* change while another does not; two curves with gain and two without     *)
(* (they differ in the frequency); a generation that wraps at 3.           *)
(* The echo: a ring of nine; times below, at and above what it can hold.   *)
(* The cabinet: blocks of two samples, transforms of four, three           *)
(* partitions; responses of one tap, of a partition, of one and a half and *)
(* of the longest that is accepted, and one that is too long.  Taps are    *)
(* powers of two, so that no two of them can be confused in a sum.         *)
(* The capture: a ring of 8, a window of 3 and an index that wraps at 16;  *)
(* a block stores one sample or two, and three blocks may fall within a    *)
(* copy.                                                                   *)
(***************************************************************************)
EXTENDS Eq3, DelayLine, Convolver, Tuner, MCYin

CONSTANTS bass, treble, flat1, flat2, boost, cut

MCBand  == {bass, treble}
MCCurve == {flat1, flat2, boost, cut}
MCFlat  == {flat1, flat2}

MCIr == {<<1>>, <<1, 2>>, <<1, 2, 4>>, <<1, 2, 4, 8, 16>>, <<1, 2, 4, 8, 16, 32>>}

VARIABLE part

SignalInit ==
  /\ EqInit /\ EchoInit /\ CabinetInit /\ Init /\ YinInit
  /\ part \in {"equaliser", "echo", "cabinet", "capture", "analysis"}
  /\ part = "echo" \/ delay_samples_ = Clamped(0)

EqStep ==
  part = "equaliser" /\ EqNext /\ UNCHANGED <<part, echo, cabinet, vars, analysis>>
EchoStep ==
  part = "echo" /\ EchoNext /\ UNCHANGED <<part, equaliser, cabinet, vars, analysis>>
CabinetStep ==
  part = "cabinet" /\ CabinetNext /\ UNCHANGED <<part, equaliser, echo, vars, analysis>>
Capturing(step) ==
  part = "capture" /\ step /\ UNCHANGED <<part, equaliser, echo, cabinet, analysis>>
AnalysisStep ==
  part = "analysis" /\ YinNext /\ UNCHANGED <<part, equaliser, echo, cabinet, vars>>

SignalNext ==
  EqStep \/ EchoStep \/ CabinetStep \/ Capturing(Next) \/ AnalysisStep

SignalSpec ==
  /\ SignalInit
  /\ [][SignalNext]_<<part, equaliser, echo, cabinet, vars, analysis>>
  /\ WF_vars(Capturing(AudioCallback)) /\ WF_vars(Capturing(MainLoop))
=============================================================================
