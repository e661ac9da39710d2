----------------------------- MODULE MCDisplay -----------------------------
(***************************************************************************)
(* The display in two parts: what is drawn when a frame is due, and the    *)
(* way of a frame to the panel.  A behaviour draws for a while, and then   *)
(* the pedal is on its way.                                                *)
(*                                                                         *)
(* The way: two rows and a half sent a row at a time, a frame every 3 ms   *)
(* at most, a clock that wraps at 8.                                       *)
(* The drawing: names from none to the longest; levels at, between and     *)
(* beyond the ends of the meters (a level that is not a number comes out   *)
(* of vmeter_fill's comparisons as one of these); lists shorter and longer *)
(* than the screen.                                                        *)
(***************************************************************************)
EXTENDS Display, Drawing

VARIABLE part

TwoScreens == {"tuner", "performance"}

(* Gain, bass, middle, treble and volume, at the same place of each meter. *)
MCLevels ==
  {<<<<g, 20>>, <<b, 12>>, <<b, 12>>, <<b, 12>>, <<g, 20>>>> :
     <<g, b>> \in {<<0, -12>>, <<1, -1>>, <<7, 0>>, <<13, 7>>, <<20, 12>>,
                  <<60, 30>>, <<-5, -30>>}}

MCCents == {-50, -26, -3, 0, 4, 50}

DisplayInit == Init /\ DrawInit /\ part = "drawing"

DrawStep == part = "drawing" /\ DrawNext /\ UNCHANGED <<part, vars>>
SetOut   == part = "drawing" /\ boxes = <<>> /\ part' = "way" /\ UNCHANGED <<vars, canvas>>
WayStep  == part = "way" /\ Next /\ UNCHANGED <<part, canvas>>

DisplayNext == DrawStep \/ SetOut \/ WayStep

DisplaySpec == DisplayInit /\ [][DisplayNext]_<<vars, part, canvas>> /\ Fairness

=============================================================================
