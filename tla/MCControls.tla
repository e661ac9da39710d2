----------------------------- MODULE MCControls -----------------------------
(* Three samples of debouncing, a chord after two milliseconds and a hold  *)
(* after four keep the order of the code's 8, 350 and 800.                 *)
EXTENDS Controls
MCElapsed == {0, 1, 2}
MCEachMs  == {1}
=============================================================================
