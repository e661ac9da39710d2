---------------------------- MODULE MCSdramHeap ----------------------------
(* Requests that can fill the eight units of SRAM exactly or leave a rest, *)
(* that jump over the gap, that ask for more than there is, and that       *)
(* return a part of the latest grant, all of it or more.                   *)
EXTENDS SdramHeap
MCIncr == {-4, 0, 3, 5}
=============================================================================
