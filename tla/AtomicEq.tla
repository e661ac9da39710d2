------------------------------ MODULE AtomicEq ------------------------------
(***************************************************************************)
(* What the equaliser promises: each block is filtered by the curves of    *)
(* all bands as they stood at one moment, and setting a band takes effect  *)
(* at one moment.  A band without gain does not sound.                     *)
(***************************************************************************)
CONSTANTS Band, Sounds, Silent   \* Silent: the curve of a band without gain

VARIABLES curve, heard
vars == <<curve, heard>>

Init ==
  /\ curve = [b \in Band |-> Silent]
  /\ heard = [b \in Band |-> Silent]

SetBand(b) ==
  /\ \E c \in Sounds \cup {Silent} : curve' = [curve EXCEPT ![b] = c]
  /\ UNCHANGED heard

Filter ==
  /\ heard' = curve
  /\ UNCHANGED curve

Next == Filter \/ \E b \in Band : SetBand(b)

Spec == Init /\ [][Next]_vars
=============================================================================
