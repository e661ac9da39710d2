---------------------------- MODULE QuadEncoder ----------------------------
(***************************************************************************)
(* A knob, its two contacts, quad_decode run by the audio interrupt, and   *)
(* the counter the main loop drains (src/quad_decode.h,                    *)
(* src/QuadEncoder.h, src/QuadEncoder.cpp).                                *)
(*                                                                         *)
(* Between two detents the contacts pass through three quarter positions.  *)
(* The knob moves by at most a quarter between two samples, a contact that *)
(* has just moved may chatter for a few samples and is quiet before the    *)
(* knob moves again, and the knob rests at each detent until the debounce  *)
(* registers can fill.  TurningBackSpec lets it fall back half way.        *)
(***************************************************************************)
EXTENDS Integers

CONSTANTS
  Depth,     \* samples in a debounce register, 8 in the code
  Chatter,   \* samples for which a contact that moved may chatter
  Clamp,     \* what one Drain can report, 127 in the code
  Reach      \* bound: detents the knob may be away from where it started

ASSUME KnobAssumption ==
  /\ Depth \in Nat \ {0} /\ Chatter \in 0..Depth
  /\ Clamp \in Nat \ {0} /\ Reach \in Nat

VARIABLES
  phase,     \* the knob: quarters past a detent ...
  turning,   \* ... on its way up (1), down (-1) or at rest (0)
  turned,    \* ... and net detents turned
  age_a, age_b,  \* samples since a contact last moved, up to Depth
  ah_, bh_, accum_,
  reported   \* what Drain has returned, summed

knob == <<phase, turning, turned, age_a, age_b>>
registers == <<ah_, bh_, accum_>>
encoder == <<knob, registers, reported>>

(* A debounce register: bit 0 is the latest sample.                        *)
Bits == 0..(Depth - 1)
Full == [k \in Bits |-> 1]

(* The contacts: both open (high) at a detent; clockwise B closes first.   *)
LevelA(p) == IF p \in {2, 3} THEN 0 ELSE 1
LevelB(p) == IF p \in {1, 2} THEN 0 ELSE 1

KnobTypeOK ==
  /\ phase \in 0..3 /\ turning \in {-1, 0, 1} /\ turned \in (-Reach)..Reach
  /\ (turning = 0) = (phase = 0)
  /\ age_a \in 0..(Depth + Chatter) /\ age_b \in 0..(Depth + Chatter)
  /\ ah_ \in [Bits -> {0, 1}] /\ bh_ \in [Bits -> {0, 1}]
  /\ accum_ \in Int
  /\ reported \in Int

KnobInit ==
  /\ phase = 0 /\ turning = 0 /\ turned = 0
  /\ age_a = Depth + Chatter /\ age_b = Depth + Chatter
  /\ ah_ = Full /\ bh_ = Full /\ accum_ = 0
  /\ reported = 0

-----------------------------------------------------------------------------
(* The knob.                                                               *)
Rested == age_a = Depth + Chatter /\ age_b = Depth + Chatter
Quiet == age_a > Chatter /\ age_b > Chatter

Move(dir) ==
  /\ phase' = (phase + dir) % 4
  /\ age_a' = IF LevelA(phase') # LevelA(phase) THEN 0 ELSE age_a
  /\ age_b' = IF LevelB(phase') # LevelB(phase) THEN 0 ELSE age_b
  /\ UNCHANGED <<registers, reported>>

(* From a detent where it rested; on to the next; or back to the last.     *)
Begin(dir) ==
  /\ phase = 0 /\ Rested
  /\ turned + dir \in (-Reach)..Reach
  /\ Move(dir)
  /\ turning' = dir
  /\ UNCHANGED turned

Continue ==
  /\ phase # 0 /\ Quiet
  /\ Move(turning)
  /\ IF phase' = 0 THEN turned' = turned + turning /\ turning' = 0
                   ELSE UNCHANGED <<turned, turning>>

TurnBack ==
  /\ phase # 0 /\ Quiet
  /\ Move(-turning)
  /\ IF phase' = 0 THEN turning' = 0 /\ UNCHANGED turned
                   ELSE turning' = -turning /\ turned' = turned + turning

Turn == Continue \/ \E dir \in {-1, 1} : Begin(dir)

-----------------------------------------------------------------------------
(* quad_decode.                                                            *)
Shift(register, level) ==
  [k \in Bits |-> IF k = 0 THEN level ELSE register[k - 1]]

(* Slip: B is taken for down wherever A is.                                *)
StepUnpaired(a, b) ==
  CASE ah_ = Full /\ a = 0 /\ b = 0 -> 1
    [] ~(ah_ = Full /\ a = 0 /\ b = 0) /\ bh_ = Full /\ b = 0 -> -1
    [] OTHER -> 0

Step(a, b) ==
  CASE ah_ = Full /\ a = 0 /\ b = 0 -> 1
    [] ~(ah_ = Full /\ a = 0 /\ b = 0) /\ bh_ = Full /\ a = 0 /\ b = 0 -> -1
    [] OTHER -> 0

(* What a contact reads: its level, or anything while it chatters.         *)
Reads(level, age) == IF age < Chatter THEN {0, 1} ELSE {level}

Older(age) == IF age < Depth + Chatter THEN age + 1 ELSE age

PollIsr ==
  /\ \E a \in Reads(LevelA(phase), age_a), b \in Reads(LevelB(phase), age_b) :
       /\ ah_' = Shift(ah_, a)
       /\ bh_' = Shift(bh_, b)
       /\ accum_' = accum_ + Step(a, b)
  /\ age_a' = Older(age_a) /\ age_b' = Older(age_b)
  /\ UNCHANGED <<phase, turning, turned, reported>>

Clamped(v) == IF v > Clamp THEN Clamp ELSE IF v < -Clamp THEN -Clamp ELSE v

(* Slip: an odd step waits for the next.                                   *)
DrainPairs ==
  /\ reported' = reported + 2 * (Clamped(accum_) \div 2)
  /\ accum_' = accum_ % 2
  /\ UNCHANGED <<knob, ah_, bh_>>

Drain ==
  /\ reported' = reported + Clamped(accum_)
  /\ accum_' = 0
  /\ UNCHANGED <<knob, ah_, bh_>>

KnobNext == Turn \/ PollIsr \/ Drain

(* Blocks keep coming, and the main loop calls Process for ever.           *)
KnobFairness == WF_encoder(PollIsr) /\ WF_encoder(Drain)

KnobSpec == KnobInit /\ [][KnobNext]_encoder /\ KnobFairness

(* A knob that may also fall back between two detents; NoDetentLost does   *)
(* not hold of it (README.md, Disagreements).                              *)
TurningBackSpec == KnobInit /\ [][KnobNext \/ TurnBack]_encoder

-----------------------------------------------------------------------------
(* Properties.                                                             *)

(* At a detent, once it is quiet, what was reported and what is pending    *)
(* are the detents turned, whichever way, through any chatter              *)
(* (src/QuadEncoder.h:22).                                                 *)
NoDetentLost == phase = 0 /\ Quiet => reported + accum_ = turned

(* Nothing is pending for ever: when the knob rests, the main loop gets it *)
(* all.                                                                    *)
AllReported == <>[](phase = 0) => <>[](reported = turned)

=============================================================================
