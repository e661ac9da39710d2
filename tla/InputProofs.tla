---------------------------- MODULE InputProofs ----------------------------
(***************************************************************************)
(* Proofs about what drives the pedal from outside: its switches           *)
(* (Controls), for any debounce width, thresholds and delays; a knob       *)
(* (QuadEncoder), for registers of any length; and the command that sends  *)
(* it to its bootloader (BootLine), for a buffer of any length.  The three *)
(* share no state.                                                         *)
(***************************************************************************)
EXTENDS Controls, QuadEncoder, BootLine, TLAPS, SequenceTheorems, WellFoundedInduction

-----------------------------------------------------------------------------
(* The switches.                                                           *)

(* A switch that still owes the release of a chord has its latch set.      *)
LatchInv == chorded \subseteq FS /\ chorded \subseteq eat_release

LEMMA CallKeepsLatch ==
  ASSUME NEW now, NEW ms, LatchInv, Call(now, ms)
  PROVE  LatchInv' /\ ev'.tap \cap chorded = {}
<1> DEFINE falls == Falls(now, ms)
<1>1. falls \subseteq FS
  BY DEF Falls
<1>2. chorded' = (IF Both(now) THEN FS ELSE chorded) \ falls
  BY DEF Call
<1>3. eat_release' = (IF Suppress(now) THEN FS ELSE eat_release) \ falls
  BY DEF Call, EatRelease
<1>4. Both(now) => Suppress(now)
  BY DEF Suppress
<1>5. LatchInv'
  BY <1>1, <1>2, <1>3, <1>4 DEF LatchInv
<1>6. ev'.tap = Taps(now, falls)
  BY DEF Call
<1>7. Taps(now, falls) \cap eat_release = {}
  BY DEF Taps
<1> QED
  BY <1>5, <1>6, <1>7 DEF LatchInv

(* No release of a chord is ever taken for a tap.                          *)
THEOREM ChordSafe == Spec => ChordNeverTaps
<1>1. Init => LatchInv
  BY DEF Init, LatchInv
<1>2. ASSUME LatchInv, [Next]_vars
      PROVE  LatchInv' /\ [ev'.tap \cap chorded = {}]_vars
  <2>1. CASE Next
    BY <1>2, <2>1, CallKeepsLatch DEF Next, Process
  <2>2. CASE UNCHANGED vars
    BY <1>2, <2>2 DEF vars, code, LatchInv
  <2> QED
    BY <1>2, <2>1, <2>2
<1> QED
  BY <1>1, <1>2, PTL DEF Spec, Safety, ChordNeverTaps

-----------------------------------------------------------------------------
(* Holds.  A debouncer is typed, and a hold that was long is one that lasts.*)
TimerInv ==
  /\ switch \in [Switch -> Debouncer]
  /\ was_long \in [Switch -> BOOLEAN]
  /\ \A s \in Switch :
       was_long[s] => Pressed(switch[s]) /\ switch[s].held >= LongPressMs

(* A switch that was reported as held is still long, or its contact has   *)
(* opened since.                                                           *)
HoldInv == \A s \in FS : s \in reopened \/ was_long[s]

(* A long press that was not reported is one the chord suppresses.         *)
LongInv == \A s \in FS : was_long[s] => s \in longed \/ suppressed

(* A switch that has lost a tap owes no release, and no chord is on.       *)
LostInv == lost \cap eat_release = {} /\ (suppressed => lost = {})

PressInv == TimerInv /\ HoldInv /\ LongInv /\ LostInv

(* Of one sample: a debouncer that was pressed stays long or opens; one    *)
(* that was not is pressed only after its rising edge.                     *)
LEMMA DebounceSteps ==
  ASSUME NEW d \in Debouncer, NEW contact \in BOOLEAN, NEW ms \in Nat
  PROVE  LET n == Debounce(d, contact, ms) IN
         /\ n \in Debouncer
         /\ Pressed(d) /\ d.held >= LongPressMs /\ n.level
              => Pressed(n) /\ n.held >= LongPressMs
         /\ Pressed(n) => d.level /\ d.run >= Width - 1
         /\ n.level /\ n.run >= Width - 1
              => (d.level /\ d.run >= Width - 1) \/ (ms > 0 /\ RisingEdge(n))
<1> DEFINE run == IF contact = d.level THEN AtMost(d.run + 1, Width) ELSE 1
           new == [level |-> contact, run |-> run, held |-> d.held]
           n   == Debounce(d, contact, ms)
<1>1. /\ d.level \in BOOLEAN /\ d.run \in 1..Width /\ d.held \in 0..LongPressMs
      /\ Width \in Nat /\ Width >= 2 /\ LongPressMs \in Nat
  BY ControlsAssumption DEF Debouncer
<1>2. CASE ms = 0
  <2>1. n = d
    BY <1>2 DEF Debounce
  <2> QED BY <1>1, <2>1 DEF Pressed
<1>3. CASE ms > 0
  <2> DEFINE held == IF Pressed(new) THEN AtMost(d.held + ms, LongPressMs) ELSE 0
  <2>1. run \in 1..Width /\ held \in 0..LongPressMs
    BY <1>1 DEF AtMost
  <2>2. n = [level |-> contact, run |-> run, held |-> held]
    BY <1>3 DEF Debounce
  <2>3. n.level = contact /\ n.run = run /\ n.held = held /\ n \in Debouncer
    BY <2>1, <2>2 DEF Debouncer
  <2>4. held >= LongPressMs \/ ~Pressed(new) \/ d.held < LongPressMs
    BY <1>1, <1>3 DEF AtMost
  <2>5. /\ contact = d.level /\ d.run = Width => run = Width
        /\ contact = d.level /\ run = Width => d.run >= Width - 1
        /\ contact = d.level /\ run >= Width - 1 => d.run >= Width - 1 \/ run = Width - 1
        /\ contact # d.level => run = 1 /\ run # Width
        /\ run = 1 /\ run >= Width - 1 => run = Width - 1
    BY <1>1 DEF AtMost
  <2>6. Pressed(new) <=> contact /\ run = Width
    BY DEF Pressed
  <2>7. Pressed(d) /\ d.held >= LongPressMs /\ contact
          => contact /\ run = Width /\ held >= LongPressMs
    <3>1. contact /\ d.level => contact = d.level
      BY <1>1
    <3>2. d.held >= LongPressMs => ~(d.held < LongPressMs)
      BY <1>1
    <3> QED BY <2>4, <2>5, <2>6, <3>1, <3>2, Zenon DEF Pressed
  <2>8. contact /\ run = Width => d.level /\ d.run >= Width - 1
    BY <2>5, <1>1, Zenon
  <2>9. contact /\ run >= Width - 1
          => (d.level /\ d.run >= Width - 1) \/ run = Width - 1
    BY <2>5, <1>1, Zenon
  <2> QED BY <1>3, <2>3, <2>7, <2>8, <2>9, Zenon DEF Pressed, RisingEdge
<1> QED BY <1>2, <1>3

(* What a call sees of one switch, from what the call before saw.          *)
Follows(d, n, ms) ==
  /\ n \in Debouncer
  /\ Pressed(d) /\ d.held >= LongPressMs /\ n.level
       => Pressed(n) /\ n.held >= LongPressMs
  /\ Pressed(n) => d.level /\ d.run >= Width - 1
  /\ n.level /\ n.run >= Width - 1
       => (d.level /\ d.run >= Width - 1) \/ (ms > 0 /\ RisingEdge(n))

LEMMA ProcessFollows ==
  ASSUME TimerInv, Process
  PROVE  \E ms \in Nat, now \in [Switch -> Debouncer] :
           /\ \A s \in Switch : Follows(switch[s], now[s], ms)
           /\ Call(now, ms)
<1>1. PICK ms \in Elapsed, contact \in [Switch -> BOOLEAN] :
        Call([s \in Switch |-> Debounce(switch[s], contact[s], ms)], ms)
  BY DEF Process
<1> DEFINE now == [s \in Switch |-> Debounce(switch[s], contact[s], ms)]
<1>2. ms \in Nat
  BY ControlsAssumption
<1>3. ASSUME NEW s \in Switch PROVE Follows(switch[s], now[s], ms)
  <2>1. switch[s] \in Debouncer /\ contact[s] \in BOOLEAN
    BY DEF TimerInv
  <2>2. now[s] = Debounce(switch[s], contact[s], ms)
    OBVIOUS
  <2> QED BY <1>2, <2>1, <2>2, DebounceSteps DEF Follows
<1>4. now \in [Switch -> Debouncer]
  BY <1>3 DEF Follows
<1> QED BY <1>1, <1>2, <1>3, <1>4

LEMMA CallKeepsPress ==
  ASSUME PressInv, NEW ms \in Nat, NEW now \in [Switch -> Debouncer],
         \A s \in Switch : Follows(switch[s], now[s], ms), Call(now, ms)
  PROVE  /\ PressInv'
         /\ ev'.hold \subseteq reopened
         /\ ev'.hold # {} => ~Both(switch')
         /\ Swallowed \cap lost = {}
<1> DEFINE falls == Falls(now, ms)
<1> USE DEF PressInv
<1>1. /\ switch' = now /\ was_long' = Long(now)
      /\ ev'.hold = Holds(now) /\ ev'.tap = Taps(now, falls) /\ released' = falls
      /\ suppressed' = (Any(now) /\ Suppress(now))
      /\ eat_release' = (IF Suppress(now) THEN FS ELSE eat_release) \ falls
      /\ longed' = (longed \ falls) \cup ev'.hold
      /\ reopened' = (reopened \cup {s \in FS : ~now[s].level}) \ ev'.hold
      /\ lost' = IF Suppress(now) THEN {} ELSE lost \cup Swallowed
  BY DEF Call, Chord, EatRelease
<1>2. FS \subseteq Switch
  BY DEF Switch
<1>3. \A s \in Switch : Long(now)[s] <=> Pressed(now[s]) /\ now[s].held >= LongPressMs
  BY DEF Long
<1>4. TimerInv'
  BY <1>1, <1>3, Zenon DEF TimerInv, Long
<1>6. ev'.hold \subseteq reopened
  BY <1>1 DEF Holds, HoldInv
<1>7. ev'.hold # {} => ~Both(switch')
  BY <1>1 DEF Holds, Suppress
<1>8. HoldInv'
  <2> SUFFICES ASSUME NEW s \in FS, s \notin reopened' PROVE was_long'[s]
    BY DEF HoldInv
  <2>1. CASE s \in ev'.hold
    BY <1>1, <2>1 DEF Holds
  <2>2. CASE s \notin ev'.hold
    <3>1. now[s].level /\ was_long[s] /\ Follows(switch[s], now[s], ms)
      BY <1>1, <1>2, <2>2 DEF HoldInv, Follows, Debouncer
    <3> QED BY <1>1, <1>2, <1>3, <3>1 DEF TimerInv, Follows
  <2> QED BY <2>1, <2>2
<1>9. LongInv'
  <2> SUFFICES ASSUME NEW s \in FS, was_long'[s] PROVE s \in longed' \/ suppressed'
    BY DEF LongInv
  <2>1. Pressed(now[s]) /\ Long(now)[s]
    BY <1>1, <1>2, <1>3
  <2>2. Any(now)
    BY <2>1 DEF Any
  <2>3. s \notin falls
    BY <1>2, <2>1 DEF Falls, FallingEdge, Pressed
  <2>4. CASE Suppress(now)
    BY <1>1, <2>2, <2>4
  <2>5. CASE ~Suppress(now) /\ ~was_long[s]
    BY <1>1, <2>1, <2>5 DEF Holds
  <2>6. CASE ~Suppress(now) /\ was_long[s]
    BY <1>1, <2>3, <2>6 DEF LongInv, Suppress
  <2> QED BY <2>4, <2>5, <2>6
<1>10. LostInv'
  <2>1. CASE Suppress(now)
    BY <1>1, <2>1 DEF LostInv
  <2>2. CASE ~Suppress(now)
    BY <1>1, <2>2 DEF LostInv, Swallowed
  <2> QED BY <2>1, <2>2
(* No tap is lost twice: without a chord and without the latch only a long *)
(* press that was not reported would be, and that is a chord's.            *)
<1>11. Swallowed \cap lost = {}
  <2> SUFFICES ASSUME NEW s \in Swallowed, s \in lost PROVE FALSE
    OBVIOUS
  <2>1. s \in falls /\ s \notin longed /\ s \notin ev'.tap /\ s \in FS
    BY <1>1 DEF Swallowed, Falls
  <2>2. ~suppressed /\ s \notin eat_release
    BY DEF LostInv
  <2>3. ~was_long[s]
    BY <2>1, <2>2 DEF LongInv
  <2>4. ~Both(now)
    BY <1>2, <2>1 DEF Both, Falls, FallingEdge, Pressed
  <2> QED BY <1>1, <2>1, <2>2, <2>3, <2>4 DEF Taps, Suppress
<1> QED BY <1>4, <1>6, <1>7, <1>8, <1>9, <1>10, <1>11

LEMMA PressInit == Init => PressInv
<1> SUFFICES ASSUME Init PROVE PressInv
  OBVIOUS
<1>1. [level |-> FALSE, run |-> Width, held |-> 0] \in Debouncer
  BY ControlsAssumption DEF Debouncer
<1> QED BY <1>1 DEF Init, PressInv, TimerInv, HoldInv, LongInv, LostInv, FS, Switch

LEMMA PressStep ==
  ASSUME PressInv, [Next]_vars
  PROVE  /\ PressInv'
         /\ [ev'.hold \subseteq reopened /\ (ev'.hold # {} => ~Both(switch'))]_vars
         /\ [Swallowed \cap lost = {}]_vars
<1>1. CASE Next
  BY <1>1, ProcessFollows, CallKeepsPress DEF Next, PressInv
<1>2. CASE UNCHANGED vars
  BY <1>2 DEF vars, code, PressInv, TimerInv, HoldInv, LongInv, LostInv
<1> QED BY <1>1, <1>2

(* While its contact stays closed a switch is reported as held at most     *)
(* once, however late the calls are, and never while the other switch is   *)
(* down with it: OneHoldPerClosing, src/Controls.cpp:40-42, 62-64.         *)
THEOREM HoldOnce == Spec => OneHoldPerClosing
  BY PressInit, PressStep, PTL DEF Spec, Safety, OneHoldPerClosing

(* The latch a chord leaves behind costs a switch one tap at most:         *)
(* OneTapLostPerChord, src/Controls.cpp:62-74.                             *)
THEOREM OneTapPerChord == Spec => OneTapLostPerChord
  BY PressInit, PressStep, PTL DEF Spec, Safety, OneTapLostPerChord

-----------------------------------------------------------------------------
(* The knob.                                                               *)

(* A contact: its register, its level now, and how long ago it moved.      *)
(* What was sampled since it stopped chattering is its level, and the last *)
(* sample before it moved was the other one.                               *)
Settled(reg, level, age) ==
  /\ \A k \in Bits : k < age - Chatter => reg[k] = level
  /\ age \in Bits => reg[age] = 1 - level

(* A contact that went down after a long rest: nothing but ones from       *)
(* before.                                                                 *)
FellFromRest(reg, age) == \A k \in Bits : age <= k => reg[k] = 1

ContactInv ==
  /\ Settled(ah_, LevelA(phase), age_a)
  /\ Settled(bh_, LevelB(phase), age_b)

(* Which contact has moved since the knob left its detent: none but the    *)
(* last can still chatter, and the one that has not yet is at rest.        *)
TurnInv ==
  /\ turned + turning \in (-Reach)..Reach
  /\ phase = 0 => age_a > Chatter \/ age_b > Chatter
  /\ turning = 1 =>
       /\ phase = 1 => age_a = Depth + Chatter /\ ah_ = Full
       /\ phase = 2 => age_b > Chatter /\ FellFromRest(ah_, age_a)
       /\ phase = 3 => age_a > Chatter
  /\ turning = -1 =>
       /\ phase = 3 => age_b = Depth + Chatter /\ bh_ = Full
       /\ phase = 2 => age_a > Chatter /\ FellFromRest(bh_, age_b)
       /\ phase = 1 => age_b > Chatter

(* The part of a turn that has been counted before its detent is reached.  *)
Ahead ==
  CASE turning = 1  -> IF phase = 3 \/ (phase = 2 /\ ah_ # Full) THEN 1 ELSE 0
    [] turning = -1 -> IF phase = 1 \/ (phase = 2 /\ bh_ # Full) THEN -1 ELSE 0
    [] OTHER -> 0

KnobInv == KnobTypeOK /\ ContactInv /\ TurnInv /\ reported + accum_ = turned + Ahead

LEMMA LevelsAre ==
  ASSUME NEW p \in 0..3
  PROVE  /\ LevelA(p) \in {0, 1} /\ LevelB(p) \in {0, 1}
         /\ LevelA(p) = 0 <=> p \in {2, 3}
         /\ LevelB(p) = 0 <=> p \in {1, 2}
  BY DEF LevelA, LevelB

LEMMA ShiftIs ==
  ASSUME NEW reg \in [Bits -> {0, 1}], NEW level \in {0, 1}
  PROVE  /\ Shift(reg, level) \in [Bits -> {0, 1}]
         /\ Shift(reg, level)[0] = level
         /\ \A k \in Bits : k > 0 => Shift(reg, level)[k] = reg[k - 1]
  BY KnobAssumption DEF Shift, Bits

(* A register is full if and only if it holds ones only.                   *)
LEMMA FullIs ==
  ASSUME NEW reg \in [Bits -> {0, 1}]
  PROVE  reg = Full <=> \A k \in Bits : reg[k] = 1
  BY DEF Full

(* A sample taken of a contact leaves what is known of it.                 *)
LEMMA SampleSettles ==
  ASSUME NEW reg \in [Bits -> {0, 1}], NEW level \in {0, 1},
         NEW age \in 0..(Depth + Chatter), Settled(reg, level, age),
         NEW v \in Reads(level, age)
  PROVE  /\ v \in {0, 1} /\ Older(age) \in 0..(Depth + Chatter) /\ Older(age) > 0
         /\ Settled(Shift(reg, v), level, Older(age))
<1> USE KnobAssumption
<1>1. v \in {0, 1} /\ (age >= Chatter => v = level)
  BY DEF Reads
<1>2. Older(age) \in 0..(Depth + Chatter) /\ Older(age) > 0
  BY DEF Older
<1>3. ASSUME NEW k \in Bits, k < Older(age) - Chatter PROVE Shift(reg, v)[k] = level
  <2>1. CASE k = 0
    BY <1>1, <1>3, <2>1, ShiftIs DEF Older, Bits
  <2>2. CASE k > 0
    <3>1. k - 1 \in Bits /\ k - 1 < age - Chatter
      BY <1>3, <2>2 DEF Older, Bits
    <3> QED BY <1>1, <2>2, <3>1, ShiftIs DEF Settled
  <2> QED BY <2>1, <2>2 DEF Bits
<1>4. ASSUME Older(age) \in Bits PROVE Shift(reg, v)[Older(age)] = 1 - level
  <2>1. age \in Bits /\ Older(age) = age + 1
    BY <1>4 DEF Older, Bits
  <2>2. Older(age) - 1 = age
    BY <2>1
  <2> QED BY <1>1, <1>2, <1>4, <2>1, <2>2, ShiftIs DEF Settled
<1> QED BY <1>1, <1>2, <1>3, <1>4 DEF Settled

LEMMA SampleFromRest ==
  ASSUME NEW reg \in [Bits -> {0, 1}], NEW age \in 0..(Depth + Chatter),
         FellFromRest(reg, age), NEW v \in {0, 1}
  PROVE  FellFromRest(Shift(reg, v), Older(age))
<1> USE KnobAssumption
<1> SUFFICES ASSUME NEW k \in Bits, Older(age) <= k PROVE Shift(reg, v)[k] = 1
  BY DEF FellFromRest
<1>1. k > 0 /\ k - 1 \in Bits /\ age <= k - 1
  BY DEF Older, Bits
<1> QED BY <1>1, ShiftIs DEF FellFromRest

(* What is known of a contact that moves: its last sample is of before.    *)
LEMMA MoveUnsettles ==
  ASSUME NEW reg, NEW level \in {0, 1}, NEW age \in 0..(Depth + Chatter),
         Settled(reg, level, age), age > Chatter
  PROVE  Settled(reg, 1 - level, 0)
<1>1. 0 \in Bits /\ 0 < age - Chatter /\ \A k \in Bits : ~(k < 0 - Chatter)
  BY KnobAssumption DEF Bits
<1> QED BY <1>1 DEF Settled

(* At rest a register is full of what its contact reads.                   *)
LEMMA RestIsFull ==
  ASSUME NEW reg \in [Bits -> {0, 1}], Settled(reg, 1, Depth + Chatter)
  PROVE  reg = Full
  BY KnobAssumption, FullIs DEF Settled, Bits

(* A register whose contact is down and quiet is not full; neither is one  *)
(* whose contact came up so lately that it may still read down.            *)
LEMMA DownIsNotFull ==
  ASSUME NEW reg \in [Bits -> {0, 1}], NEW age \in 0..(Depth + Chatter),
         \/ Settled(reg, 0, age) /\ age > Chatter
         \/ Settled(reg, 1, age) /\ age < Chatter
  PROVE  reg # Full
<1> USE KnobAssumption
<1>1. CASE Settled(reg, 0, age) /\ age > Chatter
  <2>1. 0 \in Bits /\ 0 < age - Chatter
    BY <1>1 DEF Bits
  <2> QED BY <1>1, <2>1, FullIs DEF Settled
<1>2. CASE Settled(reg, 1, age) /\ age < Chatter
  <2>1. age \in Bits
    BY <1>2 DEF Bits
  <2> QED BY <1>2, <2>1, FullIs DEF Settled
<1> QED BY <1>1, <1>2

(* Falling from rest, a register stays full until it has sampled a zero,   *)
(* and does not fill again while the contact is down.                      *)
LEMMA FallCountsOnce ==
  ASSUME NEW reg \in [Bits -> {0, 1}], NEW age \in 0..(Depth + Chatter),
         Settled(reg, 0, age), FellFromRest(reg, age), NEW v \in Reads(0, age)
  PROVE  Shift(reg, v) # Full <=> (reg # Full \/ v = 0)
<1> USE KnobAssumption
<1>1. v \in {0, 1} /\ (v = 1 => age < Chatter)
  BY DEF Reads
<1>2. CASE v = 0
  BY <1>2, ShiftIs, FullIs DEF Bits
<1>3. CASE v = 1 /\ reg = Full
  <2> SUFFICES ASSUME NEW k \in Bits PROVE Shift(reg, v)[k] = 1
    BY <1>1, <1>3, ShiftIs, FullIs
  <2>1. CASE k = 0
    BY <1>1, <1>3, <2>1, ShiftIs
  <2>2. CASE k > 0
    <3>1. k - 1 \in Bits
      BY <2>2 DEF Bits
    <3> QED BY <1>1, <1>3, <2>2, <3>1, ShiftIs, FullIs
  <2> QED BY <2>1, <2>2 DEF Bits
<1>4. CASE v = 1 /\ reg # Full
  <2>1. PICK k \in Bits : reg[k] # 1
    BY <1>4, FullIs
  <2>2. k < age
    BY <2>1 DEF FellFromRest, Bits
  <2>3. k + 1 \in Bits /\ k + 1 > 0 /\ (k + 1) - 1 = k
    BY <1>1, <1>4, <2>2 DEF Bits
  <2>4. Shift(reg, v)[k + 1] = reg[k]
    BY <1>1, <2>3, ShiftIs
  <2> QED BY <1>1, <1>4, <2>1, <2>3, <2>4, ShiftIs, FullIs
<1> QED BY <1>1, <1>2, <1>3, <1>4

LEMMA KnobStart == KnobInit => KnobInv
<1> USE KnobAssumption
<1> SUFFICES ASSUME KnobInit PROVE KnobInv
  OBVIOUS
<1>1. KnobTypeOK
  BY DEF KnobInit, KnobTypeOK, Full
<1>2. ContactInv
  BY DEF KnobInit, ContactInv, Settled, Full, LevelA, LevelB, Bits
<1>3. TurnInv
  BY DEF KnobInit, TurnInv
<1>4. reported + accum_ = turned + Ahead
  BY DEF KnobInit, Ahead
<1> QED BY <1>1, <1>2, <1>3, <1>4 DEF KnobInv

(* The sample that the interrupt takes counts what a turn has come to.     *)
LEMMA PollCounts ==
  ASSUME KnobInv, PollIsr
  PROVE  KnobInv'
<1> USE KnobAssumption
<1>1. PICK a \in Reads(LevelA(phase), age_a), b \in Reads(LevelB(phase), age_b) :
        /\ ah_' = Shift(ah_, a) /\ bh_' = Shift(bh_, b)
        /\ accum_' = accum_ + Step(a, b)
  BY DEF PollIsr
<1>2. /\ age_a' = Older(age_a) /\ age_b' = Older(age_b)
      /\ UNCHANGED <<phase, turning, turned, reported>>
  BY DEF PollIsr
<1>3. /\ phase \in 0..3 /\ turning \in {-1, 0, 1} /\ ((turning = 0) = (phase = 0))
      /\ age_a \in 0..(Depth + Chatter) /\ age_b \in 0..(Depth + Chatter)
      /\ ah_ \in [Bits -> {0, 1}] /\ bh_ \in [Bits -> {0, 1}]
      /\ LevelA(phase) \in {0, 1} /\ LevelB(phase) \in {0, 1}
      /\ LevelA(phase) = 0 <=> phase \in {2, 3}
      /\ LevelB(phase) = 0 <=> phase \in {1, 2}
  BY LevelsAre DEF KnobInv, KnobTypeOK
<1>4. /\ a \in {0, 1} /\ b \in {0, 1}
      /\ age_a >= Chatter => a = LevelA(phase)
      /\ age_b >= Chatter => b = LevelB(phase)
  BY <1>3 DEF Reads
<1>5. Settled(ah_, LevelA(phase), age_a) /\ Settled(bh_, LevelB(phase), age_b)
  BY DEF KnobInv, ContactInv
<1>6. ContactInv' /\ age_a' \in 0..(Depth + Chatter) /\ age_b' \in 0..(Depth + Chatter)
  BY <1>1, <1>2, <1>3, <1>5, SampleSettles DEF ContactInv
<1>7. /\ ah_' \in [Bits -> {0, 1}] /\ bh_' \in [Bits -> {0, 1}]
      /\ accum_' \in Int /\ Step(a, b) \in {-1, 0, 1}
  BY <1>1, <1>3, <1>4, ShiftIs DEF KnobInv, KnobTypeOK, Step
<1>8. KnobTypeOK'
  BY <1>2, <1>3, <1>6, <1>7 DEF KnobInv, KnobTypeOK
<1>9. /\ age_a > Chatter => age_a' > Chatter
      /\ age_b > Chatter => age_b' > Chatter
      /\ age_a = Depth + Chatter => age_a' = Depth + Chatter
      /\ age_b = Depth + Chatter => age_b' = Depth + Chatter
  BY <1>2, <1>3 DEF Older
<1>10. TurnInv
  BY DEF KnobInv
<1>11. TurnInv'
  <2>1. phase = 0 => age_a' > Chatter \/ age_b' > Chatter
    BY <1>9, <1>10 DEF TurnInv
  <2>2. ASSUME turning = 1
        PROVE  /\ phase = 1 => age_a' = Depth + Chatter /\ ah_' = Full
               /\ phase = 2 => age_b' > Chatter /\ FellFromRest(ah_', age_a')
               /\ phase = 3 => age_a' > Chatter
    <3>1. CASE phase = 1
      <4>1. age_a' = Depth + Chatter /\ LevelA(phase) = 1
        BY <1>3, <1>9, <1>10, <2>2, <3>1 DEF TurnInv
      <4> QED BY <1>2, <1>6, <1>7, <3>1, <4>1, RestIsFull DEF ContactInv
    <3>2. CASE phase = 2
      BY <1>1, <1>2, <1>3, <1>4, <1>9, <1>10, <2>2, <3>2, SampleFromRest DEF TurnInv
    <3>3. CASE phase = 3
      BY <1>9, <1>10, <2>2, <3>3 DEF TurnInv
    <3> QED BY <3>1, <3>2, <3>3
  <2>3. ASSUME turning = -1
        PROVE  /\ phase = 3 => age_b' = Depth + Chatter /\ bh_' = Full
               /\ phase = 2 => age_a' > Chatter /\ FellFromRest(bh_', age_b')
               /\ phase = 1 => age_b' > Chatter
    <3>1. CASE phase = 3
      <4>1. age_b' = Depth + Chatter /\ LevelB(phase) = 1
        BY <1>3, <1>9, <1>10, <2>3, <3>1 DEF TurnInv
      <4> QED BY <1>2, <1>6, <1>7, <3>1, <4>1, RestIsFull DEF ContactInv
    <3>2. CASE phase = 2
      BY <1>1, <1>2, <1>3, <1>4, <1>9, <1>10, <2>3, <3>2, SampleFromRest DEF TurnInv
    <3>3. CASE phase = 1
      BY <1>9, <1>10, <2>3, <3>3 DEF TurnInv
    <3> QED BY <3>1, <3>2, <3>3
  <2> QED BY <1>2, <1>10, <2>1, <2>2, <2>3 DEF TurnInv
<1>12. Ahead' = Ahead + Step(a, b)
  <2>1. CASE phase = 0
    <3>1. a = 1 \/ b = 1
      BY <1>3, <1>4, <1>10, <2>1 DEF TurnInv
    <3> QED BY <1>2, <1>3, <2>1, <3>1 DEF Step, Ahead
  <2>2. CASE turning = 1
    <3>1. CASE phase = 1
      <4>1. a = 1
        BY <1>3, <1>4, <1>10, <2>2, <3>1 DEF TurnInv
      <4> QED BY <1>2, <2>2, <3>1, <4>1 DEF Step, Ahead
    <3>2. CASE phase = 2
      <4>1. b = 0 /\ bh_ # Full
        BY <1>3, <1>4, <1>5, <1>10, <2>2, <3>2, DownIsNotFull DEF TurnInv
      <4>2. ah_' # Full <=> (ah_ # Full \/ a = 0)
        BY <1>1, <1>3, <1>5, <1>10, <2>2, <3>2, FallCountsOnce DEF TurnInv
      <4> QED BY <1>2, <1>4, <2>2, <3>2, <4>1, <4>2 DEF Step, Ahead
    <3>3. CASE phase = 3
      <4>1. a = 0 /\ ah_ # Full
        BY <1>3, <1>4, <1>5, <1>10, <2>2, <3>3, DownIsNotFull DEF TurnInv
      <4>2. b = 0 => bh_ # Full
        BY <1>3, <1>4, <1>5, <3>3, DownIsNotFull
      <4> QED BY <1>2, <2>2, <3>3, <4>1, <4>2 DEF Step, Ahead
    <3> QED BY <1>3, <2>2, <3>1, <3>2, <3>3
  <2>3. CASE turning = -1
    <3>1. CASE phase = 3
      <4>1. b = 1
        BY <1>3, <1>4, <1>10, <2>3, <3>1 DEF TurnInv
      <4> QED BY <1>2, <2>3, <3>1, <4>1 DEF Step, Ahead
    <3>2. CASE phase = 2
      <4>1. a = 0 /\ ah_ # Full
        BY <1>3, <1>4, <1>5, <1>10, <2>3, <3>2, DownIsNotFull DEF TurnInv
      <4>2. bh_' # Full <=> (bh_ # Full \/ b = 0)
        BY <1>1, <1>3, <1>5, <1>10, <2>3, <3>2, FallCountsOnce DEF TurnInv
      <4> QED BY <1>2, <1>4, <2>3, <3>2, <4>1, <4>2 DEF Step, Ahead
    <3>3. CASE phase = 1
      <4>1. b = 0 /\ bh_ # Full
        BY <1>3, <1>4, <1>5, <1>10, <2>3, <3>3, DownIsNotFull DEF TurnInv
      <4>2. a = 0 => ah_ # Full
        BY <1>3, <1>4, <1>5, <3>3, DownIsNotFull
      <4> QED BY <1>2, <2>3, <3>3, <4>1, <4>2 DEF Step, Ahead
    <3> QED BY <1>3, <2>3, <3>1, <3>2, <3>3
  <2> QED BY <1>3, <2>1, <2>2, <2>3
<1>13. (reported + accum_ = turned + Ahead)'
  <2>1. Ahead \in Int /\ reported + accum_ = turned + Ahead
    BY DEF KnobInv, Ahead
  <2>2. reported \in Int /\ accum_ \in Int /\ turned \in Int
    BY KnobAssumption DEF KnobInv, KnobTypeOK
  <2> QED BY <1>1, <1>2, <1>7, <1>12, <2>1, <2>2
<1> QED BY <1>6, <1>8, <1>11, <1>13 DEF KnobInv

(* The knob moves a quarter: on from a detent or between two.              *)
LEMMA TurnKeeps ==
  ASSUME KnobInv, Turn
  PROVE  KnobInv'
<1> USE KnobAssumption
<1>1. /\ phase \in 0..3 /\ turning \in {-1, 0, 1} /\ ((turning = 0) = (phase = 0))
      /\ age_a \in 0..(Depth + Chatter) /\ age_b \in 0..(Depth + Chatter)
      /\ turned \in (-Reach)..Reach
      /\ Settled(ah_, LevelA(phase), age_a) /\ Settled(bh_, LevelB(phase), age_b)
      /\ reported + accum_ = turned + Ahead
      /\ ah_ \in [Bits -> {0, 1}] /\ bh_ \in [Bits -> {0, 1}]
      /\ reported \in Int /\ accum_ \in Int
      /\ TurnInv
  BY DEF KnobInv, KnobTypeOK, ContactInv
<1>2. age_a > Chatter /\ age_b > Chatter
  BY <1>1 DEF Turn, Begin, Continue, Rested, Quiet
<1>3. ASSUME NEW dir \in {-1, 1}, Move(dir)
      PROVE  /\ ContactInv' /\ phase' \in 0..3
             /\ age_a' \in 0..(Depth + Chatter) /\ age_b' \in 0..(Depth + Chatter)
             /\ LevelA(phase') = LevelA(phase) => age_a' = age_a
             /\ LevelB(phase') = LevelB(phase) => age_b' = age_b
             /\ phase' = (phase + dir) % 4
             /\ UNCHANGED <<ah_, bh_, accum_, reported>>
  <2>1. /\ phase' = (phase + dir) % 4 /\ phase' \in 0..3
        /\ UNCHANGED <<ah_, bh_, accum_, reported>>
        /\ age_a' = IF LevelA(phase') # LevelA(phase) THEN 0 ELSE age_a
        /\ age_b' = IF LevelB(phase') # LevelB(phase) THEN 0 ELSE age_b
    BY <1>1, <1>3 DEF Move, registers
  <2>2. /\ LevelA(phase) \in {0, 1} /\ LevelA(phase') \in {0, 1}
        /\ LevelB(phase) \in {0, 1} /\ LevelB(phase') \in {0, 1}
    BY <1>1, <2>1, LevelsAre
  <2>3. Settled(ah_, LevelA(phase'), age_a')
    <3>1. CASE LevelA(phase') = LevelA(phase)
      BY <1>1, <2>1, <3>1
    <3>2. CASE LevelA(phase') # LevelA(phase)
      <4>1. LevelA(phase') = 1 - LevelA(phase) /\ age_a' = 0
        BY <2>1, <2>2, <3>2
      <4> QED BY <1>1, <1>2, <2>2, <4>1, MoveUnsettles
    <3> QED BY <3>1, <3>2
  <2>4. Settled(bh_, LevelB(phase'), age_b')
    <3>1. CASE LevelB(phase') = LevelB(phase)
      BY <1>1, <2>1, <3>1
    <3>2. CASE LevelB(phase') # LevelB(phase)
      <4>1. LevelB(phase') = 1 - LevelB(phase) /\ age_b' = 0
        BY <2>1, <2>2, <3>2
      <4> QED BY <1>1, <1>2, <2>2, <4>1, MoveUnsettles
    <3> QED BY <3>1, <3>2
  <2> QED BY <1>1, <2>1, <2>3, <2>4 DEF ContactInv
<1>4. ASSUME NEW dir \in {-1, 1}, Begin(dir)
      PROVE  KnobInv'
  <2>1. /\ phase = 0 /\ turning' = dir /\ turned' = turned
        /\ turned + dir \in (-Reach)..Reach
        /\ age_a = Depth + Chatter /\ age_b = Depth + Chatter /\ Move(dir)
    BY <1>4 DEF Begin, Rested
  <2>2. LevelA(0) = 1 /\ LevelB(0) = 1 /\ LevelA(1) = 1 /\ LevelB(3) = 1
    BY DEF LevelA, LevelB
  <2>3. ah_ = Full /\ bh_ = Full
    BY <1>1, <2>1, <2>2, RestIsFull
  <2>4. phase' = IF dir = 1 THEN 1 ELSE 3
    BY <1>3, <2>1
  <2>5. KnobTypeOK'
    BY <1>1, <1>3, <2>1, <2>4 DEF KnobTypeOK
  <2>6. TurnInv'
    BY <1>1, <1>3, <2>1, <2>2, <2>3, <2>4 DEF TurnInv
  <2>7. Ahead = 0 /\ Ahead' = 0
    BY <1>1, <2>1, <2>4 DEF Ahead
  <2> QED BY <1>1, <1>3, <2>1, <2>5, <2>6, <2>7 DEF KnobInv
<1>5. CASE Continue
  <2>1. /\ phase # 0 /\ turning \in {-1, 1} /\ Move(turning)
        /\ turned + turning \in (-Reach)..Reach
        /\ phase' = 0 => turned' = turned + turning /\ turning' = 0
        /\ phase' # 0 => turned' = turned /\ turning' = turning
    BY <1>1, <1>5 DEF Continue, TurnInv
  <2>2. /\ LevelA(0) = 1 /\ LevelA(1) = 1 /\ LevelA(2) = 0 /\ LevelA(3) = 0
        /\ LevelB(0) = 1 /\ LevelB(1) = 0 /\ LevelB(2) = 0 /\ LevelB(3) = 1
    BY DEF LevelA, LevelB
  <2>3. /\ UNCHANGED <<ah_, bh_, accum_, reported>>
        /\ phase' = (phase + turning) % 4 /\ phase' \in 0..3
        /\ age_a' \in 0..(Depth + Chatter) /\ age_b' \in 0..(Depth + Chatter)
        /\ LevelA(phase') = LevelA(phase) => age_a' = age_a
        /\ LevelB(phase') = LevelB(phase) => age_b' = age_b
    BY <1>3, <2>1
  <2>4. KnobTypeOK'
    BY <1>1, <2>1, <2>3 DEF KnobTypeOK
  <2>5. \A reg : reg = Full => \A k \in Bits : reg[k] = 1
    BY DEF Full
  <2>6. TurnInv' /\ turned' + Ahead' = turned + Ahead
    <3>1. CASE turning = 1 /\ phase = 1
      <4>1. phase' = 2 /\ turned' = turned /\ turning' = 1 /\ age_b' > Chatter
        BY <1>2, <2>1, <2>2, <2>3, <3>1
      <4>2. ah_' = Full
        BY <1>1, <2>3, <3>1 DEF TurnInv
      <4>3. TurnInv'
        BY <2>1, <2>5, <4>1, <4>2 DEF TurnInv, FellFromRest
      <4> QED BY <3>1, <4>1, <4>2, <4>3 DEF Ahead
    <3>2. CASE turning = 1 /\ phase = 2
      <4>1. phase' = 3 /\ turned' = turned /\ turning' = 1 /\ age_a' > Chatter
        BY <1>2, <2>1, <2>2, <2>3, <3>2
      <4>2. ah_ # Full
        BY <1>1, <1>2, <2>2, <3>2, DownIsNotFull
      <4> QED BY <2>1, <3>2, <4>1, <4>2 DEF Ahead, TurnInv
    <3>3. CASE turning = 1 /\ phase = 3
      <4>1. phase' = 0 /\ turned' = turned + 1 /\ turning' = 0 /\ age_b' > Chatter
        BY <1>2, <2>1, <2>2, <2>3, <3>3
      <4> QED BY <1>1, <2>1, <3>3, <4>1 DEF Ahead, TurnInv
    <3>4. CASE turning = -1 /\ phase = 3
      <4>1. phase' = 2 /\ turned' = turned /\ turning' = -1 /\ age_a' > Chatter
        BY <1>2, <2>1, <2>2, <2>3, <3>4
      <4>2. bh_' = Full
        BY <1>1, <2>3, <3>4 DEF TurnInv
      <4>3. TurnInv'
        BY <2>1, <2>5, <4>1, <4>2 DEF TurnInv, FellFromRest
      <4> QED BY <3>4, <4>1, <4>2, <4>3 DEF Ahead
    <3>5. CASE turning = -1 /\ phase = 2
      <4>1. phase' = 1 /\ turned' = turned /\ turning' = -1 /\ age_b' > Chatter
        BY <1>2, <2>1, <2>2, <2>3, <3>5
      <4>2. bh_ # Full
        BY <1>1, <1>2, <2>2, <3>5, DownIsNotFull
      <4>3. Ahead = -1 /\ Ahead' = -1
        BY <3>5, <4>1, <4>2 DEF Ahead
      <4>4. turned' + turning' \in (-Reach)..Reach
        BY <2>1, <3>5, <4>1
      <4>5. TurnInv'
        BY <4>1, <4>4 DEF TurnInv
      <4> QED BY <4>1, <4>3, <4>5
    <3>6. CASE turning = -1 /\ phase = 1
      <4>1. phase' = 0
        BY <1>2, <2>3, <3>6
      <4>2. turned' = turned - 1 /\ turning' = 0
        BY <1>1, <2>1, <3>6, <4>1 DEF KnobTypeOK
      <4>3. age_a' > Chatter
        BY <1>2, <2>1, <2>2, <2>3, <3>6, <4>1
      <4> QED BY <1>1, <2>1, <3>6, <4>1, <4>2, <4>3 DEF Ahead, TurnInv
    <3> QED BY <1>1, <2>1, <3>1, <3>2, <3>3, <3>4, <3>5, <3>6
  <2> QED BY <1>1, <1>3, <2>1, <2>3, <2>4, <2>6 DEF KnobInv
<1> QED BY <1>4, <1>5 DEF Turn

(* A drain moves steps from the counter to what was reported, as long as   *)
(* it has room for them.                                                   *)
LEMMA DrainMoves ==
  ASSUME KnobInv, Drain, accum_ \in (-Clamp)..Clamp
  PROVE  KnobInv'
<1>1. accum_ \in Int /\ reported \in Int /\ Clamp \in Nat /\ turned \in Int /\ Ahead \in Int
  BY KnobAssumption DEF KnobInv, KnobTypeOK, Ahead
<1>2. Clamped(accum_) = accum_
  BY <1>1 DEF Clamped
<1>3. reported' = reported + accum_ /\ accum_' = 0 /\ UNCHANGED <<knob, ah_, bh_>>
  BY <1>2 DEF Drain
<1>4. reported' + accum_' = turned + Ahead /\ reported' \in Int
  BY <1>1, <1>3 DEF KnobInv
<1> QED BY <1>3, <1>4 DEF KnobInv, KnobTypeOK, ContactInv, TurnInv, Ahead, knob

LEMMA KnobStep ==
  ASSUME KnobInv, accum_ \in (-Clamp)..Clamp, [KnobNext]_encoder
  PROVE  KnobInv'
<1>1. CASE UNCHANGED encoder
  BY <1>1 DEF encoder, knob, registers, KnobInv, KnobTypeOK, ContactInv, TurnInv, Ahead
<1> QED BY <1>1, TurnKeeps, PollCounts, DrainMoves DEF KnobNext

(* At a detent nothing is ahead.                                           *)
LEMMA DetentCounts ==
  ASSUME KnobInv PROVE NoDetentLost
BY DEF KnobInv, KnobTypeOK, Ahead, NoDetentLost

(* As long as no drain has more to report than it can hold, the detents    *)
(* reported and pending are those turned, for registers of any length and  *)
(* contacts that chatter no longer than they fill: NoDetentLost,           *)
(* src/QuadEncoder.h:20-29, src/quad_decode.h.                             *)
THEOREM NoneLostUnlessClamped ==
  KnobSpec /\ [](accum_ \in (-Clamp)..Clamp) => []NoDetentLost
BY KnobStart, KnobStep, DetentCounts, PTL DEF KnobSpec

-----------------------------------------------------------------------------
(* The bootloader command.                                                 *)

(* Whole division, from a quotient and a remainder.                        *)
LEMMA QuotientIs ==
  ASSUME NEW d \in Nat \ {0}, NEW q \in Nat, NEW r \in 0..(d - 1)
  PROVE  (q * d + r) \div d = q
<1> DEFINE a == q * d + r
           p == a \div d
           x == a % d
<1>1. q * d \in Nat /\ a \in Nat
  OBVIOUS
<1>2. p \in Int /\ x \in 0..(d - 1) /\ a = p * d + x
  BY <1>1, SMT
<1> HIDE DEF p, x
<1>3. a = q * d + r
  OBVIOUS
<1> HIDE DEF a
<1>4. p * d \in Int /\ p * d + x = q * d + r
  BY <1>1, <1>2, <1>3
<1>5. p >= q
  <2> SUFFICES ASSUME p < q PROVE FALSE
    BY <1>2
  <2>1. (q - p - 1) * d >= 0
    BY <1>2
  <2>2. (q - p - 1) * d = (q * d) - (p * d) - d
    BY <1>2
  <2> QED BY <1>1, <1>2, <1>4, <2>1, <2>2
<1>6. p <= q
  <2> SUFFICES ASSUME q < p PROVE FALSE
    BY <1>2
  <2>1. (p - q - 1) * d >= 0
    BY <1>2
  <2>2. (p - q - 1) * d = (p * d) - (q * d) - d
    BY <1>2
  <2> QED BY <1>1, <1>2, <1>4, <2>1, <2>2
<1> QED BY <1>2, <1>5, <1>6 DEF p, a

(* What the parser remembers of a line: it forgets MaxLine bytes at a time.*)
Remembered(text) ==
  SubSeq(text, (Len(text) \div MaxLine) * MaxLine + 1, Len(text))

(* ... and of a line that grows by a byte.                                 *)
LEMMA RememberedGrows ==
  ASSUME NEW text \in Seq(Char), NEW ch \in Char
  PROVE  /\ Remembered(text) \in Seq(Char)
         /\ Remembered(Append(text, ch)) =
              IF Len(Remembered(text)) + 1 >= MaxLine
              THEN <<>> ELSE Append(Remembered(text), ch)
<1> DEFINE n == Len(text)
           q == n \div MaxLine
           r == n % MaxLine
           t == Append(text, ch)
<1>1. MaxLine \in Nat \ {0} /\ n \in Nat /\ \A i \in 1..n : text[i] \in Char
  BY BootLineAssumption, LenProperties
<1>2. q \in Nat /\ r \in 0..(MaxLine - 1) /\ n = q * MaxLine + r /\ q * MaxLine \in Nat
  BY <1>1, SMT
<1>3. /\ t \in Seq(Char) /\ Len(t) = n + 1 /\ t[n + 1] = ch
      /\ \A i \in 1..n : t[i] = text[i]
  BY AppendProperties
<1> HIDE DEF n, q, r, t
<1>4. Remembered(text) = SubSeq(text, q * MaxLine + 1, n)
  BY DEF Remembered, n, q
<1>5. /\ Remembered(text) \in Seq(Char) /\ Len(Remembered(text)) = r
      /\ \A i \in 1..r : Remembered(text)[i] = text[q * MaxLine + i]
  <2> DEFINE m == q * MaxLine + 1
  <2>1. m \in Nat /\ m >= 1 /\ n - m + 1 = r /\ \A i \in m..n : text[i] \in Char
    BY <1>1, <1>2
  <2>2. /\ SubSeq(text, m, n) \in Seq(Char)
        /\ Len(SubSeq(text, m, n)) = IF m <= n THEN n - m + 1 ELSE 0
        /\ \A i \in 1..(n - m + 1) : SubSeq(text, m, n)[i] = text[m + i - 1]
    BY <1>1, <2>1, SubSeqProperties
  <2> QED BY <1>1, <1>2, <1>4, <2>1, <2>2
<1>6. CASE r + 1 >= MaxLine
  <2>1. n + 1 = (q + 1) * MaxLine + 0 /\ q + 1 \in Nat /\ 0 \in 0..(MaxLine - 1)
    BY <1>1, <1>2, <1>6
  <2>2. (n + 1) \div MaxLine = q + 1
    BY <1>1, <2>1, QuotientIs
  <2>3. Remembered(t) = SubSeq(t, n + 2, n + 1)
    <3>1. (q + 1) * MaxLine + 1 = n + 2
      BY <1>1, <2>1
    <3> QED BY <1>3, <2>2, <3>1 DEF Remembered
  <2>4. Remembered(t) = <<>>
    BY <1>1, <2>3, SubSeqEmpty
  <2> QED BY <1>5, <1>6, <2>4 DEF t
<1>7. CASE r + 1 < MaxLine
  <2>1. n + 1 = q * MaxLine + (r + 1) /\ r + 1 \in 0..(MaxLine - 1)
    BY <1>1, <1>2, <1>7
  <2>2. (n + 1) \div MaxLine = q
    BY <1>1, <1>2, <2>1, QuotientIs
  <2>3. Remembered(t) = SubSeq(t, q * MaxLine + 1, n + 1)
    BY <1>3, <2>2 DEF Remembered
  <2> DEFINE m == q * MaxLine + 1
             u == SubSeq(t, m, n + 1)
             v == Append(Remembered(text), ch)
  <2>4. m \in 1..(n + 1) /\ (n + 1) - m + 1 = r + 1 /\ \A i \in m..(n + 1) : t[i] \in Char
    BY <1>1, <1>2, <1>3
  <2>5. u \in Seq(Char) /\ Len(u) = r + 1 /\ \A i \in 1..(r + 1) : u[i] = t[m + i - 1]
    BY <1>1, <2>4, SubSeqProperties
  <2>6. /\ v \in Seq(Char) /\ Len(v) = r + 1 /\ v[r + 1] = ch
        /\ \A i \in 1..r : v[i] = Remembered(text)[i]
    BY <1>5, AppendProperties
  <2> HIDE DEF u, v
  <2>7. \A i \in 1..(r + 1) : u[i] = v[i]
    <3> DEFINE b == q * MaxLine
    <3>1. m = b + 1 /\ b \in Nat /\ n = b + r /\ r \in Nat
      BY <1>1, <1>2
    <3>2. \A i \in 1..r : Remembered(text)[i] = text[b + i]
      BY <1>5
    <3> HIDE DEF b, m
    <3>3. m + (r + 1) - 1 = n + 1 /\ r + 1 \in 1..(r + 1)
      BY <3>1
    <3>4. u[r + 1] = v[r + 1]
      BY <1>3, <2>5, <2>6, <3>3
    <3>5. ASSUME NEW i \in 1..r PROVE u[i] = v[i]
      <4>1. i \in 1..(r + 1) /\ m + i - 1 = b + i /\ b + i \in 1..n
        BY <3>1, <3>5
      <4> QED BY <1>3, <2>5, <2>6, <3>2, <4>1
    <3> QED BY <3>1, <3>4, <3>5
  <2>8. u = v
    BY <2>5, <2>6, <2>7, SeqEqual
  <2>9. Remembered(t) = v
    BY <2>3, <2>8 DEF u
  <2>10. ~(Len(Remembered(text)) + 1 >= MaxLine)
    BY <1>1, <1>2, <1>5, <1>7
  <2> QED BY <1>5, <2>9, <2>10 DEF v, t
<1> QED BY <1>1, <1>2, <1>6, <1>7, <1>5

(* The line being read began after the end at e.                           *)
Begun(bytes, e) == e \in {0} \cup Ends(bytes) /\ \A k \in Ends(bytes) : k <= e

LEMMA SameUpTo ==
  ASSUME NEW s \in Seq(Char), NEW ch \in Char,
         NEW a \in Nat \ {0}, NEW b \in Nat, b <= Len(s)
  PROVE  SubSeq(Append(s, ch), a, b) = SubSeq(s, a, b)
<1>1. Len(s) \in Nat
  BY LenProperties
<1>2. CASE b < a
  BY <1>2, SubSeqEmpty
<1>3. CASE a <= b
  <2>1. Append(s, ch) = s \o <<ch>> /\ <<ch>> \in Seq(Char)
    BY AppendIsConcat
  <2>2. a \in 1..Len(s) /\ b \in 1..Len(s)
    BY <1>1, <1>3
  <2> QED BY <2>1, <2>2, SubSeqOfConcat1
<1> QED BY <1>2, <1>3

(* A byte that ends no line joins the line being read.                     *)
LEMMA ByteJoins ==
  ASSUME NEW s \in Seq(Char), NEW ch \in Char \ LineEnd, NEW e, Begun(s, e)
  PROVE  /\ Begun(Append(s, ch), e) /\ Lines(Append(s, ch)) = Lines(s)
         /\ SubSeq(Append(s, ch), e + 1, Len(Append(s, ch)))
              = Append(SubSeq(s, e + 1, Len(s)), ch)
<1> DEFINE t == Append(s, ch)
           n == Len(s)
<1>1. /\ n \in Nat /\ t \in Seq(Char) /\ Len(t) = n + 1 /\ t[n + 1] = ch
      /\ \A i \in 1..n : t[i] = s[i]
  BY AppendProperties, LenProperties
<1> HIDE DEF t, n
<1>2. Ends(s) = {k \in 1..n : s[k] \in LineEnd} /\ Ends(t) = {k \in 1..(n + 1) : t[k] \in LineEnd}
  BY <1>1 DEF Ends, n
<1>3. Ends(t) = Ends(s)
  <2>1. \A k \in 1..(n + 1) : k \in 1..n \/ k = n + 1
    BY <1>1
  <2>2. 1..n \subseteq 1..(n + 1)
    BY <1>1
  <2> QED BY <1>1, <1>2, <2>1, <2>2
<1>4. e \in 0..n
  BY <1>1, <1>2 DEF Begun
<1>5. Begun(t, e)
  BY <1>3 DEF Begun
<1>6. Between(t) = Between(s)
  BY <1>3 DEF Between
<1>7. \A at \in Between(s) : SubSeq(t, at[1] + 1, at[2] - 1) = SubSeq(s, at[1] + 1, at[2] - 1)
  <2> SUFFICES ASSUME NEW at \in Between(s)
               PROVE  SubSeq(t, at[1] + 1, at[2] - 1) = SubSeq(s, at[1] + 1, at[2] - 1)
    OBVIOUS
  <2>1. at[1] \in {0} \cup Ends(s) /\ at[2] \in Ends(s)
    BY DEF Between
  <2>2. at[1] + 1 \in Nat \ {0} /\ at[2] - 1 \in Nat /\ at[2] - 1 <= n
    BY <1>1, <1>2, <2>1
  <2> QED BY <2>2, SameUpTo DEF t, n
<1>8. Lines(t) = Lines(s)
  BY <1>6, <1>7 DEF Lines
<1>9. SubSeq(t, e + 1, n + 1) = Append(SubSeq(s, e + 1, n), ch)
  <2>1. e + 1 \in 1..Len(t) /\ n + 1 \in (e + 1)..Len(t) /\ (n + 1) - 1 = n
    BY <1>1, <1>4
  <2>2. SubSeq(t, e + 1, n + 1) = SubSeq(t, e + 1, n) \o <<ch>>
    BY <1>1, <2>1, SubSeqRecursiveSecond
  <2>3. SubSeq(t, e + 1, n) = SubSeq(s, e + 1, n)
    BY <1>1, <1>4, SameUpTo DEF t, n
  <2>4. SubSeq(s, e + 1, n) \in Seq(Char)
    <3>1. \A i \in (e + 1)..n : s[i] \in Char
      BY <1>1, <1>4, LenProperties DEF n
    <3> QED BY <1>1, <1>4, <3>1, SubSeqProperties
  <2> QED BY <2>2, <2>3, <2>4, AppendIsConcat
<1> QED BY <1>1, <1>5, <1>8, <1>9 DEF t, n

(* One that does makes it a line, and the next begins.                     *)
LEMMA ByteEnds ==
  ASSUME NEW s \in Seq(Char), NEW ch \in LineEnd, NEW e, Begun(s, e)
  PROVE  /\ Begun(Append(s, ch), Len(s) + 1) /\ Len(Append(s, ch)) = Len(s) + 1
         /\ Lines(Append(s, ch)) = Lines(s) \cup {SubSeq(s, e + 1, Len(s))}
<1> DEFINE t == Append(s, ch)
           n == Len(s)
<1>0. ch \in Char
  BY BootLineAssumption
<1>1. /\ n \in Nat /\ t \in Seq(Char) /\ Len(t) = n + 1 /\ t[n + 1] = ch
      /\ \A i \in 1..n : t[i] = s[i]
  BY <1>0, AppendProperties, LenProperties
<1> HIDE DEF t, n
<1>2. Ends(s) = {k \in 1..n : s[k] \in LineEnd} /\ Ends(t) = {k \in 1..(n + 1) : t[k] \in LineEnd}
  BY <1>1 DEF Ends, n
<1>3. Ends(t) = Ends(s) \cup {n + 1}
  <2>1. \A k \in 1..(n + 1) : k \in 1..n \/ k = n + 1
    BY <1>1
  <2>2. 1..n \subseteq 1..(n + 1) /\ n + 1 \in 1..(n + 1)
    BY <1>1
  <2> QED BY <1>1, <1>2, <2>1, <2>2
<1>4. e \in 0..n /\ e \in {0} \cup Ends(s) /\ Ends(s) \subseteq 1..n
      /\ \A k \in Ends(s) : k <= e
  BY <1>1, <1>2 DEF Begun
<1>5. Begun(t, n + 1)
  BY <1>1, <1>3, <1>4 DEF Begun
<1>6. Between(t) = Between(s) \cup {<<e, n + 1>>}
  <2>1. ASSUME NEW at \in Between(s) PROVE at \in Between(t)
    <3>1. /\ at \in ({0} \cup Ends(s)) \X Ends(s) /\ at[1] < at[2]
          /\ \A k \in Ends(s) : k <= at[1] \/ at[2] <= k
      BY <2>1 DEF Between
    <3>2. at[2] <= n + 1
      BY <1>1, <1>4, <3>1
    <3> QED BY <1>3, <3>1, <3>2 DEF Between
  <2>2. <<e, n + 1>> \in Between(t)
    <3>1. e < n + 1
      BY <1>1, <1>4
    <3> QED BY <1>1, <1>3, <1>4, <3>1 DEF Between
  <2>3. ASSUME NEW at \in Between(t), at # <<e, n + 1>> PROVE at \in Between(s)
    <3>1. /\ at \in ({0} \cup Ends(t)) \X Ends(t) /\ at[1] < at[2]
          /\ \A k \in Ends(t) : k <= at[1] \/ at[2] <= k
      BY <2>3 DEF Between
    <3>2. at = <<at[1], at[2]>> /\ at[1] \in 0..(n + 1) /\ at[2] \in 1..(n + 1)
      BY <1>1, <1>3, <1>4, <3>1
    <3>3. at[1] # n + 1
      BY <1>1, <3>1, <3>2
    <3>4. at[1] \in {0} \cup Ends(s)
      BY <1>3, <3>1, <3>3
    <3>5. at[2] # n + 1
      <4> SUFFICES ASSUME at[2] = n + 1 PROVE FALSE
        OBVIOUS
      <4>1. at[1] # e
        BY <2>3, <3>2
      <4>2. at[1] <= e
        BY <1>4, <3>4
      <4>3. e # 0
        BY <1>4, <3>2, <4>1, <4>2
      <4>4. e \in Ends(t)
        BY <1>3, <1>4, <4>3
      <4>5. e <= at[1] \/ n + 1 <= e
        BY <3>1, <4>4
      <4> QED BY <1>1, <1>4, <3>2, <4>1, <4>2, <4>5
    <3>6. at[2] \in Ends(s)
      BY <1>3, <3>1, <3>5
    <3> QED BY <1>3, <3>1, <3>2, <3>4, <3>6 DEF Between
  <2> QED BY <2>1, <2>2, <2>3
<1>7. \A at \in Between(s) : SubSeq(t, at[1] + 1, at[2] - 1) = SubSeq(s, at[1] + 1, at[2] - 1)
  <2> SUFFICES ASSUME NEW at \in Between(s)
               PROVE  SubSeq(t, at[1] + 1, at[2] - 1) = SubSeq(s, at[1] + 1, at[2] - 1)
    OBVIOUS
  <2>1. at[1] \in {0} \cup Ends(s) /\ at[2] \in Ends(s)
    BY DEF Between
  <2>2. at[1] + 1 \in Nat \ {0} /\ at[2] - 1 \in Nat /\ at[2] - 1 <= n
    BY <1>1, <1>4, <2>1
  <2> QED BY <1>0, <2>2, SameUpTo DEF t, n
<1>8. SubSeq(t, e + 1, (n + 1) - 1) = SubSeq(s, e + 1, n)
  <2>1. e + 1 \in Nat \ {0} /\ (n + 1) - 1 = n
    BY <1>1, <1>4
  <2> QED BY <1>0, <1>1, <2>1, SameUpTo DEF t, n
<1>9. Lines(t) = Lines(s) \cup {SubSeq(s, e + 1, n)}
  <2>1. \A at \in Between(t) : at \in Between(s) \/ at = <<e, n + 1>>
    BY <1>6
  <2>2. \A text : text \in Lines(t) <=> \E at \in Between(t) : text = SubSeq(t, at[1] + 1, at[2] - 1)
    BY Zenon DEF Lines
  <2>3. \A text : text \in Lines(s) <=> \E at \in Between(s) : text = SubSeq(s, at[1] + 1, at[2] - 1)
    BY Zenon DEF Lines
  <2>4. <<e, n + 1>>[1] = e /\ <<e, n + 1>>[2] = n + 1 /\ <<e, n + 1>> \in Between(t)
    BY <1>6
  <2>5. ASSUME NEW text \in Lines(t) PROVE text \in Lines(s) \cup {SubSeq(s, e + 1, n)}
    <3>1. PICK at \in Between(t) : text = SubSeq(t, at[1] + 1, at[2] - 1)
      BY <2>2
    <3>2. CASE at \in Between(s)
      BY <1>7, <2>3, <3>1, <3>2, Zenon
    <3>3. CASE at = <<e, n + 1>>
      BY <1>8, <2>4, <3>1, <3>3, Zenon
    <3> QED BY <2>1, <3>2, <3>3
  <2>6. Lines(s) \subseteq Lines(t)
    <3> SUFFICES ASSUME NEW text \in Lines(s) PROVE text \in Lines(t)
      OBVIOUS
    <3>1. PICK at \in Between(s) : text = SubSeq(s, at[1] + 1, at[2] - 1)
      BY <2>3
    <3>2. at \in Between(t) /\ text = SubSeq(t, at[1] + 1, at[2] - 1)
      BY <1>6, <1>7, <3>1, Zenon
    <3> QED BY <2>2, <3>2
  <2>7. SubSeq(s, e + 1, n) \in Lines(t)
    BY <1>8, <2>2, <2>4, Zenon
  <2> QED BY <2>5, <2>6, <2>7
<1> QED BY <1>1, <1>5, <1>9 DEF t, n

(* What the parser knows of the bytes it was fed: the part it remembers of *)
(* the line being read, until a line was the command.                      *)
Commanded(bytes) == \E text \in Lines(bytes) : IsCommand(Remembered(text))

Parsed(p, bytes) ==
  /\ p \in [line : Seq(Char), matched : BOOLEAN]
  /\ p.matched <=> Commanded(bytes)
  /\ \E e : /\ Begun(bytes, e)
            /\ ~p.matched => p.line = Remembered(SubSeq(bytes, e + 1, Len(bytes)))

LEMMA RestOfBytes ==
  ASSUME NEW s \in Seq(Char), NEW e, Begun(s, e)
  PROVE  SubSeq(s, e + 1, Len(s)) \in Seq(Char)
<1>1. e \in 0..Len(s) /\ Len(s) \in Nat /\ \A i \in 1..Len(s) : s[i] \in Char
  BY LenProperties DEF Begun, Ends
<1>2. \A i \in (e + 1)..Len(s) : s[i] \in Char
  BY <1>1
<1> QED BY <1>1, <1>2, SubSeqProperties

LEMMA NothingRemembered == Remembered(<<>>) = <<>>
<1>1. MaxLine \in Nat \ {0} /\ 0 = 0 * MaxLine + 0 /\ 0 \in 0..(MaxLine - 1)
  BY BootLineAssumption, LenProperties
<1>2. 0 \div MaxLine = 0
  BY <1>1, QuotientIs
<1>3. Remembered(<<>>) = SubSeq(<<>>, 1, 0)
  BY <1>1, <1>2 DEF Remembered
<1> QED BY <1>3, SubSeqEmpty

(* Each turn of Feed's loop knows a byte more.                             *)
LEMMA FeedByteParses ==
  ASSUME NEW s \in Seq(Char), NEW ch \in Char, NEW p, Parsed(p, s)
  PROVE  Parsed(FeedByte(p, ch), Append(s, ch))
<1> DEFINE t == Append(s, ch)
           n == FeedByte(p, ch)
<1>1. p \in [line : Seq(Char), matched : BOOLEAN] /\ (p.matched <=> Commanded(s))
  BY DEF Parsed
<1>2. PICK e : Begun(s, e)
               /\ (~p.matched => p.line = Remembered(SubSeq(s, e + 1, Len(s))))
  BY DEF Parsed
<1> DEFINE text == SubSeq(s, e + 1, Len(s))
<1>3. text \in Seq(Char) /\ Remembered(text) \in Seq(Char)
  BY <1>2, BootLineAssumption, RestOfBytes, RememberedGrows
<1>4. CASE ch \notin LineEnd
  <2>1. Begun(t, e) /\ Lines(t) = Lines(s) /\ SubSeq(t, e + 1, Len(t)) = Append(text, ch)
    BY <1>2, <1>4, ByteJoins
  <2>2. Remembered(Append(text, ch)) = IF Len(Remembered(text)) + 1 >= MaxLine
                                       THEN <<>> ELSE Append(Remembered(text), ch)
    BY <1>3, RememberedGrows
  <2>3. Commanded(t) <=> Commanded(s)
    BY <2>1 DEF Commanded
  <2> HIDE DEF t, text
  <2>4. CASE p.matched
    <3>1. n = p
      BY <2>4 DEF FeedByte
    <3>2. Parsed(p, t)
      BY <1>1, <2>1, <2>3, <2>4 DEF Parsed
    <3> QED BY <3>1, <3>2 DEF n, t
  <2>5. CASE ~p.matched /\ Len(p.line) + 1 >= MaxLine
    <3>1. n = [line |-> <<>>, matched |-> FALSE] /\ <<>> \in Seq(Char)
      BY <1>4, <2>5, EmptySeq DEF FeedByte
    <3>2. Remembered(SubSeq(t, e + 1, Len(t))) = <<>>
      BY <1>2, <2>1, <2>2, <2>5 DEF text
    <3> HIDE DEF n
    <3>3. Parsed(n, t)
      BY <1>1, <2>1, <2>3, <2>5, <3>1, <3>2 DEF Parsed
    <3> QED BY <3>3 DEF n, t
  <2>6. CASE ~p.matched /\ ~(Len(p.line) + 1 >= MaxLine)
    <3>1. n = [p EXCEPT !.line = Append(@, ch)]
      BY <1>4, <2>6 DEF FeedByte
    <3>2. n = [line |-> Append(p.line, ch), matched |-> FALSE] /\ Append(p.line, ch) \in Seq(Char)
      BY <1>1, <2>6, <3>1, AppendProperties
    <3>3. Remembered(SubSeq(t, e + 1, Len(t))) = Append(p.line, ch)
      BY <1>2, <2>1, <2>2, <2>6 DEF text
    <3> HIDE DEF n
    <3>4. Parsed(n, t)
      BY <1>1, <2>1, <2>3, <2>6, <3>2, <3>3 DEF Parsed
    <3> QED BY <3>4 DEF n, t
  <2> QED BY <2>4, <2>5, <2>6 DEF t
<1>5. CASE ch \in LineEnd
  <2>1. Begun(t, Len(s) + 1) /\ Len(t) = Len(s) + 1 /\ Lines(t) = Lines(s) \cup {text}
    BY <1>2, <1>5, ByteEnds
  <2>2. Commanded(t) <=> Commanded(s) \/ IsCommand(Remembered(text))
    BY <2>1 DEF Commanded
  <2>3. Remembered(SubSeq(t, (Len(s) + 1) + 1, Len(t))) = <<>>
    <3>1. SubSeq(t, (Len(s) + 1) + 1, Len(t)) = <<>>
      BY <2>1, LenProperties, SubSeqEmpty
    <3> QED BY <3>1, NothingRemembered
  <2> HIDE DEF t, text
  <2>4. CASE p.matched
    <3>1. n = p
      BY <2>4 DEF FeedByte
    <3>2. Parsed(p, t)
      BY <1>1, <2>1, <2>2, <2>4 DEF Parsed
    <3> QED BY <3>1, <3>2 DEF n, t
  <2>5. CASE ~p.matched
    <3>1. n = [line |-> <<>>, matched |-> IsCommand(p.line)] /\ <<>> \in Seq(Char)
      BY <1>5, <2>5, EmptySeq DEF FeedByte, IsCommand
    <3>2. p.line = Remembered(text)
      BY <1>2, <2>5 DEF text
    <3> HIDE DEF n
    <3>3. Parsed(n, t)
      BY <1>1, <2>1, <2>2, <2>3, <2>5, <3>1, <3>2 DEF Parsed, IsCommand
    <3> QED BY <3>3 DEF n, t
  <2> QED BY <2>4, <2>5 DEF t
<1> QED BY <1>4, <1>5

(* Induction over a bounded range, from the least counterexample.          *)
LEMMA RangeInduction ==
  ASSUME NEW m \in Nat, NEW S, 0 \in S, \A k \in 0..(m - 1) : k \in S => k + 1 \in S
  PROVE  0..m \subseteq S
<1> DEFINE T == {k \in 0..m : k \notin S}
<1> SUFFICES ASSUME T # {} PROVE FALSE
  OBVIOUS
<1>1. T \subseteq Nat
  OBVIOUS
<1>2. PICK k \in T : \A j \in T : ~(j < k)
  <2>1. PICK k \in T : \A j \in T : <<j, k>> \notin OpToRel(<, Nat)
    BY <1>1, WFMin, NatLessThanWellFounded
  <2>2. \A j \in T : j < k => <<j, k>> \in OpToRel(<, Nat)
    BY <1>1 DEF OpToRel
  <2> QED BY <2>1, <2>2, Zenon
<1>3. k \in 1..m /\ k - 1 \in 0..(m - 1)
  BY <1>2
<1>4. k - 1 \in S
  BY <1>2, <1>3
<1>5. (k - 1) + 1 \in S
  BY <1>3, <1>4
<1> QED BY <1>2, <1>3, <1>5

(* f is what Feed's loop has made of the first n bytes of a packet.        *)
FedTo(packet, n, f) ==
  f = [k \in 0..n |-> IF k = 0 THEN [line |-> line_, matched |-> FALSE]
                               ELSE FeedByte(f[k - 1], packet[k])]

LEMMA FedExists ==
  ASSUME NEW packet, NEW n \in Nat
  PROVE  \E f : FedTo(packet, n, f)
<1> DEFINE start == [line |-> line_, matched |-> FALSE]
           S == {m \in Nat : \E f : FedTo(packet, m, f)}
<1>1. 0 \in S
  <2> DEFINE f == [k \in 0..0 |-> start]
  <2>1. FedTo(packet, 0, f)
    <3>1. \A k \in 0..0 : k = 0
      OBVIOUS
    <3> QED BY <3>1, Zenon DEF FedTo
  <2> QED BY <2>1
<1>2. ASSUME NEW m \in 0..(n - 1), m \in S PROVE m + 1 \in S
  <2>1. PICK f : FedTo(packet, m, f)
    BY <1>2
  <2> DEFINE g == [k \in 0..(m + 1) |-> IF k = 0 THEN start
                                        ELSE FeedByte(f[k - 1], packet[k])]
  <2>2. \A k \in 0..m : g[k] = f[k]
    <3>1. f = [k \in 0..m |-> IF k = 0 THEN start ELSE FeedByte(f[k - 1], packet[k])]
      BY <2>1 DEF FedTo
    <3>2. 0..m \subseteq 0..(m + 1)
      BY <1>2
    <3> HIDE DEF start
    <3> QED BY <3>1, <3>2, Zenon
  <2>3. \A k \in 0..(m + 1) : g[k] = IF k = 0 THEN start ELSE FeedByte(g[k - 1], packet[k])
    <3>1. \A k \in 0..(m + 1) : k # 0 => k - 1 \in 0..m
      BY <1>2
    <3> HIDE DEF start
    <3> QED BY <2>2, <3>1
  <2>4. FedTo(packet, m + 1, g)
    BY <2>3, Zenon DEF FedTo
  <2> QED BY <2>4
<1> HIDE DEF S
<1>3. n \in S
  BY <1>1, <1>2, RangeInduction
<1> QED BY <1>3 DEF S

LEMMA FeedIs ==
  ASSUME NEW packet, Len(packet) \in Nat
  PROVE  \E f : FedTo(packet, Len(packet), f) /\ Feed(packet) = f[Len(packet)]
<1> DEFINE f == CHOOSE f : FedTo(packet, Len(packet), f)
<1>1. FedTo(packet, Len(packet), f)
  BY FedExists
<1>2. Feed(packet) = f[Len(packet)]
  BY DEF Feed, FedTo
<1> QED BY <1>1, <1>2

(* A packet, however the host cut it, takes the parser on by its bytes.    *)
LEMMA FeedParses ==
  ASSUME NEW packet \in Seq(Char), stream \in Seq(Char),
         Parsed([line |-> line_, matched |-> FALSE], stream)
  PROVE  Parsed(Feed(packet), stream \o packet)
<1> DEFINE n == Len(packet)
           fed(k) == stream \o SubSeq(packet, 1, k)
<1>1. n \in Nat /\ \A k \in 1..n : packet[k] \in Char
  BY LenProperties
<1>2. PICK f : FedTo(packet, n, f) /\ Feed(packet) = f[n]
  BY <1>1, FeedIs
<1>3. /\ f[0] = [line |-> line_, matched |-> FALSE]
      /\ \A k \in 0..(n - 1) : f[k + 1] = FeedByte(f[k], packet[k + 1])
  <2>1. f = [k \in 0..n |-> IF k = 0 THEN [line |-> line_, matched |-> FALSE]
                                     ELSE FeedByte(f[k - 1], packet[k])]
    BY <1>2 DEF FedTo
  <2>2. 0 \in 0..n /\ \A k \in 0..(n - 1) : k + 1 \in 0..n /\ k + 1 # 0 /\ (k + 1) - 1 = k
    BY <1>1
  <2>3. f[0] = [line |-> line_, matched |-> FALSE]
    BY <2>1, <2>2, Zenon
  <2>4. ASSUME NEW k \in 0..(n - 1) PROVE f[k + 1] = FeedByte(f[k], packet[k + 1])
    <3>1. f[k + 1] = FeedByte(f[(k + 1) - 1], packet[k + 1])
      BY <2>1, <2>2, Zenon
    <3> QED BY <2>2, <3>1
  <2> QED BY <2>3, <2>4
<1> HIDE DEF n
<1>4. \A k \in 0..n : SubSeq(packet, 1, k) \in Seq(Char) /\ fed(k) \in Seq(Char)
  <2> SUFFICES ASSUME NEW k \in 0..n
               PROVE  SubSeq(packet, 1, k) \in Seq(Char) /\ fed(k) \in Seq(Char)
    OBVIOUS
  <2>1. SubSeq(packet, 1, k) \in Seq(Char)
    <3>1. \A i \in 1..k : packet[i] \in Char
      BY <1>1
    <3> QED BY <3>1, SubSeqProperties
  <2> QED BY <2>1, ConcatProperties
<1>5. fed(0) = stream
  <2>1. SubSeq(packet, 1, 0) = <<>>
    BY SubSeqEmpty
  <2> QED BY <2>1, ConcatEmptySeq
<1>6. ASSUME NEW k \in 0..(n - 1)
      PROVE  fed(k + 1) = Append(fed(k), packet[k + 1]) /\ packet[k + 1] \in Char
  <2> DEFINE pre == SubSeq(packet, 1, k)
             ch == packet[k + 1]
  <2>1. k \in 0..n /\ k + 1 \in 1..n /\ k + 1 \in 1..Len(packet) /\ 1 \in 1..Len(packet) /\ (k + 1) - 1 = k
    BY <1>1 DEF n
  <2>2. SubSeq(packet, 1, k + 1) = pre \o <<ch>>
    <3>1. SubSeq(packet, 1, k + 1) = SubSeq(packet, 1, (k + 1) - 1) \o <<packet[k + 1]>>
      BY <2>1, SubSeqRecursiveSecond
    <3> QED BY <2>1, <3>1
  <2>3. ch \in Char /\ <<ch>> \in Seq(Char) /\ pre \in Seq(Char) /\ fed(k) \in Seq(Char)
    BY <1>1, <1>4, <2>1
  <2> HIDE DEF pre, ch
  <2>4. stream \o (pre \o <<ch>>) = (stream \o pre) \o <<ch>>
    BY <2>3, ConcatAssociative
  <2>5. Append(stream \o pre, ch) = (stream \o pre) \o <<ch>>
    BY <2>3, AppendIsConcat DEF pre
  <2> QED BY <2>2, <2>3, <2>4, <2>5 DEF pre, ch
<1>7. fed(n) = stream \o packet
  BY SubSeqFull DEF n
<1> HIDE DEF fed
<1> DEFINE S == {k \in 0..n : Parsed(f[k], fed(k))}
<1>8. 0 \in S
  <2>1. Parsed(f[0], fed(0))
    BY <1>3, <1>5, Zenon
  <2> QED BY <1>1, <2>1
<1>9. ASSUME NEW k \in 0..(n - 1), k \in S PROVE k + 1 \in S
  <2>1. k \in 0..n /\ k + 1 \in 0..n /\ Parsed(f[k], fed(k)) /\ fed(k) \in Seq(Char)
    BY <1>1, <1>4, <1>9
  <2>2. Parsed(FeedByte(f[k], packet[k + 1]), Append(fed(k), packet[k + 1]))
    BY <1>6, <2>1, FeedByteParses
  <2> QED BY <1>3, <1>6, <2>1, <2>2
<1> HIDE DEF S
<1>10. n \in S
  <2>1. 0..n \subseteq S
    BY <1>1, <1>8, <1>9, RangeInduction
  <2> QED BY <1>1, <2>1
<1> QED BY <1>2, <1>7, <1>10 DEF S

(* Between packets; once the pedal leaves, only a restart follows.         *)
ParserInv ==
  /\ stream \in Seq(Char) /\ line_ \in Seq(Char) /\ rebooting \in BOOLEAN
  /\ Parsed([line |-> line_, matched |-> rebooting], stream)

LEMMA NothingParsed == Parsed([line |-> <<>>, matched |-> FALSE], <<>>)
<1>1. Len(<<>>) = 0 /\ <<>> \in Seq(Char)
  BY EmptySeq
<1>2. Ends(<<>>) = {}
  BY <1>1 DEF Ends
<1>3. Lines(<<>>) = {} /\ Begun(<<>>, 0)
  BY <1>2 DEF Lines, Between, Begun
<1>4. SubSeq(<<>>, 0 + 1, Len(<<>>)) = <<>>
  BY <1>1, SubSeqEmpty
<1> QED BY <1>1, <1>3, <1>4, NothingRemembered DEF Parsed, Commanded

LEMMA ParserStep ==
  ASSUME ParserInv, [LineNext]_usb
  PROVE  ParserInv'
<1>1. ASSUME NEW packet \in Packets, Receive(packet)
      PROVE  ParserInv'
  <2>1. packet \in Seq(Char)
    <3>1. PICK n \in 1..PacketSize : packet \in [1..n -> Char]
      BY DEF Packets
    <3> QED BY <3>1, BootLineAssumption, SeqDef
  <2>2. /\ line_' = Feed(packet).line /\ rebooting' = Feed(packet).matched
        /\ stream' = stream \o packet /\ rebooting = FALSE
    BY <1>1 DEF Receive, ParserInv
  <2>3. Parsed(Feed(packet), stream \o packet)
    BY <2>1, <2>2, FeedParses DEF ParserInv
  <2> DEFINE q == Feed(packet)
  <2>4. q \in [line : Seq(Char), matched : BOOLEAN]
    BY <2>3 DEF Parsed
  <2>5. q = [line |-> q.line, matched |-> q.matched]
    BY <2>4
  <2>6. stream \o packet \in Seq(Char)
    BY <2>1, ConcatProperties DEF ParserInv
  <2>7. Parsed([line |-> line_', matched |-> rebooting'], stream')
    BY <2>2, <2>3, <2>5, Zenon
  <2> HIDE DEF q
  <2>8. line_' \in Seq(Char) /\ rebooting' \in BOOLEAN
    BY <2>2, <2>4 DEF q
  <2> QED BY <2>2, <2>6, <2>7, <2>8 DEF ParserInv, Parsed, Commanded, Begun
<1>2. CASE Restart
  <2>1. line_' = <<>> /\ rebooting' = FALSE /\ stream' = <<>> /\ <<>> \in Seq(Char)
    BY <1>2, EmptySeq DEF Restart
  <2> QED BY <2>1, NothingParsed DEF ParserInv, Parsed, Commanded, Begun
<1>3. CASE UNCHANGED usb
  BY <1>3 DEF ParserInv, usb, Parsed, Commanded, Begun
<1> QED BY <1>1, <1>2, <1>3 DEF LineNext

(* Lines are rows of bytes.                                                *)
LEMMA LinesAre ==
  ASSUME NEW bytes \in Seq(Char), NEW text \in Lines(bytes)
  PROVE  text \in Seq(Char)
<1>1. PICK at \in Between(bytes) : text = SubSeq(bytes, at[1] + 1, at[2] - 1)
  BY DEF Lines
<1>2. /\ at[1] \in {0} \cup Ends(bytes) /\ at[2] \in Ends(bytes) /\ at[1] < at[2]
      /\ Len(bytes) \in Nat /\ \A i \in 1..Len(bytes) : bytes[i] \in Char
  BY LenProperties DEF Between
<1>3. /\ at[1] \in Int /\ at[2] \in 1..Len(bytes) /\ at[1] >= 0
      /\ at[1] + 1 <= (at[2] - 1) + 1
  BY <1>2 DEF Ends
<1> DEFINE m == at[1] + 1
           n == at[2] - 1
<1>4. m \in Nat \ {0} /\ n \in Nat /\ m <= n + 1 /\ n <= Len(bytes)
  BY <1>2, <1>3
<1>5. \A i \in m..n : bytes[i] \in Char
  BY <1>2, <1>4
<1> HIDE DEF m, n
<1>6. SubSeq(bytes, m, n) \in Seq(Char)
  BY <1>4, <1>5, SubSeqProperties
<1> QED BY <1>1, <1>6 DEF m, n

(* A line that fits is remembered whole, and of a longer one its end.      *)
LEMMA RememberedEnd ==
  ASSUME NEW text \in Seq(Char)
  PROVE  /\ InBuffer(text) => Remembered(text) = text
         /\ IsCommand(Remembered(text)) => EndsInCommand(text)
<1> DEFINE q == Len(text) \div MaxLine
<1>1. MaxLine \in Nat \ {0} /\ Len(text) \in Nat
  BY BootLineAssumption, LenProperties
<1>2. ASSUME InBuffer(text) PROVE Remembered(text) = text
  <2>1. Len(text) = 0 * MaxLine + Len(text) /\ Len(text) \in 0..(MaxLine - 1)
    BY <1>1, <1>2 DEF InBuffer
  <2>2. Len(text) \div MaxLine = 0
    BY <1>1, <2>1, QuotientIs
  <2>3. Remembered(text) = SubSeq(text, 1, Len(text))
    BY <1>1, <2>2 DEF Remembered
  <2> QED BY <2>3, SubSeqFull
<1>3. q * MaxLine \in 0..Len(text)
  BY <1>1, SMT
<1>4. Remembered(text) = SubSeq(text, q * MaxLine + 1, Len(text))
  BY DEF Remembered
<1> HIDE DEF q
<1> QED BY <1>2, <1>3, <1>4 DEF EndsInCommand

(* Whatever the bytes and however they are cut: RebootsOnCommandOnly,      *)
(* src/BootloaderCommand.cpp:19-58, for a buffer and a command of any      *)
(* length the buffer holds.                                                *)
THEOREM RebootsOnlyOnCommand == LineSpec => []RebootsOnCommandOnly
<1>1. LineInit => ParserInv
  BY NothingParsed, EmptySeq DEF LineInit, ParserInv
<1>2. ASSUME ParserInv PROVE RebootsOnCommandOnly
  <2>1. stream \in Seq(Char) /\ (rebooting <=> Commanded(stream))
    BY <1>2 DEF ParserInv, Parsed
  <2>2. ASSUME NEW text \in Lines(stream), InBuffer(text), IsCommand(text)
        PROVE  rebooting
    BY <2>1, <2>2, LinesAre, RememberedEnd DEF Commanded
  <2>3. ASSUME rebooting
        PROVE  \E text \in Lines(stream) :
                 IF InBuffer(text) THEN IsCommand(text) ELSE EndsInCommand(text)
    <3>1. PICK text \in Lines(stream) : IsCommand(Remembered(text))
      BY <2>1, <2>3 DEF Commanded
    <3>2. IF InBuffer(text) THEN IsCommand(text) ELSE EndsInCommand(text)
      BY <2>1, <3>1, LinesAre, RememberedEnd
    <3> QED BY <3>2
  <2> QED BY <2>2, <2>3 DEF RebootsOnCommandOnly
<1> QED BY <1>1, <1>2, ParserStep, PTL DEF LineSpec
=============================================================================
