------------------------------ MODULE Controls ------------------------------
(***************************************************************************)
(* Footswitches and the encoder's push button, from contact samples to the *)
(* events the main loop acts on: Controls::Process (src/Controls.cpp) and  *)
(* FootswitchChord::Update (src/footswitch_chord.h).                       *)
(*                                                                         *)
(* One step is one call of Process.  The main loop may be late, so any of  *)
(* the Elapsed times may have passed since the call before; the contacts   *)
(* read whatever the feet and their bounce make them read.                 *)
(***************************************************************************)
EXTENDS Integers

CONSTANTS
  Width,        \* samples the debouncer keeps: 8
  ChordMs,      \* kFootswitchChordMs: 350
  LongPressMs,  \* kLongPressMs: 800
  Elapsed,      \* milliseconds between two calls; 0 when called again at once
  Settle        \* samples a contact keeps its level: 1 lets it bounce

ASSUME ControlsAssumption ==
  /\ Width \in Nat /\ Width >= 2
  /\ ChordMs \in Nat /\ LongPressMs \in Nat /\ ChordMs <= LongPressMs
  /\ Elapsed \subseteq Nat /\ Settle \in 1..Width

FS     == {"fs1", "fs2"}
Switch == FS \cup {"enc1"}

VARIABLES
  switch,          \* the debouncers
  was_long,        \* fs1_hold_was_active_, fs2_..., enc1_long_was_active_
  both_hold_sent,  \* FootswitchChord
  suppressed,
  eat_release,     \* the switches whose eat_fs*_release_ is set
  ev,              \* the ControlEvent returned
  released,        \* switches whose release was seen in this call
  chorded, longed, \* history: switches that were in a chord, or emitted a
                   \* hold, since they were last released
  reopened,        \* history: switches whose contact has read open since
                   \* their latest hold
  pressed,         \* history: switches seen down since they were last released
  lost             \* history: switches that lost a tap since the last chord

code == <<switch, was_long, both_hold_sent, suppressed, eat_release>>
vars == <<code, ev, released, chorded, longed, reopened, pressed, lost>>

-----------------------------------------------------------------------------
(* libDaisy's Switch.  Of the last Width samples only the newest level and *)
(* the length of its run matter; held counts from the rising edge and      *)
(* stops at LongPressMs.                                                   *)

Debouncer == [level : BOOLEAN, run : 1..Width, held : 0..LongPressMs]

RisingEdge(d)  == d.level /\ d.run = Width - 1
FallingEdge(d) == ~d.level /\ d.run = Width - 1
Pressed(d)     == d.level /\ d.run = Width

AtMost(n, bound) == IF n > bound THEN bound ELSE n

Debounce(d, contact, ms) ==
  LET run == IF contact = d.level THEN AtMost(d.run + 1, Width) ELSE 1
      new == [level |-> contact, run |-> run, held |-> d.held]
  IN IF ms = 0 THEN d
     ELSE [new EXCEPT !.held = IF Pressed(new) THEN AtMost(d.held + ms, LongPressMs)
                               ELSE 0]

-----------------------------------------------------------------------------
NoEvent == [tap |-> {}, hold |-> {}, both_hold |-> FALSE,
            click |-> FALSE, long |-> FALSE]

TypeOK ==
  /\ switch \in [Switch -> Debouncer]
  /\ was_long \in [Switch -> BOOLEAN]
  /\ both_hold_sent \in BOOLEAN /\ suppressed \in BOOLEAN
  /\ eat_release \subseteq FS
  /\ ev \in [tap : SUBSET FS, hold : SUBSET FS, both_hold : BOOLEAN,
             click : BOOLEAN, long : BOOLEAN]
  /\ {released, chorded, longed, reopened, pressed, lost} \subseteq SUBSET FS

Init ==
  /\ switch = [s \in Switch |-> [level |-> FALSE, run |-> Width, held |-> 0]]
  /\ was_long = [s \in Switch |-> FALSE]
  /\ both_hold_sent = FALSE /\ suppressed = FALSE
  /\ eat_release = {}
  /\ ev = NoEvent
  /\ released = {} /\ chorded = {} /\ longed = {} /\ pressed = {} /\ lost = {}
  /\ reopened = FS

(* What this call sees, of the debouncers as they are after Debounce.      *)
Long(now)   == [s \in Switch |-> Pressed(now[s]) /\ now[s].held >= LongPressMs]
Falls(now, ms) == {s \in FS : ms > 0 /\ FallingEdge(now[s])}
Both(now)   == \A s \in FS : Pressed(now[s])
Any(now)    == \E s \in FS : Pressed(now[s])

(* FootswitchChord::Update.                                                *)
ChordFires(now) ==
  Both(now) /\ ~both_hold_sent /\ \A s \in FS : now[s].held >= ChordMs
Suppress(now)   == suppressed \/ Both(now)

(* Slip: only the suppression is reset.                                    *)
ChordNeverReset(now) ==
  /\ both_hold_sent' = (both_hold_sent \/ ChordFires(now))
  /\ suppressed' = (Any(now) /\ Suppress(now))

Chord(now) ==
  /\ both_hold_sent' = (Any(now) /\ (both_hold_sent \/ ChordFires(now)))
  /\ suppressed' = (Any(now) /\ Suppress(now))

(* Slip: the trailing release is not eaten.                                *)
EatReleaseNot(now, falls) == eat_release' = {}

(* Slip: a release that was eaten leaves the latch set.                    *)
EatReleaseKept(now, falls) ==
  eat_release' = IF Suppress(now) THEN FS ELSE eat_release

EatRelease(now, falls) ==
  eat_release' = (IF Suppress(now) THEN FS ELSE eat_release) \ falls

(* Slip: a hold is reported in every call while the switch is down.        *)
HoldsRepeated(now) ==
  IF Suppress(now) THEN {} ELSE {s \in FS : Long(now)[s]}

Taps(now, falls) ==
  IF Suppress(now) THEN {} ELSE {s \in falls \ eat_release : ~was_long[s]}
Holds(now) ==
  IF Suppress(now) THEN {} ELSE {s \in FS : Long(now)[s] /\ ~was_long[s]}

(* A press by itself, released before it was held, and not reported.       *)
Swallowed == ((released' \cap pressed) \ (chorded \cup longed)) \ ev'.tap

Call(now, ms) ==
  LET falls == Falls(now, ms)
  IN /\ switch' = now
     /\ was_long' = Long(now)
     /\ Chord(now)
     /\ EatRelease(now, falls)
     /\ ev' = [tap       |-> Taps(now, falls),
               hold      |-> Holds(now),
               both_hold |-> ChordFires(now),
               click     |-> ms > 0 /\ RisingEdge(now["enc1"]),
               long      |-> Long(now)["enc1"] /\ ~was_long["enc1"]]
     /\ released' = falls
     /\ chorded' = (IF Both(now) THEN FS ELSE chorded) \ falls
     /\ longed' = (longed \ falls) \cup ev'.hold
     /\ reopened' = (reopened \cup {s \in FS : ~now[s].level}) \ ev'.hold
     /\ pressed' = (pressed \cup {s \in FS : Pressed(now[s])}) \ falls
     /\ lost' = IF Suppress(now) THEN {} ELSE lost \cup Swallowed

Steady(s) == IF switch[s].run >= Settle THEN BOOLEAN ELSE {switch[s].level}

Process ==
  \E ms \in Elapsed :
    \E contact \in {c \in [Switch -> BOOLEAN] :
                      \A s \in Switch : c[s] \in Steady(s)} :
      Call([s \in Switch |-> Debounce(switch[s], contact[s], ms)], ms)

Next == Process

(* The main loop never ends and calls Process first (main.cpp:499-501), and*)
(* time passes.                                                            *)
Safety == Init /\ [][Next]_vars
Spec   == Safety /\ WF_vars(Next)

-----------------------------------------------------------------------------
(* Properties.                                                             *)

(* A switch that was down together with the other one does not step to     *)
(* another preset when it comes up, in whatever order, however late and    *)
(* however bouncy the releases are (Controls.cpp:62-74).                   *)
ChordNeverTaps == [][ev'.tap \cap chorded = {}]_vars

(* While a contact stays closed it gives one hold at most, however late    *)
(* the calls are and whatever the other switch does meanwhile, and none    *)
(* while the other is down with it (Controls.cpp:40-42, 62-64).            *)
OneHoldPerClosing ==
  [][/\ ev'.hold \subseteq reopened
     /\ ev'.hold # {} => ~Both(switch')]_vars

(* A press that bounces is still one press.  The code does otherwise: one  *)
(* open sample starts the debouncer and its 800 ms again, without a        *)
(* release (README.md, Disagreements).                                     *)
OneHoldPerPress == [][ev'.hold \cap longed = {}]_vars

(* Pressing both switches and keeping them down toggles the tuner,         *)
(* whatever was pressed, held or latched before (footswitch_chord.h:28-58).*)
ChordFiresWhenHeld ==
  (~Any(switch) /\ \A s \in FS : switch[s].level)
    ~> (ev.both_hold \/ \E s \in FS : ~switch[s].level)

(* Controls.cpp:35-36, "Releasing also means a hold (>kLongPressMs)        *)
(* already fired, so it isn't a tap".                                      *)
HoldIsNotATap == [][ev'.tap \cap longed = {}]_vars

(* The latch a chord leaves behind costs a switch one tap at most: once    *)
(* the chord no longer suppresses, the press after that counts, whatever   *)
(* chatter, delay or order of releases came between (Controls.cpp:62-74).  *)
(* See EveryTapCounts.                                                     *)
OneTapLostPerChord == [][Swallowed \cap lost = {}]_vars

(* docs/superpowers/specs/2026-06-24-tuner-mode-design.md:220, "normal     *)
(* individual taps and holds still work": a switch pressed by itself and   *)
(* released before it counts as held is a tap. The code does otherwise:    *)
(* README.md, Disagreements.                                               *)
EveryTapCounts ==
  [][(released' \ (chorded \cup longed)) \subseteq ev'.tap]_vars
=============================================================================
