------------------------------- MODULE Tuner -------------------------------
(***************************************************************************)
(* TunerDetector (src/TunerDetector.cpp) between its two users: the audio  *)
(* interrupt, which appends decimated samples to a ring while tuner_active *)
(* is set, and the main loop, which resets the detector, sets and clears   *)
(* the flag, and copies the latest window out of the ring one sample at a  *)
(* time while blocks keep arriving.  There is no lock.                     *)
(*                                                                         *)
(* A sample is named by the session it was captured in and the value of    *)
(* write_idx_ it was stored under, so that samples out of place show.      *)
(***************************************************************************)
EXTENDS Integers

CONSTANTS
  RingSize,    \* kRingSize
  WindowSize,  \* kWindowSize
  Wrap,        \* the range of write_idx_, 2^32 in the code
  Decimation,  \* kDecimation
  Frames,      \* frames in an audio block
  Slack,       \* audio blocks that may fall within one copy of the window
  Cadence      \* ... and within any other stretch of the main loop

(* The two assumptions about speed: what the blocks of one copy store fits *)
(* beside the window (in the code, 170 blocks or 170 ms), and an analysis  *)
(* comes round more often than write_idx_ does (40 ms against 99 hours).   *)
ASSUME TunerAssumption ==
  /\ {RingSize, WindowSize, Wrap, Decimation, Frames} \subseteq Nat \ {0}
  /\ Slack \in Nat \ {0} /\ Cadence \in Nat
  /\ WindowSize <= RingSize
  /\ Wrap % RingSize = 0 /\ Wrap > RingSize
  /\ (Slack * Frames + Decimation - 1) \div Decimation <= RingSize - WindowSize

VARIABLES
  tuner_active,
  ring, write_idx, decim_counter,  \* written by the interrupt, or by Reset
  pc, start, i, window,            \* the main loop inside Analyze
  tuner_pitch,                     \* the window the shown pitch came from
  session,                         \* history: parity of the tuner session
  captured,                        \* history: samples of this session, up to WindowSize
  within                           \* history: blocks since the main loop's last milestone

detector == <<ring, write_idx, decim_counter>>
analyzer == <<start, i, window>>
vars == <<tuner_active, detector, pc, analyzer, tuner_pitch, session, captured, within>>

Zero   == [session |-> 2, idx |-> 0]        \* a cleared slot
Sample == [session : {0, 1}, idx : 0..(Wrap - 1)] \cup {Zero}
NoPitch == -1

TypeOK ==
  /\ tuner_active \in BOOLEAN
  /\ ring \in [0..(RingSize - 1) -> Sample]
  /\ write_idx \in 0..(Wrap - 1)
  /\ decim_counter \in 0..(Decimation - 1)
  /\ pc \in {"loop", "cleared", "check", "start", "copy", "show", "leave"}
  /\ start \in 0..(Wrap - 1)
  /\ i \in 0..WindowSize
  /\ window \in [0..(WindowSize - 1) -> Sample]
  /\ tuner_pitch \in {NoPitch, 0, 1, 2}
  /\ session \in {0, 1}
  /\ captured \in 0..WindowSize
  /\ within \in Nat

Init ==
  /\ tuner_active = FALSE
  /\ ring = [k \in 0..(RingSize - 1) |-> Zero]
  /\ write_idx = 0 /\ decim_counter = 0
  /\ pc = "loop" /\ start = 0 /\ i = 0
  /\ window = [k \in 0..(WindowSize - 1) |-> Zero]
  /\ tuner_pitch = NoPitch
  /\ session = 0 /\ captured = 0 /\ within = 0

-----------------------------------------------------------------------------
(* The interrupt: PushAudioBlock, if the flag is set.                      *)
Stored == (decim_counter + Frames) \div Decimation

(* Where the k-th sample of the block goes.                                *)
IdxOf(k) == (write_idx + k) % Wrap

(* Slip: the index is advanced before the sample is stored.                *)
PushAdvanceFirst ==
  /\ ring' = [slot \in DOMAIN ring |->
       IF \E k \in 1..Stored : IdxOf(k) % RingSize = slot
         THEN [session |-> session,
               idx |-> IdxOf((CHOOSE k \in 1..Stored : IdxOf(k) % RingSize = slot) - 1)]
         ELSE ring[slot]]
  /\ write_idx' = IdxOf(Stored)
  /\ decim_counter' = (decim_counter + Frames) % Decimation

PushAudioBlock ==
  /\ ring' = [slot \in DOMAIN ring |->
       IF \E k \in 0..(Stored - 1) : IdxOf(k) % RingSize = slot
         THEN [session |-> session,
               idx |-> IdxOf(CHOOSE k \in 0..(Stored - 1) : IdxOf(k) % RingSize = slot)]
         ELSE ring[slot]]
  /\ write_idx' = IdxOf(Stored)
  /\ decim_counter' = (decim_counter + Frames) % Decimation

Copying == pc = "copy"

AudioCallback ==
  /\ tuner_active
  /\ within < IF Copying THEN Slack ELSE Cadence
  /\ PushAudioBlock
  /\ captured' = IF captured + Stored > WindowSize THEN WindowSize ELSE captured + Stored
  /\ within' = within + 1
  /\ UNCHANGED <<tuner_active, pc, analyzer, tuner_pitch, session>>

-----------------------------------------------------------------------------
(* The main loop.                                                          *)

Reset ==
  /\ ring' = [k \in 0..(RingSize - 1) |-> Zero]
  /\ write_idx' = 0
  /\ decim_counter' = 0

(* Enter, first half: Reset and a fresh TunerPitch.                        *)

(* Slip: the pitch of the session before stays.                            *)
EnterOldPitch ==
  /\ pc = "loop" /\ ~tuner_active
  /\ Reset
  /\ session' = 1 - session
  /\ captured' = 0
  /\ pc' = "cleared"
  /\ UNCHANGED <<tuner_active, analyzer, within, tuner_pitch>>

Enter ==
  /\ pc = "loop" /\ ~tuner_active
  /\ Reset
  /\ tuner_pitch' = NoPitch
  /\ session' = 1 - session
  /\ captured' = 0
  /\ pc' = "cleared"
  /\ UNCHANGED <<tuner_active, analyzer, within>>

(* Enter, second half.                                                     *)
Activate ==
  /\ pc = "cleared"
  /\ tuner_active' = TRUE
  /\ within' = 0
  /\ pc' = "loop"
  /\ UNCHANGED <<detector, analyzer, tuner_pitch, session, captured>>

(* ShouldRefreshTunerScreen: the interval has elapsed.                     *)

(* Slip: each analysis starts the capture afresh.                          *)
BeginAnalyzeAfresh ==
  /\ pc = "loop" /\ tuner_active
  /\ Reset
  /\ tuner_pitch' = NoPitch
  /\ within' = 0
  /\ captured' = 0
  /\ pc' = "check"
  /\ UNCHANGED <<tuner_active, analyzer, session>>

BeginAnalyze ==
  /\ pc = "loop" /\ tuner_active
  /\ tuner_pitch' = NoPitch
  /\ within' = 0
  /\ pc' = "check"
  /\ UNCHANGED <<tuner_active, detector, analyzer, session, captured>>

Enough ==
  /\ pc = "check"
  /\ pc' = IF write_idx < WindowSize THEN "show" ELSE "start"
  /\ UNCHANGED <<tuner_active, detector, analyzer, tuner_pitch, session, captured, within>>

ReadStart ==
  /\ pc = "start"
  /\ start' = (write_idx - WindowSize) % Wrap
  /\ i' = 0
  /\ within' = 0
  /\ pc' = "copy"
  /\ UNCHANGED <<tuner_active, detector, window, tuner_pitch, session, captured>>

CopySample ==
  /\ pc = "copy" /\ i < WindowSize
  /\ window' = [window EXCEPT ![i] = ring[(start + i) % RingSize]]
  /\ i' = i + 1
  /\ UNCHANGED <<tuner_active, detector, pc, start, tuner_pitch, session, captured, within>>

(* The rest of Analyze works on the window alone; a quiet or unpitched     *)
(* window gives no pitch.                                                  *)
Analyzed ==
  /\ pc = "copy" /\ i = WindowSize
  /\ tuner_pitch' \in {NoPitch, window[0].session}
  /\ pc' = "show"
  /\ UNCHANGED <<tuner_active, detector, analyzer, session, captured, within>>

PushTunerScreen ==
  /\ pc = "show"
  /\ within' = 0
  /\ pc' = "loop"
  /\ UNCHANGED <<tuner_active, detector, analyzer, tuner_pitch, session, captured>>

(* Leave: the flag first, then Reset.                                      *)
Leave ==
  /\ pc = "loop" /\ tuner_active
  /\ tuner_active' = FALSE
  /\ pc' = "leave"
  /\ UNCHANGED <<detector, analyzer, tuner_pitch, session, captured, within>>

ResetAfter ==
  /\ pc = "leave"
  /\ Reset
  /\ captured' = 0
  /\ pc' = "loop"
  /\ UNCHANGED <<tuner_active, analyzer, tuner_pitch, session, within>>

(* The main loop goes on by itself except for the chords of the player.    *)
MainLoop ==
  Activate \/ BeginAnalyze \/ Enough \/ ReadStart \/ CopySample \/ Analyzed
    \/ PushTunerScreen \/ ResetAfter

Next == AudioCallback \/ Enter \/ Leave \/ MainLoop

(* The codec keeps asking for blocks, and the main loop never ends.        *)
Fairness == WF_vars(AudioCallback) /\ WF_vars(MainLoop)

Spec == Init /\ [][Next]_vars /\ Fairness

-----------------------------------------------------------------------------
(* Properties.                                                             *)

(* What Analyze works on is one unbroken stretch of this session's audio,  *)
(* oldest first, though blocks overwrite the ring during the copy and      *)
(* write_idx_ wraps (src/TunerDetector.cpp:53-61).                         *)
WindowUnbroken ==
  pc = "copy" => \A k \in 0..(i - 1) :
    window[k] = [session |-> session, idx |-> (start + k) % Wrap]

(* A pitch on the tuner screen was played in this session, never before    *)
(* (src/main.cpp:531-541).                                                 *)
PitchOfThisSession == tuner_active => tuner_pitch \in {NoPitch, session}

(* A session, unless left, comes to a full window however the blocks fall. *)
WindowComes == (pc = "loop" /\ tuner_active) ~> (~tuner_active \/ pc = "copy")

(* Analyze gives up for want of samples only if there were too few. The    *)
(* code does otherwise: README.md, Disagreements.                          *)
EnoughIsEnough ==
  [][pc = "check" /\ pc' = "show" => captured < WindowSize]_vars

=============================================================================
