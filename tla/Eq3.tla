-------------------------------- MODULE Eq3 --------------------------------
(***************************************************************************)
(* The three-band equaliser (src/Eq3.cpp, src/Eq3.h).  The main loop       *)
(* stages the coefficients of a band, copies all bands into the buffer the *)
(* audio interrupt does not read, flips idx_, and last stores              *)
(* process_state_ (bit 0 and a generation).  The interrupt can fire        *)
(* between any two of these stores, in the middle of copying a band too.   *)
(*                                                                         *)
(* A curve stands for the five coefficients that MakeLowShelf, MakePeaking *)
(* and MakeHighShelf compute from a gain and a frequency.                  *)
(***************************************************************************)
EXTENDS Integers

CONSTANTS
  Band,      \* Bass, Mid, Treble
  Curve,     \* what a band can be set to: a gain and a frequency
  FlatCurve, \* those with a gain of 0 dB
  Default,   \* the flat curve every band has after Reset
  Torn,      \* a copy that has begun and not ended
  GenMod,    \* generations before process_state_ wraps: 2^31 in the code
  MaxFlips   \* flat transitions between two blocks that reach the filter

ASSUME Eq3Assumption ==
  /\ FlatCurve \subseteq Curve
  /\ Default \in FlatCurve
  /\ Torn \notin Curve
  /\ GenMod \in Nat /\ MaxFlips \in Nat
  /\ MaxFlips < GenMod   \* no hand turns a knob 2^31 times, muted or not

VARIABLES
  staged,      \* staged_, which also stands for gain_db_ and freq_
  active,      \* active_, the double buffer
  idx,         \* idx_
  enabled,     \* bit 0 of process_state_
  generation,  \* its upper bits
  applied,     \* applied_generation_, the interrupt's
  history,     \* state_, the interrupt's: "clean" or "running"; "stale" when
               \* the gains have been flat since it was written; "played"
               \* when stale history has got into a block
  at, todo,    \* where SetBand is; the bands Publish has still to copy
  filtered,    \* what the latest block was filtered with
  flips        \* flat transitions since the latest block (bound only)

mainVars  == <<staged, active, idx, enabled, generation, at, todo>>
isrVars   == <<applied, filtered, history, flips>>
equaliser == <<mainVars, isrVars>>

Flat(setting) == \A b \in Band : setting[b] \in FlatCurve

(* A band with a gain of 0 dB does not sound, whatever its frequency.      *)
NoGain == Default
Sounds == Curve \ FlatCurve
Gains(setting) ==
  [b \in Band |-> IF setting[b] \in FlatCurve THEN NoGain ELSE setting[b]]

EqTypeOK ==
  /\ staged \in [Band -> Curve]
  /\ active \in [{0, 1} -> [Band -> Curve \cup {Torn}]]
  /\ idx \in {0, 1}
  /\ enabled \in BOOLEAN
  /\ generation \in 0..(GenMod - 1) /\ applied \in 0..(GenMod - 1)
  /\ history \in {"clean", "running", "stale", "played"}
  /\ at \in {"idle", "copy", "state"}
  /\ todo \in SUBSET Band
  /\ flips \in 0..MaxFlips

(* Reset, before the audio starts.                                         *)
EqInit ==
  /\ staged = [b \in Band |-> Default]
  /\ active = [i \in {0, 1} |-> [b \in Band |-> Default]]
  /\ idx = 0
  /\ enabled = FALSE /\ generation = 0 /\ applied = 0
  /\ history = "clean"
  /\ at = "idle" /\ todo = {}
  /\ filtered = [b \in Band |-> NoGain]
  /\ flips = 0

-----------------------------------------------------------------------------
(* SetBand, the main loop's.                                               *)

Stage(b) ==
  /\ at = "idle" /\ at' = "copy"
  /\ \E c \in Curve : staged' = [staged EXCEPT ![b] = c]
  /\ todo' = Band
  /\ UNCHANGED <<active, idx, enabled, generation, isrVars>>

Other == 1 - idx

(* Slip: the copy goes to the buffer the interrupt reads.                  *)
BeginCopyInPlace(b) ==
  /\ at = "copy" /\ b \in todo
  /\ active' = [active EXCEPT ![idx][b] = Torn]
  /\ UNCHANGED <<staged, idx, enabled, generation, at, todo, isrVars>>

BeginCopy(b) ==
  /\ at = "copy" /\ b \in todo
  /\ active' = [active EXCEPT ![Other][b] = Torn]
  /\ UNCHANGED <<staged, idx, enabled, generation, at, todo, isrVars>>

EndCopy(b) ==
  /\ at = "copy" /\ b \in todo /\ active[Other][b] = Torn
  /\ active' = [active EXCEPT ![Other][b] = staged[b]]
  /\ todo' = todo \ {b}
  /\ UNCHANGED <<staged, idx, enabled, generation, at, isrVars>>

(* Slip: the buffers are swapped before every band is copied.              *)
FlipEarly ==
  /\ at = "copy" /\ at' = "state"
  /\ idx' = Other
  /\ todo' = {}
  /\ UNCHANGED <<staged, active, enabled, generation, isrVars>>

Flip ==
  /\ at = "copy" /\ todo = {} /\ at' = "state"
  /\ idx' = Other
  /\ UNCHANGED <<staged, active, enabled, generation, todo, isrVars>>

GoesFlat == Flat(staged) /\ enabled

(* What the history is worth once every gain is 0: the sound it belongs to *)
(* is over.                                                                *)
Aged == IF Flat(staged) /\ history = "running" THEN "stale" ELSE history

(* Slip: the generation does not advance.                                  *)
StoreStateSameGeneration ==
  /\ at = "state" /\ at' = "idle"
  /\ enabled' = ~Flat(staged)
  /\ flips' = IF GoesFlat THEN flips + 1 ELSE flips
  /\ GoesFlat => flips < MaxFlips
  /\ history' = Aged
  /\ UNCHANGED <<staged, active, idx, generation, todo, applied, filtered>>

StoreState ==
  /\ at = "state" /\ at' = "idle"
  /\ enabled' = ~Flat(staged)
  /\ IF GoesFlat
       THEN /\ flips < MaxFlips
            /\ flips' = flips + 1
            /\ generation' = (generation + 1) % GenMod
       ELSE UNCHANGED <<generation, flips>>
  /\ history' = Aged
  /\ UNCHANGED <<staged, active, idx, todo, applied, filtered>>

-----------------------------------------------------------------------------
(* The interrupt's, once for each block that reaches it: the engine        *)
(* returns before it while muted or bypassed, for as many blocks as it     *)
(* likes, and nothing here changes meanwhile.                              *)

ProcessEq ==
  LET cleared == IF generation # applied THEN "clean" ELSE history
  IN /\ applied' = generation
     /\ history' = CASE ~enabled -> cleared
                     [] enabled /\ cleared \in {"stale", "played"} -> "played"
                     [] OTHER -> "running"
     /\ filtered' = IF enabled THEN Gains(active[idx])
                    ELSE [b \in Band |-> NoGain]
     /\ flips' = 0
     /\ UNCHANGED mainVars

EqNext ==
  \/ \E b \in Band : Stage(b) \/ BeginCopy(b) \/ EndCopy(b)
  \/ Flip
  \/ StoreState
  \/ ProcessEq

EqSpec == EqInit /\ [][EqNext]_equaliser

-----------------------------------------------------------------------------
(* Properties.                                                             *)

(* The interrupt never sees a band half copied, or bands of different      *)
(* calls together: whatever the moment, the buffer it would read is        *)
(* complete, and between two calls it is what was set (Eq3.cpp:42-49).     *)
NoTornCurve ==
  /\ \A b \in Band : active[idx][b] # Torn
  /\ at # "copy" => active[idx] = staged

(* Once every gain has been 0, no block is ever filtered with the history  *)
(* from before: not when the gains come back with no block between, and    *)
(* not after any stretch of muted or bypassed blocks (Eq3.h:34-36).        *)
NoStaleHistory == history # "played"

(* A call of SetBand takes effect at one moment, although it stores the    *)
(* coefficients and the enable bit separately: see AtomicEq.               *)
Heard == INSTANCE AtomicEq WITH
  Silent <- NoGain, heard <- filtered,
  curve <- IF enabled THEN Gains(active[idx]) ELSE [b \in Band |-> NoGain]

SetBandIsAtomic == Heard!Spec
=============================================================================
