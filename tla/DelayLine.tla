------------------------------ MODULE DelayLine ------------------------------
(***************************************************************************)
(* The echo (DelayLine, src/PedalEffects.cpp:129-184): a ring in SDRAM     *)
(* that nothing clears at power-on, written at every sample and read       *)
(* delay_samples_ behind.  A cell is known by the age of the sample in it; *)
(* levels, tone and feedback, which do not move samples in time, are left  *)
(* out.  AudioEngine::SetDelay calls SetParams, then SetEnabled, while the *)
(* engine is muted, so one sample is a step and so is one call.            *)
(***************************************************************************)
EXTENDS Integers

CONSTANTS
  MaxSamples,  \* kMaxDelaySamples
  Time         \* delay times asked for, in samples

ASSUME DelayAssumption == MaxSamples \in Nat /\ MaxSamples > 1 /\ Time \subseteq Nat

VARIABLES
  buffer_,        \* ages of the samples in the ring
  ready,          \* buffer_ is not nullptr
  write_idx_, delay_samples_, enabled_,
  delayed,        \* what the latest sample was mixed with
  since           \* samples taken in since the echo was last cleared

echo == <<buffer_, ready, write_idx_, delay_samples_, enabled_, delayed, since>>

Silent == -1      \* a cell that was cleared
Unknown == -2     \* a cell as SDRAM powers up
Age == 1..MaxSamples \cup {Silent, Unknown}

EchoTypeOK ==
  /\ buffer_ \in [0..(MaxSamples - 1) -> Age]
  /\ ready \in BOOLEAN /\ enabled_ \in BOOLEAN
  /\ write_idx_ \in 0..(MaxSamples - 1)
  /\ delay_samples_ \in 1..(MaxSamples - 1)
  /\ delayed \in Age /\ since \in 0..MaxSamples

Clamped(t) == IF t < 1 THEN 1 ELSE IF t > MaxSamples - 1 THEN MaxSamples - 1 ELSE t

EchoInit ==
  /\ buffer_ = [i \in 0..(MaxSamples - 1) |-> Unknown]
  /\ ready = FALSE /\ enabled_ = FALSE
  /\ write_idx_ = 0
  /\ delay_samples_ \in {Clamped(t) : t \in Time}
  /\ delayed = Silent /\ since = 0

(* Slip: a reset moves the index and leaves the ring.                      *)
ResetIndexOnly == write_idx_' = 0 /\ UNCHANGED buffer_

ClearEcho ==
  /\ buffer_' = [i \in 0..(MaxSamples - 1) |-> Silent]
  /\ write_idx_' = 0

(* DelayLine::Init, once, before any block.                                *)
Start ==
  /\ ~ready /\ ready' = TRUE
  /\ ClearEcho /\ since' = 0
  /\ UNCHANGED <<delay_samples_, enabled_, delayed>>

SetParams(t) ==
  /\ delay_samples_' = Clamped(t)
  /\ UNCHANGED <<buffer_, ready, write_idx_, enabled_, delayed, since>>

SetEnabled(on) ==
  /\ enabled_' = on
  /\ IF enabled_ /\ ~on
       THEN ClearEcho /\ since' = 0
       ELSE UNCHANGED <<buffer_, write_idx_, since>>
  /\ UNCHANGED <<ready, delay_samples_, delayed>>

ReadIdx == IF write_idx_ >= delay_samples_ THEN write_idx_ - delay_samples_
           ELSE MaxSamples + write_idx_ - delay_samples_

Advanced == IF write_idx_ + 1 >= MaxSamples THEN 0 ELSE write_idx_ + 1

Older(a) == IF a \in 1..(MaxSamples - 1) THEN a + 1 ELSE a

(* One sample of Process.                                                  *)
Process ==
  /\ enabled_ /\ ready
  /\ delayed' = buffer_[ReadIdx]
  /\ buffer_' = [i \in 0..(MaxSamples - 1) |-> IF i = write_idx_ THEN 1 ELSE Older(buffer_[i])]
  /\ write_idx_' = Advanced
  /\ since' = IF since < MaxSamples THEN since + 1 ELSE since
  /\ UNCHANGED <<ready, delay_samples_, enabled_>>

EchoNext ==
  \/ Start \/ Process
  \/ \E t \in Time : ready /\ SetParams(t)
  \/ \E on \in BOOLEAN : ready /\ SetEnabled(on)

EchoSpec == EchoInit /\ [][EchoNext]_echo

-----------------------------------------------------------------------------
(* Property: an echo is exactly the delay time old, whatever the time was  *)
(* before, and there is none of what was played before the echo was        *)
(* switched off, or of what SDRAM held (src/PedalEffects.cpp:6-11, :139).  *)
EchoIsExact ==
  [][Process =>
       delayed' = IF since >= delay_samples_ THEN delay_samples_ ELSE Silent]_echo
=============================================================================
