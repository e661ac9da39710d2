-------------------------------- MODULE Yin --------------------------------
(***************************************************************************)
(* TunerDetector::Analyze once it has its window                           *)
(* (src/TunerDetector.cpp:57-130): the lag at which the window resembles   *)
(* itself, by the YIN method.  Samples are integers, the normalised        *)
(* difference is rounded to parts of Unit, and a lag is a fraction         *)
(* <<n, d>> with d > 0.  The pitch is the lag: note and cents are          *)
(* logarithms of it.  How the window is captured is Tuner's.               *)
(***************************************************************************)
EXTENDS Integers, FiniteSetsExt, Functions

CONSTANTS
  Span,        \* kWindowSize
  MinTau,      \* kMinTau: the lag of kMaxFreqHz
  MaxTau,      \* kMaxTau: the lag of kMinFreqHz
  Sound,       \* windows that are heard
  Tone,        \* those of a single note
  Audible,     \* the sum of squares at which a signal is present
  Unit,        \* the precision of the normalised difference
  Threshold    \* kYinThreshold, in the same unit

ASSUME YinAssumption ==
  /\ {Span, MinTau, MaxTau, Audible, Unit} \subseteq Nat \ {0}
  /\ MinTau < MaxTau /\ 2 * MaxTau <= Span
  /\ Sound \subseteq [0..(Span - 1) -> Int] /\ Tone \subseteq Sound
  /\ Threshold \in 1..Unit

VARIABLES
  heard,  \* window_
  pitch   \* the lag found, NoLag, or Waiting before the analysis

analysis == <<heard, pitch>>

NoLag == <<0, 1>>
Waiting == <<-1, 1>>
Quiet == [j \in 0..(Span - 1) |-> 0]

Less(p, q) == p[1] * q[2] < q[1] * p[2]

-----------------------------------------------------------------------------
Square(n) == n * n

SignalPresent == SumFunction([j \in DOMAIN heard |-> Square(heard[j])]) >= Audible

(* The difference function, over as many terms for every lag.              *)
Terms == 0..(Span - MaxTau - 1)

Diff == [tau \in 1..MaxTau |->
  SumFunction([j \in Terms |-> Square(heard[j] - heard[j + tau])])]

RunningSum(diff) == [tau \in 1..MaxTau |-> SumFunctionOnSet(diff, 1..tau)]

Cmndf ==
  LET diff == Diff  sum == RunningSum(diff) IN
  [tau \in 1..MaxTau |->
     IF sum[tau] > 0 THEN (Unit * diff[tau] * tau) \div sum[tau] ELSE Unit]

(* The bottom of the first dip under the threshold.                        *)
Dips(cmndf) == {t \in MinTau..MaxTau : cmndf[t] < Threshold}

(* Slip: the first lag under the threshold is taken as it is.              *)
BottomUndescended(cmndf) == Min(Dips(cmndf))

Bottom(cmndf) ==
  Min({t \in Min(Dips(cmndf))..MaxTau : t = MaxTau \/ cmndf[t + 1] >= cmndf[t]})

(* The vertex of the parabola through the bottom and its neighbours.       *)
Refined(cmndf, tau) ==
  IF tau \in {MinTau, MaxTau} THEN <<tau, 1>>
  ELSE LET a == cmndf[tau - 1]  b == cmndf[tau]  c == cmndf[tau + 1]
           denom == 2 * (2 * b - a - c)
           sign == IF denom < 0 THEN -1 ELSE 1
       IN IF denom = 0 THEN <<tau, 1>>
                       ELSE <<sign * (tau * denom + c - a), sign * denom>>

InRange(lag) == ~Less(lag, <<MinTau, 1>>) /\ ~Less(<<MaxTau, 1>>, lag)

Found(cmndf) ==
  IF ~SignalPresent \/ Dips(cmndf) = {} THEN NoLag
  ELSE LET lag == Refined(cmndf, Bottom(cmndf)) IN IF InRange(lag) THEN lag ELSE NoLag

-----------------------------------------------------------------------------
YinInit == heard = Quiet /\ pitch = Waiting

(* The window of an analysis shares nothing with the one before.           *)
Capture ==
  /\ pitch = Waiting /\ heard = Quiet
  /\ heard' \in Sound
  /\ UNCHANGED pitch

Analyze ==
  /\ pitch = Waiting
  /\ pitch' = Found(Cmndf)
  /\ UNCHANGED heard

Again == pitch # Waiting /\ heard' = Quiet /\ pitch' = Waiting

YinNext == Capture \/ Analyze \/ Again

YinSpec == YinInit /\ [][YinNext]_analysis

-----------------------------------------------------------------------------
(* Properties.                                                             *)
Near(lag, t) == ~Less(lag, <<2 * t - 1, 2>>) /\ ~Less(<<2 * t + 1, 2>>, lag)

Period(p) == \A j \in 0..(Span - 1 - p) : heard[j] = heard[j + p]

(* A note that repeats itself within the range of the tuner is given a     *)
(* pitch; no sound is given one below its own by more than the half sample *)
(* of the interpolation (a dip at a multiple of the period is as deep);    *)
(* and whatever the sound, a pitch lies within half a sample of a lag that *)
(* is under the threshold and no worse than its neighbours: the            *)
(* interpolation does not run away from a flat or lopsided dip             *)
(* (src/TunerDetector.cpp:95-124).                                         *)
PitchIsTrue ==
  pitch # Waiting =>
    /\ \A p \in MinTau..MaxTau :
         Period(p) /\ ~Period(1) /\ SignalPresent =>
           /\ heard \in Tone => pitch # NoLag
           /\ ~Less(<<2 * p + 1, 2>>, pitch)
    /\ pitch # NoLag =>
         LET cmndf == Cmndf IN
         \E t \in Dips(cmndf) :
           /\ Near(pitch, t)
           /\ \A n \in {t - 1, t + 1} \cap (MinTau..MaxTau) : cmndf[n] >= cmndf[t]

(* docs/superpowers/specs/2026-06-24-tuner-mode-design.md:216, "returns no *)
(* stable pitch for two mixed notes in phase one".  The code does          *)
(* otherwise for notes in a simple ratio, which repeat together.           *)
MixedIsNoPitch == heard \in Sound \ Tone => pitch \in {NoLag, Waiting}
=============================================================================
