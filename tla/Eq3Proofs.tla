----------------------------- MODULE Eq3Proofs -----------------------------
(***************************************************************************)
(* Proofs about Eq3, for any set of bands and curves and any width of the  *)
(* generation counter.                                                     *)
(***************************************************************************)
EXTENDS Eq3, TLAPS

(* The buffer the interrupt reads is whole; the other one is whole where   *)
(* Publish has been; and the two calls' worth of settings differ in the    *)
(* one band being set.                                                     *)
BufferInv ==
  /\ active[idx] \in [Band -> Curve]
  /\ at # "copy" => active[idx] = staged
  /\ at = "copy" => \A b \in Band \ todo : active[Other][b] = staged[b]
  /\ at = "copy" => \E c \in Band : \A b \in Band \ {c} :
                                      staged[b] = active[idx][b]

FlagInv ==
  /\ at # "state" => (enabled <=> ~Flat(active[idx]))
  /\ at = "state" /\ ~enabled =>
       \E c \in Band : \A b \in Band \ {c} : staged[b] \in FlatCurve

(* The generations the interrupt has not seen are counted by flips, and    *)
(* are too few for the counter to come round.                              *)
HistoryInv ==
  /\ generation = IF applied + flips < GenMod THEN applied + flips
                  ELSE applied + flips - GenMod
  /\ history # "played"
  /\ history = "running" => enabled
  /\ history = "stale" => flips > 0

Inv == EqTypeOK /\ BufferInv /\ FlagInv /\ HistoryInv

LEMMA Wrap ==
  ASSUME NEW n \in Nat, NEW x \in 0..(n - 1)
  PROVE  (x + 1) % n = IF x + 1 = n THEN 0 ELSE x + 1
<1>1. CASE x + 1 = n
  BY <1>1
<1>2. CASE x + 1 < n
  BY <1>2
<1> QED
  BY <1>1, <1>2

LEMMA InitInv == EqInit => Inv
<1> SUFFICES ASSUME EqInit PROVE Inv
  OBVIOUS
<1> USE Eq3Assumption
<1>1. EqTypeOK
  <2>1. [b \in Band |-> Default] \in [Band -> Curve \cup {Torn}]
    OBVIOUS
  <2>2. active \in [{0, 1} -> [Band -> Curve \cup {Torn}]]
    BY <2>1 DEF EqInit
  <2>3. 0 \in 0..(GenMod - 1) /\ 0 \in 0..MaxFlips
    OBVIOUS
  <2> QED
    BY <2>2, <2>3 DEF EqInit, EqTypeOK
<1>2. BufferInv /\ FlagInv
  BY DEF EqInit, BufferInv, FlagInv, Flat
<1>3. HistoryInv
  BY DEF EqInit, HistoryInv
<1> QED
  BY <1>1, <1>2, <1>3 DEF Inv

LEMMA NextInv == Inv /\ [EqNext]_equaliser => Inv'
<1> SUFFICES ASSUME Inv, [EqNext]_equaliser PROVE Inv'
  OBVIOUS
<1> USE Eq3Assumption DEF Inv, EqTypeOK, Other, isrVars, mainVars
<1>1. ASSUME NEW b \in Band, Stage(b) PROVE Inv'
  <2>1. EqTypeOK' /\ HistoryInv'
    BY <1>1 DEF Stage, HistoryInv
  <2>2. BufferInv'
    BY <1>1 DEF Stage, BufferInv
  <2>3. FlagInv'
    BY <1>1 DEF Stage, FlagInv, BufferInv, Flat
  <2> QED
    BY <2>1, <2>2, <2>3
<1>2. ASSUME NEW b \in Band, BeginCopy(b) PROVE Inv'
  <2>1. active'[idx] = active[idx] /\ \A c \in Band \ {b} :
          active'[1 - idx][c] = active[1 - idx][c]
    BY <1>2 DEF BeginCopy
  <2>2. EqTypeOK' /\ HistoryInv'
    BY <1>2 DEF BeginCopy, HistoryInv
  <2>3. BufferInv'
    BY <1>2, <2>1 DEF BeginCopy, BufferInv
  <2>4. FlagInv'
    BY <1>2, <2>1 DEF BeginCopy, FlagInv, Flat
  <2> QED
    BY <2>2, <2>3, <2>4
<1>3. ASSUME NEW b \in Band, EndCopy(b) PROVE Inv'
  <2>1. /\ active'[idx] = active[idx]
        /\ active'[1 - idx][b] = staged[b]
        /\ \A c \in Band \ {b} : active'[1 - idx][c] = active[1 - idx][c]
    BY <1>3 DEF EndCopy
  <2>2. EqTypeOK' /\ HistoryInv'
    BY <1>3 DEF EndCopy, HistoryInv
  <2>3. BufferInv'
    BY <1>3, <2>1 DEF EndCopy, BufferInv
  <2>4. FlagInv'
    BY <1>3, <2>1 DEF EndCopy, FlagInv, Flat
  <2> QED
    BY <2>2, <2>3, <2>4
<1>4. CASE Flip
  <2>1. active[1 - idx] = staged
    BY <1>4 DEF Flip, BufferInv
  <2>2. EqTypeOK' /\ HistoryInv'
    BY <1>4 DEF Flip, HistoryInv
  <2>3. BufferInv'
    BY <1>4, <2>1 DEF Flip, BufferInv
  <2>4. FlagInv'
    BY <1>4 DEF Flip, FlagInv, BufferInv, Flat
  <2> QED
    BY <2>2, <2>3, <2>4
<1>5. CASE StoreState
  <2>1. BufferInv'
    BY <1>5 DEF StoreState, BufferInv
  <2>2. FlagInv'
    BY <1>5 DEF StoreState, FlagInv, BufferInv, Flat
  <2>3. EqTypeOK' /\ HistoryInv'
    <3>1. /\ Flat(staged) /\ history = "running" => GoesFlat
          /\ history' = Aged /\ enabled' = ~Flat(staged)
          /\ UNCHANGED <<applied, filtered>>
      BY <1>5 DEF StoreState, GoesFlat, HistoryInv
    <3>2. /\ history' \in {"clean", "running", "stale"}
          /\ history' = "running" => enabled'
          /\ history' = "stale" => flips > 0 \/ GoesFlat
      BY <3>1 DEF Aged, HistoryInv
    <3>3. CASE GoesFlat
      <4>1. /\ generation' = IF generation + 1 = GenMod THEN 0
                             ELSE generation + 1
            /\ flips' = flips + 1 /\ flips < MaxFlips
        BY <1>5, <3>3, Wrap DEF StoreState
      <4>2. HistoryInv'
        BY <3>1, <3>2, <4>1 DEF HistoryInv
      <4>3. generation' \in 0..(GenMod - 1) /\ flips' \in 0..MaxFlips
        BY <4>1
      <4> QED
        BY <1>5, <3>1, <3>2, <4>2, <4>3 DEF StoreState
    <3>4. CASE ~GoesFlat
      <4>1. UNCHANGED <<generation, flips>>
        BY <1>5, <3>4 DEF StoreState
      <4>2. HistoryInv'
        BY <3>1, <3>2, <3>4, <4>1 DEF HistoryInv
      <4> QED
        BY <1>5, <3>1, <3>2, <4>1, <4>2 DEF StoreState
    <3> QED
      BY <3>3, <3>4
  <2> QED
    BY <2>1, <2>2, <2>3
<1>6. CASE ProcessEq
  <2>1. UNCHANGED mainVars /\ flips' = 0 /\ applied' = generation
    BY <1>6 DEF ProcessEq
  <2>2. BufferInv' /\ FlagInv'
    BY <2>1 DEF BufferInv, FlagInv, Flat
  <2>3. /\ history' \in {"clean", "running"}
        /\ history' = "running" => enabled
    BY <1>6 DEF ProcessEq, HistoryInv
  <2>4. EqTypeOK' /\ HistoryInv'
    BY <2>1, <2>3 DEF HistoryInv
  <2> QED
    BY <2>2, <2>4
<1>7. CASE UNCHANGED equaliser
  BY <1>7 DEF equaliser, BufferInv, FlagInv, HistoryInv, Flat
<1> QED
  BY <1>1, <1>2, <1>3, <1>4, <1>5, <1>6, <1>7 DEF EqNext

LEMMA Invariant == EqSpec => []Inv
  BY InitInv, NextInv, PTL DEF EqSpec

(* The interrupt always finds a whole buffer.                              *)
THEOREM WholeCurves == EqSpec => []NoTornCurve
<1>1. Inv => NoTornCurve
  BY Eq3Assumption DEF Inv, BufferInv, NoTornCurve
<1> QED
  BY <1>1, Invariant, PTL

(* History from before the gains were flat is never filtered with.         *)
THEOREM HistoryFresh == EqSpec => []NoStaleHistory
<1>1. Inv => NoStaleHistory
  BY DEF Inv, HistoryInv, NoStaleHistory
<1> QED
  BY <1>1, Invariant, PTL

-----------------------------------------------------------------------------
(* SetBand implements AtomicEq: its one visible step is Flip while the     *)
(* filter runs, StoreState while it does not.                              *)

AllSilent == [b \in Band |-> NoGain]
Sounding  == IF enabled THEN Gains(active[idx]) ELSE AllSilent

LEMMA FlatIsSilent ==
  ASSUME NEW s, Flat(s) PROVE Gains(s) = AllSilent
  BY DEF Flat, Gains, AllSilent

LEMMA OneBand ==
  ASSUME NEW s \in [Band -> Curve], NEW t \in [Band -> Curve], NEW c \in Band,
         \A b \in Band \ {c} : Gains(s)[b] = Gains(t)[b]
  PROVE  \E v \in Sounds \cup {NoGain} :
           Gains(t) = [Gains(s) EXCEPT ![c] = v]
<1> DEFINE v == Gains(t)[c]
<1>1. v \in Sounds \cup {NoGain}
  BY DEF Gains, Sounds
<1>2. Gains(t) = [Gains(s) EXCEPT ![c] = v]
  BY DEF Gains
<1> QED
  BY <1>1, <1>2

LEMMA NextImplements == Inv /\ [EqNext]_equaliser => [Heard!Next]_Heard!vars
<1> SUFFICES ASSUME Inv, [EqNext]_equaliser PROVE [Heard!Next]_Heard!vars
  OBVIOUS
<1>0. ASSUME UNCHANGED <<Sounding, filtered>> PROVE UNCHANGED Heard!vars
  BY <1>0 DEF Sounding, AllSilent, Heard!vars
<1>1. ASSUME NEW c \in Band, UNCHANGED filtered,
             \E v \in Sounds \cup {NoGain} :
               Sounding' = [Sounding EXCEPT ![c] = v]
      PROVE  Heard!SetBand(c)
  BY <1>1 DEF Sounding, AllSilent, Heard!SetBand
<1> USE DEF Inv, EqTypeOK, Other, isrVars, mainVars
<1>2. ASSUME NEW b \in Band, Stage(b) \/ BeginCopy(b) \/ EndCopy(b)
      PROVE  UNCHANGED Heard!vars
  <2>1. active'[idx] = active[idx] /\ UNCHANGED <<idx, enabled, filtered>>
    BY <1>2 DEF Stage, BeginCopy, EndCopy
  <2> QED
    BY <1>0, <2>1 DEF Sounding, AllSilent, Gains
<1>3. CASE Flip
  <2>1. active[1 - idx] = staged /\ idx' = 1 - idx
        /\ UNCHANGED <<active, enabled, filtered>>
    BY <1>3 DEF Flip, BufferInv
  <2>2. CASE enabled
    <3>1. PICK c \in Band : \A b \in Band \ {c} : staged[b] = active[idx][b]
      BY <1>3 DEF Flip, BufferInv
    <3>2. \A b \in Band \ {c} : Gains(active[idx])[b] = Gains(staged)[b]
      BY <3>1 DEF Gains
    <3>3. \E v \in Sounds \cup {NoGain} :
            Gains(staged) = [Gains(active[idx]) EXCEPT ![c] = v]
      BY <3>2, OneBand DEF BufferInv
    <3>4. Sounding = Gains(active[idx]) /\ Sounding' = Gains(staged)
      BY <2>1, <2>2 DEF Sounding, Gains
    <3>5. Heard!SetBand(c)
      BY <1>1, <2>1, <3>3, <3>4
    <3> QED
      BY <3>5 DEF Heard!Next
  <2>3. CASE ~enabled
    BY <1>0, <2>1, <2>3 DEF Sounding, AllSilent
  <2> QED
    BY <2>2, <2>3
<1>4. CASE StoreState
  <2>1. /\ active[idx] = staged /\ enabled' = ~Flat(staged)
        /\ UNCHANGED <<active, idx, filtered>>
    BY <1>4 DEF StoreState, BufferInv
  <2>2. CASE enabled /\ enabled'
    BY <1>0, <2>1, <2>2 DEF Sounding, Gains
  <2>3. CASE ~enabled'
    BY <1>0, <2>1, <2>3, FlatIsSilent DEF Sounding, AllSilent
  <2>4. CASE ~enabled /\ enabled'
    <3>1. PICK c \in Band : \A b \in Band \ {c} : staged[b] \in FlatCurve
      BY <1>4, <2>4 DEF StoreState, FlagInv
    <3> DEFINE old == [b \in Band |-> Default]
    <3>2. old \in [Band -> Curve] /\ Gains(old) = AllSilent
      BY Eq3Assumption DEF Gains, AllSilent, NoGain
    <3>3. \A b \in Band \ {c} : Gains(old)[b] = Gains(staged)[b]
      BY <3>1, Eq3Assumption DEF Gains, NoGain
    <3>4. \E v \in Sounds \cup {NoGain} :
            Gains(staged) = [AllSilent EXCEPT ![c] = v]
      BY <3>2, <3>3, OneBand
    <3>5. Sounding = AllSilent /\ Sounding' = Gains(staged)
      BY <2>1, <2>4 DEF Sounding, Gains
    <3>6. Heard!SetBand(c)
      BY <1>1, <2>1, <3>4, <3>5
    <3> QED
      BY <3>6 DEF Heard!Next
  <2> QED
    BY <2>2, <2>3, <2>4
<1>5. CASE ProcessEq
  <2>1. filtered' = Sounding /\ UNCHANGED Sounding
    BY <1>5 DEF ProcessEq, Sounding, AllSilent, Gains
  <2> QED
    BY <2>1 DEF Heard!Next, Heard!Filter, Sounding, AllSilent
<1>6. CASE UNCHANGED equaliser
  BY <1>0, <1>6 DEF equaliser, Sounding, AllSilent, Gains
<1> QED
  BY <1>2, <1>3, <1>4, <1>5, <1>6 DEF EqNext

(* Setting a band is atomic for the listener.                              *)
THEOREM EqImplements == EqSpec => SetBandIsAtomic
<1>1. EqInit => Heard!Init
  BY DEF EqInit, Heard!Init
<1> QED
  BY <1>1, NextImplements, Invariant, PTL
     DEF EqSpec, SetBandIsAtomic, Heard!Spec
=============================================================================
