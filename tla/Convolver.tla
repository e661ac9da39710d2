------------------------------ MODULE Convolver ------------------------------
(***************************************************************************)
(* PartitionedConvolver (src/PartitionedConvolver.cpp): the impulse        *)
(* response cut into partitions of one block, a ring of the latest input   *)
(* blocks, the tail that overlaps into the next block, and one block of    *)
(* delay.                                                                  *)
(*                                                                         *)
(* The two transforms are exact here and cancel: a spectrum is the frame   *)
(* it was made from, and a product of two the circular convolution of the  *)
(* frames.  Samples and taps are integers.                                 *)
(***************************************************************************)
EXTENDS Integers, Sequences, Functions

CONSTANTS
  Block,          \* kBlockSize
  FftSize,        \* kFftSize
  MaxTaps,        \* kMaxTaps
  MaxPartitions,  \* kMaxPartitions
  Ir,             \* impulse responses, as sequences
  Input           \* values of a sample

(* The transform holds a block and its tail, the ring the longest response. *)
ASSUME ConvolverAssumption ==
  /\ {Block, FftSize, MaxPartitions} \subseteq Nat \ {0} /\ MaxTaps \in Nat
  /\ FftSize >= 2 * Block - 1
  /\ MaxPartitions * Block >= MaxTaps
  /\ Ir \subseteq Seq(Int) /\ Input \subseteq Int

VARIABLES
  taps, past, out,   \* the promise: see DirectFir
  input_spectra, overlap, delayed_output, history_write

cabinet == <<taps, past, out, input_spectra, overlap, delayed_output, history_write>>

Overlap == Block - 1
Frame == 0..(FftSize - 1)

Direct == INSTANCE DirectFir WITH Blocks <- MaxPartitions + 1, Sample <- Input

CabinetTypeOK ==
  /\ taps \in {<<>>} \cup Ir /\ Len(taps) <= MaxTaps
  /\ past \in [1..(MaxPartitions + 1) -> Direct!Frame]
  /\ input_spectra \in [0..(MaxPartitions - 1) -> [Frame -> Int]]
  /\ overlap \in [0..(Overlap - 1) -> Int]
  /\ delayed_output \in Direct!Frame /\ out \in Direct!Frame
  /\ history_write \in 0..(MaxPartitions - 1)

NoSpectra == [h \in 0..(MaxPartitions - 1) |-> [j \in Frame |-> 0]]
NoOverlap == [j \in 0..(Overlap - 1) |-> 0]

CabinetInit ==
  /\ Direct!Init
  /\ input_spectra = NoSpectra /\ overlap = NoOverlap
  /\ delayed_output = Direct!Silence /\ history_write = 0

-----------------------------------------------------------------------------
ActivePartitions == (Len(taps) + Block - 1) \div Block

(* ir_spectra_[p]: one block of taps, and silence.                         *)
Partition(p) ==
  [j \in Frame |-> IF j < Block /\ p * Block + j < Len(taps)
                     THEN taps[p * Block + j + 1] ELSE 0]

Padded(x) == [j \in Frame |-> IF j < Block THEN x[j] ELSE 0]

(* Slip: the ring is read in the order it is written.                      *)
SpectrumForwards(history, p) == history[(history_write + p) % MaxPartitions]

(* The input of p blocks ago.                                              *)
Spectrum(history, p) ==
  history[(history_write + MaxPartitions - p) % MaxPartitions]

Circular(x, h, j) ==
  SumFunction([k \in Frame |-> x[k] * h[(j - k) % FftSize]])

(* The inverse transform of spectrum_sum_.                                 *)
Summed(history) ==
  [j \in Frame |->
    SumFunction([p \in 0..(ActivePartitions - 1) |->
                  Circular(Spectrum(history, p), Partition(p), j)])]

Cleared ==
  /\ input_spectra' = NoSpectra /\ overlap' = NoOverlap
  /\ delayed_output' = Direct!Silence /\ history_write' = 0

(* Init: refused when there are no taps or too many.                       *)
LoadIr(ir) ==
  /\ taps = <<>> /\ Len(ir) \in 1..MaxTaps
  /\ Cleared
  /\ Direct!Load(ir)

ResetCabinet == Cleared /\ Direct!Reset

NextSlot(w) == (w + 1) % MaxPartitions

ConvolveBlock(x) ==
  /\ taps # <<>>
  /\ LET history == [input_spectra EXCEPT ![history_write] = Padded(x)]
         ifft == Summed(history)
         wet == [i \in 0..(Block - 1) |->
                  ifft[i] + (IF i < Overlap THEN overlap[i] ELSE 0)]
     IN /\ input_spectra' = history
        /\ out' = delayed_output
        /\ delayed_output' = wet
        /\ overlap' = [j \in 0..(Overlap - 1) |-> ifft[Block + j]]
  /\ history_write' = NextSlot(history_write)
  /\ past' = Direct!Heard(x)
  /\ UNCHANGED taps

CabinetNext ==
  \/ \E ir \in Ir : LoadIr(ir)
  \/ \E x \in [0..(Block - 1) -> Input] : ConvolveBlock(x)
  \/ ResetCabinet

CabinetSpec == CabinetInit /\ [][CabinetNext]_cabinet

-----------------------------------------------------------------------------
(* Property: block by block and whenever it is reset, the convolver plays  *)
(* what direct convolution would, for every number of taps it accepts      *)
(* (src/PartitionedConvolver.cpp:58-95).                                   *)
PlaysDirectly == Direct!Spec
=============================================================================
