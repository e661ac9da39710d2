------------------------------ MODULE DirectFir ------------------------------
(***************************************************************************)
(* What a cabinet promises: every sample is the sum of the taps times the  *)
(* samples before it, one block late, from silence on                      *)
(* (src/tests/test_partitioned_convolver.cpp:7, the reference of the tests *)
(* written as a machine that takes a block at a time).                     *)
(***************************************************************************)
EXTENDS Integers, Sequences, Functions

CONSTANTS
  Block,    \* samples in a block
  Blocks,   \* blocks of the past that matter
  Ir,       \* impulse responses, as sequences
  Sample    \* values of a sample

VARIABLES
  taps,     \* the impulse response, empty until there is one
  past,     \* the blocks heard since the last Reset, latest first
  out       \* the latest block played

Frame == [0..(Block - 1) -> Int]
Silence == [i \in 0..(Block - 1) |-> 0]
NothingHeard == [b \in 1..Blocks |-> Silence]

Heard(x) == [b \in 1..Blocks |-> IF b = 1 THEN x ELSE past[b - 1]]

(* The sample age samples before the i-th of the block to come.            *)
Before(i, age) == past[((age - i - 1) \div Block) + 1][(i - age) % Block]

Convolved(i) ==
  SumFunction([k \in 1..Len(taps) |-> taps[k] * Before(i, k - 1 + Block)])

Init == taps = <<>> /\ past = NothingHeard /\ out = Silence

Load(ir) ==
  /\ taps' = ir /\ past' = NothingHeard
  /\ UNCHANGED out

Process(x) ==
  /\ taps # <<>>
  /\ out' = [i \in 0..(Block - 1) |-> Convolved(i)]
  /\ past' = Heard(x)
  /\ UNCHANGED taps

Reset == past' = NothingHeard /\ UNCHANGED <<taps, out>>

Next ==
  \/ \E ir \in Ir : Load(ir)
  \/ \E x \in [0..(Block - 1) -> Sample] : Process(x)
  \/ Reset

Spec == Init /\ [][Next]_<<taps, past, out>>
=============================================================================
