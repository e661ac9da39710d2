------------------------------- MODULE MCYin -------------------------------
(***************************************************************************)
(* Windows of 32 and lags of 2 to 15.  Single notes: triangles of periods  *)
(* from one and two thirds to 20 samples, steady and dying away, and every *)
(* pattern of three values repeated every seven samples or less.  Mixed    *)
(* ones: two steady triangles.                                             *)
(***************************************************************************)
EXTENDS Yin

(* A triangle with a period of q/3 samples.                                *)
Triangle(q, t) ==
  LET x == 2 * ((3 * t) % q) - q IN (20 * (IF x < 0 THEN -x ELSE x)) \div q - 10

Sampled == 0..31
Tones     == {[j \in Sampled |-> Triangle(q, j + t)] : q \in 5..60, t \in {0, 1, 3}}
Dying     == {[j \in Sampled |-> (Triangle(q, j) * (64 - j)) \div 64] : q \in 5..60}
Patterns  == UNION {{[j \in Sampled |-> base[j % p]] : base \in [0..(p - 1) -> {-1, 0, 1}]} : p \in 1..7}
Intervals == {[j \in Sampled |-> Triangle(q, j) + Triangle(r, j)] : q \in 6..60, r \in {8, 13, 24, 36}}

MCTone == Tones \cup Dying \cup Patterns
MCSound == MCTone \cup Intervals
=============================================================================
