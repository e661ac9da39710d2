----------------------------- MODULE RingProofs -----------------------------
(***************************************************************************)
(* The rings that the audio interrupt writes and something reads behind    *)
(* it: the tuner's (Tuner), copied by the main loop without a lock while   *)
(* blocks keep coming; the echo's (DelayLine); and the cabinet's spectra   *)
(* (Convolver), from which the blocks of the past are folded with the      *)
(* impulse response.  Each holds what it should for every size of it, and  *)
(* the pitch that Analyze finds in its copy (Yin) is true.                 *)
(*                                                                         *)
(* First remainders, which the provers know little of.  Sums, which they   *)
(* know nothing of, come before the pitch and the cabinet.                 *)
(***************************************************************************)
EXTENDS Tuner, Yin, DelayLine, Convolver,
  FiniteSetTheorems, FunctionTheorems, WellFoundedInduction, TLAPS

(* Whole division rounds down.                                            *)
LEMMA Remainder ==
  ASSUME NEW a \in Int, NEW d \in Nat \ {0}
  PROVE  /\ a % d \in 0..(d - 1) /\ a \div d \in Int
         /\ a = (a \div d) * d + (a % d)
  OBVIOUS

(* Multiples of d that are less than d apart are the same.                 *)
LEMMA SameMultiple ==
  ASSUME NEW p \in Int, NEW q \in Int, NEW d \in Nat \ {0},
         p * d - q * d < d, q * d - p * d < d
  PROVE  p = q
<1>1. ASSUME NEW x \in Int, NEW y \in Int, x < y PROVE y * d - x * d >= d
  <2>1. PICK k \in Nat : y = x + 1 + k
    <3>1. y - x - 1 \in Nat /\ y = x + 1 + (y - x - 1)
      BY <1>1
    <3> QED BY <3>1
  <2>2. y * d = x * d + d + k * d /\ k * d \in Nat /\ x * d \in Int
    BY <2>1
  <2> QED BY <2>2
<1>2. ~(p < q) /\ ~(q < p)
  <2>1. p * d \in Int /\ q * d \in Int
    OBVIOUS
  <2> QED BY <1>1, <2>1
<1> QED BY <1>2

(* a and b are some multiple of d apart; then they leave the same          *)
(* remainder, and numbers less than d apart do not.                        *)
TurnsApart(a, b, d) == \E q \in Int : a = b + q * d

LEMMA SameRemainder ==
  ASSUME NEW a \in Int, NEW b \in Int, NEW d \in Nat \ {0}, TurnsApart(a, b, d)
  PROVE  a % d = b % d
<1>0. PICK q \in Int : a = b + q * d
  BY DEF TurnsApart
<1> DEFINE p == a \div d  r == b \div d
           x == a % d     y == b % d
<1>1. p \in Int /\ x \in 0..(d - 1) /\ a = p * d + x
  BY Remainder
<1>2. r \in Int /\ y \in 0..(d - 1) /\ b = r * d + y
  BY Remainder
<1> HIDE DEF p, r, x, y
<1>3. p * d \in Int /\ r * d \in Int /\ q * d \in Int /\ (r + q) * d = r * d + q * d /\ r + q \in Int
  BY <1>1, <1>2
<1>4. p = r + q
  <2>0. a = b + q * d
    BY <1>0
  <2>1. p * d - (r + q) * d < d /\ (r + q) * d - p * d < d
    BY <1>1, <1>2, <1>3, <2>0
  <2> QED BY <1>1, <1>3, <2>1, SameMultiple
<1>5. x = y
  BY <1>0, <1>1, <1>2, <1>3, <1>4
<1> QED BY <1>5 DEF x, y

(* What is less than d is its own remainder.                               *)
LEMMA SmallRemainder ==
  ASSUME NEW d \in Nat \ {0}, NEW a \in Nat, a < d
  PROVE  a % d = a
<1> DEFINE q == a \div d
           r == a % d
<1>1. q \in Int /\ r \in 0..(d - 1) /\ a = q * d + r
  BY Remainder
<1> HIDE DEF q, r
<1>2. 0 * d = 0 /\ q * d \in Int
  BY <1>1
<1>3. q = 0
  BY <1>1, <1>2, SameMultiple
<1> QED BY <1>1, <1>2, <1>3 DEF r

(* Slots less than a ring apart are different slots.                       *)
LEMMA OtherRemainder ==
  ASSUME NEW a \in Int, NEW b \in Int, NEW d \in Nat \ {0}, a < b, b - a < d
  PROVE  a % d # b % d
<1> DEFINE p == a \div d  r == b \div d
           x == a % d     y == b % d
<1>1. p \in Int /\ x \in 0..(d - 1) /\ a = p * d + x
  BY Remainder
<1>2. r \in Int /\ y \in 0..(d - 1) /\ b = r * d + y
  BY Remainder
<1> HIDE DEF p, r, x, y
<1> SUFFICES ASSUME x = y PROVE FALSE
  BY DEF x, y
<1>3. p * d \in Int /\ r * d \in Int
  BY <1>1, <1>2
<1>4. p = r
  BY <1>1, <1>2, <1>3, SameMultiple
<1> QED BY <1>1, <1>2, <1>4

(* The one way to write a number as so many times d and a rest.            *)
LEMMA QuotientIs ==
  ASSUME NEW a \in Int, NEW d \in Nat \ {0}, NEW k \in Int, NEW r \in 0..(d - 1), a = k * d + r
  PROVE  a \div d = k /\ a % d = r
<1> DEFINE q == a \div d
           s == a % d
<1>1. q \in Int /\ s \in 0..(d - 1) /\ a = q * d + s
  BY Remainder
<1> HIDE DEF q, s
<1>2. q * d \in Int /\ k * d \in Int
  BY <1>1
<1>3. q = k
  BY <1>1, <1>2, SameMultiple
<1> QED BY <1>1, <1>2, <1>3 DEF q, s

(* Since the ring divides the range of write_idx_, it is the same to wrap  *)
(* before or after adding, for the index and for the slot.                 *)
LEMMA WrapFirst ==
  ASSUME NEW m \in Int, NEW k \in Int
  PROVE  /\ ((m % Wrap) + k) % Wrap = (m + k) % Wrap
         /\ ((m % Wrap) + k) % RingSize = (m + k) % RingSize
         /\ (m % Wrap) % RingSize = m % RingSize
<1> DEFINE q == m \div Wrap
           turns == Wrap \div RingSize
<1>1. /\ Wrap \in Nat \ {0} /\ RingSize \in Nat \ {0} /\ Wrap % RingSize = 0
  BY TunerAssumption
<1>2. q \in Int /\ m = q * Wrap + (m % Wrap) /\ m % Wrap \in Int
  BY <1>1, Remainder
<1>3. turns \in Int /\ Wrap = turns * RingSize
  BY <1>1, Remainder
<1> HIDE DEF q, turns
<1> DEFINE w == m % Wrap
<1>4. w \in Int /\ m = w + q * Wrap /\ m + k = (w + k) + q * Wrap
  BY <1>1, <1>2
<1>5. q * Wrap = (q * turns) * RingSize /\ q * turns \in Int
  BY <1>1, <1>2, <1>3
<1> HIDE DEF w
<1>6. m + k \in Int /\ w + k \in Int
  BY <1>4
<1>7. TurnsApart(m + k, w + k, Wrap)
  BY <1>2, <1>4, Zenon DEF TurnsApart
<1>8. TurnsApart(m + k, w + k, RingSize) /\ TurnsApart(m, w, RingSize)
  BY <1>4, <1>5, Zenon DEF TurnsApart
<1> DEFINE a == m + k
           b == w + k
<1> HIDE DEF a, b
<1>9. a % Wrap = b % Wrap /\ a % RingSize = b % RingSize /\ m % RingSize = w % RingSize
  BY <1>1, <1>4, <1>6, <1>7, <1>8, SameRemainder, Zenon DEF a, b
<1> QED BY <1>9 DEF a, b, w

-----------------------------------------------------------------------------
(* The tuner.  n samples have been stored since the last Reset, however    *)
(* often write_idx_ wrapped; the ring holds the latest of them.            *)
Held(m) == [session |-> session, idx |-> m % Wrap]

RingHolds(n) ==
  /\ write_idx = n % Wrap
  /\ captured = IF n < WindowSize THEN n ELSE WindowSize
  /\ decim_counter \in 0..(Decimation - 1)
  /\ DOMAIN ring = 0..(RingSize - 1)
  /\ \A m \in Nat : n - RingSize <= m /\ m < n => ring[m % RingSize] = Held(m)

(* During the copy, s is the sample it started from.  The blocks since     *)
(* then have taken no more than their frames allow, so what the copy has   *)
(* still to read is in the ring.                                           *)
CopyHolds(n) ==
  pc = "copy" =>
    \E s \in Nat :
      /\ start = s % Wrap
      /\ s + WindowSize <= n
      /\ (n - s - WindowSize) * Decimation + decim_counter
            <= within * Frames + Decimation - 1
      /\ i \in 0..WindowSize /\ DOMAIN window = 0..(WindowSize - 1)
      /\ \A k \in 0..(i - 1) : window[k] = Held(s + k)

(* Where the main loop can be with the flag set, and what is shown.        *)
PcInv ==
  /\ pc \in {"loop", "cleared", "check", "start", "copy", "show", "leave"}
  /\ pc \in {"check", "start", "copy", "show"} => tuner_active
  /\ pc = "start" => captured = WindowSize
  /\ tuner_active \in BOOLEAN /\ DOMAIN window = 0..(WindowSize - 1)
  /\ within \in Nat
  /\ pc = "copy" => within <= Slack
  /\ session \in {0, 1}
  /\ tuner_active \/ pc = "cleared" => tuner_pitch \in {NoPitch, session}
  /\ pc = "cleared" => ~tuner_active

CaptureInv == PcInv /\ \E n \in Nat : RingHolds(n) /\ CopyHolds(n)

(* What fits, d at a time.                                                 *)
LEMMA Fits ==
  ASSUME NEW x \in Int, NEW y \in Int, NEW d \in Nat \ {0}, x * d <= y
  PROVE  x <= y \div d
<1> DEFINE q == y \div d
           r == y % d
<1>1. q \in Int /\ r \in 0..(d - 1) /\ y = q * d + r
  BY Remainder
<1> HIDE DEF q, r
<1>2. ~(q < x)
  <2> SUFFICES ASSUME q < x PROVE FALSE
    OBVIOUS
  <2>1. PICK k \in Nat : x = q + 1 + k
    <3>1. x - q - 1 \in Nat /\ x = q + 1 + (x - q - 1)
      BY <1>1
    <3> QED BY <3>1
  <2>2. x * d = q * d + d + k * d /\ k * d \in Nat /\ q * d \in Int
    BY <1>1, <2>1
  <2> QED BY <1>1, <2>2
<1> QED BY <1>1, <1>2 DEF q

(* A block stores no more than the ring holds, and the decimation counter  *)
(* keeps the frames left over.                                             *)
LEMMA StoredFacts ==
  ASSUME decim_counter \in 0..(Decimation - 1)
  PROVE  /\ Stored \in Nat /\ Stored <= RingSize
         /\ (decim_counter + Frames) % Decimation \in 0..(Decimation - 1)
         /\ Stored * Decimation + ((decim_counter + Frames) % Decimation) = decim_counter + Frames
<1> DEFINE total == decim_counter + Frames
           most == Slack * Frames + Decimation - 1
           room == most \div Decimation
<1>1. /\ Decimation \in Nat \ {0} /\ Frames \in Nat \ {0} /\ Slack \in Nat \ {0}
      /\ RingSize \in Nat /\ WindowSize \in Nat /\ room <= RingSize - WindowSize
  BY TunerAssumption
<1>2. Slack * Frames >= Frames /\ Slack * Frames \in Nat
  <2>1. PICK k \in Nat : Slack = k + 1
    <3>1. Slack - 1 \in Nat /\ Slack = (Slack - 1) + 1
      BY <1>1
    <3> QED BY <3>1
  <2>2. Slack * Frames = k * Frames + Frames /\ k * Frames \in Nat
    BY <1>1, <2>1
  <2> QED BY <1>1, <2>2
<1>3. total \in Nat /\ most \in Nat /\ total <= most
  BY <1>1, <1>2
<1>4. /\ Stored \in Int /\ total % Decimation \in 0..(Decimation - 1)
      /\ total = Stored * Decimation + (total % Decimation)
  <2>1. Stored = total \div Decimation
    BY DEF Stored
  <2> HIDE DEF total
  <2> QED BY <1>1, <1>3, <2>1, Remainder
<1>5. /\ room \in Int /\ most % Decimation \in 0..(Decimation - 1)
      /\ most = room * Decimation + (most % Decimation)
  <2> HIDE DEF most
  <2> QED BY <1>1, <1>3, Remainder DEF room
<1> HIDE DEF total, most, room
<1>6. Stored >= 0
  <2> SUFFICES ASSUME Stored < 0 PROVE FALSE
    BY <1>4
  <2>1. PICK k \in Nat : Stored = -1 - k
    <3>1. -1 - Stored \in Nat /\ Stored = -1 - (-1 - Stored)
      BY <1>4
    <3> QED BY <3>1
  <2>2. Stored * Decimation = -Decimation - k * Decimation /\ k * Decimation \in Nat
    BY <1>1, <2>1
  <2> QED BY <1>1, <1>3, <1>4, <2>2
<1>7. Stored <= room
  <2> SUFFICES ASSUME room < Stored PROVE FALSE
    BY <1>4, <1>5
  <2>1. PICK k \in Nat : Stored = room + 1 + k
    <3>1. Stored - room - 1 \in Nat /\ Stored = room + 1 + (Stored - room - 1)
      BY <1>4, <1>5
    <3> QED BY <3>1
  <2>2. /\ Stored * Decimation = room * Decimation + Decimation + k * Decimation
        /\ k * Decimation \in Nat /\ room * Decimation \in Int
    BY <1>1, <1>5, <2>1
  <2> QED BY <1>1, <1>3, <1>4, <1>5, <2>2
<1>8. Stored <= RingSize
  BY <1>1, <1>4, <1>5, <1>7
<1>9. Stored \in Nat
  BY <1>4, <1>6
<1> QED BY <1>4, <1>8, <1>9, Zenon DEF total

(* A block that comes in stores samples n to n + Stored - 1 over the       *)
(* oldest and leaves the others, wherever the main loop is.                *)
LEMMA BlockStored ==
  ASSUME NEW n \in Nat, RingHolds(n), NEW N \in Nat, N = n + Stored,
         PushAudioBlock, session' = session,
         captured' = IF captured + Stored > WindowSize THEN WindowSize ELSE captured + Stored
  PROVE  RingHolds(N)'
<1>1. /\ Stored \in Nat /\ Stored <= RingSize
      /\ (decim_counter + Frames) % Decimation \in 0..(Decimation - 1)
  BY StoredFacts DEF RingHolds
<1>2. /\ RingSize \in Nat \ {0} /\ Wrap \in Nat \ {0} /\ WindowSize \in Nat \ {0}
  BY TunerAssumption
<1>3. \A k \in Int : IdxOf(k) = (n + k) % Wrap /\ IdxOf(k) % RingSize = (n + k) % RingSize
  <2> SUFFICES ASSUME NEW k \in Int
               PROVE  IdxOf(k) = (n + k) % Wrap /\ IdxOf(k) % RingSize = (n + k) % RingSize
    OBVIOUS
  <2>1. IdxOf(k) = ((n % Wrap) + k) % Wrap
    BY DEF IdxOf, RingHolds
  <2>2. ((n % Wrap) + k) % Wrap = (n + k) % Wrap
    BY WrapFirst
  <2>3. n + k \in Int
    OBVIOUS
  <2>4. ((n + k) % Wrap) % RingSize = (n + k) % RingSize
    BY <2>3, WrapFirst
  <2> QED BY <2>1, <2>2, <2>4
<1>4. write_idx' = N % Wrap
  BY <1>1, <1>3 DEF PushAudioBlock
<1>5. captured' = IF N < WindowSize THEN N ELSE WindowSize
  BY <1>1, <1>2 DEF RingHolds
<1>6. decim_counter' \in 0..(Decimation - 1)
  BY <1>1 DEF PushAudioBlock
<1>7. DOMAIN ring' = 0..(RingSize - 1)
  BY DEF PushAudioBlock, RingHolds
<1>8. ASSUME NEW m \in Nat, N - RingSize <= m, m < N
      PROVE  ring'[m % RingSize] = Held(m)
  <2> DEFINE slot == m % RingSize
  <2>1. slot \in 0..(RingSize - 1)
    BY <1>2, Remainder
  <2>2. ring'[slot] = IF \E k \in 0..(Stored - 1) : IdxOf(k) % RingSize = slot
                       THEN [session |-> session,
                             idx |-> IdxOf(CHOOSE k \in 0..(Stored - 1) : IdxOf(k) % RingSize = slot)]
                       ELSE ring[slot]
    BY <2>1 DEF PushAudioBlock, RingHolds
  <2>3. \A k \in 0..(Stored - 1) : IdxOf(k) % RingSize = slot => n + k = m
    <3> SUFFICES ASSUME NEW k \in 0..(Stored - 1), IdxOf(k) % RingSize = slot, n + k # m
                 PROVE  FALSE
      OBVIOUS
    <3> DEFINE at == n + k
    <3>0. m \in Int
      OBVIOUS
    <3>1. at % RingSize = m % RingSize /\ at \in Int
      BY <1>3
    <3>2. (at < m => m - at < RingSize) /\ (m < at => at - m < RingSize)
      BY <1>1, <1>2, <1>8
    <3> HIDE DEF at
    <3>3. ~(at < m)
      BY <1>2, <3>0, <3>1, <3>2, OtherRemainder, Zenon
    <3>4. ~(m < at)
      BY <1>2, <3>0, <3>1, <3>2, OtherRemainder, Zenon
    <3> QED BY <3>1, <3>3, <3>4 DEF at
  <2>4. CASE m >= n
    <3>1. m - n \in 0..(Stored - 1) /\ n + (m - n) = m
      BY <1>1, <1>8, <2>4
    <3>2. IdxOf(m - n) = m % Wrap /\ IdxOf(m - n) % RingSize = slot
      BY <1>3, <3>1
    <3>3. \A k \in 0..(Stored - 1) : IdxOf(k) % RingSize = slot => k = m - n
      BY <1>1, <2>3
    <3>4. \E k \in 0..(Stored - 1) : IdxOf(k) % RingSize = slot
      BY <3>1, <3>2, Zenon
    <3> DEFINE c == CHOOSE k \in 0..(Stored - 1) : IdxOf(k) % RingSize = slot
    <3>5. c \in 0..(Stored - 1) /\ IdxOf(c) % RingSize = slot
      BY <3>4, Zenon
    <3>6. ring'[slot] = [session |-> session, idx |-> IdxOf(c)]
      BY <2>2, <3>4, Zenon
    <3> HIDE DEF c
    <3>7. c = m - n
      BY <3>3, <3>5
    <3> QED BY <3>2, <3>6, <3>7 DEF Held
  <2>5. CASE m < n
    <3>1. ~\E k \in 0..(Stored - 1) : IdxOf(k) % RingSize = slot
      BY <1>1, <2>3, <2>5
    <3>2. ring'[slot] = ring[slot]
      BY <2>2, <3>1, Zenon
    <3>3. n - RingSize <= m
      BY <1>1, <1>2, <1>8
    <3> QED BY <2>5, <3>2, <3>3 DEF RingHolds
  <2> QED BY <2>4, <2>5
<1>9. Held(0)' = Held(0) /\ \A m : Held(m)' = Held(m)
  BY DEF Held
<1> QED BY <1>4, <1>5, <1>6, <1>7, <1>8, <1>9 DEF RingHolds

(* A block that comes in during the copy uses up some of the slack.        *)
LEMMA BlockCopying ==
  ASSUME NEW n \in Nat, RingHolds(n), CopyHolds(n), NEW N \in Nat, N = n + Stored,
         PushAudioBlock, UNCHANGED <<pc, analyzer, session>>,
         within \in Nat, within' = within + 1
  PROVE  CopyHolds(N)'
<1> SUFFICES ASSUME pc = "copy"
             PROVE  \E s \in Nat :
                      /\ start' = s % Wrap
                      /\ s + WindowSize <= N
                      /\ (N - s - WindowSize) * Decimation + decim_counter'
                            <= within' * Frames + Decimation - 1
                      /\ i' \in 0..WindowSize /\ DOMAIN window' = 0..(WindowSize - 1)
                      /\ \A k \in 0..(i' - 1) : window'[k] = Held(s + k)'
  BY DEF CopyHolds
<1>1. PICK s \in Nat :
        /\ start = s % Wrap
        /\ s + WindowSize <= n
        /\ (n - s - WindowSize) * Decimation + decim_counter
              <= within * Frames + Decimation - 1
        /\ i \in 0..WindowSize /\ DOMAIN window = 0..(WindowSize - 1)
        /\ \A k \in 0..(i - 1) : window[k] = Held(s + k)
  BY DEF CopyHolds
<1>2. UNCHANGED <<start, i, window, session>>
  BY DEF analyzer
<1>3. Decimation \in Nat \ {0} /\ Frames \in Nat \ {0} /\ WindowSize \in Nat \ {0}
  BY TunerAssumption
<1>4. /\ Stored \in Nat /\ decim_counter \in 0..(Decimation - 1)
      /\ decim_counter' \in 0..(Decimation - 1)
      /\ Stored * Decimation + decim_counter' = decim_counter + Frames
  BY StoredFacts DEF RingHolds, PushAudioBlock
<1>5. s + WindowSize <= N
  BY <1>1, <1>3, <1>4
<1>6. (N - s - WindowSize) * Decimation + decim_counter' <= within' * Frames + Decimation - 1
  <2> DEFINE taken == n - s - WindowSize
             all == N - s - WindowSize
  <2>1. taken \in Int /\ all = taken + Stored
    BY <1>3, <1>4
  <2>2. taken * Decimation + decim_counter <= within * Frames + Decimation - 1
    BY <1>1
  <2> HIDE DEF taken, all
  <2>3. all * Decimation = taken * Decimation + Stored * Decimation /\ taken * Decimation \in Int
        /\ Stored * Decimation \in Int
    BY <1>3, <1>4, <2>1
  <2>4. within' * Frames = within * Frames + Frames /\ within * Frames \in Int
    BY <1>3
  <2>5. all * Decimation + decim_counter' <= within' * Frames + Decimation - 1
    <3> DEFINE a == all * Decimation  b == taken * Decimation  c == Stored * Decimation
               d == within' * Frames  e == within * Frames
    <3>1. a = b + c /\ b \in Int /\ c \in Int /\ d = e + Frames /\ e \in Int
      BY <2>3, <2>4
    <3>2. c + decim_counter' = decim_counter + Frames
      BY <1>4
    <3>3. b + decim_counter <= e + Decimation - 1
      BY <2>2
    <3> HIDE DEF a, b, c, d, e
    <3>4. {decim_counter, decim_counter', Frames, Decimation} \subseteq Int
      BY <1>3, <1>4
    <3>5. a + decim_counter' <= d + Decimation - 1
      BY <3>1, <3>2, <3>3, <3>4
    <3> QED BY <3>5 DEF a, d
  <2> QED BY <2>5 DEF all
<1>7. \A m : Held(m)' = Held(m)
  BY <1>2 DEF Held
<1>8. \A k \in 0..(i' - 1) : window'[k] = Held(s + k)'
  BY <1>1, <1>2, <1>7
<1> QED BY <1>1, <1>2, <1>5, <1>6, <1>8

(* So the interrupt keeps the invariant.                                   *)
LEMMA BlockStep ==
  ASSUME CaptureInv, AudioCallback
  PROVE  CaptureInv'
<1>1. PICK n \in Nat : RingHolds(n) /\ CopyHolds(n)
  BY DEF CaptureInv
<1>2. Stored \in Nat /\ n + Stored \in Nat
  BY <1>1, StoredFacts DEF RingHolds
<1>3. PICK N \in Nat : N = n + Stored
  BY <1>2
<1>4. PcInv /\ PushAudioBlock /\ UNCHANGED <<tuner_active, pc, analyzer, tuner_pitch, session>>
      /\ within \in Nat /\ within' = within + 1
      /\ captured' = IF captured + Stored > WindowSize THEN WindowSize ELSE captured + Stored
  BY DEF CaptureInv, PcInv, AudioCallback
<1>5. RingHolds(N)'
  BY <1>1, <1>3, <1>4, BlockStored
<1>6. CopyHolds(N)'
  BY <1>1, <1>3, <1>4, BlockCopying
<1>7. pc = "start" => captured' = WindowSize
  <2> SUFFICES ASSUME captured = WindowSize PROVE captured' = WindowSize
    BY <1>4 DEF PcInv
  <2> QED BY <1>2, <1>4, TunerAssumption
<1>8. pc = "copy" => within' <= Slack
  <2> SUFFICES ASSUME pc = "copy" PROVE within' <= Slack
    OBVIOUS
  <2>1. within < Slack
    BY DEF AudioCallback, Copying
  <2> QED BY <1>4, <2>1, TunerAssumption
<1>9. within' \in Nat
  BY <1>4
<1>10. PcInv'
  BY <1>4, <1>7, <1>8, <1>9 DEF PcInv, analyzer
<1> QED BY <1>5, <1>6, <1>10 DEF CaptureInv

(* After a Reset nothing has been stored.                                  *)
LEMMA NothingStored ==
  ASSUME Reset, captured' = 0, pc' # "copy"
  PROVE  \E n \in Nat : RingHolds(n)' /\ CopyHolds(n)'
<1>1. 0 % Wrap = 0
  <2>1. Wrap \in Nat \ {0}
    BY TunerAssumption
  <2> QED BY <2>1, SmallRemainder
<1>2. RingHolds(0)'
  <2>1. \A m \in Nat : ~(m < 0)
    OBVIOUS
  <2>2. 0 < WindowSize /\ 0 \in 0..(Decimation - 1)
    BY TunerAssumption
  <2> QED BY <1>1, <2>1, <2>2 DEF Reset, RingHolds
<1>3. CopyHolds(0)'
  BY DEF CopyHolds
<1> QED BY <1>2, <1>3

(* A step that stores nothing, outside the copy.                           *)
LEMMA StaysStored ==
  ASSUME CaptureInv, UNCHANGED <<detector, session, captured>>, pc' # "copy"
  PROVE  \E n \in Nat : RingHolds(n)' /\ CopyHolds(n)'
<1>1. PICK n \in Nat : RingHolds(n)
  BY DEF CaptureInv
<1>2. RingHolds(n)'
  BY <1>1 DEF RingHolds, Held, detector
<1>3. CopyHolds(n)'
  BY DEF CopyHolds
<1> QED BY <1>2, <1>3

(* The copy starts at the sample a window before the next, though          *)
(* write_idx_ may have wrapped in between.                                 *)
LEMMA StartStep ==
  ASSUME CaptureInv, ReadStart
  PROVE  CaptureInv'
<1>1. PICK n \in Nat : RingHolds(n)
  BY DEF CaptureInv
<1>2. /\ UNCHANGED <<tuner_active, ring, write_idx, decim_counter, window, tuner_pitch, session, captured>>
      /\ pc = "start" /\ pc' = "copy" /\ i' = 0 /\ within' = 0
      /\ start' = (write_idx - WindowSize) % Wrap
  BY DEF ReadStart, detector
<1>3. PcInv
  BY DEF CaptureInv
<1>4. WindowSize \in Nat \ {0} /\ Decimation \in Nat \ {0} /\ Frames \in Nat
      /\ Slack \in Nat /\ Wrap \in Nat \ {0}
  BY TunerAssumption
<1>5. PcInv'
  BY <1>2, <1>3, <1>4 DEF PcInv
<1>6. RingHolds(n)'
  BY <1>1, <1>2 DEF RingHolds, Held
<1>7. PICK s \in Nat : n = s + WindowSize
  <2>1. n >= WindowSize
    BY <1>1, <1>2, <1>3, <1>4 DEF RingHolds, PcInv
  <2>2. n - WindowSize \in Nat /\ n = (n - WindowSize) + WindowSize
    BY <1>4, <2>1
  <2> QED BY <2>2
<1>8. start' = s % Wrap
  <2> DEFINE w == n % Wrap
  <2>1. w \in Int /\ -WindowSize \in Int
    BY <1>4, Remainder
  <2>2. (w + (-WindowSize)) % Wrap = (n + (-WindowSize)) % Wrap
    BY <2>1, WrapFirst
  <2> HIDE DEF w
  <2>3. n + (-WindowSize) = s /\ w + (-WindowSize) = w - WindowSize
    BY <1>4, <1>7, <2>1
  <2>4. start' = (w - WindowSize) % Wrap
    BY <1>1, <1>2 DEF RingHolds, w
  <2> QED BY <2>2, <2>3, <2>4, Zenon
<1>9. CopyHolds(n)'
  <2>1. (n - s - WindowSize) * Decimation + decim_counter' <= within' * Frames + Decimation - 1
    <3>1. n - s - WindowSize = 0 /\ decim_counter' \in 0..(Decimation - 1)
      BY <1>1, <1>2, <1>4, <1>7 DEF RingHolds
    <3>2. 0 * Decimation = 0 /\ 0 * Frames = 0
      BY <1>4
    <3> QED BY <1>2, <1>4, <3>1, <3>2
  <2>2. i' \in 0..WindowSize /\ DOMAIN window' = 0..(WindowSize - 1) /\ s + WindowSize <= n
    BY <1>2, <1>3, <1>4, <1>7 DEF PcInv
  <2>3. \A k \in 0..(i' - 1) : window'[k] = Held(s + k)'
    BY <1>2
  <2> QED BY <1>8, <2>1, <2>2, <2>3 DEF CopyHolds
<1> QED BY <1>5, <1>6, <1>9 DEF CaptureInv

(* The blocks within one copy leave the window in the ring.                *)
LEMMA WindowStands ==
  ASSUME NEW n \in Nat, NEW s \in Nat, decim_counter \in 0..(Decimation - 1),
         within \in Nat, within <= Slack,
         (n - s - WindowSize) * Decimation + decim_counter <= within * Frames + Decimation - 1
  PROVE  n - s <= RingSize
<1>1. /\ Decimation \in Nat \ {0} /\ Frames \in Nat \ {0} /\ Slack \in Nat \ {0}
      /\ RingSize \in Nat /\ WindowSize \in Nat
      /\ (Slack * Frames + Decimation - 1) \div Decimation <= RingSize - WindowSize
  BY TunerAssumption
<1>2. within * Frames <= Slack * Frames /\ within * Frames \in Int /\ Slack * Frames \in Int
  <2>1. PICK k \in Nat : Slack = within + k
    <3>1. Slack - within \in Nat /\ Slack = within + (Slack - within)
      BY <1>1
    <3> QED BY <3>1
  <2>2. Slack * Frames = within * Frames + k * Frames /\ k * Frames \in Nat
        /\ within * Frames \in Int
    BY <1>1, <2>1
  <2> QED BY <2>2
<1> DEFINE x == n - s - WindowSize
           y == Slack * Frames + Decimation - 1
<1>3. x \in Int /\ y \in Int
  BY <1>1, <1>2
<1>4. x * Decimation + decim_counter <= within * Frames + Decimation - 1
  OBVIOUS
<1> HIDE DEF x
<1>5. x * Decimation \in Int
  BY <1>1, <1>3
<1>6. x * Decimation <= y
  BY <1>1, <1>2, <1>4, <1>5
<1> HIDE DEF y
<1>7. x <= y \div Decimation /\ y \div Decimation \in Int
  BY <1>1, <1>3, <1>6, Fits, Remainder
<1>8. y \div Decimation <= RingSize - WindowSize
  BY <1>1 DEF y
<1>9. x <= RingSize - WindowSize
  BY <1>1, <1>3, <1>7, <1>8
<1> QED BY <1>1, <1>9 DEF x

(* One sample of the copy.                                                 *)
LEMMA CopyStep ==
  ASSUME CaptureInv, CopySample
  PROVE  CaptureInv'
<1>1. PICK n \in Nat : RingHolds(n) /\ CopyHolds(n)
  BY DEF CaptureInv
<1>2. /\ UNCHANGED <<tuner_active, ring, write_idx, decim_counter, pc, start, tuner_pitch,
                     session, captured, within>>
      /\ pc = "copy" /\ i < WindowSize /\ i' = i + 1
      /\ window' = [window EXCEPT ![i] = ring[(start + i) % RingSize]]
  BY DEF CopySample, detector
<1>3. PcInv
  BY DEF CaptureInv
<1>4. PICK s \in Nat :
        /\ start = s % Wrap
        /\ s + WindowSize <= n
        /\ (n - s - WindowSize) * Decimation + decim_counter
              <= within * Frames + Decimation - 1
        /\ i \in 0..WindowSize /\ DOMAIN window = 0..(WindowSize - 1)
        /\ \A k \in 0..(i - 1) : window[k] = Held(s + k)
  BY <1>1, <1>2 DEF CopyHolds
<1>5. WindowSize \in Nat \ {0} /\ RingSize \in Nat \ {0}
  BY TunerAssumption
<1>6. PcInv'
  BY <1>2, <1>3 DEF PcInv
<1>7. RingHolds(n)'
  BY <1>1, <1>2 DEF RingHolds, Held
<1>8. n - s <= RingSize
  BY <1>1, <1>2, <1>3, <1>4, WindowStands DEF RingHolds, PcInv
<1>9. ring[(start + i) % RingSize] = Held(s + i)
  <2>1. ((s % Wrap) + i) % RingSize = (s + i) % RingSize
    BY <1>4, <1>5, WrapFirst
  <2>2. s + i \in Nat /\ n - RingSize <= s + i /\ s + i < n
    BY <1>2, <1>4, <1>5, <1>8
  <2>3. ring[(s + i) % RingSize] = Held(s + i)
    BY <1>1, <2>2 DEF RingHolds
  <2> QED BY <1>4, <2>1, <2>3
<1>10. ASSUME NEW k \in 0..(i' - 1) PROVE window'[k] = Held(s + k)'
  <2>1. Held(s + k)' = Held(s + k)
    BY <1>2 DEF Held
  <2>2. k \in 0..(i - 1) \/ k = i
    BY <1>2, <1>4
  <2>3. i \in DOMAIN window
    BY <1>2, <1>4, <1>5
  <2>4. CASE k = i
    BY <1>2, <1>9, <2>1, <2>3, <2>4
  <2>5. CASE k \in 0..(i - 1)
    <3>1. k # i /\ k \in DOMAIN window
      BY <1>2, <1>4, <1>5, <2>5
    <3>2. window'[k] = window[k]
      BY <1>2, <3>1
    <3> QED BY <1>4, <2>1, <2>5, <3>2
  <2> QED BY <2>2, <2>4, <2>5
<1>11. CopyHolds(n)'
  <2>1. i' \in 0..WindowSize /\ DOMAIN window' = 0..(WindowSize - 1)
    BY <1>2, <1>4, <1>5
  <2> QED BY <1>2, <1>4, <1>10, <2>1 DEF CopyHolds
<1> QED BY <1>6, <1>7, <1>11 DEF CaptureInv

(* Nothing is stored at power-on.                                          *)
LEMMA CaptureStart == Init => CaptureInv
<1> SUFFICES ASSUME Init PROVE CaptureInv
  OBVIOUS
<1>1. 0 % Wrap = 0
  <2>1. Wrap \in Nat \ {0}
    BY TunerAssumption
  <2> QED BY <2>1, SmallRemainder
<1>2. RingHolds(0)
  <2>1. \A m \in Nat : ~(m < 0)
    OBVIOUS
  <2>2. 0 < WindowSize /\ 0 \in 0..(Decimation - 1)
    BY TunerAssumption
  <2> QED BY <1>1, <2>1, <2>2 DEF Init, RingHolds
<1>3. CopyHolds(0) /\ PcInv
  BY DEF Init, CopyHolds, PcInv
<1> QED BY <1>2, <1>3 DEF CaptureInv

(* An index past the window means that a window was stored.                *)
LEMMA EnoughHeld ==
  ASSUME CaptureInv, write_idx >= WindowSize
  PROVE  captured = WindowSize
<1>1. PICK n \in Nat : RingHolds(n)
  BY DEF CaptureInv
<1>2. WindowSize \in Nat /\ RingSize \in Nat /\ WindowSize <= RingSize /\ Wrap > RingSize /\ Wrap \in Nat \ {0}
  BY TunerAssumption
<1>3. n < WindowSize => n % Wrap = n
  <2> SUFFICES ASSUME n < WindowSize PROVE n % Wrap = n
    OBVIOUS
  <2>1. n < Wrap
    BY <1>2
  <2> QED BY <1>2, <2>1, SmallRemainder
<1> QED BY <1>1, <1>2, <1>3 DEF RingHolds

(* A pitch comes from the window, and the window from this session.        *)
LEMMA AnalyzedPitch ==
  ASSUME CaptureInv, Analyzed
  PROVE  tuner_pitch' \in {NoPitch, session}
<1>1. PICK n \in Nat : CopyHolds(n)
  BY DEF CaptureInv
<1>2. WindowSize \in Nat \ {0} /\ pc = "copy" /\ i = WindowSize
  BY TunerAssumption DEF Analyzed
<1>3. PICK s \in Nat : \A k \in 0..(i - 1) : window[k] = Held(s + k)
  BY <1>1, <1>2 DEF CopyHolds
<1>4. window[0].session = session
  <2>1. 0 \in 0..(i - 1)
    BY <1>2
  <2>2. window[0] = Held(s + 0)
    BY <1>3, <2>1
  <2> QED BY <2>2 DEF Held
<1> QED BY <1>4 DEF Analyzed

(* Every step keeps the invariant.                                         *)
LEMMA CaptureStep == CaptureInv /\ [Next]_vars => CaptureInv'
<1> SUFFICES ASSUME CaptureInv, [Next]_vars PROVE CaptureInv'
  OBVIOUS
<1> DEFINE Stays == \E n \in Nat : RingHolds(n)' /\ CopyHolds(n)'
<1>0. PcInv
  BY DEF CaptureInv
<1>1. CASE AudioCallback
  BY <1>1, BlockStep
<1>2. CASE Enter
  <2>1. Stays
    BY <1>2, NothingStored DEF Enter
  <2>2. PcInv'
    BY <1>0, <1>2 DEF PcInv, Enter, analyzer
  <2> QED BY <2>1, <2>2 DEF CaptureInv
<1>3. CASE Leave
  <2>1. Stays
    BY <1>3, StaysStored DEF Leave
  <2>2. PcInv'
    BY <1>0, <1>3 DEF PcInv, Leave, analyzer
  <2> QED BY <2>1, <2>2 DEF CaptureInv
<1>4. CASE Activate
  <2>1. Stays
    BY <1>4, StaysStored DEF Activate
  <2>2. PcInv'
    BY <1>0, <1>4 DEF PcInv, Activate, analyzer
  <2> QED BY <2>1, <2>2 DEF CaptureInv
<1>5. CASE BeginAnalyze
  <2>1. Stays
    BY <1>5, StaysStored DEF BeginAnalyze
  <2>2. PcInv'
    BY <1>0, <1>5 DEF PcInv, BeginAnalyze, analyzer
  <2> QED BY <2>1, <2>2 DEF CaptureInv
<1>6. CASE Enough
  <2>1. Stays
    BY <1>6, StaysStored DEF Enough
  <2>2. write_idx < WindowSize \/ captured = WindowSize
    <3>1. write_idx \in Int /\ WindowSize \in Int
      <4>1. PICK n \in Nat : write_idx = n % Wrap
        BY DEF CaptureInv, RingHolds
      <4> QED BY <4>1, TunerAssumption, Remainder
    <3> QED BY <3>1, EnoughHeld
  <2>3. pc' = "show" \/ (pc' = "start" /\ captured' = WindowSize)
    BY <1>6, <2>2 DEF Enough
  <2>4. PcInv'
    BY <1>0, <1>6, <2>3 DEF PcInv, Enough, analyzer
  <2> QED BY <2>1, <2>4 DEF CaptureInv
<1>7. CASE ReadStart
  BY <1>7, StartStep
<1>8. CASE CopySample
  BY <1>8, CopyStep
<1>9. CASE Analyzed
  <2>1. Stays
    BY <1>9, StaysStored DEF Analyzed
  <2>2. PcInv'
    BY <1>0, <1>9, AnalyzedPitch DEF PcInv, Analyzed, analyzer
  <2> QED BY <2>1, <2>2 DEF CaptureInv
<1>10. CASE PushTunerScreen
  <2>1. Stays
    BY <1>10, StaysStored DEF PushTunerScreen
  <2>2. PcInv'
    BY <1>0, <1>10 DEF PcInv, PushTunerScreen, analyzer
  <2> QED BY <2>1, <2>2 DEF CaptureInv
<1>11. CASE ResetAfter
  <2>1. Stays
    BY <1>11, NothingStored DEF ResetAfter
  <2>2. PcInv'
    BY <1>0, <1>11 DEF PcInv, ResetAfter, analyzer
  <2> QED BY <2>1, <2>2 DEF CaptureInv
<1>12. CASE UNCHANGED vars
  BY <1>12 DEF vars, detector, analyzer, CaptureInv, PcInv, RingHolds, CopyHolds, Held
<1> QED
  BY <1>1, <1>2, <1>3, <1>4, <1>5, <1>6, <1>7, <1>8, <1>9, <1>10, <1>11, <1>12, Zenon
  DEF Next, MainLoop

(* Analyze works on one unbroken stretch of this session, for a ring, a    *)
(* window and an index of any size, whatever blocks fall between any two   *)
(* steps of the copy (src/TunerDetector.cpp:53-61).                        *)
THEOREM WindowAlwaysUnbroken == Spec => []WindowUnbroken
<1>1. CaptureInv => WindowUnbroken
  <2> SUFFICES ASSUME CaptureInv, pc = "copy", NEW k \in 0..(i - 1)
               PROVE  window[k] = [session |-> session, idx |-> (start + k) % Wrap]
    BY DEF WindowUnbroken
  <2>1. PICK n \in Nat : CopyHolds(n)
    BY DEF CaptureInv
  <2>2. PICK s \in Nat : start = s % Wrap /\ i \in 0..WindowSize
                         /\ \A j \in 0..(i - 1) : window[j] = Held(s + j)
    BY <2>1 DEF CopyHolds
  <2>3. k \in Int
    BY <2>2, TunerAssumption
  <2>4. ((s % Wrap) + k) % Wrap = (s + k) % Wrap
    BY <2>3, WrapFirst
  <2> QED BY <2>2, <2>4 DEF Held
<1> QED BY <1>1, CaptureStart, CaptureStep, PTL DEF Spec

(* What the tuner shows was played in this session (src/main.cpp:531-541). *)
THEOREM PitchAlwaysOfSession == Spec => []PitchOfThisSession
<1>1. CaptureInv => PitchOfThisSession
  BY DEF CaptureInv, PcInv, PitchOfThisSession
<1> QED BY <1>1, CaptureStart, CaptureStep, PTL DEF Spec

-----------------------------------------------------------------------------
(* The echo.                                                               *)

(* How many samples ago the cell was written, if it was.                   *)
Behind(c) == IF c < write_idx_ THEN write_idx_ - c ELSE MaxSamples + write_idx_ - c

(* Every cell the write index has passed since the ring was cleared holds  *)
(* the sample of that age; the others are silent.                          *)
Indices == 0..(MaxSamples - 1)

EchoInv == ready =>
  \A c \in Indices : buffer_[c] = IF Behind(c) <= since THEN Behind(c) ELSE Silent

(* The echo's variables keep their ranges.                                 *)
LEMMA EchoTypeInit == EchoInit => EchoTypeOK
<1> SUFFICES ASSUME EchoInit PROVE EchoTypeOK
  OBVIOUS
<1>1. PICK t \in Time : delay_samples_ = Clamped(t)
  BY DEF EchoInit
<1>2. delay_samples_ \in 1..(MaxSamples - 1)
  BY <1>1, DelayAssumption DEF Clamped
<1>3. Silent \in Age /\ Unknown \in Age
  BY DEF Age
<1>4. buffer_ \in [0..(MaxSamples - 1) -> Age] /\ delayed \in Age
  BY <1>3 DEF EchoInit
<1>5. write_idx_ \in 0..(MaxSamples - 1) /\ since \in 0..MaxSamples
  BY DelayAssumption DEF EchoInit
<1> QED BY <1>2, <1>4, <1>5 DEF EchoInit, EchoTypeOK

LEMMA EchoTypeStep == EchoTypeOK /\ [EchoNext]_echo => EchoTypeOK'
<1> SUFFICES ASSUME EchoTypeOK, [EchoNext]_echo PROVE EchoTypeOK'
  OBVIOUS
<1> USE DelayAssumption DEF EchoTypeOK, Age, Silent, Unknown
<1>1. CASE Start
  BY <1>1 DEF Start, ClearEcho
<1>2. CASE Process
  <2>1. ReadIdx \in 0..(MaxSamples - 1)
    BY DEF ReadIdx
  <2>2. \A c \in 0..(MaxSamples - 1) : Older(buffer_[c]) \in Age
    BY DEF Older
  <2>3. Advanced \in 0..(MaxSamples - 1)
    BY DEF Advanced
  <2> QED BY <1>2, <2>1, <2>2, <2>3 DEF Process
<1>3. ASSUME NEW t \in Time, SetParams(t) PROVE EchoTypeOK'
  BY <1>3 DEF SetParams, Clamped
<1>4. ASSUME NEW on \in BOOLEAN, SetEnabled(on) PROVE EchoTypeOK'
  BY <1>4 DEF SetEnabled, ClearEcho
<1>5. CASE UNCHANGED echo
  BY <1>5 DEF echo
<1> QED BY <1>1, <1>2, <1>3, <1>4, <1>5 DEF EchoNext

(* Before the ring is ready nothing is claimed of it.                     *)
LEMMA EchoInvInit == EchoInit => EchoInv
BY DEF EchoInit, EchoInv

(* After a reset every cell is silent and none has been passed.            *)
LEMMA EchoAfterReset == EchoTypeOK /\ ClearEcho /\ since' = 0 => EchoInv'
BY DelayAssumption DEF EchoTypeOK, ClearEcho, EchoInv, Indices, Behind

(* One sample: the cell under the index is one behind the next index, and  *)
(* every other cell is one further behind than it was.                     *)
LEMMA EchoAfterProcess == EchoTypeOK /\ EchoInv /\ Process => EchoInv'
<1> SUFFICES ASSUME EchoTypeOK, EchoInv, Process, NEW c \in Indices
             PROVE  buffer_'[c] = IF Behind(c)' <= since' THEN Behind(c)' ELSE Silent
  BY DEF EchoInv
<1> USE DelayAssumption DEF EchoTypeOK, Indices
<1>1. /\ write_idx_' = IF write_idx_ + 1 >= MaxSamples THEN 0 ELSE write_idx_ + 1
      /\ since' = IF since < MaxSamples THEN since + 1 ELSE since
      /\ buffer_'[c] = IF c = write_idx_ THEN 1 ELSE Older(buffer_[c])
  BY DEF Process, Advanced
<1>2. CASE c = write_idx_
  BY <1>1, <1>2 DEF Behind
<1>3. CASE c # write_idx_
  <2>1. Behind(c) \in 1..(MaxSamples - 1) /\ Behind(c)' = Behind(c) + 1
    BY <1>1, <1>3 DEF Behind
  <2>2. buffer_[c] = IF Behind(c) <= since THEN Behind(c) ELSE Silent
    BY DEF EchoInv, Process
  <2>3. buffer_'[c] = IF Behind(c) <= since THEN Behind(c) + 1 ELSE Silent
    BY <1>1, <1>3, <2>1, <2>2 DEF Older, Silent
  <2> QED BY <1>1, <2>1, <2>3
<1> QED BY <1>2, <1>3

(* Every step keeps the ring so.                                           *)
LEMMA EchoInvStep == EchoTypeOK /\ EchoInv /\ [EchoNext]_echo => EchoInv'
<1> SUFFICES ASSUME EchoTypeOK, EchoInv, [EchoNext]_echo PROVE EchoInv'
  OBVIOUS
<1>1. CASE Start
  BY <1>1, EchoAfterReset DEF Start
<1>2. CASE Process
  BY <1>2, EchoAfterProcess
<1>3. ASSUME NEW t \in Time, SetParams(t) PROVE EchoInv'
  BY <1>3 DEF SetParams, EchoInv, Behind
<1>4. ASSUME NEW on \in BOOLEAN, SetEnabled(on) PROVE EchoInv'
  <2>1. CASE enabled_ /\ ~on
    BY <1>4, <2>1, EchoAfterReset DEF SetEnabled
  <2>2. CASE ~(enabled_ /\ ~on)
    BY <1>4, <2>2 DEF SetEnabled, EchoInv, Behind
  <2> QED BY <2>1, <2>2
<1>5. CASE UNCHANGED echo
  BY <1>5 DEF echo, EchoInv, Behind
<1> QED BY <1>1, <1>2, <1>3, <1>4, <1>5 DEF EchoNext

(* The cell that is read is delay_samples_ behind.                         *)
LEMMA ReadIsBehind ==
  ASSUME EchoTypeOK
  PROVE  ReadIdx \in Indices /\ Behind(ReadIdx) = delay_samples_
BY DelayAssumption DEF EchoTypeOK, ReadIdx, Behind, Indices

(* The indices stay in the ring and the delay time within it.              *)
THEOREM EchoTypes == EchoSpec => []EchoTypeOK
BY EchoTypeInit, EchoTypeStep, PTL DEF EchoSpec

(* For a ring of any size an echo is exactly the delay time old, through   *)
(* every change of that time, and never from before the echo was switched  *)
(* on (src/PedalEffects.cpp:137-184).                                      *)
THEOREM EchoAlwaysExact == EchoSpec => EchoIsExact
<1> DEFINE Exact ==
      delayed' = IF since >= delay_samples_ THEN delay_samples_ ELSE Silent
<1>1. EchoTypeOK /\ EchoInv /\ [EchoNext]_echo => [Process => Exact]_echo
  <2> SUFFICES ASSUME EchoTypeOK, EchoInv, Process PROVE Exact
    OBVIOUS
  <2>1. delayed' = buffer_[ReadIdx] /\ ready
    BY DEF Process
  <2>2. buffer_[ReadIdx] = IF Behind(ReadIdx) <= since THEN Behind(ReadIdx) ELSE Silent
    BY <2>1, ReadIsBehind DEF EchoInv
  <2> QED BY <2>1, <2>2, ReadIsBehind DEF EchoTypeOK
<1> QED BY <1>1, EchoTypeInit, EchoTypeStep, EchoInvInit, EchoInvStep, PTL DEF EchoSpec, EchoIsExact

-----------------------------------------------------------------------------
(* Induction over a bounded range, from the least counterexample.          *)
LEMMA RangeInduction ==
  ASSUME NEW m \in Nat, NEW S, 0 \in S, \A k \in 0..(m - 1) : k \in S => k + 1 \in S
  PROVE  0..m \subseteq S
<1> DEFINE T == {k \in 0..m : k \notin S}
<1> SUFFICES ASSUME T # {} PROVE FALSE
  OBVIOUS
<1>1. T \subseteq Nat
  OBVIOUS
<1>2. PICK k \in T : \A j \in T : ~(j < k)
  <2>1. PICK k \in T : \A j \in T : <<j, k>> \notin OpToRel(<, Nat)
    BY <1>1, WFMin, NatLessThanWellFounded
  <2>2. \A j \in T : j < k => <<j, k>> \in OpToRel(<, Nat)
    BY <1>1 DEF OpToRel
  <2> QED BY <2>1, <2>2, Zenon
<1>3. k \in 1..m /\ k - 1 \in 0..(m - 1)
  BY <1>2
<1>4. k - 1 \in S
  BY <1>2, <1>3
<1>5. (k - 1) + 1 \in S
  BY <1>3, <1>4
<1> QED BY <1>2, <1>3, <1>5

-----------------------------------------------------------------------------
(* Sums.  The library adds up a finite set by taking one element after the *)
(* other; g is such a way of adding on the sets of D.                      *)
Chosen(s) == CHOOSE x \in s : TRUE

SumsUp(f, D, g) ==
  g = [s \in D |-> IF s = {} THEN 0 ELSE f[Chosen(s)] + g[s \ {Chosen(s)}]]

Sums(f, S, g) == SumsUp(f, SUBSET S, g)

Smaller(S, n) == {s \in SUBSET S : Cardinality(s) <= n}

(* Taking one element away makes a set smaller.                            *)
LEMMA OneLess ==
  ASSUME NEW S, IsFiniteSet(S), NEW s \in SUBSET S, s # {}
  PROVE  /\ Chosen(s) \in s /\ s \ {Chosen(s)} \in SUBSET S
         /\ Cardinality(s) \in Nat \ {0}
         /\ Cardinality(s \ {Chosen(s)}) = Cardinality(s) - 1
<1>1. Chosen(s) \in s
  BY DEF Chosen
<1>2. IsFiniteSet(s)
  BY FS_Subset
<1>3. Cardinality(s) \in Nat /\ Cardinality(s) # 0
  BY <1>2, FS_CardinalityType, FS_EmptySet
<1>4. Cardinality(s \ {Chosen(s)}) = Cardinality(s) - 1
  BY <1>1, <1>2, FS_RemoveElement
<1> QED BY <1>1, <1>3, <1>4

LEMMA SumsExist ==
  ASSUME NEW f, NEW S, IsFiniteSet(S)
  PROVE  \E g : Sums(f, S, g)
<1> DEFINE N == {n \in Nat : \E g : SumsUp(f, Smaller(S, n), g)}
           m == Cardinality(S)
<1>0. m \in Nat /\ Smaller(S, m) = SUBSET S
  BY FS_CardinalityType, FS_Subset DEF Smaller
<1>1. 0 \in N
  <2> DEFINE g == [s \in Smaller(S, 0) |-> 0]
  <2>1. \A s \in Smaller(S, 0) : s = {}
    <3> SUFFICES ASSUME NEW s \in Smaller(S, 0), s # {} PROVE FALSE
      OBVIOUS
    <3>1. s \in SUBSET S /\ Cardinality(s) <= 0
      BY DEF Smaller
    <3>2. Cardinality(s) \in Nat \ {0}
      BY <3>1, OneLess
    <3> QED BY <3>1, <3>2
  <2>2. SumsUp(f, Smaller(S, 0), g)
    BY <2>1 DEF SumsUp
  <2> QED BY <2>2
<1>2. ASSUME NEW n \in 0..(m - 1), n \in N PROVE n + 1 \in N
  <2>1. PICK g : SumsUp(f, Smaller(S, n), g)
    BY <1>2
  <2> DEFINE h == [s \in Smaller(S, n + 1) |->
                     IF s = {} THEN 0 ELSE f[Chosen(s)] + g[s \ {Chosen(s)}]]
  <2>2. \A s \in Smaller(S, n) : s \in Smaller(S, n + 1)
    <3> SUFFICES ASSUME NEW s \in Smaller(S, n) PROVE s \in Smaller(S, n + 1)
      OBVIOUS
    <3>1. s \in SUBSET S /\ Cardinality(s) <= n
      BY DEF Smaller
    <3>2. Cardinality(s) \in Nat
      BY <3>1, FS_Subset, FS_CardinalityType
    <3>3. Cardinality(s) <= n + 1
      BY <3>1, <3>2
    <3> QED BY <3>1, <3>3 DEF Smaller
  <2>3. \A s \in Smaller(S, n) : h[s] = g[s]
    <3>1. \A s \in Smaller(S, n) :
            g[s] = IF s = {} THEN 0 ELSE f[Chosen(s)] + g[s \ {Chosen(s)}]
      BY <2>1, Zenon DEF SumsUp
    <3> QED BY <2>2, <3>1, Zenon
  <2>4. \A s \in Smaller(S, n + 1) : s # {} => s \ {Chosen(s)} \in Smaller(S, n)
    <3> SUFFICES ASSUME NEW s \in Smaller(S, n + 1), s # {}
                 PROVE  s \ {Chosen(s)} \in Smaller(S, n)
      OBVIOUS
    <3>1. s \in SUBSET S /\ Cardinality(s) <= n + 1
      BY DEF Smaller
    <3>2. /\ s \ {Chosen(s)} \in SUBSET S /\ Cardinality(s) \in Nat
          /\ Cardinality(s \ {Chosen(s)}) = Cardinality(s) - 1
      BY <3>1, OneLess
    <3>3. Cardinality(s \ {Chosen(s)}) <= n
      BY <3>1, <3>2
    <3> QED BY <3>2, <3>3 DEF Smaller
  <2>5. \A s \in Smaller(S, n + 1) :
          (IF s = {} THEN 0 ELSE f[Chosen(s)] + g[s \ {Chosen(s)}])
            = (IF s = {} THEN 0 ELSE f[Chosen(s)] + h[s \ {Chosen(s)}])
    BY <2>3, <2>4, Zenon
  <2>6. h = [s \in Smaller(S, n + 1) |->
               IF s = {} THEN 0 ELSE f[Chosen(s)] + h[s \ {Chosen(s)}]]
    BY <2>5, Zenon
  <2>7. SumsUp(f, Smaller(S, n + 1), h)
    BY <2>6, Zenon DEF SumsUp
  <2> QED BY <2>7
<1> HIDE DEF N, m
<1>3. m \in N
  BY <1>0, <1>1, <1>2, RangeInduction
<1> QED BY <1>0, <1>3 DEF N, Sums

(* There is one way only.                                                  *)
LEMMA SumsAgree ==
  ASSUME NEW f, NEW S, IsFiniteSet(S), NEW T, T \subseteq S,
         NEW g, Sums(f, S, g), NEW h, Sums(f, T, h)
  PROVE  g[T] = h[T]
<1> DEFINE N == {n \in Nat : \A s \in Smaller(T, n) : g[s] = h[s]}
           m == Cardinality(T)
<1>0. m \in Nat /\ IsFiniteSet(T) /\ Smaller(T, m) = SUBSET T
  BY FS_CardinalityType, FS_Subset DEF Smaller
<1>1. \A s \in SUBSET T :
        /\ g[s] = IF s = {} THEN 0 ELSE f[Chosen(s)] + g[s \ {Chosen(s)}]
        /\ h[s] = IF s = {} THEN 0 ELSE f[Chosen(s)] + h[s \ {Chosen(s)}]
  <2>1. \A s \in SUBSET S : g[s] = IF s = {} THEN 0 ELSE f[Chosen(s)] + g[s \ {Chosen(s)}]
    BY Zenon DEF Sums, SumsUp
  <2>2. \A s \in SUBSET T : h[s] = IF s = {} THEN 0 ELSE f[Chosen(s)] + h[s \ {Chosen(s)}]
    BY Zenon DEF Sums, SumsUp
  <2>3. \A s \in SUBSET T : s \in SUBSET S
    OBVIOUS
  <2> QED BY <2>1, <2>2, <2>3, Zenon
<1>2. 0 \in N
  <2> SUFFICES ASSUME NEW s \in Smaller(T, 0) PROVE g[s] = h[s]
    OBVIOUS
  <2>1. s \in SUBSET T /\ Cardinality(s) <= 0
    BY DEF Smaller
  <2>2. s # {} => Cardinality(s) \in Nat \ {0}
    BY <1>0, <2>1, OneLess
  <2>3. s = {}
    BY <2>1, <2>2
  <2> QED BY <1>1, <2>1, <2>3
<1>3. ASSUME NEW n \in 0..(m - 1), n \in N PROVE n + 1 \in N
  <2> SUFFICES ASSUME NEW s \in Smaller(T, n + 1) PROVE g[s] = h[s]
    OBVIOUS
  <2>1. s \in SUBSET T /\ Cardinality(s) <= n + 1
    BY DEF Smaller
  <2>2. CASE s = {}
    BY <1>1, <2>1, <2>2
  <2>3. CASE s # {}
    <3>1. /\ s \ {Chosen(s)} \in SUBSET T /\ Cardinality(s) \in Nat
          /\ Cardinality(s \ {Chosen(s)}) = Cardinality(s) - 1
      BY <1>0, <2>1, <2>3, OneLess
    <3>2. s \ {Chosen(s)} \in Smaller(T, n)
      BY <2>1, <3>1 DEF Smaller
    <3>3. g[s \ {Chosen(s)}] = h[s \ {Chosen(s)}]
      BY <1>3, <3>2
    <3> QED BY <1>1, <2>1, <2>3, <3>3, Zenon
  <2> QED BY <2>2, <2>3
<1> HIDE DEF N, m
<1>4. m \in N
  BY <1>0, <1>2, <1>3, RangeInduction
<1>5. \A s \in SUBSET T : g[s] = h[s]
  BY <1>0, <1>4 DEF N
<1> QED BY <1>5

LEMMA SumSteps ==
  ASSUME NEW f, NEW S, IsFiniteSet(S)
  PROVE  SumFunctionOnSet(f, S)
           = IF S = {} THEN 0
             ELSE f[Chosen(S)] + SumFunctionOnSet(f, S \ {Chosen(S)})
<1> DEFINE T == S \ {Chosen(S)}
           g == CHOOSE g : Sums(f, S, g)
           h == CHOOSE h : Sums(f, T, h)
<1>1. IsFiniteSet(T) /\ T \subseteq S
  BY FS_RemoveElement
<1>2. Sums(f, S, g)
  BY SumsExist
<1>3. Sums(f, T, h)
  <2>1. \E k : Sums(f, T, k)
    BY <1>1, SumsExist
  <2> HIDE DEF T
  <2> QED BY <2>1
<1>4. SumFunctionOnSet(f, S) = g[S]
  BY DEF SumFunctionOnSet, FoldFunctionOnSet, MapThenFoldSet, Sums, SumsUp, Chosen
<1>5. SumFunctionOnSet(f, T) = h[T]
  BY DEF SumFunctionOnSet, FoldFunctionOnSet, MapThenFoldSet, Sums, SumsUp, Chosen
<1> HIDE DEF g, h, T
<1>6. g[T] = h[T]
  BY <1>1, <1>2, <1>3, SumsAgree, Zenon
<1>7. g[S] = IF S = {} THEN 0 ELSE f[Chosen(S)] + g[T]
  BY <1>2, Zenon DEF Sums, SumsUp, T
<1> QED BY <1>4, <1>5, <1>6, <1>7 DEF T

-----------------------------------------------------------------------------
(* Induction over a finite set: what every part of it has if its smaller   *)
(* parts have it.                                                          *)
LEMMA SetInduction ==
  ASSUME NEW S, IsFiniteSet(S), NEW Good,
         \A T \in SUBSET S : (\A x \in T : T \ {x} \in Good) => T \in Good
  PROVE  S \in Good
<1> DEFINE N == {n \in Nat : \A T \in Smaller(S, n) : T \in Good}
           m == Cardinality(S)
<1>0. m \in Nat /\ Smaller(S, m) = SUBSET S
  BY FS_CardinalityType, FS_Subset DEF Smaller
<1>1. ASSUME NEW T \in SUBSET S, NEW x \in T
      PROVE  /\ T \ {x} \in SUBSET S /\ Cardinality(T) \in Nat \ {0}
             /\ Cardinality(T \ {x}) = Cardinality(T) - 1
  <2>1. IsFiniteSet(T)
    BY FS_Subset
  <2>2. Cardinality(T) \in Nat /\ Cardinality(T) # 0
    BY <2>1, FS_CardinalityType, FS_EmptySet
  <2>3. Cardinality(T \ {x}) = Cardinality(T) - 1
    BY <2>1, FS_RemoveElement
  <2> QED BY <2>2, <2>3
<1>2. 0 \in N
  <2> SUFFICES ASSUME NEW T \in Smaller(S, 0) PROVE T \in Good
    OBVIOUS
  <2>1. T \in SUBSET S /\ Cardinality(T) <= 0
    BY DEF Smaller
  <2>2. \A x \in T : Cardinality(T) \in Nat \ {0}
    BY <1>1, <2>1
  <2>3. \A x \in T : FALSE
    BY <2>1, <2>2
  <2> QED BY <2>1, <2>3
<1>3. ASSUME NEW n \in 0..(m - 1), n \in N PROVE n + 1 \in N
  <2> SUFFICES ASSUME NEW T \in Smaller(S, n + 1) PROVE T \in Good
    OBVIOUS
  <2>1. T \in SUBSET S /\ Cardinality(T) <= n + 1
    BY DEF Smaller
  <2>2. ASSUME NEW x \in T PROVE T \ {x} \in Good
    <3>1. /\ T \ {x} \in SUBSET S /\ Cardinality(T) \in Nat \ {0}
          /\ Cardinality(T \ {x}) = Cardinality(T) - 1
      BY <1>1, <2>1
    <3>2. T \ {x} \in Smaller(S, n)
      BY <2>1, <3>1 DEF Smaller
    <3> QED BY <1>3, <3>2
  <2> QED BY <2>1, <2>2
<1> HIDE DEF N, m
<1>4. m \in N
  BY <1>0, <1>2, <1>3, RangeInduction
<1> QED BY <1>0, <1>4 DEF N

SumOn(f, S) == SumFunctionOnSet(f, S)

Summable(f, S) == IsFiniteSet(S) /\ \A x \in S : f[x] \in Int

LEMMA SumOfNone == ASSUME NEW f PROVE SumOn(f, {}) = 0
BY SumSteps, FS_EmptySet DEF SumOn

(* Whichever element is taken first.                                       *)
LEMMA SumPick ==
  ASSUME NEW f, NEW S, Summable(f, S)
  PROVE  /\ SumOn(f, S) \in Int
         /\ \A x \in S : SumOn(f, S) = f[x] + SumOn(f, S \ {x})
<1> DEFINE Good == {T \in SUBSET S : /\ SumOn(f, T) \in Int
                                     /\ \A x \in T : /\ SumOn(f, T) = f[x] + SumOn(f, T \ {x})
                                                  /\ SumOn(f, T \ {x}) \in Int}
<1>1. ASSUME NEW T \in SUBSET S, \A x \in T : T \ {x} \in Good PROVE T \in Good
  <2>1. \A x \in T : f[x] \in Int
    BY DEF Summable
  <2>2. IsFiniteSet(T)
    BY FS_Subset DEF Summable
  <2>3. CASE T = {}
    BY <2>3, SumOfNone
  <2>4. CASE T # {}
    <3> DEFINE c == Chosen(T)
    <3>1. c \in T
      BY <2>4 DEF Chosen
    <3>2. SumOn(f, T) = f[c] + SumOn(f, T \ {c})
      BY <2>2, <2>4, SumSteps DEF SumOn
    <3> HIDE DEF c
    <3>3. SumOn(f, T \ {c}) \in Int
      BY <1>1, <3>1
    <3>4. SumOn(f, T) \in Int
      BY <2>1, <3>1, <3>2, <3>3
    <3>5. ASSUME NEW x \in T PROVE SumOn(f, T) = f[x] + SumOn(f, T \ {x})
      <4>1. CASE x = c
        BY <3>2, <4>1
      <4>2. CASE x # c
        <5> DEFINE R == T \ {x}
                   Q == T \ {c}
                   P == (T \ {x}) \ {c}
        <5>1. R \in Good /\ Q \in Good /\ c \in R /\ x \in Q /\ Q \ {x} = P /\ R \ {c} = P
          BY <1>1, <3>1, <4>2
        <5>2. SumOn(f, R) = f[c] + SumOn(f, P) /\ SumOn(f, Q) = f[x] + SumOn(f, P)
          <6>1. /\ \A y \in R : SumOn(f, R) = f[y] + SumOn(f, R \ {y})
                /\ \A y \in Q : SumOn(f, Q) = f[y] + SumOn(f, Q \ {y})
            BY <5>1
          <6> HIDE DEF R, Q, P, Good
          <6>2. SumOn(f, R) = f[c] + SumOn(f, R \ {c}) /\ SumOn(f, Q) = f[x] + SumOn(f, Q \ {x})
            BY <5>1, <6>1
          <6> QED BY <5>1, <6>2
        <5>3. SumOn(f, R) \in Int /\ SumOn(f, Q) \in Int /\ f[x] \in Int /\ f[c] \in Int
          BY <2>1, <3>1, <5>1
        <5>4. SumOn(f, P) \in Int
          BY <5>1
        <5> HIDE DEF R, Q, P
        <5>5. SumOn(f, T) = f[c] + SumOn(f, Q)
          BY <3>2 DEF Q
        <5>6. SumOn(f, T) = f[x] + SumOn(f, R)
          BY <5>2, <5>3, <5>4, <5>5
        <5> QED BY <5>6 DEF R
      <4> QED BY <4>1, <4>2
    <3>6. \A x \in T : SumOn(f, T \ {x}) \in Int
      BY <1>1
    <3> QED BY <3>4, <3>5, <3>6
  <2> QED BY <2>3, <2>4
<1> HIDE DEF Good
<1>2. S \in Good
  BY <1>1, SetInduction DEF Summable
<1> QED BY <1>2 DEF Good

(* Induction over the parts of a sum: none, and one element more.          *)
LEMMA SumInduction ==
  ASSUME NEW S, IsFiniteSet(S), NEW Good, {} \in Good,
         \A T \in SUBSET S : \A x \in T : T \ {x} \in Good => T \in Good
  PROVE  S \in Good
<1>1. ASSUME NEW T \in SUBSET S, \A x \in T : T \ {x} \in Good PROVE T \in Good
  <2>1. CASE T = {}
    BY <2>1
  <2>2. CASE T # {}
    BY <1>1, <2>2
  <2> QED BY <2>1, <2>2
<1> QED BY <1>1, SetInduction

LEMMA PartSummable ==
  ASSUME NEW f, NEW S, Summable(f, S), NEW T, T \subseteq S
  PROVE  Summable(f, T)
BY FS_Subset DEF Summable

LEMMA SumSame ==
  ASSUME NEW f, NEW g, NEW S, Summable(f, S), \A x \in S : f[x] = g[x]
  PROVE  SumOn(f, S) = SumOn(g, S)
<1> DEFINE Good == {T \in SUBSET S : SumOn(f, T) = SumOn(g, T)}
<1>1. Summable(g, S)
  BY DEF Summable
<1>2. {} \in Good
  BY SumOfNone
<1>3. ASSUME NEW T \in SUBSET S, NEW x \in T, T \ {x} \in Good PROVE T \in Good
  <2>1. Summable(f, T) /\ Summable(g, T)
    BY <1>1, PartSummable
  <2>2. SumOn(f, T) = f[x] + SumOn(f, T \ {x}) /\ SumOn(g, T) = g[x] + SumOn(g, T \ {x})
    BY <2>1, SumPick
  <2> QED BY <1>3, <2>2
<1> HIDE DEF Good
<1>4. S \in Good
  BY <1>2, <1>3, SumInduction DEF Summable
<1> QED BY <1>4 DEF Good

LEMMA SumAdds ==
  ASSUME NEW f, NEW g, NEW h, NEW S, Summable(f, S), Summable(g, S),
         \A x \in S : h[x] = f[x] + g[x]
  PROVE  SumOn(h, S) = SumOn(f, S) + SumOn(g, S)
<1> DEFINE Good == {T \in SUBSET S : SumOn(h, T) = SumOn(f, T) + SumOn(g, T)}
<1>1. Summable(h, S)
  BY DEF Summable
<1>2. {} \in Good
  BY SumOfNone
<1>3. ASSUME NEW T \in SUBSET S, NEW x \in T, T \ {x} \in Good PROVE T \in Good
  <2>1. /\ Summable(f, T) /\ Summable(g, T) /\ Summable(h, T)
        /\ Summable(f, T \ {x}) /\ Summable(g, T \ {x})
    BY <1>1, PartSummable
  <2>2. /\ SumOn(f, T) = f[x] + SumOn(f, T \ {x}) /\ SumOn(g, T) = g[x] + SumOn(g, T \ {x})
        /\ SumOn(h, T) = h[x] + SumOn(h, T \ {x})
    BY <2>1, SumPick
  <2>3. /\ SumOn(f, T \ {x}) \in Int /\ SumOn(g, T \ {x}) \in Int
        /\ f[x] \in Int /\ g[x] \in Int /\ h[x] = f[x] + g[x]
    BY <2>1, SumPick DEF Summable
  <2>4. SumOn(h, T \ {x}) = SumOn(f, T \ {x}) + SumOn(g, T \ {x})
    BY <1>3
  <2> QED BY <2>2, <2>3, <2>4
<1> HIDE DEF Good
<1>4. S \in Good
  BY <1>2, <1>3, SumInduction DEF Summable
<1> QED BY <1>4 DEF Good

LEMMA SumZeros ==
  ASSUME NEW f, NEW S, IsFiniteSet(S), \A x \in S : f[x] = 0
  PROVE  SumOn(f, S) = 0
<1> DEFINE Good == {T \in SUBSET S : SumOn(f, T) = 0}
<1>1. Summable(f, S)
  BY DEF Summable
<1>2. {} \in Good
  BY SumOfNone
<1>3. ASSUME NEW T \in SUBSET S, NEW x \in T, T \ {x} \in Good PROVE T \in Good
  <2>1. Summable(f, T)
    BY <1>1, PartSummable
  <2>2. SumOn(f, T) = f[x] + SumOn(f, T \ {x})
    BY <2>1, SumPick
  <2> QED BY <1>3, <2>2
<1> HIDE DEF Good
<1>4. S \in Good
  BY <1>2, <1>3, SumInduction
<1> QED BY <1>4 DEF Good

LEMMA SumJoin ==
  ASSUME NEW f, NEW S, NEW R, Summable(f, S), Summable(f, R), S \cap R = {}
  PROVE  SumOn(f, S \cup R) = SumOn(f, S) + SumOn(f, R)
<1> DEFINE Good == {T \in SUBSET S : SumOn(f, T \cup R) = SumOn(f, T) + SumOn(f, R)}
<1>1. Summable(f, S \cup R) /\ SumOn(f, R) \in Int
  BY FS_Union, SumPick DEF Summable
<1>2. {} \in Good
  <2>1. {} \cup R = R
    OBVIOUS
  <2>2. SumOn(f, {} \cup R) = SumOn(f, R)
    BY <2>1
  <2> QED BY <1>1, <2>2, SumOfNone
<1>3. ASSUME NEW T \in SUBSET S, NEW x \in T, T \ {x} \in Good PROVE T \in Good
  <2>1. Summable(f, T) /\ Summable(f, T \cup R) /\ Summable(f, T \ {x})
    <3>1. T \subseteq S /\ T \ {x} \subseteq S
      OBVIOUS
    <3>2. Summable(f, T) /\ Summable(f, T \ {x})
      BY <3>1, PartSummable
    <3> DEFINE Q == T \cup R
               P == S \cup R
    <3>3. Q \subseteq P /\ Summable(f, P)
      BY <1>1
    <3> HIDE DEF P, Q
    <3>4. Summable(f, Q)
      BY <3>3, PartSummable, Zenon
    <3> QED BY <3>2, <3>4 DEF Q
  <2>2. (T \cup R) \ {x} = (T \ {x}) \cup R /\ x \in T \cup R
    OBVIOUS
  <2>3. SumOn(f, T) = f[x] + SumOn(f, T \ {x})
    BY <2>1, SumPick
  <2>4. SumOn(f, T \cup R) = f[x] + SumOn(f, (T \ {x}) \cup R)
    <3> DEFINE Q == T \cup R
    <3>1. Summable(f, Q) /\ x \in Q /\ Q \ {x} = (T \ {x}) \cup R
      BY <2>1, <2>2
    <3> HIDE DEF Q
    <3>2. SumOn(f, Q) = f[x] + SumOn(f, Q \ {x})
      BY <3>1, SumPick
    <3>3. SumOn(f, Q) = f[x] + SumOn(f, (T \ {x}) \cup R)
      BY <3>1, <3>2, Zenon
    <3> QED BY <3>3, Zenon DEF Q
  <2>5. SumOn(f, T \ {x}) \in Int /\ f[x] \in Int
    BY <2>1, SumPick DEF Summable
  <2>6. SumOn(f, (T \ {x}) \cup R) = SumOn(f, T \ {x}) + SumOn(f, R)
    BY <1>3
  <2> QED BY <1>1, <2>3, <2>4, <2>5, <2>6
<1> HIDE DEF Good
<1>4. S \in Good
  BY <1>2, <1>3, SumInduction DEF Summable
<1> QED BY <1>4 DEF Good

(* Only the elements matter, not the indices they are added by.            *)
LEMMA SumMoved ==
  ASSUME NEW f, NEW S, Summable(f, S), NEW g, NEW R, IsFiniteSet(R),
         NEW b, b \in Bijection(S, R), \A x \in S : g[b[x]] = f[x]
  PROVE  SumOn(f, S) = SumOn(g, R)
<1>0. /\ \A x \in S : b[x] \in R
      /\ \A x, y \in S : b[x] = b[y] => x = y
      /\ \A z \in R : \E x \in S : b[x] = z
  BY DEF Bijection, Injection, Surjection, IsInjective
<1> DEFINE Img(T) == {b[x] : x \in T}
           Good == {T \in SUBSET S : SumOn(f, T) = SumOn(g, Img(T))}
<1>1. Summable(g, R) /\ Img(S) = R
  BY <1>0 DEF Summable
<1>2. {} \in Good
  <2>1. Img({}) = {}
    OBVIOUS
  <2>2. SumOn(g, Img({})) = 0
    BY <2>1, SumOfNone
  <2> QED BY <2>2, SumOfNone
<1>3. ASSUME NEW T \in SUBSET S, NEW x \in T, T \ {x} \in Good PROVE T \in Good
  <2>1. Img(T) \subseteq R /\ b[x] \in Img(T)
    BY <1>0
  <2>2. Img(T) \ {b[x]} = Img(T \ {x})
    BY <1>0
  <2>3. SumOn(f, T \ {x}) = SumOn(g, Img(T \ {x}))
    BY <1>3
  <2> HIDE DEF Img
  <2>4. Summable(f, T) /\ Summable(g, Img(T))
    <3> DEFINE Q == Img(T)
    <3>1. Q \subseteq R
      BY <2>1
    <3> HIDE DEF Q
    <3>2. Summable(g, Q)
      BY <1>1, <3>1, PartSummable, Zenon
    <3>3. Summable(f, T)
      BY PartSummable
    <3> QED BY <3>2, <3>3 DEF Q
  <2>5. SumOn(f, T) = f[x] + SumOn(f, T \ {x})
    BY <2>4, SumPick
  <2>6. SumOn(g, Img(T)) = g[b[x]] + SumOn(g, Img(T) \ {b[x]})
    <3> DEFINE Q == Img(T)
               y == b[x]
    <3>1. Summable(g, Q) /\ y \in Q
      BY <2>1, <2>4
    <3> HIDE DEF Q, y
    <3>2. SumOn(g, Q) = g[y] + SumOn(g, Q \ {y})
      BY <3>1, SumPick
    <3> QED BY <3>2 DEF Q, y
  <2>7. g[b[x]] = f[x]
    OBVIOUS
  <2>8. SumOn(f, T) = SumOn(g, Img(T))
    BY <2>2, <2>3, <2>5, <2>6, <2>7, Zenon
  <2> QED BY <2>8
<1>4. S \in Good
  <2> HIDE DEF Good
  <2> QED BY <1>2, <1>3, SumInduction DEF Summable
<1>5. SumOn(f, S) = SumOn(g, Img(S))
  BY <1>4
<1> HIDE DEF Img
<1> QED BY <1>1, <1>5, Zenon

(* A sum without negatives is at least any one of them.                    *)
LEMMA SumAtLeast ==
  ASSUME NEW f, NEW S, Summable(f, S), \A x \in S : f[x] >= 0
  PROVE  SumOn(f, S) >= 0 /\ \A x \in S : SumOn(f, S) >= f[x]
<1> DEFINE Good == {T \in SUBSET S : SumOn(f, T) >= 0}
<1>1. ASSUME NEW T, T \subseteq S, NEW x \in T
      PROVE  /\ SumOn(f, T) = f[x] + SumOn(f, T \ {x}) /\ SumOn(f, T \ {x}) \in Int
             /\ f[x] \in Int /\ f[x] >= 0
  <2>1. Summable(f, T) /\ Summable(f, T \ {x})
    BY <1>1, PartSummable
  <2> QED BY <1>1, <2>1, SumPick DEF Summable
<1>2. {} \in Good
  BY SumOfNone
<1>3. ASSUME NEW T \in SUBSET S, NEW x \in T, T \ {x} \in Good PROVE T \in Good
  <2>1. SumOn(f, T \ {x}) >= 0
    BY <1>3
  <2> QED BY <1>1, <2>1
<1> HIDE DEF Good
<1>4. \A T \in SUBSET S : T \in Good
  <2> SUFFICES ASSUME NEW T \in SUBSET S PROVE T \in Good
    OBVIOUS
  <2>1. IsFiniteSet(T)
    BY FS_Subset DEF Summable
  <2>2. \A Q \in SUBSET T : \A x \in Q : Q \ {x} \in Good => Q \in Good
    BY <1>3
  <2> QED BY <1>2, <2>1, <2>2, SumInduction
<1>5. SumOn(f, S) >= 0
  BY <1>4 DEF Good
<1>6. ASSUME NEW x \in S PROVE SumOn(f, S) >= f[x]
  <2>1. SumOn(f, S \ {x}) >= 0
    <3>1. S \ {x} \in Good
      BY <1>4
    <3> QED BY <3>1 DEF Good
  <2>2. /\ SumOn(f, S) = f[x] + SumOn(f, S \ {x}) /\ SumOn(f, S \ {x}) \in Int /\ f[x] \in Int
    BY <1>1
  <2> QED BY <2>1, <2>2
<1> QED BY <1>5, <1>6

-----------------------------------------------------------------------------
Window == 0..(Span - 1)

(* The pitch in a window.                                                  *)
LEMMA LagSizes ==
  /\ Span \in Nat \ {0} /\ MinTau \in Nat \ {0} /\ MaxTau \in Nat \ {0} /\ Unit \in Nat \ {0}
  /\ MinTau < MaxTau /\ 2 * MaxTau <= Span /\ Threshold \in Nat \ {0} /\ Threshold <= Unit
  /\ Sound \subseteq [Window -> Int]
BY YinAssumption DEF Window

LEMMA SquareSign ==
  ASSUME NEW n \in Int
  PROVE  Square(n) \in Nat /\ Square(0) = 0 /\ (n # 0 => Square(n) >= 1)
BY DEF Square

LEMMA QuotientNat ==
  ASSUME NEW a \in Nat, NEW d \in Nat \ {0}
  PROVE  a \div d \in Nat /\ 0 \div d = 0
<1> DEFINE q == a \div d
           r == a % d
<1>1. q \in Int /\ r \in 0..(d - 1) /\ a = q * d + r
  BY Remainder
<1> HIDE DEF q, r
<1>2. ~(q < 0)
  <2> SUFFICES ASSUME q < 0 PROVE FALSE
    OBVIOUS
  <2>1. PICK k \in Nat : q = -1 - k
    <3>1. -1 - q \in Nat /\ q = -1 - (-1 - q)
      BY <1>1
    <3> QED BY <3>1
  <2>2. q * d = -d - k * d /\ k * d \in Nat
    BY <2>1
  <2> QED BY <1>1, <2>2
<1>3. 0 \div d = 0
  OBVIOUS
<1> QED BY <1>1, <1>2, <1>3 DEF q

(* Sets of numbers have a least one.                                       *)
LEMMA LeastIs ==
  ASSUME NEW S, S \subseteq Nat, S # {}
  PROVE  Min(S) \in S /\ \A y \in S : Min(S) <= y
<1>1. PICK k \in S : \A j \in S : ~(j < k)
  <2>1. PICK k \in S : \A j \in S : <<j, k>> \notin OpToRel(<, Nat)
    BY WFMin, NatLessThanWellFounded
  <2>2. \A j \in S : j < k => <<j, k>> \in OpToRel(<, Nat)
    BY DEF OpToRel
  <2> QED BY <2>1, <2>2, Zenon
<1>2. \A y \in S : k <= y
  BY <1>1
<1> QED BY <1>2 DEF Min

-----------------------------------------------------------------------------
(* Terms of the difference function fall within the window.                *)
LEMMA DifferenceIs ==
  ASSUME heard \in [Window -> Int], NEW tau \in 1..MaxTau
  PROVE  /\ Diff[tau] \in Nat
         /\ Period(tau) => Diff[tau] = 0
         /\ \A j \in Terms : heard[j] # heard[j + tau] => Diff[tau] >= 1
<1> DEFINE f == [j \in Terms |-> Square(heard[j] - heard[j + tau])]
<1>1. ASSUME NEW j \in Terms
      PROVE  /\ heard[j] \in Int /\ heard[j + tau] \in Int
             /\ j \in 0..(Span - 1 - tau)
  <2>1. j \in Window /\ j + tau \in Window /\ j \in 0..(Span - 1 - tau)
    BY LagSizes DEF Terms, Window
  <2> QED BY <2>1
<1>2. ASSUME NEW j \in Terms
      PROVE  /\ f[j] \in Nat
             /\ heard[j] # heard[j + tau] => f[j] >= 1
             /\ heard[j] = heard[j + tau] => f[j] = 0
  <2> DEFINE n == heard[j] - heard[j + tau]
  <2>1. /\ n \in Int
        /\ heard[j] # heard[j + tau] => n # 0
        /\ heard[j] = heard[j + tau] => n = 0
    BY <1>1
  <2>2. f[j] = Square(n)
    OBVIOUS
  <2> HIDE DEF n, f
  <2> QED BY <2>1, <2>2, SquareSign
<1>3. Diff[tau] = SumOn(f, Terms)
  <2>1. Diff[tau] = SumFunction(f) /\ DOMAIN f = Terms
    BY DEF Diff
  <2> HIDE DEF f
  <2> QED BY <2>1 DEF SumFunction, SumOn
<1>4. IsFiniteSet(Terms)
  <2>1. \A n \in Int : IsFiniteSet(0..n)
    BY FS_Interval
  <2> QED BY <2>1, LagSizes DEF Terms
<1> HIDE DEF f
<1>5. Summable(f, Terms) /\ \A j \in Terms : f[j] >= 0
  BY <1>2, <1>4 DEF Summable
<1>6. SumOn(f, Terms) \in Int /\ SumOn(f, Terms) >= 0 /\ \A j \in Terms : SumOn(f, Terms) >= f[j]
  BY <1>5, SumPick, SumAtLeast
<1>7. Period(tau) => SumOn(f, Terms) = 0
  <2> SUFFICES ASSUME Period(tau) PROVE SumOn(f, Terms) = 0
    OBVIOUS
  <2>1. \A j \in Terms : f[j] = 0
    BY <1>1, <1>2 DEF Period
  <2> QED BY <1>4, <2>1, SumZeros
<1> QED BY <1>2, <1>3, <1>6, <1>7

LEMMA NormalisedIs ==
  ASSUME heard \in [Window -> Int]
  PROVE  /\ Cmndf \in [1..MaxTau -> Nat]
         /\ \A tau \in 1..MaxTau : Diff[1] >= 1 /\ Diff[tau] = 0 => Cmndf[tau] = 0
<1> DEFINE diff == Diff
           sum == RunningSum(diff)
<1>1. \A tau \in 1..MaxTau : diff[tau] \in Nat
  BY DifferenceIs
<1> HIDE DEF diff
<1>2. ASSUME NEW tau \in 1..MaxTau PROVE sum[tau] \in Nat /\ sum[tau] >= diff[1]
  <2> DEFINE T == 1..tau
  <2>1. IsFiniteSet(T) /\ 1 \in T /\ \A t \in T : t \in 1..MaxTau
    <3>1. \A n \in Int : IsFiniteSet(1..n)
      BY FS_Interval
    <3> QED BY <3>1, LagSizes
  <2>2. Summable(diff, T) /\ \A t \in T : diff[t] >= 0
    BY <1>1, <2>1 DEF Summable
  <2>3. sum[tau] = SumOn(diff, T)
    BY DEF RunningSum, SumOn
  <2> HIDE DEF T, sum
  <2>4. SumOn(diff, T) \in Int /\ SumOn(diff, T) >= 0 /\ SumOn(diff, T) >= diff[1]
    BY <2>1, <2>2, SumPick, SumAtLeast
  <2> QED BY <2>3, <2>4
<1>3. Cmndf = [tau \in 1..MaxTau |->
                 IF sum[tau] > 0 THEN (Unit * diff[tau] * tau) \div sum[tau] ELSE Unit]
  BY DEF Cmndf, diff
<1> HIDE DEF sum
<1>4. ASSUME NEW tau \in 1..MaxTau
      PROVE  Cmndf[tau] \in Nat /\ (diff[1] >= 1 /\ diff[tau] = 0 => Cmndf[tau] = 0)
  <2> DEFINE a == Unit * diff[tau] * tau
             s == sum[tau]
  <2>1. a \in Nat /\ (diff[tau] = 0 => a = 0) /\ tau \in Nat
    <3>1. diff[tau] \in Nat /\ Unit \in Nat /\ tau \in Nat
      BY <1>1, LagSizes
    <3> DEFINE n == diff[tau]
    <3> HIDE DEF n
    <3>2. Unit * n \in Nat /\ Unit * n * tau \in Nat /\ (n = 0 => Unit * n * tau = 0)
      BY <3>1 DEF n
    <3> QED BY <3>1, <3>2 DEF n
  <2>2. s \in Nat /\ s >= diff[1] /\ diff[1] \in Nat
    <3>1. 1 \in 1..MaxTau
      BY LagSizes
    <3> QED BY <1>1, <1>2, <3>1
  <2>3. Cmndf[tau] = IF s > 0 THEN a \div s ELSE Unit
    BY <1>3
  <2> HIDE DEF a, s
  <2>4. CASE s > 0
    <3>1. a \div s \in Nat /\ 0 \div s = 0
      BY <2>1, <2>2, <2>4, QuotientNat
    <3> QED BY <2>1, <2>3, <2>4, <3>1
  <2>5. CASE ~(s > 0)
    BY <2>2, <2>3, <2>5, LagSizes
  <2> QED BY <2>4, <2>5
<1> QED BY <1>3, <1>4 DEF diff

(* A sound that repeats itself and is not flat is not flat in any stretch  *)
(* as long as its period, hence not in the terms of the difference.        *)
LEMMA NotFlat ==
  ASSUME heard \in [Window -> Int], NEW p \in 1..MaxTau, Period(p), ~Period(1)
  PROVE  \E j \in Terms : heard[j] # heard[j + 1]
<1> DEFINE S == {j \in 0..(Span - 2) : heard[j] # heard[j + 1]}
           m == Min(S)
<1>1. Span \in Nat /\ p \in Nat \ {0} /\ p <= MaxTau /\ MaxTau \in Nat /\ 2 * MaxTau <= Span
  BY LagSizes
<1>2. S # {} /\ S \subseteq Nat
  <2>1. Span - 1 - 1 = Span - 2
    BY <1>1
  <2> QED BY <2>1 DEF Period
<1>3. m \in S /\ \A y \in S : m <= y
  <2> HIDE DEF S
  <2> QED BY <1>2, LeastIs
<1> HIDE DEF m
<1>4. m \in Nat /\ m <= Span - 2 /\ heard[m] # heard[m + 1]
  BY <1>1, <1>3
<1>5. m <= Span - MaxTau - 1
  <2> SUFFICES ASSUME m > Span - MaxTau - 1 PROVE FALSE
    BY <1>1, <1>4
  <2> DEFINE a == m - p
  <2>1. /\ a \in Nat /\ a < m /\ a \in 0..(Span - 2)
        /\ a \in 0..(Span - 1 - p) /\ a + 1 \in 0..(Span - 1 - p)
        /\ a + p = m /\ (a + 1) + p = m + 1
    BY <1>1, <1>4
  <2> HIDE DEF a
  <2>2. heard[a] = heard[a + p] /\ heard[a + 1] = heard[(a + 1) + p]
    BY <2>1 DEF Period
  <2>3. heard[a] # heard[a + 1]
    BY <1>4, <2>1, <2>2
  <2>4. a \in S
    BY <2>1, <2>3
  <2> QED BY <1>3, <1>4, <2>1, <2>4
<1>6. m \in Terms
  BY <1>1, <1>4, <1>5 DEF Terms
<1> QED BY <1>4, <1>6

(* The descent ends in a dip under the threshold, lower than the lag       *)
(* before it and no higher than the one behind, and not behind a zero.     *)
LEMMA BottomIs ==
  ASSUME NEW c \in [1..MaxTau -> Nat], Dips(c) # {},
         NEW b, b = Bottom(c)
  PROVE  /\ b \in Dips(c) /\ b \in MinTau..MaxTau
         /\ b > MinTau => c[b - 1] > c[b]
         /\ b < MaxTau => c[b + 1] >= c[b]
         /\ \A p \in MinTau..MaxTau : c[p] = 0 => b <= p
<1> DEFINE first == Min(Dips(c))
           Ends == {t \in first..MaxTau : t = MaxTau \/ c[t + 1] >= c[t]}
<1>0. /\ MinTau \in Nat \ {0} /\ MaxTau \in Nat \ {0} /\ MinTau < MaxTau /\ Threshold \in Nat \ {0}
      /\ \A t \in 1..MaxTau : c[t] \in Nat
  BY LagSizes
<1>1. first \in Dips(c) /\ \A y \in Dips(c) : first <= y
  <2>1. Dips(c) \subseteq Nat
    BY <1>0 DEF Dips
  <2> QED BY <2>1, LeastIs
<1>2. first \in MinTau..MaxTau /\ c[first] < Threshold
  BY <1>1 DEF Dips
<1> HIDE DEF first
<1>3. MaxTau \in Ends /\ Ends \subseteq Nat
  BY <1>0, <1>2
<1>4. b \in Ends /\ \A y \in Ends : b <= y
  <2>1. b = Min(Ends)
    BY DEF Bottom, first
  <2> HIDE DEF Ends
  <2> QED BY <1>3, <2>1, LeastIs
<1>5. /\ b \in first..MaxTau /\ b \in Nat /\ first \in Nat
      /\ b = MaxTau \/ c[b + 1] >= c[b]
  BY <1>0, <1>2, <1>4
<1>6. \A t \in first..(b - 1) : c[t + 1] < c[t]
  <2> SUFFICES ASSUME NEW t \in first..(b - 1) PROVE c[t + 1] < c[t]
    OBVIOUS
  <2>1. t \in first..MaxTau /\ t # MaxTau /\ t < b /\ t \in 1..MaxTau /\ t + 1 \in 1..MaxTau
    BY <1>0, <1>2, <1>5
  <2>2. t \notin Ends
    BY <1>4, <1>5, <2>1
  <2>3. ~(c[t + 1] >= c[t])
    BY <2>1, <2>2
  <2> QED BY <1>0, <2>1, <2>3
<1>7. c[b] < Threshold
  <2> DEFINE n == b - first
             G == {k \in Nat : c[first + k] < Threshold}
  <2>1. n \in Nat /\ first + n = b /\ first + 0 = first
    BY <1>5
  <2>2. 0 \in G
    BY <1>2, <2>1
  <2>3. ASSUME NEW k \in 0..(n - 1), k \in G PROVE k + 1 \in G
    <3>1. /\ first + k \in first..(b - 1) /\ first + (k + 1) = (first + k) + 1
          /\ first + k \in 1..MaxTau /\ (first + k) + 1 \in 1..MaxTau
      BY <1>0, <1>2, <1>5, <2>1
    <3>2. c[(first + k) + 1] < c[first + k]
      BY <1>6, <3>1
    <3>3. c[first + k] < Threshold
      BY <2>3
    <3>4. c[first + k] \in Nat /\ c[(first + k) + 1] \in Nat
      BY <1>0, <3>1
    <3>5. c[first + (k + 1)] < Threshold
      BY <1>0, <3>1, <3>2, <3>3, <3>4
    <3> QED BY <2>3, <3>5
  <2> HIDE DEF G, n
  <2>4. n \in G
    <3>1. 0..n \subseteq G
      BY <2>1, <2>2, <2>3, RangeInduction
    <3> QED BY <2>1, <3>1
  <2> QED BY <2>1, <2>4 DEF G
<1>8. b \in MinTau..MaxTau /\ b \in Dips(c)
  BY <1>0, <1>2, <1>5, <1>7 DEF Dips
<1>9. b > MinTau => c[b - 1] > c[b]
  <2> SUFFICES ASSUME b > MinTau PROVE c[b - 1] > c[b]
    OBVIOUS
  <2>0. b - 1 \in MinTau..MaxTau /\ b - 1 \in 1..MaxTau /\ b \in 1..MaxTau /\ (b - 1) + 1 = b
    BY <1>0, <1>5, <1>8
  <2>1. CASE b > first
    <3>1. b - 1 \in first..(b - 1)
      BY <1>5, <2>1
    <3>2. c[(b - 1) + 1] < c[b - 1]
      BY <1>6, <3>1
    <3> QED BY <1>0, <2>0, <3>2
  <2>2. CASE ~(b > first)
    <3>1. b = first /\ ~(first <= b - 1)
      BY <1>5, <2>2
    <3>2. ~(c[b - 1] < Threshold)
      BY <1>1, <2>0, <3>1 DEF Dips
    <3> QED BY <1>0, <1>7, <2>0, <3>2
  <2> QED BY <2>1, <2>2
<1>10. \A p \in MinTau..MaxTau : c[p] = 0 => b <= p
  <2> SUFFICES ASSUME NEW p \in MinTau..MaxTau, c[p] = 0 PROVE b <= p
    OBVIOUS
  <2>1. p \in Dips(c)
    BY <1>0 DEF Dips
  <2>2. p \in first..MaxTau
    BY <1>0, <1>1, <1>5, <2>1
  <2>3. p = MaxTau \/ c[p + 1] >= c[p]
    <3>1. p # MaxTau => p + 1 \in 1..MaxTau
      BY <1>0
    <3> QED BY <1>0, <3>1
  <2> QED BY <1>4, <2>2, <2>3
<1> QED BY <1>5, <1>8, <1>9, <1>10

(* The vertex lies within half a sample of the bottom, inside the range.   *)
LEMMA VertexNear ==
  ASSUME NEW c \in [1..MaxTau -> Nat], NEW b \in MinTau..MaxTau,
         b > MinTau => c[b - 1] > c[b], b < MaxTau => c[b + 1] >= c[b],
         NEW lag, lag = Refined(c, b)
  PROVE  /\ Near(lag, b) /\ InRange(lag) /\ lag # NoLag
         /\ \A p \in Nat : b <= p => ~Less(<<2 * p + 1, 2>>, lag)
<1>0. MinTau \in Nat \ {0} /\ MaxTau \in Nat \ {0} /\ MinTau < MaxTau /\ b \in Nat \ {0}
  BY LagSizes
<1>1. PICK n \in Nat, d \in Nat :
        /\ lag = <<n, d>> /\ d > 0 /\ n > 0
        /\ 2 * n >= 2 * (b * d) - d /\ 2 * n <= 2 * (b * d) + d
        /\ b \in {MinTau, MaxTau} => n = b /\ d = 1
  <2>1. CASE b \in {MinTau, MaxTau}
    <3>1. lag = <<b, 1>>
      BY <2>1 DEF Refined
    <3>2. 2 * b >= 2 * (b * 1) - 1 /\ 2 * b <= 2 * (b * 1) + 1 /\ 1 > 0 /\ b > 0
      BY <1>0
    <3> QED BY <1>0, <3>1, <3>2
  <2>2. CASE b \notin {MinTau, MaxTau}
    <3> DEFINE x == c[b - 1]
               y == c[b]
               z == c[b + 1]
               denom == 2 * (2 * y - x - z)
               d == -denom
               n == b * d + x - z
    <3>1. x \in Nat /\ y \in Nat /\ z \in Nat /\ x > y /\ z >= y
      <4>1. b \in 1..MaxTau /\ b - 1 \in 1..MaxTau /\ b + 1 \in 1..MaxTau /\ b > MinTau /\ b < MaxTau
        BY <1>0, <2>2
      <4> QED BY <4>1
    <3>2. lag = LET sign == IF denom < 0 THEN -1 ELSE 1
                IN IF denom = 0 THEN <<b, 1>>
                   ELSE <<sign * (b * denom + z - x), sign * denom>>
      BY <2>2 DEF Refined
    <3> HIDE DEF x, y, z
    <3>3. denom \in Int /\ denom < 0 /\ d \in Nat /\ d >= 2 /\ b * d \in Nat
      BY <1>0, <3>1
    <3>4. lag = <<(-1) * (b * denom + z - x), (-1) * denom>>
      <4>1. denom < 0 /\ denom # 0
        <5> HIDE DEF denom
        <5> QED BY <3>3
      <4> HIDE DEF denom
      <4> QED BY <3>2, <4>1, Zenon
    <3>5. (-1) * denom = d
      BY <3>3
    <3>6. b * denom \in Int /\ b * denom = -(b * d)
      <4> HIDE DEF denom
      <4> QED BY <1>0, <3>3
    <3>7. (-1) * (b * denom + z - x) = n
      <4> DEFINE e == b * denom
                 f == b * d
      <4>1. e \in Int /\ f \in Int /\ e = -f
        BY <3>3, <3>6
      <4>2. n = f + x - z
        OBVIOUS
      <4> HIDE DEF e, f, n
      <4>3. (-1) * (e + z - x) = n
        BY <3>1, <4>1, <4>2
      <4> QED BY <4>3 DEF e
    <3>8. b * d >= d
      <4> HIDE DEF d
      <4>1. PICK k \in Nat : b = 1 + k
        <5>1. b - 1 \in Nat /\ b = 1 + (b - 1)
          BY <1>0
        <5> QED BY <5>1
      <4>2. b * d = d + k * d /\ k * d \in Nat
        BY <3>3, <4>1
      <4> QED BY <3>3, <4>2
    <3>9. 2 * (x - z) <= d /\ 2 * (z - x) <= d
      BY <3>1
    <3>10. n \in Nat /\ n > 0 /\ 2 * n >= 2 * (b * d) - d /\ 2 * n <= 2 * (b * d) + d
      <4> DEFINE f == b * d
      <4>1. f \in Nat /\ f >= d /\ n = f + x - z
        BY <3>3, <3>8
      <4> HIDE DEF f, n, d
      <4>2. n \in Int /\ 2 * n >= 2 * f - d /\ 2 * n <= 2 * f + d /\ n > 0
        BY <3>1, <3>3, <3>9, <4>1
      <4> QED BY <4>2 DEF f
    <3>11. lag = <<n, d>>
      <4> HIDE DEF n, d, denom
      <4> QED BY <3>4, <3>5, <3>7
    <3> HIDE DEF n, d
    <3> QED BY <2>2, <3>3, <3>10, <3>11
  <2> QED BY <2>1, <2>2
<1>2. lag[1] = n /\ lag[2] = d
  BY <1>1
<1>3. b * d \in Nat
  BY <1>0, <1>1
<1>4. Near(lag, b)
  <2>1. n * 2 >= (2 * b - 1) * d /\ (2 * b + 1) * d >= n * 2
    <3>1. (2 * b - 1) * d = 2 * (b * d) - d /\ (2 * b + 1) * d = 2 * (b * d) + d
      BY <1>0, <1>1
    <3> QED BY <1>1, <1>3, <3>1
  <2>2. (2 * b - 1) * d \in Int /\ (2 * b + 1) * d \in Int
    BY <1>0, <1>1
  <2>3. ~(n * 2 < (2 * b - 1) * d) /\ ~((2 * b + 1) * d < n * 2)
    BY <1>1, <2>1, <2>2
  <2> QED BY <1>2, <2>3 DEF Near, Less
<1>5. InRange(lag)
  <2>1. n >= MinTau * d /\ MaxTau * d >= n /\ MinTau * d \in Int /\ MaxTau * d \in Int
    <3>1. CASE b \in {MinTau, MaxTau}
      <4>1. n = b /\ d = 1 /\ MinTau * 1 = MinTau /\ MaxTau * 1 = MaxTau
        BY <1>0, <1>1, <3>1
      <4> QED BY <1>0, <4>1
    <3>2. CASE b \notin {MinTau, MaxTau}
      <4>1. PICK k \in Nat : b = MinTau + 1 + k
        <5>1. b - MinTau - 1 \in Nat /\ b = MinTau + 1 + (b - MinTau - 1)
          BY <1>0, <3>2
        <5> QED BY <5>1
      <4>2. PICK l \in Nat : MaxTau = b + 1 + l
        <5>1. MaxTau - b - 1 \in Nat /\ MaxTau = b + 1 + (MaxTau - b - 1)
          BY <1>0, <3>2
        <5> QED BY <5>1
      <4>3. b * d = MinTau * d + d + k * d /\ k * d \in Nat /\ MinTau * d \in Nat
        BY <1>0, <1>1, <4>1
      <4>4. MaxTau * d = b * d + d + l * d /\ l * d \in Nat
        BY <1>0, <1>1, <4>2
      <4> QED BY <1>1, <1>3, <4>3, <4>4
    <3> QED BY <3>1, <3>2
  <2>2. ~(n * 1 < MinTau * d) /\ ~(MaxTau * d < n * 1)
    BY <1>1, <2>1
  <2> QED BY <1>2, <2>2 DEF InRange, Less
<1>6. lag # NoLag
  <2>1. lag[1] # 0
    BY <1>1, <1>2
  <2> QED BY <2>1 DEF NoLag
<1>7. ASSUME NEW p \in Nat, b <= p PROVE ~Less(<<2 * p + 1, 2>>, lag)
  <2>1. PICK k \in Nat : p = b + k
    <3>1. p - b \in Nat /\ p = b + (p - b)
      BY <1>0, <1>7
    <3> QED BY <3>1
  <2>2. (2 * p + 1) * d = 2 * (b * d) + d + 2 * (k * d) /\ k * d \in Nat
    BY <1>0, <1>1, <2>1
  <2>3. ~((2 * p + 1) * d < n * 2)
    BY <1>1, <1>3, <2>2
  <2> QED BY <1>2, <2>3 DEF Less
<1> QED BY <1>4, <1>5, <1>6, <1>7

-----------------------------------------------------------------------------
(* A lag is what the analysis of this window finds.                        *)
LagInv == heard \in [Window -> Int] /\ (pitch # Waiting => pitch = Found(Cmndf))

LEMMA LagIsTrue == LagInv => PitchIsTrue
<1> SUFFICES ASSUME LagInv, pitch # Waiting PROVE PitchIsTrue
  BY DEF PitchIsTrue
<1> DEFINE c == Cmndf
           b == Bottom(c)
           lag == Refined(c, b)
<1>1. /\ c \in [1..MaxTau -> Nat]
      /\ \A tau \in 1..MaxTau : Diff[1] >= 1 /\ Diff[tau] = 0 => c[tau] = 0
  BY NormalisedIs DEF LagInv
<1>2. pitch = IF ~SignalPresent \/ Dips(c) = {} THEN NoLag
              ELSE IF InRange(lag) THEN lag ELSE NoLag
  BY DEF LagInv, Found
<1> HIDE DEF c
<1>3. ASSUME Dips(c) # {}
      PROVE  /\ b \in Dips(c) /\ b \in MinTau..MaxTau
             /\ b > MinTau => c[b - 1] > c[b]
             /\ b < MaxTau => c[b + 1] >= c[b]
             /\ \A p \in MinTau..MaxTau : c[p] = 0 => b <= p
             /\ Near(lag, b) /\ InRange(lag) /\ lag # NoLag
             /\ \A p \in Nat : b <= p => ~Less(<<2 * p + 1, 2>>, lag)
  <2>0. b = Bottom(c) /\ lag = Refined(c, b)
    OBVIOUS
  <2> HIDE DEF b, lag
  <2>1. /\ b \in Dips(c) /\ b \in MinTau..MaxTau
        /\ b > MinTau => c[b - 1] > c[b]
        /\ b < MaxTau => c[b + 1] >= c[b]
        /\ \A p \in MinTau..MaxTau : c[p] = 0 => b <= p
    BY <1>1, <1>3, <2>0, BottomIs
  <2>2. /\ Near(lag, b) /\ InRange(lag) /\ lag # NoLag
        /\ \A p \in Nat : b <= p => ~Less(<<2 * p + 1, 2>>, lag)
    BY <1>1, <2>0, <2>1, VertexNear
  <2> QED BY <2>1, <2>2
<1> HIDE DEF b, lag
<1>4. ASSUME NEW p \in MinTau..MaxTau, Period(p), ~Period(1), SignalPresent
      PROVE  pitch # NoLag /\ ~Less(<<2 * p + 1, 2>>, pitch)
  <2>0. p \in 1..MaxTau /\ 1 \in 1..MaxTau /\ p \in Nat
    BY LagSizes
  <2>1. Diff[p] = 0
    BY <1>4, <2>0, DifferenceIs DEF LagInv
  <2>2. Diff[1] >= 1
    <3>1. PICK j \in Terms : heard[j] # heard[j + 1]
      BY <1>4, <2>0, NotFlat DEF LagInv
    <3> QED BY <2>0, <3>1, DifferenceIs DEF LagInv
  <2>3. c[p] = 0
    BY <1>1, <2>0, <2>1, <2>2
  <2>4. p \in Dips(c)
    BY <2>3, LagSizes DEF Dips
  <2>5. pitch = lag /\ b <= p
    BY <1>2, <1>3, <1>4, <2>3, <2>4
  <2> QED BY <1>3, <2>0, <2>4, <2>5
<1>5. ASSUME pitch # NoLag
      PROVE  \E t \in Dips(c) :
               /\ Near(pitch, t)
               /\ \A n \in {t - 1, t + 1} \cap (MinTau..MaxTau) : c[n] >= c[t]
  <2>1. Dips(c) # {} /\ pitch = lag
    BY <1>2, <1>5
  <2>2. b \in Dips(c) /\ Near(pitch, b)
    BY <1>3, <2>1
  <2>3. ASSUME NEW n \in {b - 1, b + 1} \cap (MinTau..MaxTau) PROVE c[n] >= c[b]
    <3>1. b \in MinTau..MaxTau /\ b \in 1..MaxTau /\ n \in 1..MaxTau
      BY <1>3, <2>1, LagSizes
    <3>2. c[b] \in Nat /\ c[n] \in Nat
      BY <1>1, <3>1
    <3>3. CASE n = b - 1
      BY <1>3, <2>1, <3>1, <3>2, <3>3, LagSizes
    <3>4. CASE n = b + 1
      BY <1>3, <2>1, <3>1, <3>2, <3>4, LagSizes
    <3> QED BY <3>3, <3>4
  <2> QED BY <2>2, <2>3
<1> QED BY <1>4, <1>5 DEF PitchIsTrue, c

(* Theorem: for windows, ranges, thresholds and roundings of any size, a   *)
(* note that repeats itself in range and is not flat is given a pitch, a   *)
(* sound that repeats itself none more than half a sample of lag below its *)
(* own, and a pitch lies within half a sample of a dip under the threshold *)
(* (src/TunerDetector.cpp:69-124).                                         *)
THEOREM PitchAlwaysTrue == YinSpec => []PitchIsTrue
<1>1. YinInit => LagInv
  <2>1. Quiet \in [Window -> Int]
    BY DEF Quiet, Window
  <2> QED BY <2>1 DEF YinInit, LagInv
<1>2. LagInv /\ [YinNext]_analysis => LagInv'
  <2> SUFFICES ASSUME LagInv, [YinNext]_analysis PROVE LagInv'
    OBVIOUS
  <2>1. CASE Capture
    BY <2>1, LagSizes DEF Capture, LagInv
  <2>2. CASE Analyze
    <3>1. heard' = heard /\ pitch' = Found(Cmndf)
      BY <2>2 DEF Analyze
    <3>2. Found(Cmndf)' = Found(Cmndf)
      BY <3>1 DEF Found, Cmndf, Diff, SignalPresent
    <3> QED BY <3>1, <3>2 DEF LagInv
  <2>3. CASE Again
    <3>1. Quiet \in [Window -> Int]
      BY DEF Quiet, Window
    <3> QED BY <2>3, <3>1 DEF Again, LagInv
  <2>4. CASE UNCHANGED analysis
    <3>1. heard' = heard /\ pitch' = pitch
      BY <2>4 DEF analysis
    <3>2. Found(Cmndf)' = Found(Cmndf)
      BY <3>1 DEF Found, Cmndf, Diff, SignalPresent
    <3> QED BY <3>1, <3>2 DEF LagInv
  <2> QED BY <2>1, <2>2, <2>3, <2>4 DEF YinNext
<1> QED BY <1>1, <1>2, LagIsTrue, PTL DEF YinSpec

-----------------------------------------------------------------------------
(* The convolver.                                                          *)
Within == 0..(Block - 1)

LEMMA BlockSizes ==
  /\ Block \in Nat \ {0} /\ FftSize \in Nat \ {0} /\ MaxPartitions \in Nat \ {0} /\ MaxTaps \in Nat
  /\ FftSize >= 2 * Block - 1 /\ FftSize >= Block
  /\ IsFiniteSet(Within) /\ IsFiniteSet(Frame)
<1>1. /\ Block \in Nat \ {0} /\ FftSize \in Nat \ {0} /\ MaxPartitions \in Nat \ {0} /\ MaxTaps \in Nat
      /\ FftSize >= 2 * Block - 1
  BY ConvolverAssumption
<1>2. \A n \in Int : IsFiniteSet(0..n)
  BY FS_Interval
<1> QED BY <1>1, <1>2 DEF Within, Frame

(* A frame that is silent after its first block.                           *)
Short(h) == h \in [Frame -> Int] /\ \A q \in Frame : q >= Block => h[q] = 0

LEMMA PaddedShort ==
  ASSUME NEW x \in [Within -> Int]
  PROVE  Short(Padded(x)) /\ \A k \in Within : Padded(x)[k] = x[k]
BY BlockSizes DEF Within, Frame, Short, Padded

LEMMA WithinFrame == Within \subseteq Frame
BY BlockSizes DEF Within, Frame

(* Of a circular product only the terms of the first block count.          *)
LEMMA CircularWithin ==
  ASSUME NEW x \in [Within -> Int], NEW h, Short(h), NEW j \in Frame,
         NEW f, \A k \in Within : f[k] = x[k] * h[(j - k) % FftSize]
  PROVE  Circular(Padded(x), h, j) = SumOn(f, Within) /\ Summable(f, Within)
<1> DEFINE y == Padded(x)
           c == [k \in Frame |-> y[k] * h[(j - k) % FftSize]]
           Rest == Block..(FftSize - 1)
<1>1. \A k \in Frame : (j - k) % FftSize \in Frame
  <2>1. \A k \in Frame : j - k \in Int
    BY BlockSizes DEF Frame
  <2> QED BY <2>1, BlockSizes, Remainder DEF Frame
<1>2. \A k \in Frame : h[(j - k) % FftSize] \in Int
  BY <1>1 DEF Short
<1>3. Short(y) /\ \A k \in Within : y[k] = x[k]
  BY PaddedShort
<1>4. Circular(y, h, j) = SumOn(c, Frame)
  <2>1. DOMAIN c = Frame
    OBVIOUS
  <2> QED BY <2>1 DEF Circular, SumFunction, SumOn
<1> HIDE DEF y
<1>5. \A k \in Frame : c[k] \in Int
  <2> SUFFICES ASSUME NEW k \in Frame PROVE c[k] \in Int
    OBVIOUS
  <2>1. y[k] \in Int /\ h[(j - k) % FftSize] \in Int
    BY <1>2, <1>3 DEF Short
  <2> QED BY <2>1
<1>6. \A k \in Rest : c[k] = 0
  <2> SUFFICES ASSUME NEW k \in Rest PROVE c[k] = 0
    OBVIOUS
  <2>1. k \in Frame /\ k >= Block
    BY BlockSizes DEF Frame
  <2>2. y[k] = 0 /\ h[(j - k) % FftSize] \in Int
    BY <1>2, <1>3, <2>1 DEF Short
  <2> QED BY <2>1, <2>2
<1>7. \A k \in Within : f[k] = c[k] /\ f[k] \in Int
  BY <1>3, <1>5, WithinFrame
<1>8. Frame = Within \cup Rest /\ Within \cap Rest = {} /\ IsFiniteSet(Rest)
  <2>1. Frame = Within \cup Rest /\ Within \cap Rest = {}
    BY BlockSizes DEF Within, Frame
  <2>2. \A n \in Int, k \in Int : IsFiniteSet(n..k)
    BY FS_Interval
  <2> QED BY <2>1, <2>2, BlockSizes
<1> HIDE DEF c, Rest
<1>9. Summable(c, Within) /\ Summable(c, Rest) /\ Summable(f, Within)
  BY <1>5, <1>7, <1>8, BlockSizes DEF Summable
<1>10. SumOn(c, Within \cup Rest) = SumOn(c, Within) + SumOn(c, Rest)
  BY <1>8, <1>9, SumJoin
<1>11. SumOn(c, Rest) = 0
  BY <1>6, <1>8, SumZeros
<1>12. SumOn(f, Within) = SumOn(c, Within)
  BY <1>7, <1>9, SumSame
<1>13. SumOn(c, Within) \in Int
  BY <1>9, SumPick
<1>14. SumOn(c, Frame) = SumOn(c, Within)
  BY <1>8, <1>10, <1>11, <1>13
<1> QED BY <1>4, <1>9, <1>12, <1>14 DEF y

(* Its first half: what the block adds to itself.                          *)
LEMMA CircularHead ==
  ASSUME NEW x \in [Within -> Int], NEW h, Short(h), NEW m \in Within
  PROVE  LET f == [k \in Within |-> IF k <= m THEN x[k] * h[m - k] ELSE 0] IN
         Circular(Padded(x), h, m) = SumOn(f, Within) /\ Summable(f, Within)
<1> DEFINE f == [k \in Within |-> IF k <= m THEN x[k] * h[m - k] ELSE 0]
<1>1. ASSUME NEW k \in Within PROVE f[k] = x[k] * h[(m - k) % FftSize]
  <2>1. k \in Nat /\ m \in Nat /\ k < Block /\ m < Block /\ x[k] \in Int
    BY BlockSizes DEF Within
  <2>2. CASE k <= m
    <3>1. m - k = 0 * FftSize + (m - k) /\ m - k \in 0..(FftSize - 1)
      BY <2>1, <2>2, BlockSizes
    <3>2. (m - k) % FftSize = m - k
      <4> DEFINE a == m - k
      <4> HIDE DEF a
      <4>1. a \in Int /\ 0 \in Int /\ a \in 0..(FftSize - 1) /\ a = 0 * FftSize + a
        BY <2>1, <3>1 DEF a
      <4>2. a % FftSize = a
        BY <4>1, BlockSizes, QuotientIs
      <4> QED BY <4>2 DEF a
    <3> QED BY <2>2, <3>2
  <2>3. CASE k > m
    <3> DEFINE a == m - k
               r == m - k + FftSize
    <3>1. a \in Int /\ -1 \in Int /\ a = (-1) * FftSize + r /\ r \in 0..(FftSize - 1) /\ r >= Block
      BY <2>1, <2>3, BlockSizes
    <3>2. r \in Frame
      BY <3>1 DEF Frame
    <3> HIDE DEF a, r
    <3>3. a % FftSize = r
      BY <3>1, BlockSizes, QuotientIs
    <3>4. h[r] = 0
      BY <3>1, <3>2 DEF Short
    <3>5. x[k] * h[a % FftSize] = 0
      BY <2>1, <3>3, <3>4
    <3> QED BY <2>1, <2>3, <3>5 DEF a
  <2> QED BY <2>1, <2>2, <2>3
<1>2. m \in Frame
  BY WithinFrame
<1> HIDE DEF f
<1>3. Circular(Padded(x), h, m) = SumOn(f, Within) /\ Summable(f, Within)
  BY <1>1, <1>2, CircularWithin
<1> QED BY <1>3 DEF f

(* Its second half: what the block adds to the one after it.               *)
LEMMA CircularTail ==
  ASSUME NEW x \in [Within -> Int], NEW h, Short(h), NEW m \in 0..(Overlap - 1)
  PROVE  LET f == [k \in Within |-> IF k > m THEN x[k] * h[Block + m - k] ELSE 0] IN
         Circular(Padded(x), h, Block + m) = SumOn(f, Within) /\ Summable(f, Within)
<1> DEFINE f == [k \in Within |-> IF k > m THEN x[k] * h[Block + m - k] ELSE 0]
           j == Block + m
<1>0. m \in Nat /\ m <= Block - 2 /\ j \in Int
  BY BlockSizes DEF Overlap
<1>1. ASSUME NEW k \in Within PROVE f[k] = x[k] * h[(j - k) % FftSize]
  <2>1. k \in Nat /\ k < Block /\ x[k] \in Int
    BY BlockSizes DEF Within
  <2>2. (j - k) % FftSize = j - k
    <3> DEFINE a == j - k
    <3>1. a \in Int /\ 0 \in Int /\ a \in 0..(FftSize - 1) /\ a = 0 * FftSize + a
      BY <1>0, <2>1, BlockSizes
    <3> HIDE DEF a
    <3>2. a % FftSize = a
      BY <3>1, BlockSizes, QuotientIs
    <3> QED BY <3>2 DEF a
  <2>3. CASE k > m
    <3>1. f[k] = x[k] * h[Block + m - k]
      BY <2>3
    <3>2. Block + m - k = j - k
      BY <1>0, <2>1, BlockSizes
    <3> HIDE DEF f, j
    <3> QED BY <2>2, <3>1, <3>2
  <2>4. CASE k <= m
    <3>1. j - k \in Frame /\ j - k >= Block
      BY <1>0, <2>1, <2>4, BlockSizes DEF Frame
    <3>2. h[j - k] = 0
      BY <3>1 DEF Short
    <3>3. x[k] * h[(j - k) % FftSize] = 0
      BY <2>1, <2>2, <3>2
    <3> QED BY <1>0, <2>1, <2>4, <3>3
  <2> QED BY <1>0, <2>1, <2>3, <2>4
<1>2. j \in Frame
  BY <1>0, BlockSizes DEF Frame
<1> HIDE DEF f, j
<1>3. Circular(Padded(x), h, j) = SumOn(f, Within) /\ Summable(f, Within)
  BY <1>1, <1>2, CircularWithin
<1> QED BY <1>3 DEF f, j

(* Head and tail together: the direct convolution of one partition with    *)
(* the block u and, where it reaches over its start, the block v before.   *)
Reaching(u, v, m, q) == IF q <= m THEN u[m - q] ELSE v[Block + m - q]

LEMMA HeadAndTail ==
  ASSUME NEW u \in [Within -> Int], NEW v \in [Within -> Int], NEW h, Short(h), NEW m \in Within
  PROVE  LET g == [q \in Within |-> h[q] * Reaching(u, v, m, q)] IN
         /\ Summable(g, Within)
         /\ Circular(Padded(u), h, m)
              + (IF m < Overlap THEN Circular(Padded(v), h, Block + m) ELSE 0) = SumOn(g, Within)
<1> DEFINE g == [q \in Within |-> h[q] * Reaching(u, v, m, q)]
           e == [k \in Within |-> IF k <= m THEN u[k] * h[m - k] ELSE 0]
           d == [k \in Within |-> IF k > m THEN v[k] * h[Block + m - k] ELSE 0]
           f == [k \in Within |-> IF k <= m THEN u[k] * h[m - k] ELSE v[k] * h[Block + m - k]]
           b == [k \in Within |-> IF k <= m THEN m - k ELSE Block + m - k]
           tail == IF m < Overlap THEN Circular(Padded(v), h, Block + m) ELSE 0
<1>0. m \in Nat /\ m < Block /\ Block \in Nat /\ Overlap = Block - 1
  BY BlockSizes DEF Within, Overlap
<1>1. Circular(Padded(u), h, m) = SumOn(e, Within) /\ Summable(e, Within)
  BY CircularHead
<1>2. tail = SumOn(d, Within) /\ Summable(d, Within)
  <2>1. CASE m < Overlap
    <3>1. m \in 0..(Overlap - 1)
      BY <1>0, <2>1
    <3> QED BY <2>1, <3>1, CircularTail
  <2>2. CASE ~(m < Overlap)
    <3>1. \A k \in Within : k \in Int /\ ~(k > m)
      BY <1>0, <2>2 DEF Within
    <3>2. \A k \in Within : d[k] = 0
      BY <3>1
    <3> HIDE DEF d
    <3>3. SumOn(d, Within) = 0
      BY <3>2, BlockSizes, SumZeros
    <3> QED BY <2>2, <3>2, <3>3, BlockSizes DEF Summable
  <2> QED BY <2>1, <2>2
<1>3. ASSUME NEW k \in Within
      PROVE  /\ b[k] \in Within /\ b[b[k]] = k /\ f[k] = e[k] + d[k] /\ g[b[k]] = f[k]
  <2>1. k \in Nat /\ k < Block /\ u[k] \in Int /\ v[k] \in Int
    BY <1>0 DEF Within
  <2>2. CASE k <= m
    <3> DEFINE q == m - k
    <3>1. q \in Within /\ q <= m /\ m - q = k
      BY <1>0, <2>1, <2>2 DEF Within
    <3>2. h[q] \in Int
      BY <3>1, WithinFrame DEF Short
    <3>3. b[k] = q /\ b[q] = k
      BY <2>2, <3>1
    <3>4. e[k] = u[k] * h[q] /\ d[k] = 0 /\ f[k] = u[k] * h[q]
      BY <1>0, <2>1, <2>2
    <3>5. g[q] = h[q] * u[k]
      BY <3>1 DEF Reaching
    <3> HIDE DEF q, b, e, d, f, g
    <3> QED BY <2>1, <3>1, <3>2, <3>3, <3>4, <3>5
  <2>3. CASE k > m
    <3> DEFINE q == Block + m - k
    <3>1. q \in Within /\ q > m /\ q \in Nat /\ Block + m - q = k
      BY <1>0, <2>1, <2>3 DEF Within
    <3>2. h[q] \in Int
      BY <3>1, WithinFrame DEF Short
    <3>3. ~(k <= m) /\ ~(q <= m)
      BY <1>0, <2>1, <2>3, <3>1
    <3>4. b[k] = q /\ b[q] = k
      BY <3>1, <3>3
    <3>5. e[k] = 0 /\ d[k] = v[k] * h[q] /\ f[k] = v[k] * h[q]
      BY <2>3, <3>3
    <3>6. g[q] = h[q] * v[k]
      BY <3>1, <3>3 DEF Reaching
    <3> HIDE DEF q, b, e, d, f, g
    <3> QED BY <2>1, <3>1, <3>2, <3>4, <3>5, <3>6
  <2> QED BY <1>0, <2>1, <2>2, <2>3
<1> HIDE DEF g, e, d, f, b, tail
<1>4. SumOn(f, Within) = SumOn(e, Within) + SumOn(d, Within) /\ Summable(f, Within)
  <2>1. \A k \in Within : f[k] = e[k] + d[k] /\ f[k] \in Int
    BY <1>1, <1>2, <1>3 DEF Summable
  <2> QED BY <1>1, <1>2, <2>1, SumAdds DEF Summable
<1>5. SumOn(f, Within) = SumOn(g, Within) /\ Summable(g, Within)
  <2>1. \A k \in Within : b[k] \in Within /\ g[b[k]] = f[k]
    BY <1>3
  <2>2. \A k, l \in Within : b[k] = b[l] => k = l
    BY <1>3
  <2>3. \A z \in Within : \E k \in Within : b[k] = z
    BY <1>3
  <2>4. b \in [Within -> Within]
    BY <1>3 DEF b
  <2>6. b \in Bijection(Within, Within)
    BY <2>2, <2>3, <2>4, Fun_IsBij
  <2>7. SumOn(f, Within) = SumOn(g, Within)
    BY <1>4, <2>1, <2>6, BlockSizes, SumMoved
  <2>5. \A z \in Within : g[z] \in Int
    BY <1>4, <2>1, <2>3 DEF Summable
  <2> QED BY <2>5, <2>7, BlockSizes DEF Summable
<1>6. Circular(Padded(u), h, m) + tail = SumOn(g, Within)
  BY <1>1, <1>2, <1>4, <1>5
<1> QED BY <1>5, <1>6 DEF g, tail

LEMMA PartitionShort ==
  ASSUME taps \in Seq(Int), NEW p \in Nat
  PROVE  Short(Partition(p))
<1>1. ASSUME NEW j \in Frame PROVE Partition(p)[j] \in Int /\ (j >= Block => Partition(p)[j] = 0)
  <2>1. j \in Nat /\ Block \in Nat /\ p * Block \in Nat
    BY BlockSizes DEF Frame
  <2>2. CASE j < Block /\ p * Block + j < Len(taps)
    <3>1. p * Block + j + 1 \in 1..Len(taps)
      BY <2>1, <2>2
    <3>2. taps[p * Block + j + 1] \in Int
      BY <3>1
    <3> QED BY <2>1, <2>2, <3>2 DEF Partition
  <2>3. CASE ~(j < Block /\ p * Block + j < Len(taps))
    BY <2>1, <2>3 DEF Partition
  <2> QED BY <2>2, <2>3
<1> QED BY <1>1 DEF Short, Partition

(* The partitions in use hold all taps and fit the ring.                   *)
LEMMA PartitionsHold ==
  ASSUME taps \in Seq(Int), Len(taps) <= MaxTaps
  PROVE  /\ ActivePartitions \in Nat /\ ActivePartitions <= MaxPartitions
         /\ Len(taps) \in Nat /\ Len(taps) <= ActivePartitions * Block
<1> DEFINE L == Len(taps)
           a == L + Block - 1
           A == a \div Block
           r == a % Block
<1>1. L \in Nat /\ a \in Int
  BY BlockSizes
<1>2. A \in Int /\ r \in 0..(Block - 1) /\ a = A * Block + r
  <2> HIDE DEF a
  <2> QED BY <1>1, BlockSizes, Remainder
<1>3. A = ActivePartitions
  BY DEF ActivePartitions
<1>4. L <= MaxPartitions * Block /\ MaxPartitions * Block \in Nat
  BY <1>1, ConvolverAssumption, BlockSizes
<1> HIDE DEF A, r, L
<1>5. L <= A * Block /\ A * Block \in Int
  BY <1>1, <1>2, BlockSizes
<1>6. ~(A < 0)
  <2> SUFFICES ASSUME A < 0 PROVE FALSE
    OBVIOUS
  <2>1. PICK k \in Nat : A = -1 - k
    <3>1. -1 - A \in Nat /\ A = -1 - (-1 - A)
      BY <1>2
    <3> QED BY <3>1
  <2>2. A * Block = -Block - k * Block /\ k * Block \in Nat
    BY <2>1, BlockSizes
  <2> QED BY <1>1, <1>2, <2>2, BlockSizes
<1>7. ~(A > MaxPartitions)
  <2> SUFFICES ASSUME A > MaxPartitions PROVE FALSE
    OBVIOUS
  <2>1. PICK k \in Nat : A = MaxPartitions + 1 + k
    <3>1. A - MaxPartitions - 1 \in Nat /\ A = MaxPartitions + 1 + (A - MaxPartitions - 1)
      BY <1>2, BlockSizes
    <3> QED BY <3>1
  <2>2. A * Block = MaxPartitions * Block + Block + k * Block /\ k * Block \in Nat
    BY <2>1, BlockSizes
  <2> QED BY <1>1, <1>2, <1>4, <2>2, BlockSizes
<1>8. A \in Nat /\ A <= MaxPartitions
  BY <1>2, <1>6, <1>7, BlockSizes
<1> QED BY <1>1, <1>3, <1>5, <1>8 DEF L

(* The blocks X, latest first, as direct convolution reads them: what was  *)
(* heard age samples before the m-th of the block to come, and their sum.  *)
Pasts == [1..(MaxPartitions + 1) -> [Within -> Int]]

Ago(X, m, age) == X[((age - m - 1) \div Block) + 1][(m - age) % Block]

Late(X, m) == SumFunction([k \in 1..Len(taps) |-> taps[k] * Ago(X, m, k - 1 + Block)])

LEMMA AgoReaching ==
  ASSUME NEW X, NEW m \in Within, NEW q \in Within, NEW p \in Nat
  PROVE  Ago(X, m, p * Block + q + Block) = Reaching(X[p + 1], X[p + 2], m, q)
<1> DEFINE age == p * Block + q + Block
           a == age - m - 1
           c == m - age
<1>1. p * Block \in Nat /\ q \in Nat /\ m \in Nat /\ q < Block /\ m < Block /\ Block \in Nat \ {0}
  BY BlockSizes DEF Within
<1>2. a \in Int /\ c \in Int
  BY <1>1
<1>3. CASE q <= m
  <2> DEFINE r == q + Block - 1 - m
             s == m - q
  <2>1. /\ a = p * Block + r /\ r \in 0..(Block - 1)
        /\ c = (-1 - p) * Block + s /\ s \in 0..(Block - 1) /\ -1 - p \in Int /\ p \in Int
    BY <1>1, <1>3
  <2> HIDE DEF r, s, a, c
  <2>2. a \div Block = p /\ c % Block = s
    BY <1>1, <1>2, <2>1, QuotientIs
  <2>3. X[(a \div Block) + 1][c % Block] = X[p + 1][s]
    BY <2>2
  <2> QED BY <1>3, <2>3 DEF Ago, Reaching, a, c, s
<1>4. CASE ~(q <= m)
  <2> DEFINE r == q - 1 - m
             s == Block + m - q
  <2>1. /\ a = (p + 1) * Block + r /\ r \in 0..(Block - 1) /\ p + 1 \in Int
        /\ c = (-2 - p) * Block + s /\ s \in 0..(Block - 1) /\ -2 - p \in Int
    BY <1>1, <1>4
  <2> HIDE DEF r, s, a, c
  <2>2. a \div Block = p + 1 /\ c % Block = s
    BY <1>1, <1>2, <2>1, QuotientIs
  <2>3. X[(a \div Block) + 1][c % Block] = X[(p + 1) + 1][s]
    BY <2>2
  <2>4. (p + 1) + 1 = p + 2
    OBVIOUS
  <2>5. X[(a \div Block) + 1][c % Block] = X[p + 2][s]
    BY <2>3, <2>4
  <2> QED BY <1>4, <2>5 DEF Ago, Reaching, a, c, s
<1> QED BY <1>3, <1>4

(* The terms of that sum, by tap, with nothing for taps that are not there. *)
Term(X, m) == [t \in Nat |-> IF t < Len(taps) THEN taps[t + 1] * Ago(X, m, t + Block) ELSE 0]

Taken(p) == (p * Block)..(p * Block + Block - 1)

(* A partition and two blocks are the terms of its taps.                   *)
LEMMA PartitionTerms ==
  ASSUME taps \in Seq(Int), NEW X \in Pasts, NEW m \in Within, NEW p \in 0..(MaxPartitions - 1)
  PROVE  /\ Summable(Term(X, m), Taken(p))
         /\ Circular(Padded(X[p + 1]), Partition(p), m)
              + (IF m < Overlap THEN Circular(Padded(X[p + 2]), Partition(p), Block + m) ELSE 0)
            = SumOn(Term(X, m), Taken(p))
<1> DEFINE u == X[p + 1]
           v == X[p + 2]
           h == Partition(p)
           g == [q \in Within |-> h[q] * Reaching(u, v, m, q)]
           f == Term(X, m)
           b == [q \in Within |-> p * Block + q]
           whole == Circular(Padded(u), h, m)
                      + (IF m < Overlap THEN Circular(Padded(v), h, Block + m) ELSE 0)
<1>1. u \in [Within -> Int] /\ v \in [Within -> Int] /\ p \in Nat
  <2>1. p + 1 \in 1..(MaxPartitions + 1) /\ p + 2 \in 1..(MaxPartitions + 1) /\ p \in Nat
    BY BlockSizes
  <2> QED BY <2>1 DEF Pasts
<1>2. Short(h)
  BY <1>1, PartitionShort
<1>3. Summable(g, Within) /\ whole = SumOn(g, Within)
  <2> HIDE DEF u, v, h
  <2> QED BY <1>1, <1>2, HeadAndTail
<1>4. p * Block \in Nat /\ Block \in Nat \ {0}
  BY <1>1, BlockSizes
<1>5. ASSUME NEW q \in Within PROVE b[q] \in Taken(p) /\ f[b[q]] = g[q]
  <2> DEFINE t == p * Block + q
             z == Reaching(u, v, m, q)
  <2>1. q \in Nat /\ q < Block /\ t \in Nat /\ t \in Taken(p)
    BY <1>4 DEF Within, Taken
  <2>2. Ago(X, m, t + Block) = z
    BY <1>1, AgoReaching
  <2>3. q \in Frame
    BY WithinFrame
  <2>4. z \in Int
    <3>1. m \in Nat /\ m < Block
      BY <1>4 DEF Within
    <3>2. q <= m => m - q \in Within
      BY <1>4, <2>1, <3>1 DEF Within
    <3>3. ~(q <= m) => Block + m - q \in Within
      BY <1>4, <2>1, <3>1 DEF Within
    <3>4. \A k \in Within : u[k] \in Int /\ v[k] \in Int
      <4> HIDE DEF u, v
      <4> QED BY <1>1
    <3>5. z = IF q <= m THEN u[m - q] ELSE v[Block + m - q]
      BY DEF Reaching
    <3> HIDE DEF u, v, z
    <3> QED BY <3>2, <3>3, <3>4, <3>5, Zenon
  <2>5. g[q] = h[q] * z
    OBVIOUS
  <2>6. f[t] = IF t < Len(taps) THEN taps[t + 1] * Ago(X, m, t + Block) ELSE 0
    BY <2>1 DEF Term
  <2>7. h[q] = IF t < Len(taps) THEN taps[t + 1] ELSE 0
    BY <2>1, <2>3 DEF Partition
  <2>8. b[q] = t
    OBVIOUS
  <2> HIDE DEF b, f, g, h, t, z
  <2>9. f[t] = g[q]
    BY <2>2, <2>4, <2>5, <2>6, <2>7
  <2> QED BY <2>1, <2>8, <2>9
<1>6. \A x, y \in Within : b[x] = b[y] => x = y
  BY <1>4 DEF Within
<1>7. \A z \in Taken(p) : \E q \in Within : b[q] = z
  <2> SUFFICES ASSUME NEW z \in Taken(p) PROVE \E q \in Within : b[q] = z
    OBVIOUS
  <2>1. z - p * Block \in Within /\ p * Block + (z - p * Block) = z
    BY <1>4 DEF Within, Taken
  <2> QED BY <2>1
<1>8. IsFiniteSet(Taken(p))
  <2>1. \A n \in Int, k \in Int : IsFiniteSet(n..k)
    BY FS_Interval
  <2> QED BY <1>4, <2>1 DEF Taken
<1> HIDE DEF b, f, g, whole
<1>9. SumOn(g, Within) = SumOn(f, Taken(p))
  <2>1. b \in [Within -> Taken(p)]
    BY <1>5 DEF b
  <2>2. b \in Bijection(Within, Taken(p))
    BY <1>6, <1>7, <2>1, Fun_IsBij
  <2> QED BY <1>3, <1>5, <1>8, <2>2, SumMoved
<1>10. \A z \in Taken(p) : f[z] \in Int
  BY <1>3, <1>5, <1>7 DEF Summable
<1>11. whole = SumOn(f, Taken(p)) /\ Summable(f, Taken(p))
  BY <1>3, <1>8, <1>9, <1>10 DEF Summable
<1> QED BY <1>11 DEF f, whole

(* What the inverse transform makes of the blocks from the s-th on.        *)
Stage(X, s, j) ==
  SumFunction([p \in 0..(ActivePartitions - 1) |-> Circular(Padded(X[p + s]), Partition(p), j)])

LEMMA CircularInt ==
  ASSUME NEW x \in [Within -> Int], NEW h, Short(h), NEW j \in Frame
  PROVE  Circular(Padded(x), h, j) \in Int
<1> DEFINE f == [k \in Within |-> x[k] * h[(j - k) % FftSize]]
<1>1. \A k \in Within : f[k] = x[k] * h[(j - k) % FftSize]
  OBVIOUS
<1> HIDE DEF f
<1>2. Circular(Padded(x), h, j) = SumOn(f, Within) /\ Summable(f, Within)
  BY <1>1, CircularWithin
<1>3. SumOn(f, Within) \in Int
  BY <1>2, SumPick
<1> QED BY <1>2, <1>3

(* The taps of a partitions are those of all but the last and the last's.  *)
LEMMA TakenJoin ==
  ASSUME NEW a \in Nat
  PROVE  /\ 0..((a + 1) * Block - 1) = (0..(a * Block - 1)) \cup Taken(a)
         /\ (0..(a * Block - 1)) \cap Taken(a) = {}
<1>1. (a + 1) * Block = a * Block + Block /\ a * Block \in Nat /\ Block \in Nat \ {0}
  BY BlockSizes
<1> DEFINE n == a * Block
<1> HIDE DEF n
<1>2. /\ 0..(n + Block - 1) = (0..(n - 1)) \cup (n..(n + Block - 1))
      /\ (0..(n - 1)) \cap (n..(n + Block - 1)) = {}
  BY <1>1 DEF n
<1> QED BY <1>1, <1>2 DEF n, Taken

LEMMA RowsAdd ==
  ASSUME taps \in Seq(Int), Len(taps) <= MaxTaps, NEW X \in Pasts, NEW m \in Within,
         NEW row, \A p \in 0..(ActivePartitions - 1) :
           row[p] = Circular(Padded(X[p + 1]), Partition(p), m)
                      + (IF m < Overlap
                           THEN Circular(Padded(X[p + 2]), Partition(p), Block + m) ELSE 0)
  PROVE  /\ Summable(Term(X, m), 0..(ActivePartitions * Block - 1))
         /\ SumOn(row, 0..(ActivePartitions - 1))
              = SumOn(Term(X, m), 0..(ActivePartitions * Block - 1))
<1> DEFINE A == ActivePartitions
           f == Term(X, m)
           S == {a \in Nat : a <= A => /\ Summable(f, 0..(a * Block - 1))
                                       /\ SumOn(row, 0..(a - 1)) = SumOn(f, 0..(a * Block - 1))}
<1>1. A \in Nat /\ A <= MaxPartitions /\ Block \in Nat \ {0} /\ MaxPartitions \in Nat
  BY PartitionsHold, BlockSizes
<1>2. ASSUME NEW p \in 0..(A - 1)
      PROVE  Summable(f, Taken(p)) /\ row[p] = SumOn(f, Taken(p)) /\ row[p] \in Int
  <2>1. p \in 0..(MaxPartitions - 1)
    BY <1>1
  <2>2. Summable(f, Taken(p)) /\ row[p] = SumOn(f, Taken(p))
    BY <2>1, PartitionTerms
  <2> HIDE DEF f
  <2> QED BY <2>2, SumPick
<1>3. 0 \in S
  <2>1. 0..(0 * Block - 1) = {} /\ 0..(0 - 1) = {}
    BY <1>1
  <2>2. Summable(f, {})
    BY FS_EmptySet DEF Summable
  <2> HIDE DEF f
  <2> QED BY <2>1, <2>2, SumOfNone
<1>4. ASSUME NEW a \in 0..(A - 1), a \in S PROVE a + 1 \in S
  <2> DEFINE P == 0..(a * Block - 1)
             Q == Taken(a)
             R == 0..((a + 1) - 1)
  <2>1. a \in Nat /\ a <= A /\ a + 1 \in Nat
    BY <1>1
  <2>2. Summable(f, P) /\ SumOn(row, 0..(a - 1)) = SumOn(f, P)
    BY <1>4, <2>1
  <2>3. 0..((a + 1) * Block - 1) = P \cup Q /\ P \cap Q = {}
    BY <2>1, TakenJoin
  <2>4. Summable(f, Q) /\ row[a] = SumOn(f, Q) /\ row[a] \in Int
    BY <1>2
  <2>5. R \ {a} = 0..(a - 1) /\ a \in R /\ \A p \in R : p \in 0..(A - 1)
    BY <1>1, <2>1
  <2>6. IsFiniteSet(R)
    <3>1. \A n \in Int : IsFiniteSet(0..n)
      BY FS_Interval
    <3> QED BY <2>1, <3>1
  <2>7. Summable(row, R)
    BY <1>2, <2>5, <2>6 DEF Summable
  <2> HIDE DEF f, P, Q, R
  <2>8. SumOn(f, P \cup Q) = SumOn(f, P) + SumOn(f, Q) /\ Summable(f, P \cup Q)
    <3>1. Summable(f, P \cup Q)
      BY <2>2, <2>4, FS_Union DEF Summable
    <3> QED BY <2>2, <2>3, <2>4, <3>1, SumJoin
  <2>9. SumOn(row, R) = row[a] + SumOn(row, R \ {a})
    <3>1. \A x \in R : SumOn(row, R) = row[x] + SumOn(row, R \ {x})
      BY <2>7, SumPick
    <3> QED BY <2>5, <3>1, Zenon
  <2>10. SumOn(f, P) \in Int
    BY <2>2, SumPick
  <2>11. SumOn(row, R) = SumOn(f, P \cup Q)
    <3>1. SumOn(row, R \ {a}) = SumOn(f, P)
      BY <2>2, <2>5, Zenon
    <3>2. SumOn(row, R) = row[a] + SumOn(f, P)
      BY <2>9, <3>1, Zenon
    <3>3. row[a] + SumOn(f, P) = SumOn(f, P) + SumOn(f, Q)
      BY <2>4, <2>10
    <3> QED BY <2>8, <3>2, <3>3, Zenon
  <2>12. /\ Summable(f, 0..((a + 1) * Block - 1))
         /\ SumOn(row, R) = SumOn(f, 0..((a + 1) * Block - 1))
    BY <2>3, <2>8, <2>11, Zenon
  <2> QED BY <2>1, <2>12 DEF R
<1> HIDE DEF S
<1>5. A \in S
  <2> HIDE DEF A
  <2>1. 0..A \subseteq S
    BY <1>1, <1>3, <1>4, RangeInduction
  <2> QED BY <1>1, <2>1
<1> QED BY <1>1, <1>5 DEF S

LEMMA LateTerms ==
  ASSUME taps \in Seq(Int), Len(taps) <= MaxTaps, NEW X, NEW m,
         Summable(Term(X, m), 0..(ActivePartitions * Block - 1))
  PROVE  Late(X, m) = SumOn(Term(X, m), 0..(ActivePartitions * Block - 1))
<1> DEFINE L == Len(taps)
           n == ActivePartitions * Block
           f == Term(X, m)
           e == [k \in 1..L |-> taps[k] * Ago(X, m, k - 1 + Block)]
           b == [t \in 0..(L - 1) |-> t + 1]
           S == 0..(L - 1)
           R == L..(n - 1)
           T == 1..L
<1>1. L \in Nat /\ n \in Nat /\ L <= n
  BY PartitionsHold, BlockSizes
<1>2. Late(X, m) = SumOn(e, T)
  <2>1. Late(X, m) = SumFunction(e)
    BY DEF Late
  <2>2. DOMAIN e = T
    OBVIOUS
  <2> HIDE DEF e
  <2> QED BY <2>1, <2>2 DEF SumFunction, SumOn
<1>3. \A t \in S : b[t] \in T /\ e[b[t]] = f[t]
  <2> SUFFICES ASSUME NEW t \in S PROVE b[t] \in T /\ e[b[t]] = f[t]
    OBVIOUS
  <2>1. t \in Nat /\ t < L /\ t + 1 \in T /\ (t + 1) - 1 + Block = t + Block
    BY <1>1, BlockSizes
  <2>2. f[t] = taps[t + 1] * Ago(X, m, t + Block)
    BY <2>1 DEF Term
  <2>3. e[t + 1] = taps[t + 1] * Ago(X, m, (t + 1) - 1 + Block)
    BY <2>1
  <2>4. e[t + 1] = taps[t + 1] * Ago(X, m, t + Block)
    BY <2>1, <2>3, Zenon
  <2>5. b[t] = t + 1
    OBVIOUS
  <2> HIDE DEF e, b, f
  <2> QED BY <2>1, <2>2, <2>4, <2>5
<1>4. \A t \in R : f[t] = 0
  BY <1>1 DEF Term
<1>5. \A x, y \in S : b[x] = b[y] => x = y
  OBVIOUS
<1>6. \A z \in T : \E t \in S : b[t] = z
  <2> SUFFICES ASSUME NEW z \in T PROVE \E t \in S : b[t] = z
    OBVIOUS
  <2>1. z - 1 \in S /\ b[z - 1] = z
    BY <1>1
  <2> QED BY <2>1
<1>7. 0..(n - 1) = S \cup R /\ S \cap R = {} /\ IsFiniteSet(R) /\ IsFiniteSet(T) /\ IsFiniteSet(S)
  <2>1. 0..(n - 1) = S \cup R /\ S \cap R = {}
    <3> HIDE DEF n, L
    <3> QED BY <1>1
  <2>2. \A k \in Int, l \in Int : IsFiniteSet(k..l)
    BY FS_Interval
  <2> QED BY <1>1, <2>1, <2>2
<1> HIDE DEF f, e, b, S, R, T, n, L
<1>8. Summable(f, S \cup R)
  BY <1>7 DEF f, n
<1>9. Summable(f, S) /\ Summable(f, R)
  <2>1. S \subseteq S \cup R /\ R \subseteq S \cup R
    OBVIOUS
  <2> QED BY <1>7, <1>8 DEF Summable
<1>10. SumOn(f, S \cup R) = SumOn(f, S) + SumOn(f, R)
  BY <1>7, <1>9, SumJoin
<1>11. SumOn(f, R) = 0
  BY <1>4, <1>7, SumZeros
<1>12. SumOn(f, S) = SumOn(e, T)
  <2>1. b \in [S -> T]
    BY <1>3 DEF b, S
  <2>2. b \in Bijection(S, T)
    BY <1>5, <1>6, <2>1, Fun_IsBij
  <2> QED BY <1>3, <1>7, <1>9, <2>2, SumMoved
<1>13. SumOn(f, S) \in Int
  BY <1>9, SumPick
<1>14. SumOn(f, S \cup R) = SumOn(e, T)
  BY <1>10, <1>11, <1>12, <1>13
<1>15. SumOn(f, 0..(n - 1)) = SumOn(e, T)
  BY <1>7, <1>14, Zenon
<1> QED BY <1>2, <1>15 DEF f, n

(* Overlap-add is direct convolution: the blocks X as the transforms fold  *)
(* them, and what they left over from the block before.                    *)
LEMMA OverlapAdds ==
  ASSUME taps \in Seq(Int), Len(taps) <= MaxTaps, NEW X \in Pasts, NEW m \in Within
  PROVE  Late(X, m) = Stage(X, 1, m) + (IF m < Overlap THEN Stage(X, 2, Block + m) ELSE 0)
<1> DEFINE A == 0..(ActivePartitions - 1)
           head == [p \in A |-> Circular(Padded(X[p + 1]), Partition(p), m)]
           over == [p \in A |-> Circular(Padded(X[p + 2]), Partition(p), Block + m)]
           tail == [p \in A |-> IF m < Overlap THEN over[p] ELSE 0]
           row == [p \in A |-> head[p] + tail[p]]
<1>1. IsFiniteSet(A)
  <2>1. \A n \in Int : IsFiniteSet(0..n)
    BY FS_Interval
  <2> QED BY <2>1, PartitionsHold
<1>2. ASSUME NEW p \in A
      PROVE  head[p] \in Int /\ (m < Overlap => over[p] \in Int)
  <2>1. p + 1 \in 1..(MaxPartitions + 1) /\ p + 2 \in 1..(MaxPartitions + 1) /\ p \in Nat
    BY BlockSizes, PartitionsHold
  <2> DEFINE u == X[p + 1]
             v == X[p + 2]
             h == Partition(p)
  <2>2. u \in [Within -> Int] /\ v \in [Within -> Int] /\ Short(h)
    BY <2>1, PartitionShort DEF Pasts
  <2>3. head[p] = Circular(Padded(u), h, m) /\ over[p] = Circular(Padded(v), h, Block + m)
    OBVIOUS
  <2>4. m \in Frame /\ (m < Overlap => Block + m \in Frame)
    BY BlockSizes DEF Within, Frame, Overlap
  <2> HIDE DEF u, v, h, head, over
  <2> QED BY <2>2, <2>3, <2>4, CircularInt
<1>3. \A p \in A : row[p] = Circular(Padded(X[p + 1]), Partition(p), m)
                      + (IF m < Overlap
                           THEN Circular(Padded(X[p + 2]), Partition(p), Block + m) ELSE 0)
  OBVIOUS
<1>4. \A p \in A : row[p] = head[p] + tail[p]
  OBVIOUS
<1>5. Stage(X, 1, m) = SumOn(head, A)
  <2>1. Stage(X, 1, m) = SumFunction(head)
    BY DEF Stage
  <2>2. DOMAIN head = A
    OBVIOUS
  <2> HIDE DEF head
  <2> QED BY <2>1, <2>2 DEF SumFunction, SumOn
<1>6. Stage(X, 2, Block + m) = SumOn(over, A)
  <2>1. Stage(X, 2, Block + m) = SumFunction(over)
    BY DEF Stage
  <2>2. DOMAIN over = A
    OBVIOUS
  <2> HIDE DEF over
  <2> QED BY <2>1, <2>2 DEF SumFunction, SumOn
<1>7. \A p \in A : tail[p] = IF m < Overlap THEN over[p] ELSE 0
  OBVIOUS
<1> HIDE DEF row, head, tail, over, A
<1>8. /\ Summable(Term(X, m), 0..(ActivePartitions * Block - 1))
      /\ SumOn(row, A) = SumOn(Term(X, m), 0..(ActivePartitions * Block - 1))
  BY <1>3, RowsAdd DEF A
<1>9. Late(X, m) = SumOn(row, A)
  BY <1>8, LateTerms
<1>10. Summable(head, A) /\ Summable(tail, A)
  BY <1>1, <1>2, <1>7 DEF Summable
<1>11. SumOn(row, A) = SumOn(head, A) + SumOn(tail, A)
  BY <1>4, <1>10, SumAdds
<1>12. SumOn(tail, A) = IF m < Overlap THEN SumOn(over, A) ELSE 0
  <2>1. CASE m < Overlap
    <3>1. \A p \in A : tail[p] = over[p]
      BY <1>7, <2>1
    <3> QED BY <1>10, <2>1, <3>1, SumSame
  <2>2. CASE ~(m < Overlap)
    <3>1. \A p \in A : tail[p] = 0
      BY <1>7, <2>2
    <3> QED BY <1>1, <2>2, <3>1, SumZeros
  <2> QED BY <2>1, <2>2
<1> QED BY <1>5, <1>6, <1>9, <1>11, <1>12

-----------------------------------------------------------------------------
(* From silence comes silence.                                             *)
LEMMA SilentStage ==
  ASSUME taps \in Seq(Int), Len(taps) <= MaxTaps
  PROVE  /\ \A s \in {1, 2}, j \in Frame : Stage(Direct!NothingHeard, s, j) = 0
         /\ \A m \in Within : Late(Direct!NothingHeard, m) = 0
<1> DEFINE X == Direct!NothingHeard
           A == 0..(ActivePartitions - 1)
<1>0. X \in Pasts /\ \A b \in 1..(MaxPartitions + 1) : X[b] = [k \in Within |-> 0]
  BY BlockSizes DEF Pasts, Within, Direct!NothingHeard, Direct!Silence
<1>1. ASSUME NEW s \in {1, 2}, NEW j \in Frame PROVE Stage(X, s, j) = 0
  <2> DEFINE f == [p \in A |-> Circular(Padded(X[p + s]), Partition(p), j)]
  <2>1. ASSUME NEW p \in A PROVE f[p] = 0
    <3> DEFINE x == X[p + s]
               h == Partition(p)
               e == [k \in Within |-> x[k] * h[(j - k) % FftSize]]
    <3>1. p + s \in 1..(MaxPartitions + 1) /\ p \in Nat
      BY BlockSizes, PartitionsHold
    <3>2. x \in [Within -> Int] /\ Short(h) /\ \A k \in Within : x[k] = 0
      BY <1>0, <3>1, PartitionShort DEF Pasts
    <3>3. \A k \in Within : e[k] = x[k] * h[(j - k) % FftSize]
      OBVIOUS
    <3>4. f[p] = Circular(Padded(x), h, j)
      OBVIOUS
    <3> HIDE DEF x, h, e, f
    <3>5. Circular(Padded(x), h, j) = SumOn(e, Within) /\ Summable(e, Within)
      BY <3>2, <3>3, CircularWithin
    <3>6. \A k \in Within : e[k] = 0
      <4> SUFFICES ASSUME NEW k \in Within PROVE e[k] = 0
        OBVIOUS
      <4>1. (j - k) % FftSize \in Frame
        <5>1. j - k \in Int
          BY BlockSizes DEF Frame, Within
        <5> QED BY <5>1, BlockSizes, Remainder DEF Frame
      <4>2. h[(j - k) % FftSize] \in Int
        BY <3>2, <4>1 DEF Short
      <4> QED BY <3>2, <3>3, <4>2
    <3> QED BY <3>4, <3>5, <3>6, BlockSizes, SumZeros
  <2>2. IsFiniteSet(A)
    <3>1. \A n \in Int : IsFiniteSet(0..n)
      BY FS_Interval
    <3> QED BY <3>1, PartitionsHold
  <2>3. Stage(X, s, j) = SumFunction(f) /\ DOMAIN f = A
    BY DEF Stage
  <2> HIDE DEF f, A
  <2>4. SumOn(f, A) = 0
    BY <2>1, <2>2, SumZeros
  <2> QED BY <2>3, <2>4 DEF SumFunction, SumOn
<1>2. ASSUME NEW m \in Within PROVE Late(X, m) = 0
  <2>1. m \in Frame /\ (m < Overlap => Block + m \in Frame)
    BY BlockSizes DEF Within, Frame, Overlap
  <2>2. Stage(X, 1, m) = 0 /\ (m < Overlap => Stage(X, 2, Block + m) = 0)
    BY <1>1, <2>1
  <2>3. Late(X, m) = Stage(X, 1, m) + (IF m < Overlap THEN Stage(X, 2, Block + m) ELSE 0)
    <3> HIDE DEF X
    <3> QED BY <1>0, OverlapAdds
  <2> HIDE DEF X
  <2> QED BY <2>2, <2>3
<1> QED BY <1>1, <1>2

-----------------------------------------------------------------------------
(* The slot of b blocks ago holds that block; the overlap is what the      *)
(* blocks heard add to the next one; and the block of delay is the direct  *)
(* convolution that comes next.                                            *)
SpectraInv ==
  \A b \in 1..MaxPartitions :
    input_spectra[(history_write + MaxPartitions - b) % MaxPartitions] = Padded(past[b])

TailInv == \A m \in 0..(Overlap - 1) : overlap[m] = Stage(past, 1, Block + m)

DelayInv == delayed_output = [m \in Within |-> Late(past, m)]

CabinetInv == CabinetTypeOK /\ SpectraInv /\ TailInv /\ DelayInv

LEMMA TapsTyped ==
  ASSUME CabinetTypeOK PROVE taps \in Seq(Int) /\ Len(taps) <= MaxTaps
<1>1. <<>> \in Seq(Int)
  OBVIOUS
<1> QED BY <1>1, ConvolverAssumption DEF CabinetTypeOK

(* Once cleared.                                                           *)
Forgotten ==
  /\ past = Direct!NothingHeard
  /\ input_spectra = NoSpectra /\ overlap = NoOverlap
  /\ delayed_output = Direct!Silence /\ history_write = 0

LEMMA ForgottenHolds ==
  Forgotten /\ taps \in {<<>>} \cup Ir /\ Len(taps) <= MaxTaps /\ out \in Direct!Frame
    => CabinetInv
<1> SUFFICES ASSUME Forgotten, taps \in {<<>>} \cup Ir, Len(taps) <= MaxTaps, out \in Direct!Frame
             PROVE  CabinetInv
  OBVIOUS
<1> DEFINE X == Direct!NothingHeard
<1>1. CabinetTypeOK
  <2>1. X \in [1..(MaxPartitions + 1) -> Direct!Frame] /\ Direct!Silence \in Direct!Frame
    BY DEF Direct!NothingHeard, Direct!Silence, Direct!Frame
  <2>2. NoSpectra \in [0..(MaxPartitions - 1) -> [Frame -> Int]] /\ NoOverlap \in [0..(Overlap - 1) -> Int]
    BY DEF NoSpectra, NoOverlap
  <2>3. 0 \in 0..(MaxPartitions - 1)
    BY BlockSizes
  <2> QED BY <2>1, <2>2, <2>3 DEF Forgotten, CabinetTypeOK
<1>2. taps \in Seq(Int)
  BY <1>1, TapsTyped
<1>3. SpectraInv
  <2> SUFFICES ASSUME NEW b \in 1..MaxPartitions
               PROVE  NoSpectra[(0 + MaxPartitions - b) % MaxPartitions] = Padded(X[b])
    BY DEF SpectraInv, Forgotten
  <2>1. (0 + MaxPartitions - b) % MaxPartitions \in 0..(MaxPartitions - 1)
    <3>1. 0 + MaxPartitions - b \in Int
      BY BlockSizes
    <3> QED BY <3>1, BlockSizes, Remainder
  <2>2. X[b] = [k \in Within |-> 0]
    BY BlockSizes DEF Direct!NothingHeard, Direct!Silence, Within
  <2>3. \A j \in Frame : j < Block => j \in Within
    BY BlockSizes DEF Frame, Within
  <2>4. Padded(X[b]) = [j \in Frame |-> 0]
    BY <2>2, <2>3 DEF Padded
  <2> QED BY <2>1, <2>4 DEF NoSpectra
<1>4. TailInv
  <2> SUFFICES ASSUME NEW m \in 0..(Overlap - 1) PROVE NoOverlap[m] = Stage(X, 1, Block + m)
    BY DEF TailInv, Forgotten
  <2>1. Block + m \in Frame
    BY BlockSizes DEF Overlap, Frame
  <2> QED BY <1>2, <2>1, SilentStage DEF NoOverlap
<1>5. DelayInv
  <2>1. \A m \in Within : Late(X, m) = 0
    BY <1>2, SilentStage
  <2> QED BY <2>1 DEF DelayInv, Forgotten, Direct!Silence, Within
<1> QED BY <1>1, <1>3, <1>4, <1>5 DEF CabinetInv

LEMMA CabinetStart == CabinetInit => CabinetInv
<1> SUFFICES ASSUME CabinetInit PROVE CabinetInv
  OBVIOUS
<1>1. Forgotten /\ taps = <<>> /\ Len(taps) = 0 /\ out \in Direct!Frame
  BY DEF CabinetInit, Forgotten, Direct!Init, Direct!Silence, Direct!Frame
<1>2. Len(taps) <= MaxTaps
  BY <1>1, BlockSizes
<1> QED BY <1>1, <1>2, ForgottenHolds

(* Loading and resetting clear everything.                                 *)
LEMMA CabinetCleared ==
  CabinetInv /\ (ResetCabinet \/ \E ir \in Ir : LoadIr(ir)) => CabinetInv'
<1> SUFFICES ASSUME CabinetInv, ResetCabinet \/ \E ir \in Ir : LoadIr(ir) PROVE CabinetInv'
  OBVIOUS
<1>1. /\ Forgotten' /\ out' = out
      /\ taps' \in {<<>>} \cup Ir /\ Len(taps') <= MaxTaps
  <2>1. CASE ResetCabinet
    BY <2>1 DEF ResetCabinet, Cleared, Direct!Reset, Forgotten, CabinetInv, CabinetTypeOK
  <2>2. ASSUME NEW ir \in Ir, LoadIr(ir)
        PROVE  /\ Forgotten' /\ out' = out
               /\ taps' \in {<<>>} \cup Ir /\ Len(taps') <= MaxTaps
    BY <2>2 DEF LoadIr, Cleared, Direct!Load, Forgotten
  <2> QED BY <2>1, <2>2
<1>2. out' \in Direct!Frame
  BY <1>1 DEF CabinetInv, CabinetTypeOK
<1>3. (Forgotten /\ taps \in {<<>>} \cup Ir /\ Len(taps) <= MaxTaps /\ out \in Direct!Frame
         => CabinetInv)'
  BY ForgottenHolds, PTL
<1> QED BY <1>1, <1>2, <1>3

(* The promise adds up as the convolver does.                              *)
LEMMA DirectSums ==
  ASSUME NEW f
  PROVE  Direct!SumFunction(f) = SumFunction(f)
BY DEF SumFunction, SumFunctionOnSet, FoldFunctionOnSet, MapThenFoldSet,
       Direct!SumFunction, Direct!SumFunctionOnSet, Direct!FoldFunctionOnSet,
       Direct!MapThenFoldSet

Written(x) == [input_spectra EXCEPT ![history_write] = Padded(x)]

(* With a block of input in its slot, the ring holds the blocks heard,     *)
(* from the latest back; the slots move on by one.                         *)
LEMMA HistoryHeard ==
  ASSUME CabinetInv, NEW x \in [Within -> Int]
  PROVE  LET Y == Direct!Heard(x)
             history == Written(x)
         IN  /\ Y \in Pasts
             /\ history \in [0..(MaxPartitions - 1) -> [Frame -> Int]]
             /\ \A p \in 0..(MaxPartitions - 1) : Spectrum(history, p) = Padded(Y[p + 1])
             /\ \A b \in 1..MaxPartitions :
                  history[(NextSlot(history_write) + MaxPartitions - b) % MaxPartitions]
                    = Padded(Y[b])
<1> DEFINE Y == Direct!Heard(x)
           history == Written(x)
           P == MaxPartitions
           w == history_write
<1>1. /\ P \in Nat \ {0} /\ w \in Nat /\ w < P
      /\ past \in [1..(P + 1) -> [Within -> Int]]
      /\ input_spectra \in [0..(P - 1) -> [Frame -> Int]]
  <2>1. w \in 0..(P - 1) /\ P \in Nat \ {0}
    BY BlockSizes DEF CabinetInv, CabinetTypeOK
  <2> QED BY <2>1 DEF CabinetInv, CabinetTypeOK, Direct!Frame, Within
<1>0. history = [input_spectra EXCEPT ![w] = Padded(x)]
  BY DEF Written
<1>2. Y = [b \in 1..(P + 1) |-> IF b = 1 THEN x ELSE past[b - 1]]
  BY DEF Direct!Heard
<1> HIDE DEF Y, history
<1>3. Y \in Pasts
  <2>1. \A b \in 1..(P + 1) : b # 1 => b - 1 \in 1..(P + 1)
    BY <1>1
  <2> QED BY <1>1, <1>2, <2>1 DEF Pasts
<1>4. history \in [0..(P - 1) -> [Frame -> Int]]
  <2>1. Padded(x) \in [Frame -> Int]
    BY PaddedShort DEF Short
  <2> QED BY <1>0, <1>1, <2>1
<1>5. ASSUME NEW p \in 0..(P - 1)
      PROVE  Spectrum(history, p) = Padded(Y[p + 1])
  <2> DEFINE s == w + P - p
  <2>1. p \in Nat /\ p < P /\ s \in Int /\ s % P \in 0..(P - 1)
    <3>1. p \in Nat /\ p < P /\ s \in Int
      BY <1>1
    <3> HIDE DEF s
    <3> QED BY <1>1, <3>1, Remainder
  <2>2. w % P = w
    BY <1>1, SmallRemainder
  <2>3. CASE p = 0
    <3>1. TurnsApart(s, w, P)
      <4>1. s = w + 1 * P /\ 1 \in Int
        BY <1>1, <2>3
      <4> QED BY <4>1 DEF TurnsApart
    <3>2. s % P = w
      <4> HIDE DEF s
      <4> QED BY <1>1, <2>1, <2>2, <3>1, SameRemainder
    <3>3. history[s % P] = Padded(x)
      BY <1>0, <1>1, <3>2
    <3>4. Y[p + 1] = x
      BY <1>1, <1>2, <2>3
    <3> QED BY <3>3, <3>4 DEF Spectrum, s
  <2>4. CASE p # 0
    <3>1. s > w /\ s - w < P
      BY <1>1, <2>1, <2>4
    <3>2. s % P # w
      <4> HIDE DEF s
      <4>1. w \in Int /\ s \in Int /\ w < s /\ s - w < P /\ P \in Nat \ {0}
        BY <1>1, <2>1, <3>1
      <4>2. w % P # s % P
        <5> HIDE DEF w, P
        <5> QED BY <4>1, OtherRemainder
      <4> QED BY <2>2, <4>2
    <3>3. history[s % P] = input_spectra[s % P]
      BY <1>0, <1>1, <2>1, <3>2
    <3>4. p \in 1..P /\ p + 1 \in 1..(P + 1) /\ p + 1 # 1 /\ (p + 1) - 1 = p
      BY <1>1, <2>1, <2>4
    <3>5. input_spectra[s % P] = Padded(past[p])
      BY <3>4 DEF CabinetInv, SpectraInv
    <3>6. Y[p + 1] = past[p]
      BY <1>2, <3>4
    <3> QED BY <3>3, <3>5, <3>6 DEF Spectrum, s
  <2> QED BY <2>3, <2>4
<1>6. ASSUME NEW b \in 1..P
      PROVE  history[(NextSlot(w) + P - b) % P] = Padded(Y[b])
  <2> DEFINE p == b - 1
             s == w + P - p
             n == (w + 1) % P
             r == n + P - b
  <2>1. p \in 0..(P - 1) /\ p + 1 = b /\ s \in Int /\ w + 1 \in Int
    BY <1>1
  <2>2. n \in Int /\ \E q \in Int : w + 1 = n + q * P
    <3>1. (w + 1) \div P \in Int /\ w + 1 = ((w + 1) \div P) * P + n /\ n \in 0..(P - 1)
      BY <1>1, <2>1, Remainder
    <3> DEFINE q == (w + 1) \div P
    <3> HIDE DEF q, n
    <3>2. q \in Int /\ w + 1 = n + q * P /\ n \in Int
      BY <1>1, <3>1 DEF q
    <3> QED BY <3>2
  <2>3. TurnsApart(s, r, P) /\ r \in Int
    <3> HIDE DEF n
    <3>1. PICK q \in Int : w + 1 = n + q * P
      BY <2>2
    <3>2. q * P \in Int
      BY <1>1
    <3>3. s = r + q * P
      BY <1>1, <2>2, <3>1, <3>2
    <3>4. r \in Int
      BY <1>1, <2>2
    <3> HIDE DEF s, r
    <3> QED BY <3>3, <3>4 DEF TurnsApart
  <2>4. s % P = r % P
    <3> HIDE DEF s, r
    <3> QED BY <1>1, <2>1, <2>3, SameRemainder
  <2>5. Spectrum(history, p) = Padded(Y[b])
    <3> HIDE DEF p
    <3> QED BY <1>5, <2>1
  <2>6. Spectrum(history, p) = history[s % P]
    BY DEF Spectrum
  <2>7. r = NextSlot(w) + P - b
    BY DEF NextSlot
  <2> HIDE DEF s, r, p
  <2> QED BY <2>4, <2>5, <2>6, <2>7
<1> QED BY <1>3, <1>4, <1>5, <1>6 DEF Y, history

(* A sum over the partitions of whole numbers is a whole number.           *)
LEMMA StageInt ==
  ASSUME taps \in Seq(Int), Len(taps) <= MaxTaps, NEW X \in Pasts, NEW s \in {1, 2}, NEW j \in Frame
  PROVE  Stage(X, s, j) \in Int
<1> DEFINE A == 0..(ActivePartitions - 1)
           f == [p \in A |-> Circular(Padded(X[p + s]), Partition(p), j)]
<1>1. ASSUME NEW p \in A PROVE f[p] \in Int
  <2> DEFINE x == X[p + s]
             h == Partition(p)
  <2>1. p + s \in 1..(MaxPartitions + 1) /\ p \in Nat
    BY BlockSizes, PartitionsHold
  <2>2. x \in [Within -> Int] /\ Short(h)
    BY <2>1, PartitionShort DEF Pasts
  <2>3. f[p] = Circular(Padded(x), h, j)
    OBVIOUS
  <2> HIDE DEF x, h, f
  <2> QED BY <2>2, <2>3, CircularInt
<1>2. IsFiniteSet(A)
  <2>1. \A n \in Int : IsFiniteSet(0..n)
    BY FS_Interval
  <2> QED BY <2>1, PartitionsHold
<1>3. Stage(X, s, j) = SumFunction(f) /\ DOMAIN f = A
  BY DEF Stage
<1> HIDE DEF f, A
<1>4. SumOn(f, A) \in Int
  BY <1>1, <1>2, SumPick DEF Summable
<1> QED BY <1>3, <1>4 DEF SumFunction, SumOn

(* A block taken keeps the invariant, and what it plays is what direct     *)
(* convolution would.                                                      *)
LEMMA BlockConvolved ==
  ASSUME CabinetInv, NEW x \in [Within -> Input], ConvolveBlock(x)
  PROVE  CabinetInv' /\ Direct!Process(x)
<1> DEFINE Y == Direct!Heard(x)
           history == Written(x)
           ifft == Summed(history)
           A == 0..(ActivePartitions - 1)
<1>0. taps \in Seq(Int) /\ Len(taps) <= MaxTaps /\ x \in [Within -> Int]
  <2>1. Input \subseteq Int
    BY ConvolverAssumption
  <2> QED BY <2>1, TapsTyped DEF CabinetInv
<1>1. /\ Y \in Pasts
      /\ history \in [0..(MaxPartitions - 1) -> [Frame -> Int]]
      /\ \A p \in 0..(MaxPartitions - 1) : Spectrum(history, p) = Padded(Y[p + 1])
      /\ \A b \in 1..MaxPartitions :
           history[(NextSlot(history_write) + MaxPartitions - b) % MaxPartitions] = Padded(Y[b])
  BY <1>0, HistoryHeard
<1>2. ASSUME NEW j \in Frame PROVE ifft[j] = Stage(Y, 1, j)
  <2> DEFINE f == [p \in A |-> Circular(Spectrum(history, p), Partition(p), j)]
             g == [p \in A |-> Circular(Padded(Y[p + 1]), Partition(p), j)]
  <2>1. \A p \in A : p \in 0..(MaxPartitions - 1)
    BY <1>0, PartitionsHold, BlockSizes
  <2>2. \A p \in A : f[p] = g[p]
    <3> HIDE DEF Y, history, A
    <3> QED BY <1>1, <2>1
  <2>3. f = g
    BY <2>2
  <2>4. ifft[j] = SumFunction(f)
    BY DEF Summed
  <2>5. Stage(Y, 1, j) = SumFunction(g)
    BY DEF Stage
  <2> HIDE DEF f, g, ifft
  <2> QED BY <2>3, <2>4, <2>5
<1>3. ASSUME NEW m \in 0..(Overlap - 1)
      PROVE  /\ ifft[Block + m] = Stage(Y, 1, Block + m) /\ ifft[Block + m] \in Int
             /\ overlap[m] = Stage(Y, 2, Block + m)
  <2>1. Block + m \in Frame
    BY BlockSizes DEF Overlap, Frame
  <2>2. overlap[m] = Stage(past, 1, Block + m)
    BY DEF CabinetInv, TailInv
  <2>3. \A p \in A : Y[p + 2] = past[p + 1]
    <3> SUFFICES ASSUME NEW p \in A PROVE Y[p + 2] = past[p + 1]
      OBVIOUS
    <3>1. p + 2 \in 1..(MaxPartitions + 1) /\ p + 2 # 1 /\ (p + 2) - 1 = p + 1
      BY <1>0, PartitionsHold, BlockSizes
    <3>2. Y[p + 2] = past[(p + 2) - 1]
      BY <3>1 DEF Direct!Heard
    <3> HIDE DEF Y
    <3> QED BY <3>1, <3>2
  <2>4. Stage(past, 1, Block + m) = Stage(Y, 2, Block + m)
    <3> DEFINE f == [p \in A |-> Circular(Padded(past[p + 1]), Partition(p), Block + m)]
               g == [p \in A |-> Circular(Padded(Y[p + 2]), Partition(p), Block + m)]
    <3>1. f = g
      <4> HIDE DEF Y, A
      <4> QED BY <2>3
    <3>2. Stage(past, 1, Block + m) = SumFunction(f) /\ Stage(Y, 2, Block + m) = SumFunction(g)
      BY DEF Stage
    <3> HIDE DEF f, g, Y
    <3> QED BY <3>1, <3>2
  <2>5. ifft[Block + m] = Stage(Y, 1, Block + m)
    BY <1>2, <2>1
  <2>6. Stage(Y, 1, Block + m) \in Int
    <3> HIDE DEF Y
    <3> QED BY <1>0, <1>1, <2>1, StageInt
  <2> HIDE DEF ifft, Y
  <2> QED BY <2>2, <2>4, <2>5, <2>6
<1> DEFINE wet == [m \in Within |-> ifft[m] + (IF m < Overlap THEN overlap[m] ELSE 0)]
<1>4. ASSUME NEW m \in Within PROVE wet[m] = Late(Y, m) /\ wet[m] \in Int
  <2>1. Late(Y, m) = Stage(Y, 1, m) + (IF m < Overlap THEN Stage(Y, 2, Block + m) ELSE 0)
    <3> HIDE DEF Y
    <3> QED BY <1>0, <1>1, OverlapAdds
  <2>2. m \in Frame /\ (m < Overlap => m \in 0..(Overlap - 1) /\ Block + m \in Frame)
    BY BlockSizes DEF Within, Frame, Overlap
  <2>3. ifft[m] = Stage(Y, 1, m)
    BY <1>2, <2>2
  <2>4. m < Overlap => overlap[m] = Stage(Y, 2, Block + m)
    BY <1>3, <2>2
  <2>5. wet[m] = ifft[m] + (IF m < Overlap THEN overlap[m] ELSE 0)
    OBVIOUS
  <2>6. Stage(Y, 1, m) \in Int /\ (m < Overlap => Stage(Y, 2, Block + m) \in Int)
    <3> HIDE DEF Y
    <3> QED BY <1>0, <1>1, <2>2, StageInt
  <2> HIDE DEF wet, ifft, Y
  <2> QED BY <2>1, <2>3, <2>4, <2>5, <2>6
<1>5. /\ input_spectra' = history /\ out' = delayed_output
      /\ delayed_output' = wet
      /\ overlap' = [m \in 0..(Overlap - 1) |-> ifft[Block + m]]
      /\ history_write' = NextSlot(history_write)
      /\ past' = Y /\ taps' = taps /\ taps # <<>>
  BY DEF ConvolveBlock, Within, Written
<1> HIDE DEF Y, history, ifft, wet
<1>6. CabinetTypeOK'
  <2>1. past' \in [1..(MaxPartitions + 1) -> Direct!Frame]
    BY <1>1, <1>5 DEF Pasts, Direct!Frame, Within
  <2>2. overlap' \in [0..(Overlap - 1) -> Int]
    BY <1>3, <1>5
  <2>3. delayed_output' \in Direct!Frame
    <3>1. \A m \in Within : wet[m] \in Int
      BY <1>4
    <3>2. wet = [m \in Within |-> wet[m]]
      BY DEF wet
    <3>3. wet \in [Within -> Int]
      BY <3>1, <3>2
    <3> QED BY <1>5, <3>3 DEF Direct!Frame, Within
  <2>4. history_write' \in 0..(MaxPartitions - 1)
    <3>1. history_write + 1 \in Int
      BY BlockSizes DEF CabinetInv, CabinetTypeOK
    <3> QED BY <1>5, <3>1, BlockSizes, Remainder DEF NextSlot
  <2> QED BY <1>1, <1>5, <2>1, <2>2, <2>3, <2>4 DEF CabinetInv, CabinetTypeOK
<1>7. SpectraInv'
  BY <1>1, <1>5 DEF SpectraInv
<1>8. TailInv'
  <2> SUFFICES ASSUME NEW m \in 0..(Overlap - 1)
               PROVE  (overlap[m] = Stage(past, 1, Block + m))'
    BY DEF TailInv
  <2>1. Stage(past, 1, Block + m)' = Stage(Y, 1, Block + m)
    BY <1>5 DEF Stage, ActivePartitions, Partition, Padded, Circular
  <2> QED BY <1>3, <1>5, <2>1
<1>9. DelayInv'
  <2>1. \A m \in Within : Late(past, m)' = Late(Y, m)
    BY <1>5 DEF Late, Ago
  <2>2. wet = [m \in Within |-> wet[m]]
    BY DEF wet
  <2>3. wet = [m \in Within |-> Late(past, m)']
    BY <1>4, <2>1, <2>2
  <2> QED BY <1>5, <2>3 DEF DelayInv
<1>10. Direct!Process(x)
  <2>1. \A m \in Within : Late(past, m) = Direct!Convolved(m)
    <3> SUFFICES ASSUME NEW m \in Within PROVE Late(past, m) = Direct!Convolved(m)
      OBVIOUS
    <3>1. \A age : Ago(past, m, age) = Direct!Before(m, age)
      BY DEF Ago, Direct!Before
    <3> DEFINE f == [k \in 1..Len(taps) |-> taps[k] * Ago(past, m, k - 1 + Block)]
               g == [k \in 1..Len(taps) |-> taps[k] * Direct!Before(m, k - 1 + Block)]
    <3>2. f = g
      BY <3>1
    <3>3. Late(past, m) = SumFunction(f) /\ Direct!Convolved(m) = SumFunction(g)
      <4>1. Late(past, m) = SumFunction(f) /\ Direct!Convolved(m) = Direct!SumFunction(g)
        BY DEF Late, Direct!Convolved
      <4> HIDE DEF f, g
      <4> QED BY <4>1, DirectSums
    <3> HIDE DEF f, g
    <3> QED BY <3>2, <3>3
  <2>2. out' = [m \in Within |-> Late(past, m)]
    BY <1>5 DEF CabinetInv, DelayInv
  <2>3. out' = [m \in Within |-> Direct!Convolved(m)]
    BY <2>1, <2>2
  <2> QED BY <1>5, <2>3 DEF Direct!Process, Within, Y
<1> QED BY <1>6, <1>7, <1>8, <1>9, <1>10 DEF CabinetInv

(* Theorem: the ring of spectra, the overlap and the block of delay hold   *)
(* what the blocks heard since the last reset make of them                 *)
(* (src/PartitionedConvolver.cpp:58-95).                                   *)
THEOREM CabinetInvariant == CabinetSpec => []CabinetInv
<1>1. CabinetInit => CabinetInv
  BY CabinetStart
<1>2. CabinetInv /\ [CabinetNext]_cabinet => CabinetInv'
  <2> SUFFICES ASSUME CabinetInv, [CabinetNext]_cabinet PROVE CabinetInv'
    OBVIOUS
  <2>1. CASE ResetCabinet \/ \E ir \in Ir : LoadIr(ir)
    BY <2>1, CabinetCleared
  <2>2. CASE \E x \in [0..(Block - 1) -> Input] : ConvolveBlock(x)
    BY <2>2, BlockConvolved DEF Within
  <2>3. CASE UNCHANGED cabinet
    <3>1. /\ taps' = taps /\ past' = past /\ out' = out /\ input_spectra' = input_spectra
          /\ overlap' = overlap /\ delayed_output' = delayed_output
          /\ history_write' = history_write
      BY <2>3 DEF cabinet
    <3>2. CabinetTypeOK' /\ SpectraInv'
      BY <3>1 DEF CabinetInv, CabinetTypeOK, SpectraInv
    <3>3. TailInv'
      <4>1. \A m \in 0..(Overlap - 1) : Stage(past, 1, Block + m)' = Stage(past, 1, Block + m)
        BY <3>1 DEF Stage, ActivePartitions, Partition, Padded, Circular
      <4> QED BY <3>1, <4>1 DEF CabinetInv, TailInv
    <3>4. DelayInv'
      <4>1. \A m \in Within : Late(past, m)' = Late(past, m)
        BY <3>1 DEF Late, Ago
      <4> QED BY <3>1, <4>1 DEF CabinetInv, DelayInv
    <3> QED BY <3>2, <3>3, <3>4 DEF CabinetInv
  <2> QED BY <2>1, <2>2, <2>3 DEF CabinetNext
<1> QED BY <1>1, <1>2, PTL DEF CabinetSpec

(* Theorem: partitions, ring, overlap and delay together are direct        *)
(* convolution, for every block, transform and response that fit           *)
(* (src/PartitionedConvolver.cpp:58-95).                                   *)
THEOREM CabinetPlaysDirectly == CabinetSpec => PlaysDirectly
<1>1. CabinetInit => Direct!Init
  BY DEF CabinetInit
<1>2. CabinetInv /\ [CabinetNext]_cabinet => [Direct!Next]_<<taps, past, out>>
  <2> SUFFICES ASSUME CabinetInv, [CabinetNext]_cabinet PROVE [Direct!Next]_<<taps, past, out>>
    OBVIOUS
  <2>1. CASE ResetCabinet
    BY <2>1 DEF ResetCabinet, Direct!Next
  <2>2. CASE \E ir \in Ir : LoadIr(ir)
    BY <2>2 DEF LoadIr, Direct!Next
  <2>3. CASE \E x \in [0..(Block - 1) -> Input] : ConvolveBlock(x)
    BY <2>3, BlockConvolved DEF Within, Direct!Next
  <2>4. CASE UNCHANGED cabinet
    BY <2>4 DEF cabinet
  <2> QED BY <2>1, <2>2, <2>3, <2>4 DEF CabinetNext
<1> QED BY <1>1, <1>2, CabinetInvariant, PTL DEF CabinetSpec, PlaysDirectly, Direct!Spec
=============================================================================
