--------------------------- MODULE DisplayProofs ---------------------------
(***************************************************************************)
(* The panel never shows parts of two frames and, at rest, shows what was  *)
(* last asked for: for any frame size, batch, period and clock.  Both come *)
(* from one invariant about the buffer between Ui and the panel: what has  *)
(* been sent of it is what is in it, and unless a frame is owed it agrees  *)
(* with what is to be shown.                                               *)
(*                                                                         *)
(* Then what is drawn, for names, levels and lists of every size.  A frame *)
(* is taken apart into stretches, one on top of another: a stretch has its *)
(* texts above a row and nothing above another (Stacked), so that it can   *)
(* not cover the texts of the stretches before it, and what FlattenSeq     *)
(* joins is a stretch if its rows are.                                     *)
(***************************************************************************)
EXTENDS Display, Drawing, FiniteSetTheorems, FunctionTheorems, SequenceTheorems,
        WellFoundedInduction, TLAPS

States == {f \in [Screens -> Content] : \A k \in Screens : f[k].screen = k}
Bytes  == 0..(FrameBytes - 1)

UiInv ==
  /\ state \in States
  /\ screen_ \in Screens
  /\ dirty_ \in BOOLEAN
  /\ last_push_ms_ \in 0..(Wrap - 1) /\ now \in 0..(Wrap - 1)

TransferInv ==
  /\ next_ \in Nat /\ remaining_ \in Nat
  /\ next_ + remaining_ = IF IsBusy THEN FrameBytes ELSE 0

PanelInv ==
  /\ frame \in Content \cup {Blank}
  /\ panel \in [Bytes -> Content \cup {Blank}]

(* The buffer is only drawn from what is shown, and redrawn if that moves. *)
FrameInv == ~dirty_ => Agrees(frame, Showing)

DisplayInv == UiInv /\ TransferInv /\ PanelInv /\ NoTearing /\ FrameInv

(* A batch is not empty while bytes remain, and is never more than remain. *)
LEMMA BatchSize ==
  ASSUME TransferInv
  PROVE  /\ Sent \in Nat /\ Sent <= remaining_
         /\ IsBusy => Sent > 0
<1>1. Batch * RowBytes \in Nat /\ Batch * RowBytes > 0
  <2>1. Batch \in Nat /\ RowBytes \in Nat /\ Batch > 0 /\ RowBytes > 0
    BY DisplayAssumption
  <2> QED BY <2>1
<1> QED BY <1>1 DEF TransferInv, Sent, Least, IsBusy

(* After a batch the bytes up to its end show the frame.                   *)
LEMMA BatchPaints ==
  ASSUME TransferInv, PanelInv, NoTearing
  PROVE  /\ Painted \in [Bytes -> Content \cup {Blank}]
         /\ \A b \in Bytes : ~IsBusy \/ b < next_ + Sent => Painted[b] = frame
<1>1. DOMAIN panel = Bytes
  BY DEF PanelInv
<1>2. Painted = [b \in Bytes |-> IF b \in next_..(next_ + Sent - 1) THEN frame ELSE panel[b]]
  BY <1>1 DEF Painted
<1>3. Painted \in [Bytes -> Content \cup {Blank}]
  BY <1>2 DEF PanelInv
<1>4. ASSUME NEW b \in Bytes, ~IsBusy \/ b < next_ + Sent
      PROVE  Painted[b] = frame
  <2>1. b \in Nat /\ next_ \in Nat /\ Sent \in Nat
    BY BatchSize DEF TransferInv, Bytes
  <2>2. CASE ~IsBusy \/ b < next_
    BY <1>1, <1>2, <2>2 DEF NoTearing
  <2>3. CASE b >= next_ /\ b < next_ + Sent
    <3>1. b \in next_..(next_ + Sent - 1)
      BY <2>1, <2>3
    <3> QED BY <1>2, <3>1
  <2> QED BY <1>4, <2>1, <2>2, <2>3
<1> QED BY <1>3, <1>4

(* The clock stays in its range.                                           *)
LEMMA ClockRange ==
  ASSUME UiInv, NEW e \in Elapsed, Elapse(e)
  PROVE  now' \in 0..(Wrap - 1)
<1>1. now + e \in Nat /\ Wrap \in Nat /\ Wrap > 0
  BY DisplayAssumption DEF UiInv
<1> QED BY <1>1 DEF Elapse

(* What is to be shown agrees with itself.                                 *)
LEMMA ShowingAgrees ==
  ASSUME UiInv
  PROVE  Showing \in Content /\ Showing.screen = screen_ /\ Agrees(Showing, Showing)
<1>1. Showing \in Content /\ Showing.screen = screen_
  BY DEF UiInv, States, Showing
<1>2. Showing # Blank
  <2>1. "compared" \in DOMAIN Showing
    BY <1>1 DEF Content
  <2>2. "compared" \notin DOMAIN Blank
    BY DEF Blank
  <2> QED BY <2>1, <2>2
<1> QED BY <1>1, <1>2 DEF Agrees

LEMMA DisplayStart == Init => DisplayInv
<1> SUFFICES ASSUME Init PROVE DisplayInv
  OBVIOUS
<1>1. UiInv
  <2>1. PICK c \in Compared, r \in Rest :
          state = [k \in Screens |-> [screen |-> k, compared |-> c, rest |-> r]]
    BY DEF Init
  <2>2. \A k \in Screens : [screen |-> k, compared |-> c, rest |-> r] \in Content
    BY DEF Content
  <2>3. state \in States
    BY <2>1, <2>2 DEF States
  <2> QED BY <2>3, DisplayAssumption DEF Init, UiInv
<1>2. TransferInv
  BY DEF Init, TransferInv, IsBusy
<1>3. PanelInv
  BY DEF Init, PanelInv, Bytes
<1>4. NoTearing
  BY DEF Init, NoTearing
<1>5. FrameInv
  BY DEF Init, FrameInv
<1> QED BY <1>1, <1>2, <1>3, <1>4, <1>5 DEF DisplayInv

(* What is shown changes and the buffer does not.                          *)
LEMMA ShowStep ==
  ASSUME DisplayInv, NEW c \in Content, Show(c) \/ ShowTuner(c)
  PROVE  DisplayInv'
<1>1. /\ UNCHANGED <<last_push_ms_, now, frame, next_, remaining_, panel>>
      /\ state' = [state EXCEPT ![c.screen] = c] /\ screen_' = c.screen
      /\ dirty_' \in BOOLEAN
  BY DEF Show, ShowTuner, transfer, DisplayInv, UiInv
<1>2. c.screen \in Screens
  BY DEF Content
<1>3. UiInv'
  <2>1. state' \in States
    BY <1>1, <1>2 DEF DisplayInv, UiInv, States
  <2> QED BY <1>1, <1>2, <2>1 DEF DisplayInv, UiInv
<1>4. TransferInv' /\ PanelInv' /\ NoTearing'
  BY <1>1 DEF DisplayInv, TransferInv, PanelInv, NoTearing, IsBusy
<1>5. FrameInv'
  <2> SUFFICES ASSUME ~dirty_' PROVE Agrees(frame', Showing')
    BY DEF FrameInv
  <2>1. /\ c.screen = "tuner" /\ ~dirty_ /\ screen_ = "tuner"
        /\ state["tuner"].compared = c.compared
    BY DEF Show, ShowTuner
  <2>2. Agrees(frame, state["tuner"]) /\ state["tuner"].screen = "tuner"
    BY <2>1 DEF DisplayInv, FrameInv, Showing, UiInv, States
  <2>3. Showing' = c
    BY <1>1, <1>2 DEF Showing, DisplayInv, UiInv, States
  <2> QED BY <1>1, <2>1, <2>2, <2>3 DEF Agrees
<1> QED BY <1>3, <1>4, <1>5 DEF DisplayInv

(* Ui::Update: a batch, and perhaps a new frame.                           *)
LEMMA UpdateStep ==
  ASSUME DisplayInv, NEW e \in Elapsed, Update(e)
  PROVE  DisplayInv'
<1> USE DEF DisplayInv
<1>1. /\ next_ \in Nat /\ remaining_ \in Nat /\ FrameBytes \in Nat /\ FrameBytes > 0
      /\ next_ + remaining_ = IF remaining_ # 0 THEN FrameBytes ELSE 0
      /\ Sent \in Nat /\ Sent <= remaining_
  BY BatchSize, DisplayAssumption DEF TransferInv, IsBusy
<1>2. panel' = Painted /\ now' \in 0..(Wrap - 1)
  BY ClockRange DEF Update, UpdateBusy, UpdateIdle, UpdateFrame
<1>3. DOMAIN panel' = Bytes /\ panel' \in [Bytes -> Content \cup {Blank}]
  BY <1>2, BatchPaints
<1>4. CASE UpdateBusy(e)
  <2>1. /\ UNCHANGED <<state, screen_, dirty_, last_push_ms_, frame>>
        /\ remaining_' = remaining_ - Sent /\ next_' = next_ + Sent
        /\ Sent < remaining_
    BY <1>1, <1>4 DEF UpdateBusy, Advance, ui
  <2>2. UiInv' /\ PanelInv' /\ FrameInv'
    BY <1>2, <1>3, <2>1 DEF UiInv, PanelInv, FrameInv, Showing
  <2>3. TransferInv' /\ IsBusy'
    BY <1>1, <2>1 DEF TransferInv, IsBusy
  <2>4. NoTearing'
    BY <1>2, <1>3, <2>1, <2>3, BatchPaints DEF NoTearing
  <2> QED BY <2>2, <2>3, <2>4
<1>5. CASE Sent = remaining_
  <2>1. \A b \in Bytes : panel'[b] = frame
    <3> SUFFICES ASSUME NEW b \in Bytes PROVE ~IsBusy \/ b < next_ + Sent
      BY <1>2, BatchPaints
    <3> QED BY <1>1, <1>5 DEF Bytes, IsBusy
  <2>2. CASE UpdateIdle(e)
    <3>1. /\ UNCHANGED <<state, screen_, dirty_, last_push_ms_, frame>>
          /\ remaining_' = 0 /\ next_' = 0
      BY <1>1, <1>5, <2>2 DEF UpdateIdle, Advance, ui
    <3>2. UiInv' /\ PanelInv' /\ FrameInv' /\ TransferInv'
      BY <1>2, <1>3, <3>1 DEF UiInv, PanelInv, FrameInv, Showing, TransferInv, IsBusy
    <3>3. NoTearing'
      BY <1>3, <2>1, <3>1 DEF NoTearing
    <3> QED BY <3>2, <3>3
  <2>3. CASE UpdateFrame(e)
    <3>1. /\ UNCHANGED <<state, screen_>> /\ dirty_' = FALSE /\ last_push_ms_' = now'
          /\ frame' = Showing /\ next_' = 0 /\ remaining_' = FrameBytes
      BY <2>3 DEF UpdateFrame, PushFrame
    <3>2. UiInv'
      BY <1>2, <3>1 DEF UiInv
    <3>3. TransferInv' /\ IsBusy'
      BY <1>1, <3>1 DEF TransferInv, IsBusy
    <3>4. PanelInv' /\ FrameInv'
      <4>1. Showing' = Showing
        BY <3>1 DEF Showing
      <4> QED BY <1>3, <3>1, <4>1, ShowingAgrees DEF PanelInv, FrameInv
    <3>5. NoTearing'
      BY <1>3, <3>1, <3>3 DEF NoTearing, Bytes
    <3> QED BY <3>2, <3>3, <3>4, <3>5
  <2> QED BY <1>1, <1>5, <2>2, <2>3 DEF Update, UpdateBusy
<1> QED BY <1>4, <1>5 DEF Update, UpdateIdle, UpdateFrame

LEMMA DisplayStep ==
  ASSUME DisplayInv, [Next]_vars
  PROVE  DisplayInv'
<1>1. CASE \E c \in Content : Show(c) \/ ShowTuner(c)
  BY <1>1, ShowStep
<1>2. CASE \E e \in Elapsed : Update(e)
  BY <1>2, UpdateStep
<1>3. CASE UNCHANGED vars
  BY <1>3 DEF vars, ui, transfer, DisplayInv, UiInv, TransferInv, PanelInv, NoTearing,
              FrameInv, IsBusy, Showing
<1> QED BY <1>1, <1>2, <1>3 DEF Next

LEMMA DisplayAlways == Spec => []DisplayInv
<1> QED BY DisplayStart, DisplayStep, PTL DEF Spec

(* The transfer's offset and count add up to a frame, and every variable   *)
(* keeps its type (src/display/display_transfer.h).                        *)
THEOREM DisplayTypes == Spec => []TypeOK
<1>1. DisplayInv => TypeOK
  BY DEF DisplayInv, UiInv, States, TransferInv, PanelInv, TypeOK, Bytes
<1> QED BY <1>1, DisplayAlways, PTL

(* No tearing, whatever is shown while rows are sent: src/Ui.cpp:107-130.  *)
THEOREM NeverTorn == Spec => []NoTearing
<1>1. DisplayInv => NoTearing
  BY DEF DisplayInv
<1> QED BY <1>1, DisplayAlways, PTL

(* At rest the panel agrees with what was last shown: src/Ui.cpp:58-130.   *)
THEOREM RestingPanelAgrees == Spec => []UpToDate
<1>1. DisplayInv => UpToDate
  BY DEF DisplayInv, FrameInv, NoTearing, UpToDate
<1> QED BY <1>1, DisplayAlways, PTL

-----------------------------------------------------------------------------
(* Boxes of a frame: where they are, and which of them are texts.          *)
PlainPart ==
  Texts \cup {"line", "block", "pill", "mark", "bar", "highlight", "accent", "track",
              "field", "needle", "scale"}
Place == [part : PlainPart \cup {"level", "thumb"},
          x : Nat, y : Nat, w : Nat, h : Nat, clipped : BOOLEAN]
Frames == Seq(Place)

(* InPlace and Legible of one frame; the first does not ask for an order.  *)
Sound(B) ==
  /\ \A b \in B : InMemory(b)
  /\ \A b \in B : b.part = "level" => \E c \in B : c.part = "bar" /\ Inside(b, c)
  /\ \A b \in B : b.part = "thumb" => \E c \in B : c.part = "track" /\ Inside(b, c)

Layered(s) ==
  \A i, j \in 1..Len(s) : i < j /\ s[i].part \in Texts => ~CoveredBy(s[i], s[j])

(* No text of s is covered by a box of t.                                  *)
Spares(s, t) ==
  \A i \in 1..Len(s), j \in 1..Len(t) : s[i].part \in Texts => ~CoveredBy(s[i], t[j])

(* One sequence after another.                                             *)
LEMMA OneBox ==
  ASSUME NEW b \in Place
  PROVE  <<b>> \in Frames /\ Range(<<b>>) = {b} /\ Len(<<b>>) = 1
<1>1. <<b>> \in Frames /\ Len(<<b>>) = 1 /\ DOMAIN <<b>> = 1..1 /\ <<b>>[1] = b
  BY DEF Frames
<1>2. \A i \in 1..1 : i = 1
  OBVIOUS
<1> QED BY <1>1, <1>2 DEF Range

LEMMA NoBox == <<>> \in Frames /\ Range(<<>>) = {} /\ Len(<<>>) = 0
<1>1. <<>> \in Frames /\ Len(<<>>) = 0 /\ DOMAIN <<>> = 1..0
  BY EmptySeq DEF Frames
<1>2. 1..0 = {}
  OBVIOUS
<1> QED BY <1>1, <1>2 DEF Range

LEMMA RangeElement ==
  ASSUME NEW s \in Frames, NEW i \in 1..Len(s)
  PROVE  s[i] \in Range(s) /\ s[i] \in Place
BY RangeEquality, ElementOfSeq DEF Frames

LEMMA Join ==
  ASSUME NEW s \in Frames, NEW t \in Frames
  PROVE  s \o t \in Frames /\ Range(s \o t) = Range(s) \cup Range(t)
BY ConcatProperties, RangeConcatenation DEF Frames

LEMMA SoundJoin ==
  ASSUME NEW s \in Frames, NEW t \in Frames, Sound(Range(s)), Sound(Range(t))
  PROVE  s \o t \in Frames /\ Sound(Range(s \o t))
<1>1. s \o t \in Frames /\ Range(s \o t) = Range(s) \cup Range(t)
  BY Join
<1>2. ASSUME NEW B, NEW C, Sound(B), Sound(C) PROVE Sound(B \cup C)
  BY <1>2 DEF Sound
<1> QED BY <1>1, <1>2

LEMMA LayeredJoin ==
  ASSUME NEW s \in Frames, NEW t \in Frames, Layered(s), Layered(t), Spares(s, t)
  PROVE  s \o t \in Frames /\ Layered(s \o t)
<1> DEFINE u == s \o t
<1>1. /\ Len(s) \in Nat /\ Len(t) \in Nat
      /\ u \in Frames /\ Len(u) = Len(s) + Len(t)
      /\ \A i \in 1..(Len(s) + Len(t)) : u[i] = IF i <= Len(s) THEN s[i] ELSE t[i - Len(s)]
  BY ConcatProperties, LenProperties DEF Frames
<1> HIDE DEF u
<1>2. ASSUME NEW i \in 1..Len(u), NEW j \in 1..Len(u), i < j, u[i].part \in Texts
      PROVE  ~CoveredBy(u[i], u[j])
  <2>1. CASE j <= Len(s)
    <3>1. i \in 1..Len(s) /\ j \in 1..Len(s) /\ u[i] = s[i] /\ u[j] = s[j]
      BY <1>1, <1>2, <2>1
    <3> QED BY <1>2, <3>1 DEF Layered
  <2>2. CASE i <= Len(s) /\ ~(j <= Len(s))
    <3>1. i \in 1..Len(s) /\ j - Len(s) \in 1..Len(t) /\ u[i] = s[i] /\ u[j] = t[j - Len(s)]
      BY <1>1, <1>2, <2>2
    <3> QED BY <1>2, <3>1 DEF Spares
  <2>3. CASE ~(i <= Len(s))
    <3>1. /\ i - Len(s) \in 1..Len(t) /\ j - Len(s) \in 1..Len(t) /\ i - Len(s) < j - Len(s)
          /\ u[i] = t[i - Len(s)] /\ u[j] = t[j - Len(s)]
      BY <1>1, <1>2, <2>3
    <3> QED BY <1>2, <3>1 DEF Layered
  <2> QED BY <1>1, <1>2, <2>1, <2>2, <2>3
<1> QED BY <1>1, <1>2 DEF Layered, u

LEMMA JoinElement ==
  ASSUME NEW s \in Frames, NEW t \in Frames, NEW i \in 1..Len(s \o t)
  PROVE  \/ \E k \in 1..Len(s) : (s \o t)[i] = s[k]
         \/ \E k \in 1..Len(t) : (s \o t)[i] = t[k]
<1> DEFINE v == s \o t
<1>1. /\ Len(s) \in Nat /\ Len(t) \in Nat /\ Len(v) = Len(s) + Len(t)
      /\ \A j \in 1..(Len(s) + Len(t)) : v[j] = IF j <= Len(s) THEN s[j] ELSE t[j - Len(s)]
  BY ConcatProperties, LenProperties DEF Frames
<1>2. i \in 1..Len(v)
  OBVIOUS
<1> HIDE DEF v
<1>3. CASE i <= Len(s)
  BY <1>1, <1>2, <1>3 DEF v
<1>4. CASE ~(i <= Len(s))
  <2>1. i - Len(s) \in 1..Len(t) /\ v[i] = t[i - Len(s)]
    BY <1>1, <1>2, <1>4
  <2> QED BY <2>1 DEF v
<1> QED BY <1>3, <1>4

LEMMA SparesJoin ==
  ASSUME NEW s \in Frames, NEW t \in Frames, NEW u \in Frames
  PROVE  /\ Spares(s, u) /\ Spares(t, u) => Spares(s \o t, u)
         /\ Spares(u, s) /\ Spares(u, t) => Spares(u, s \o t)
<1> DEFINE v == s \o t
<1>1. \A i \in 1..Len(v) : \/ \E k \in 1..Len(s) : v[i] = s[k]
                           \/ \E k \in 1..Len(t) : v[i] = t[k]
  BY JoinElement
<1> HIDE DEF v
<1>2. Spares(s, u) /\ Spares(t, u) => Spares(v, u)
  BY <1>1 DEF Spares
<1>3. Spares(u, s) /\ Spares(u, t) => Spares(u, v)
  BY <1>1 DEF Spares
<1> QED BY <1>2, <1>3 DEF v

(* Induction over a bounded range, from the least counterexample.          *)
LEMMA RangeInduction ==
  ASSUME NEW m \in Nat, NEW S, 0 \in S, \A k \in 0..(m - 1) : k \in S => k + 1 \in S
  PROVE  0..m \subseteq S
<1> DEFINE T == {k \in 0..m : k \notin S}
<1> SUFFICES ASSUME T # {} PROVE FALSE
  OBVIOUS
<1>1. T \subseteq Nat
  OBVIOUS
<1>2. PICK k \in T : \A j \in T : ~(j < k)
  <2>1. PICK k \in T : \A j \in T : <<j, k>> \notin OpToRel(<, Nat)
    BY <1>1, WFMin, NatLessThanWellFounded
  <2>2. \A j \in T : j < k => <<j, k>> \in OpToRel(<, Nat)
    BY <1>1 DEF OpToRel
  <2> QED BY <2>1, <2>2, Zenon
<1>3. k \in 1..m /\ k - 1 \in 0..(m - 1)
  BY <1>2
<1>4. k - 1 \in S
  BY <1>2, <1>3
<1>5. (k - 1) + 1 \in S
  BY <1>3, <1>4
<1> QED BY <1>2, <1>3, <1>5

(* FlattenSeq, as the frame it is for some number of rows.                 *)
FlatTo(rows, n, f) ==
  f = [i \in 1..n |-> IF i = 1 THEN rows[i] ELSE f[i-1] \o rows[i]]

LEMMA FlatExists ==
  ASSUME NEW rows, NEW n \in Nat
  PROVE  \E f : FlatTo(rows, n, f)
<1> DEFINE S == {k \in Nat : \E f : FlatTo(rows, k, f)}
<1>1. 0 \in S
  <2>1. FlatTo(rows, 0, [i \in 1..0 |-> 0])
    BY DEF FlatTo
  <2> QED BY <2>1
<1>2. ASSUME NEW k \in 0..(n - 1), k \in S PROVE k + 1 \in S
  <2>1. PICK f : FlatTo(rows, k, f)
    BY <1>2
  <2> DEFINE g == [i \in 1..(k + 1) |-> IF i = 1 THEN rows[i] ELSE f[i-1] \o rows[i]]
  <2>2. \A i \in 1..k : g[i] = f[i]
    <3>1. f = [i \in 1..k |-> IF i = 1 THEN rows[i] ELSE f[i-1] \o rows[i]]
      BY <2>1 DEF FlatTo
    <3> HIDE DEF FlatTo
    <3>2. \A i \in 1..k : i \in 1..(k + 1)
      OBVIOUS
    <3> QED BY <3>1, <3>2, Zenon
  <2>3. FlatTo(rows, k + 1, g)
    <3>1. \A i \in 1..(k + 1) : i # 1 => i - 1 \in 1..k
      OBVIOUS
    <3>2. \A i \in 1..(k + 1) :
            (IF i = 1 THEN rows[i] ELSE f[i-1] \o rows[i])
              = (IF i = 1 THEN rows[i] ELSE g[i-1] \o rows[i])
      BY <2>2, <3>1, Zenon
    <3>3. g = [i \in 1..(k + 1) |-> IF i = 1 THEN rows[i] ELSE g[i-1] \o rows[i]]
      BY <3>2, Zenon
    <3> QED BY <3>3, Zenon DEF FlatTo
  <2> QED BY <2>3
<1> HIDE DEF S
<1>3. n \in S
  BY <1>1, <1>2, RangeInduction
<1> QED BY <1>3 DEF S

LEMMA FlattenIs ==
  ASSUME NEW n \in Nat \ {0}, NEW rows \in [1..n -> Frames]
  PROVE  \E f : /\ FlattenSeq(rows) = f[n]
                /\ f[1] = rows[1]
                /\ \A k \in 1..(n - 1) : f[k + 1] = f[k] \o rows[k + 1]
<1> DEFINE f == CHOOSE f : FlatTo(rows, n, f)
<1>1. FlatTo(rows, n, f)
  BY FlatExists
<1>2. Len(rows) = n
  BY LenProperties, SeqDef
<1>3. FlattenSeq(rows) = f[n]
  BY <1>2 DEF FlattenSeq, FlatTo
<1> HIDE DEF f
<1>4. f = [i \in 1..n |-> IF i = 1 THEN rows[i] ELSE f[i-1] \o rows[i]]
  BY <1>1 DEF FlatTo
<1>5. f[1] = rows[1]
  BY <1>4
<1>6. ASSUME NEW k \in 1..(n - 1) PROVE f[k + 1] = f[k] \o rows[k + 1]
  <2>1. k + 1 \in 1..n /\ k + 1 # 1 /\ (k + 1) - 1 = k
    OBVIOUS
  <2>2. f[k + 1] = f[(k + 1) - 1] \o rows[k + 1]
    BY <1>4, <2>1, Zenon
  <2> QED BY <2>1, <2>2
<1> QED BY <1>3, <1>5, <1>6

(* So what holds of every row and is kept by appending one holds of all.   *)
LEMMA FlattenSound ==
  ASSUME NEW n \in Nat \ {0}, NEW rows \in [1..n -> Frames],
         \A i \in 1..n : Sound(Range(rows[i]))
  PROVE  FlattenSeq(rows) \in Frames /\ Sound(Range(FlattenSeq(rows)))
<1>1. PICK f : /\ FlattenSeq(rows) = f[n]
               /\ f[1] = rows[1]
               /\ \A k \in 1..(n - 1) : f[k + 1] = f[k] \o rows[k + 1]
  BY FlattenIs
<1> DEFINE S == {k \in Nat : k = 0 \/ (f[k] \in Frames /\ Sound(Range(f[k])))}
<1>2. ASSUME NEW k \in 0..(n - 1), k \in S PROVE k + 1 \in S
  <2>1. CASE k = 0
    BY <1>1, <2>1
  <2>2. CASE k # 0
    <3>1. k \in 1..(n - 1) /\ k + 1 \in 1..n
      BY <2>2
    <3>2. f[k + 1] = f[k] \o rows[k + 1] /\ rows[k + 1] \in Frames /\ Sound(Range(rows[k + 1]))
      BY <1>1, <3>1
    <3>3. f[k] \in Frames /\ Sound(Range(f[k]))
      BY <1>2, <2>2
    <3>4. f[k] \o rows[k + 1] \in Frames /\ Sound(Range(f[k] \o rows[k + 1]))
      BY <3>2, <3>3, SoundJoin
    <3>5. f[k + 1] \in Frames /\ Sound(Range(f[k + 1]))
      BY <3>2, <3>4, Zenon
    <3>6. k + 1 \in Nat
      BY <3>1
    <3> QED BY <3>5, <3>6
  <2> QED BY <2>1, <2>2
<1>3. 0 \in S
  OBVIOUS
<1> HIDE DEF S
<1>4. n \in S
  <2>1. 0..n \subseteq S
    BY <1>2, <1>3, RangeInduction
  <2> QED BY <2>1
<1> QED BY <1>1, <1>4 DEF S

-----------------------------------------------------------------------------
(* A box that is no wider than the screen covers where it is; any box at   *)
(* most a row more.                                                        *)
Narrow(b) == b.clipped \/ b.x + b.w <= Width

LEMMA Covering ==
  ASSUME NEW b \in Place, NEW c \in Place, CoveredBy(b, c)
  PROVE  /\ c.y <= b.y + b.h
         /\ Narrow(b) /\ Narrow(c) => b.x < c.x + c.w /\ c.x < b.x + b.w
<1>1. PICK p \in Pieces(b), q \in Pieces(c) : Overlap(p, q)
  BY DEF CoveredBy
<1>2. /\ p = b \/ (~Narrow(b) /\ p = [b EXCEPT !.x = 0, !.y = @ + 1, !.w = b.x + b.w - Width])
      /\ q = c \/ (~Narrow(c) /\ q = [c EXCEPT !.x = 0, !.y = @ + 1, !.w = c.x + c.w - Width])
  BY <1>1 DEF Pieces, Narrow
<1>3. /\ p = b \/ (~Narrow(b) /\ p.x = 0 /\ p.y = b.y + 1 /\ p.h = b.h)
      /\ q = c \/ (~Narrow(c) /\ q.x = 0 /\ q.y = c.y + 1 /\ q.h = c.h)
  BY <1>2 DEF Place
<1> QED BY <1>1, <1>3 DEF Overlap, Place

Beside(b, c) == Narrow(b) /\ Narrow(c) /\ (b.x + b.w <= c.x \/ c.x + c.w <= b.x)

LEMMA ApartSpared ==
  ASSUME NEW b \in Place, NEW c \in Place, b.y + b.h < c.y \/ Beside(b, c)
  PROVE  ~CoveredBy(b, c)
<1> SUFFICES ASSUME CoveredBy(b, c) PROVE FALSE
  OBVIOUS
<1> QED BY Covering DEF Place, Beside

(* So boxes are layered if the texts come from above, or side by side.     *)
LEMMA ApartLayered ==
  ASSUME NEW s \in Frames,
         \A i, j \in 1..Len(s) : i < j /\ s[i].part \in Texts =>
           s[i].y + s[i].h < s[j].y \/ Beside(s[i], s[j])
  PROVE  Layered(s)
<1> SUFFICES ASSUME NEW i \in 1..Len(s), NEW j \in 1..Len(s), i < j, s[i].part \in Texts
             PROVE  ~CoveredBy(s[i], s[j])
  BY DEF Layered
<1>1. s[i] \in Place /\ s[j] \in Place
  BY ElementOfSeq DEF Frames
<1> QED BY <1>1, ApartSpared

TextsEnd(s, e) == \A i \in 1..Len(s) : s[i].part \in Texts => s[i].y + s[i].h < e
Starts(s, e) == \A i \in 1..Len(s) : e <= s[i].y

LEMMA SparesBelow ==
  ASSUME NEW s \in Frames, NEW t \in Frames, NEW e \in Nat, TextsEnd(s, e), Starts(t, e)
  PROVE  Spares(s, t)
<1> SUFFICES ASSUME NEW i \in 1..Len(s), NEW j \in 1..Len(t), s[i].part \in Texts
             PROVE  ~CoveredBy(s[i], t[j])
  BY DEF Spares
<1>1. s[i] \in Place /\ t[j] \in Place
  BY ElementOfSeq DEF Frames
<1>2. s[i].y + s[i].h < e /\ e <= t[j].y
  BY DEF TextsEnd, Starts
<1>3. s[i].y + s[i].h < t[j].y
  BY <1>1, <1>2 DEF Place
<1> QED BY <1>1, <1>3, ApartSpared

(* A layered stretch from a row on, its texts above another.               *)
Stacked(s, top, end) ==
  s \in Frames /\ Layered(s) /\ Starts(s, top) /\ TextsEnd(s, end)

LEMMA ApartStacked ==
  ASSUME NEW s \in Frames, NEW top, NEW end,
         \A i \in 1..Len(s) : top <= s[i].y /\ (s[i].part \in Texts => s[i].y + s[i].h < end),
         \A i, j \in 1..Len(s) : i < j /\ s[i].part \in Texts =>
           s[i].y + s[i].h < s[j].y \/ Beside(s[i], s[j])
  PROVE  Stacked(s, top, end)
BY ApartLayered DEF Stacked, Starts, TextsEnd

LEMMA SparedStack ==
  ASSUME NEW s, NEW t, NEW a \in Nat, NEW b \in Nat, NEW c \in Nat, NEW d \in Nat,
         Stacked(s, a, b), Stacked(t, c, d), Spares(s, t), a <= c, b <= d
  PROVE  Stacked(s \o t, a, d)
<1>1. s \in Frames /\ t \in Frames /\ s \o t \in Frames /\ Layered(s \o t)
  BY LayeredJoin DEF Stacked
<1>2. /\ \A k \in 1..Len(s) : s[k] \in Place /\ a <= s[k].y /\ (s[k].part \in Texts => s[k].y + s[k].h < b)
      /\ \A k \in 1..Len(t) : t[k] \in Place /\ c <= t[k].y /\ (t[k].part \in Texts => t[k].y + t[k].h < d)
  BY <1>1, ElementOfSeq DEF Stacked, Starts, TextsEnd, Frames
<1>3. ASSUME NEW i \in 1..Len(s \o t)
      PROVE  /\ a <= (s \o t)[i].y
             /\ (s \o t)[i].part \in Texts => (s \o t)[i].y + (s \o t)[i].h < d
  <2>1. CASE \E k \in 1..Len(s) : (s \o t)[i] = s[k]
    BY <1>2, <2>1 DEF Place
  <2>2. CASE \E k \in 1..Len(t) : (s \o t)[i] = t[k]
    BY <1>2, <2>2 DEF Place
  <2> QED BY <1>1, <2>1, <2>2, JoinElement
<1> QED BY <1>1, <1>3 DEF Stacked, Starts, TextsEnd

LEMMA Stack ==
  ASSUME NEW s, NEW t, NEW a \in Nat, NEW b \in Nat, NEW c \in Nat, NEW d \in Nat,
         Stacked(s, a, b), Stacked(t, c, d), a <= c, b <= c, b <= d
  PROVE  Stacked(s \o t, a, d)
<1>1. s \in Frames /\ t \in Frames /\ TextsEnd(s, b) /\ Starts(t, c)
  BY DEF Stacked
<1>2. \A i \in 1..Len(s) : s[i] \in Place
  BY <1>1, ElementOfSeq DEF Frames
<1>3. TextsEnd(s, c)
  BY <1>1, <1>2 DEF TextsEnd, Place
<1> QED BY <1>1, <1>3, SparesBelow, SparedStack

LEMMA FlattenStacked ==
  ASSUME NEW n \in Nat \ {0}, NEW rows \in [1..n -> Frames], NEW a \in Nat, NEW b \in Nat,
         \A i \in 1..n : Stacked(rows[i], a, b),
         \A i, j \in 1..n : i < j => Spares(rows[i], rows[j])
  PROVE  /\ Stacked(FlattenSeq(rows), a, b)
         /\ \A t \in Frames : (\A i \in 1..n : Spares(rows[i], t)) => Spares(FlattenSeq(rows), t)
<1>1. PICK f : /\ FlattenSeq(rows) = f[n]
               /\ f[1] = rows[1]
               /\ \A k \in 1..(n - 1) : f[k + 1] = f[k] \o rows[k + 1]
  BY FlattenIs
<1> DEFINE Fine(k) ==
             /\ Stacked(f[k], a, b)
             /\ \A t \in Frames : (\A i \in 1..k : Spares(rows[i], t)) => Spares(f[k], t)
           S == {k \in Nat : k = 0 \/ Fine(k)}
<1>2. ASSUME NEW k \in 0..(n - 1), k \in S PROVE k + 1 \in S
  <2>1. CASE k = 0
    <3>1. Fine(1)
      BY <1>1
    <3> QED BY <2>1, <3>1
  <2>2. CASE k # 0
    <3>1. k \in 1..(n - 1) /\ k + 1 \in 1..n /\ \A i \in 1..k : i \in 1..n /\ i < k + 1
      BY <2>2
    <3>2. f[k + 1] = f[k] \o rows[k + 1] /\ rows[k + 1] \in Frames /\ Stacked(rows[k + 1], a, b)
      BY <1>1, <3>1
    <3>3. Fine(k) /\ f[k] \in Frames
      BY <1>2, <2>2 DEF Stacked
    <3>4. Spares(f[k], rows[k + 1])
      <4>1. \A i \in 1..k : Spares(rows[i], rows[k + 1])
        BY <3>1
      <4> QED BY <3>2, <3>3, <4>1
    <3>5. Stacked(f[k + 1], a, b)
      BY <3>2, <3>3, <3>4, SparedStack
    <3>6. ASSUME NEW t \in Frames, \A i \in 1..(k + 1) : Spares(rows[i], t)
          PROVE  Spares(f[k + 1], t)
      BY <3>2, <3>3, <3>6, SparesJoin
    <3>7. Fine(k + 1)
      BY <3>5, <3>6
    <3> QED BY <3>7
  <2> QED BY <2>1, <2>2
<1>3. 0 \in S
  OBVIOUS
<1> HIDE DEF S
<1>4. n \in S
  <2>1. 0..n \subseteq S
    BY <1>2, <1>3, RangeInduction
  <2> QED BY <2>1
<1> QED BY <1>1, <1>4 DEF S

(* What FillRect writes is in the buffer; a text is dropped outside it.    *)
Plain == {b \in Place : InMemory(b) /\ b.part \in PlainPart}

LEMMA PlainSound ==
  ASSUME NEW s \in Seq(Plain)
  PROVE  s \in Frames /\ Sound(Range(s))
<1>1. Range(s) \in SUBSET Plain /\ s \in Seq(Place)
  BY RangeOfSeq, SeqMonotonic DEF Plain
<1> QED BY <1>1 DEF Sound, Plain, Frames, PlainPart, Texts

LEMMA BoxFits ==
  ASSUME NEW part \in PlainPart \cup {"level", "thumb"}, NEW x \in Nat, NEW y \in Nat, NEW w \in Nat, NEW h \in Nat,
         y + h <= Height, (y + h - 1) * Width + x + w <= Width * Height
  PROVE  /\ Box(part, x, y, w, h) \in Place /\ InMemory(Box(part, x, y, w, h))
         /\ part \in PlainPart => Box(part, x, y, w, h) \in Plain
<1> DEFINE b == Box(part, x, y, w, h)
<1>1. b \in Place /\ b.x = x /\ b.y = y /\ b.w = w /\ b.h = h /\ b.part = part
  BY DEF Box, Place
<1>2. ASSUME NEW row \in RowsFilled(b)
      PROVE  row * Width + b.x + b.w <= Width * Height
  <2>1. (y + h) % Word = y + h
    BY DEF Word, Height
  <2>2. row \in Int /\ row <= y + h - 1
    BY <1>1, <2>1 DEF RowsFilled
  <2> QED BY <1>1, <2>2 DEF Width, Height
<1> QED BY <1>1, <1>2 DEF InMemory, Plain

LEMMA TextFits ==
  ASSUME NEW part \in PlainPart, NEW x \in Nat, NEW y \in Nat, NEW len \in Nat
  PROVE  Text(part, x, y, len) \in Plain
BY DEF Text, Plain, Place, InMemory

LEMMA PartNames ==
  /\ "index" \in PlainPart /\ "state" \in PlainPart /\ "name" \in PlainPart
  /\ "label" \in PlainPart /\ "hint" \in PlainPart /\ "title" \in PlainPart
  /\ "cursor" \in PlainPart /\ "entry" \in PlainPart /\ "value" \in PlainPart
  /\ "muted" \in PlainPart /\ "note" \in PlainPart /\ "info" \in PlainPart
  /\ "line" \in PlainPart /\ "block" \in PlainPart /\ "pill" \in PlainPart
  /\ "mark" \in PlainPart /\ "bar" \in PlainPart /\ "highlight" \in PlainPart
  /\ "accent" \in PlainPart /\ "track" \in PlainPart /\ "field" \in PlainPart
  /\ "needle" \in PlainPart /\ "scale" \in PlainPart
BY DEF PlainPart, Texts

(* A name of up to 30 large letters spills into the next rows, no further. *)
LEMMA BigFits ==
  ASSUME NEW part \in PlainPart, NEW x \in Nat, NEW y \in Nat, NEW len \in Nat,
         x <= 120, y <= 200, len <= 30
  PROVE  Big(part, x, y, len) \in Plain
<1>1. 14 * len \in Nat /\ 14 * len <= 420
  OBVIOUS
<1> QED BY <1>1, BoxFits DEF Big, Width, Height

-----------------------------------------------------------------------------
(* The performance screen.                                                 *)
LEMMA NameLengths ==
  ASSUME NEW s \in Performance
  PROVE  /\ s.preset_name \in Nat /\ s.model_name \in Nat /\ s.ir_name \in Nat
         /\ s.preset_name <= 30 /\ s.model_name <= 30 /\ s.ir_name <= 30
         /\ s.levels \in [1..5 -> Int \X (Nat \ {0})]
         /\ s.dirty \in BOOLEAN /\ s.overload \in BOOLEAN
<1>1. /\ s.preset_name \in 0..30 /\ s.model_name \in 0..30 /\ s.ir_name \in 0..30
      /\ s.levels \in [1..5 -> Int \X (Nat \ {0})]
      /\ s.dirty \in BOOLEAN /\ s.overload \in BOOLEAN
  BY DrawingAssumption DEF Performance
<1> QED BY <1>1

LEMMA HeaderDrawn ==
  ASSUME NEW s \in Performance
  PROVE  /\ Header(s) \in Seq(Plain) /\ Stacked(Header(s), 4, 38)
         /\ s.preset_name <= 12 =>
              \A i \in 1..Len(Header(s)) :
                LET b == Header(s)[i] IN
                b.part \in Texts => b.y + b.h < 35 \/ (b.y + b.h < 40 /\ 11 <= b.x /\ b.x + b.w <= 229)
<1>1. s.preset_name \in Nat /\ s.preset_name <= 30 /\ s.dirty \in BOOLEAN
  BY NameLengths
<1> DEFINE w == 14 * s.preset_name
           x == IF w < 124 THEN 58 + (124 - w) \div 2 ELSE 56
           name == Big("name", x, 16, s.preset_name)
           line == <<Text("index", 6, 4, 5), Box("pill", 184, 4, 50, 12), Text("state", 188, 5, 6), name>>
           mark == IF s.dirty THEN <<Text("mark", 76, 38, 8)>> ELSE <<>>
<1>2. Header(s) = line \o mark
  BY DEF Header
<1>3. /\ w \in Nat /\ w <= 420 /\ x \in Nat /\ 56 <= x /\ x <= 120
      /\ s.preset_name <= 12 => x + w <= 229
  BY <1>1
<1> HIDE DEF x
<1> USE DEF Texts
<1>4. name \in Plain
  <2>1. "name" \in PlainPart
    BY PartNames
  <2> QED BY <1>1, <1>3, <2>1, BigFits
<1>5. Text("index", 6, 4, 5) \in Plain /\ Text("state", 188, 5, 6) \in Plain
  BY TextFits, PartNames
<1>6. Box("pill", 184, 4, 50, 12) \in Plain
  BY BoxFits, PartNames DEF Width, Height
<1>7. line \in Seq(Plain) /\ Len(line) = 4 /\ line \in Frames
  <2>1. line \in Seq(Plain) /\ Len(line) = 4
    BY <1>4, <1>5, <1>6
  <2> QED BY <2>1, PlainSound
<1>8. mark \in Seq(Plain) /\ mark \in Frames
  <2>1. mark \in Seq(Plain)
    BY TextFits, PartNames
  <2> QED BY <2>1, PlainSound
<1>9. Stacked(line, 4, 38)
  <2>1. \A i \in 1..4 : 4 <= line[i].y /\ (line[i].part \in Texts => line[i].y + line[i].h < 38)
    BY <1>1, <1>3 DEF Text, Box, Big
  <2>2. \A i, j \in 1..4 : i < j /\ line[i].part \in Texts =>
          line[i].y + line[i].h < line[j].y \/ Beside(line[i], line[j])
    BY <1>1, <1>3 DEF Beside, Narrow, Width, Text, Box, Big
  <2> QED BY <1>7, <2>1, <2>2, ApartStacked
<1>10. Stacked(mark, 38, 38)
  <2>1. Len(mark) \in 0..1 /\ \A i \in 1..Len(mark) : 38 <= mark[i].y /\ mark[i].part \notin Texts
    BY <1>1 DEF Text
  <2> QED BY <1>8, <2>1, ApartStacked
<1>11. Header(s) \in Seq(Plain) /\ Stacked(Header(s), 4, 38)
  BY <1>2, <1>7, <1>8, <1>9, <1>10, Stack, ConcatProperties
<1>12. ASSUME s.preset_name <= 12, NEW i \in 1..Len(Header(s)), NEW b, b = Header(s)[i], b.part \in Texts
       PROVE  b.y + b.h < 35 \/ (b.y + b.h < 40 /\ 11 <= b.x /\ b.x + b.w <= 229)
  <2>1. \A k \in 1..4 : line[k].y + line[k].h < 35
          \/ (line[k].y + line[k].h < 40 /\ 11 <= line[k].x /\ line[k].x + line[k].w <= 229)
    <3>1. x + w <= 229 /\ x \in Nat /\ x >= 11 /\ w \in Nat
      BY <1>3, <1>12
    <3>2. /\ line[1].y = 4 /\ line[1].h = 10 /\ line[2].y = 4 /\ line[2].h = 12
          /\ line[3].y = 5 /\ line[3].h = 10
          /\ line[4].y = 16 /\ line[4].h = 20 /\ line[4].x = x /\ line[4].w = w
      BY DEF Text, Box, Big
    <3> HIDE DEF line, w
    <3>3. \A k \in 1..4 : k = 1 \/ k = 2 \/ k = 3 \/ k = 4
      OBVIOUS
    <3> QED BY <3>1, <3>2, <3>3
  <2>2. \A k \in 1..Len(mark) : mark[k].part \notin Texts
    BY <1>1 DEF Text
  <2> HIDE DEF line, mark
  <2>3. (\E k \in 1..4 : b = line[k]) \/ (\E k \in 1..Len(mark) : b = mark[k])
    <3>1. i \in 1..Len(line \o mark) /\ b = (line \o mark)[i]
      BY <1>2, <1>12
    <3>2. line \in Frames /\ mark \in Frames /\ Len(line) = 4
      BY <1>7, <1>8
    <3>3. \/ \E k \in 1..Len(line) : (line \o mark)[i] = line[k]
          \/ \E k \in 1..Len(mark) : (line \o mark)[i] = mark[k]
      BY <3>1, <3>2, JoinElement, Zenon
    <3> QED BY <3>1, <3>2, <3>3, Zenon
  <2> QED BY <1>12, <2>1, <2>2, <2>3
<1> QED BY <1>11, <1>12

LEMMA AmpDrawn ==
  ASSUME NEW s \in Performance
  PROVE  /\ AmpBlock(s) \in Seq(Plain) /\ Stacked(AmpBlock(s), 35, 101)
         /\ s.preset_name <= 12 => Spares(Header(s), AmpBlock(s))
<1> DEFINE amp == AmpBlock(s)
<1> USE DEF Texts
<1>1. s.model_name \in Nat /\ s.model_name <= 30
  BY NameLengths
<1>2. Big("name", 20, 80, s.model_name) \in Plain
  BY <1>1, BigFits, PartNames
<1>3. /\ HLine(10, 40, 220) \in Plain /\ HLine(10, 115, 220) \in Plain
      /\ VLine(10, 35, 80) \in Plain /\ VLine(229, 35, 80) \in Plain
  <2>1. "line" \in PlainPart
    BY PartNames
  <2> QED BY <2>1, BoxFits DEF HLine, VLine, Width, Height
<1>4. Box("block", 10, 40, 220, 82) \in Plain /\ Text("label", 20, 53, 3) \in Plain
  <2>1. "block" \in PlainPart /\ "label" \in PlainPart
    BY PartNames
  <2> QED BY <2>1, BoxFits, TextFits DEF Width, Height
<1>5. amp \in Seq(Plain) /\ Len(amp) = 7
  BY <1>2, <1>3, <1>4 DEF AmpBlock
<1>6. amp \in Frames
  BY <1>5, PlainSound
<1>7. /\ \A i \in 1..7 : 35 <= amp[i].y /\ (amp[i].part \in Texts => amp[i].y + amp[i].h < 101 /\ i \in 6..7)
      /\ amp[6].y + amp[6].h < amp[7].y
  BY <1>1 DEF AmpBlock, HLine, VLine, Text, Box, Big
<1>8. \A i \in 1..7 : amp[i].y >= 40 \/ (amp[i].w = 1 /\ amp[i].x \in {10, 229})
  BY <1>1 DEF AmpBlock, HLine, VLine, Text, Box, Big
<1> HIDE DEF amp
<1>9. Stacked(amp, 35, 101)
  BY <1>5, <1>6, <1>7, ApartStacked
<1>10. ASSUME s.preset_name <= 12 PROVE Spares(Header(s), amp)
  <2> SUFFICES ASSUME NEW i \in 1..Len(Header(s)), NEW j \in 1..Len(amp), Header(s)[i].part \in Texts
               PROVE  ~CoveredBy(Header(s)[i], amp[j])
    BY DEF Spares
  <2>1. Header(s)[i] \in Place /\ amp[j] \in Place
    BY <1>6, HeaderDrawn, ElementOfSeq DEF Stacked, Frames
  <2> DEFINE b == Header(s)[i]
  <2>2. b.y + b.h < 35 \/ (b.y + b.h < 40 /\ 11 <= b.x /\ b.x + b.w <= 229)
    BY <1>10, HeaderDrawn
  <2> HIDE DEF b
  <2>3. b.y + b.h < amp[j].y \/ Beside(b, amp[j])
    <3>1. /\ amp[j].y \in Nat /\ 35 <= amp[j].y /\ b.x \in Nat /\ b.y \in Nat /\ b.w \in Nat /\ b.h \in Nat
          /\ amp[j].y >= 40 \/ (amp[j].w = 1 /\ amp[j].x \in {10, 229})
      BY <1>5, <1>7, <1>8, <2>1 DEF Place, b
    <3>2. CASE amp[j].y >= 40
      BY <2>2, <3>1, <3>2
    <3>3. CASE amp[j].w = 1 /\ amp[j].x \in {10, 229}
      <4>1. CASE b.y + b.h < 35
        BY <3>1, <4>1
      <4>2. CASE 11 <= b.x /\ b.x + b.w <= 229
        BY <3>1, <3>3, <4>2 DEF Beside, Narrow, Width
      <4> QED BY <2>2, <4>1, <4>2
    <3> QED BY <3>1, <3>2, <3>3
  <2> QED BY <2>1, <2>3, ApartSpared DEF b
<1> QED BY <1>5, <1>9, <1>10 DEF amp

LEMMA CabDrawn ==
  ASSUME NEW s \in Performance
  PROVE  CabBlock(s) \in Seq(Plain) /\ Stacked(CabBlock(s), 126, 193)
<1> DEFINE cab == CabBlock(s)
<1> USE DEF Texts
<1>1. s.ir_name \in Nat /\ s.ir_name <= 30
  BY NameLengths
<1>2. Big("name", 20, 172, s.ir_name) \in Plain
  BY <1>1, BigFits, PartNames
<1>3. /\ HLine(10, 126, 220) \in Plain /\ HLine(10, 207, 220) \in Plain
      /\ VLine(10, 127, 80) \in Plain /\ VLine(229, 127, 80) \in Plain
  <2>1. "line" \in PlainPart
    BY PartNames
  <2> QED BY <2>1, BoxFits DEF HLine, VLine, Width, Height
<1>4. Box("block", 10, 126, 220, 82) \in Plain /\ Text("label", 20, 145, 3) \in Plain
  <2>1. "block" \in PlainPart /\ "label" \in PlainPart
    BY PartNames
  <2> QED BY <2>1, BoxFits, TextFits DEF Width, Height
<1>5. cab \in Seq(Plain) /\ Len(cab) = 7
  BY <1>2, <1>3, <1>4 DEF CabBlock
<1>6. cab \in Frames
  BY <1>5, PlainSound
<1>7. /\ \A i \in 1..7 : 126 <= cab[i].y /\ (cab[i].part \in Texts => cab[i].y + cab[i].h < 193 /\ i \in 6..7)
      /\ cab[6].y + cab[6].h < cab[7].y
  BY <1>1 DEF CabBlock, HLine, VLine, Text, Box, Big
<1> HIDE DEF cab
<1>8. Stacked(cab, 126, 193)
  BY <1>5, <1>6, <1>7, ApartStacked
<1> QED BY <1>5, <1>8 DEF cab

(* A fraction of a height is at most the height.                           *)
LEMMA Share ==
  ASSUME NEW v \in Nat, NEW d \in Nat \ {0}, v <= d, NEW h \in Nat
  PROVE  (v * h) \div d \in 0..h
<1> DEFINE q == (v * h) \div d
           r == (v * h) % d
<1>1. v * h \in Nat /\ v * h <= d * h
  BY SMT
<1>2. v * h = d * q + r /\ r \in 0..(d - 1) /\ q \in Int
  BY <1>1
<1> HIDE DEF q, r
<1>3. d * q <= d * h
  <2>1. d * q \in Int /\ d * h \in Int
    BY <1>2
  <2> QED BY <1>1, <1>2, <2>1
<1>4. q <= h
  <2> SUFFICES ASSUME q >= h + 1 PROVE FALSE
    BY <1>2
  <2>1. d * q >= d * (h + 1)
    BY <1>2, SMT
  <2>2. d * (h + 1) = d * h + d
    BY SMT
  <2> QED BY <1>2, <1>3, <2>1, <2>2
<1>5. q >= 0
  <2> SUFFICES ASSUME q <= -1 PROVE FALSE
    BY <1>2
  <2>1. d * q <= d * (-1)
    BY <1>2, SMT
  <2>2. d * (-1) = -d
    BY SMT
  <2> QED BY <1>1, <1>2, <2>1, <2>2
<1> QED BY <1>2, <1>4, <1>5 DEF q

(* So a meter's fill lies within the meter, whatever the level             *)
(* (src/display/meter_fill.h).                                             *)
LEMMA FillWithin ==
  ASSUME NEW h \in Nat, NEW n \in Int, NEW d \in Nat \ {0}, NEW bipolar \in BOOLEAN
  PROVE  /\ Fill(h, n, d, bipolar)[1] \in Nat /\ Fill(h, n, d, bipolar)[2] \in Nat
         /\ Fill(h, n, d, bipolar)[1] + Fill(h, n, d, bipolar)[2] <= h
<1> DEFINE half == h \div 2
           v == IF n > d THEN d
                ELSE IF bipolar /\ n < -d THEN -d
                ELSE IF ~bipolar /\ n < 0 THEN 0 ELSE n
           fill == CASE bipolar /\ v >= 0 -> <<half - (v * half) \div d, (v * half) \div d>>
                     [] bipolar /\ v < 0  -> <<half, (-v * half) \div d>>
                     [] OTHER             -> <<h - (v * h) \div d, (v * h) \div d>>
<1>1. half \in Nat /\ 2 * half <= h
  OBVIOUS
<1>2. v \in Int /\ v <= d /\ (bipolar => -d <= v) /\ (~bipolar => v >= 0)
  OBVIOUS
<1>3. Fill(h, n, d, bipolar) = fill
  BY DEF Fill
<1> HIDE DEF half, v
<1>4. CASE bipolar /\ v >= 0
  <2>1. (v * half) \div d \in 0..half
    BY <1>1, <1>2, <1>4, Share
  <2>2. ~(bipolar /\ v < 0)
    BY <1>2, <1>4
  <2> DEFINE q == (v * half) \div d
  <2>3. fill = <<half - q, q>>
    BY <1>4, <2>2
  <2> HIDE DEF q
  <2>4. q \in 0..half
    BY <2>1 DEF q
  <2> HIDE DEF fill
  <2> QED BY <1>1, <1>3, <2>3, <2>4
<1>5. CASE bipolar /\ v < 0
  <2>1. -v \in Nat /\ -v <= d /\ ~(v >= 0)
    BY <1>2, <1>5
  <2>2. ((-v) * half) \div d \in 0..half
    BY <1>1, <2>1, Share
  <2>3. -v * half = (-v) * half
    BY <1>1, <1>2, SMT
  <2>4. fill = <<half, (-v * half) \div d>>
    BY <1>5, <2>1
  <2> QED BY <1>1, <1>3, <2>2, <2>3, <2>4
<1>6. CASE ~bipolar
  <2>1. (v * h) \div d \in 0..h
    BY <1>2, <1>6, Share
  <2>2. fill = <<h - (v * h) \div d, (v * h) \div d>>
    BY <1>6
  <2> QED BY <1>3, <2>1, <2>2
<1> QED BY <1>2, <1>4, <1>5, <1>6

LEMMA NoWrap ==
  ASSUME NEW t \in Nat, t <= Height
  PROVE  t % Word = t
BY DEF Word, Height

(* What VMeter and its label paint: a bar, perhaps a line and a fill.      *)
Metered(m, x) ==
  /\ m \in Frames /\ Sound(Range(m)) /\ Stacked(m, 225, 294)
  /\ \A k \in 1..Len(m) :
       /\ x <= m[k].x /\ Narrow(m[k])
       /\ m[k].part \in Texts => m[k].x + m[k].w <= x + 28

MeterBoxes(x, at, len, A, B) ==
  ((<<Box("bar", x, 225, 26, 52)>> \o A) \o B) \o <<Text("label", at, 283, len)>>

LEMMA MeterPainted ==
  ASSUME NEW x \in Nat, NEW off \in Nat, NEW size \in Nat, NEW at \in Nat, NEW len \in Nat,
         x <= 193, off + size <= 52, x <= at, at + 7 * len <= x + 28,
         NEW A, A \in {<<>>, <<HLine(x, 251, 26)>>},
         NEW B, B \in {<<>>, <<Box("level", x, (225 + off) % Word, 26, size)>>}
  PROVE  Metered(MeterBoxes(x, at, len, A, B), x)
<1> DEFINE bar == Box("bar", x, 225, 26, 52)
           line == HLine(x, 251, 26)
           level == Box("level", x, (225 + off) % Word, 26, size)
           label == Text("label", at, 283, len)
           v == (<<bar>> \o A) \o B
           m == MeterBoxes(x, at, len, A, B)
<1>1. (225 + off) % Word = 225 + off
  BY NoWrap DEF Height
<1>2. /\ bar \in Place /\ InMemory(bar) /\ level \in Place /\ InMemory(level)
      /\ line \in Place /\ InMemory(line) /\ label \in Place /\ InMemory(label)
  <2>1. "bar" \in PlainPart /\ "line" \in PlainPart /\ "label" \in PlainPart
    BY PartNames
  <2>2. bar \in Place /\ InMemory(bar)
    BY <2>1, BoxFits DEF Width, Height
  <2>3. line \in Place /\ InMemory(line)
    BY <2>1, BoxFits DEF Width, Height, HLine
  <2>4. level \in Place /\ InMemory(level)
    <3> DEFINE y == 225 + off
    <3>1. y \in Nat /\ y + size <= 277 /\ "level" \in PlainPart \cup {"level", "thumb"}
      OBVIOUS
    <3>2. level = Box("level", x, y, 26, size)
      BY <1>1
    <3> HIDE DEF y, level
    <3>3. y + size <= Height /\ (y + size - 1) * Width + x + 26 <= Width * Height
      BY <3>1 DEF Width, Height
    <3> QED BY <3>1, <3>2, <3>3, BoxFits
  <2>5. label \in Plain
    BY <2>1, TextFits
  <2> QED BY <2>2, <2>3, <2>4, <2>5 DEF Plain
<1>3. /\ bar.part = "bar" /\ line.part = "line" /\ level.part = "level" /\ label.part = "label"
      /\ bar.y = 225 /\ line.y = 251 /\ level.y = 225 + off /\ label.y = 283 /\ label.h = 10
      /\ Inside(level, bar)
  BY <1>1 DEF Box, HLine, Text, Inside
<1>4. /\ bar.x = x /\ line.x = x /\ level.x = x /\ x <= label.x /\ label.x + label.w <= x + 28
      /\ Narrow(bar) /\ Narrow(line) /\ Narrow(level) /\ Narrow(label)
  BY DEF Box, HLine, Text, Narrow, Width
<1>5. /\ A = <<line>> \/ A = <<>>
      /\ B = <<level>> \/ B = <<>>
  OBVIOUS
<1>6. m = v \o <<label>>
  BY DEF MeterBoxes
<1> HIDE DEF bar, line, level, label, m
<1>7. /\ <<bar>> \in Frames /\ A \in Frames /\ B \in Frames /\ <<label>> \in Frames
      /\ Range(<<bar>>) = {bar} /\ Range(A) \subseteq {line} /\ Range(B) \subseteq {level}
      /\ Range(<<label>>) = {label} /\ Len(<<label>>) = 1 /\ <<label>>[1] = label
  BY <1>2, <1>5, OneBox, NoBox
<1>8. <<bar>> \o A \in Frames /\ Range(<<bar>> \o A) = Range(<<bar>>) \cup Range(A)
  BY <1>7, Join, Zenon
<1>9. v \in Frames /\ Range(v) = Range(<<bar>> \o A) \cup Range(B)
  BY <1>7, <1>8, Join, Zenon
<1> HIDE DEF v
<1>10. m \in Frames /\ Range(m) = Range(v) \cup Range(<<label>>)
  <2>1. v \o <<label>> \in Frames /\ Range(v \o <<label>>) = Range(v) \cup Range(<<label>>)
    BY <1>7, <1>9, Join, Zenon
  <2> QED BY <1>6, <2>1
<1>11. Range(v) \subseteq {bar, line, level} /\ Range(m) = Range(v) \cup {label} /\ bar \in Range(m)
  BY <1>7, <1>8, <1>9, <1>10
<1>12. Sound(Range(m))
  <2>1. /\ \A b \in Range(m) : InMemory(b) /\ b.part # "thumb" /\ (b.part = "level" => b = level)
        /\ bar \in Range(m)
    BY <1>2, <1>3, <1>11
  <2> QED BY <1>3, <2>1 DEF Sound
<1>13. Stacked(m, 225, 294)
  <2>1. Stacked(v, 225, 225)
    <3>1. \A k \in 1..Len(v) : v[k] \in {bar, line, level}
      BY <1>9, <1>11, RangeElement
    <3>2. \A k \in 1..Len(v) : 225 <= v[k].y /\ v[k].part \notin Texts
      BY <1>3, <3>1 DEF Texts
    <3> QED BY <1>9, <3>2, ApartStacked
  <2>2. Stacked(<<label>>, 283, 294)
    <3>1. \A k \in 1..1 : <<label>>[k] = label
      OBVIOUS
    <3> QED BY <1>3, <1>7, <3>1, ApartStacked
  <2> QED BY <1>6, <2>1, <2>2, Stack
<1>14. ASSUME NEW k \in 1..Len(m)
       PROVE  x <= m[k].x /\ Narrow(m[k]) /\ (m[k].part \in Texts => m[k].x + m[k].w <= x + 28)
  <2>1. m[k] \in {bar, line, level, label}
    BY <1>10, <1>11, RangeElement
  <2> QED BY <1>3, <1>4, <2>1 DEF Texts
<1> QED BY <1>10, <1>12, <1>13, <1>14 DEF Metered, m

LEMMA MeterDrawn ==
  ASSUME NEW i \in 1..5, NEW level \in Int \X (Nat \ {0})
  PROVE  Metered(Meter(i, level), 25 + (i - 1) * 42)
<1> DEFINE x == 25 + (i - 1) * (26 + 16)
           len == <<4, 4, 3, 3, 3>>[i]
           w == 7 * len
           fill == Fill(52, level[1], level[2], i \in 2..4)
           at == x + (IF 26 > w THEN (26 - w) \div 2 ELSE 0)
           A == IF i \in 2..4 THEN <<HLine(x, 225 + 52 \div 2, 26)>> ELSE <<>>
           B == IF fill[2] > 0 THEN <<Box("level", x, (225 + fill[1]) % Word, 26, fill[2])>> ELSE <<>>
<1>1. Meter(i, level) = ((<<Box("bar", x, 225, 26, 52)>> \o A) \o B) \o <<Text("label", at, 225 + 52 + 6, len)>>
  BY DEF Meter, VMeter
<1>2. x \in Nat /\ x <= 193 /\ len \in 3..4 /\ x = 25 + (i - 1) * 42
  OBVIOUS
<1>3. fill[1] \in Nat /\ fill[2] \in Nat /\ fill[1] + fill[2] <= 52
  <2>1. level[1] \in Int /\ level[2] \in Nat \ {0} /\ (i \in 2..4) \in BOOLEAN
    OBVIOUS
  <2> QED BY <2>1, FillWithin
<1> HIDE DEF x, len, fill
<1>4. at \in Nat /\ x <= at /\ at + 7 * len <= x + 28 /\ len \in Nat
  BY <1>2
<1>5. 225 + 52 \div 2 = 251 /\ 225 + 52 + 6 = 283
  OBVIOUS
<1>6. /\ A \in {<<>>, <<HLine(x, 251, 26)>>}
      /\ B \in {<<>>, <<Box("level", x, (225 + fill[1]) % Word, 26, fill[2])>>}
  BY <1>5, Zenon
<1> HIDE DEF at, A, B
<1>7. Meter(i, level) = MeterBoxes(x, at, len, A, B)
  BY <1>1, <1>5, Zenon DEF MeterBoxes
<1>8. Metered(MeterBoxes(x, at, len, A, B), x)
  <2> DEFINE off == fill[1]
             size == fill[2]
  <2>1. off \in Nat /\ size \in Nat /\ off + size <= 52 /\ x \in Nat /\ x <= 193
    BY <1>2, <1>3
  <2>2. B \in {<<>>, <<Box("level", x, (225 + off) % Word, 26, size)>>}
    BY <1>6
  <2> HIDE DEF off, size
  <2> QED BY <1>4, <1>6, <2>1, <2>2, MeterPainted
<1> QED BY <1>2, <1>7, <1>8

LEMMA MetersDrawn ==
  ASSUME NEW s \in Performance
  PROVE  LET meters == FlattenSeq([i \in 1..5 |-> Meter(i, s.levels[i])]) IN
         meters \in Frames /\ Sound(Range(meters)) /\ Stacked(meters, 225, 294)
<1> DEFINE rows == [i \in 1..5 |-> Meter(i, s.levels[i])]
<1>1. \A i \in 1..5 : s.levels[i] \in Int \X (Nat \ {0})
  BY NameLengths
<1>2. /\ rows \in [1..5 -> Frames]
      /\ \A i \in 1..5 : Sound(Range(rows[i])) /\ Stacked(rows[i], 225, 294)
  BY <1>1, MeterDrawn DEF Metered
<1>3. ASSUME NEW i \in 1..5, NEW j \in 1..5, i < j PROVE Spares(rows[i], rows[j])
  <2> SUFFICES ASSUME NEW k \in 1..Len(rows[i]), NEW l \in 1..Len(rows[j]), rows[i][k].part \in Texts
               PROVE  ~CoveredBy(rows[i][k], rows[j][l])
    BY DEF Spares
  <2>1. rows[i][k] \in Place /\ rows[j][l] \in Place
    BY <1>2, ElementOfSeq DEF Frames
  <2>2. /\ Narrow(rows[i][k]) /\ rows[i][k].x + rows[i][k].w <= 25 + (i - 1) * 42 + 28
        /\ Narrow(rows[j][l]) /\ 25 + (j - 1) * 42 <= rows[j][l].x
    <3>1. Metered(rows[i], 25 + (i - 1) * 42) /\ Metered(rows[j], 25 + (j - 1) * 42)
      BY <1>1, MeterDrawn
    <3> HIDE DEF rows
    <3> QED BY <3>1 DEF Metered
  <2> HIDE DEF rows
  <2>3. Beside(rows[i][k], rows[j][l])
    <3>1. rows[i][k].x \in Nat /\ rows[i][k].w \in Nat /\ rows[j][l].x \in Nat
      BY <2>1 DEF Place
    <3> DEFINE a == 25 + (i - 1) * 42
               b == 25 + (j - 1) * 42
    <3>2. a \in Nat /\ b \in Nat /\ a + 28 <= b
      BY <1>3
    <3> HIDE DEF a, b
    <3>3. rows[i][k].x + rows[i][k].w <= rows[j][l].x
      <4>1. rows[i][k].x + rows[i][k].w <= a + 28 /\ b <= rows[j][l].x
        BY <2>2 DEF a, b
      <4> QED BY <3>1, <3>2, <4>1
    <3> QED BY <2>2, <3>3 DEF Beside
  <2> QED BY <2>1, <2>3, ApartSpared
<1> HIDE DEF rows
<1>4. FlattenSeq(rows) \in Frames /\ Sound(Range(FlattenSeq(rows)))
  <2>1. 5 \in Nat \ {0}
    OBVIOUS
  <2> QED BY <1>2, <2>1, FlattenSound
<1>5. Stacked(FlattenSeq(rows), 225, 294)
  <2>1. 5 \in Nat \ {0} /\ 225 \in Nat /\ 294 \in Nat
    OBVIOUS
  <2> QED BY <1>2, <1>3, <2>1, FlattenStacked
<1> QED BY <1>4, <1>5 DEF rows

LEMMA PerformanceDrawn ==
  ASSUME NEW s \in Performance
  PROVE  LET frame_ == RenderPerformance(s) IN
         /\ frame_ \in Frames /\ Sound(Range(frame_))
         /\ s.preset_name <= 12 => Layered(frame_)
<1> DEFINE meters == FlattenSeq([i \in 1..5 |-> Meter(i, s.levels[i])])
           hint == <<Text("hint", 6, 306, IF s.overload THEN 16 ELSE 28)>>
           top == Header(s) \o AmpBlock(s)
<1>1. /\ Header(s) \in Frames /\ Sound(Range(Header(s))) /\ AmpBlock(s) \in Frames
      /\ Sound(Range(AmpBlock(s))) /\ CabBlock(s) \in Frames /\ Sound(Range(CabBlock(s)))
      /\ meters \in Frames /\ Sound(Range(meters))
  BY HeaderDrawn, AmpDrawn, CabDrawn, MetersDrawn, PlainSound
<1>2. hint \in Seq(Plain) /\ hint \in Frames /\ Sound(Range(hint))
  <2>1. "hint" \in PlainPart /\ (IF s.overload THEN 16 ELSE 28) \in Nat
    BY PartNames
  <2>2. Text("hint", 6, 306, IF s.overload THEN 16 ELSE 28) \in Plain
    BY <2>1, TextFits
  <2>3. hint \in Seq(Plain)
    BY <2>2
  <2> QED BY <2>3, PlainSound
<1>3. Stacked(hint, 306, 320)
  <2>1. Len(hint) = 1 /\ hint[1].y = 306 /\ hint[1].h = 10
    BY DEF Text
  <2> QED BY <1>2, <2>1, ApartStacked
<1>4. Stacked(CabBlock(s), 126, 193) /\ Stacked(meters, 225, 294)
  BY CabDrawn, MetersDrawn
<1> HIDE DEF meters, hint
<1>5. RenderPerformance(s) = ((top \o CabBlock(s)) \o meters) \o hint
  BY DEF RenderPerformance, meters, hint
<1>6. RenderPerformance(s) \in Frames /\ Sound(Range(RenderPerformance(s)))
  BY <1>1, <1>2, <1>5, SoundJoin
<1>7. ASSUME s.preset_name <= 12 PROVE Layered(RenderPerformance(s))
  <2>1. Stacked(top, 4, 101)
    BY <1>7, HeaderDrawn, AmpDrawn, SparedStack
  <2>2. Stacked(top \o CabBlock(s), 4, 193)
    BY <1>4, <2>1, Stack
  <2>3. Stacked((top \o CabBlock(s)) \o meters, 4, 294)
    BY <1>4, <2>2, Stack
  <2>4. Stacked(RenderPerformance(s), 4, 320)
    BY <1>3, <1>5, <2>3, Stack
  <2> QED BY <2>4 DEF Stacked
<1> QED BY <1>6, <1>7

-----------------------------------------------------------------------------
(* The list of presets.                                                    *)
LEMMA BrowseNumbers ==
  ASSUME NEW s \in Browse
  PROVE  /\ s.count \in 1..32 /\ s.cursor \in 0..(s.count - 1) /\ s.name \in Nat /\ s.name <= 30
         /\ ScrollTop(s.cursor) \in Nat
         /\ ScrollTop(s.cursor) <= s.cursor /\ s.cursor <= ScrollTop(s.cursor) + 6
         /\ s.count > 7 => ScrollTop(s.cursor) + 7 <= s.count
         /\ s.count <= 7 => ScrollTop(s.cursor) = 0
<1>1. PICK n \in Counts :
        s \in [screen : {"browse"}, count : {n}, cursor : 0..(n - 1), name : NameLen]
  BY DEF Browse
<1>2. n \in 1..32 /\ s.count = n /\ s.cursor \in 0..(n - 1) /\ s.name \in 0..30
  BY <1>1, DrawingAssumption
<1> QED BY <1>2 DEF ScrollTop

LEMMA MinOfTwo ==
  ASSUME NEW a \in Int, NEW b \in Int
  PROVE  Min({a, b}) = IF a <= b THEN a ELSE b
BY DEF Min

LEMMA RowCount ==
  ASSUME NEW s \in Browse
  PROVE  /\ RowsDrawn(s) \in 1..7
         /\ RowsDrawn(s) = IF s.count > 7 THEN 7 ELSE s.count
         /\ ScrollTop(s.cursor) + RowsDrawn(s) <= s.count
         /\ s.cursor <= ScrollTop(s.cursor) + RowsDrawn(s) - 1
<1>1. s.count - ScrollTop(s.cursor) \in Int /\ BrowseRows = 7
  BY BrowseNumbers DEF BrowseRows
<1>2. RowsDrawn(s) = IF 7 <= s.count - ScrollTop(s.cursor) THEN 7 ELSE s.count - ScrollTop(s.cursor)
  BY <1>1, MinOfTwo DEF RowsDrawn
<1> QED BY <1>2, BrowseNumbers

(* The highlight and the accent of a row of the list, or of a field.       *)
LEMMA Lit ==
  ASSUME NEW y \in Nat, NEW h \in Nat, y + h <= Height, NEW c \in BOOLEAN
  PROVE  LET lit == IF c THEN <<Box("highlight", 0, y, Width, h), Box("accent", 0, y, 3, h)>> ELSE <<>> IN
         lit \in Seq(Plain) /\ lit \in Frames /\ Stacked(lit, y, y)
<1> DEFINE lit == IF c THEN <<Box("highlight", 0, y, Width, h), Box("accent", 0, y, 3, h)>> ELSE <<>>
<1>1. Box("highlight", 0, y, Width, h) \in Plain /\ Box("accent", 0, y, 3, h) \in Plain
  <2>1. "highlight" \in PlainPart /\ "accent" \in PlainPart
    BY PartNames
  <2> QED BY <2>1, BoxFits DEF Width, Height
<1>2. lit \in Seq(Plain)
  BY <1>1
<1>3. \A i \in 1..Len(lit) : lit[i].y = y /\ lit[i].part \in {"highlight", "accent"}
  BY DEF Box
<1> HIDE DEF lit
<1>4. Stacked(lit, y, y)
  <2>1. \A i \in 1..Len(lit) : y <= lit[i].y /\ lit[i].part \notin Texts
    BY <1>3 DEF Texts
  <2> QED BY <1>2, <2>1, PlainSound, ApartStacked
<1> QED BY <1>2, <1>4, PlainSound DEF lit

LEMMA OneText ==
  ASSUME NEW part \in Texts, NEW x \in Nat, NEW y \in Nat, NEW len \in Nat
  PROVE  <<Text(part, x, y, len)>> \in Seq(Plain) /\ Stacked(<<Text(part, x, y, len)>>, y, y + 11)
<1>1. Text(part, x, y, len) \in Plain
  BY TextFits DEF PlainPart
<1>2. <<Text(part, x, y, len)>> \in Seq(Plain)
  BY <1>1
<1> DEFINE t == <<Text(part, x, y, len)>>
<1>3. Len(t) = 1 /\ t[1].y = y /\ t[1].h = 10
  BY DEF Text
<1>4. t \in Frames
  BY <1>2, PlainSound
<1> HIDE DEF t
<1>5. Stacked(t, y, y + 11)
  <2>1. \A i \in 1..Len(t) : i = 1
    BY <1>3
  <2>2. \A i \in 1..Len(t) : y <= t[i].y /\ (t[i].part \in Texts => t[i].y + t[i].h < y + 11)
    BY <1>3, <2>1
  <2>3. \A i, j \in 1..Len(t) : ~(i < j)
    BY <1>3
  <2> QED BY <1>4, <2>2, <2>3, ApartStacked
<1> QED BY <1>2, <1>5 DEF t

(* The texts of s are left of column x.                                    *)
LeftOf(s, x) == \A i \in 1..Len(s) : s[i].part \in Texts => s[i].clipped /\ s[i].x + s[i].w <= x

LEMMA RowDrawn ==
  ASSUME NEW s \in Browse, NEW r \in 0..6
  PROVE  /\ Row(s, r) \in Seq(Plain) /\ Stacked(Row(s, r), 24 + r * 22, 24 + r * 22 + 16)
         /\ LeftOf(Row(s, r), 217)
<1> DEFINE y == 24 + r * 22
           c == ScrollTop(s.cursor) + r = s.cursor
           lit == IF c THEN <<Box("highlight", 0, y, Width, 20), Box("accent", 0, y, 3, 20)>> ELSE <<>>
           part == IF c THEN "cursor" ELSE "entry"
           name == <<Text(part, 7, y + 5, s.name)>>
<1>1. Row(s, r) = lit \o name
  BY DEF Row, RowH
<1>2. y \in Nat /\ y <= 156 /\ s.name \in Nat /\ s.name <= 30 /\ c \in BOOLEAN
  BY BrowseNumbers
<1>3. part \in Texts
  BY DEF Texts
<1> HIDE DEF y, c, part
<1>4. lit \in Seq(Plain) /\ lit \in Frames /\ Stacked(lit, y, y)
  BY <1>2, Lit DEF Height
<1>5. name \in Seq(Plain) /\ Stacked(name, y + 5, y + 16)
  <2>1. y + 5 \in Nat /\ (y + 5) + 11 = y + 16 /\ 7 \in Nat
    BY <1>2
  <2>2. name \in Seq(Plain) /\ Stacked(name, y + 5, (y + 5) + 11)
    BY <1>2, <1>3, <2>1, OneText
  <2> QED BY <2>1, <2>2
<1>6. /\ \A i \in 1..Len(lit) : lit[i].part \notin Texts
      /\ \A i \in 1..Len(name) : name[i].clipped /\ name[i].x + name[i].w <= 217
  BY <1>2 DEF Box, Texts, Text
<1> HIDE DEF lit, name
<1>7. name \in Frames
  BY <1>5 DEF Stacked
<1>8. LeftOf(lit \o name, 217)
  <2> SUFFICES ASSUME NEW i \in 1..Len(lit \o name), (lit \o name)[i].part \in Texts
               PROVE  (lit \o name)[i].clipped /\ (lit \o name)[i].x + (lit \o name)[i].w <= 217
    BY DEF LeftOf
  <2> QED BY <1>4, <1>6, <1>7, JoinElement
<1>9. Stacked(lit \o name, y, y + 16)
  <2>1. y + 5 \in Nat /\ y + 16 \in Nat /\ y <= y + 5 /\ y <= y + 16
    BY <1>2
  <2> QED BY <1>2, <1>4, <1>5, <2>1, Stack
<1>10. lit \o name \in Seq(Plain)
  BY <1>4, <1>5, ConcatProperties
<1> QED BY <1>1, <1>8, <1>9, <1>10 DEF y

LEMMA StackedPart ==
  ASSUME NEW s, NEW a \in Nat, NEW b \in Nat, NEW c \in Nat, NEW d \in Nat,
         Stacked(s, c, d), a <= c, d <= b
  PROVE  Stacked(s, a, b)
<1>1. s \in Frames /\ \A i \in 1..Len(s) : s[i] \in Place
  BY ElementOfSeq DEF Stacked, Frames
<1> QED BY <1>1 DEF Stacked, Starts, TextsEnd, Place

LEMMA BandsSpared ==
  ASSUME NEW s, NEW t, NEW a \in Nat, NEW b \in Nat, NEW c \in Nat, NEW d \in Nat,
         Stacked(s, a, b), Stacked(t, c, d), b <= c
  PROVE  Spares(s, t)
<1>1. s \in Frames /\ t \in Frames /\ TextsEnd(s, b) /\ Starts(t, c)
  BY DEF Stacked
<1>2. \A i \in 1..Len(s) : s[i] \in Place
  BY <1>1, ElementOfSeq DEF Frames
<1>3. TextsEnd(s, c)
  BY <1>1, <1>2 DEF TextsEnd, Place
<1> QED BY <1>1, <1>3, SparesBelow

(* The thumb is within its track.                                          *)
LEMMA Portion ==
  ASSUME NEW a \in Nat, NEW d \in Nat \ {0}
  PROVE  a \div d \in Nat /\ d * (a \div d) <= a
<1> DEFINE q == a \div d
           r == a % d
<1>1. a = d * q + r /\ r \in 0..(d - 1) /\ q \in Int
  OBVIOUS
<1> HIDE DEF q, r
<1>2. q >= 0
  <2> SUFFICES ASSUME q <= -1 PROVE FALSE
    BY <1>1
  <2>1. d * q <= d * (-1)
    BY <1>1, SMT
  <2>2. d * (-1) = -d
    BY SMT
  <2> QED BY <1>1, <2>1, <2>2
<1> QED BY <1>1, <1>2 DEF q

LEMMA Portions ==
  ASSUME NEW a \in Nat, NEW b \in Nat, NEW d \in Nat \ {0}, NEW h \in Nat, a + b <= d * h
  PROVE  a \div d \in Nat /\ b \div d \in Nat /\ a \div d + b \div d <= h
<1> DEFINE p == a \div d
           q == b \div d
<1>1. p \in Nat /\ d * p <= a /\ q \in Nat /\ d * q <= b
  BY Portion
<1> HIDE DEF p, q
<1>2. p + q <= h
  <2> SUFFICES ASSUME p + q >= h + 1 PROVE FALSE
    BY <1>1
  <2>1. d * (p + q) >= d * (h + 1)
    BY <1>1, SMT
  <2>2. d * (h + 1) = d * h + d /\ d * (p + q) = d * p + d * q
    BY <1>1, SMT
  <2>3. d * p \in Int /\ d * q \in Int /\ d * h \in Int
    BY <1>1
  <2> QED BY <1>1, <2>1, <2>2, <2>3
<1> QED BY <1>1, <1>2 DEF p, q

LEMMA ScrollbarDrawn ==
  ASSUME NEW s \in Browse
  PROVE  /\ Scrollbar(s) \in Frames /\ Sound(Range(Scrollbar(s))) /\ Stacked(Scrollbar(s), 24, 24)
         /\ \A i \in 1..Len(Scrollbar(s)) : Narrow(Scrollbar(s)[i]) /\ Scrollbar(s)[i].x = 237
<1> DEFINE top == (154 * ScrollTop(s.cursor)) \div s.count
           size == (154 * 7) \div s.count
           track == Box("track", 237, 24, 1, 154)
           thumb == Box("thumb", 237, 24 + top, 1, size)
           bar == Scrollbar(s)
<1>1. CASE s.count > 7
  <2>1. bar = <<track, thumb>>
    BY <1>1 DEF Scrollbar, ListHeight, BrowseRows, RowH
  <2>2. top \in Nat /\ size \in Nat /\ top + size <= 154
    <3>1. /\ 154 * ScrollTop(s.cursor) \in Nat /\ 154 * 7 \in Nat /\ s.count \in Nat \ {0}
          /\ 154 * ScrollTop(s.cursor) + 154 * 7 <= s.count * 154
      BY <1>1, BrowseNumbers
    <3> QED BY <3>1, Portions
  <2> HIDE DEF top, size
  <2>3. track \in Place /\ thumb \in Place /\ InMemory(track) /\ InMemory(thumb)
    <3>1. "track" \in PlainPart
      BY PartNames
    <3>2. track \in Place /\ InMemory(track)
      BY <3>1, BoxFits DEF Width, Height
    <3> DEFINE y == 24 + top
    <3>3. y \in Nat /\ y + size <= Height /\ (y + size - 1) * Width + 237 + 1 <= Width * Height
      BY <2>2 DEF Width, Height
    <3> HIDE DEF y
    <3>4. Box("thumb", 237, y, 1, size) \in Place /\ InMemory(Box("thumb", 237, y, 1, size))
      BY <2>2, <3>3, BoxFits
    <3> QED BY <3>2, <3>4 DEF y
  <2>4. /\ track.part = "track" /\ thumb.part = "thumb" /\ Inside(thumb, track)
        /\ track.y = 24 /\ thumb.y >= 24 /\ Narrow(track) /\ Narrow(thumb)
        /\ track.x = 237 /\ thumb.x = 237
    BY <2>2 DEF Box, Inside, Narrow, Width
  <2> HIDE DEF track, thumb
  <2>5. bar \in Frames /\ Range(bar) = {track, thumb} /\ Len(bar) = 2
        /\ \A i \in 1..2 : bar[i] \in {track, thumb}
    <3>1. bar \in Frames
      BY <2>1, <2>3 DEF Frames
    <3>2. DOMAIN bar = 1..2 /\ Len(bar) = 2 /\ bar[1] = track /\ bar[2] = thumb
      BY <2>1
    <3>3. \A i \in 1..2 : i = 1 \/ i = 2
      OBVIOUS
    <3> HIDE DEF bar
    <3> QED BY <3>1, <3>2, <3>3 DEF Range
  <2> HIDE DEF bar
  <2>6. Sound(Range(bar))
    BY <2>3, <2>4, <2>5 DEF Sound
  <2>7. Stacked(bar, 24, 24)
    <3>1. \A i \in 1..Len(bar) : 24 <= bar[i].y /\ bar[i].part \notin Texts
      BY <2>4, <2>5 DEF Texts
    <3> QED BY <2>5, <3>1, ApartStacked
  <2> QED BY <2>4, <2>5, <2>6, <2>7 DEF bar
<1>2. CASE ~(s.count > 7)
  <2>1. Scrollbar(s) = <<>>
    BY <1>2 DEF Scrollbar, BrowseRows
  <2>2. Sound(Range(<<>>))
    BY NoBox DEF Sound
  <2>3. Stacked(<<>>, 24, 24)
    BY NoBox, ApartStacked
  <2> QED BY <2>1, <2>2, <2>3, NoBox
<1> QED BY <1>1, <1>2

LEMMA LineDrawn ==
  /\ HLine(0, 18, Width) \in Plain /\ <<HLine(0, 18, Width)>> \in Seq(Plain)
  /\ Stacked(<<HLine(0, 18, Width)>>, 18, 18)
<1> DEFINE line == HLine(0, 18, Width)
<1>1. line \in Plain
  <2>1. "line" \in PlainPart
    BY PartNames
  <2> QED BY <2>1, BoxFits DEF HLine, Width, Height
<1>2. line.y = 18 /\ line.part \notin Texts
  BY DEF HLine, Box, Texts
<1> HIDE DEF line
<1> DEFINE t == <<line>>
<1>3. t \in Seq(Plain) /\ Len(t) = 1 /\ t[1] = line
  BY <1>1
<1>4. t \in Frames
  BY <1>3, PlainSound
<1> HIDE DEF t
<1>5. \A i \in 1..Len(t) : 18 <= t[i].y /\ t[i].part \notin Texts
  BY <1>2, <1>3
<1>6. Stacked(t, 18, 18)
  BY <1>4, <1>5, ApartStacked
<1> QED BY <1>1, <1>3, <1>6 DEF t, line

(* A title over its line.                                                  *)
LEMMA TitleDrawn ==
  ASSUME NEW len \in Nat
  PROVE  LET title == <<Text("title", 6, 4, len), HLine(0, 18, Width)>> IN
         title \in Seq(Plain) /\ Stacked(title, 4, 18)
<1> DEFINE a == <<Text("title", 6, 4, len)>>
           b == <<HLine(0, 18, Width)>>
<1>1. "title" \in Texts
  BY DEF Texts
<1>2. a \in Seq(Plain) /\ Stacked(a, 4, 15)
  <2>1. a \in Seq(Plain) /\ Stacked(a, 4, 4 + 11)
    BY <1>1, OneText
  <2> QED BY <2>1
<1>3. b \in Seq(Plain) /\ Stacked(b, 18, 18)
  BY LineDrawn
<1>4. <<Text("title", 6, 4, len), HLine(0, 18, Width)>> = a \o b
  OBVIOUS
<1> HIDE DEF a, b
<1>5. a \o b \in Seq(Plain)
  BY <1>2, <1>3, ConcatProperties
<1>6. Stacked(a \o b, 4, 18)
  BY <1>2, <1>3, Stack
<1> QED BY <1>4, <1>5, <1>6

LEMMA RowsSpared ==
  ASSUME NEW s \in Browse, NEW i \in 1..7, NEW j \in 1..7, i < j
  PROVE  Spares(Row(s, i - 1), Row(s, j - 1))
<1> DEFINE a == 24 + (i - 1) * 22
           b == 24 + (j - 1) * 22
<1>1. i - 1 \in 0..6 /\ j - 1 \in 0..6 /\ a \in Nat /\ b \in Nat /\ a + 16 \in Nat /\ b + 16 \in Nat /\ a + 16 <= b
  OBVIOUS
<1>2. Stacked(Row(s, i - 1), a, a + 16) /\ Stacked(Row(s, j - 1), b, b + 16)
  BY <1>1, RowDrawn
<1> HIDE DEF a, b
<1> QED BY <1>1, <1>2, BandsSpared

LEMMA ListDrawn ==
  ASSUME NEW s \in Browse
  PROVE  LET list == FlattenSeq([i \in 1..RowsDrawn(s) |-> Row(s, i - 1)]) IN
         /\ list \in Frames /\ Sound(Range(list)) /\ Stacked(list, 24, 172)
         /\ Spares(list, Scrollbar(s))
<1> DEFINE n == RowsDrawn(s)
           rows == [i \in 1..n |-> Row(s, i - 1)]
<1>1. n \in 1..7 /\ n \in Nat \ {0} /\ \A i \in 1..n : i \in 1..7 /\ i - 1 \in 0..6
  BY RowCount
<1> HIDE DEF n
<1>2. ASSUME NEW i \in 1..n
      PROVE  /\ Row(s, i - 1) \in Frames /\ Sound(Range(Row(s, i - 1)))
             /\ Stacked(Row(s, i - 1), 24, 172) /\ Spares(Row(s, i - 1), Scrollbar(s))
  <2> DEFINE r == i - 1
             a == 24 + r * 22
  <2>1. r \in 0..6 /\ a \in Nat /\ a + 16 \in Nat /\ 24 <= a /\ a + 16 <= 172
    BY <1>1
  <2>2. Row(s, r) \in Seq(Plain) /\ Stacked(Row(s, r), a, a + 16) /\ LeftOf(Row(s, r), 217)
    BY <2>1, RowDrawn
  <2> HIDE DEF r, a
  <2>3. Row(s, r) \in Frames /\ Sound(Range(Row(s, r)))
    BY <2>2, PlainSound
  <2>4. Stacked(Row(s, r), 24, 172)
    BY <2>1, <2>2, StackedPart
  <2>5. Spares(Row(s, r), Scrollbar(s))
    <3> SUFFICES ASSUME NEW k \in 1..Len(Row(s, r)), NEW l \in 1..Len(Scrollbar(s)),
                        Row(s, r)[k].part \in Texts
                 PROVE  ~CoveredBy(Row(s, r)[k], Scrollbar(s)[l])
      BY DEF Spares
    <3>1. Row(s, r)[k] \in Place /\ Scrollbar(s)[l] \in Place
      BY <2>3, ScrollbarDrawn, RangeElement
    <3>2. Row(s, r)[k].clipped /\ Row(s, r)[k].x + Row(s, r)[k].w <= 217
      BY <2>2 DEF LeftOf
    <3>3. Narrow(Scrollbar(s)[l]) /\ Scrollbar(s)[l].x = 237
      BY ScrollbarDrawn
    <3>4. Beside(Row(s, r)[k], Scrollbar(s)[l])
      BY <3>1, <3>2, <3>3 DEF Beside, Narrow, Place
    <3> QED BY <3>1, <3>4, ApartSpared
  <2> QED BY <2>3, <2>4, <2>5 DEF r
<1>3. /\ rows \in [1..n -> Frames]
      /\ \A i \in 1..n : Sound(Range(rows[i])) /\ Stacked(rows[i], 24, 172) /\ Spares(rows[i], Scrollbar(s))
  BY <1>2
<1>4. \A i, j \in 1..n : i < j => Spares(rows[i], rows[j])
  BY <1>1, RowsSpared
<1> HIDE DEF rows
<1>5. FlattenSeq(rows) \in Frames /\ Sound(Range(FlattenSeq(rows)))
  BY <1>1, <1>3, FlattenSound
<1>6. 24 \in Nat /\ 172 \in Nat /\ Scrollbar(s) \in Frames
  BY ScrollbarDrawn
<1>7. Stacked(FlattenSeq(rows), 24, 172) /\ Spares(FlattenSeq(rows), Scrollbar(s))
  BY <1>1, <1>3, <1>4, <1>6, FlattenStacked
<1> QED BY <1>5, <1>7 DEF rows, n

LEMMA BrowseDrawn ==
  ASSUME NEW s \in Browse
  PROVE  /\ RenderBrowse(s) \in Frames /\ Sound(Range(RenderBrowse(s)))
         /\ Layered(RenderBrowse(s))
<1> DEFINE len == 10 + Digits(s.cursor + 1) + Digits(s.count)
           title == <<Text("title", 6, 4, len), HLine(0, 18, Width)>>
           list == FlattenSeq([i \in 1..RowsDrawn(s) |-> Row(s, i - 1)])
           bar == Scrollbar(s)
           hint == <<Text("hint", 6, 306, 31)>>
<1>1. RenderBrowse(s) = ((title \o list) \o bar) \o hint
  BY DEF RenderBrowse
<1>2. title \in Seq(Plain) /\ Stacked(title, 4, 18)
  <2>1. len \in Nat
    BY DEF Digits
  <2> HIDE DEF len
  <2> QED BY <2>1, TitleDrawn
<1>3. /\ list \in Frames /\ Sound(Range(list)) /\ Stacked(list, 24, 172) /\ Spares(list, bar)
      /\ bar \in Frames /\ Sound(Range(bar)) /\ Stacked(bar, 24, 24)
  BY ListDrawn, ScrollbarDrawn
<1>4. hint \in Seq(Plain) /\ Stacked(hint, 306, 317)
  <2>1. hint \in Seq(Plain) /\ Stacked(hint, 306, 306 + 11)
    BY OneText DEF Texts
  <2> QED BY <2>1
<1> HIDE DEF title, list, bar, hint
<1>5. title \in Frames /\ Sound(Range(title)) /\ hint \in Frames /\ Sound(Range(hint))
  BY <1>2, <1>4, PlainSound
<1>6. RenderBrowse(s) \in Frames /\ Sound(Range(RenderBrowse(s)))
  BY <1>1, <1>3, <1>5, SoundJoin
<1>7. Layered(RenderBrowse(s))
  <2>1. Stacked(title \o list, 4, 172)
    BY <1>2, <1>3, Stack
  <2>2. Spares(title \o list, bar)
    <3>1. Spares(title, bar)
      BY <1>2, <1>3, BandsSpared
    <3> QED BY <1>3, <1>5, <3>1, SparesJoin
  <2>3. Stacked((title \o list) \o bar, 4, 172)
    <3>1. Stacked(bar, 24, 172)
      BY <1>3, StackedPart
    <3> QED BY <2>1, <2>2, <3>1, SparedStack
  <2>4. Stacked(RenderBrowse(s), 4, 317)
    BY <1>1, <1>4, <2>3, Stack
  <2> QED BY <2>4 DEF Stacked
<1> QED BY <1>6, <1>7

-----------------------------------------------------------------------------
(* The fields of a preset.                                                 *)
LEMMA FieldDrawn ==
  ASSUME NEW s \in Edit, NEW f \in 0..7
  PROVE  FieldRow(s, f) \in Seq(Plain) /\ Stacked(FieldRow(s, f), 22 + f * 34, 22 + f * 34 + 23)
<1> DEFINE y == 22 + f * 34
           c == f = s.field
           len == <<5, 3, 7, 7, 6, 9, 8, 8>>[f + 1]
           lit == IF c THEN <<Box("highlight", 0, y, Width, 32), Box("accent", 0, y, 3, 32)>> ELSE <<>>
           label == <<Text("label", 7, y, len)>>
           field == IF c /\ s.editing THEN <<Box("field", 7, y + 12, 230, 10)>> ELSE <<>>
           val == <<Text("value", 11, y + 12, s.value)>>
<1>1. FieldRow(s, f) = ((lit \o label) \o field) \o val
  BY DEF FieldRow, Pitch
<1>2. /\ y \in Nat /\ y <= 260 /\ len \in Nat /\ c \in BOOLEAN /\ s.value \in Nat
      /\ y + 11 \in Nat /\ y + 12 \in Nat /\ y + 23 \in Nat
  <2>1. s.value \in 0..30
    BY DrawingAssumption DEF Edit
  <2> QED BY <2>1
<1> HIDE DEF y, len
<1>3. lit \in Seq(Plain) /\ Stacked(lit, y, y)
  <2> HIDE DEF c
  <2> QED BY <1>2, Lit DEF Height
<1>4. label \in Seq(Plain) /\ Stacked(label, y, y + 11)
  BY <1>2, OneText DEF Texts
<1>5. field \in Seq(Plain) /\ Stacked(field, y + 12, y + 12)
  <2>1. Box("field", 7, y + 12, 230, 10) \in Plain
    <3>1. "field" \in PlainPart
      BY PartNames
    <3> QED BY <1>2, <3>1, BoxFits DEF Width, Height
  <2>2. field \in Seq(Plain)
    BY <2>1
  <2>3. \A i \in 1..Len(field) : field[i].y = y + 12 /\ field[i].part \notin Texts
    BY DEF Box, Texts
  <2> HIDE DEF field
  <2>4. \A i \in 1..Len(field) : y + 12 <= field[i].y
    BY <1>2, <2>3
  <2> QED BY <2>2, <2>3, <2>4, PlainSound, ApartStacked
<1>6. val \in Seq(Plain) /\ Stacked(val, y + 12, y + 23)
  <2>1. "value" \in Texts /\ 11 \in Nat /\ (y + 12) + 11 = y + 23
    BY <1>2 DEF Texts
  <2>2. val \in Seq(Plain) /\ Stacked(val, y + 12, (y + 12) + 11)
    BY <1>2, <2>1, OneText
  <2> QED BY <2>1, <2>2
<1> HIDE DEF lit, label, field, val
<1>7. FieldRow(s, f) \in Seq(Plain)
  BY <1>1, <1>3, <1>4, <1>5, <1>6, ConcatProperties
<1>8. y <= y /\ y <= y + 11 /\ y + 11 <= y + 12 /\ y + 12 <= y + 23 /\ y <= y + 12
  BY <1>2
<1>9. Stacked(lit \o label, y, y + 11)
  BY <1>2, <1>3, <1>4, <1>8, Stack
<1>10. Stacked((lit \o label) \o field, y, y + 12)
  BY <1>2, <1>5, <1>8, <1>9, Stack
<1>11. Stacked(FieldRow(s, f), y, y + 23)
  BY <1>1, <1>2, <1>6, <1>8, <1>10, Stack
<1> QED BY <1>7, <1>11 DEF y

LEMMA FieldsDrawn ==
  ASSUME NEW s \in Edit
  PROVE  LET fields == FlattenSeq([f \in 1..8 |-> FieldRow(s, f - 1)]) IN
         fields \in Frames /\ Sound(Range(fields)) /\ Stacked(fields, 22, 283)
<1> DEFINE rows == [f \in 1..8 |-> FieldRow(s, f - 1)]
           At(f) == 22 + (f - 1) * 34
<1>1. /\ \A f \in 1..8 : f - 1 \in 0..7 /\ At(f) \in Nat /\ At(f) + 23 \in Nat /\ 22 <= At(f) /\ At(f) + 23 <= 283
      /\ \A f, g \in 1..8 : f < g => At(f) + 23 <= At(g)
  OBVIOUS
<1>2. \A f \in 1..8 : FieldRow(s, f - 1) \in Seq(Plain) /\ Stacked(FieldRow(s, f - 1), At(f), At(f) + 23)
  BY <1>1, FieldDrawn
<1>3. /\ rows \in [1..8 -> Frames]
      /\ \A f \in 1..8 : Sound(Range(rows[f])) /\ Stacked(rows[f], At(f), At(f) + 23)
  BY <1>2, PlainSound
<1> HIDE DEF rows, At
<1>4. ASSUME NEW f \in 1..8 PROVE Stacked(rows[f], 22, 283)
  <2>1. 22 \in Nat /\ 283 \in Nat
    OBVIOUS
  <2> QED BY <1>1, <1>3, <2>1, StackedPart
<1>5. ASSUME NEW f \in 1..8, NEW g \in 1..8, f < g PROVE Spares(rows[f], rows[g])
  BY <1>1, <1>3, <1>5, BandsSpared
<1>6. 8 \in Nat \ {0} /\ 22 \in Nat /\ 283 \in Nat
  OBVIOUS
<1>7. FlattenSeq(rows) \in Frames /\ Sound(Range(FlattenSeq(rows)))
  BY <1>3, <1>6, FlattenSound
<1>8. Stacked(FlattenSeq(rows), 22, 283)
  BY <1>3, <1>4, <1>5, <1>6, FlattenStacked
<1> QED BY <1>7, <1>8 DEF rows

LEMMA EditDrawn ==
  ASSUME NEW s \in Edit
  PROVE  RenderEdit(s) \in Frames /\ Sound(Range(RenderEdit(s))) /\ Layered(RenderEdit(s))
<1> DEFINE len == 6 + s.preset_name
           title == <<Text("title", 6, 4, len), HLine(0, 18, Width)>>
           fields == FlattenSeq([f \in 1..8 |-> FieldRow(s, f - 1)])
           hint == <<Text("hint", 6, 298, 25)>>
<1>1. RenderEdit(s) = (title \o fields) \o hint
  BY DEF RenderEdit
<1>2. title \in Seq(Plain) /\ Stacked(title, 4, 18)
  <2>1. len \in Nat
    <3>1. s.preset_name \in 0..30
      BY DrawingAssumption DEF Edit
    <3> QED BY <3>1
  <2> HIDE DEF len
  <2> QED BY <2>1, TitleDrawn
<1>3. fields \in Frames /\ Sound(Range(fields)) /\ Stacked(fields, 22, 283)
  BY FieldsDrawn
<1>4. hint \in Seq(Plain) /\ Stacked(hint, 298, 309)
  <2>1. hint \in Seq(Plain) /\ Stacked(hint, 298, 298 + 11)
    BY OneText DEF Texts
  <2> QED BY <2>1
<1> HIDE DEF title, fields, hint
<1>5. title \in Frames /\ Sound(Range(title)) /\ hint \in Frames /\ Sound(Range(hint))
  BY <1>2, <1>4, PlainSound
<1>6. RenderEdit(s) \in Frames /\ Sound(Range(RenderEdit(s)))
  BY <1>1, <1>3, <1>5, SoundJoin
<1>7. Stacked(title \o fields, 4, 283)
  BY <1>2, <1>3, Stack
<1>8. Stacked(RenderEdit(s), 4, 309)
  BY <1>1, <1>4, <1>7, Stack
<1> QED BY <1>6, <1>8 DEF Stacked

-----------------------------------------------------------------------------
(* The tuner.                                                              *)
LEMMA NeedleDrawn ==
  ASSUME NEW cents \in Cents
  PROVE  Needle(cents) \in Plain /\ Needle(cents).y = 235 /\ Needle(cents).part = "needle"
<1> DEFINE m == IF cents < 0 THEN -cents ELSE cents
           off == (100 * m) \div 50
           x == 20 + 200 \div 2 + (IF cents < 0 THEN -off ELSE off) - 2
<1>1. cents \in -50..50 /\ m \in 0..50
  BY DrawingAssumption
<1>2. Needle(cents) = Box("needle", x, 235, 5, 18)
  BY <1>1 DEF Needle, Box
<1> HIDE DEF m
<1>3. off \in 0..100
  BY <1>1
<1>4. x \in Nat /\ x <= 218
  BY <1>3
<1> HIDE DEF x, off
<1>5. Box("needle", x, 235, 5, 18) \in Plain
  <2>1. "needle" \in PlainPart
    BY PartNames
  <2> QED BY <1>4, <2>1, BoxFits DEF Width, Height
<1>6. Box("needle", x, 235, 5, 18).y = 235 /\ Box("needle", x, 235, 5, 18).part = "needle"
  BY DEF Box
<1> QED BY <1>2, <1>5, <1>6

LEMMA TunerDrawn ==
  ASSUME NEW s \in Tuner
  PROVE  RenderTuner(s) \in Frames /\ Sound(Range(RenderTuner(s))) /\ Layered(RenderTuner(s))
<1> DEFINE note == IF s.stable THEN s.note ELSE 2
           info == IF s.stable THEN s.info ELSE 9
           at == Centered(7 * info)
           x == Centered(32 * note)
           big == Biggest("note", x, 120, note)
           head == <<Big("title", Centered(14 * 5), 10, 5), Text("muted", Centered(7 * 5), 44, 5),
                     big, Box("scale", 20, 235, 200, 18), VLine(120, 229, 30)>>
           pin == IF s.stable THEN <<Needle(s.cents)>> ELSE <<>>
           foot == <<Text("label", 20, 259, 3), Text("label", 199, 259, 3), Text("info", at, 285, info)>>
<1>1. RenderTuner(s) = (head \o pin) \o foot
  BY DEF RenderTuner
<1>2. s.stable \in BOOLEAN /\ s.cents \in Cents /\ note \in 2..3 /\ info \in 9..16
  BY DEF Tuner
<1> HIDE DEF note, info
<1>3. /\ x \in Nat /\ x <= 88 /\ at \in Nat /\ Centered(14 * 5) = 85 /\ Centered(7 * 5) = 102
      /\ note \in Nat /\ info \in Nat
  BY <1>2 DEF Centered, Width
<1> HIDE DEF x, at
<1>4. head \in Seq(Plain) /\ Stacked(head, 10, 173)
  <2>1. Big("title", 85, 10, 5) \in Plain /\ Text("muted", 102, 44, 5) \in Plain
    <3>1. "title" \in PlainPart /\ "muted" \in PlainPart
      BY PartNames
    <3> QED BY <3>1, BigFits, TextFits
  <2>2. big \in Plain
    <3>1. "note" \in PlainPart /\ 32 * note \in Nat /\ 32 * note <= 96
      BY <1>2, PartNames
    <3> QED BY <1>3, <3>1, BoxFits DEF Biggest, Width, Height
  <2>3. Box("scale", 20, 235, 200, 18) \in Plain /\ VLine(120, 229, 30) \in Plain
    <3>1. "scale" \in PlainPart /\ "line" \in PlainPart
      BY PartNames
    <3> QED BY <3>1, BoxFits DEF VLine, Width, Height
  <2>4. head = <<Big("title", 85, 10, 5), Text("muted", 102, 44, 5),
                 big, Box("scale", 20, 235, 200, 18), VLine(120, 229, 30)>>
    BY <1>3
  <2> HIDE DEF head
  <2>5. head \in Seq(Plain) /\ Len(head) = 5
    BY <2>1, <2>2, <2>3, <2>4
  <2>6. /\ head[1].y = 10 /\ head[1].h = 20 /\ head[2].y = 44 /\ head[2].h = 10
        /\ head[3].y = 120 /\ head[3].h = 52 /\ head[4].y = 235 /\ head[5].y = 229
        /\ head[4].part \notin Texts /\ head[5].part \notin Texts
    BY <2>4 DEF Big, Biggest, Box, VLine, Text, Texts
  <2>7. \A i \in 1..5 : 10 <= head[i].y /\ (head[i].part \in Texts => head[i].y + head[i].h < 173)
    BY <2>6
  <2>8. \A i, j \in 1..5 : i < j /\ head[i].part \in Texts => head[i].y + head[i].h < head[j].y
    BY <2>6
  <2>9. head \in Frames
    BY <2>5, PlainSound
  <2> QED BY <2>5, <2>7, <2>8, <2>9, ApartStacked
<1>5. pin \in Seq(Plain) /\ Stacked(pin, 235, 235)
  <2>1. Needle(s.cents) \in Plain /\ Needle(s.cents).y = 235 /\ Needle(s.cents).part = "needle"
    BY <1>2, NeedleDrawn
  <2>2. pin \in Seq(Plain)
    BY <2>1
  <2>3. \A i \in 1..Len(pin) : pin[i].y = 235 /\ pin[i].part = "needle"
    BY <2>1
  <2> HIDE DEF pin
  <2>4. \A i \in 1..Len(pin) : 235 <= pin[i].y /\ pin[i].part \notin Texts
    BY <2>3 DEF Texts
  <2> QED BY <2>2, <2>4, PlainSound, ApartStacked
<1>6. foot \in Seq(Plain) /\ Stacked(foot, 259, 296)
  <2>1. foot \in Seq(Plain) /\ Len(foot) = 3
    <3>1. "label" \in PlainPart /\ "info" \in PlainPart
      BY PartNames
    <3>2. Text("label", 20, 259, 3) \in Plain /\ Text("label", 199, 259, 3) \in Plain /\ Text("info", at, 285, info) \in Plain
      BY <1>3, <3>1, TextFits
    <3> QED BY <3>2
  <2>2. /\ foot[1].y = 259 /\ foot[1].h = 10 /\ foot[2].y = 259 /\ foot[2].h = 10
        /\ foot[3].y = 285 /\ foot[3].h = 10
        /\ foot[1].clipped /\ foot[2].clipped /\ foot[1].x + foot[1].w = 41 /\ foot[2].x = 199
    BY DEF Text
  <2> HIDE DEF foot
  <2>3. \A i \in 1..3 : 259 <= foot[i].y /\ (foot[i].part \in Texts => foot[i].y + foot[i].h < 296)
    BY <2>2
  <2>4. \A i, j \in 1..3 : i < j /\ foot[i].part \in Texts =>
          foot[i].y + foot[i].h < foot[j].y \/ Beside(foot[i], foot[j])
    BY <2>2 DEF Beside, Narrow
  <2>5. foot \in Frames
    BY <2>1, PlainSound
  <2> QED BY <2>1, <2>3, <2>4, <2>5, ApartStacked
<1> HIDE DEF head, pin, foot
<1>7. RenderTuner(s) \in Frames /\ Sound(Range(RenderTuner(s)))
  <2>1. /\ head \in Frames /\ Sound(Range(head)) /\ pin \in Frames /\ Sound(Range(pin))
        /\ foot \in Frames /\ Sound(Range(foot))
    BY <1>4, <1>5, <1>6, PlainSound
  <2> QED BY <1>1, <2>1, SoundJoin
<1>8. Stacked(head \o pin, 10, 235)
  BY <1>4, <1>5, Stack
<1>9. Stacked(RenderTuner(s), 10, 296)
  BY <1>1, <1>6, <1>8, Stack
<1> QED BY <1>7, <1>9 DEF Stacked

-----------------------------------------------------------------------------
(* How many boxes of a part there are.                                     *)
Marked(s, part) == {i \in 1..Len(s) : s[i].part = part}

LEMMA ShiftCount ==
  ASSUME NEW S, S \subseteq Nat, IsFiniteSet(S), NEW n \in Nat
  PROVE  LET T == {i + n : i \in S} IN IsFiniteSet(T) /\ Cardinality(T) = Cardinality(S)
<1> DEFINE T == {i + n : i \in S}
           f == [i \in S |-> i + n]
<1>1. f \in [S -> T] /\ \A i \in S : f[i] = i + n
  OBVIOUS
<1>2. \A i, j \in S : f[i] = f[j] => i = j
  OBVIOUS
<1>3. \A t \in T : \E i \in S : f[i] = t
  OBVIOUS
<1> HIDE DEF f, T
<1>4. f \in Bijection(S, T)
  BY <1>1, <1>2, <1>3, Fun_IsBij
<1>5. ExistsBijection(S, T)
  BY <1>4 DEF ExistsBijection
<1> QED BY <1>5, FS_Bijection DEF T

LEMMA CountJoin ==
  ASSUME NEW s \in Frames, NEW t \in Frames, NEW part
  PROVE  /\ IsFiniteSet(Marked(s, part)) /\ Cardinality(Marked(s, part)) \in Nat
         /\ Cardinality(Marked(s \o t, part)) = Cardinality(Marked(s, part)) + Cardinality(Marked(t, part))
<1> DEFINE v == s \o t
           n == Len(s)
           A == Marked(s, part)
           B == Marked(t, part)
           C == {i + n : i \in B}
<1>1. /\ n \in Nat /\ Len(t) \in Nat /\ Len(v) = n + Len(t)
      /\ \A i \in 1..(n + Len(t)) : v[i] = IF i <= n THEN s[i] ELSE t[i - n]
  BY ConcatProperties, LenProperties DEF Frames
<1>2. IsFiniteSet(A) /\ IsFiniteSet(B) /\ Cardinality(A) \in Nat /\ Cardinality(B) \in Nat
  <2>1. A \in SUBSET (1..n) /\ B \in SUBSET (1..Len(t))
    BY DEF Marked
  <2>2. 1 \in Int /\ n \in Int /\ Len(t) \in Int
    BY <1>1
  <2> HIDE DEF A, B, n
  <2>3. IsFiniteSet(1..n) /\ IsFiniteSet(1..Len(t))
    BY <2>2, FS_Interval
  <2>4. IsFiniteSet(A) /\ IsFiniteSet(B)
    BY <2>1, <2>3, FS_Subset
  <2> QED BY <2>4, FS_CardinalityType
<1>3. B \subseteq Nat
  BY <1>1 DEF Marked
<1>4. IsFiniteSet(C) /\ Cardinality(C) = Cardinality(B)
  BY <1>1, <1>2, <1>3, ShiftCount
<1> HIDE DEF v
<1>5. Marked(v, part) = A \cup C
  <2>1. ASSUME NEW i \in Marked(v, part) PROVE i \in A \cup C
    <3>1. i \in 1..(n + Len(t)) /\ v[i].part = part
      BY <1>1 DEF Marked
    <3>2. CASE i <= n
      BY <1>1, <3>1, <3>2 DEF Marked
    <3>3. CASE ~(i <= n)
      <4>1. i - n \in B /\ i = (i - n) + n
        BY <1>1, <3>1, <3>3 DEF Marked
      <4> QED BY <4>1
    <3> QED BY <3>2, <3>3
  <2>2. A \subseteq Marked(v, part)
    BY <1>1 DEF Marked
  <2>3. ASSUME NEW i \in B PROVE i + n \in Marked(v, part)
    <3>1. i \in 1..Len(t) /\ t[i].part = part
      BY DEF Marked
    <3>2. i + n \in 1..(n + Len(t)) /\ ~(i + n <= n) /\ (i + n) - n = i
      BY <1>1, <3>1
    <3>3. v[i + n] = t[i]
      BY <1>1, <3>2
    <3> QED BY <1>1, <3>1, <3>2, <3>3 DEF Marked
  <2> QED BY <2>1, <2>2, <2>3
<1>6. A \cap C = {}
  <2>1. \A i \in A : i <= n
    BY <1>1 DEF Marked
  <2>2. \A i \in B : ~(i + n <= n)
    BY <1>1 DEF Marked
  <2>3. \A i \in C : ~(i <= n)
    BY <2>2
  <2> HIDE DEF A, C
  <2> QED BY <2>1, <2>3
<1>7. Cardinality(A \cup C) = Cardinality(A) + Cardinality(C)
  <2> HIDE DEF A, B, C
  <2>1. Cardinality(A \cup C) = Cardinality(A) + Cardinality(C) - Cardinality(A \cap C)
    BY <1>2, <1>4, FS_Union
  <2>2. Cardinality(A \cap C) = 0
    BY <1>6, FS_EmptySet
  <2> QED BY <1>2, <1>4, <2>1, <2>2
<1> QED BY <1>2, <1>4, <1>5, <1>7 DEF v

LEMMA NoneMarked ==
  ASSUME NEW s, NEW part, \A i \in 1..Len(s) : s[i].part # part
  PROVE  Cardinality(Marked(s, part)) = 0
BY FS_EmptySet DEF Marked

(* One of the rows has none, the others one each.                          *)
LEMMA FlattenCounted ==
  ASSUME NEW n \in Nat \ {0}, NEW rows \in [1..n -> Frames], NEW part, NEW sel \in 1..n,
         \A i \in 1..n : Cardinality(Marked(rows[i], part)) = IF i = sel THEN 0 ELSE 1
  PROVE  /\ Cardinality(Marked(FlattenSeq(rows), part)) = n - 1
         /\ Range(rows[sel]) \subseteq Range(FlattenSeq(rows))
<1>1. PICK f : /\ FlattenSeq(rows) = f[n]
               /\ f[1] = rows[1]
               /\ \A k \in 1..(n - 1) : f[k + 1] = f[k] \o rows[k + 1]
  BY FlattenIs
<1> DEFINE Fine(k) ==
             /\ f[k] \in Frames
             /\ Cardinality(Marked(f[k], part)) = IF k < sel THEN k ELSE k - 1
             /\ sel <= k => Range(rows[sel]) \subseteq Range(f[k])
           S == {k \in Nat : k = 0 \/ Fine(k)}
<1>2. ASSUME NEW k \in 0..(n - 1), k \in S PROVE k + 1 \in S
  <2>1. CASE k = 0
    <3>1. Fine(1)
      <4>1. 1 \in 1..n
        OBVIOUS
      <4>2. sel <= 1 => sel = 1
        OBVIOUS
      <4> QED BY <1>1, <4>1, <4>2
    <3> QED BY <2>1, <3>1
  <2>2. CASE k # 0
    <3>1. k \in 1..(n - 1) /\ k + 1 \in 1..n
      BY <2>2
    <3>2. f[k + 1] = f[k] \o rows[k + 1] /\ rows[k + 1] \in Frames
      BY <1>1, <3>1
    <3>3. Fine(k)
      BY <1>2, <2>2
    <3>4. f[k + 1] \in Frames /\ Range(f[k + 1]) = Range(f[k]) \cup Range(rows[k + 1])
      <4>1. f[k] \o rows[k + 1] \in Frames /\ Range(f[k] \o rows[k + 1]) = Range(f[k]) \cup Range(rows[k + 1])
        BY <3>2, <3>3, Join
      <4> QED BY <3>2, <4>1, Zenon
    <3>5. Cardinality(Marked(f[k + 1], part)) = IF k + 1 < sel THEN k + 1 ELSE k
      <4>1. Cardinality(Marked(f[k + 1], part)) = Cardinality(Marked(f[k], part)) + Cardinality(Marked(rows[k + 1], part))
        <5>1. Cardinality(Marked(f[k] \o rows[k + 1], part)) = Cardinality(Marked(f[k], part)) + Cardinality(Marked(rows[k + 1], part))
          BY <3>2, <3>3, CountJoin
        <5> QED BY <3>2, <5>1, Zenon
      <4>2. Cardinality(Marked(rows[k + 1], part)) = IF k + 1 = sel THEN 0 ELSE 1
        BY <3>1
      <4>3. Cardinality(Marked(f[k], part)) = IF k < sel THEN k ELSE k - 1
        BY <3>3
      <4> QED BY <3>1, <4>1, <4>2, <4>3
    <3>6. sel <= k + 1 => Range(rows[sel]) \subseteq Range(f[k + 1])
      <4>1. sel <= k + 1 => sel <= k \/ sel = k + 1
        BY <3>1
      <4> QED BY <3>3, <3>4, <4>1
    <3>7. Fine(k + 1)
      <4>1. (k + 1) - 1 = k
        BY <3>1
      <4> QED BY <3>4, <3>5, <3>6, <4>1
    <3>8. k + 1 \in Nat
      BY <3>1
    <3> QED BY <3>7, <3>8
  <2> QED BY <2>1, <2>2
<1>3. 0 \in S
  OBVIOUS
<1> HIDE DEF S
<1>4. n \in S
  <2>1. 0..n \subseteq S
    BY <1>2, <1>3, RangeInduction
  <2> QED BY <2>1
<1>5. Fine(n)
  BY <1>4 DEF S
<1>6. ~(n < sel) /\ sel <= n
  OBVIOUS
<1> QED BY <1>1, <1>5, <1>6

LEMMA RowMarked ==
  ASSUME NEW s \in Browse, NEW r \in 0..6
  PROVE  /\ Cardinality(Marked(Row(s, r), "entry")) = IF ScrollTop(s.cursor) + r = s.cursor THEN 0 ELSE 1
         /\ ScrollTop(s.cursor) + r = s.cursor =>
              \E b, c \in Range(Row(s, r)) : b.part = "cursor" /\ c.part = "highlight" /\ Inside(b, c)
<1> DEFINE y == 24 + r * 22
           row == Row(s, r)
<1>1. y \in Nat /\ s.name \in Nat /\ s.name <= 30
  BY BrowseNumbers
<1>2. CASE ScrollTop(s.cursor) + r = s.cursor
  <2> DEFINE a == Box("highlight", 0, y, Width, 20)
             b == Box("accent", 0, y, 3, 20)
             c == Text("cursor", 7, y + 5, s.name)
  <2>1. row = <<a, b>> \o <<c>>
    BY <1>2 DEF Row, RowH
  <2>2. a.part = "highlight" /\ b.part = "accent" /\ c.part = "cursor" /\ Inside(c, a)
    BY <1>1 DEF Box, Text, Inside, Width
  <2> HIDE DEF a, b, c, row
  <2>3. <<a, b>> \in Seq({a, b, c}) /\ <<c>> \in Seq({a, b, c}) /\ Len(<<a, b>>) = 2 /\ Len(<<c>>) = 1
    OBVIOUS
  <2>4. DOMAIN row = 1..3 /\ Len(row) = 3 /\ row[1] = a /\ row[2] = b /\ row[3] = c
    <3> DEFINE u == <<a, b>>
               v == <<c>>
    <3>1. u[1] = a /\ u[2] = b /\ v[1] = c
      OBVIOUS
    <3> HIDE DEF u, v
    <3>2. /\ Len(u \o v) = 3 /\ u \o v \in Seq({a, b, c})
          /\ \A i \in 1..3 : (u \o v)[i] = IF i <= 2 THEN u[i] ELSE v[i - 2]
      BY <2>3, ConcatProperties DEF u, v
    <3>3. DOMAIN (u \o v) = 1..3
      BY <3>2, LenProperties
    <3> QED BY <2>1, <3>1, <3>2, <3>3 DEF u, v
  <2>5. \A i \in 1..Len(row) : row[i].part # "entry"
    BY <2>2, <2>4
  <2>6. c \in Range(row) /\ a \in Range(row)
    BY <2>4 DEF Range
  <2>7. Cardinality(Marked(row, "entry")) = 0
    BY <2>5, NoneMarked
  <2> QED BY <1>2, <2>2, <2>6, <2>7 DEF row
<1>3. CASE ScrollTop(s.cursor) + r # s.cursor
  <2> DEFINE c == Text("entry", 7, y + 5, s.name)
  <2>1. row = <<>> \o <<c>>
    BY <1>3 DEF Row, RowH
  <2>2. row = <<c>>
    BY <2>1
  <2>3. c.part = "entry"
    BY DEF Text
  <2> HIDE DEF c
  <2>4. Len(row) = 1 /\ row[1] = c
    BY <2>2
  <2> HIDE DEF row
  <2>5. Marked(row, "entry") = {1}
    BY <2>3, <2>4 DEF Marked
  <2>6. Cardinality(Marked(row, "entry")) = 1
    BY <2>5, FS_Singleton
  <2> QED BY <1>3, <2>6 DEF row
<1> QED BY <1>2, <1>3

(* The entry under the cursor is shown, highlighted, among as many others  *)
(* as fit.                                                                 *)
ListShown(s, count) ==
  /\ \E b, c \in Range(s) : b.part = "cursor" /\ c.part = "highlight" /\ Inside(b, c)
  /\ Cardinality(Marked(s, "entry")) = (IF count > 7 THEN 7 ELSE count) - 1

LEMMA ListCounted ==
  ASSUME NEW s \in Browse
  PROVE  ListShown(FlattenSeq([i \in 1..RowsDrawn(s) |-> Row(s, i - 1)]), s.count)
<1> DEFINE n == RowsDrawn(s)
           rows == [i \in 1..n |-> Row(s, i - 1)]
           sel == s.cursor - ScrollTop(s.cursor) + 1
<1>1. /\ n \in 1..7 /\ n \in Nat \ {0} /\ n = (IF s.count > 7 THEN 7 ELSE s.count)
      /\ sel \in 1..n /\ \A i \in 1..n : i - 1 \in 0..6
  BY RowCount, BrowseNumbers
<1>2. \A i \in 1..n : ScrollTop(s.cursor) + (i - 1) = s.cursor <=> i = sel
  BY <1>1, BrowseNumbers
<1> HIDE DEF n, sel
<1>3. ASSUME NEW i \in 1..n
      PROVE  /\ rows[i] \in Frames
             /\ Cardinality(Marked(rows[i], "entry")) = IF i = sel THEN 0 ELSE 1
  <2>1. rows[i] = Row(s, i - 1) /\ i - 1 \in 0..6
    BY <1>1
  <2>2. Row(s, i - 1) \in Frames
    BY <2>1, RowDrawn, PlainSound
  <2> QED BY <1>2, <2>1, <2>2, RowMarked
<1>4. \E b, c \in Range(rows[sel]) : b.part = "cursor" /\ c.part = "highlight" /\ Inside(b, c)
  <2>1. rows[sel] = Row(s, sel - 1) /\ sel - 1 \in 0..6
    BY <1>1
  <2> QED BY <1>1, <1>2, <2>1, RowMarked
<1>5. rows \in [1..n -> Frames]
  BY <1>3
<1> HIDE DEF rows
<1>6. /\ Cardinality(Marked(FlattenSeq(rows), "entry")) = n - 1
      /\ Range(rows[sel]) \subseteq Range(FlattenSeq(rows))
  <2>1. \A i \in 1..n : Cardinality(Marked(rows[i], "entry")) = IF i = sel THEN 0 ELSE 1
    BY <1>3
  <2> QED BY <1>1, <1>5, <2>1, FlattenCounted
<1>7. ListShown(FlattenSeq(rows), s.count)
  BY <1>1, <1>4, <1>6 DEF ListShown
<1> QED BY <1>7 DEF rows, n

LEMMA BrowseShown ==
  ASSUME NEW s \in Browse
  PROVE  ListShown(RenderBrowse(s), s.count)
<1> DEFINE len == 10 + Digits(s.cursor + 1) + Digits(s.count)
           title == <<Text("title", 6, 4, len), HLine(0, 18, Width)>>
           list == FlattenSeq([i \in 1..RowsDrawn(s) |-> Row(s, i - 1)])
           bar == Scrollbar(s)
           hint == <<Text("hint", 6, 306, 31)>>
           top == title \o list
           body == top \o bar
<1>1. RenderBrowse(s) = body \o hint
  BY DEF RenderBrowse
<1>2. title \in Frames /\ hint \in Frames /\ list \in Frames /\ bar \in Frames
  <2>1. len \in Nat
    BY DEF Digits
  <2> HIDE DEF len
  <2>2. title \in Frames
    BY <2>1, TitleDrawn, PlainSound
  <2>3. hint \in Seq(Plain) /\ Stacked(hint, 306, 306 + 11)
    BY OneText DEF Texts
  <2>4. list \in Frames /\ bar \in Frames
    BY ListDrawn, ScrollbarDrawn
  <2> HIDE DEF title, hint, list, bar
  <2> QED BY <2>2, <2>3, <2>4, PlainSound
<1>3. /\ \A i \in 1..Len(title) : title[i].part # "entry"
      /\ \A i \in 1..Len(bar) : bar[i].part # "entry"
      /\ \A i \in 1..Len(hint) : hint[i].part # "entry"
  <2>1. \A i \in 1..Len(title) : title[i].part # "entry"
    BY DEF Text, HLine, Box
  <2>2. \A i \in 1..Len(hint) : hint[i].part # "entry"
    BY DEF Text
  <2>3. \A i \in 1..Len(bar) : bar[i].part # "entry"
    BY DEF Scrollbar, Box
  <2> QED BY <2>1, <2>2, <2>3
<1>4. ListShown(list, s.count)
  BY ListCounted
<1> HIDE DEF title, list, bar, hint
<1>5. /\ Cardinality(Marked(title, "entry")) = 0 /\ Cardinality(Marked(bar, "entry")) = 0
      /\ Cardinality(Marked(hint, "entry")) = 0
  BY <1>3, NoneMarked
<1>6. top \in Frames /\ Range(top) = Range(title) \cup Range(list)
  BY <1>2, Join
<1>7. Cardinality(Marked(top, "entry")) = Cardinality(Marked(title, "entry")) + Cardinality(Marked(list, "entry"))
  BY <1>2, CountJoin
<1> HIDE DEF top
<1>8. body \in Frames /\ Range(body) = Range(top) \cup Range(bar)
  BY <1>2, <1>6, Join
<1>9. Cardinality(Marked(body, "entry")) = Cardinality(Marked(top, "entry")) + Cardinality(Marked(bar, "entry"))
  BY <1>2, <1>6, CountJoin
<1> HIDE DEF body
<1>10. Range(body \o hint) = Range(body) \cup Range(hint)
  BY <1>2, <1>8, Join
<1>11. Cardinality(Marked(body \o hint, "entry")) = Cardinality(Marked(body, "entry")) + Cardinality(Marked(hint, "entry"))
  BY <1>2, <1>8, CountJoin
<1>12. Cardinality(Marked(list, "entry")) \in Nat
  BY <1>2, CountJoin
<1>13. /\ Range(list) \subseteq Range(body \o hint)
       /\ Cardinality(Marked(body \o hint, "entry")) = Cardinality(Marked(list, "entry"))
  BY <1>5, <1>6, <1>7, <1>8, <1>9, <1>10, <1>11, <1>12
<1> QED BY <1>1, <1>4, <1>13 DEF ListShown

-----------------------------------------------------------------------------
(* Every frame: what the four screens' lemmas say of what is on show.      *)
Drawn ==
  /\ boxes \in Frames /\ Sound(Range(boxes))
  /\ Roomy => Layered(boxes)
  /\ shown.screen = "browse" => shown \in Browse /\ ListShown(boxes, shown.count)

LEMMA NothingDrawn == /\ <<>> \in Frames /\ Sound(Range(<<>>)) /\ Layered(<<>>)
                      /\ NoScreen.screen # "browse"
BY NoBox DEF Sound, Layered, NoScreen

LEMMA DrawInitial == DrawInit => Drawn
BY NothingDrawn DEF DrawInit, Drawn

LEMMA DrawnKept == Drawn /\ [DrawNext]_canvas => Drawn'
<1> SUFFICES ASSUME Drawn, [DrawNext]_canvas PROVE Drawn'
  OBVIOUS
<1>1. CASE Clear
  BY <1>1, NothingDrawn DEF Clear, Drawn
<1>2. CASE Render
  <2>1. CASE shown' \in Performance /\ boxes' = RenderPerformance(shown')
    <3>1. shown'.screen = "performance"
      BY <2>1 DEF Performance
    <3> QED BY <2>1, <3>1, PerformanceDrawn DEF Drawn, Roomy
  <2>2. CASE shown' \in Browse /\ boxes' = RenderBrowse(shown')
    BY <2>2, BrowseDrawn, BrowseShown DEF Drawn
  <2>3. CASE shown' \in Edit /\ boxes' = RenderEdit(shown')
    <3>1. shown'.screen = "edit"
      BY <2>3 DEF Edit
    <3> QED BY <2>3, <3>1, EditDrawn DEF Drawn
  <2>4. CASE shown' \in Tuner /\ boxes' = RenderTuner(shown')
    <3>1. shown'.screen = "tuner"
      BY <2>4 DEF Tuner
    <3> QED BY <2>4, <3>1, TunerDrawn DEF Drawn
  <2> QED BY <1>2, <2>1, <2>2, <2>3, <2>4 DEF Render
<1>3. CASE UNCHANGED canvas
  BY <1>3 DEF Drawn, Roomy, canvas
<1> QED BY <1>1, <1>2, <1>3 DEF DrawNext

LEMMA DrawnInPlace == Drawn => InPlace
<1> SUFFICES ASSUME Drawn PROVE InPlace
  OBVIOUS
<1>1. Sound({boxes[i] : i \in DOMAIN boxes})
  BY DEF Drawn, Range
<1> QED BY <1>1 DEF InPlace, Sound, Parts

LEMMA DrawnDomain == Drawn => DOMAIN boxes = 1..Len(boxes) /\ Len(boxes) \in Nat
BY LenProperties DEF Drawn, Frames

LEMMA DrawnLegible == Drawn => Legible
<1> SUFFICES ASSUME Drawn, Roomy, NEW i \in DOMAIN boxes, boxes[i].part \in Texts
             PROVE  ~Covered(i)
  BY DEF Legible
<1>1. \A j \in (i + 1)..Len(boxes) : i \in 1..Len(boxes) /\ j \in 1..Len(boxes) /\ i < j
  BY DrawnDomain
<1> QED BY <1>1 DEF Drawn, Layered, Covered

LEMMA DrawnCursorShown == Drawn => CursorShown
<1> SUFFICES ASSUME Drawn, shown.screen = "browse" PROVE CursorShown
  BY DEF CursorShown
<1>1. shown \in Browse /\ ListShown(boxes, shown.count) /\ shown.count \in 1..32
  BY BrowseNumbers DEF Drawn
<1>2. \E i \in Parts("cursor"), j \in Parts("highlight") : Inside(boxes[i], boxes[j])
  BY <1>1 DEF ListShown, Range, Parts
<1>3. Parts("entry") = Marked(boxes, "entry")
  BY DrawnDomain DEF Parts, Marked
<1>4. Min({BrowseRows, shown.count}) = IF shown.count > 7 THEN 7 ELSE shown.count
  BY <1>1, MinOfTwo DEF BrowseRows
<1> QED BY <1>1, <1>2, <1>3, <1>4 DEF CursorShown, ListShown

(* Whatever is shown, names of any length and levels out of range          *)
(* included, a frame writes inside the buffer, a level in its meter and    *)
(* the thumb in its track (src/display/display_renderer.cpp:47-57).        *)
THEOREM FramesInPlace == DrawSpec => []InPlace
BY DrawInitial, DrawnKept, DrawnInPlace, PTL DEF DrawSpec

(* No text but the mark of unsaved edits is painted over by what a frame   *)
(* draws after it, whenever the shown preset's name has at most twelve     *)
(* letters; the mark is covered (src/Ui.cpp:148-436).                      *)
THEOREM FramesLegible == DrawSpec => []Legible
BY DrawInitial, DrawnKept, DrawnLegible, PTL DEF DrawSpec

(* The list shows the entry under its cursor, highlighted, among as many   *)
(* others as fit (src/Ui.cpp:238-259, src/main.cpp:320).                   *)
THEOREM CursorAlwaysShown == DrawSpec => []CursorShown
BY DrawInitial, DrawnKept, DrawnCursorShown, PTL DEF DrawSpec

=============================================================================
