------------------------------ MODULE Drawing ------------------------------
(***************************************************************************)
(* What Ui draws (src/Ui.cpp:136-442) with DisplayRenderer's primitives    *)
(* (src/display/display_renderer.cpp): a frame is the sequence of boxes a  *)
(* Render function paints after it has cleared the buffer, later ones over *)
(* earlier ones.  Colours and glyphs are abstracted; a text is its length. *)
(*                                                                         *)
(* Pixels are written in two ways: PutPixel drops those outside the        *)
(* screen, FillRect does not look, so a box too wide spills into the next  *)
(* rows and one too low leaves the buffer.  When a frame is drawn and how  *)
(* it reaches the panel is Display's.                                      *)
(***************************************************************************)
EXTENDS Integers, SequencesExt

CONSTANTS
  NameLen,  \* lengths of names, up to NAM_DATA_NAME_LEN - 1
  Levels,   \* readings of the five meters, each a fraction <<n, d>>
  Counts,   \* numbers of presets
  Cents     \* readings of the tuner

ASSUME DrawingAssumption ==
  /\ NameLen \subseteq 0..30
  /\ \A l \in Levels : l \in [1..5 -> Int \X (Nat \ {0})]
  /\ Counts \subseteq 1..32 /\ Cents \subseteq -50..50

VARIABLES
  shown,  \* perf_, browse_, edit_ or tuner_: what the frame was drawn from
  boxes   \* painted, in order

canvas == <<shown, boxes>>

Width  == 240
Height == 320
Word   == 65536  \* coordinates are uint16_t

-----------------------------------------------------------------------------
(* The primitives.                                                         *)
Box(part, x, y, w, h) ==
  [part |-> part, x |-> x, y |-> y, w |-> w, h |-> h, clipped |-> FALSE]

HLine(x, y, len) == Box("line", x, y, len, 1)
VLine(x, y, len) == Box("line", x, y, 1, len)

(* DrawText, in Font_7x10, and DrawTextScaled at scale 2.                  *)
Text(part, x, y, len) ==
  [part |-> part, x |-> x, y |-> y, w |-> 7 * len, h |-> 10, clipped |-> TRUE]
Big(part, x, y, len)     == Box(part, x, y, 14 * len, 20)
Biggest(part, x, y, len) == Box(part, x, y, 32 * len, 52)

(* vmeter_fill: the top and the height of the fill, for a reading n/d.     *)

(* Slip: a level is not clamped from above.                                *)
FillUnclamped(height, n, d, bipolar) ==
  LET half == height \div 2 IN
  CASE bipolar /\ n >= 0 -> <<half - (n * half) \div d, (n * half) \div d>>
    [] bipolar /\ n < 0  -> <<half, (-n * half) \div d>>
    [] OTHER             -> <<height - (n * height) \div d, (n * height) \div d>>

Fill(height, n, d, bipolar) ==
  LET half == height \div 2
      v == IF n > d THEN d
           ELSE IF bipolar /\ n < -d THEN -d
           ELSE IF ~bipolar /\ n < 0 THEN 0 ELSE n
  IN CASE bipolar /\ v >= 0 -> <<half - (v * half) \div d, (v * half) \div d>>
       [] bipolar /\ v < 0  -> <<half, (-v * half) \div d>>
       [] OTHER             -> <<height - (v * height) \div d, (v * height) \div d>>

VMeter(x, y, w, h, level, bipolar) ==
  LET fill == Fill(h, level[1], level[2], bipolar) IN
  <<Box("bar", x, y, w, h)>>
    \o (IF bipolar THEN <<HLine(x, y + h \div 2, w)>> ELSE <<>>)
    \o (IF fill[2] > 0 THEN <<Box("level", x, (y + fill[1]) % Word, w, fill[2])>> ELSE <<>>)

-----------------------------------------------------------------------------
(* RenderPerformance.                                                      *)
Performance ==
  [screen : {"performance"}, preset_name : NameLen, model_name : NameLen,
   ir_name : NameLen, levels : Levels, dirty : BOOLEAN, overload : BOOLEAN]

Header(s) ==
  LET w == 14 * s.preset_name IN
  <<Text("index", 6, 4, 5), Box("pill", 184, 4, 50, 12), Text("state", 188, 5, 6),
    Big("name", IF w < 124 THEN 58 + (124 - w) \div 2 ELSE 56, 16, s.preset_name)>>
    \o (IF s.dirty THEN <<Text("mark", 76, 38, 8)>> ELSE <<>>)

AmpBlock(s) ==
  <<Box("block", 10, 40, 220, 82), HLine(10, 40, 220), HLine(10, 115, 220),
    VLine(10, 35, 80), VLine(229, 35, 80),
    Text("label", 20, 53, 3), Big("name", 20, 80, s.model_name)>>

CabBlock(s) ==
  <<Box("block", 10, 126, 220, 82), HLine(10, 126, 220), HLine(10, 207, 220),
    VLine(10, 127, 80), VLine(229, 127, 80),
    Text("label", 20, 145, 3), Big("name", 20, 172, s.ir_name)>>

Meter(i, level) ==
  LET x == 25 + (i - 1) * (26 + 16)
      len == <<4, 4, 3, 3, 3>>[i]   \* GAIN, BASS, MID, TRE, VOL
      w == 7 * len
  IN VMeter(x, 225, 26, 52, level, i \in 2..4)
       \o <<Text("label", x + (IF 26 > w THEN (26 - w) \div 2 ELSE 0), 225 + 52 + 6, len)>>

RenderPerformance(s) ==
  Header(s) \o AmpBlock(s) \o CabBlock(s)
    \o FlattenSeq([i \in 1..5 |-> Meter(i, s.levels[i])])
    \o <<Text("hint", 6, 306, IF s.overload THEN 16 ELSE 28)>>

-----------------------------------------------------------------------------
(* RenderBrowse, and PushBrowseScreen, which chooses the first row.        *)
BrowseRows == 7
RowH == 22
ListHeight == BrowseRows * RowH

(* Slip: the list scrolls one entry late.                                  *)
ScrollTopLate(cursor) == IF cursor > 7 THEN cursor - 7 ELSE 0

ScrollTop(cursor) == IF cursor >= 7 THEN cursor - 6 ELSE 0

Browse ==
  UNION {[screen : {"browse"}, count : {n}, cursor : 0..(n - 1), name : NameLen] : n \in Counts}

Digits(n) == IF n < 10 THEN 1 ELSE 2

(* Slip: the highlight is painted over the name.                           *)
RowNameFirst(s, row) ==
  LET y == 24 + row * RowH
      selected == ScrollTop(s.cursor) + row = s.cursor
  IN <<Text(IF selected THEN "cursor" ELSE "entry", 7, y + 5, s.name)>>
       \o (IF selected THEN <<Box("highlight", 0, y, Width, RowH - 2), Box("accent", 0, y, 3, RowH - 2)>>
                       ELSE <<>>)

Row(s, row) ==
  LET y == 24 + row * RowH
      selected == ScrollTop(s.cursor) + row = s.cursor
  IN (IF selected THEN <<Box("highlight", 0, y, Width, RowH - 2), Box("accent", 0, y, 3, RowH - 2)>>
                  ELSE <<>>)
       \o <<Text(IF selected THEN "cursor" ELSE "entry", 7, y + 5, s.name)>>

Scrollbar(s) ==
  IF s.count > BrowseRows
    THEN <<Box("track", 237, 24, 1, ListHeight),
           Box("thumb", 237, 24 + (ListHeight * ScrollTop(s.cursor)) \div s.count,
               1, (ListHeight * BrowseRows) \div s.count)>>
    ELSE <<>>

RowsDrawn(s) == Min({BrowseRows, s.count - ScrollTop(s.cursor)})

RenderBrowse(s) ==
  <<Text("title", 6, 4, 10 + Digits(s.cursor + 1) + Digits(s.count)), HLine(0, 18, Width)>>
    \o FlattenSeq([i \in 1..RowsDrawn(s) |-> Row(s, i - 1)])
    \o Scrollbar(s)
    \o <<Text("hint", 6, 306, 31)>>

-----------------------------------------------------------------------------
(* RenderEdit.                                                             *)
Edit ==
  [screen : {"edit"}, preset_name : NameLen, value : NameLen,
   field : 0..7, editing : BOOLEAN]

Pitch == 34

FieldRow(s, f) ==
  LET y == 22 + f * Pitch
      active == f = s.field
      label == <<5, 3, 7, 7, 6, 9, 8, 8>>[f + 1]   \* MODEL .. TRE FREQ
  IN (IF active THEN <<Box("highlight", 0, y, Width, Pitch - 2), Box("accent", 0, y, 3, Pitch - 2)>>
                ELSE <<>>)
       \o <<Text("label", 7, y, label)>>
       \o (IF active /\ s.editing THEN <<Box("field", 7, y + 12, 230, 10)>> ELSE <<>>)
       \o <<Text("value", 11, y + 12, s.value)>>

RenderEdit(s) ==
  <<Text("title", 6, 4, 6 + s.preset_name), HLine(0, 18, Width)>>
    \o FlattenSeq([f \in 1..8 |-> FieldRow(s, f - 1)])
    \o <<Text("hint", 6, 298, 25)>>

-----------------------------------------------------------------------------
(* RenderTuner.  A note is a letter, perhaps a sharp, and an octave.       *)
Tuner ==
  [screen : {"tuner"}, stable : BOOLEAN, note : 2..3, cents : Cents, info : 13..16]

Centered(w) == IF w < Width THEN (Width - w) \div 2 ELSE 0

(* Division in C is towards zero.                                          *)
Needle(cents) ==
  LET off == (100 * (IF cents < 0 THEN -cents ELSE cents)) \div 50
      ix == 20 + 200 \div 2 + (IF cents < 0 THEN -off ELSE off)
  IN Box("needle", ix - 2, 235, 5, 18)

RenderTuner(s) ==
  LET note == IF s.stable THEN s.note ELSE 2   \* "--"
      info == IF s.stable THEN s.info ELSE 9   \* "no signal"
  IN <<Big("title", Centered(14 * 5), 10, 5), Text("muted", Centered(7 * 5), 44, 5),
       Biggest("note", Centered(32 * note), 120, note),
       Box("scale", 20, 235, 200, 18), VLine(120, 229, 30)>>
       \o (IF s.stable THEN <<Needle(s.cents)>> ELSE <<>>)
       \o <<Text("label", 20, 259, 3), Text("label", 199, 259, 3),
            Text("info", Centered(7 * info), 285, info)>>

-----------------------------------------------------------------------------
NoScreen == [screen |-> "none"]

DrawInit == shown = NoScreen /\ boxes = <<>>

(* Each Render function starts by clearing the buffer.                     *)
Clear == boxes # <<>> /\ shown' = NoScreen /\ boxes' = <<>>

Render ==
  /\ shown = NoScreen
  /\ \/ shown' \in Performance /\ boxes' = RenderPerformance(shown')
     \/ shown' \in Browse      /\ boxes' = RenderBrowse(shown')
     \/ shown' \in Edit        /\ boxes' = RenderEdit(shown')
     \/ shown' \in Tuner       /\ boxes' = RenderTuner(shown')

DrawNext == Clear \/ Render

DrawSpec == DrawInit /\ [][DrawNext]_canvas

-----------------------------------------------------------------------------
(* Properties.                                                             *)
Parts(part) == {i \in DOMAIN boxes : boxes[i].part = part}

(* Rows FillRect fills, its last row computed in 16 bits.                  *)
RowsFilled(b) == b.y..(((b.y + b.h) % Word) - 1)

InMemory(b) ==
  b.clipped \/ b.w = 0 \/ \A row \in RowsFilled(b) : row * Width + b.x + b.w <= Width * Height

Inside(b, c) ==
  /\ c.x <= b.x /\ b.x + b.w <= c.x + c.w
  /\ c.y <= b.y /\ b.y + b.h <= c.y + c.h

(* FillRect writes where it is told: whatever is shown, names of any       *)
(* length and levels out of range included, no frame writes outside the    *)
(* buffer, and a level stays in its meter and the thumb in its track       *)
(* (src/display/display_renderer.cpp:47-57, src/display/meter_fill.h:14).  *)
InPlace ==
  /\ \A i \in DOMAIN boxes : InMemory(boxes[i])
  /\ \A i \in Parts("level") : \E j \in Parts("bar") : Inside(boxes[i], boxes[j])
  /\ \A i \in Parts("thumb") : \E j \in Parts("track") : Inside(boxes[i], boxes[j])

Overlap(b, c) ==
  /\ b.w > 0 /\ c.w > 0
  /\ b.x < c.x + c.w /\ c.x < b.x + b.w
  /\ b.y < c.y + c.h /\ c.y < b.y + b.h

(* A box that is too wide goes on at the left, a row lower.                *)
Pieces(b) ==
  {b} \cup IF b.clipped \/ b.x + b.w <= Width THEN {}
           ELSE {[b EXCEPT !.x = 0, !.y = @ + 1, !.w = b.x + b.w - Width]}

CoveredBy(b, c) == \E p \in Pieces(b), q \in Pieces(c) : Overlap(p, q)

Covered(i) == \E j \in (i + 1)..Len(boxes) : CoveredBy(boxes[i], boxes[j])

Texts ==
  {"index", "state", "name", "label", "hint", "title", "cursor", "entry", "value",
   "muted", "note", "info"}

(* Nothing is painted over a text that was drawn before it, not even by    *)
(* a model's or a cabinet's name too long for its row, as long as the      *)
(* preset's name stops short of the AMP block's frame, after 12 large      *)
(* letters (src/Ui.cpp:156-183).  The mark of unsaved edits is another     *)
(* matter: see MarkShown.                                                  *)
Roomy == shown.screen = "performance" => shown.preset_name <= 12

Legible == Roomy => \A i \in DOMAIN boxes : boxes[i].part \in Texts => ~Covered(i)

(* The list always shows the entry under its cursor, highlighted, and      *)
(* seven entries if there are as many (src/main.cpp:320,                   *)
(* src/Ui.cpp:238-259).                                                    *)
CursorShown ==
  shown.screen = "browse" =>
    /\ \E i \in Parts("cursor"), j \in Parts("highlight") : Inside(boxes[i], boxes[j])
    /\ Cardinality(Parts("entry")) = Min({BrowseRows, shown.count}) - 1

(* The mark of unsaved edits is visible when there are some.  The code     *)
(* does otherwise: README.md, Disagreements.                               *)
MarkShown ==
  shown.screen = "performance" /\ shown.dirty =>
    \E i \in Parts("mark") : ~Covered(i)

=============================================================================
