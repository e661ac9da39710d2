------------------------------ MODULE Display ------------------------------
(***************************************************************************)
(* The path of a screen to the panel: Ui keeps what it was last told to    *)
(* show, renders it into the one frame buffer when a frame is due, and     *)
(* St7789Driver sends the buffer a few rows per iteration of the main loop *)
(* while the loop goes on changing what is to be shown (src/Ui.cpp:58-130, *)
(* src/display/display_transfer.h, src/display/st7789_driver.cpp:138-158). *)
(*                                                                         *)
(* A screen's content is split into what ShowTuner compares and the rest;  *)
(* pixels are abstracted to the content they were drawn from.              *)
(***************************************************************************)
EXTENDS Integers

CONSTANTS
  Screens,     \* kinds of screens, "tuner" and others
  Compared,    \* values of the compared part of a content
  Rest,        \* values of the rest: frequency_hz, confidence
  FrameBytes,  \* FrameBufferBytes()
  RowBytes,    \* kRowBytes
  Batch,       \* kRowsPerUpdate
  FrameMs,     \* kFrameMs
  Wrap,        \* range of System::GetNow
  Elapsed      \* milliseconds an iteration may take

ASSUME DisplayAssumption ==
  /\ "tuner" \in Screens
  /\ {FrameBytes, RowBytes, Batch, FrameMs, Wrap} \subseteq Nat \ {0}
  /\ FrameMs < Wrap
  /\ Elapsed \subseteq 0..(Wrap - FrameMs)

Content == [screen : Screens, compared : Compared, rest : Rest]
Blank   == [screen |-> "blank"]

VARIABLES
  state,         \* perf_, browse_, edit_, tuner_
  screen_,
  dirty_,
  last_push_ms_,
  now,           \* System::GetNow()
  frame,         \* the content the frame buffer was drawn from
  next_,         \* DisplayTransferState: offset of the next byte ...
  remaining_,    \* ... and bytes to go
  panel          \* the content each byte of the panel shows

ui       == <<state, screen_, dirty_, last_push_ms_>>
transfer == <<next_, remaining_>>
vars == <<ui, now, frame, transfer, panel>>

IsBusy  == remaining_ # 0
Showing == state[screen_]

TypeOK ==
  /\ \A k \in Screens : state[k] \in Content /\ state[k].screen = k
  /\ screen_ \in Screens
  /\ dirty_ \in BOOLEAN
  /\ last_push_ms_ \in 0..(Wrap - 1) /\ now \in 0..(Wrap - 1)
  /\ frame \in Content \cup {Blank}
  /\ next_ + remaining_ = IF IsBusy THEN FrameBytes ELSE 0
  /\ next_ \in Nat /\ remaining_ \in Nat
  /\ panel \in [0..(FrameBytes - 1) -> Content \cup {Blank}]

(* Ui::Init: everything to its initial value, the panel black.             *)
Init ==
  /\ \E c \in Compared, r \in Rest :
       state = [k \in Screens |-> [screen |-> k, compared |-> c, rest |-> r]]
  /\ screen_ \in Screens \ {"tuner"}
  /\ dirty_ = TRUE
  /\ last_push_ms_ = 0 /\ now = FrameMs
  /\ frame = Blank
  /\ next_ = 0 /\ remaining_ = 0
  /\ panel = [b \in 0..(FrameBytes - 1) |-> Blank]

-----------------------------------------------------------------------------
(* ShowPerformance, ShowBrowse, ShowEdit.                                  *)
Show(c) ==
  /\ c.screen # "tuner"
  /\ state' = [state EXCEPT ![c.screen] = c]
  /\ screen_' = c.screen
  /\ dirty_' = TRUE
  /\ UNCHANGED <<last_push_ms_, now, frame, transfer, panel>>

(* Slip: coming from another screen is not a change.                       *)
ShowTunerSameNote(c) ==
  /\ c.screen = "tuner"
  /\ state' = [state EXCEPT !["tuner"] = c]
  /\ screen_' = "tuner"
  /\ dirty_' = (dirty_ \/ state["tuner"].compared # c.compared)
  /\ UNCHANGED <<last_push_ms_, now, frame, transfer, panel>>

ShowTuner(c) ==
  /\ c.screen = "tuner"
  /\ state' = [state EXCEPT !["tuner"] = c]
  /\ screen_' = "tuner"
  /\ dirty_' = (dirty_ \/ screen_ # "tuner" \/ state["tuner"].compared # c.compared)
  /\ UNCHANGED <<last_push_ms_, now, frame, transfer, panel>>

(* One Update sends at most Batch rows; Painted is the panel after them.   *)
Least(a, b) == IF a < b THEN a ELSE b
Sent == Least(remaining_, Batch * RowBytes)

Painted ==
  [b \in DOMAIN panel |-> IF b \in next_..(next_ + Sent - 1) THEN frame ELSE panel[b]]

Advance ==
  /\ remaining_' = remaining_ - Sent
  /\ next_' = IF remaining_' = 0 THEN 0 ELSE next_ + Sent

Elapse(e) == now' = (now + e) % Wrap

(* Slip: the clock's reading is compared, not its difference.              *)
DueAbsolute(t) == t >= last_push_ms_ + FrameMs

Due(t) == (t - last_push_ms_) % Wrap >= FrameMs

(* Ui::Update while rows remain: send a batch and return.                  *)
UpdateBusy(e) ==
  /\ Sent < remaining_
  /\ Elapse(e)
  /\ panel' = Painted
  /\ Advance
  /\ UNCHANGED <<ui, frame>>

(* Nothing remains, and nothing changed or the last frame is too recent.   *)
UpdateIdle(e) ==
  /\ Sent = remaining_
  /\ Elapse(e)
  /\ ~(dirty_ /\ Due(now'))
  /\ panel' = Painted
  /\ Advance
  /\ UNCHANGED <<ui, frame>>

PushFrame == next_' = 0 /\ remaining_' = FrameBytes

(* Nothing remains and a frame is due: render it and start its transfer.   *)

(* Slip: the buffer is rendered while rows of the last frame remain.       *)
UpdateFrameEarly(e) ==
  /\ Elapse(e)
  /\ dirty_ /\ Due(now')
  /\ panel' = Painted
  /\ frame' = Showing
  /\ IF Sent = remaining_ THEN PushFrame ELSE Advance
  /\ dirty_' = FALSE
  /\ last_push_ms_' = now'
  /\ UNCHANGED <<state, screen_>>

UpdateFrame(e) ==
  /\ Sent = remaining_
  /\ Elapse(e)
  /\ dirty_ /\ Due(now')
  /\ panel' = Painted
  /\ frame' = Showing
  /\ PushFrame
  /\ dirty_' = FALSE
  /\ last_push_ms_' = now'
  /\ UNCHANGED <<state, screen_>>

Update(e) == UpdateBusy(e) \/ UpdateIdle(e) \/ UpdateFrame(e)

Next ==
  \/ \E c \in Content : Show(c) \/ ShowTuner(c)
  \/ \E e \in Elapsed : Update(e)

(* The main loop calls Update in every iteration, and time passes.         *)
Fairness == WF_vars(\E e \in Elapsed \ {0} : Update(e))

Spec == Init /\ [][Next]_vars /\ Fairness

-----------------------------------------------------------------------------
(* Properties.                                                             *)

(* No tearing: what has been sent of a frame is all of one content, and so *)
(* is a finished panel, whatever is shown during the transfer              *)
(* (src/Ui.cpp:107-130: the one buffer is drawn only between transfers).   *)
NoTearing ==
  \A b \in DOMAIN panel : (~IsBusy \/ b < next_) => panel[b] = frame

(* At rest the panel agrees with what was last shown, in the parts that    *)
(* ShowTuner compares; on the other screens, in all.                       *)
Agrees(pixel, c) ==
  IF c.screen = "tuner" THEN pixel # Blank /\ pixel.screen = "tuner" /\ pixel.compared = c.compared
                        ELSE pixel = c

UpToDate == ~dirty_ /\ ~IsBusy => \A b \in DOMAIN panel : Agrees(panel[b], Showing)

(* At rest the panel agrees with what was last shown in every part. The    *)
(* code does otherwise: README.md, Disagreements.                          *)
AllUpToDate == ~dirty_ /\ ~IsBusy => \A b \in DOMAIN panel : panel[b] = Showing

(* Once the pedal stops changing what is to be shown, the panel shows it,  *)
(* also across a wrap of the clock (src/Ui.cpp:106-130).                   *)
Settles == \A c \in Content :
  <>[](Showing = c) => <>[](\A b \in DOMAIN panel : Agrees(panel[b], c))

=============================================================================
