------------------------------- MODULE Pedal -------------------------------
(***************************************************************************)
(* The main loop of src/main.cpp (499-835): performance, browse, edit and  *)
(* tuner modes, the presets in RAM, what the engine was last set to and    *)
(* what the display was last told to show.                                 *)
(*                                                                         *)
(* One step is one iteration of the loop: one ControlEvent, handled by the *)
(* branch of the current mode from its first statement to its last.  An    *)
(* iteration runs several handlers in a row, so the handlers are operators *)
(* from one state of the loop to the next.  The engine's switch of presets *)
(* is refined in PresetSwitch; here a call of Apply is its result.         *)
(*                                                                         *)
(* "gain" stands for the levels and frequencies, "eq" for the EQ gains,    *)
(* which the form does not show.                                           *)
(***************************************************************************)
EXTENDS Integers, Sequences, SequencesExt

CONSTANTS
  Count,     \* number of presets, at least 1 (src/PresetManager.cpp:65-72)
  Flash,     \* the presets as Init copied them from flash
  Models,    \* the names in model_name_ptrs, in order
  Irs,       \* the names of the impulse responses, in order
  Loads,     \* the models that the loader accepts
  Null,      \* the empty name
  Top,       \* upper end of a clamped level, whose lower end is 0
  Fields,    \* the fields of the form, in order
  Delta,     \* detents one iteration may report
  Pitch      \* results of TunerDetector::Analyze

Name  == ToSet(Models) \cup ToSet(Irs) \cup {Null}
Index == 0..(Count - 1)
Level == 0..Top

ASSUME PedalAssumption ==
  /\ Count \in Nat \ {0}
  /\ Top \in Nat
  /\ Delta \subseteq Int
  /\ Fields \in Seq({"model", "cab", "gain", "bypass"}) /\ Fields # <<>>
  /\ Models \in Seq(ToSet(Models)) /\ Irs \in Seq(ToSet(Irs))
  /\ DOMAIN Flash = Index
  /\ Null \notin ToSet(Models) \cup ToSet(Irs)

VARIABLES
  pedal,       \* the globals of main.cpp, one field each
  enc1,        \* the encoder's button: up, down, or long once reported held
  picked,      \* history: the press that lasts switched the preset, on the list
  listed       \* history: it began on the list, and no footswitch was tapped

vars == <<pedal, enc1, picked, listed>>

Mode(s) == CASE s.tuner    -> "tuner"
             [] ~s.tuner /\ s.browsing -> "browse"
             [] ~s.tuner /\ ~s.browsing /\ s.editing -> "edit"
             [] OTHER      -> "performance"

-----------------------------------------------------------------------------
(* PresetManager::ApplyPreset as the loop sees it: the settings are        *)
(* written; a model that is named is loaded, or the engine bypassed; no    *)
(* name leaves the model alone; a cabinet that is missing is off.          *)

Resolves(p) == p.model = Null \/ p.model \in ToSet(Models) \cap Loads

(* Slip: the result of the load is ignored.                                *)
AppliedUnchecked(live, p) ==
  [gain |-> p.gain, eq |-> p.eq, bypass |-> p.bypass,
   ir |-> IF p.ir \in ToSet(Irs) THEN p.ir ELSE Null,
   model |-> IF p.model \in ToSet(Models) \cap Loads THEN p.model ELSE Null]

Applied(live, p) ==
  [gain   |-> p.gain,
   eq     |-> p.eq,
   bypass |-> p.bypass \/ ~Resolves(p),
   ir     |-> IF p.ir \in ToSet(Irs) THEN p.ir ELSE Null,
   model  |-> CASE p.model \in ToSet(Models) \cap Loads -> p.model
                [] p.model \in ToSet(Models) \ Loads    -> Null
                [] OTHER                                -> live.model]

Apply(s) == [s EXCEPT !.live = Applied(@, s.presets[s.current])]

(* Push...Screen: the display gets a copy of what it is to show.           *)
PerformanceScreen(s) ==
  [kind  |-> "performance", idx |-> s.current,
   names |-> <<s.presets[s.current].model, s.presets[s.current].ir>>,
   gain  |-> s.live.gain, eq |-> s.live.eq, bypass |-> s.live.bypass,
   dirty |-> s.dirty]

PushPerformance(s) == [s EXCEPT !.screen = PerformanceScreen(s)]
PushBrowse(s) == [s EXCEPT !.screen = [kind |-> "browse", cursor |-> s.cursor]]
PushTuner(s)  == [s EXCEPT !.screen = [kind |-> "tuner", pitch |-> s.pitch]]
ShowEdit(s)   == [s EXCEPT !.screen = [kind |-> "edit", form |-> s.form]]

(* The place of a name in a list, and what the lookup falls back to.       *)
Position(list, name, fallback) ==
  IF name \in ToSet(list)
    THEN CHOOSE i \in 1..Len(list) : list[i] = name /\ \A j \in 1..(i-1) : list[j] # name
    ELSE fallback

PushEdit(s, i) ==
  LET p == s.presets[i] IN
  ShowEdit([s EXCEPT !.edit_idx = i,
     !.form = [model     |-> p.model, ir |-> p.ir,
               gain      |-> p.gain,  bypass |-> p.bypass,
               model_idx |-> Position(Models, p.model, 1) - 1,
               ir_idx    |-> Position(Irs, p.ir, 0),
               field     |-> 1, editing |-> FALSE]])

Clamp(v, lo, hi) == IF v < lo THEN lo ELSE IF v > hi THEN hi ELSE v
Byte(v) == v % 256
(* The clamp of an index: the upper end wins, and is -1 for an empty list. *)
ClampIndex(v, size) == LET w == IF v < 0 THEN 0 ELSE v
                       IN  Byte(IF w >= size THEN size - 1 ELSE w)

-----------------------------------------------------------------------------
(* Performance mode.                                                       *)
TurnGain(s, d) ==
  IF d = 0 THEN s
  ELSE PushPerformance([s EXCEPT !.live.gain = Clamp(@ + d, 0, Top), !.dirty = TRUE])

(* Slip: the screen is pushed before the mark is set.                      *)
TurnEqPushFirst(s, d) ==
  IF d = 0 THEN s
  ELSE [PushPerformance([s EXCEPT !.live.eq = Clamp(@ + d, 0, Top)]) EXCEPT !.dirty = TRUE]

TurnEq(s, d) ==
  IF d = 0 THEN s
  ELSE PushPerformance([s EXCEPT !.live.eq = Clamp(@ + d, 0, Top), !.dirty = TRUE])

Switch(s, i) ==
  PushPerformance([Apply([s EXCEPT !.current = i]) EXCEPT !.dirty = FALSE])

Taps(s, fs) ==
  CASE "fs1_tap" \in fs /\ Count > 1 -> Switch(s, (s.current + 1) % Count)
    [] "fs1_tap" \notin fs /\ "fs2_tap" \in fs /\ Count > 1 ->
         Switch(s, (s.current + Count - 1) % Count)
    [] OTHER -> s

Revert(s, fs) == IF "fs2_hold" \in fs THEN Switch(s, s.current) ELSE s

EnterBrowse(s, click) ==
  IF click THEN PushBrowse([s EXCEPT !.cursor = s.current, !.browsing = TRUE]) ELSE s

Performing(s, ev) ==
  EnterBrowse(Revert(Taps(TurnEq(TurnGain(s, ev.turn1), ev.turn2), ev.fs), ev.fs), ev.click)

-----------------------------------------------------------------------------
(* Browse mode.                                                            *)

MoveCursor(s, d) ==
  IF d = 0 THEN s ELSE PushBrowse([s EXCEPT !.cursor = ClampIndex(@ + d, Count)])

(* Slip: the list stays open, with what it shows.                          *)
PickStays(s, click) ==
  IF ~click \/ s.cursor = s.current THEN s ELSE PushBrowse(Switch(s, s.cursor))

(* Next or Prev towards the cursor until the current preset is there.      *)
Pick(s, click) ==
  IF ~click THEN s
  ELSE PushPerformance([(IF s.cursor = s.current THEN s
                          ELSE Switch(s, s.cursor)) EXCEPT !.browsing = FALSE])

OpenForm(s, long) ==
  IF ~long THEN s
  ELSE PushEdit([s EXCEPT !.browsing = FALSE, !.editing = TRUE], s.cursor)

LeaveBrowse(s, fs) ==
  IF {"fs1_tap", "fs2_tap"} \cap fs = {} THEN s
  ELSE PushPerformance([s EXCEPT !.browsing = FALSE])

Browsing(s, ev) ==
  LeaveBrowse(OpenForm(Pick(MoveCursor(s, ev.turn1), ev.click), ev.long), ev.fs)

-----------------------------------------------------------------------------
(* Edit mode.                                                              *)

(* The name that an index of the form selects.                             *)
ModelAt(i) == IF i + 1 \in DOMAIN Models THEN Models[i + 1] ELSE Null
IrAt(i)    == IF i \in DOMAIN Irs THEN Irs[i] ELSE Null

(* Slip: the index moves and the name stays.                              *)
ChangeModelIndexOnly(f, d) ==
  [f EXCEPT !.model_idx = ClampIndex(@ + d, Len(Models))]

ChangeModel(f, d) ==
  LET i == ClampIndex(f.model_idx + d, Len(Models))
  IN  [f EXCEPT !.model_idx = i,
                !.model = IF i + 1 \in DOMAIN Models THEN Models[i + 1] ELSE @]

ChangeCab(f, d) ==
  LET i == ClampIndex(f.ir_idx + d, Len(Irs) + 1)
  IN  [f EXCEPT !.ir_idx = i, !.ir = IrAt(i)]

ChangeValue(f, d) ==
  CASE Fields[f.field] = "model"  -> ChangeModel(f, d)
    [] Fields[f.field] = "cab"    -> ChangeCab(f, d)
    [] Fields[f.field] = "gain"   -> [f EXCEPT !.gain = Clamp(@ + d, 0, Top)]
    [] Fields[f.field] = "bypass" -> [f EXCEPT !.bypass = ~@]

MoveField(f, d) == [f EXCEPT !.field = Clamp(@ + d, 1, Len(Fields))]

TurnInForm(s, d) ==
  IF d = 0 THEN s
  ELSE ShowEdit([s EXCEPT !.form = IF @.editing THEN ChangeValue(@, d) ELSE MoveField(@, d)])

ClickInForm(s, click) ==
  IF click THEN ShowEdit([s EXCEPT !.form.editing = ~@]) ELSE s

(* FS1: the form becomes the preset, for this session, with the EQ gains   *)
(* that are playing, and the preset becomes the current one.               *)
Formed(s) ==
  [model |-> s.form.model, ir |-> s.form.ir, gain |-> s.form.gain,
   bypass |-> s.form.bypass, eq |-> s.live.eq]

(* Slip: the form is written over the preset that is playing.              *)
ApplyFormToCurrent(s, fs) ==
  IF "fs1_tap" \notin fs THEN s
  ELSE PushPerformance([Apply([s EXCEPT !.presets[s.current] = Formed(s)])
                         EXCEPT !.dirty = TRUE, !.editing = FALSE])

ApplyForm(s, fs) ==
  IF "fs1_tap" \notin fs THEN s
  ELSE PushPerformance([Apply([s EXCEPT !.presets[s.edit_idx] = Formed(s),
                                        !.current = s.edit_idx])
                         EXCEPT !.dirty = TRUE, !.editing = FALSE])

DiscardForm(s, fs) ==
  IF "fs2_tap" \in fs THEN PushPerformance([s EXCEPT !.editing = FALSE]) ELSE s

Editing(s, ev) ==
  DiscardForm(ApplyForm(ClickInForm(TurnInForm(s, ev.turn1), ev.click), ev.fs), ev.fs)

-----------------------------------------------------------------------------
(* What Controls::Process can report in one call: a chord suppresses the   *)
(* other footswitch events, a switch cannot be held and released at once,  *)
(* and the button reports a click when it goes down and a long press once, *)
(* later, while it stays down.  Events that the mode does not look at are  *)
(* left out: they would lead to the same states.                           *)
Footswitches ==
  CASE Mode(pedal) = "tuner"       -> {{}, {"both_hold"}}
    [] Mode(pedal) = "performance" ->
         {fs \in SUBSET {"fs1_tap", "fs2_tap", "fs2_hold"} :
            ~ {"fs2_tap", "fs2_hold"} \subseteq fs} \cup {{"both_hold"}}
    [] OTHER                       -> SUBSET {"fs1_tap", "fs2_tap"}

Turns(modes) == IF Mode(pedal) \in modes THEN Delta ELSE {0}

Button ==
  \/ enc1' = enc1
  \/ enc1 = "up" /\ enc1' = "down"
  \/ enc1 = "down" /\ enc1' = "long"
  \/ enc1 # "up" /\ enc1' = "up"

Events ==
  [turn1 : Turns({"performance", "browse", "edit"}), turn2 : Turns({"performance"}),
   fs    : Footswitches,
   click : {enc1 = "up" /\ enc1' = "down"},
   long  : {enc1 = "down" /\ enc1' = "long"}]

NoForm == [model |-> Null, ir |-> Null, gain |-> 0, bypass |-> FALSE,
           model_idx |-> 0, ir_idx |-> 0, field |-> 1, editing |-> FALSE]

(* In performance mode the form, its index, the cursor and the pitch are   *)
(* dead: each is written before it is read again.  They are forgotten here *)
(* so that the model does not tell their old values apart: the form's      *)
(* place when it closes, the rest when the next iteration begins.          *)
ForgetPlace(s) ==
  IF s.editing THEN s
  ELSE [s EXCEPT !.form = [@ EXCEPT !.field = 1, !.editing = FALSE,
                                    !.model_idx = 0, !.ir_idx = 0]]

Forget(s) ==
  [s EXCEPT !.form = NoForm, !.edit_idx = 0, !.cursor = s.current, !.pitch = Null]

(* The end of an iteration: the performance screen again if it is time.    *)
Refresh(s, due) ==
  IF due /\ ~s.browsing /\ ~s.editing THEN PushPerformance(s) ELSE s

Chord(ev) == "both_hold" \in ev.fs

TunerLoop(ev, due) ==
  /\ pedal.tuner
  /\ \/ /\ Chord(ev)
        /\ pedal' = PushPerformance([pedal EXCEPT !.tuner = FALSE])
     \/ /\ ~Chord(ev) /\ due
        /\ \E pitch \in Pitch : pedal' = PushTuner([pedal EXCEPT !.pitch = pitch])
     \/ /\ ~Chord(ev) /\ ~due
        /\ pedal' = pedal

EnterTuner(ev) ==
  /\ ~pedal.tuner /\ Chord(ev) /\ ~pedal.browsing /\ ~pedal.editing
  /\ pedal' = PushTuner([Forget(pedal) EXCEPT !.tuner = TRUE])

PerformanceLoop(ev, due) ==
  /\ Mode(pedal) = "performance" /\ ~Chord(ev)
  /\ pedal' = Refresh(Performing(Forget(pedal), ev), due)

BrowseLoop(ev, due) ==
  /\ Mode(pedal) = "browse"
  /\ pedal' = Refresh(Browsing(pedal, ev), due)

EditLoop(ev, due) ==
  /\ Mode(pedal) = "edit"
  /\ pedal' = Refresh(ForgetPlace(Editing(pedal, ev)), due)

Loop ==
  /\ Button
  /\ \E ev \in Events, due \in BOOLEAN :
       /\ \/ TunerLoop(ev, due)
          \/ EnterTuner(ev)
          \/ PerformanceLoop(ev, due)
          \/ BrowseLoop(ev, due)
          \/ EditLoop(ev, due)
       /\ listed' = (/\ enc1' # "up" /\ ev.fs = {}
                     /\ IF enc1 = "up" THEN pedal.browsing ELSE listed)
  /\ picked' = (/\ enc1' # "up"
                /\ picked \/ (pedal.browsing /\ pedal'.current # pedal.current))

Silent == [gain |-> 0, eq |-> 0, bypass |-> TRUE, ir |-> Null, model |-> Null]

(* Boot: preset 0 applied, its screen pushed (main.cpp:436-466).           *)
Init ==
  /\ pedal = PushPerformance(
       [tuner |-> FALSE, browsing |-> FALSE, editing |-> FALSE, dirty |-> FALSE,
        current |-> 0, cursor |-> 0, edit_idx |-> 0, pitch |-> Null,
        presets |-> Flash, live |-> Applied(Silent, Flash[0]), form |-> NoForm,
        screen |-> [kind |-> "none"]])
  /\ enc1 = "up" /\ picked = FALSE /\ listed = FALSE

Spec == Init /\ [][Loop]_vars

-----------------------------------------------------------------------------
(* Properties.                                                             *)

(* Every variable keeps its type; indices stay inside their tables.        *)
TypeOK ==
  /\ pedal.current \in Index /\ pedal.cursor \in Index /\ pedal.edit_idx \in Index
  /\ pedal.live.gain \in Level /\ pedal.live.eq \in Level
  /\ pedal.form.gain \in Level /\ pedal.form.field \in 1..Len(Fields)
  /\ \A i \in Index : pedal.presets[i].gain \in Level /\ pedal.presets[i].eq \in Level
  /\ enc1 \in {"up", "down", "long"} /\ picked \in BOOLEAN /\ listed \in BOOLEAN

(* The form's indices select entries of the lists the screen draws from    *)
(* (src/Ui.h:77-84). The code does otherwise: README.md, Disagreements.    *)
FormIndexInRange ==
  pedal.form.model_idx \in 0..(IF Len(Models) = 0 THEN 0 ELSE Len(Models) - 1)

(* The three flags that select a mode agree (src/main.cpp:52-57).          *)
OneMode ==
  /\ ~(pedal.browsing /\ pedal.editing)
  /\ pedal.tuner => ~pedal.browsing /\ ~pedal.editing

(* In any order of presses, chords and taps there is one mode, and the     *)
(* display was last told to show it as it is now: no old preset, level or  *)
(* mark, no old cursor, pitch or form (src/main.cpp:271-375).  Only a form *)
(* opened in the iteration of a tap lies behind the performance screen,    *)
(* and that is as it is now too: see EditScreenShown.                      *)
ScreenTrue ==
  /\ OneMode
  /\ CASE Mode(pedal) = "performance" -> pedal.screen = PerformanceScreen(pedal)
       [] Mode(pedal) = "browse" -> pedal.screen = PushBrowse(pedal).screen
       [] Mode(pedal) = "tuner"  -> pedal.screen = PushTuner(pedal).screen
       [] OTHER -> pedal.screen \in {ShowEdit(pedal).screen, PerformanceScreen(pedal)}

(* While the form takes the events, the form is what is on display. The    *)
(* code does otherwise: README.md, Disagreements.                          *)
EditScreenShown == pedal.editing => pedal.screen.kind = "edit"

(* No press of the encoder does both: one that has switched the preset     *)
(* from the list, by its click, does not go on to open the form, however   *)
(* long it lasts and whatever is tapped meanwhile; and the form opens for  *)
(* the entry under the cursor (src/main.cpp:653-677).                      *)
PickOrEdit ==
  [][~pedal.editing /\ pedal'.editing
       => ~picked /\ pedal'.edit_idx = pedal'.cursor]_vars

(* src/Ui.h:9: "Edit — field editor for the highlighted preset (entered    *)
(* via encoder long-press)".  The code does otherwise for a press that     *)
(* begins on the list: its click has left the list before it is long.      *)
HeldOnListEdits ==
  [][enc1 = "down" /\ enc1' = "long" /\ listed' => pedal'.editing]_vars

(* What the player hears is what a preset says.                            *)
Heard(live, p) ==
  /\ live.gain = p.gain /\ live.eq = p.eq
  /\ live.bypass = (p.bypass \/ ~Resolves(p))
  /\ live.ir = IF p.ir \in ToSet(Irs) THEN p.ir ELSE Null
  /\ Resolves(p) /\ p.model # Null => live.model = p.model

(* Without the mark, the engine plays the current preset of RAM, whatever  *)
(* was turned, reverted, browsed or edited before.                         *)
CleanIsPreset == ~pedal.dirty => Heard(pedal.live, pedal.presets[pedal.current])

(* Without the mark, it plays the preset that is stored. The code does     *)
(* otherwise: README.md, Disagreements.                                    *)
CleanIsStored == ~pedal.dirty => Heard(pedal.live, Flash[pedal.current])

(* The form is private until FS1: while it is open nothing else changes;   *)
(* when it closes, either nothing did, or the preset it was opened for, and *)
(* no other, has become the form, is current, plays, and is marked.        *)
EditIsPrivate ==
  [][pedal.editing =>
       \/ /\ pedal'.presets = pedal.presets /\ pedal'.live = pedal.live
          /\ pedal'.current = pedal.current /\ pedal'.dirty = pedal.dirty
       \/ LET i == pedal.edit_idx  p == pedal'.presets[i]  f == pedal'.form IN
          /\ ~pedal'.editing /\ pedal'.current = i /\ pedal'.dirty
          /\ <<p.model, p.ir, p.gain, p.bypass>> = <<f.model, f.ir, f.gain, f.bypass>>
          /\ \A j \in Index \ {i} : pedal'.presets[j] = pedal.presets[j]
          /\ Heard(pedal'.live, p)
    ]_vars

(* The names the form would apply are the ones its indices show, if flash  *)
(* has every model and cabinet that presets name, and each names a model   *)
(* unless flash has none. (README.md, Disagreements.)                      *)
FormShowsNames ==
  pedal.editing => /\ pedal.form.model = ModelAt(pedal.form.model_idx)
                   /\ pedal.form.ir = IrAt(pedal.form.ir_idx)
=============================================================================
