---------------------------- MODULE PedalProofs ----------------------------
(***************************************************************************)
(* What the main loop keeps true, for any presets, models, impulse         *)
(* responses, fields and detents.                                          *)
(*                                                                         *)
(* Every handler takes the loop from one of four kinds of state to one of  *)
(* them: Playing, Listing, Forming, Tuning.  A kind says which mode the    *)
(* flags select, what the display was last told to show, and that without  *)
(* the mark the engine plays the current preset.  There is one lemma per   *)
(* handler, then one per branch of the loop.                               *)
(***************************************************************************)
EXTENDS Pedal, TLAPS, WellFoundedInduction

StateFields == {"tuner", "browsing", "editing", "dirty", "current", "cursor", "edit_idx",
                "pitch", "presets", "live", "form", "screen"}
LiveFields  == {"gain", "eq", "bypass", "ir", "model"}
FormFields  == {"model", "ir", "gain", "bypass", "model_idx", "ir_idx", "field", "editing"}

Shape(s) ==
  /\ DOMAIN s = StateFields
  /\ s.tuner \in BOOLEAN /\ s.browsing \in BOOLEAN
  /\ s.editing \in BOOLEAN /\ s.dirty \in BOOLEAN
  /\ s.current \in Index /\ s.cursor \in Index /\ s.edit_idx \in Index
  /\ DOMAIN s.presets = Index
  /\ DOMAIN s.live = LiveFields
  /\ DOMAIN s.form = FormFields /\ s.form.field \in 1..Len(Fields)

Clean(s) == s.dirty \/ Heard(s.live, s.presets[s.current])

Playing(s) ==
  /\ Shape(s) /\ Clean(s)
  /\ ~s.tuner /\ ~s.browsing /\ ~s.editing
  /\ s.screen = PerformanceScreen(s)

Listing(s) ==
  /\ Shape(s) /\ Clean(s)
  /\ ~s.tuner /\ s.browsing /\ ~s.editing
  /\ s.screen = [kind |-> "browse", cursor |-> s.cursor]

Forming(s) ==
  /\ Shape(s) /\ Clean(s)
  /\ ~s.tuner /\ ~s.browsing /\ s.editing
  /\ s.screen = [kind |-> "edit", form |-> s.form] \/ s.screen = PerformanceScreen(s)

Tuning(s) ==
  /\ Shape(s) /\ Clean(s)
  /\ s.tuner /\ ~s.browsing /\ ~s.editing
  /\ s.screen = [kind |-> "tuner", pitch |-> s.pitch]

-----------------------------------------------------------------------------
(* What the engine plays after a preset was applied is what the preset     *)
(* says, whatever it played before.                                        *)
LEMMA AppliedHeard ==
  ASSUME NEW live, NEW p
  PROVE  Heard(Applied(live, p), p) /\ DOMAIN Applied(live, p) = LiveFields
<1>1. Resolves(p) /\ p.model # Null => p.model \in ToSet(Models) \cap Loads
  BY DEF Resolves
<1>2. Applied(live, p).model = CASE p.model \in ToSet(Models) \cap Loads -> p.model
                                 [] p.model \in ToSet(Models) \ Loads    -> Null
                                 [] OTHER                                -> live.model
  BY DEF Applied
<1>3. Resolves(p) /\ p.model # Null => Applied(live, p).model = p.model
  BY <1>1, <1>2
<1>4. /\ Applied(live, p).gain = p.gain /\ Applied(live, p).eq = p.eq
      /\ Applied(live, p).bypass = (p.bypass \/ ~Resolves(p))
      /\ Applied(live, p).ir = IF p.ir \in ToSet(Irs) THEN p.ir ELSE Null
  BY Zenon DEF Applied
<1>5. DOMAIN Applied(live, p) = LiveFields
  BY DEF Applied, LiveFields
<1> QED BY <1>3, <1>4, <1>5, Zenon DEF Heard

(* Clamping an index leaves it in its table.                               *)
LEMMA ClampedIndex ==
  ASSUME NEW v \in Int, NEW size \in Nat \ {0}
  PROVE  ClampIndex(v, size) \in 0..(size - 1)
<1>1. \A w \in 0..(size - 1) : w % 256 \in 0..(size - 1)
  OBVIOUS
<1> QED BY <1>1 DEF ClampIndex, Byte

(* The next and the previous preset, around the ends.                      *)
LEMMA AroundIndex ==
  ASSUME NEW i \in Index
  PROVE  (i + 1) % Count \in Index /\ (i + Count - 1) % Count \in Index
<1>1. Count \in Nat /\ Count > 0 /\ i + 1 \in Int /\ i + Count - 1 \in Int
  BY PedalAssumption DEF Index
<1>2. \A n \in Int : n % Count \in 0..(Count - 1)
  BY <1>1
<1> QED BY <1>1, <1>2 DEF Index

-----------------------------------------------------------------------------
(* A push changes the screen alone, and afterwards it is true.             *)
Kept == StateFields \ {"screen"}

LEMMA PushKeeps ==
  ASSUME NEW s, Shape(s), Clean(s)
  PROVE  /\ Shape(PushPerformance(s)) /\ Clean(PushPerformance(s))
         /\ PushPerformance(s).screen = PerformanceScreen(PushPerformance(s))
         /\ \A k \in Kept : PushPerformance(s)[k] = s[k]
<1> DEFINE t == PushPerformance(s)
<1>1. /\ DOMAIN t = StateFields /\ t.screen = PerformanceScreen(s)
      /\ \A k \in Kept : t[k] = s[k]
  BY DEF Shape, StateFields, Kept, PushPerformance
<1>2. /\ t.tuner = s.tuner /\ t.browsing = s.browsing /\ t.editing = s.editing
      /\ t.dirty = s.dirty /\ t.current = s.current /\ t.cursor = s.cursor
      /\ t.edit_idx = s.edit_idx /\ t.presets = s.presets /\ t.live = s.live
      /\ t.form = s.form
  BY <1>1 DEF StateFields, Kept
<1>3. PerformanceScreen(t) = PerformanceScreen(s)
  BY <1>2, Zenon DEF PerformanceScreen
<1>4. Shape(t) /\ Clean(t)
  BY <1>1, <1>2, Zenon DEF Shape, Clean
<1> QED BY <1>1, <1>3, <1>4

(* The same, field by field.                                               *)
LEMMA PushFields ==
  ASSUME NEW s, Shape(s), Clean(s)
  PROVE  LET t == PushPerformance(s)
         IN  /\ t.tuner = s.tuner /\ t.browsing = s.browsing /\ t.editing = s.editing
             /\ t.dirty = s.dirty /\ t.current = s.current /\ t.cursor = s.cursor
             /\ t.edit_idx = s.edit_idx /\ t.presets = s.presets /\ t.live = s.live
             /\ t.form = s.form
  BY PushKeeps DEF Kept, StateFields

LEMMA PushPlays ==
  ASSUME NEW s, Shape(s), Clean(s), ~s.tuner, ~s.browsing, ~s.editing
  PROVE  Playing(PushPerformance(s)) /\ PushPerformance(s).presets = s.presets
  BY PushKeeps, PushFields, Zenon DEF Playing

(* Switching to a preset, in any mode.                                     *)
LEMMA SwitchKeeps ==
  ASSUME NEW s, Shape(s), NEW i \in Index
  PROVE  LET t == Switch(s, i)
         IN  /\ Shape(t) /\ Clean(t) /\ t.screen = PerformanceScreen(t)
             /\ t.tuner = s.tuner /\ t.browsing = s.browsing /\ t.editing = s.editing
             /\ t.presets = s.presets /\ t.form = s.form
<1> DEFINE u == [s EXCEPT !.current = i]
           a == Apply(u)
           v == [a EXCEPT !.dirty = FALSE]
<1>1. /\ DOMAIN u = StateFields /\ u.current = i
      /\ \A k \in StateFields \ {"current"} : u[k] = s[k]
  BY DEF Shape, StateFields
<1>2. /\ DOMAIN a = StateFields /\ a.live = Applied(s.live, s.presets[i])
      /\ \A k \in StateFields \ {"current", "live"} : a[k] = s[k]
      /\ a.current = i
  <2>1. /\ DOMAIN a = StateFields /\ a.live = Applied(u.live, u.presets[u.current])
        /\ \A k \in StateFields \ {"live"} : a[k] = u[k]
    BY <1>1 DEF Apply, StateFields
  <2>2. u.live = s.live /\ u.presets = s.presets
    BY <1>1 DEF StateFields
  <2> QED BY <1>1, <2>1, <2>2 DEF StateFields
<1>3. /\ DOMAIN v = StateFields /\ v.dirty = FALSE
      /\ v.live = Applied(s.live, s.presets[i]) /\ v.current = i
      /\ \A k \in StateFields \ {"current", "live", "dirty"} : v[k] = s[k]
  BY <1>2 DEF StateFields
<1>4. /\ v.tuner = s.tuner /\ v.browsing = s.browsing /\ v.editing = s.editing
      /\ v.cursor = s.cursor /\ v.edit_idx = s.edit_idx
      /\ v.presets = s.presets /\ v.form = s.form
  BY <1>3 DEF StateFields
<1>5. Heard(v.live, v.presets[v.current]) /\ DOMAIN v.live = LiveFields
  BY <1>3, <1>4, AppliedHeard
<1>6. Shape(v) /\ Clean(v)
  BY <1>3, <1>4, <1>5, Zenon DEF Shape, Clean
<1>7. Switch(s, i) = PushPerformance(v)
  BY DEF Switch
<1> HIDE DEF v
<1> QED BY <1>4, <1>6, <1>7, PushKeeps, PushFields

LEMMA SwitchPlays ==
  ASSUME NEW s, Shape(s), ~s.tuner, ~s.browsing, ~s.editing, NEW i \in Index
  PROVE  Playing(Switch(s, i)) /\ Switch(s, i).presets = s.presets
<1> DEFINE t == Switch(s, i)
<1>1. /\ Shape(t) /\ Clean(t) /\ t.screen = PerformanceScreen(t)
      /\ t.tuner = s.tuner /\ t.browsing = s.browsing /\ t.editing = s.editing
      /\ t.presets = s.presets
  BY SwitchKeeps
<1> QED BY <1>1, Zenon DEF Playing

-----------------------------------------------------------------------------
(* Performance mode.                                                       *)

LEMMA TurnPlays ==
  ASSUME NEW s, Playing(s), NEW d \in Int
  PROVE  /\ Playing(TurnGain(s, d)) /\ TurnGain(s, d).presets = s.presets
         /\ Playing(TurnEq(s, d)) /\ TurnEq(s, d).presets = s.presets
<1> DEFINE g == [s EXCEPT !.live.gain = Clamp(@ + d, 0, Top), !.dirty = TRUE]
           q == [s EXCEPT !.live.eq = Clamp(@ + d, 0, Top), !.dirty = TRUE]
<1>1. \A t \in {g, q} :
        /\ DOMAIN t = StateFields /\ DOMAIN t.live = LiveFields /\ t.dirty = TRUE
        /\ t.tuner = s.tuner /\ t.browsing = s.browsing /\ t.editing = s.editing
        /\ t.current = s.current /\ t.cursor = s.cursor /\ t.edit_idx = s.edit_idx
        /\ t.presets = s.presets /\ t.form = s.form
  BY DEF Playing, Shape, StateFields
<1>2. ASSUME NEW t \in {g, q}
      PROVE  Playing(PushPerformance(t)) /\ PushPerformance(t).presets = s.presets
  <2>1. Shape(t) /\ Clean(t) /\ ~t.tuner /\ ~t.browsing /\ ~t.editing
    BY <1>1, Zenon DEF Playing, Shape, Clean
  <2>2. t.presets = s.presets
    BY <1>1
  <2> HIDE DEF g, q
  <2> QED BY <2>1, <2>2, PushPlays
<1>3. TurnGain(s, d) \in {s, PushPerformance(g)} /\ TurnEq(s, d) \in {s, PushPerformance(q)}
  BY DEF TurnGain, TurnEq
<1> QED BY <1>2, <1>3

LEMMA TapsPlay ==
  ASSUME NEW s, Playing(s), NEW fs
  PROVE  /\ Playing(Taps(s, fs)) /\ Taps(s, fs).presets = s.presets
         /\ Playing(Revert(s, fs)) /\ Revert(s, fs).presets = s.presets
<1>1. s.current \in Index
  BY DEF Playing, Shape
<1>2. \A i \in Index : Playing(Switch(s, i)) /\ Switch(s, i).presets = s.presets
  BY SwitchPlays DEF Playing
<1>3. \/ Taps(s, fs) = s
      \/ Taps(s, fs) = Switch(s, (s.current + 1) % Count)
      \/ Taps(s, fs) = Switch(s, (s.current + Count - 1) % Count)
  BY DEF Taps
<1>4. Revert(s, fs) = s \/ Revert(s, fs) = Switch(s, s.current)
  BY DEF Revert
<1> QED BY <1>1, <1>2, <1>3, <1>4, AroundIndex

LEMMA ListOpens ==
  ASSUME NEW s, Playing(s), NEW click \in BOOLEAN
  PROVE  /\ EnterBrowse(s, click).presets = s.presets
         /\ IF click THEN Listing(EnterBrowse(s, click)) ELSE Playing(EnterBrowse(s, click))
<1>1. CASE ~click
  BY <1>1 DEF EnterBrowse
<1>2. CASE click
  <2> DEFINE t == EnterBrowse(s, click)
  <2>1. t = PushBrowse([s EXCEPT !.cursor = s.current, !.browsing = TRUE])
    BY <1>2 DEF EnterBrowse
  <2>2. /\ DOMAIN t = StateFields /\ t.cursor = s.current /\ t.browsing = TRUE
        /\ t.screen = [kind |-> "browse", cursor |-> s.current]
        /\ t.tuner = s.tuner /\ t.editing = s.editing /\ t.dirty = s.dirty
        /\ t.current = s.current /\ t.edit_idx = s.edit_idx
        /\ t.presets = s.presets /\ t.live = s.live /\ t.form = s.form
    BY <2>1 DEF PushBrowse, Playing, Shape, StateFields
  <2>3. Shape(t) /\ Clean(t)
    BY <2>2, Zenon DEF Playing, Shape, Clean
  <2> QED BY <1>2, <2>2, <2>3, Zenon DEF Playing, Listing
<1> QED BY <1>1, <1>2

(* One iteration in performance mode.                                      *)
LEMMA PerformingKinds ==
  ASSUME NEW s, Playing(s), NEW ev,
         ev.turn1 \in Int, ev.turn2 \in Int, ev.click \in BOOLEAN
  PROVE  /\ Performing(s, ev).presets = s.presets
         /\ IF ev.click THEN Listing(Performing(s, ev)) ELSE Playing(Performing(s, ev))
<1> DEFINE a == TurnGain(s, ev.turn1)
           b == TurnEq(a, ev.turn2)
           c == Taps(b, ev.fs)
           d == Revert(c, ev.fs)
<1>1. Playing(a) /\ a.presets = s.presets
  BY TurnPlays
<1>2. Playing(b) /\ b.presets = s.presets
  BY <1>1, TurnPlays
<1>3. Playing(c) /\ c.presets = s.presets
  BY <1>2, TapsPlay
<1>4. Playing(d) /\ d.presets = s.presets
  BY <1>3, TapsPlay
<1>5. Performing(s, ev) = EnterBrowse(d, ev.click)
  BY DEF Performing
<1> HIDE DEF d
<1> QED BY <1>4, <1>5, ListOpens

-----------------------------------------------------------------------------
(* Browse mode.                                                            *)

(* Leaving the list, for whichever mode the other flags select.            *)
LEMMA ListCloses ==
  ASSUME NEW s, Shape(s), Clean(s)
  PROVE  LET t == PushPerformance([s EXCEPT !.browsing = FALSE])
         IN  /\ Shape(t) /\ Clean(t) /\ t.screen = PerformanceScreen(t)
             /\ t.tuner = s.tuner /\ ~t.browsing /\ t.editing = s.editing
             /\ t.presets = s.presets /\ t.form = s.form
             /\ t.cursor = s.cursor /\ t.edit_idx = s.edit_idx
<1> DEFINE u == [s EXCEPT !.browsing = FALSE]
<1>1. /\ DOMAIN u = StateFields /\ u.browsing = FALSE
      /\ u.tuner = s.tuner /\ u.editing = s.editing /\ u.dirty = s.dirty
      /\ u.current = s.current /\ u.cursor = s.cursor /\ u.edit_idx = s.edit_idx
      /\ u.presets = s.presets /\ u.live = s.live /\ u.form = s.form
  BY DEF Shape, StateFields
<1>2. Shape(u) /\ Clean(u)
  BY <1>1, Zenon DEF Shape, Clean
<1> HIDE DEF u
<1> DEFINE t == PushPerformance(u)
<1>3. /\ Shape(t) /\ Clean(t) /\ t.screen = PerformanceScreen(t)
      /\ t.tuner = u.tuner /\ t.browsing = u.browsing /\ t.editing = u.editing
      /\ t.presets = u.presets /\ t.form = u.form
      /\ t.cursor = u.cursor /\ t.edit_idx = u.edit_idx
  BY <1>2, PushKeeps, PushFields
<1> HIDE DEF t
<1>4. /\ Shape(t) /\ Clean(t) /\ t.screen = PerformanceScreen(t)
      /\ t.tuner = s.tuner /\ ~t.browsing /\ t.editing = s.editing
      /\ t.presets = s.presets /\ t.form = s.form
      /\ t.cursor = s.cursor /\ t.edit_idx = s.edit_idx
  BY <1>1, <1>3
<1> QED BY <1>4 DEF t, u

LEMMA CursorMoves ==
  ASSUME NEW s, Listing(s), NEW d \in Int
  PROVE  /\ Listing(MoveCursor(s, d)) /\ MoveCursor(s, d).presets = s.presets
         /\ MoveCursor(s, d).current = s.current
<1> DEFINE t == MoveCursor(s, d)
           c == ClampIndex(s.cursor + d, Count)
<1>1. CASE d = 0
  BY <1>1 DEF MoveCursor
<1>2. CASE d # 0
  <2>1. c \in Index
    <3>1. s.cursor + d \in Int
      BY DEF Listing, Shape, Index
    <3> QED BY <3>1, ClampedIndex, PedalAssumption DEF Index
  <2> HIDE DEF c
  <2>2. t = PushBrowse([s EXCEPT !.cursor = c])
    BY <1>2 DEF MoveCursor, c
  <2>3. /\ DOMAIN t = StateFields /\ t.cursor = c
        /\ t.screen = [kind |-> "browse", cursor |-> c]
        /\ t.tuner = s.tuner /\ t.browsing = s.browsing /\ t.editing = s.editing
        /\ t.dirty = s.dirty /\ t.current = s.current /\ t.edit_idx = s.edit_idx
        /\ t.presets = s.presets /\ t.live = s.live /\ t.form = s.form
    BY <2>2 DEF PushBrowse, Listing, Shape, StateFields
  <2>4. Shape(t) /\ Clean(t)
    BY <2>1, <2>3, Zenon DEF Listing, Shape, Clean
  <2> QED BY <2>3, <2>4, Zenon DEF Listing
<1> QED BY <1>1, <1>2

LEMMA PickPlays ==
  ASSUME NEW s, Listing(s), NEW click \in BOOLEAN
  PROVE  /\ Pick(s, click).presets = s.presets
         /\ IF click THEN Playing(Pick(s, click)) ELSE Pick(s, click) = s
<1>1. CASE ~click
  BY <1>1 DEF Pick
<1>2. CASE click
  <2> DEFINE u == IF s.cursor = s.current THEN s ELSE Switch(s, s.cursor)
             t == PushPerformance([u EXCEPT !.browsing = FALSE])
  <2>1. /\ Shape(u) /\ Clean(u)
        /\ u.tuner = s.tuner /\ u.editing = s.editing /\ u.presets = s.presets
    <3>1. Shape(s) /\ Clean(s) /\ s.cursor \in Index
      BY DEF Listing, Shape
    <3> QED BY <3>1, SwitchKeeps
  <2>2. Pick(s, click) = t
    BY <1>2 DEF Pick
  <2> HIDE DEF u
  <2>3. /\ Shape(t) /\ Clean(t) /\ t.screen = PerformanceScreen(t)
        /\ t.tuner = u.tuner /\ ~t.browsing /\ t.editing = u.editing
        /\ t.presets = u.presets
    BY <2>1, ListCloses
  <2> HIDE DEF t
  <2>4. Playing(t)
    BY <2>1, <2>3, Zenon DEF Playing, Listing
  <2> QED BY <1>2, <2>1, <2>2, <2>3, <2>4
<1> QED BY <1>1, <1>2

(* The form that opens is a copy of the preset under the cursor.           *)
FormOf(p) ==
  [model     |-> p.model, ir |-> p.ir,
   gain      |-> p.gain,  bypass |-> p.bypass,
   model_idx |-> Position(Models, p.model, 1) - 1,
   ir_idx    |-> Position(Irs, p.ir, 0),
   field     |-> 1, editing |-> FALSE]

LEMMA FormOpens ==
  ASSUME NEW s, Listing(s)
  PROVE  LET t == OpenForm(s, TRUE)
         IN  /\ Forming(t) /\ t.presets = s.presets
             /\ t.edit_idx = s.cursor /\ t.cursor = s.cursor
             /\ t.form = FormOf(s.presets[s.cursor])
<1> DEFINE t == OpenForm(s, TRUE)
           u == [s EXCEPT !.browsing = FALSE, !.editing = TRUE]
           f == FormOf(s.presets[s.cursor])
<1>1. /\ DOMAIN u = StateFields /\ u.presets = s.presets /\ u.cursor = s.cursor
      /\ u.browsing = FALSE /\ u.editing = TRUE
      /\ u.tuner = s.tuner /\ u.dirty = s.dirty /\ u.current = s.current /\ u.live = s.live
      /\ u.form = s.form /\ u.edit_idx = s.edit_idx
  BY DEF Listing, Shape, StateFields
<1>2. t = ShowEdit([u EXCEPT !.edit_idx = s.cursor, !.form = f])
  <2>1. t = PushEdit(u, s.cursor)
    BY DEF OpenForm
  <2> QED BY <1>1, <2>1 DEF PushEdit, FormOf
<1>3. DOMAIN f = FormFields /\ f.field = 1
  BY DEF FormOf, FormFields
<1> HIDE DEF t, u, f
<1>4. /\ DOMAIN t = StateFields /\ t.edit_idx = s.cursor /\ t.form = f
      /\ t.screen = [kind |-> "edit", form |-> f]
      /\ t.tuner = u.tuner /\ t.browsing = u.browsing /\ t.editing = u.editing
      /\ t.dirty = u.dirty /\ t.current = u.current /\ t.cursor = u.cursor
      /\ t.presets = u.presets /\ t.live = u.live
  BY <1>1, <1>2 DEF ShowEdit, StateFields
<1>5. 1 \in 1..Len(Fields)
  BY PedalAssumption
<1>6. Shape(t) /\ Clean(t)
  BY <1>1, <1>3, <1>4, <1>5, Zenon DEF Listing, Shape, Clean
<1>7. Forming(t)
  BY <1>1, <1>4, <1>6, Zenon DEF Listing, Forming
<1> QED BY <1>1, <1>4, <1>7 DEF t, f

LEMMA LeavesList ==
  ASSUME NEW s, NEW fs
  PROVE  LET t == LeaveBrowse(s, fs)
         IN  /\ Playing(s) => Playing(t) /\ t.presets = s.presets
             /\ Listing(s) => ((Listing(t) /\ t = s) \/ Playing(t)) /\ t.presets = s.presets
             /\ Forming(s) => /\ Forming(t) /\ t.presets = s.presets /\ t.form = s.form
                              /\ t.cursor = s.cursor /\ t.edit_idx = s.edit_idx
<1> DEFINE t == PushPerformance([s EXCEPT !.browsing = FALSE])
<1>1. LeaveBrowse(s, fs) \in {s, t}
  BY DEF LeaveBrowse
<1>2. ASSUME Shape(s), Clean(s)
      PROVE  /\ Shape(t) /\ Clean(t) /\ t.screen = PerformanceScreen(t)
             /\ t.tuner = s.tuner /\ ~t.browsing /\ t.editing = s.editing
             /\ t.presets = s.presets /\ t.form = s.form
             /\ t.cursor = s.cursor /\ t.edit_idx = s.edit_idx
  BY <1>2, ListCloses
<1> HIDE DEF t
<1>3. Playing(s) \/ Listing(s) => Playing(t) /\ t.presets = s.presets
  BY <1>2, Zenon DEF Playing, Listing
<1>4. Forming(s) => /\ Forming(t) /\ t.presets = s.presets /\ t.form = s.form
                    /\ t.cursor = s.cursor /\ t.edit_idx = s.edit_idx
  BY <1>2, Zenon DEF Forming
<1> QED BY <1>1, <1>3, <1>4

(* One iteration in browse mode.                                           *)
LEMMA BrowsingKinds ==
  ASSUME NEW s, Listing(s), NEW ev,
         ev.turn1 \in Int, ev.click \in BOOLEAN, ev.long \in BOOLEAN, ~(ev.click /\ ev.long)
  PROVE  LET t == Browsing(s, ev)
         IN  /\ t.presets = s.presets
             /\ Playing(t) \/ Listing(t) \/ Forming(t)
             /\ ev.click => Playing(t)
             /\ Listing(t) => t.current = s.current
             /\ Forming(t) => /\ ev.long /\ t.edit_idx = t.cursor
                              /\ t.form = FormOf(s.presets[t.edit_idx])
<1> DEFINE a == MoveCursor(s, ev.turn1)
           b == Pick(a, ev.click)
           c == OpenForm(b, ev.long)
           t == LeaveBrowse(c, ev.fs)
<1>1. Listing(a) /\ a.presets = s.presets /\ a.current = s.current
  BY CursorMoves
<1>2. b.presets = s.presets /\ IF ev.click THEN Playing(b) ELSE b = a
  BY <1>1, PickPlays
<1>3. Browsing(s, ev) = t
  BY DEF Browsing
<1>4. \A x : Playing(x) => ~Listing(x) /\ ~Forming(x)
  BY Zenon DEF Playing, Listing, Forming
<1>5. \A x : Listing(x) => ~Forming(x)
  BY Zenon DEF Listing, Forming
<1> HIDE DEF a, b
<1>6. CASE ev.long
  <2>1. b = a
    BY <1>2, <1>6
  <2>2. c = OpenForm(a, TRUE)
    BY <1>6, <2>1 DEF c, OpenForm
  <2>3. /\ Forming(c) /\ c.presets = s.presets
        /\ c.edit_idx = c.cursor /\ c.form = FormOf(s.presets[c.edit_idx])
    BY <1>1, <2>2, FormOpens
  <2> HIDE DEF c
  <2>4. /\ Forming(t) /\ t.presets = s.presets
        /\ t.edit_idx = t.cursor /\ t.form = FormOf(s.presets[t.edit_idx])
    BY <2>3, LeavesList
  <2> QED BY <1>3, <1>5, <1>6, <2>4
<1>7. CASE ~ev.long
  <2>1. c = b
    BY <1>7 DEF c, OpenForm
  <2> HIDE DEF c
  <2>2. CASE ev.click
    BY <1>2, <1>3, <1>4, <2>1, <2>2, LeavesList
  <2>3. CASE ~ev.click
    <3>1. /\ (Listing(t) /\ t = c) \/ Playing(t)
          /\ t.presets = s.presets /\ c.current = s.current
      BY <1>1, <1>2, <2>1, <2>3, LeavesList
    <3> QED BY <1>3, <1>4, <1>5, <2>3, <3>1
  <2> QED BY <2>2, <2>3
<1> QED BY <1>6, <1>7

-----------------------------------------------------------------------------
(* Edit mode.                                                              *)

FormShape(f) == DOMAIN f = FormFields /\ f.field \in 1..Len(Fields)

(* The form takes the events: all that could be heard or stored stays.     *)
Private(s, t) ==
  /\ t.presets = s.presets /\ t.live = s.live
  /\ t.current = s.current /\ t.dirty = s.dirty

LEMMA FormShown ==
  ASSUME NEW s, Forming(s), NEW f, FormShape(f)
  PROVE  LET t == ShowEdit([s EXCEPT !.form = f])
         IN  Forming(t) /\ Private(s, t) /\ t.edit_idx = s.edit_idx /\ t.form = f
<1> DEFINE t == ShowEdit([s EXCEPT !.form = f])
<1>1. /\ DOMAIN t = StateFields /\ t.form = f
      /\ t.screen = [kind |-> "edit", form |-> f]
      /\ t.tuner = s.tuner /\ t.browsing = s.browsing /\ t.editing = s.editing
      /\ t.dirty = s.dirty /\ t.current = s.current /\ t.cursor = s.cursor
      /\ t.edit_idx = s.edit_idx /\ t.presets = s.presets /\ t.live = s.live
  BY DEF ShowEdit, Forming, Shape, StateFields
<1>2. Shape(t) /\ Clean(t)
  BY <1>1, Zenon DEF Forming, Shape, Clean, FormShape
<1> QED BY <1>1, <1>2, Zenon DEF Forming, Private

(* The names of a form are those its indices show, and flash has them.     *)
Found(model, ir) ==
  /\ IF Models = <<>> THEN model = Null ELSE model \in ToSet(Models)
  /\ ir \in ToSet(Irs) \cup {Null}

NamesAgree(f) ==
  /\ f.model_idx \in Int /\ f.model = ModelAt(f.model_idx)
  /\ f.ir_idx \in Int /\ f.ir = IrAt(f.ir_idx)
  /\ Found(f.model, f.ir)

LEMMA ListsAreSequences ==
  /\ Len(Models) \in Nat /\ DOMAIN Models = 1..Len(Models)
  /\ Len(Irs) \in Nat /\ DOMAIN Irs = 1..Len(Irs)
  /\ Models = <<>> <=> Len(Models) = 0
  BY PedalAssumption

(* A lookup finds the first place of a name that is in the list.           *)
LEMMA PositionFinds ==
  ASSUME NEW S, NEW list \in Seq(S), NEW name \in ToSet(list), NEW fallback
  PROVE  /\ Position(list, name, fallback) \in 1..Len(list)
         /\ list[Position(list, name, fallback)] = name
<1> DEFINE T == {i \in 1..Len(list) : list[i] = name}
<1>1. T \subseteq Nat /\ T # {}
  BY DEF ToSet
<1>2. PICK i \in T : \A j \in T : ~(j < i)
  <2>1. PICK i \in T : \A j \in T : <<j, i>> \notin OpToRel(<, Nat)
    BY <1>1, WFMin, NatLessThanWellFounded
  <2>2. \A j \in T : j < i => <<j, i>> \in OpToRel(<, Nat)
    BY <1>1 DEF OpToRel
  <2> QED BY <2>1, <2>2, Zenon
<1>3. \A j \in 1..(i - 1) : list[j] # name
  <2> SUFFICES ASSUME NEW j \in 1..(i - 1), list[j] = name PROVE FALSE
    OBVIOUS
  <2>1. Len(list) \in Nat /\ i \in 1..Len(list)
    BY <1>2
  <2>2. j \in 1..Len(list) /\ j < i
    BY <2>1
  <2> QED BY <1>2, <2>2
<1>4. \E k \in 1..Len(list) : list[k] = name /\ \A j \in 1..(k - 1) : list[j] # name
  BY <1>2, <1>3
<1> QED BY <1>4 DEF Position

(* A form that opens for a preset whose names are found shows them.        *)
LEMMA NamesOpen ==
  ASSUME NEW p, Found(p.model, p.ir)
  PROVE  NamesAgree(FormOf(p))
<1> DEFINE f == FormOf(p)
           m == Position(Models, p.model, 1)
           c == Position(Irs, p.ir, 0)
<1>1. /\ f.model = p.model /\ f.ir = p.ir /\ f.model_idx = m - 1 /\ f.ir_idx = c
  BY DEF FormOf
<1>2. m - 1 \in Int /\ p.model = ModelAt(m - 1)
  <2>1. CASE Models = <<>>
    <3>1. DOMAIN Models = {} /\ p.model = Null
      BY <2>1, ListsAreSequences DEF Found
    <3>2. m = 1
      BY <3>1 DEF Position, ToSet
    <3> QED BY <3>1, <3>2 DEF ModelAt
  <2>2. CASE Models # <<>>
    <3>1. p.model \in ToSet(Models)
      BY <2>2 DEF Found
    <3>2. m \in 1..Len(Models) /\ Models[m] = p.model
      BY <3>1, PositionFinds, PedalAssumption
    <3> HIDE DEF m
    <3> QED BY <3>2, ListsAreSequences DEF ModelAt
  <2> QED BY <2>1, <2>2
<1>3. c \in Int /\ p.ir = IrAt(c)
  <2>1. CASE p.ir \in ToSet(Irs)
    <3>1. c \in 1..Len(Irs) /\ Irs[c] = p.ir
      BY <2>1, PositionFinds, PedalAssumption
    <3> HIDE DEF c
    <3> QED BY <3>1, ListsAreSequences DEF IrAt
  <2>2. CASE p.ir \notin ToSet(Irs)
    <3>1. c = 0 /\ p.ir = Null
      BY <2>2 DEF Position, Found
    <3> QED BY <3>1, ListsAreSequences DEF IrAt
  <2> QED BY <2>1, <2>2
<1> HIDE DEF f, m, c
<1>4. NamesAgree(f)
  BY <1>1, <1>2, <1>3 DEF NamesAgree
<1> QED BY <1>4 DEF f

(* A turn on a field of the form keeps its shape and its names true.       *)
LEMMA ValueChanges ==
  ASSUME NEW f, FormShape(f), NEW d \in Int
  PROVE  /\ FormShape(ChangeValue(f, d))
         /\ NamesAgree(f) => NamesAgree(ChangeValue(f, d))
<1>1. Fields[f.field] \in {"model", "cab", "gain", "bypass"}
  BY PedalAssumption DEF FormShape
<1>2. CASE Fields[f.field] = "model"
  <2> DEFINE i == ClampIndex(f.model_idx + d, Len(Models))
             g == ChangeModel(f, d)
  <2>1. /\ DOMAIN g = FormFields /\ g.model_idx = i
        /\ g.model = (IF i + 1 \in DOMAIN Models THEN Models[i + 1] ELSE f.model)
        /\ g.ir = f.ir /\ g.ir_idx = f.ir_idx /\ g.field = f.field
    BY DEF ChangeModel, FormShape, FormFields
  <2>2. ASSUME NamesAgree(f) PROVE NamesAgree(g)
    <3>1. f.model_idx + d \in Int
      BY <2>2 DEF NamesAgree
    <3>2. CASE Models = <<>>
      <4>1. DOMAIN Models = {} /\ Len(Models) = 0
        BY <3>2, ListsAreSequences
      <4>2. i \in Int
        BY <3>1, <4>1 DEF ClampIndex, Byte
      <4> HIDE DEF i, g
      <4>3. g.model = f.model /\ f.model = Null /\ ModelAt(i) = Null
        BY <2>1, <2>2, <3>2, <4>1 DEF NamesAgree, Found, ModelAt
      <4> QED BY <2>1, <2>2, <4>2, <4>3 DEF NamesAgree
    <3>3. CASE Models # <<>>
      <4>1. i \in 0..(Len(Models) - 1)
        BY <3>1, <3>3, ClampedIndex, ListsAreSequences
      <4> HIDE DEF i, g
      <4>2. i \in Int /\ i + 1 \in DOMAIN Models
        BY <4>1, ListsAreSequences
      <4>3. g.model = Models[i + 1] /\ g.model = ModelAt(i) /\ g.model \in ToSet(Models)
        BY <2>1, <4>2 DEF ModelAt, ToSet
      <4> QED BY <2>1, <2>2, <3>3, <4>2, <4>3 DEF NamesAgree, Found
    <3> QED BY <3>2, <3>3
  <2>3. ChangeValue(f, d) = g
    BY <1>2 DEF ChangeValue
  <2> HIDE DEF g
  <2> QED BY <2>1, <2>2, <2>3 DEF FormShape
<1>3. CASE Fields[f.field] = "cab"
  <2> DEFINE i == ClampIndex(f.ir_idx + d, Len(Irs) + 1)
             g == ChangeCab(f, d)
  <2>1. /\ DOMAIN g = FormFields /\ g.ir_idx = i /\ g.ir = IrAt(i)
        /\ g.model = f.model /\ g.model_idx = f.model_idx /\ g.field = f.field
    BY DEF ChangeCab, FormShape, FormFields
  <2>2. ASSUME NamesAgree(f) PROVE NamesAgree(g)
    <3>1. f.ir_idx + d \in Int /\ Len(Irs) + 1 \in Nat \ {0}
      BY <2>2, ListsAreSequences DEF NamesAgree
    <3>2. i \in Int
      <4> DEFINE n == Len(Irs) + 1
                 v == f.ir_idx + d
      <4>1. v \in Int /\ n \in Nat \ {0}
        BY <3>1
      <4> HIDE DEF v, n
      <4>2. ClampIndex(v, n) \in Int
        BY <4>1, ClampedIndex
      <4> QED BY <4>2 DEF v, n
    <3> HIDE DEF i, g
    <3>3. IrAt(i) \in ToSet(Irs) \cup {Null}
      BY DEF IrAt, ToSet
    <3> QED BY <2>1, <2>2, <3>2, <3>3 DEF NamesAgree, Found
  <2>3. ChangeValue(f, d) = g
    BY <1>3 DEF ChangeValue
  <2> HIDE DEF g
  <2> QED BY <2>1, <2>2, <2>3 DEF FormShape
<1>4. CASE Fields[f.field] \in {"gain", "bypass"}
  <2> DEFINE g == ChangeValue(f, d)
  <2>1. /\ DOMAIN g = FormFields /\ g.field = f.field
        /\ g.model = f.model /\ g.model_idx = f.model_idx
        /\ g.ir = f.ir /\ g.ir_idx = f.ir_idx
    BY <1>4 DEF ChangeValue, FormShape, FormFields
  <2> HIDE DEF g
  <2>2. FormShape(g) /\ (NamesAgree(f) => NamesAgree(g))
    BY <2>1 DEF FormShape, NamesAgree
  <2> QED BY <2>2 DEF g
<1> QED BY <1>1, <1>2, <1>3, <1>4

(* Turns and clicks stay in the form.                                      *)
LEMMA FormStays ==
  ASSUME NEW s, Forming(s), NEW d \in Int, NEW click \in BOOLEAN
  PROVE  LET t == ClickInForm(TurnInForm(s, d), click)
         IN  /\ Forming(t) /\ Private(s, t) /\ t.edit_idx = s.edit_idx
             /\ NamesAgree(s.form) => NamesAgree(t.form)
<1> DEFINE f == IF s.form.editing THEN ChangeValue(s.form, d)
                ELSE MoveField(s.form, d)
           a == TurnInForm(s, d)
           g == [a.form EXCEPT !.editing = ~@]
           t == ClickInForm(a, click)
<1>1. FormShape(s.form)
  BY DEF Forming, Shape, FormShape
<1>2. FormShape(f) /\ (NamesAgree(s.form) => NamesAgree(f))
  <2>1. CASE s.form.editing
    BY <1>1, <2>1, ValueChanges
  <2>2. CASE ~s.form.editing
    <3>1. Clamp(s.form.field + d, 1, Len(Fields)) \in 1..Len(Fields)
      <4>1. s.form.field + d \in Int /\ Len(Fields) \in Nat /\ Len(Fields) >= 1
        BY <1>1, PedalAssumption DEF FormShape
      <4> QED BY <4>1 DEF Clamp
    <3>2. /\ DOMAIN f = FormFields /\ f.field \in 1..Len(Fields)
          /\ f.model = s.form.model /\ f.model_idx = s.form.model_idx
          /\ f.ir = s.form.ir /\ f.ir_idx = s.form.ir_idx
      BY <1>1, <2>2, <3>1 DEF MoveField, FormShape, FormFields
    <3> QED BY <3>2 DEF FormShape, NamesAgree
  <2> QED BY <2>1, <2>2
<1>3. a = s \/ a = ShowEdit([s EXCEPT !.form = f])
  BY DEF TurnInForm
<1> HIDE DEF f
<1>4. /\ Forming(a) /\ Private(s, a) /\ a.edit_idx = s.edit_idx
      /\ NamesAgree(s.form) => NamesAgree(a.form)
  <2>1. CASE a = s
    BY <2>1 DEF Private
  <2>2. CASE a = ShowEdit([s EXCEPT !.form = f])
    BY <1>2, <2>2, FormShown
  <2> QED BY <1>3, <2>1, <2>2
<1> HIDE DEF a
<1>5. FormShape(g) /\ (NamesAgree(a.form) => NamesAgree(g))
  <2>1. FormShape(a.form)
    BY <1>4 DEF Forming, Shape, FormShape
  <2>2. /\ DOMAIN g = FormFields /\ g.field = a.form.field
        /\ g.model = a.form.model /\ g.model_idx = a.form.model_idx
        /\ g.ir = a.form.ir /\ g.ir_idx = a.form.ir_idx
    BY <2>1 DEF FormShape, FormFields
  <2> QED BY <2>1, <2>2 DEF FormShape, NamesAgree
<1>6. t = a \/ t = ShowEdit([a EXCEPT !.form = g])
  BY DEF ClickInForm
<1> HIDE DEF g
<1>7. /\ Forming(t) /\ Private(a, t) /\ t.edit_idx = a.edit_idx
      /\ NamesAgree(a.form) => NamesAgree(t.form)
  <2>1. CASE t = a
    BY <1>4, <2>1 DEF Private
  <2>2. CASE t = ShowEdit([a EXCEPT !.form = g])
    BY <1>4, <1>5, <2>2, FormShown
  <2> QED BY <1>6, <2>1, <2>2
<1> HIDE DEF t
<1>8. /\ Forming(t) /\ Private(s, t) /\ t.edit_idx = s.edit_idx
      /\ NamesAgree(s.form) => NamesAgree(t.form)
  BY <1>4, <1>7 DEF Private
<1> QED BY <1>8 DEF t, a

(* Leaving the form.                                                       *)
LEMMA FormCloses ==
  ASSUME NEW s, Shape(s), Clean(s), ~s.tuner, ~s.browsing
  PROVE  LET t == PushPerformance([s EXCEPT !.editing = FALSE])
         IN  /\ Playing(t) /\ Private(s, t) /\ t.form = s.form
<1> DEFINE u == [s EXCEPT !.editing = FALSE]
           t == PushPerformance(u)
<1>1. /\ DOMAIN u = StateFields /\ u.editing = FALSE
      /\ u.tuner = s.tuner /\ u.browsing = s.browsing /\ u.dirty = s.dirty
      /\ u.current = s.current /\ u.cursor = s.cursor /\ u.edit_idx = s.edit_idx
      /\ u.presets = s.presets /\ u.live = s.live /\ u.form = s.form
  BY DEF Shape, StateFields
<1>2. Shape(u) /\ Clean(u)
  BY <1>1, Zenon DEF Shape, Clean
<1> HIDE DEF u
<1>3. /\ Playing(t) /\ t.presets = u.presets /\ t.live = u.live
      /\ t.current = u.current /\ t.dirty = u.dirty /\ t.form = u.form
  BY <1>1, <1>2, PushPlays, PushFields
<1> HIDE DEF t
<1>4. /\ Playing(t) /\ Private(s, t) /\ t.form = s.form
  BY <1>1, <1>3 DEF Private
<1> QED BY <1>4 DEF t, u

(* FS1: the preset that the form was opened for, and no other, is the form *)
(* now, plays, and is marked.                                              *)
Adopted(s, t) ==
  LET i == s.edit_idx  p == t.presets[i]  f == t.form IN
  /\ ~t.editing /\ t.current = i /\ t.dirty
  /\ <<p.model, p.ir, p.gain, p.bypass>> = <<f.model, f.ir, f.gain, f.bypass>>
  /\ \A j \in Index \ {i} : t.presets[j] = s.presets[j]
  /\ Heard(t.live, p)

LEMMA FormApplies ==
  ASSUME NEW s, Forming(s)
  PROVE  LET t == ApplyForm(s, {"fs1_tap"})
         IN  Playing(t) /\ Adopted(s, t) /\ t.form = s.form
<1> DEFINE i == s.edit_idx
           r == Formed(s)
           u == [s EXCEPT !.presets[i] = r, !.current = i]
           a == Apply(u)
           v == [a EXCEPT !.dirty = TRUE, !.editing = FALSE]
           t == PushPerformance(v)
<1>1. i \in Index /\ DOMAIN s.presets = Index /\ DOMAIN s = StateFields
  BY DEF Forming, Shape
<1>2. /\ DOMAIN u = StateFields /\ u.current = i /\ DOMAIN u.presets = Index
      /\ u.presets[i] = r /\ \A j \in Index \ {i} : u.presets[j] = s.presets[j]
      /\ \A k \in StateFields \ {"presets", "current"} : u[k] = s[k]
  BY <1>1 DEF StateFields
<1> HIDE DEF r, u
<1>3. /\ DOMAIN a = StateFields /\ a.live = Applied(u.live, u.presets[u.current])
      /\ \A k \in StateFields \ {"live"} : a[k] = u[k]
  BY <1>2 DEF Apply, StateFields
<1> HIDE DEF a
<1>4. /\ DOMAIN v = StateFields /\ v.dirty = TRUE /\ v.editing = FALSE
      /\ \A k \in StateFields \ {"dirty", "editing"} : v[k] = a[k]
  BY <1>3 DEF StateFields
<1> HIDE DEF v
<1>5. /\ v.presets = u.presets /\ v.current = i /\ v.live = Applied(u.live, r)
      /\ v.tuner = s.tuner /\ v.browsing = s.browsing /\ v.cursor = s.cursor
      /\ v.edit_idx = s.edit_idx /\ v.form = s.form
  BY <1>2, <1>3, <1>4 DEF StateFields
<1>6. Heard(v.live, r) /\ DOMAIN v.live = LiveFields
  BY <1>5, AppliedHeard
<1>7. Shape(v) /\ Clean(v) /\ ~v.tuner /\ ~v.browsing /\ ~v.editing
  BY <1>1, <1>2, <1>4, <1>5, <1>6, Zenon DEF Forming, Shape, Clean
<1>8. /\ Playing(t) /\ t.presets = v.presets /\ t.live = v.live /\ t.form = v.form
      /\ t.current = v.current /\ t.dirty = v.dirty /\ t.editing = v.editing
  BY <1>7, PushPlays, PushFields
<1> HIDE DEF t
<1>9. Adopted(s, t) /\ t.form = s.form
  <2>1. /\ r.model = s.form.model /\ r.ir = s.form.ir
        /\ r.gain = s.form.gain /\ r.bypass = s.form.bypass
    BY DEF r, Formed
  <2>2. t.form = s.form /\ t.presets = u.presets /\ t.presets[s.edit_idx] = r
    BY <1>2, <1>5, <1>8
  <2>3. ~t.editing /\ t.current = s.edit_idx /\ t.dirty
    BY <1>4, <1>5, <1>8, Zenon
  <2>4. \A j \in Index \ {s.edit_idx} : t.presets[j] = s.presets[j]
    BY <1>2, <2>2
  <2>5. Heard(t.live, t.presets[s.edit_idx])
    BY <1>6, <1>8, <2>2
  <2> QED BY <2>1, <2>2, <2>3, <2>4, <2>5, Zenon DEF Adopted
<1>10. ApplyForm(s, {"fs1_tap"}) = t
  BY DEF ApplyForm, t, v, a, u, r
<1> QED BY <1>8, <1>9, <1>10

-----------------------------------------------------------------------------
(* The loop.                                                               *)

(* Forgetting what is dead, and the refresh at the end, change no kind.    *)
LEMMA ForgetPlays ==
  ASSUME NEW s, Playing(s)
  PROVE  Playing(Forget(s)) /\ Forget(s).presets = s.presets
<1> DEFINE t == Forget(s)
<1>1. /\ DOMAIN t = StateFields /\ t.form = NoForm /\ t.edit_idx = 0 /\ t.cursor = s.current
      /\ t.tuner = s.tuner /\ t.browsing = s.browsing /\ t.editing = s.editing
      /\ t.dirty = s.dirty /\ t.current = s.current /\ t.screen = s.screen
      /\ t.presets = s.presets /\ t.live = s.live
  BY DEF Forget, Playing, Shape, StateFields
<1>2. DOMAIN NoForm = FormFields /\ NoForm.field = 1
  BY DEF NoForm, FormFields
<1>3. 0 \in Index /\ 1 \in 1..Len(Fields)
  BY PedalAssumption DEF Index
<1> HIDE DEF t
<1>4. Shape(t) /\ Clean(t)
  BY <1>1, <1>2, <1>3, Zenon DEF Playing, Shape, Clean
<1>5. PerformanceScreen(t) = PerformanceScreen(s)
  BY <1>1, Zenon DEF PerformanceScreen
<1>6. Playing(t) /\ t.presets = s.presets
  BY <1>1, <1>4, <1>5, Zenon DEF Playing
<1> QED BY <1>6 DEF t

LEMMA ForgetPlacePlays ==
  ASSUME NEW s, Playing(s)
  PROVE  LET t == ForgetPlace(s)
         IN  /\ Playing(t) /\ Private(s, t)
             /\ t.form.model = s.form.model /\ t.form.ir = s.form.ir
             /\ t.form.gain = s.form.gain /\ t.form.bypass = s.form.bypass
<1> DEFINE t == ForgetPlace(s)
           g == [s.form EXCEPT !.field = 1, !.editing = FALSE, !.model_idx = 0, !.ir_idx = 0]
<1>1. t = [s EXCEPT !.form = g]
  BY DEF ForgetPlace, Playing
<1>2. /\ DOMAIN t = StateFields
      /\ t.tuner = s.tuner /\ t.browsing = s.browsing /\ t.editing = s.editing
      /\ t.dirty = s.dirty /\ t.current = s.current /\ t.screen = s.screen
      /\ t.presets = s.presets /\ t.live = s.live
      /\ t.cursor = s.cursor /\ t.edit_idx = s.edit_idx /\ t.form = g
  BY <1>1 DEF Playing, Shape, StateFields
<1>3. /\ DOMAIN g = FormFields /\ g.field = 1
      /\ g.model = s.form.model /\ g.ir = s.form.ir
      /\ g.gain = s.form.gain /\ g.bypass = s.form.bypass
  BY DEF Playing, Shape, FormFields
<1>4. 1 \in 1..Len(Fields)
  BY PedalAssumption
<1> HIDE DEF t, g
<1>5. Shape(t) /\ Clean(t)
  BY <1>2, <1>3, <1>4, Zenon DEF Playing, Shape, Clean
<1>6. PerformanceScreen(t) = PerformanceScreen(s)
  BY <1>2, Zenon DEF PerformanceScreen
<1>7. Playing(t) /\ Private(s, t)
  BY <1>2, <1>5, <1>6, Zenon DEF Playing, Private
<1> QED BY <1>2, <1>3, <1>7 DEF t

LEMMA RefreshKeeps ==
  ASSUME NEW s, NEW due
  PROVE  LET t == Refresh(s, due)
         IN  /\ Playing(s) => Playing(t) /\ Private(s, t) /\ t.form = s.form
             /\ Listing(s) \/ Forming(s) => t = s
<1>1. ASSUME Playing(s)
      PROVE  LET t == Refresh(s, due) IN Playing(t) /\ Private(s, t) /\ t.form = s.form
  <2>1. Refresh(s, due) = s \/ Refresh(s, due) = PushPerformance(s)
    BY DEF Refresh
  <2>2. Shape(s) /\ Clean(s) /\ ~s.tuner /\ ~s.browsing /\ ~s.editing
    BY <1>1 DEF Playing
  <2> QED BY <1>1, <2>1, <2>2, PushPlays, PushFields DEF Private
<1>2. Listing(s) \/ Forming(s) => Refresh(s, due) = s
  BY DEF Refresh, Listing, Forming
<1> QED BY <1>1, <1>2

(* One iteration in edit mode: the form stays private, closes and nothing  *)
(* has changed, or is adopted.                                             *)
LEMMA EditingKinds ==
  ASSUME NEW s, Forming(s), NEW ev, ev.turn1 \in Int, ev.click \in BOOLEAN, NEW due
  PROVE  LET t == Refresh(ForgetPlace(Editing(s, ev)), due)
         IN  \/ /\ Forming(t) /\ Private(s, t)
                /\ NamesAgree(s.form) => NamesAgree(t.form)
             \/ Playing(t) /\ Private(s, t)
             \/ /\ Playing(t) /\ Adopted(s, t)
                /\ NamesAgree(s.form) => Found(t.form.model, t.form.ir)
<1> DEFINE b == ClickInForm(TurnInForm(s, ev.turn1), ev.click)
           c == ApplyForm(b, ev.fs)
           d == DiscardForm(c, ev.fs)
           e == ForgetPlace(d)
           t == Refresh(e, due)
<1>1. /\ Forming(b) /\ Private(s, b) /\ b.edit_idx = s.edit_idx
      /\ NamesAgree(s.form) => NamesAgree(b.form)
  BY FormStays
<1> HIDE DEF b
<1>2. \/ c = b
      \/ Playing(c) /\ Adopted(s, c) /\ c.form = b.form
  <2>1. c = b \/ c = ApplyForm(b, {"fs1_tap"})
    BY DEF ApplyForm
  <2>2. Adopted(b, ApplyForm(b, {"fs1_tap"})) => Adopted(s, ApplyForm(b, {"fs1_tap"}))
    BY <1>1, Zenon DEF Adopted, Private
  <2> QED BY <1>1, <2>1, <2>2, FormApplies
<1> HIDE DEF c
<1>3. Shape(c) /\ Clean(c) /\ ~c.tuner /\ ~c.browsing
  BY <1>1, <1>2 DEF Playing, Forming
<1>4. d = c \/ (Playing(d) /\ Private(c, d) /\ d.form = c.form)
  BY <1>3, FormCloses DEF DiscardForm
<1> HIDE DEF d
<1>5. ASSUME NEW x, NEW y, Adopted(s, x), Private(x, y), ~y.editing,
             y.form.model = x.form.model, y.form.ir = x.form.ir,
             y.form.gain = x.form.gain, y.form.bypass = x.form.bypass
      PROVE  Adopted(s, y)
  BY <1>5, Zenon DEF Private, Adopted
<1>6. CASE Forming(d)
  <2>1. d = b
    BY <1>2, <1>4, <1>6, Zenon DEF Playing, Forming
  <2>2. e = d
    BY <1>6 DEF ForgetPlace, Forming
  <2>3. t = b
    BY <1>1, <2>1, <2>2, RefreshKeeps
  <2> QED BY <1>1, <2>3 DEF Editing, b, c, d
<1>7. CASE Playing(d)
  <2>1. /\ Playing(e) /\ Private(d, e)
        /\ e.form.model = d.form.model /\ e.form.ir = d.form.ir
        /\ e.form.gain = d.form.gain /\ e.form.bypass = d.form.bypass
    BY <1>7, ForgetPlacePlays
  <2> HIDE DEF e
  <2>2. Playing(t) /\ Private(e, t) /\ t.form = e.form
    BY <2>1, RefreshKeeps
  <2> HIDE DEF t
  <2>3. Private(d, t)
    BY <2>1, <2>2, Zenon DEF Private
  <2>4. CASE c = b
    <3>1. Private(s, d)
      BY <1>1, <1>4, <2>4, Zenon DEF Private
    <3>2. Private(s, t)
      BY <2>3, <3>1, Zenon DEF Private
    <3> QED BY <2>2, <3>2 DEF Editing, b, c, d, e, t
  <2>5. CASE Playing(c) /\ Adopted(s, c) /\ c.form = b.form
    <3>1. d.form = c.form /\ Private(c, d) /\ ~d.editing
      BY <1>4, <1>7 DEF Private, Playing
    <3>2. Adopted(s, d)
      BY <1>5, <2>5, <3>1
    <3>3. ~t.editing
      BY <2>2 DEF Playing
    <3>4. Adopted(s, t)
      BY <1>5, <2>1, <2>2, <2>3, <3>2, <3>3
    <3>5. NamesAgree(s.form) => Found(t.form.model, t.form.ir)
      BY <1>1, <2>1, <2>2, <2>5, <3>1 DEF NamesAgree
    <3> QED BY <2>2, <3>4, <3>5 DEF Editing, b, c, d, e, t
  <2> QED BY <1>2, <2>4, <2>5
<1> QED BY <1>1, <1>2, <1>4, <1>6, <1>7

-----------------------------------------------------------------------------
(* The state of the loop is of one of the kinds.                           *)
KindInv == Playing(pedal) \/ Listing(pedal) \/ Forming(pedal) \/ Tuning(pedal)

(* A press that has switched the preset has left the list.                 *)
PressInv == picked => enc1 # "up" /\ ~pedal.browsing

PedalInv == KindInv /\ PressInv

(* A kind is a mode.                                                       *)
LEMMA KindOfMode ==
  ASSUME KindInv
  PROVE  /\ Mode(pedal) = "performance" <=> Playing(pedal)
         /\ Mode(pedal) = "browse" <=> Listing(pedal)
         /\ Mode(pedal) = "edit" <=> Forming(pedal)
         /\ Mode(pedal) = "tuner" <=> Tuning(pedal)
<1>1. Playing(pedal) => /\ Mode(pedal) = "performance"
                        /\ ~Listing(pedal) /\ ~Forming(pedal) /\ ~Tuning(pedal)
  BY DEF Playing, Listing, Forming, Tuning, Mode
<1>2. Listing(pedal) => Mode(pedal) = "browse" /\ ~Forming(pedal) /\ ~Tuning(pedal)
  BY DEF Listing, Forming, Tuning, Mode
<1>3. Forming(pedal) => Mode(pedal) = "edit" /\ ~Tuning(pedal)
  BY DEF Forming, Tuning, Mode
<1>4. Tuning(pedal) => Mode(pedal) = "tuner"
  BY DEF Tuning, Mode
<1> QED BY <1>1, <1>2, <1>3, <1>4 DEF KindInv

(* What one iteration may be told.                                         *)
LEMMA EventTypes ==
  ASSUME NEW ev \in Events
  PROVE  /\ ev.turn1 \in Int /\ ev.turn2 \in Int
         /\ ev.click \in BOOLEAN /\ ev.long \in BOOLEAN
         /\ ev.click <=> enc1 = "up" /\ enc1' = "down"
         /\ ev.long <=> enc1 = "down" /\ enc1' = "long"
<1>1. Turns({"performance", "browse", "edit"}) \subseteq Int /\ Turns({"performance"}) \subseteq Int
  BY PedalAssumption DEF Turns
<1>2. /\ ev.turn1 \in Turns({"performance", "browse", "edit"})
      /\ ev.turn2 \in Turns({"performance"})
      /\ ev.click \in {enc1 = "up" /\ enc1' = "down"}
      /\ ev.long \in {enc1 = "down" /\ enc1' = "long"}
  BY Zenon DEF Events
<1> QED BY <1>1, <1>2

LEMMA TunerTurns ==
  ASSUME NEW s, Tuning(s)
  PROVE  LET t == PushPerformance([s EXCEPT !.tuner = FALSE])
         IN  Playing(t) /\ t.presets = s.presets
<1> DEFINE u == [s EXCEPT !.tuner = FALSE]
<1>1. /\ DOMAIN u = StateFields /\ u.tuner = FALSE
      /\ u.browsing = s.browsing /\ u.editing = s.editing /\ u.dirty = s.dirty
      /\ u.current = s.current /\ u.cursor = s.cursor /\ u.edit_idx = s.edit_idx
      /\ u.presets = s.presets /\ u.live = s.live /\ u.form = s.form
  BY DEF Tuning, Shape, StateFields
<1> HIDE DEF u
<1>2. Shape(u) /\ Clean(u) /\ ~u.tuner /\ ~u.browsing /\ ~u.editing
  BY <1>1, Zenon DEF Tuning, Shape, Clean
<1>3. Playing(PushPerformance(u)) /\ PushPerformance(u).presets = s.presets
  BY <1>1, <1>2, PushPlays
<1> QED BY <1>3 DEF u

LEMMA TunerShows ==
  ASSUME NEW s, Shape(s), Clean(s), ~s.browsing, ~s.editing, NEW pitch
  PROVE  LET t == PushTuner([s EXCEPT !.pitch = pitch])
             e == PushTuner([s EXCEPT !.tuner = TRUE])
         IN  /\ s.tuner => Tuning(t) /\ t.presets = s.presets
             /\ Tuning(e) /\ e.presets = s.presets
<1> DEFINE t == PushTuner([s EXCEPT !.pitch = pitch])
           e == PushTuner([s EXCEPT !.tuner = TRUE])
<1>1. ASSUME NEW x \in {t, e}
      PROVE  /\ DOMAIN x = StateFields /\ x.screen = [kind |-> "tuner", pitch |-> x.pitch]
             /\ x.browsing = s.browsing /\ x.editing = s.editing /\ x.dirty = s.dirty
             /\ x.current = s.current /\ x.cursor = s.cursor /\ x.edit_idx = s.edit_idx
             /\ x.presets = s.presets /\ x.live = s.live /\ x.form = s.form
  BY <1>1 DEF PushTuner, Shape, StateFields
<1>2. t.tuner = s.tuner /\ e.tuner = TRUE
  BY DEF PushTuner, Shape, StateFields
<1> HIDE DEF t, e
<1>3. ASSUME NEW x \in {t, e}, x.tuner \in BOOLEAN, x.tuner
      PROVE  Tuning(x) /\ x.presets = s.presets
  <2>1. Shape(x) /\ Clean(x)
    BY <1>1, <1>3, Zenon DEF Shape, Clean
  <2> QED BY <1>1, <1>3, <2>1, Zenon DEF Tuning
<1>4. s.tuner \in BOOLEAN
  BY DEF Shape
<1>5. /\ s.tuner => Tuning(t) /\ t.presets = s.presets
      /\ Tuning(e) /\ e.presets = s.presets
  BY <1>2, <1>3, <1>4
<1> QED BY <1>5 DEF t, e

(* What an iteration does when the form is not open.                       *)
Outside ==
  /\ pedal'.presets = pedal.presets
  /\ pedal'.editing =>
       /\ ~picked /\ pedal'.edit_idx = pedal'.cursor
       /\ pedal'.edit_idx \in Index
       /\ pedal'.form = FormOf(pedal.presets[pedal'.edit_idx])

(* What an iteration does when it is.                                      *)
Inside ==
  \/ /\ pedal'.editing /\ Private(pedal, pedal')
     /\ NamesAgree(pedal.form) => NamesAgree(pedal'.form)
  \/ ~pedal'.editing /\ Private(pedal, pedal')
  \/ /\ Adopted(pedal, pedal')
     /\ NamesAgree(pedal.form) => Found(pedal'.form.model, pedal'.form.ir)

LEMMA LoopStep ==
  ASSUME PedalInv, Loop
  PROVE  /\ PedalInv'
         /\ IF pedal.editing THEN Inside ELSE Outside
<1> USE DEF PedalInv
<1>1. PICK ev \in Events, due \in BOOLEAN :
        \/ TunerLoop(ev, due)
        \/ EnterTuner(ev)
        \/ PerformanceLoop(ev, due)
        \/ BrowseLoop(ev, due)
        \/ EditLoop(ev, due)
  BY DEF Loop
<1>2. /\ Button
      /\ picked' = (/\ enc1' # "up"
                    /\ picked \/ (pedal.browsing /\ pedal'.current # pedal.current))
  BY DEF Loop
<1>3. /\ ev.turn1 \in Int /\ ev.turn2 \in Int
      /\ ev.click \in BOOLEAN /\ ev.long \in BOOLEAN
      /\ ev.click <=> enc1 = "up" /\ enc1' = "down"
      /\ ev.long <=> enc1 = "down" /\ enc1' = "long"
  BY EventTypes
<1>4. ASSUME ~pedal.editing, pedal'.presets = pedal.presets,
             Playing(pedal') \/ Tuning(pedal')
      PROVE  PedalInv' /\ Outside
  BY <1>2, <1>4 DEF KindInv, PressInv, Outside, Playing, Tuning
<1>5. CASE TunerLoop(ev, due)
  <2>1. Tuning(pedal) /\ ~pedal.editing
    BY <1>5 DEF TunerLoop, KindInv, Playing, Listing, Forming, Tuning
  <2>2. pedal'.presets = pedal.presets /\ (Playing(pedal') \/ Tuning(pedal'))
    <3>1. CASE pedal' = PushPerformance([pedal EXCEPT !.tuner = FALSE])
      BY <2>1, <3>1, TunerTurns
    <3>2. ASSUME NEW pitch \in Pitch, pedal' = PushTuner([pedal EXCEPT !.pitch = pitch])
          PROVE  pedal'.presets = pedal.presets /\ Tuning(pedal')
      <4>1. Shape(pedal) /\ Clean(pedal) /\ pedal.tuner /\ ~pedal.browsing
        BY <2>1 DEF Tuning
      <4> QED BY <2>1, <3>2, <4>1, TunerShows
    <3>3. CASE pedal' = pedal
      BY <2>1, <3>3
    <3> QED BY <1>5, <3>1, <3>2, <3>3 DEF TunerLoop
  <2> QED BY <1>4, <2>1, <2>2
<1>6. CASE EnterTuner(ev)
  <2>1. Playing(pedal) /\ ~pedal.editing
    BY <1>6 DEF EnterTuner, KindInv, Playing, Listing, Forming, Tuning
  <2>2. Playing(Forget(pedal)) /\ Forget(pedal).presets = pedal.presets
    BY <2>1, ForgetPlays
  <2>3. pedal' = PushTuner([Forget(pedal) EXCEPT !.tuner = TRUE])
    BY <1>6 DEF EnterTuner
  <2>4. Tuning(pedal') /\ pedal'.presets = pedal.presets
    BY <2>2, <2>3, TunerShows DEF Playing
  <2> QED BY <1>4, <2>1, <2>4
<1>7. CASE PerformanceLoop(ev, due)
  <2> DEFINE s == Performing(Forget(pedal), ev)
  <2>1. Playing(pedal) /\ ~pedal.editing /\ ~pedal.browsing
    BY <1>7, KindOfMode DEF PerformanceLoop, Playing
  <2>2. /\ s.presets = pedal.presets
        /\ IF ev.click THEN Listing(s) ELSE Playing(s)
    BY <1>3, <2>1, ForgetPlays, PerformingKinds
  <2>3. pedal' = Refresh(s, due)
    BY <1>7 DEF PerformanceLoop
  <2> HIDE DEF s
  <2>4. CASE ev.click
    <3>1. Listing(pedal') /\ pedal'.presets = pedal.presets
      BY <2>2, <2>3, <2>4, RefreshKeeps
    <3>2. enc1 = "up" /\ enc1' # "up" /\ pedal'.browsing /\ ~pedal'.editing
      BY <1>3, <2>4, <3>1 DEF Listing
    <3>3. ~picked'
      BY <1>2, <2>1, <3>2 DEF PressInv
    <3> QED BY <2>1, <3>1, <3>2, <3>3, Zenon DEF KindInv, PressInv, Outside
  <2>5. CASE ~ev.click
    <3>1. Playing(pedal') /\ pedal'.presets = pedal.presets
      BY <2>2, <2>3, <2>5, RefreshKeeps DEF Private
    <3> QED BY <1>4, <2>1, <3>1
  <2> QED BY <2>4, <2>5
<1>8. CASE BrowseLoop(ev, due)
  <2> DEFINE s == Browsing(pedal, ev)
  <2>1. Listing(pedal) /\ ~pedal.editing /\ pedal.browsing
    BY <1>8, KindOfMode DEF BrowseLoop, Listing
  <2>2. /\ s.presets = pedal.presets
        /\ Playing(s) \/ Listing(s) \/ Forming(s)
        /\ ev.click => Playing(s)
        /\ Listing(s) => s.current = pedal.current
        /\ Forming(s) => /\ ev.long /\ s.edit_idx = s.cursor
                         /\ s.form = FormOf(pedal.presets[s.edit_idx])
    BY <1>3, <2>1, BrowsingKinds
  <2>3. pedal' = Refresh(s, due)
    BY <1>8 DEF BrowseLoop
  <2> HIDE DEF s
  <2>4. CASE Playing(s)
    <3>1. Playing(pedal') /\ pedal'.presets = pedal.presets
      BY <2>2, <2>3, <2>4, RefreshKeeps DEF Private
    <3> QED BY <1>4, <2>1, <3>1
  <2>5. CASE Listing(s)
    <3>1. Listing(pedal') /\ pedal' = s /\ pedal'.browsing /\ ~pedal'.editing
      BY <2>3, <2>5, RefreshKeeps DEF Listing
    <3>2. pedal'.current = pedal.current
      BY <2>2, <2>5, <3>1
    <3>3. ~picked'
      BY <1>2, <2>1, <3>2 DEF PressInv
    <3> QED BY <2>1, <2>2, <3>1, <3>3, Zenon DEF KindInv, PressInv, Outside
  <2>6. CASE Forming(s)
    <3>1. Forming(pedal') /\ pedal' = s /\ ~pedal'.browsing /\ pedal'.edit_idx \in Index
      BY <2>3, <2>6, RefreshKeeps DEF Forming, Shape
    <3>2. ~picked /\ (picked' => enc1' # "up")
      BY <1>2, <2>1 DEF PressInv
    <3> QED BY <2>1, <2>2, <2>6, <3>1, <3>2, Zenon DEF KindInv, PressInv, Outside
  <2> QED BY <2>2, <2>4, <2>5, <2>6
<1>9. CASE EditLoop(ev, due)
  <2> DEFINE s == Refresh(ForgetPlace(Editing(pedal, ev)), due)
  <2>1. Forming(pedal) /\ pedal.editing
    BY <1>9, KindOfMode DEF EditLoop, Forming
  <2>2. \/ /\ Forming(s) /\ Private(pedal, s)
           /\ NamesAgree(pedal.form) => NamesAgree(s.form)
        \/ Playing(s) /\ Private(pedal, s)
        \/ /\ Playing(s) /\ Adopted(pedal, s)
           /\ NamesAgree(pedal.form) => Found(s.form.model, s.form.ir)
    BY <1>3, <2>1, EditingKinds
  <2>3. pedal' = s
    BY <1>9 DEF EditLoop
  <2> HIDE DEF s
  <2>4. Inside
    BY <2>2, <2>3 DEF Inside, Forming, Playing
  <2>5. /\ Playing(pedal') \/ Forming(pedal')
        /\ ~pedal'.browsing /\ (picked' => enc1' # "up")
    BY <1>2, <2>2, <2>3 DEF Forming, Playing
  <2> QED BY <2>1, <2>4, <2>5, Zenon DEF KindInv, PressInv
<1> QED BY <1>1, <1>5, <1>6, <1>7, <1>8, <1>9

(* The boot: preset 0 plays and is on display.                             *)
LEMMA PedalStart == Init => PedalInv /\ pedal.presets = Flash /\ ~pedal.editing
<1> SUFFICES ASSUME Init PROVE PedalInv /\ pedal.presets = Flash /\ ~pedal.editing
  OBVIOUS
<1> DEFINE s == [tuner |-> FALSE, browsing |-> FALSE, editing |-> FALSE, dirty |-> FALSE,
                 current |-> 0, cursor |-> 0, edit_idx |-> 0, pitch |-> Null,
                 presets |-> Flash, live |-> Applied(Silent, Flash[0]), form |-> NoForm,
                 screen |-> [kind |-> "none"]]
<1>1. pedal = PushPerformance(s)
  BY DEF Init
<1>2. /\ DOMAIN s = StateFields
      /\ s.tuner = FALSE /\ s.browsing = FALSE /\ s.editing = FALSE /\ s.dirty = FALSE
      /\ s.current = 0 /\ s.cursor = 0 /\ s.edit_idx = 0
      /\ s.presets = Flash /\ s.live = Applied(Silent, Flash[0]) /\ s.form = NoForm
  BY DEF StateFields
<1> HIDE DEF s
<1>3. DOMAIN NoForm = FormFields /\ NoForm.field = 1
  BY DEF NoForm, FormFields
<1>4. 0 \in Index /\ 1 \in 1..Len(Fields) /\ DOMAIN Flash = Index
  BY PedalAssumption DEF Index
<1>5. Heard(s.live, s.presets[s.current]) /\ DOMAIN s.live = LiveFields
  BY <1>2, AppliedHeard
<1>6. Shape(s) /\ Clean(s)
  BY <1>2, <1>3, <1>4, <1>5, Zenon DEF Shape, Clean
<1>7. Playing(pedal) /\ pedal.presets = Flash
  BY <1>1, <1>2, <1>6, PushPlays
<1>8. ~picked
  BY DEF Init
<1> QED BY <1>7, <1>8 DEF PedalInv, KindInv, PressInv, Playing

LEMMA PedalStep ==
  ASSUME PedalInv, [Loop]_vars
  PROVE  PedalInv'
<1>1. CASE Loop
  BY <1>1, LoopStep
<1>2. CASE UNCHANGED vars
  BY <1>2 DEF vars, PedalInv, KindInv, PressInv, Playing, Listing, Forming, Tuning,
              Shape, Clean, PerformanceScreen
<1> QED BY <1>1, <1>2

LEMMA PedalAlways == Spec => []PedalInv
  BY PedalStart, PedalStep, PTL DEF Spec

(* One mode, and its screen as it is now, or in edit mode the performance  *)
(* screen as it is now: src/main.cpp:271-375.                              *)
THEOREM ScreenAlwaysTrue == Spec => []ScreenTrue
<1>1. PedalInv => ScreenTrue
  <2> SUFFICES ASSUME PedalInv PROVE ScreenTrue
    OBVIOUS
  <2>1. OneMode
    BY DEF PedalInv, KindInv, Playing, Listing, Forming, Tuning, OneMode
  <2>2. CASE Playing(pedal)
    BY <2>1, <2>2, KindOfMode DEF PedalInv, ScreenTrue, Playing
  <2>3. CASE Listing(pedal)
    <3>1. PushBrowse(pedal).screen = [kind |-> "browse", cursor |-> pedal.cursor]
      BY <2>3 DEF PushBrowse, Listing, Shape, StateFields
    <3> QED BY <2>1, <2>3, <3>1, KindOfMode DEF PedalInv, ScreenTrue, Listing
  <2>4. CASE Forming(pedal)
    <3>1. ShowEdit(pedal).screen = [kind |-> "edit", form |-> pedal.form]
      BY <2>4 DEF ShowEdit, Forming, Shape, StateFields
    <3> QED BY <2>1, <2>4, <3>1, KindOfMode DEF PedalInv, ScreenTrue, Forming
  <2>5. CASE Tuning(pedal)
    <3>1. PushTuner(pedal).screen = [kind |-> "tuner", pitch |-> pedal.pitch]
      BY <2>5 DEF PushTuner, Tuning, Shape, StateFields
    <3> QED BY <2>1, <2>5, <3>1, KindOfMode DEF PedalInv, ScreenTrue, Tuning
  <2> QED BY <2>2, <2>3, <2>4, <2>5 DEF PedalInv, KindInv
<1> QED BY <1>1, PedalAlways, PTL

(* No mark, no difference between the engine and the current preset:       *)
(* preset_dirty in src/main.cpp:548-640, 783-816.                          *)
THEOREM CleanAlwaysPreset == Spec => []CleanIsPreset
<1>1. PedalInv => CleanIsPreset
  BY DEF PedalInv, KindInv, Playing, Listing, Forming, Tuning, Clean, CleanIsPreset
<1> QED BY <1>1, PedalAlways, PTL

(* A press that has switched the preset does not open the form:            *)
(* src/main.cpp:653-677.                                                   *)
THEOREM PressDoesOneThing == Spec => PickOrEdit
<1>1. ASSUME PedalInv, [Loop]_vars
      PROVE  [~pedal.editing /\ pedal'.editing
                => ~picked /\ pedal'.edit_idx = pedal'.cursor]_vars
  BY <1>1, LoopStep DEF Outside
<1> QED BY <1>1, PedalAlways, PTL DEF Spec, PickOrEdit

(* What the form changes, and when: src/main.cpp:685-824.                  *)
THEOREM FormPrivate == Spec => EditIsPrivate
<1> DEFINE A == pedal.editing => Private(pedal, pedal') \/ Adopted(pedal, pedal')
<1>1. ASSUME PedalInv, [Loop]_vars
      PROVE  [A]_vars
  BY <1>1, LoopStep DEF Inside
<1>2. [A]_vars => [pedal.editing =>
       \/ /\ pedal'.presets = pedal.presets /\ pedal'.live = pedal.live
          /\ pedal'.current = pedal.current /\ pedal'.dirty = pedal.dirty
       \/ LET i == pedal.edit_idx  p == pedal'.presets[i]  f == pedal'.form IN
          /\ ~pedal'.editing /\ pedal'.current = i /\ pedal'.dirty
          /\ <<p.model, p.ir, p.gain, p.bypass>> = <<f.model, f.ir, f.gain, f.bypass>>
          /\ \A j \in Index \ {i} : pedal'.presets[j] = pedal.presets[j]
          /\ Heard(pedal'.live, p)]_vars
  BY Zenon DEF Private, Adopted
<1> QED BY <1>1, <1>2, PedalAlways, PTL DEF Spec, EditIsPrivate

(* If every preset names a model that flash has, or flash has none and no  *)
(* preset names one, the form applies the names that it shows, and goes on *)
(* doing so when it has replaced a preset: src/main.cpp:324-375, 712-737.  *)
THEOREM FormNamesTrue ==
  ASSUME \A i \in Index : Found(Flash[i].model, Flash[i].ir)
  PROVE  Spec => []FormShowsNames
<1> DEFINE NamesInv == /\ \A i \in Index : Found(pedal.presets[i].model, pedal.presets[i].ir)
                       /\ pedal.editing => NamesAgree(pedal.form)
<1>1. Init => NamesInv
  BY PedalStart
<1>2. ASSUME PedalInv, NamesInv, [Loop]_vars
      PROVE  NamesInv'
  <2>1. CASE UNCHANGED vars
    BY <1>2, <2>1 DEF vars
  <2>2. CASE Loop /\ ~pedal.editing
    <3>1. Outside
      BY <1>2, <2>2, LoopStep
    <3>2. \A i \in Index : NamesAgree(FormOf(pedal.presets[i]))
      BY <1>2, NamesOpen
    <3> QED BY <1>2, <3>1, <3>2 DEF Outside
  <2>3. CASE Loop /\ pedal.editing
    <3>1. Inside /\ NamesAgree(pedal.form)
      BY <1>2, <2>3, LoopStep
    <3>2. CASE Private(pedal, pedal') /\ (pedal'.editing => NamesAgree(pedal'.form))
      BY <1>2, <3>2 DEF Private
    <3>3. CASE Adopted(pedal, pedal') /\ Found(pedal'.form.model, pedal'.form.ir)
      <4>1. /\ ~pedal'.editing
            /\ pedal'.presets[pedal.edit_idx].model = pedal'.form.model
            /\ pedal'.presets[pedal.edit_idx].ir = pedal'.form.ir
            /\ \A j \in Index \ {pedal.edit_idx} : pedal'.presets[j] = pedal.presets[j]
        BY <3>3 DEF Adopted
      <4>2. ASSUME NEW j \in Index
            PROVE  Found(pedal'.presets[j].model, pedal'.presets[j].ir)
        <5>1. CASE j = pedal.edit_idx
          BY <3>3, <4>1, <5>1
        <5>2. CASE j # pedal.edit_idx
          BY <1>2, <4>1, <5>2
        <5> QED BY <5>1, <5>2
      <4> QED BY <4>1, <4>2
    <3> QED BY <3>1, <3>2, <3>3 DEF Inside
  <2> QED BY <1>2, <2>1, <2>2, <2>3
<1>3. NamesInv => FormShowsNames
  BY DEF NamesAgree, FormShowsNames
<1> HIDE DEF NamesInv
<1> QED BY <1>1, <1>2, <1>3, PedalAlways, PTL DEF Spec
=============================================================================
