-------------------------- MODULE SdramHeapProofs --------------------------
(***************************************************************************)
(* No two grants of _sbrk overlap, and none is unmapped before SRAM has    *)
(* been filled to its last byte, for any memory map with SRAM below SDRAM  *)
(* and any requests, those that return memory included.  The invariant is  *)
(* that everything granted lies below the break, and that the break is in  *)
(* the gap between the regions only above a grant that ends where SRAM     *)
(* does: _sbrk then takes the gap for SDRAM.                               *)
(***************************************************************************)
EXTENDS SdramHeap, TLAPS

Full == \E h \in granted : h.to = SramTop

BreakInv ==
  /\ cur \in Nat /\ End <= cur
  /\ granted \subseteq [from : Nat, to : Nat]
  /\ \A g \in granted : End <= g.from /\ g.from < g.to /\ g.to <= cur

GapInv == cur \in SramTop..(EsdramBss - 1) => Full

HeapInv == BreakInv /\ GrantsDisjoint /\ GapInv /\ MappedUntilFull

LEMMA SizesAre ==
  /\ End \in Nat /\ SramTop \in Nat /\ EsdramBss \in Nat /\ SdramTop \in Nat
  /\ End < SramTop /\ SramTop < EsdramBss /\ EsdramBss < SdramTop
  BY HeapAssumption

LEMMA HeapStart == HeapInit => HeapInv
  BY SizesAre
     DEF HeapInit, HeapInv, BreakInv, GapInv, GrantsDisjoint, MappedUntilFull

(* Where a request that is granted starts.                                 *)
LEMMA BaseIs ==
  ASSUME HeapInv, NEW incr \in Int, FromSram(incr) \/ FromSdram(incr)
  PROVE  \E base \in Nat :
           /\ Grant(base, incr) /\ cur <= base
           /\ incr <= 0 => base = cur
           /\ base + incr <= SramTop \/ (SramTop <= base /\ base + incr <= SdramTop)
           /\ base # cur => base >= EsdramBss
<1>1. cur \in Nat
  BY DEF HeapInv, BreakInv
<1>2. CASE FromSram(incr)
  BY <1>1, <1>2, SizesAre DEF FromSram, Fits
<1>3. CASE FromSdram(incr)
  <2>1. /\ SdramBreak \in Nat /\ cur <= SdramBreak /\ SramTop <= SdramBreak
        /\ SdramBreak # cur => SdramBreak >= EsdramBss /\ InSram
    BY <1>1, SizesAre DEF SdramBreak, InSram
  <2>2. incr <= 0 => SdramBreak = cur
    BY <1>1, <1>3, <2>1, SizesAre DEF FromSdram, InSram, Fits
  <2>3. Grant(SdramBreak, incr) /\ SdramBreak + incr <= SdramTop
    BY <1>3 DEF FromSdram
  <2> HIDE DEF SdramBreak
  <2> QED BY <2>1, <2>2, <2>3
<1> QED BY <1>2, <1>3

(* A grant at or above the break.                                          *)
LEMMA GrantAbove ==
  ASSUME HeapInv, NEW base \in Nat, cur <= base, NEW incr \in Nat, incr > 0,
         Grant(base, incr),
         base + incr <= SramTop \/ (SramTop <= base /\ base + incr <= SdramTop),
         base # cur => base >= EsdramBss
  PROVE  HeapInv'
<1> DEFINE new == [from |-> base, to |-> base + incr]
<1>1. cur' = base + incr /\ granted' = granted \cup {new}
  BY DEF Grant
<1>2. new \in [from : Nat, to : Nat] /\ new.from = base /\ new.to = base + incr
  OBVIOUS
<1> HIDE DEF new
<1>3. /\ cur \in Nat /\ End <= cur
      /\ \A g \in granted : /\ g.from \in Nat /\ g.to \in Nat /\ End <= g.from
                            /\ g.from < g.to /\ g.to <= base
  BY DEF HeapInv, BreakInv
<1>4. BreakInv'
  <2>1. granted' \subseteq [from : Nat, to : Nat]
    BY <1>1, <1>2 DEF HeapInv, BreakInv
  <2>2. \A g \in granted' : End <= g.from /\ g.from < g.to /\ g.to <= cur'
    BY <1>1, <1>2, <1>3, SizesAre
  <2>3. cur' \in Nat /\ End <= cur'
    BY <1>1, <1>3, SizesAre
  <2> QED BY <2>1, <2>2, <2>3 DEF BreakInv
<1>5. GrantsDisjoint'
  <2> SUFFICES ASSUME NEW g \in granted', NEW h \in granted', g # h
               PROVE  g.to <= h.from \/ h.to <= g.from
    BY DEF GrantsDisjoint
  <2>1. CASE g \in granted /\ h \in granted
    BY <2>1 DEF HeapInv, GrantsDisjoint
  <2>2. CASE g = new
    BY <2>2, <1>1, <1>2, <1>3
  <2>3. CASE h = new
    BY <2>3, <1>1, <1>2, <1>3
  <2> QED BY <1>1, <2>1, <2>2, <2>3
<1>6. Full => Full'
  BY <1>1 DEF Full
<1>7. cur' = SramTop => Full'
  BY <1>1, <1>2 DEF Full
<1>8. base \in SramTop..(EsdramBss - 1) => Full
  BY <1>3, SizesAre DEF HeapInv, GapInv
<1>9. GapInv'
  <2> SUFFICES ASSUME cur' \in SramTop..(EsdramBss - 1) PROVE Full'
    BY DEF GapInv
  <2>1. CASE cur' = SramTop
    BY <1>7, <2>1
  <2>2. CASE cur' # SramTop
    <3>1. base \in SramTop..(EsdramBss - 1)
      BY <1>1, <2>2, SizesAre
    <3> QED BY <1>6, <1>8, <3>1
  <2> QED BY <2>1, <2>2
<1>10. MappedUntilFull'
  <2> SUFFICES ASSUME NEW g \in granted'
               PROVE  Mapped(g) \/ (SramTop <= g.from /\ Full')
    BY DEF MappedUntilFull, Full
  <2>1. CASE g \in granted
    BY <1>6, <2>1 DEF HeapInv, MappedUntilFull, Full
  <2>2. CASE g = new
    <3>1. g.from = base /\ g.to = base + incr /\ End <= base
      BY <1>2, <1>3, <2>2, SizesAre
    <3>2. CASE base \in SramTop..(EsdramBss - 1)
      BY <1>6, <1>8, <3>1, <3>2, SizesAre
    <3>3. CASE base \notin SramTop..(EsdramBss - 1)
      BY <3>1, <3>3, SizesAre DEF Mapped
    <3> QED BY <3>2, <3>3
  <2> QED BY <1>1, <2>1, <2>2
<1> QED BY <1>4, <1>5, <1>9, <1>10 DEF HeapInv

(* The break falls.  What it falls on is its caller's, so that it neither  *)
(* leaves the regions nor stops in the gap except on a grant that has a    *)
(* full SRAM below it, which stays full.                                   *)
LEMMA GivenBack ==
  ASSUME HeapInv, NEW incr \in Int, incr <= 0, MayAsk(incr), Grant(cur, incr)
  PROVE  HeapInv'
<1> DEFINE top == cur + incr
           left(g) == [from |-> g.from, to |-> Lower(g.to, top)]
<1>1. cur' = top /\ granted' = {left(g) : g \in {h \in granted : h.from < top}}
  BY DEF Grant, LeftBelow
<1>2. /\ cur \in Nat /\ End <= cur
      /\ \A g \in granted : /\ g.from \in Nat /\ g.to \in Nat /\ End <= g.from
                            /\ g.from < g.to /\ g.to <= cur
      /\ granted \subseteq [from : Nat, to : Nat]
  BY DEF HeapInv, BreakInv
<1>3. incr = 0 \/ Owned(top)
  <2> SUFFICES ASSUME incr < 0 PROVE top \in top..(cur - 1)
    BY DEF MayAsk
  <2> QED BY <1>2
<1>4. top \in Nat /\ End <= top /\ top <= cur
  <2>1. top \in Int /\ top <= cur
    BY <1>2
  <2>2. CASE incr = 0
    BY <1>2, <2>2
  <2>3. CASE Owned(top)
    <3>1. PICK g \in granted : g.from <= top /\ top < g.to
      BY <2>3 DEF Owned
    <3> HIDE DEF top
    <3> QED BY <1>2, <2>1, <3>1, SizesAre
  <2> QED BY <1>3, <2>1, <2>2, <2>3
<1>5. incr = 0 => top = cur
  BY <1>2
<1> HIDE DEF top
<1>6. ASSUME NEW g \in granted, g.from < top
      PROVE  /\ left(g) \in [from : Nat, to : Nat] /\ left(g).from = g.from
             /\ left(g).to = Lower(g.to, top)
             /\ left(g).to <= g.to /\ left(g).to <= top /\ g.from < left(g).to
  BY <1>2, <1>4, <1>6 DEF Lower
<1>7. \A x \in granted' : \E g \in granted : g.from < top /\ x = left(g)
  BY <1>1
<1>8. BreakInv'
  <2>1. \A x \in granted' : /\ x \in [from : Nat, to : Nat]
                            /\ End <= x.from /\ x.from < x.to /\ x.to <= top
    <3> SUFFICES ASSUME NEW g \in granted, g.from < top
                 PROVE  LET x == left(g) IN
                        /\ x \in [from : Nat, to : Nat]
                        /\ End <= x.from /\ x.from < x.to /\ x.to <= top
      BY <1>7
    <3> HIDE DEF left
    <3> QED BY <1>2, <1>6
  <2> QED BY <1>1, <1>4, <2>1 DEF BreakInv
<1>9. GrantsDisjoint'
  <2> SUFFICES ASSUME NEW x \in granted', NEW y \in granted', x # y
               PROVE  x.to <= y.from \/ y.to <= x.from
    BY DEF GrantsDisjoint
  <2>1. PICK g \in granted : g.from < top /\ x = left(g)
    BY <1>7
  <2>2. PICK h \in granted : h.from < top /\ y = left(h)
    BY <1>7
  <2>3. g.to <= h.from \/ h.to <= g.from
    BY <2>1, <2>2 DEF HeapInv, GrantsDisjoint
  <2> HIDE DEF left
  <2>4. /\ x.from = g.from /\ x.to <= g.to /\ y.from = h.from /\ y.to <= h.to
        /\ x.to \in Nat /\ y.to \in Nat
    BY <1>6, <2>1, <2>2
  <2> QED BY <1>2, <2>3, <2>4
(* A full SRAM below the new break stays full.                             *)
<1>10. Full /\ SramTop <= top => Full'
  <2> SUFFICES ASSUME Full, SramTop <= top PROVE \E x \in granted' : x.to = SramTop
    BY DEF Full
  <2>1. PICK h \in granted : h.to = SramTop
    BY DEF Full
  <2>2. h.from < top /\ Lower(h.to, top) = SramTop
    BY <1>2, <1>4, <2>1, SizesAre DEF Lower
  <2>3. left(h) \in granted' /\ left(h).to = SramTop
    BY <1>1, <1>6, <2>1, <2>2
  <2> QED BY <2>3
<1>11. GapInv'
  <2> SUFFICES ASSUME top \in SramTop..(EsdramBss - 1) PROVE Full'
    BY <1>1 DEF GapInv
  <2>1. CASE incr = 0
    BY <1>5, <1>10, <2>1, SizesAre DEF HeapInv, GapInv
  <2>2. CASE Owned(top)
    <3>1. PICK g \in granted : g.from <= top /\ top < g.to
      BY <2>2 DEF Owned
    <3>2. ~Mapped(g)
      BY <1>2, <3>1, SizesAre DEF Mapped
    <3>3. Full
      BY <3>1, <3>2 DEF HeapInv, MappedUntilFull, Full
    <3> QED BY <1>10, <3>3, SizesAre
  <2> QED BY <1>3, <2>1, <2>2
<1>12. MappedUntilFull'
  <2> SUFFICES ASSUME NEW g \in granted, g.from < top
               PROVE  Mapped(left(g)) \/ (SramTop <= left(g).from /\ Full')
    BY <1>7 DEF MappedUntilFull, Full
  <2>1. /\ left(g).from = g.from /\ left(g).to <= g.to /\ left(g).to \in Nat
        /\ g.from \in Nat /\ g.to \in Nat
    BY <1>2, <1>6
  <2> HIDE DEF left
  <2>2. CASE Mapped(g)
    BY <2>1, <2>2, SizesAre DEF Mapped
  <2>3. CASE SramTop <= g.from /\ Full
    BY <1>4, <1>10, <2>1, <2>3, SizesAre
  <2> QED BY <2>2, <2>3 DEF HeapInv, MappedUntilFull, Full
<1> QED BY <1>8, <1>9, <1>11, <1>12 DEF HeapInv

LEMMA HeapStep == HeapInv /\ [HeapNext]_brk => HeapInv'
<1> SUFFICES ASSUME HeapInv, [HeapNext]_brk PROVE HeapInv'
  OBVIOUS
<1>1. ASSUME NEW incr \in Incr, MayAsk(incr), FromSram(incr) \/ FromSdram(incr)
      PROVE  HeapInv'
  <2>1. incr \in Int
    BY HeapAssumption
  <2>2. PICK base \in Nat :
          /\ Grant(base, incr) /\ cur <= base
          /\ incr <= 0 => base = cur
          /\ base + incr <= SramTop \/ (SramTop <= base /\ base + incr <= SdramTop)
          /\ base # cur => base >= EsdramBss
    BY <1>1, <2>1, BaseIs
  <2>3. CASE incr > 0
    BY <2>1, <2>2, <2>3, GrantAbove
  <2>4. CASE incr <= 0
    BY <1>1, <2>1, <2>2, <2>4, GivenBack
  <2> QED BY <2>1, <2>3, <2>4
<1>2. ASSUME NEW incr \in Incr, NoMemory(incr) PROVE HeapInv'
  <2>1. /\ cur \in Nat /\ cur' = SdramBreak /\ UNCHANGED granted
        /\ cur' \in Nat /\ cur' >= cur /\ (cur' # cur => cur' >= EsdramBss)
    BY <1>2, SizesAre DEF NoMemory, HeapInv, BreakInv, SdramBreak, InSram
  <2>2. BreakInv'
    <3>1. \A g \in granted : End <= g.from /\ g.from < g.to /\ g.to <= cur'
      BY <2>1 DEF HeapInv, BreakInv
    <3> QED BY <2>1, <3>1, SizesAre DEF HeapInv, BreakInv
  <2>3. GapInv'
    BY <2>1, SizesAre DEF HeapInv, GapInv, Full
  <2> QED BY <2>1, <2>2, <2>3 DEF HeapInv, GrantsDisjoint, MappedUntilFull
<1>3. CASE UNCHANGED brk
  BY <1>3 DEF brk, HeapInv, BreakInv, GapInv, Full, GrantsDisjoint, MappedUntilFull
<1> QED BY <1>1, <1>2, <1>3 DEF HeapNext, Sbrk

(* Grants never overlap: GrantsDisjoint, src/SdramHeap.cpp:37-71.          *)
THEOREM GrantsNeverOverlap == HeapSpec => []GrantsDisjoint
<1>1. HeapInv => GrantsDisjoint
  BY DEF HeapInv
<1> QED BY <1>1, HeapStart, HeapStep, PTL DEF HeapSpec

(* A grant is mapped unless SRAM is full to its last byte below it: that   *)
(* is the only way to miss the jump (MappedUntilFull,                      *)
(* src/SdramHeap.cpp:44-57).                                               *)
THEOREM MappedUntilExactFit == HeapSpec => []MappedUntilFull
<1>1. HeapInv => MappedUntilFull
  BY DEF HeapInv
<1> QED BY <1>1, HeapStart, HeapStep, PTL DEF HeapSpec
=============================================================================
