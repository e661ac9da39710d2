----------------------------- MODULE SdramHeap -----------------------------
(***************************************************************************)
(* _sbrk of src/SdramHeap.cpp: the heap grows through SRAM and, when a     *)
(* request does not fit the rest of it, jumps to SDRAM once and for all.   *)
(* A negative request gives memory back, and one of 0 asks where the break *)
(* is.  Addresses are small numbers; what lies between the two regions is  *)
(* not mapped.  granted is what callers were handed and have not returned. *)
(***************************************************************************)
EXTENDS Integers

CONSTANTS
  End,         \* &end, the first free SRAM address
  SramTop,     \* kSramTop, one past SRAM
  EsdramBss,   \* &_esdram_bss, rounded up to 8
  SdramTop,    \* kSdramTop
  Incr         \* sizes newlib asks for

ASSUME HeapAssumption ==
  /\ {End, SramTop, EsdramBss, SdramTop} \subseteq Nat
  /\ End < SramTop /\ SramTop < EsdramBss /\ EsdramBss < SdramTop
  /\ Incr \subseteq Int

VARIABLES
  cur,         \* the break
  g_sram_heap_used, g_sdram_heap_used,
  granted,     \* history: [from, to) of every grant, less what was returned
  failed       \* history: ENOMEM was returned

brk == <<cur, g_sram_heap_used, g_sdram_heap_used, granted, failed>>

HeapTypeOK ==
  /\ cur \in End..SdramTop
  /\ g_sram_heap_used \in 0..(SramTop - End)
  /\ g_sdram_heap_used \in Int
  /\ granted \subseteq [from : Nat, to : Nat]
  /\ failed \in BOOLEAN

HeapInit ==
  /\ cur = End
  /\ g_sram_heap_used = 0 /\ g_sdram_heap_used = 0
  /\ granted = {}
  /\ failed = FALSE

-----------------------------------------------------------------------------
(* The caller.  It returns what lies right below the break and is its own. *)
Owned(a) == \E g \in granted : g.from <= a /\ a < g.to

MayAsk(incr) == \A a \in (cur + incr)..(cur - 1) : Owned(a)

Lower(a, b) == IF a < b THEN a ELSE b

(* What is left of the grants when the break falls to top.                 *)
LeftBelow(top) ==
  {[from |-> g.from, to |-> Lower(g.to, top)] : g \in {h \in granted : h.from < top}}

Grant(base, incr) ==
  /\ cur' = base + incr
  /\ granted' = IF incr > 0
                  THEN granted \cup {[from |-> base, to |-> base + incr]}
                  ELSE LeftBelow(base + incr)
  /\ UNCHANGED failed

-----------------------------------------------------------------------------
InSram == cur < SramTop

(* Slip: the end of the region is not checked.                             *)
FitsOneMore(incr) == cur + incr <= SramTop + 1

Fits(incr) == cur + incr <= SramTop

FromSram(incr) ==
  /\ InSram /\ Fits(incr)
  /\ Grant(cur, incr)
  /\ g_sram_heap_used' = cur' - End
  /\ UNCHANGED g_sdram_heap_used

(* The break an SDRAM request starts from: the jump is taken from SRAM.    *)

(* Slip: the jump is taken every time.                                     *)
SdramBreakAgain == EsdramBss

SdramBreak == IF InSram THEN EsdramBss ELSE cur

FromSdram(incr) ==
  /\ ~(InSram /\ Fits(incr))
  /\ SdramBreak + incr <= SdramTop
  /\ Grant(SdramBreak, incr)
  /\ g_sdram_heap_used' = cur' - EsdramBss
  /\ UNCHANGED g_sram_heap_used

(* The request fits nowhere; the jump, if it was due, stays.               *)
NoMemory(incr) ==
  /\ ~(InSram /\ Fits(incr))
  /\ SdramBreak + incr > SdramTop
  /\ cur' = SdramBreak
  /\ failed' = TRUE
  /\ UNCHANGED <<g_sram_heap_used, g_sdram_heap_used, granted>>

Sbrk(incr) == FromSram(incr) \/ FromSdram(incr) \/ NoMemory(incr)

HeapNext == \E incr \in Incr : MayAsk(incr) /\ Sbrk(incr)

HeapSpec == HeapInit /\ [][HeapNext]_brk

-----------------------------------------------------------------------------
(* Properties.                                                             *)

(* No two grants share an address, through the jump, after failures, and   *)
(* when some were returned and granted again.                              *)
GrantsDisjoint ==
  \A g, h \in granted : g # h => g.to <= h.from \/ h.to <= g.from

Mapped(g) ==
  \/ End <= g.from /\ g.to <= SramTop
  \/ EsdramBss <= g.from /\ g.to <= SdramTop

(* A grant lies in one of the two regions, unless SRAM has been filled to  *)
(* its last byte below it: the jump is missed in that case and in no other *)
(* (src/SdramHeap.cpp:44-57).                                              *)
MappedUntilFull ==
  \A g \in granted :
    Mapped(g) \/ (SramTop <= g.from /\ \E h \in granted : h.to = SramTop)

(* src/SdramHeap.cpp:3-7: the file exists so that nothing is handed out    *)
(* "past 0x24080000 into unmapped space".  See MappedUntilFull.            *)
GrantsMapped == \A g \in granted : Mapped(g)
=============================================================================
