---------------------------- MODULE MarkDirtyLoop ---------------------------
(***************************************************************************)
(* vfs_tracking_mark_dirty (vfs_tracking.c 232-282) on one tracker, at     *)
(* the grain of its loop: the page arithmetic and the growth of lines      *)
(* 242-273 are one step, and each iteration of the loop of lines 276-281   *)
(* is one step.  All page arithmetic is uint32_t, scaled to PageWidth      *)
(* bits; offsets are int64 and divided before the cast (lines 242-243).    *)
(* The bitmap is a sequence of words of WordBits bits; a word at or past   *)
(* bitmapSize is memory the tracker does not own, and setting a bit there  *)
(* is a heap overflow, recorded in `overflow`.                             *)
(*                                                                         *)
(* VfsTracking takes a whole call as one step and assumes the offsets keep *)
(* the arithmetic from wrapping; this module drops that assumption.        *)
(***************************************************************************)
EXTENDS Naturals

CONSTANTS
    PageSize,   \* tracker->pageSize (positive: see VfsTracking!NoZeroPageSize)
    WordBits,   \* bits per bitmap word (32)
    PageWidth,  \* width of uint32_t (32)
    Offsets,    \* byte offsets fileWrite and fileTruncate pass
    Amounts     \* byte counts they pass (positive)

ASSUME LoopConstantsAssumption ==
    /\ PageSize \in Nat \ {0}
    /\ WordBits \in Nat \ {0}
    /\ PageWidth \in Nat \ {0}
    /\ Offsets \subseteq Nat
    /\ Amounts \subseteq Nat \ {0}

UINT == 2^PageWidth

(* 2^PageWidth is a positive natural (a fact TLC evaluates; the provers   *)
(* cannot expand ^ on a symbolic exponent).                               *)
ASSUME UintAssumption == UINT \in Nat \ {0}

(* The words a uint32_t bitmap size can address.                           *)
WordIndex == 0 .. ((UINT \div WordBits) - 1)

VARIABLES
    pc,          \* "idle" between calls, "loop" inside the marking loop
    startPage,   \* local startPage
    endPage,     \* local endPage
    i,           \* the loop counter (uint32_t)
    totalPages,  \* tracker->totalPages
    bitmapSize,  \* tracker->bitmapSize, in words
    words,       \* words[w]: the bits set in dirtyBitmap[w]
    overflow,    \* some iteration wrote past the bitmap
    marked       \* ghost: the pages of the calls that completed their loop

vars == <<pc, startPage, endPage, i, totalPages, bitmapSize, words, overflow, marked>>

(* The pages whose bits are set inside the bitmap.                         *)
SetPages == {p \in 0 .. (UINT - 1) :
                /\ p \div WordBits < bitmapSize
                /\ p % WordBits \in words[p \div WordBits]}

Init ==
    /\ pc = "idle"
    /\ startPage = 0 /\ endPage = 0 /\ i = 0
    /\ totalPages = 0
    /\ bitmapSize = 0
    /\ words = [w \in WordIndex |-> {}]
    /\ overflow = FALSE
    /\ marked = {}

(* Mutant: the new words realloc adds are not zeroed.                      *)
GrowNoZero(nbs) ==
    \E junk \in [WordIndex -> SUBSET (0 .. (WordBits - 1))] :
        words' = [w \in WordIndex |-> IF w >= bitmapSize /\ w < nbs THEN junk[w] ELSE words[w]]

(* realloc to nbs words and the memset of the words past the old size.     *)
Grow(nbs) ==
    words' = [w \in WordIndex |-> IF w >= bitmapSize /\ w < nbs THEN {} ELSE words[w]]

(* Mutant: the size is rounded down, (requiredPages) / 32.                 *)
NewBitmapSizeFloor(req) == req \div WordBits

(* Line 249: (requiredPages + 31) / 32, the sum taken in uint32_t.         *)
NewBitmapSize(req) == ((req + WordBits - 1) % UINT) \div WordBits

EnterLoop(sp, ep) == pc' = "loop" /\ startPage' = sp /\ endPage' = ep /\ i' = sp

(* Lines 242-273: compute the page range in uint32_t and grow the bitmap;  *)
(* a failed realloc returns at once.  Then the loop starts at startPage.   *)
Call(o, a) ==
    LET sp  == (o \div PageSize) % UINT
        ep  == ((o + a - 1) \div PageSize) % UINT
        req == (ep + 1) % UINT
        nbs == NewBitmapSize(req)
    IN
    /\ pc = "idle"
    /\ \/ /\ req > totalPages
          /\ nbs > bitmapSize
          /\ \/ /\ Grow(nbs)
                /\ bitmapSize' = nbs
                /\ totalPages' = req
                /\ EnterLoop(sp, ep)
             \/ UNCHANGED <<pc, startPage, endPage, i, totalPages, bitmapSize, words>>
       \/ /\ req > totalPages
          /\ nbs <= bitmapSize
          /\ totalPages' = req
          /\ EnterLoop(sp, ep)
          /\ UNCHANGED <<words, bitmapSize>>
       \/ /\ req <= totalPages
          /\ EnterLoop(sp, ep)
          /\ UNCHANGED <<words, bitmapSize, totalPages>>
    /\ UNCHANGED <<overflow, marked>>

(* dirtyBitmap[i / 32] |= 1U << (i % 32); past the bitmap, an overflow.    *)
SetBit(p) ==
    IF p \div WordBits < bitmapSize
    THEN /\ words' = [words EXCEPT ![p \div WordBits] = @ \cup {p % WordBits}]
         /\ UNCHANGED overflow
    ELSE /\ overflow' = TRUE
         /\ UNCHANGED words

(* Mutant: the counter is a narrower type than endPage.                    *)
NextPageNarrow(x) == (x + 1) % (UINT \div 2)

(* i++ on a uint32_t.                                                      *)
NextPage(x) == (x + 1) % UINT

(* One iteration of lines 276-281: i <= endPage holds; set bit i; i++.     *)
LoopStep ==
    /\ pc = "loop"
    /\ i <= endPage
    /\ SetBit(i)
    /\ i' = NextPage(i)
    /\ UNCHANGED <<pc, startPage, endPage, totalPages, bitmapSize, marked>>

(* The loop test fails: mark_dirty returns.                                *)
LoopExit ==
    /\ pc = "loop"
    /\ ~(i <= endPage)
    /\ pc' = "idle"
    /\ marked' = marked \cup (startPage .. endPage)
    /\ UNCHANGED <<startPage, endPage, i, totalPages, bitmapSize, words, overflow>>

Next ==
    \/ \E o \in Offsets, a \in Amounts : Call(o, a)
    \/ LoopStep
    \/ LoopExit

(* The loop runs on the calling thread and never blocks or yields (spec    *)
(* 5: single-threaded, synchronous): once inside it, the thread keeps      *)
(* taking its steps.  Whether SQLite calls again is not forced.            *)
Spec == Init /\ [][Next]_vars /\ WF_vars(LoopStep \/ LoopExit)

-----------------------------------------------------------------------------
(* The offsets keep the end page below 2^32 - 32, so none of the uint32_t *)
(* sums of lines 243-249 wraps: the range VfsTracking assumes.            *)
NoPageWrap ==
    \A o \in Offsets, a \in Amounts : (o + a - 1) \div PageSize + WordBits < UINT

(* Every bit the loop sets lies inside the words realloc gave the tracker *)
(* (no heap overflow from dirtyBitmap[wordIndex] at line 280).             *)
LoopInBounds == ~overflow

(* Between calls, the bitmap holds exactly the pages of the calls that    *)
(* completed, and nothing from memory realloc added: the word and bit      *)
(* index of line 278-280 and the zeroing of line 265 are right.            *)
BitmapMatchesCalls == pc = "idle" => SetPages = marked

(* Every call of mark_dirty returns: the loop of line 276 terminates.      *)
CallReturns == (pc = "loop") ~> (pc = "idle")
=============================================================================
