------------------------ MODULE MarkDirtyLoopProofs ------------------------
(***************************************************************************)
(* mark_dirty never writes outside its bitmap, for every word size, page  *)
(* size and uint32 width, as long as the offsets SQLite passes keep the    *)
(* end page below 2^32 - 32 (NoPageWrap).  The page_wrap run shows that   *)
(* the hypothesis is needed.                                               *)
(***************************************************************************)
EXTENDS MarkDirtyLoop, TLAPS

USE LoopConstantsAssumption, UintAssumption

(* The inductive invariant: the bitmap holds totalPages bits, and inside  *)
(* the loop endPage is below totalPages.                                   *)
LoopInv ==
    /\ pc \in {"idle", "loop"}
    /\ {startPage, endPage, i, totalPages, bitmapSize} \subseteq Nat
    /\ totalPages <= bitmapSize * WordBits
    /\ pc = "loop" => endPage < totalPages
    /\ ~overflow

(* Why the bitmap matches the calls: inside the loop it holds the pages    *)
(* of the completed calls and those the current call has set so far,       *)
(* startPage .. i - 1; i runs from startPage to endPage + 1 without        *)
(* wrapping; and the words the bitmap owns are words of WordIndex.         *)
MatchInv ==
    /\ LoopInv
    /\ words \in [WordIndex -> SUBSET Nat]
    /\ bitmapSize <= UINT \div WordBits
    /\ pc = "loop" => /\ startPage <= i
                      /\ i <= endPage + 1 \/ i = startPage
                      /\ endPage + 1 < UINT
    /\ SetPages = IF pc = "idle" THEN marked ELSE marked \cup (startPage .. (i - 1))

(* A page below the bits of b words lies in one of them.                   *)
LEMMA WordOfPage ==
    ASSUME NEW p \in Nat, NEW b \in Nat, p < b * WordBits
    PROVE  p \div WordBits < b
<1>1. (p \div WordBits) * WordBits <= p /\ p \div WordBits \in Nat OBVIOUS
<1> QED BY <1>1

(* The word count of line 249 holds req bits, when the sum does not wrap. *)
LEMMA CeilBits ==
    ASSUME NEW r \in Nat, r + WordBits - 1 < UINT
    PROVE  /\ NewBitmapSize(r) \in Nat
           /\ r <= NewBitmapSize(r) * WordBits
<1>1. NewBitmapSize(r) = (r + WordBits - 1) \div WordBits
  <2>1. (r + WordBits - 1) % UINT = r + WordBits - 1 OBVIOUS
  <2> QED BY <2>1 DEF NewBitmapSize
<1> DEFINE q == (r + WordBits - 1) \div WordBits
           m == (r + WordBits - 1) % WordBits
<1>2. r + WordBits - 1 = q * WordBits + m /\ m \in 0 .. WordBits - 1 /\ q \in Nat
  OBVIOUS
<1> QED BY <1>1, <1>2

(* Under NoPageWrap, the page numbers of a call are the exact quotients.  *)
LEMMA CallArith ==
    ASSUME NoPageWrap, NEW o \in Offsets, NEW a \in Amounts
    PROVE  LET ep == ((o + a - 1) \div PageSize) % UINT
               req == (ep + 1) % UINT
           IN  /\ (o \div PageSize) % UINT \in Nat
               /\ ep \in Nat
               /\ req = ep + 1
               /\ req + WordBits - 1 < UINT
<1>1. (o + a - 1) \div PageSize + WordBits < UINT /\ (o + a - 1) \div PageSize \in Nat
  BY DEF NoPageWrap
<1>2. ((o + a - 1) \div PageSize) % UINT = (o + a - 1) \div PageSize BY <1>1
<1>3. ((o + a - 1) \div PageSize + 1) % UINT = (o + a - 1) \div PageSize + 1 BY <1>1
<1> QED BY <1>1, <1>2, <1>3

-----------------------------------------------------------------------------
(* Word and bit index arithmetic of lines 278-280.                         *)

(* Dividing by the word size is monotonic.                                 *)
LEMMA WordDivMono ==
    ASSUME NEW x \in Nat, NEW y \in Nat, x <= y
    PROVE  x \div WordBits <= y \div WordBits /\ x \div WordBits \in Nat
<1>1. (x \div WordBits) * WordBits <= x /\ y < (y \div WordBits + 1) * WordBits
      /\ x \div WordBits \in Nat
  OBVIOUS
<1> QED BY <1>1

(* A page is determined by its word index i / 32 and bit index i % 32.     *)
LEMMA WordBitUnique ==
    ASSUME NEW p \in Nat, NEW q \in Nat,
           p \div WordBits = q \div WordBits, p % WordBits = q % WordBits
    PROVE  p = q
<1> DEFINE w == p \div WordBits
           m == p % WordBits
<1>1. p = w * WordBits + m OBVIOUS
<1>2. q = w * WordBits + m OBVIOUS
<1> HIDE DEF w, m
<1> QED BY <1>1, <1>2

(* The word count of line 249 is a count of uint32_t-addressable words.    *)
LEMMA SizeInWords ==
    ASSUME NEW r \in Nat, r + WordBits - 1 < UINT
    PROVE  NewBitmapSize(r) <= UINT \div WordBits
<1>1. NewBitmapSize(r) = (r + WordBits - 1) \div WordBits
  <2>1. (r + WordBits - 1) % UINT = r + WordBits - 1 OBVIOUS
  <2> QED BY <2>1 DEF NewBitmapSize
<1>2. r + WordBits - 1 \in Nat /\ UINT \in Nat /\ r + WordBits - 1 <= UINT OBVIOUS
<1> QED BY <1>1, <1>2, WordDivMono

LEMMA InitLoopInv == Init => LoopInv
BY DEF Init, LoopInv

(* One call, one iteration or the return keeps LoopInv.  The growth of     *)
(* lines 246-273 leaves totalPages within the bitmap whichever branch it  *)
(* takes, and the loop test i <= endPage < totalPages keeps i's word      *)
(* inside the bitmap.                                                      *)
LEMMA LoopInvStep ==
    ASSUME NoPageWrap
    PROVE  LoopInv /\ [Next]_vars => LoopInv'
<1> SUFFICES ASSUME LoopInv, [Next]_vars PROVE LoopInv' OBVIOUS
<1>1. CASE \E o \in Offsets, a \in Amounts : Call(o, a)
  <2>1. PICK o \in Offsets, a \in Amounts : Call(o, a) BY <1>1
  <2> DEFINE sp  == (o \div PageSize) % UINT
             ep  == ((o + a - 1) \div PageSize) % UINT
             req == (ep + 1) % UINT
             nbs == NewBitmapSize(req)
  <2>2. sp \in Nat /\ ep \in Nat /\ req = ep + 1 /\ req + WordBits - 1 < UINT
    BY CallArith
  <2>3. nbs \in Nat /\ req <= nbs * WordBits
    BY <2>2, CeilBits
  <2>4. pc = "idle" /\ UNCHANGED <<overflow, marked>> BY <2>1 DEF Call
  <2>5. CASE /\ req > totalPages /\ nbs > bitmapSize
             /\ bitmapSize' = nbs /\ totalPages' = req /\ EnterLoop(sp, ep)
    BY <2>2, <2>3, <2>4, <2>5 DEF LoopInv, EnterLoop
  <2>6. CASE UNCHANGED <<pc, startPage, endPage, i, totalPages, bitmapSize, words>>
    BY <2>4, <2>6 DEF LoopInv
  <2>7. CASE /\ req > totalPages /\ nbs <= bitmapSize
             /\ totalPages' = req /\ EnterLoop(sp, ep) /\ UNCHANGED bitmapSize
    <3>1. nbs * WordBits <= bitmapSize * WordBits BY <2>3, <2>7 DEF LoopInv
    <3> QED BY <2>2, <2>3, <2>4, <2>7, <3>1 DEF LoopInv, EnterLoop
  <2>8. CASE /\ req <= totalPages /\ EnterLoop(sp, ep)
             /\ UNCHANGED <<totalPages, bitmapSize>>
    BY <2>2, <2>4, <2>8 DEF LoopInv, EnterLoop
  <2> QED BY <2>1, <2>5, <2>6, <2>7, <2>8 DEF Call
<1>2. CASE LoopStep
  <2>1. i \div WordBits < bitmapSize
    <3>1. i < bitmapSize * WordBits /\ i \in Nat /\ bitmapSize \in Nat
      BY <1>2 DEF LoopStep, LoopInv
    <3> QED BY <3>1, WordOfPage
  <2>2. UNCHANGED overflow BY <1>2, <2>1 DEF LoopStep, SetBit
  <2>3. i' \in Nat BY <1>2 DEF LoopStep, NextPage, LoopInv
  <2> QED BY <1>2, <2>2, <2>3 DEF LoopStep, LoopInv
<1>3. CASE LoopExit BY <1>3 DEF LoopExit, LoopInv
<1>4. CASE UNCHANGED vars BY <1>4 DEF vars, LoopInv
<1> QED BY <1>1, <1>2, <1>3, <1>4 DEF Next

(* mark_dirty never sets a bit past the words realloc gave the tracker     *)
(* (no heap overflow at line 280), whatever the word size, page size and  *)
(* uint32 width, for every sequence of calls whose pages stay below       *)
(* 2^32 - 32.                                                              *)
THEOREM LoopNeverOverflows ==
    ASSUME NoPageWrap
    PROVE  Spec => []LoopInBounds
<1>1. LoopInv => LoopInBounds BY DEF LoopInv, LoopInBounds
<1>2. LoopInv /\ [Next]_vars => LoopInv' BY LoopInvStep
<1> QED BY <1>1, <1>2, InitLoopInv, PTL DEF Spec
-----------------------------------------------------------------------------
(* Why the bitmap matches the calls.                                       *)

LEMMA InitMatchInv == Init => MatchInv
<1> SUFFICES ASSUME Init PROVE MatchInv OBVIOUS
<1>1. LoopInv BY InitLoopInv
<1>2. SetPages = {} BY DEF Init, SetPages
<1>3. 0 <= UINT \div WordBits BY WordDivMono
<1> QED BY <1>1, <1>2, <1>3 DEF Init, MatchInv

(* realloc to nbs words and zeroing the words past the old size adds no    *)
(* page to the bitmap (line 265).                                          *)
LEMMA GrowKeepsPages ==
    ASSUME MatchInv, NEW nbs \in Nat, nbs > bitmapSize, nbs <= UINT \div WordBits,
           Grow(nbs), bitmapSize' = nbs
    PROVE  SetPages' = SetPages /\ words' \in [WordIndex -> SUBSET Nat]
<1>1. bitmapSize \in Nat /\ words \in [WordIndex -> SUBSET Nat] BY DEF MatchInv, LoopInv
<1>2. words' \in [WordIndex -> SUBSET Nat] BY <1>1 DEF Grow
<1>3. ASSUME NEW p \in 0 .. (UINT - 1)
      PROVE  (p \div WordBits < bitmapSize' /\ p % WordBits \in words'[p \div WordBits])
             <=> (p \div WordBits < bitmapSize /\ p % WordBits \in words[p \div WordBits])
  <2>1. p \div WordBits \in Nat BY WordDivMono
  <2>2. CASE p \div WordBits < nbs
    <3>1. p \div WordBits \in WordIndex BY <2>1, <2>2 DEF WordIndex
    <3> QED BY <1>1, <2>2, <3>1 DEF Grow
  <2>3. CASE ~(p \div WordBits < nbs) BY <1>1, <2>1, <2>3
  <2> QED BY <2>2, <2>3
<1> QED BY <1>2, <1>3 DEF SetPages

(* Setting bit i % 32 of word i / 32 adds page i and no other (278-280).   *)
LEMMA SetBitAddsPage ==
    ASSUME MatchInv, NEW p \in 0 .. (UINT - 1), p \div WordBits < bitmapSize,
           SetBit(p), UNCHANGED bitmapSize
    PROVE  SetPages' = SetPages \cup {p} /\ words' \in [WordIndex -> SUBSET Nat]
<1>1. bitmapSize \in Nat /\ bitmapSize <= UINT \div WordBits
      /\ words \in [WordIndex -> SUBSET Nat]
  BY DEF MatchInv, LoopInv
<1> DEFINE k == p \div WordBits
<1>2. k \in WordIndex
  <2>1. k \in Nat BY WordDivMono
  <2> QED BY <1>1, <2>1 DEF WordIndex
<1>3. words' = [words EXCEPT ![k] = words[k] \cup {p % WordBits}] BY DEF SetBit
<1>4. words' \in [WordIndex -> SUBSET Nat] BY <1>1, <1>2, <1>3
<1>5. ASSUME NEW q \in 0 .. (UINT - 1), q \div WordBits < bitmapSize
      PROVE  q % WordBits \in words'[q \div WordBits]
             <=> q % WordBits \in words[q \div WordBits] \/ q = p
  <2>1. q \div WordBits \in WordIndex
    <3>1. q \div WordBits \in Nat BY WordDivMono
    <3> QED BY <1>1, <1>5, <3>1 DEF WordIndex
  <2>2. q \div WordBits = k /\ q % WordBits = p % WordBits <=> q = p
    <3>1. p \in Nat /\ q \in Nat OBVIOUS
    <3> QED BY <3>1, WordBitUnique
  <2>3. CASE q \div WordBits = k BY <1>1, <1>2, <1>3, <2>2, <2>3
  <2>4. CASE q \div WordBits # k BY <1>1, <1>3, <2>1, <2>4
  <2> QED BY <2>3, <2>4
<1> QED BY <1>4, <1>5 DEF SetPages

(* A call leaves the bitmap's pages alone (it only grows it, and zeroes    *)
(* what it adds), an iteration adds page i and moves i on by one without  *)
(* wrapping, and the return closes startPage .. endPage into marked.       *)
LEMMA MatchInvStep ==
    ASSUME NoPageWrap
    PROVE  MatchInv /\ [Next]_vars => MatchInv'
<1> SUFFICES ASSUME MatchInv, [Next]_vars PROVE MatchInv' OBVIOUS
<1>1. LoopInv' BY LoopInvStep DEF MatchInv
<1>2. LoopInv BY DEF MatchInv
<1>3. CASE \E o \in Offsets, a \in Amounts : Call(o, a)
  <2>1. PICK o \in Offsets, a \in Amounts : Call(o, a) BY <1>3
  <2> DEFINE sp  == (o \div PageSize) % UINT
             ep  == ((o + a - 1) \div PageSize) % UINT
             req == (ep + 1) % UINT
             nbs == NewBitmapSize(req)
  <2>2. sp \in Nat /\ ep \in Nat /\ req = ep + 1 /\ req + WordBits - 1 < UINT
    BY CallArith
  <2>3. nbs \in Nat /\ nbs <= UINT \div WordBits BY <2>2, CeilBits, SizeInWords
  <2>4. pc = "idle" /\ UNCHANGED <<overflow, marked>> BY <2>1 DEF Call
  <2>5. SetPages = marked BY <2>4 DEF MatchInv
  <2>6. ep + 1 < UINT BY <2>2
  <2>7. CASE /\ req > totalPages /\ nbs > bitmapSize /\ Grow(nbs)
             /\ bitmapSize' = nbs /\ totalPages' = req /\ EnterLoop(sp, ep)
    <3>1. SetPages' = SetPages /\ words' \in [WordIndex -> SUBSET Nat]
      BY <2>3, <2>7, GrowKeepsPages
    <3> QED BY <1>1, <2>2, <2>3, <2>4, <2>5, <2>6, <2>7, <3>1 DEF MatchInv, EnterLoop
  <2>8. CASE UNCHANGED <<pc, startPage, endPage, i, totalPages, bitmapSize, words>>
    BY <1>1, <2>4, <2>8 DEF MatchInv, SetPages
  <2>9. CASE /\ UNCHANGED <<words, bitmapSize>> /\ EnterLoop(sp, ep)
    <3>1. SetPages' = SetPages BY <2>9 DEF SetPages
    <3> QED BY <1>1, <2>2, <2>4, <2>5, <2>6, <2>9, <3>1 DEF MatchInv, EnterLoop
  <2> QED BY <2>1, <2>7, <2>8, <2>9 DEF Call
<1>4. CASE LoopStep
  <2>1. /\ {i, endPage, startPage} \subseteq Nat
        /\ i <= endPage /\ endPage + 1 < UINT /\ startPage <= i
    BY <1>2, <1>4 DEF LoopStep, MatchInv, LoopInv
  <2>2. i \div WordBits < bitmapSize
    <3>1. i < totalPages /\ totalPages <= bitmapSize * WordBits /\ {totalPages, bitmapSize} \subseteq Nat
      BY <1>2, <1>4, <2>1 DEF LoopStep, LoopInv
    <3>2. i < bitmapSize * WordBits BY <2>1, <3>1
    <3> QED BY <2>1, <3>1, <3>2, WordOfPage
  <2>3. i \in 0 .. (UINT - 1) BY <2>1
  <2>4. SetBit(i) /\ UNCHANGED bitmapSize BY <1>4 DEF LoopStep
  <2>5. SetPages' = SetPages \cup {i} /\ words' \in [WordIndex -> SUBSET Nat]
    BY <2>2, <2>3, <2>4, SetBitAddsPage
  <2>6. i' = i + 1
    <3>1. i' = (i + 1) % UINT BY <1>4 DEF LoopStep, NextPage
    <3>2. i + 1 \in 0 .. (UINT - 1) BY <2>1
    <3> QED BY <3>1, <3>2
  <2>7. SetPages = marked \cup (startPage .. (i - 1)) BY <1>4 DEF LoopStep, MatchInv
  <2>8. SetPages' = marked \cup (startPage .. (i' - 1)) BY <2>1, <2>5, <2>6, <2>7
  <2>9. UNCHANGED <<pc, startPage, endPage, bitmapSize, marked>> BY <1>4 DEF LoopStep
  <2>10. pc' = "loop" BY <1>4, <2>9 DEF LoopStep
  <2>11. startPage' <= i' /\ i' <= endPage' + 1 /\ endPage' + 1 < UINT BY <2>1, <2>6, <2>9
  <2>12. bitmapSize' <= UINT \div WordBits BY <2>9 DEF MatchInv
  <2> QED BY <1>1, <2>5, <2>8, <2>9, <2>10, <2>11, <2>12 DEF MatchInv
<1>5. CASE LoopExit
  <2>1. /\ i \in Nat /\ endPage \in Nat /\ ~(i <= endPage) /\ startPage <= i
        /\ (i <= endPage + 1 \/ i = startPage)
    BY <1>2, <1>5 DEF LoopExit, MatchInv, LoopInv
  <2>2. startPage .. (i - 1) = startPage .. endPage BY <2>1
  <2>3. SetPages' = SetPages BY <1>5 DEF LoopExit, SetPages
  <2> QED BY <1>1, <1>5, <2>2, <2>3 DEF LoopExit, MatchInv
<1>6. CASE UNCHANGED vars BY <1>1, <1>6 DEF vars, MatchInv, SetPages
<1> QED BY <1>3, <1>4, <1>5, <1>6 DEF Next

(* Between calls the bitmap holds exactly the pages of the completed calls *)
(* of mark_dirty, for every word size, page size and uint32 width, as long *)
(* as the pages stay below 2^32 - 32: the word and bit index of lines      *)
(* 278-280 address each page alone, the zeroing of line 265 leaves no      *)
(* stale bit, and a failed realloc sets nothing.                           *)
THEOREM CallsMatchBitmap ==
    ASSUME NoPageWrap
    PROVE  Spec => []BitmapMatchesCalls
<1>1. MatchInv => BitmapMatchesCalls BY DEF MatchInv, BitmapMatchesCalls
<1>2. MatchInv /\ [Next]_vars => MatchInv' BY MatchInvStep
<1> QED BY <1>1, <1>2, InitMatchInv, PTL DEF Spec
=============================================================================
