------------------------- MODULE VfsTrackingProofs -------------------------
(***************************************************************************)
(* Proofs about VfsTracking for every value of the constants that         *)
(* satisfies its assumptions: the type invariant, positive page sizes on  *)
(* every handle's tracker (no division by zero in mark_dirty) and the     *)
(* well-formedness of every live tracker's bitmap, for the whole life     *)
(* cycle including shutdown, re-initialization and stale handles.         *)
(***************************************************************************)
EXTENDS VfsTracking, TLAPS

USE WordBitsAssumption, PageWidthAssumption, DefaultPageSizeAssumption,
    InitPageSizesAssumption, NullAssumption, NamesAssumption, BoundsAssumption

(* 2^PageWidth is a positive natural number: it bounds MaxPages + WordBits. *)
LEMMA UintPositive == UINT \in Nat /\ UINT > 0
BY DEF UINT, MaxPages

(* Reducing a number below the modulus changes nothing.                   *)
LEMMA ModSmall ==
    ASSUME NEW x \in Nat, NEW n \in Nat, x < n
    PROVE  x % n = x
OBVIOUS

(* Integer division by a positive number is monotone.                     *)
LEMMA DivMono ==
    ASSUME NEW x \in Nat, NEW y \in Nat, NEW d \in Nat \ {0}, x <= y
    PROVE  x \div d <= y \div d /\ x \div d \in Nat
<1>1. (x \div d) * d <= x /\ y < (y \div d + 1) * d /\ x \div d \in Nat
  OBVIOUS
<1> QED BY <1>1

(* The bitmap size mark_dirty computes for r pages holds r bits.           *)
LEMMA CeilWords ==
    ASSUME NEW r \in Nat
    PROVE  /\ (r + WordBits - 1) \div WordBits \in Nat
           /\ r <= ((r + WordBits - 1) \div WordBits) * WordBits
<1> DEFINE q == (r + WordBits - 1) \div WordBits
           m == (r + WordBits - 1) % WordBits
<1>1. r + WordBits - 1 = q * WordBits + m /\ m \in 0 .. WordBits - 1 /\ q \in Nat
  OBVIOUS
<1> QED BY <1>1

(* The page arithmetic of mark_dirty does not wrap for the inputs SQLite   *)
(* can pass: start and end page, the required page count and the word     *)
(* count are the exact quotients, within MaxPages and MaxWords.            *)
LEMMA PageArith ==
    ASSUME NEW ps \in Nat \ {0}, NEW o \in 0 .. MaxOffset, NEW a \in 1 .. MaxAmount
    PROVE  /\ StartPage(ps, o) = o \div ps
           /\ EndPage(ps, o, a) = (o + a - 1) \div ps
           /\ StartPage(ps, o) \in Nat
           /\ EndPage(ps, o, a) \in 0 .. MaxPages - 1
           /\ Required(ps, o, a) = EndPage(ps, o, a) + 1
           /\ Required(ps, o, a) \in 1 .. MaxPages
           /\ NewBitmapSize(Required(ps, o, a))
                = (Required(ps, o, a) + WordBits - 1) \div WordBits
           /\ NewBitmapSize(Required(ps, o, a)) \in 0 .. MaxWords
           /\ Required(ps, o, a) <= NewBitmapSize(Required(ps, o, a)) * WordBits
<1>1. UINT \in Nat /\ MaxPages + WordBits <= UINT
  BY UintPositive
<1>2. o \div ps \in 0 .. MaxPages - 1 /\ (o + a - 1) \div ps \in 0 .. MaxPages - 1
  BY DEF MaxPages
<1>3. StartPage(ps, o) = o \div ps /\ EndPage(ps, o, a) = (o + a - 1) \div ps
  <2>1. (o \div ps) % UINT = o \div ps
    BY <1>1, <1>2, ModSmall DEF MaxPages
  <2>2. ((o + a - 1) \div ps) % UINT = (o + a - 1) \div ps
    BY <1>1, <1>2, ModSmall DEF MaxPages
  <2> QED BY <2>1, <2>2 DEF StartPage, EndPage
<1>4. Required(ps, o, a) = EndPage(ps, o, a) + 1
  <2>1. (EndPage(ps, o, a) + 1) % UINT = EndPage(ps, o, a) + 1
    BY <1>1, <1>2, <1>3, ModSmall DEF MaxPages
  <2> QED BY <2>1 DEF Required
<1>5. NewBitmapSize(Required(ps, o, a)) = (Required(ps, o, a) + WordBits - 1) \div WordBits
  <2>1. (Required(ps, o, a) + WordBits - 1) % UINT = Required(ps, o, a) + WordBits - 1
    BY <1>1, <1>2, <1>3, <1>4, ModSmall DEF MaxPages
  <2> QED BY <2>1 DEF NewBitmapSize
<1>6. (Required(ps, o, a) + WordBits - 1) \div WordBits \in 0 .. MaxWords
  <2>1. Required(ps, o, a) \in 1 .. MaxPages
    BY <1>2, <1>3, <1>4 DEF MaxPages
  <2> DEFINE R == Required(ps, o, a)
  <2>2. R + WordBits - 1 \in Nat /\ MaxPages + WordBits - 1 \in Nat
        /\ R + WordBits - 1 <= MaxPages + WordBits - 1
    BY <2>1 DEF MaxPages
  <2> HIDE DEF R
  <2>3. (R + WordBits - 1) \div WordBits <= (MaxPages + WordBits - 1) \div WordBits
        /\ (R + WordBits - 1) \div WordBits \in Nat
    BY <2>2, DivMono
  <2> QED BY <2>3 DEF MaxWords, R
<1>7. Required(ps, o, a) <= NewBitmapSize(Required(ps, o, a)) * WordBits
  BY <1>2, <1>3, <1>4, <1>5, CeilWords
<1> QED BY <1>2, <1>3, <1>4, <1>5, <1>6, <1>7 DEF MaxPages

-----------------------------------------------------------------------------
(* Why no tracker a handle can reach has page size 0.  Trackers made       *)
(* before the first vfs_tracking_init get g_state.defaultPageSize = 0;     *)
(* init drops them from the list, and from then on the default is          *)
(* positive for good (shutdown leaves it).  A handle is opened only while  *)
(* the VFS is registered, hence after an init; a slot it points to that    *)
(* calloc hands out again gets that positive default.                      *)
PageSizeInv ==
    /\ registered => realVfs
    /\ realVfs => defaultPageSize > 0 /\ \A s \in files : pageSize[s] > 0
    /\ \A h \in Handles : hOpen[h] => defaultPageSize > 0
    /\ NoZeroPageSize

(* The inductive invariant.                                                *)
IInv == TypeOK /\ PageSizeInv /\ BitmapWellFormed

-----------------------------------------------------------------------------
(* The bitmap of slot s is well formed (the conjunct of BitmapWellFormed). *)
SlotWF(s) ==
    /\ totalPages[s] <= bitmapSize[s] * WordBits
    /\ dirty[s] \subseteq 0 .. (totalPages[s] - 1)

LEMMA BitmapWellFormedSlots ==
    BitmapWellFormed <=> \A s \in allocated : SlotWF(s)
BY DEF BitmapWellFormed, SlotWF

(* A completed mark_dirty on a slot with a positive page size keeps its    *)
(* fields within their types and keeps its bitmap well formed.  This is    *)
(* where the growth logic matters: growing totalPages inside the last word *)
(* without a realloc is safe because that word already holds the page.     *)
LEMMA MarkDirtyOkSlot ==
    ASSUME TypeOK,
           NEW s \in Slots, pageSize[s] \in Nat \ {0},
           NEW o \in 0 .. MaxOffset, NEW a \in 1 .. MaxAmount,
           MarkDirtyOk(s, o, a)
    PROVE  /\ totalPages' = [totalPages EXCEPT ![s] = totalPages'[s]]
           /\ bitmapSize' = [bitmapSize EXCEPT ![s] = bitmapSize'[s]]
           /\ dirty' = [dirty EXCEPT ![s] = dirty'[s]]
           /\ totalPages'[s] \in 0 .. MaxPages
           /\ bitmapSize'[s] \in 0 .. MaxWords
           /\ dirty'[s] \subseteq 0 .. (MaxPages - 1)
           /\ SlotWF(s) => SlotWF(s)'
<1> DEFINE ps == pageSize[s]
           req == Required(ps, o, a)
           nbs == NewBitmapSize(req)
           tp == totalPages[s]
           bs == bitmapSize[s]
           M == Marked(s, o, a)
           NR == NeedsRealloc(s, o, a)
<1>1. /\ req \in 1 .. MaxPages
      /\ nbs \in 0 .. MaxWords
      /\ req <= nbs * WordBits
      /\ M \subseteq 0 .. (req - 1)
  <2>1. /\ StartPage(ps, o) \in Nat
        /\ EndPage(ps, o, a) \in 0 .. MaxPages - 1
        /\ req = EndPage(ps, o, a) + 1
        /\ req \in 1 .. MaxPages
        /\ nbs \in 0 .. MaxWords
        /\ req <= nbs * WordBits
    BY PageArith
  <2>2. M = StartPage(ps, o) .. EndPage(ps, o, a) BY DEF Marked
  <2> QED BY <2>1, <2>2
<1>2. /\ NR <=> req > tp /\ nbs > bs
      /\ totalPages' = [totalPages EXCEPT ![s] = IF req > tp THEN req ELSE tp]
      /\ bitmapSize' = [bitmapSize EXCEPT ![s] = IF NR THEN nbs ELSE bs]
      /\ dirty' = [dirty EXCEPT ![s] = IF NR THEN (dirty[s] \ NewWords(s, nbs)) \cup M
                                      ELSE dirty[s] \cup M]
  BY DEF MarkDirtyOk, NeedsRealloc, NeedsGrow
<1> HIDE DEF ps, req, nbs, M, NR
<1>0. NR \in BOOLEAN BY <1>2
<1>3. tp \in 0 .. MaxPages /\ bs \in 0 .. MaxWords /\ dirty[s] \subseteq 0 .. (MaxPages - 1)
  BY DEF TypeOK, tp, bs
<1>4. totalPages'[s] = IF req > tp THEN req ELSE tp
  BY <1>2, <1>3 DEF TypeOK
<1>5. bitmapSize'[s] = IF NR THEN nbs ELSE bs
  BY <1>2, <1>3 DEF TypeOK
<1>6. dirty'[s] = IF NR THEN (dirty[s] \ NewWords(s, nbs)) \cup M ELSE dirty[s] \cup M
  BY <1>2, <1>3 DEF TypeOK
<1>7. dirty'[s] \subseteq dirty[s] \cup M
  BY <1>0, <1>6, Zenon
<1>8. totalPages'[s] \in 0 .. MaxPages /\ bitmapSize'[s] \in 0 .. MaxWords
  BY <1>0, <1>1, <1>3, <1>4, <1>5
<1>9. dirty'[s] \subseteq 0 .. (MaxPages - 1)
  <2>1. M \subseteq 0 .. (MaxPages - 1) BY <1>1 DEF MaxPages
  <2> QED BY <1>3, <1>7, <2>1, Zenon
<1>10. ASSUME SlotWF(s) PROVE SlotWF(s)'
  <2>1. tp <= bs * WordBits /\ dirty[s] \subseteq 0 .. (tp - 1)
    BY <1>10 DEF SlotWF, tp, bs
  <2>2. SUFFICES /\ totalPages'[s] <= bitmapSize'[s] * WordBits
                 /\ dirty[s] \cup M \subseteq 0 .. (totalPages'[s] - 1)
    BY <1>7 DEF SlotWF
  <2>3. CASE NR
    <3>1. req > tp /\ totalPages'[s] = req /\ bitmapSize'[s] = nbs
      BY <1>0, <1>2, <1>4, <1>5, <2>3
    <3>2. 0 .. (tp - 1) \subseteq 0 .. (req - 1) BY <1>1, <1>3, <3>1
    <3> QED BY <1>1, <2>1, <3>1, <3>2
  <2>4. CASE ~NR /\ req > tp
    <3>1. nbs <= bs BY <1>1, <1>2, <1>3, <2>4
    <3>2. nbs * WordBits <= bs * WordBits BY <1>1, <1>3, <3>1
    <3>3. totalPages'[s] = req /\ bitmapSize'[s] = bs
      BY <1>0, <1>4, <1>5, <2>4
    <3>4. 0 .. (tp - 1) \subseteq 0 .. (req - 1) BY <1>1, <1>3, <2>4
    <3>5. totalPages'[s] <= bitmapSize'[s] * WordBits
      BY <1>1, <1>3, <3>2, <3>3
    <3>6. dirty[s] \cup M \subseteq 0 .. (totalPages'[s] - 1)
      BY <1>1, <2>1, <3>3, <3>4
    <3> QED BY <3>5, <3>6
  <2>5. CASE ~NR /\ ~(req > tp)
    <3>1. totalPages'[s] = tp /\ bitmapSize'[s] = bs
      BY <1>0, <1>4, <1>5, <2>5
    <3>2. 0 .. (req - 1) \subseteq 0 .. (tp - 1) BY <1>1, <1>3, <2>5
    <3> QED BY <1>1, <2>1, <3>1, <3>2
  <2> QED BY <2>3, <2>4, <2>5
<1> QED BY <1>2, <1>8, <1>9, <1>10 DEF TypeOK

-----------------------------------------------------------------------------
(* A tracker get_file creates on slot s gets the default page size, an     *)
(* empty bitmap, and leaves every other slot as it was.                    *)
LEMMA CreateTrackerFacts ==
    ASSUME TypeOK, NEW key \in Paths, NEW s \in Slots, NEW open \in BOOLEAN,
           CreateTracker(key, s, open)
    PROVE  /\ allocated' = allocated \cup {s} /\ files' = files \cup {s}
           /\ s \notin allocated
           /\ fname' \in [Slots -> Paths \cup {NULL}]
           /\ pageSize' = [pageSize EXCEPT ![s] = defaultPageSize]
           /\ totalPages' = [totalPages EXCEPT ![s] = 0]
           /\ bitmapSize' = [bitmapSize EXCEPT ![s] = 0]
           /\ dirty' = [dirty EXCEPT ![s] = {}]
           /\ isOpen' \in [Slots -> BOOLEAN]
BY DEF CreateTracker, StrdupResult, TypeOK

LEMMA NormalizeType == \A p \in Paths : Normalize(p) \in Paths
BY DEF Normalize, Paths

(* FilePages of an access stays within the page range when the default     *)
(* page size is positive.                                                  *)
LEMMA FilePagesType ==
    ASSUME NEW o \in 0 .. MaxOffset, NEW a \in 1 .. MaxAmount,
           defaultPageSize \in Nat \ {0}
    PROVE  FilePages(o, a) \subseteq 0 .. (MaxPages - 1)
<1>1. /\ StartPage(defaultPageSize, o) = o \div defaultPageSize
      /\ EndPage(defaultPageSize, o, a) = (o + a - 1) \div defaultPageSize
      /\ StartPage(defaultPageSize, o) \in Nat
      /\ EndPage(defaultPageSize, o, a) \in 0 .. MaxPages - 1
  BY PageArith
<1> DEFINE lo == o \div defaultPageSize
           hi == (o + a - 1) \div defaultPageSize
<1>2. lo \in Nat /\ hi \in 0 .. MaxPages - 1 BY <1>1
<1> HIDE DEF lo, hi
<1>3. lo .. hi \subseteq 0 .. (MaxPages - 1) BY <1>2 DEF MaxPages
<1>4. FilePages(o, a) = lo .. hi BY DEF FilePages, lo, hi
<1> QED BY <1>3, <1>4

(* The ghost bookkeeping keeps the ghost variables in their types.         *)
LEMMA TouchType ==
    ASSUME TypeOK, NEW f \in Names \cup {NULL}, NEW P, NEW tracked \in BOOLEAN,
           P \subseteq 0 .. (MaxPages - 1), Touch(f, P, tracked)
    PROVE  /\ touched' \in [Names -> SUBSET (0 .. (MaxPages - 1))]
           /\ dropped' \in [Names -> SUBSET (0 .. (MaxPages - 1))]
<1>1. CASE f = NULL BY <1>1 DEF Touch, TypeOK, ghostVars
<1>2. CASE f \in Names
  <2>1. /\ touched' = [touched EXCEPT ![f] = touched[f] \cup P]
        /\ dropped' \in {[dropped EXCEPT ![f] = dropped[f] \ P],
                          [dropped EXCEPT ![f] = dropped[f] \cup P]}
    BY <1>2, NullAssumption DEF Touch
  <2> DEFINE R == SUBSET (0 .. (MaxPages - 1))
  <2>2. touched \in [Names -> R] /\ dropped \in [Names -> R]
    BY DEF TypeOK
  <2>3. /\ touched[f] \cup P \in R
        /\ dropped[f] \ P \in R /\ dropped[f] \cup P \in R
    BY <1>2, <2>2, Zenon
  <2> HIDE DEF R
  <2>4. touched' \in [Names -> R] BY <1>2, <2>1, <2>2, <2>3
  <2>6. dropped' \in [Names -> R] BY <1>2, <2>1, <2>2, <2>3
  <2> QED BY <2>4, <2>6 DEF R
<1> QED BY <1>1, <1>2

-----------------------------------------------------------------------------
(* The step cases, one per operation.                                      *)

LEMMA VfsInitStep ==
    ASSUME IInv, NEW ps \in InitPageSizes, VfsInit(ps) PROVE IInv'
<1>1. TypeOK' BY DEF IInv, TypeOK, VfsInit, RcValues, handleVars, ghostVars
<1>2. PageSizeInv'
  BY DEF IInv, PageSizeInv, NoZeroPageSize, TypeOK, VfsInit, handleVars
<1>3. BitmapWellFormed' BY DEF IInv, BitmapWellFormed, VfsInit
<1> QED BY <1>1, <1>2, <1>3 DEF IInv

LEMMA ShutdownStep == ASSUME IInv, Shutdown PROVE IInv'
<1>1. TypeOK' BY DEF IInv, TypeOK, Shutdown, handleVars
<1>2. PageSizeInv'
  BY DEF IInv, PageSizeInv, NoZeroPageSize, Shutdown, handleVars
<1>3. BitmapWellFormed' BY DEF IInv, BitmapWellFormed, Shutdown
<1> QED BY <1>1, <1>2, <1>3 DEF IInv

LEMMA OpenAnonStep ==
    ASSUME IInv, NEW h \in Handles, OpenAnon(h) PROVE IInv'
<1>1. TypeOK' BY DEF IInv, TypeOK, OpenAnon, registryVars, trackerVars, ghostVars
<1>2. PageSizeInv'
  BY DEF IInv, PageSizeInv, NoZeroPageSize, TypeOK, OpenAnon, registryVars, trackerVars
<1>3. BitmapWellFormed' BY DEF IInv, BitmapWellFormed, OpenAnon, trackerVars
<1> QED BY <1>1, <1>2, <1>3 DEF IInv

LEMMA CloseStep ==
    ASSUME IInv, NEW h \in Handles, Close(h) PROVE IInv'
<1>1. TypeOK' BY DEF IInv, TypeOK, Close, registryVars, ghostVars
<1>2. PageSizeInv'
  BY DEF IInv, PageSizeInv, NoZeroPageSize, TypeOK, Close, registryVars
<1>3. BitmapWellFormed' BY DEF IInv, BitmapWellFormed, Close
<1> QED BY <1>1, <1>2, <1>3 DEF IInv

(* get_file's creation branch keeps the tracker fields in their types and  *)
(* every live bitmap well formed; the new tracker takes the default page   *)
(* size, which is positive once the VFS is initialized.                    *)
LEMMA CreateTrackerInv ==
    ASSUME IInv, NEW key \in Paths, NEW s \in Slots, NEW open \in BOOLEAN,
           CreateTracker(key, s, open), UNCHANGED <<realVfs, defaultPageSize>>
    PROVE  /\ allocated' \subseteq Slots /\ files' \subseteq allocated'
           /\ fname' \in [Slots -> Paths \cup {NULL}]
           /\ pageSize' \in [Slots -> Nat]
           /\ totalPages' \in [Slots -> 0 .. MaxPages]
           /\ bitmapSize' \in [Slots -> 0 .. MaxWords]
           /\ dirty' \in [Slots -> SUBSET (0 .. (MaxPages - 1))]
           /\ isOpen' \in [Slots -> BOOLEAN]
           /\ BitmapWellFormed'
           /\ realVfs => \A t \in files' : pageSize'[t] > 0
           /\ \A t \in Slots : pageSize'[t] \in {pageSize[t], defaultPageSize}
<1>1. TypeOK /\ PageSizeInv /\ BitmapWellFormed BY DEF IInv
<1>2. /\ allocated' = allocated \cup {s} /\ files' = files \cup {s}
      /\ s \notin allocated
      /\ fname' \in [Slots -> Paths \cup {NULL}]
      /\ pageSize' = [pageSize EXCEPT ![s] = defaultPageSize]
      /\ totalPages' = [totalPages EXCEPT ![s] = 0]
      /\ bitmapSize' = [bitmapSize EXCEPT ![s] = 0]
      /\ dirty' = [dirty EXCEPT ![s] = {}]
      /\ isOpen' \in [Slots -> BOOLEAN]
  BY <1>1, CreateTrackerFacts
<1>3. BitmapWellFormed'
  BY <1>1, <1>2 DEF BitmapWellFormed, TypeOK
<1>4. realVfs => \A t \in files' : pageSize'[t] > 0
  BY <1>1, <1>2 DEF PageSizeInv, TypeOK
<1>5. pageSize' \in [Slots -> Nat]
      /\ \A t \in Slots : pageSize'[t] \in {pageSize[t], defaultPageSize}
  BY <1>1, <1>2 DEF TypeOK
<1>6. /\ totalPages' \in [Slots -> 0 .. MaxPages]
      /\ bitmapSize' \in [Slots -> 0 .. MaxWords]
      /\ dirty' \in [Slots -> SUBSET (0 .. (MaxPages - 1))]
  <2>1. 0 \in 0 .. MaxPages /\ 0 \in 0 .. MaxWords BY DEF MaxPages, MaxWords
  <2> QED BY <1>1, <1>2, <2>1 DEF TypeOK
<1> QED BY <1>1, <1>2, <1>3, <1>4, <1>5, <1>6 DEF TypeOK

LEMMA OpenStep ==
    ASSUME IInv, NEW h \in Handles, NEW p \in Paths, Open(h, p) PROVE IInv'
<1>1. TypeOK /\ PageSizeInv /\ BitmapWellFormed BY DEF IInv
<1>2. /\ registered /\ realVfs /\ defaultPageSize > 0
      /\ hOpen' = [hOpen EXCEPT ![h] = TRUE]
      /\ hFile' = [hFile EXCEPT ![h] = p[1]]
      /\ UNCHANGED <<registryVars, ghostVars>>
  BY <1>1 DEF Open, PageSizeInv
<1>3. /\ p[1] \in Names /\ Normalize(p) \in Paths
  BY NormalizeType DEF Paths
<1>4. hOpen' \in [Handles -> BOOLEAN] /\ hFile' \in [Handles -> Names \cup {NULL}]
  BY <1>1, <1>2, <1>3 DEF TypeOK
<1> DEFINE key == Normalize(p)
<1>5. \/ \E s \in Found(key) :
            /\ hTracker' = [hTracker EXCEPT ![h] = s]
            /\ isOpen' = [isOpen EXCEPT ![s] = TRUE]
            /\ UNCHANGED <<allocated, files, fname, pageSize, totalPages, bitmapSize, dirty>>
      \/ \E s \in Slots \ allocated :
            /\ CreateTracker(key, s, TRUE)
            /\ hTracker' = [hTracker EXCEPT ![h] = s]
      \/ /\ hTracker' = [hTracker EXCEPT ![h] = NULL]
         /\ UNCHANGED trackerVars
  BY DEF Open
<1>6. \A g \in Handles \ {h} : hOpen'[g] = hOpen[g] /\ hTracker'[g] = hTracker[g]
  BY <1>1, <1>2, <1>5 DEF TypeOK
<1>7. /\ hOpen'[h] /\ \A g \in Handles : hOpen'[g] => defaultPageSize' > 0
      /\ registered' => realVfs'
      /\ realVfs' /\ defaultPageSize' = defaultPageSize
  BY <1>1, <1>2 DEF TypeOK, registryVars
<1>8. CASE \E s \in Found(key) :
            /\ hTracker' = [hTracker EXCEPT ![h] = s]
            /\ isOpen' = [isOpen EXCEPT ![s] = TRUE]
            /\ UNCHANGED <<allocated, files, fname, pageSize, totalPages, bitmapSize, dirty>>
  <2>1. PICK s \in Found(key) :
            /\ hTracker' = [hTracker EXCEPT ![h] = s]
            /\ isOpen' = [isOpen EXCEPT ![s] = TRUE]
            /\ UNCHANGED <<allocated, files, fname, pageSize, totalPages, bitmapSize, dirty>>
    BY <1>8
  <2>2. s \in files /\ s \in Slots /\ pageSize[s] > 0
    BY <1>1, <1>2 DEF Found, PageSizeInv, TypeOK
  <2>3. TypeOK' BY <1>1, <1>2, <1>4, <2>1, <2>2 DEF TypeOK, registryVars, ghostVars
  <2>4. NoZeroPageSize'
    BY <1>1, <1>6, <2>1, <2>2 DEF PageSizeInv, NoZeroPageSize, TypeOK
  <2>5. PageSizeInv' BY <1>1, <1>2, <1>7, <2>1, <2>4 DEF PageSizeInv
  <2>6. BitmapWellFormed' BY <1>1, <2>1 DEF BitmapWellFormed
  <2> QED BY <2>3, <2>5, <2>6 DEF IInv
<1>9. CASE \E s \in Slots \ allocated :
            /\ CreateTracker(key, s, TRUE)
            /\ hTracker' = [hTracker EXCEPT ![h] = s]
  <2>1. PICK s \in Slots \ allocated :
            /\ CreateTracker(key, s, TRUE)
            /\ hTracker' = [hTracker EXCEPT ![h] = s]
    BY <1>9
  <2>2. /\ allocated' \subseteq Slots /\ files' \subseteq allocated'
        /\ fname' \in [Slots -> Paths \cup {NULL}]
        /\ pageSize' \in [Slots -> Nat]
        /\ totalPages' \in [Slots -> 0 .. MaxPages]
        /\ bitmapSize' \in [Slots -> 0 .. MaxWords]
        /\ dirty' \in [Slots -> SUBSET (0 .. (MaxPages - 1))]
        /\ isOpen' \in [Slots -> BOOLEAN]
        /\ BitmapWellFormed'
        /\ realVfs => \A t \in files' : pageSize'[t] > 0
        /\ \A t \in Slots : pageSize'[t] \in {pageSize[t], defaultPageSize}
    <3>1. UNCHANGED <<realVfs, defaultPageSize>> BY <1>2 DEF registryVars
    <3> QED BY <1>3, <2>1, <3>1, CreateTrackerInv
  <2>3. pageSize'[s] = defaultPageSize
    BY <1>1, <2>1 DEF CreateTracker, TypeOK
  <2>4. TypeOK' BY <1>1, <1>2, <1>4, <2>1, <2>2 DEF TypeOK, registryVars, ghostVars
  <2>5. NoZeroPageSize'
    BY <1>1, <1>2, <1>6, <2>1, <2>2, <2>3 DEF PageSizeInv, NoZeroPageSize, TypeOK
  <2>6. PageSizeInv' BY <1>2, <1>7, <2>2, <2>5 DEF PageSizeInv
  <2> QED BY <2>2, <2>4, <2>6 DEF IInv
<1>10. CASE /\ hTracker' = [hTracker EXCEPT ![h] = NULL]
            /\ UNCHANGED trackerVars
  <2>1. TypeOK' BY <1>1, <1>2, <1>4, <1>10 DEF TypeOK, registryVars, ghostVars, trackerVars
  <2>2. NoZeroPageSize'
    BY <1>1, <1>6, <1>10 DEF PageSizeInv, NoZeroPageSize, TypeOK, trackerVars
  <2>3. PageSizeInv' BY <1>1, <1>2, <1>7, <1>10, <2>2 DEF PageSizeInv, trackerVars
  <2>4. BitmapWellFormed' BY <1>1, <1>10 DEF BitmapWellFormed, trackerVars
  <2> QED BY <2>1, <2>3, <2>4 DEF IInv
<1> QED BY <1>5, <1>8, <1>9, <1>10

LEMMA TrackStep ==
    ASSUME IInv, NEW h \in Handles, NEW o \in 0 .. MaxOffset, NEW a \in 1 .. MaxAmount,
           Track(h, o, a)
    PROVE  IInv'
<1> DEFINE s == hTracker[h]
           f == hFile[h]
           P == FilePages(o, a)
<1>1. TypeOK /\ PageSizeInv /\ BitmapWellFormed BY DEF IInv
<1>2. /\ hOpen[h] /\ defaultPageSize \in Nat \ {0}
      /\ f \in Names \cup {NULL} /\ s \in Slots \cup {NULL}
      /\ UNCHANGED <<registryVars, handleVars>>
  BY <1>1 DEF Track, PageSizeInv, TypeOK
<1>3. P \subseteq 0 .. (MaxPages - 1) BY <1>2, FilePagesType
<1> HIDE DEF P
<1>4. \A t \in BOOLEAN : Touch(f, P, t) =>
          /\ touched' \in [Names -> SUBSET (0 .. (MaxPages - 1))]
          /\ dropped' \in [Names -> SUBSET (0 .. (MaxPages - 1))]
  BY <1>1, <1>2, <1>3, TouchType
<1>5. PageSizeInv'
  <2>1. UNCHANGED <<pageSize, files>> BY DEF Track, trackerVars
  <2> QED BY <1>1, <1>2, <2>1 DEF PageSizeInv, NoZeroPageSize, registryVars, handleVars
<1>6. CASE s = NULL /\ Touch(f, P, FALSE) /\ UNCHANGED trackerVars
  <2>1. TypeOK' BY <1>1, <1>2, <1>4, <1>6 DEF TypeOK, registryVars, handleVars, trackerVars
  <2>2. BitmapWellFormed' BY <1>1, <1>6 DEF BitmapWellFormed, trackerVars
  <2> QED BY <1>5, <1>6, <2>1, <2>2 DEF IInv, trackerVars
<1>7. CASE /\ s # NULL
           /\ MarkDirtyOk(s, o, a)
           /\ Touch(f, P, TRUE)
           /\ UNCHANGED <<allocated, files, fname, pageSize, isOpen>>
  <2>1. s \in Slots /\ pageSize[s] \in Nat \ {0}
    BY <1>1, <1>2, <1>7 DEF PageSizeInv, NoZeroPageSize, TypeOK
  <2> PICK r \in Slots : r = s BY <2>1
  <2>2. /\ totalPages' = [totalPages EXCEPT ![r] = totalPages'[r]]
        /\ bitmapSize' = [bitmapSize EXCEPT ![r] = bitmapSize'[r]]
        /\ dirty' = [dirty EXCEPT ![r] = dirty'[r]]
        /\ totalPages'[r] \in 0 .. MaxPages
        /\ bitmapSize'[r] \in 0 .. MaxWords
        /\ dirty'[r] \subseteq 0 .. (MaxPages - 1)
        /\ SlotWF(r) => SlotWF(r)'
    <3>1. pageSize[r] \in Nat \ {0} /\ MarkDirtyOk(r, o, a) BY <1>7, <2>1
    <3> QED BY <1>1, <3>1, MarkDirtyOkSlot
  <2>3. TypeOK' BY <1>1, <1>2, <1>4, <1>7, <2>2 DEF TypeOK, registryVars, handleVars
  <2>4. \A t \in allocated' : SlotWF(t)'
    <3>1. TAKE t \in allocated'
    <3>2. CASE t = r
      <4>1. r \in allocated BY <1>7, <3>2
      <4>2. SlotWF(r) BY <1>1, <4>1 DEF BitmapWellFormed, SlotWF
      <4> QED BY <2>2, <3>2, <4>2
    <3>3. CASE t # r
      <4>1. t \in Slots /\ SlotWF(t) BY <1>1, <1>7, BitmapWellFormedSlots DEF TypeOK
      <4> QED BY <1>1, <1>7, <2>2, <3>3, <4>1 DEF SlotWF, TypeOK
    <3> QED BY <3>2, <3>3
  <2>5. BitmapWellFormed' BY <2>4 DEF BitmapWellFormed, SlotWF
  <2> QED BY <1>5, <1>7, <2>3, <2>5 DEF IInv
<1>8. CASE /\ s # NULL
           /\ MarkDirtyFails(s, o, a)
           /\ Touch(f, P, FALSE)
           /\ UNCHANGED <<allocated, files, fname, pageSize, isOpen>>
  <2>1. UNCHANGED <<totalPages, bitmapSize, dirty>> BY <1>8 DEF MarkDirtyFails
  <2>2. TypeOK' BY <1>1, <1>2, <1>4, <1>8, <2>1 DEF TypeOK, registryVars, handleVars
  <2>3. BitmapWellFormed' BY <1>1, <1>8, <2>1 DEF BitmapWellFormed
  <2> QED BY <1>5, <1>8, <2>2, <2>3 DEF IInv
<1> QED BY <1>6, <1>7, <1>8 DEF Track, P

(* get_file creating a tracker while no handle changes keeps the page-size *)
(* invariant: a stale open handle's slot reused by calloc gets the default *)
(* page size, positive because the handle was opened after an init.       *)
LEMMA CreateTrackerStep ==
    ASSUME IInv, NEW key \in Paths, NEW s \in Slots, NEW open \in BOOLEAN,
           CreateTracker(key, s, open), UNCHANGED <<registryVars, handleVars>>
    PROVE  /\ allocated' \subseteq Slots /\ files' \subseteq allocated'
           /\ fname' \in [Slots -> Paths \cup {NULL}]
           /\ pageSize' \in [Slots -> Nat]
           /\ totalPages' \in [Slots -> 0 .. MaxPages]
           /\ bitmapSize' \in [Slots -> 0 .. MaxWords]
           /\ dirty' \in [Slots -> SUBSET (0 .. (MaxPages - 1))]
           /\ isOpen' \in [Slots -> BOOLEAN]
           /\ BitmapWellFormed'
           /\ PageSizeInv'
<1>1. TypeOK /\ PageSizeInv BY DEF IInv
<1>2. UNCHANGED <<realVfs, defaultPageSize>> BY DEF registryVars
<1>3. /\ allocated' \subseteq Slots /\ files' \subseteq allocated'
      /\ fname' \in [Slots -> Paths \cup {NULL}]
      /\ pageSize' \in [Slots -> Nat]
      /\ totalPages' \in [Slots -> 0 .. MaxPages]
      /\ bitmapSize' \in [Slots -> 0 .. MaxWords]
      /\ dirty' \in [Slots -> SUBSET (0 .. (MaxPages - 1))]
      /\ isOpen' \in [Slots -> BOOLEAN]
      /\ BitmapWellFormed'
      /\ realVfs => \A t \in files' : pageSize'[t] > 0
      /\ \A t \in Slots : pageSize'[t] \in {pageSize[t], defaultPageSize}
  BY <1>2, CreateTrackerInv
<1>4. NoZeroPageSize'
  BY <1>1, <1>3 DEF PageSizeInv, NoZeroPageSize, TypeOK, registryVars, handleVars
<1> QED BY <1>1, <1>3, <1>4 DEF PageSizeInv, registryVars, handleVars

LEMMA GetDirtyPagesStep ==
    ASSUME IInv, NEW p \in Paths, GetDirtyPages(p) PROVE IInv'
<1> DEFINE key == Normalize(p)
<1>1. TypeOK /\ PageSizeInv /\ BitmapWellFormed BY DEF IInv
<1>2. /\ key \in Paths /\ p[1] \in Names
      /\ UNCHANGED <<registryVars, handleVars, ghostVars>>
  BY NormalizeType DEF GetDirtyPages, Paths
<1>3. CASE Found(key) # {} /\ UNCHANGED trackerVars
  <2>3. TypeOK' BY <1>1, <1>2, <1>3 DEF TypeOK, registryVars, handleVars, trackerVars, ghostVars
  <2>4. PageSizeInv'
    BY <1>1, <1>2, <1>3 DEF PageSizeInv, NoZeroPageSize, registryVars, handleVars, trackerVars
  <2>5. BitmapWellFormed' BY <1>1, <1>3 DEF BitmapWellFormed, trackerVars
  <2> QED BY <2>3, <2>4, <2>5 DEF IInv
<1>4. CASE /\ Found(key) = {}
           /\ \E s \in Slots \ allocated : CreateTracker(key, s, FALSE)
  <2>1. PICK s \in Slots \ allocated : CreateTracker(key, s, FALSE) BY <1>4
  <2>2. /\ allocated' \subseteq Slots /\ files' \subseteq allocated'
        /\ fname' \in [Slots -> Paths \cup {NULL}]
        /\ pageSize' \in [Slots -> Nat]
        /\ totalPages' \in [Slots -> 0 .. MaxPages]
        /\ bitmapSize' \in [Slots -> 0 .. MaxWords]
        /\ dirty' \in [Slots -> SUBSET (0 .. (MaxPages - 1))]
        /\ isOpen' \in [Slots -> BOOLEAN]
        /\ BitmapWellFormed'
        /\ PageSizeInv'
    BY <1>2, <2>1, CreateTrackerStep
  <2>3. TypeOK' BY <1>1, <1>2, <1>4, <2>2 DEF TypeOK, registryVars, handleVars, ghostVars
  <2> QED BY <2>2, <2>3 DEF IInv
<1> QED BY <1>3, <1>4 DEF GetDirtyPages

LEMMA ResetDirtyStep ==
    ASSUME IInv, NEW p \in Paths, ResetDirty(p) PROVE IInv'
<1> DEFINE key == Normalize(p)
<1>1. TypeOK /\ PageSizeInv /\ BitmapWellFormed BY DEF IInv
<1>2. /\ key \in Paths /\ p[1] \in Names
      /\ UNCHANGED <<registryVars, handleVars>>
      /\ touched' = [touched EXCEPT ![p[1]] = {}]
      /\ dropped' = [dropped EXCEPT ![p[1]] = {}]
  BY NormalizeType DEF ResetDirty, Paths
<1>3. /\ touched' \in [Names -> SUBSET (0 .. (MaxPages - 1))]
      /\ dropped' \in [Names -> SUBSET (0 .. (MaxPages - 1))]
  BY <1>1, <1>2 DEF TypeOK
<1>4. CASE \E s \in Found(key) :
             /\ dirty' = IF bitmapSize[s] = 0 THEN dirty ELSE [dirty EXCEPT ![s] = {}]
             /\ UNCHANGED <<allocated, files, fname, pageSize, totalPages,
                            bitmapSize, isOpen>>
  <2>1. PICK s \in Found(key) :
             /\ dirty' = IF bitmapSize[s] = 0 THEN dirty ELSE [dirty EXCEPT ![s] = {}]
             /\ UNCHANGED <<allocated, files, fname, pageSize, totalPages,
                            bitmapSize, isOpen>>
    BY <1>4
  <2>2. /\ dirty' \in [Slots -> SUBSET (0 .. (MaxPages - 1))]
        /\ \A t \in Slots : dirty'[t] \subseteq dirty[t]
    BY <1>1, <2>1 DEF TypeOK, Found
  <2>3. TypeOK' BY <1>1, <1>2, <1>3, <2>1, <2>2 DEF TypeOK, registryVars, handleVars
  <2>4. PageSizeInv'
    BY <1>1, <1>2, <2>1 DEF PageSizeInv, NoZeroPageSize, registryVars, handleVars
  <2>5. BitmapWellFormed' BY <1>1, <2>1, <2>2 DEF BitmapWellFormed, TypeOK
  <2> QED BY <2>3, <2>4, <2>5 DEF IInv
<1>5. CASE /\ Found(key) = {}
           /\ \E s \in Slots \ allocated : CreateTracker(key, s, FALSE)
  <2>1. PICK s \in Slots \ allocated : CreateTracker(key, s, FALSE) BY <1>5
  <2>2. /\ allocated' \subseteq Slots /\ files' \subseteq allocated'
        /\ fname' \in [Slots -> Paths \cup {NULL}]
        /\ pageSize' \in [Slots -> Nat]
        /\ totalPages' \in [Slots -> 0 .. MaxPages]
        /\ bitmapSize' \in [Slots -> 0 .. MaxWords]
        /\ dirty' \in [Slots -> SUBSET (0 .. (MaxPages - 1))]
        /\ isOpen' \in [Slots -> BOOLEAN]
        /\ BitmapWellFormed'
        /\ PageSizeInv'
    BY <1>2, <2>1, CreateTrackerStep
  <2>3. TypeOK' BY <1>1, <1>2, <1>3, <2>2 DEF TypeOK, registryVars, handleVars
  <2> QED BY <2>2, <2>3 DEF IInv
<1>6. CASE /\ Found(key) = {}
           /\ UNCHANGED trackerVars
  <2>1. TypeOK' BY <1>1, <1>2, <1>3, <1>6 DEF TypeOK, registryVars, handleVars, trackerVars
  <2>2. PageSizeInv'
    BY <1>1, <1>2, <1>6 DEF PageSizeInv, NoZeroPageSize, registryVars, handleVars, trackerVars
  <2>3. BitmapWellFormed' BY <1>1, <1>6 DEF BitmapWellFormed, trackerVars
  <2> QED BY <2>1, <2>2, <2>3 DEF IInv
<1> QED BY <1>4, <1>5, <1>6 DEF ResetDirty

-----------------------------------------------------------------------------
(* The initial state (no init yet, no trackers, no handles) satisfies the  *)
(* inductive invariant.                                                    *)
LEMMA InitIInv == Init => IInv
<1> SUFFICES ASSUME Init PROVE IInv OBVIOUS
<1>1. (CHOOSE n \in Names : TRUE) \in Names BY NamesAssumption
<1>2. 0 \in 0 .. MaxPages /\ 0 \in 0 .. MaxWords BY DEF MaxPages, MaxWords
<1>3. TypeOK BY <1>1, <1>2 DEF Init, TypeOK, RcValues, Paths
<1>4. PageSizeInv BY DEF Init, PageSizeInv, NoZeroPageSize
<1>5. BitmapWellFormed BY DEF Init, BitmapWellFormed
<1> QED BY <1>3, <1>4, <1>5 DEF IInv

(* Every step of the whole life cycle, shutdown included, keeps IInv.      *)
LEMMA IInvInductive == IInv /\ [Next]_vars => IInv'
<1> SUFFICES ASSUME IInv, [Next]_vars PROVE IInv' OBVIOUS
<1>1. CASE \E ps \in InitPageSizes : VfsInit(ps) BY <1>1, VfsInitStep
<1>2. CASE \E h \in Handles, p \in Paths : Open(h, p) BY <1>2, OpenStep
<1>3. CASE \E h \in Handles : OpenAnon(h) \/ Close(h) BY <1>3, OpenAnonStep, CloseStep
<1>4. CASE \E h \in Handles, o \in 0 .. MaxOffset, a \in 1 .. MaxAmount : Write(h, o, a)
  BY <1>4, TrackStep DEF Write
<1>5. CASE \E h \in Handles, size \in 0 .. MaxOffset : Truncate(h, size)
  <2>1. 1 \in 1 .. MaxAmount OBVIOUS
  <2> QED BY <1>5, <2>1, TrackStep DEF Truncate
<1>6. CASE \E p \in Paths : GetDirtyPages(p) \/ ResetDirty(p)
  BY <1>6, GetDirtyPagesStep, ResetDirtyStep
<1>7. CASE Shutdown BY <1>7, ShutdownStep
<1>8. CASE UNCHANGED vars
  BY <1>8 DEF vars, registryVars, trackerVars, handleVars, ghostVars, IInv, TypeOK,
              PageSizeInv, NoZeroPageSize, BitmapWellFormed
<1>9. CASE (\E h \in Handles : FilePassThrough(h)) \/ VfsPassThrough
  <2>1. UNCHANGED vars BY <1>9 DEF FilePassThrough, VfsPassThrough
  <2> QED BY <2>1, <1>8
<1> QED BY <1>1, <1>2, <1>3, <1>4, <1>5, <1>6, <1>7, <1>8, <1>9 DEF Next, SessionNext

(* Type correctness: every variable of the registry, the trackers and the  *)
(* handles keeps its C type and its bounds across init, shutdown, opens,   *)
(* closes, writes, truncates and the dirty-page API.                       *)
THEOREM TypeCorrect == Spec => []TypeOK
<1>1. IInv => TypeOK BY DEF IInv
<1> QED BY <1>1, InitIInv, IInvInductive, PTL DEF Spec

(* No open handle reaches a tracker with page size 0, so mark_dirty never *)
(* divides by zero in fileWrite or fileTruncate, whatever the order of     *)
(* init, shutdown, re-init and opens, and even through stale handles.      *)
THEOREM PageSizePositive == Spec => []NoZeroPageSize
<1>1. IInv => NoZeroPageSize BY DEF IInv, PageSizeInv
<1> QED BY <1>1, InitIInv, IInvInductive, PTL DEF Spec

(* Every live tracker's bitmap covers totalPages and holds no bit at or    *)
(* beyond it, through every mark_dirty growth path and failed realloc.     *)
THEOREM BitmapAlwaysWellFormed == Spec => []BitmapWellFormed
<1>1. IInv => BitmapWellFormed BY DEF IInv
<1> QED BY <1>1, InitIInv, IInvInductive, PTL DEF Spec

=============================================================================
