-------------------------- MODULE RefinementProofs --------------------------
(***************************************************************************)
(* The tracker implements its abstract promise (DirtyPageSet), for every   *)
(* value of the constants: between init and shutdown, every step of the    *)
(* registry, the handles and the dirty-page API is a Configure, a Mark, a  *)
(* Reset or a stutter of the abstract dirty-page sets that                 *)
(* get_dirty_pages(name) returns.  Beyond IInv and SessionInv the proof    *)
(* needs one fact: before the first init the page size is 0 and no listed  *)
(* tracker has a dirty page, so init is the abstract Configure.            *)
(***************************************************************************)
EXTENDS SessionProofs

(* Before vfs_tracking_init recorded the real VFS, g_state.defaultPageSize *)
(* is still 0 and the trackers get_file made meanwhile are all clean.      *)
PreInitClean ==
    ~realVfs => defaultPageSize = 0 /\ \A s \in files : dirty[s] = {}

RefInv == IInv /\ SessionInv /\ PreInitClean

-----------------------------------------------------------------------------
(* Frame lemmas: when the abstract dirty set of a name does not move.      *)

(* The abstract dirty set of name n is what the trackers listed under n    *)
(* report, before and after a step.                                        *)
LEMMA AbsView ==
    ASSUME NEW n \in Names
    PROVE  /\ AbsDirtyPages[n] = UNION {Reported(s) : s \in Found(<<n, 0>>)}
           /\ AbsDirtyPages'[n] = UNION {Reported(s)' : s \in Found(<<n, 0>>)'}
BY DEF AbsDirtyPages, DirtyPagesOf, Normalize

(* A step that keeps what every tracker listed under n reports, and lists  *)
(* under n only new trackers that report nothing, keeps n's dirty set.     *)
LEMMA AbsFrame ==
    ASSUME NEW n \in Names,
           \A t \in Found(<<n, 0>>) : t \in Found(<<n, 0>>)' /\ Reported(t)' = Reported(t),
           \A t \in Found(<<n, 0>>)' : t \in Found(<<n, 0>>) \/ Reported(t)' = {}
    PROVE  AbsDirtyPages'[n] = AbsDirtyPages[n]
<1>1. UNION {Reported(s)' : s \in Found(<<n, 0>>)'} = UNION {Reported(s) : s \in Found(<<n, 0>>)}
  OBVIOUS
<1> QED BY <1>1, AbsView

(* A function on Names equal to AbsDirtyPages at every name is it.         *)
LEMMA AbsExt ==
    ASSUME NEW F, F = [n \in Names |-> F[n]], \A n \in Names : AbsDirtyPages'[n] = F[n]
    PROVE  AbsDirtyPages' = F
BY DEF AbsDirtyPages

LEMMA AbsIsFunction == AbsDirtyPages = [n \in Names |-> AbsDirtyPages[n]]
BY DEF AbsDirtyPages

(* A step that leaves the page size, the list, the names and the bitmaps  *)
(* alone is an abstract stutter.                                           *)
LEMMA SlotsUnchanged ==
    ASSUME UNCHANGED <<defaultPageSize, files, fname, totalPages, bitmapSize, dirty>>
    PROVE  UNCHANGED Abs!vars
BY DEF Abs!vars, AbsDirtyPages, DirtyPagesOf, Found, Reported

(* get_file creating a tracker is an abstract stutter: calloc's tracker    *)
(* has no bitmap, so it reports nothing, whatever name strdup gave it and  *)
(* whatever bits its heap block held before.                              *)
LEMMA CreateStutter ==
    ASSUME IInv, NEW key \in Paths, NEW s \in Slots, NEW open \in BOOLEAN,
           CreateTracker(key, s, open), UNCHANGED defaultPageSize
    PROVE  UNCHANGED Abs!vars
<1>1. TypeOK BY DEF IInv
<1>2. /\ files' = files \cup {s} /\ s \notin files
      /\ totalPages' = [totalPages EXCEPT ![s] = 0]
      /\ bitmapSize' = [bitmapSize EXCEPT ![s] = 0]
      /\ dirty' = [dirty EXCEPT ![s] = {}]
      /\ fname' = [fname EXCEPT ![s] = fname'[s]]
  BY <1>1, CreateTrackerFacts DEF TypeOK, CreateTracker
<1>3. \A t \in files : fname'[t] = fname[t] /\ Reported(t)' = Reported(t)
  BY <1>1, <1>2 DEF TypeOK, Reported
<1>4. Reported(s)' = {} BY <1>1, <1>2 DEF TypeOK, Reported
<1>5. \A n \in Names : AbsDirtyPages'[n] = AbsDirtyPages[n]
  <2> TAKE n \in Names
  <2>1. \A t \in Found(<<n, 0>>) : t \in Found(<<n, 0>>)' /\ Reported(t)' = Reported(t)
    BY <1>2, <1>3 DEF Found
  <2>2. \A t \in Found(<<n, 0>>)' : t \in Found(<<n, 0>>) \/ Reported(t)' = {}
    BY <1>2, <1>3, <1>4 DEF Found
  <2> QED BY <2>1, <2>2, AbsFrame
<1>6. AbsDirtyPages' = AbsDirtyPages BY <1>5, AbsIsFunction, AbsExt
<1> QED BY <1>6 DEF Abs!vars

-----------------------------------------------------------------------------
(* Before init nothing can dirty a tracker: writes need an open handle,    *)
(* opens need the registered VFS, and get_file's trackers start clean.     *)
LEMMA PreInitStep ==
    ASSUME IInv, SessionInv, PreInitClean, [SessionNext]_vars
    PROVE  PreInitClean'
<1>1. TypeOK /\ PageSizeInv BY DEF IInv
<1> USE DEF PreInitClean
<1>2. CASE \E ps \in InitPageSizes : VfsInit(ps)
  BY <1>2 DEF VfsInit
<1>3. CASE \E h \in Handles, p \in Paths : Open(h, p)
  BY <1>1, <1>3 DEF Open, PageSizeInv, registryVars
<1>4. CASE \E h \in Handles : OpenAnon(h) \/ Close(h)
  BY <1>4 DEF OpenAnon, Close, registryVars, trackerVars
<1>5. ASSUME NEW h \in Handles, NEW o, NEW a, Track(h, o, a) PROVE PreInitClean'
  BY <1>5 DEF Track, SessionInv, registryVars
<1>6. ASSUME NEW key \in Paths, NEW s \in Slots, NEW open \in BOOLEAN,
             CreateTracker(key, s, open), UNCHANGED <<realVfs, defaultPageSize>>
      PROVE  PreInitClean'
  BY <1>1, <1>6, CreateTrackerFacts DEF TypeOK
<1>7. CASE \E p \in Paths : GetDirtyPages(p)
  <2> PICK p \in Paths : GetDirtyPages(p) BY <1>7
  <2>1. Normalize(p) \in Paths BY NormalizeType
  <2> QED BY <1>6, <2>1 DEF GetDirtyPages, registryVars, trackerVars
<1>8. CASE \E p \in Paths : ResetDirty(p)
  <2> PICK p \in Paths : ResetDirty(p) BY <1>8
  <2>1. Normalize(p) \in Paths BY NormalizeType
  <2>2. CASE \E s \in Found(Normalize(p)) :
               /\ dirty' = IF bitmapSize[s] = 0 THEN dirty ELSE [dirty EXCEPT ![s] = {}]
               /\ UNCHANGED files
    BY <1>1, <2>2 DEF ResetDirty, registryVars, TypeOK
  <2> QED BY <1>6, <2>1, <2>2 DEF ResetDirty, registryVars, trackerVars
<1>9. CASE (\E h \in Handles : FilePassThrough(h)) \/ VfsPassThrough \/ UNCHANGED vars
  BY <1>9 DEF FilePassThrough, VfsPassThrough, vars, registryVars, trackerVars
<1> QED BY <1>2, <1>3, <1>4, <1>5, <1>6, <1>7, <1>8, <1>9 DEF SessionNext, Write, Truncate

-----------------------------------------------------------------------------
(* Under IInv a listed tracker reports every bit it holds: no bit lies at  *)
(* or beyond totalPages, and a tracker without a bitmap holds none.        *)
LEMMA ReportedIsDirty ==
    ASSUME IInv, NEW s \in files
    PROVE  Reported(s) = dirty[s]
<1>1. s \in Slots /\ SlotWF(s) BY BitmapWellFormedSlots DEF IInv, TypeOK
<1>2. CASE bitmapSize[s] = 0 BY <1>1, <1>2, EmptyBitmapClean DEF Reported
<1>3. CASE bitmapSize[s] # 0
  <2>1. \A i \in dirty[s] : i < totalPages[s] BY <1>1 DEF SlotWF, IInv, TypeOK
  <2> QED BY <1>3, <2>1 DEF Reported
<1> QED BY <1>2, <1>3

(* A completed mark_dirty on a well-formed tracker with the consumer's     *)
(* page size adds exactly the pages of the write: the words realloc adds   *)
(* lie past every bit the tracker held, so zeroing them loses nothing.     *)
LEMMA MarkDirtyAdds ==
    ASSUME IInv, NEW r \in files, pageSize[r] = defaultPageSize,
           defaultPageSize \in Nat \ {0},
           NEW o \in 0 .. MaxOffset, NEW a \in 1 .. MaxAmount, MarkDirtyOk(r, o, a)
    PROVE  dirty'[r] = dirty[r] \cup FilePages(o, a)
<1>1. TypeOK /\ r \in Slots /\ SlotWF(r) BY BitmapWellFormedSlots DEF IInv, TypeOK
<1>2. Marked(r, o, a) = FilePages(o, a) BY <1>1, MarkedIsFilePages
<1>3. dirty[r] \cap NewWords(r, NewBitmapSize(Required(pageSize[r], o, a))) = {}
  <2>1. \A i \in dirty[r] : i < bitmapSize[r] * WordBits
    BY <1>1, WordBitsAssumption DEF SlotWF, TypeOK
  <2>2. bitmapSize[r] * WordBits \in Nat BY <1>1, WordBitsAssumption DEF TypeOK
  <2>3. \A i \in dirty[r] : i \notin NewWords(r, NewBitmapSize(Required(pageSize[r], o, a)))
    BY <2>1, <2>2 DEF NewWords
  <2> QED BY <2>3
<1> QED BY <1>1, <1>2, <1>3 DEF MarkDirtyOk, TypeOK

(* fileWrite and fileTruncate: a completed mark_dirty on the tracker of a  *)
(* handle of file f is the abstract Mark of f's pages (the tracker is the  *)
(* only one listed under f and has the consumer's page size); a write with *)
(* no tracker, a failed realloc, or a tracker strdup left unnamed is an    *)
(* abstract stutter.                                                       *)
LEMMA RefTrack ==
    ASSUME RefInv, IInv', NEW h \in Handles, NEW o \in 0 .. MaxOffset,
           NEW a \in 1 .. MaxAmount, Track(h, o, a)
    PROVE  [Abs!Next]_Abs!vars
<1> DEFINE f == hFile[h]
           P == FilePages(o, a)
<1>1. IInv /\ SessionInv /\ TypeOK /\ PageSizeInv BY DEF RefInv, IInv
<1>2. /\ hOpen[h] /\ realVfs /\ defaultPageSize \in Nat \ {0}
      /\ UNCHANGED <<defaultPageSize, files, fname, hFile>>
  <2>1. hOpen[h] /\ UNCHANGED <<registryVars, files, fname, hFile>>
    <3>1. hOpen[h] /\ UNCHANGED <<registryVars, hFile>> BY DEF Track, handleVars
    <3>2. UNCHANGED <<files, fname>>
      <4>1. CASE UNCHANGED trackerVars BY <4>1 DEF trackerVars
      <4>2. CASE UNCHANGED <<allocated, files, fname, pageSize, isOpen>> BY <4>2
      <4> QED BY <4>1, <4>2 DEF Track
    <3> QED BY <3>1, <3>2
  <2> QED BY <1>1, <2>1 DEF SessionInv, PageSizeInv, TypeOK, registryVars
<1>3. CASE hTracker[h] = NULL \/ MarkDirtyFails(hTracker[h], o, a)
  <2>1. UNCHANGED <<totalPages, bitmapSize, dirty>>
    BY <1>3 DEF Track, MarkDirtyFails, trackerVars
  <2> QED BY <1>2, <2>1, SlotsUnchanged
<1>4. CASE hTracker[h] # NULL /\ MarkDirtyOk(hTracker[h], o, a)
  <2> PICK r \in Slots : r = hTracker[h] BY <1>1, <1>4 DEF TypeOK
  <2>1. r \in files /\ f \in Names /\ fname[r] \in {<<f, 0>>, NULL}
        /\ pageSize[r] = defaultPageSize
    BY <1>1, <1>2, <1>4 DEF SessionInv
  <2>2. /\ totalPages' = [totalPages EXCEPT ![r] = totalPages'[r]]
        /\ bitmapSize' = [bitmapSize EXCEPT ![r] = bitmapSize'[r]]
        /\ dirty' = [dirty EXCEPT ![r] = dirty'[r]]
    <3>1. pageSize[r] \in Nat \ {0} /\ MarkDirtyOk(r, o, a) BY <1>2, <1>4, <2>1
    <3> QED BY <1>1, <3>1, MarkDirtyOkSlot
  <2>3. \A t \in files : t # r => Reported(t)' = Reported(t)
    BY <1>1, <2>2 DEF TypeOK, Reported
  (* A name r is not listed under keeps its dirty set.                     *)
  <2>4. ASSUME NEW n \in Names, fname[r] # <<n, 0>>
        PROVE  AbsDirtyPages'[n] = AbsDirtyPages[n]
    <3>1. \A t \in Found(<<n, 0>>) : t \in Found(<<n, 0>>)' /\ Reported(t)' = Reported(t)
      BY <1>2, <2>3, <2>4 DEF Found
    <3>2. \A t \in Found(<<n, 0>>)' : t \in Found(<<n, 0>>)
      BY <1>2 DEF Found
    <3> QED BY <3>1, <3>2, AbsFrame
  <2>5. CASE fname[r] = NULL
    <3>1. \A n \in Names : fname[r] # <<n, 0>>
      <4>1. \A n \in Names : <<n, 0>> \in Paths BY DEF Paths
      <4> QED BY <2>5, <4>1, NullPathAssumption
    <3>2. AbsDirtyPages' = AbsDirtyPages BY <2>4, <3>1, AbsIsFunction, AbsExt
    <3> QED BY <1>2, <3>2 DEF Abs!vars
  <2>6. CASE fname[r] = <<f, 0>>
    <3>1. Found(<<f, 0>>) = {r} /\ Found(<<f, 0>>)' = {r}
      <4>1. <<f, 0>> # NULL BY <2>1, NullPathAssumption DEF Paths
      <4>2. \A t \in files : fname[t] = <<f, 0>> => t = r
        BY <1>1, <2>1, <2>6, <4>1 DEF SessionInv
      <4> QED BY <1>2, <2>1, <2>6, <4>2 DEF Found
    <3>2. Reported(r) = dirty[r] BY <1>1, <2>1, ReportedIsDirty
    <3>3. Reported(r)' = dirty'[r]
      <4>1. /\ r \in allocated' /\ SlotWF(r)'
            /\ bitmapSize'[r] \in Nat /\ totalPages'[r] \in Nat
        BY <1>1, <1>2, <2>1 DEF IInv, TypeOK, BitmapWellFormed, SlotWF
      <4>2. Required(pageSize[r], o, a) \in 1 .. MaxPages
        BY <1>2, <2>1, PageArith
      <4>3. totalPages'[r] >= Required(pageSize[r], o, a)
        BY <1>1, <1>4, <4>1, <4>2 DEF MarkDirtyOk, TypeOK
      <4>4. bitmapSize'[r] # 0 BY <4>1, <4>2, <4>3, WordBitsAssumption DEF SlotWF
      <4> QED BY <4>1, <4>4 DEF Reported, SlotWF
    <3>4. dirty'[r] = dirty[r] \cup P
      BY <1>1, <1>2, <1>4, <2>1, MarkDirtyAdds
    <3>5. AbsDirtyPages'[f] = AbsDirtyPages[f] \cup P
      <4> PICK g \in Names : g = f BY <2>1
      <4>1. Found(<<g, 0>>) = {r} /\ Found(<<g, 0>>)' = {r} BY <1>2, <3>1
      <4>2. /\ AbsDirtyPages[g] = UNION {Reported(s) : s \in Found(<<g, 0>>)}
            /\ AbsDirtyPages'[g] = UNION {Reported(s)' : s \in Found(<<g, 0>>)'}
        BY AbsView
      <4>3. AbsDirtyPages[f] = Reported(r) /\ AbsDirtyPages'[f] = Reported(r)'
        BY <4>1, <4>2
      <4> QED BY <3>2, <3>3, <3>4, <4>3
    <3>6. \A n \in Names : AbsDirtyPages'[n] =
             [AbsDirtyPages EXCEPT ![f] = @ \cup Abs!PageRange(o, a)][n]
      <4>1. Abs!PageRange(o, a) = P BY DEF Abs!PageRange, FilePages
      <4>2. \A n \in Names \ {f} : fname[r] # <<n, 0>> BY <2>6
      <4> QED BY <2>1, <2>4, <3>5, <4>1, <4>2 DEF AbsDirtyPages
    <3>7. Abs!Mark(f, o, a)
      <4> DEFINE F == [AbsDirtyPages EXCEPT ![f] = @ \cup Abs!PageRange(o, a)]
      <4>1. F = [n \in Names |-> F[n]] BY DEF AbsDirtyPages
      <4>2. AbsDirtyPages' = F BY <3>6, <4>1, AbsExt
      <4> QED BY <1>2, <4>2 DEF Abs!Mark
    <3> QED BY <2>1, <3>7 DEF Abs!Next
  <2> QED BY <2>1, <2>5, <2>6
<1> QED BY <1>3, <1>4 DEF Track

(* vfs_tracking_reset_dirty(p) finding p's tracker is the abstract Reset   *)
(* of p's name: that tracker is the only one listed under the name, and it *)
(* reports nothing afterwards, whether its words were zeroed or it had no  *)
(* bitmap to zero.                                                         *)
LEMMA RefReset ==
    ASSUME RefInv, NEW p \in Paths, NEW s \in Found(Normalize(p)),
           dirty' = IF bitmapSize[s] = 0 THEN dirty ELSE [dirty EXCEPT ![s] = {}],
           UNCHANGED <<defaultPageSize, files, fname, totalPages, bitmapSize>>
    PROVE  Abs!Reset(p[1])
<1>1. IInv /\ SessionInv /\ TypeOK BY DEF RefInv, IInv
<1>2. Normalize(p) = <<p[1], 0>> /\ p[1] \in Names BY NormalizeKey
<1>3. s \in files /\ s \in Slots /\ fname[s] = <<p[1], 0>> BY <1>1, <1>2 DEF Found, TypeOK
<1>4. Found(<<p[1], 0>>) = {s} /\ Found(<<p[1], 0>>)' = {s}
  <2>1. <<p[1], 0>> # NULL BY <1>2, NullPathAssumption DEF Paths
  <2>2. \A t \in files : fname[t] = <<p[1], 0>> => t = s
    BY <1>1, <1>3, <2>1 DEF SessionInv
  <2> QED BY <1>3, <2>2 DEF Found
<1>5. Reported(s)' = {}
  <2>1. CASE bitmapSize[s] = 0 BY <2>1 DEF Reported
  <2>2. CASE bitmapSize[s] # 0 BY <1>1, <1>3, <2>2 DEF Reported, TypeOK
  <2> QED BY <2>1, <2>2
<1>6. \A t \in files : t # s => Reported(t)' = Reported(t)
  BY <1>1, <1>3 DEF Reported, TypeOK
<1>7. AbsDirtyPages'[p[1]] = {}
  <2>1. AbsDirtyPages'[p[1]] = UNION {Reported(t)' : t \in Found(<<p[1], 0>>)'}
    BY <1>2, AbsView
  <2> QED BY <1>4, <1>5, <2>1
<1>8. ASSUME NEW n \in Names, n # p[1] PROVE AbsDirtyPages'[n] = AbsDirtyPages[n]
  <2>1. \A t \in Found(<<n, 0>>) : t \in Found(<<n, 0>>)' /\ Reported(t)' = Reported(t)
    BY <1>3, <1>6, <1>8 DEF Found
  <2>2. \A t \in Found(<<n, 0>>)' : t \in Found(<<n, 0>>) BY DEF Found
  <2> QED BY <2>1, <2>2, AbsFrame
<1> DEFINE F == [AbsDirtyPages EXCEPT ![p[1]] = {}]
<1>9. F = [n \in Names |-> F[n]] BY DEF AbsDirtyPages
<1>10. \A n \in Names : AbsDirtyPages'[n] = F[n] BY <1>2, <1>7, <1>8 DEF AbsDirtyPages
<1> QED BY <1>9, <1>10, AbsExt DEF Abs!Reset

(* vfs_tracking_init recording the real VFS is the abstract Configure: the *)
(* page size was still 0 (PreInitClean), the one init chooses is positive, *)
(* and dropping the tracker list leaves every name with no dirty page.     *)
LEMMA RefConfigure ==
    ASSUME RefInv, NEW ps \in InitPageSizes, ~realVfs, files' = {},
           defaultPageSize' = IF ps > 0 THEN ps ELSE DEFAULT_PAGE_SIZE
    PROVE  \E q \in {IF x > 0 THEN x ELSE DEFAULT_PAGE_SIZE : x \in InitPageSizes} :
              Abs!Configure(q)
<1>1. defaultPageSize = 0 BY DEF RefInv, PreInitClean
<1>2. \A n \in Names : AbsDirtyPages'[n] = [m \in Names |-> {}][n]
  <2> TAKE n \in Names
  <2>1. Found(<<n, 0>>)' = {} BY DEF Found
  <2> QED BY <2>1, AbsView
<1>3. AbsDirtyPages' = [m \in Names |-> {}] BY <1>2, AbsExt
<1> QED BY <1>1, <1>3 DEF Abs!Configure

-----------------------------------------------------------------------------
(* Every step of the session keeps RefInv.                                 *)
LEMMA RefInvInductive == RefInv /\ [SessionNext]_vars => RefInv'
BY SessionInvInductive, PreInitStep DEF RefInv

(* The initial state is the abstract one: no page size, nothing dirty.     *)
LEMMA RefInit == Init => Abs!Init
<1> SUFFICES ASSUME Init PROVE Abs!Init OBVIOUS
<1>1. \A n \in Names : AbsDirtyPages[n] = [m \in Names |-> {}][n]
  <2> TAKE n \in Names
  <2>1. Found(<<n, 0>>) = {} BY DEF Init, Found
  <2> QED BY <2>1, AbsView
<1>2. AbsDirtyPages = [m \in Names |-> {}]
  BY <1>1, AbsIsFunction
<1> QED BY <1>2 DEF Init, Abs!Init

(* Each step of the session maps to a step of DirtyPageSet or a stutter.   *)
LEMMA RefStep ==
    ASSUME RefInv, RefInv', [SessionNext]_vars
    PROVE  [Abs!Next]_Abs!vars
<1>1. IInv /\ TypeOK /\ IInv' BY DEF RefInv, IInv
<1>2. CASE \E ps \in InitPageSizes : VfsInit(ps)
  <2> PICK ps \in InitPageSizes : VfsInit(ps) BY <1>2
  <2>1. CASE ~realVfs /\ files' = {} /\ defaultPageSize' = IF ps > 0 THEN ps ELSE DEFAULT_PAGE_SIZE
    BY <2>1, RefConfigure DEF Abs!Next
  <2>2. CASE UNCHANGED <<defaultPageSize, files>>
    BY <2>2, SlotsUnchanged DEF VfsInit
  <2> QED BY <2>1, <2>2 DEF VfsInit
<1>3. CASE \E h \in Handles, p \in Paths : Open(h, p)
  <2> PICK h \in Handles, p \in Paths : Open(h, p) BY <1>3
  <2>1. Normalize(p) \in Paths BY NormalizeType
  <2>2. CASE \E s \in Slots \ allocated : CreateTracker(Normalize(p), s, TRUE)
    BY <1>1, <2>1, <2>2, CreateStutter DEF Open, registryVars
  <2>3. CASE UNCHANGED <<allocated, files, fname, pageSize, totalPages, bitmapSize, dirty>>
    BY <2>3, SlotsUnchanged DEF Open, registryVars
  <2> QED BY <2>2, <2>3 DEF Open, trackerVars
<1>4. CASE \E h \in Handles : OpenAnon(h) \/ Close(h)
  BY <1>4, SlotsUnchanged DEF OpenAnon, Close, registryVars, trackerVars
<1>5. CASE \E h \in Handles, o \in 0 .. MaxOffset, a \in 1 .. MaxAmount : Write(h, o, a)
  BY <1>1, <1>5, RefTrack DEF Write
<1>6. CASE \E h \in Handles, size \in 0 .. MaxOffset : Truncate(h, size)
  <2>1. 1 \in 1 .. MaxAmount BY BoundsAssumption
  <2> QED BY <1>1, <1>6, <2>1, RefTrack DEF Truncate
<1>7. CASE \E p \in Paths : GetDirtyPages(p)
  <2> PICK p \in Paths : GetDirtyPages(p) BY <1>7
  <2>1. Normalize(p) \in Paths BY NormalizeType
  <2>2. CASE \E s \in Slots \ allocated : CreateTracker(Normalize(p), s, FALSE)
    BY <1>1, <2>1, <2>2, CreateStutter DEF GetDirtyPages, registryVars
  <2>3. CASE UNCHANGED trackerVars
    BY <2>3, SlotsUnchanged DEF GetDirtyPages, registryVars, trackerVars
  <2> QED BY <2>2, <2>3 DEF GetDirtyPages
<1>8. CASE \E p \in Paths : ResetDirty(p)
  <2> PICK p \in Paths : ResetDirty(p) BY <1>8
  <2>1. Normalize(p) \in Paths BY NormalizeType
  <2>2. CASE \E s \in Found(Normalize(p)) :
               /\ dirty' = IF bitmapSize[s] = 0 THEN dirty ELSE [dirty EXCEPT ![s] = {}]
               /\ UNCHANGED <<allocated, files, fname, pageSize, totalPages,
                              bitmapSize, isOpen>>
    <3>1. Abs!Reset(p[1]) BY <2>2, RefReset DEF ResetDirty, registryVars
    <3>2. p[1] \in Names BY NormalizeKey
    <3> QED BY <3>1, <3>2 DEF Abs!Next
  <2>3. CASE \E s \in Slots \ allocated : CreateTracker(Normalize(p), s, FALSE)
    BY <1>1, <2>1, <2>3, CreateStutter DEF ResetDirty, registryVars
  <2>4. CASE UNCHANGED trackerVars
    BY <2>4, SlotsUnchanged DEF ResetDirty, registryVars, trackerVars
  <2> QED BY <2>2, <2>3, <2>4 DEF ResetDirty
<1>9. CASE (\E h \in Handles : FilePassThrough(h)) \/ VfsPassThrough \/ UNCHANGED vars
  BY <1>9, SlotsUnchanged DEF FilePassThrough, VfsPassThrough, vars, registryVars, trackerVars
<1> QED BY <1>2, <1>3, <1>4, <1>5, <1>6, <1>7, <1>8, <1>9 DEF SessionNext

(* Between vfs_tracking_init and shutdown the tracker keeps its promise to *)
(* the sync consumer, for every number of names, handles and heap blocks   *)
(* and every page size: what get_dirty_pages returns evolves exactly as    *)
(* DirtyPageSet says, configured once by init, grown by each tracked write *)
(* or truncate by the pages it covers, emptied by reset_dirty, and moved   *)
(* by nothing else: not by opens, closes, lookups that create trackers,    *)
(* failed allocations or unnamed trackers.  Shutdown, which frees the      *)
(* trackers, is not a step of SessionSpec and has no abstract counterpart. *)
THEOREM SessionRefinesDirtyPageSet == SessionSpec => DirtyPageSetRefined
<1>1. Init => RefInv BY InitIInv, SessionInit DEF RefInv, PreInitClean, Init
<1> QED BY <1>1, RefInit, RefInvInductive, RefStep, PTL DEF SessionSpec, DirtyPageSetRefined, Abs!Spec

=============================================================================
