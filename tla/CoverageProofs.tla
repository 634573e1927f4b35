--------------------------- MODULE CoverageProofs ---------------------------
(***************************************************************************)
(* Completeness of get_dirty_pages between init and shutdown, for every    *)
(* value of the constants when strdup does not fail: every page written or *)
(* truncated through a handle of a file since its last reset_dirty is      *)
(* listed, unless an allocation failure (no tracker, failed realloc) lost  *)
(* it.  The argument: every listed tracker is named (strdup succeeded), an *)
(* open handle's tracker is listed under the handle's own name             *)
(* (SessionInv), mark_dirty only adds bits, and nothing is touched before  *)
(* init, when vfs_tracking_init drops the list.  With strdup failing the   *)
(* property is false: the writes through a handle whose tracker has no     *)
(* name reach no lookup (TLC finds it; the strdup_fail run shows the same  *)
(* tracker crashing the next lookup).                                      *)
(***************************************************************************)
EXTENDS RefinementProofs

(* The pages of name n written since its reset and not lost are held by   *)
(* the trackers listed under n.                                            *)
Covered(n) ==
    touched[n] \ dropped[n] \subseteq UNION {dirty[s] : s \in Found(<<n, 0>>)}

CoverInv ==
    /\ ListedTrackersNamed
    /\ ~realVfs => \A n \in Names : touched[n] = {}
    /\ \A n \in Names : Covered(n)

(* A step that adds to n's lost-free pages only pages now held under n,    *)
(* keeps every tracker listed under n and takes no bit from it, keeps n    *)
(* covered.                                                                *)
LEMMA CoverMono ==
    ASSUME NEW n \in Names, NEW X, Covered(n),
           touched'[n] \ dropped'[n] \subseteq (touched[n] \ dropped[n]) \cup X,
           X \subseteq UNION {dirty'[s] : s \in Found(<<n, 0>>)'},
           \A t \in Found(<<n, 0>>) : t \in Found(<<n, 0>>)' /\ dirty[t] \subseteq dirty'[t]
    PROVE  Covered(n)'
<1>1. UNION {dirty[s] : s \in Found(<<n, 0>>)} \subseteq UNION {dirty'[s] : s \in Found(<<n, 0>>)'}
  OBVIOUS
<1> QED BY <1>1 DEF Covered

(* get_file creating a tracker with strdup succeeding: the new tracker is  *)
(* named, every listed tracker stays listed under its name with its bits.  *)
LEMMA CoverCreate ==
    ASSUME IInv, ListedTrackersNamed, ~StrdupMayFail,
           NEW key \in Paths, NEW s \in Slots, NEW open \in BOOLEAN,
           CreateTracker(key, s, open)
    PROVE  /\ ListedTrackersNamed'
           /\ \A n \in Names : \A t \in Found(<<n, 0>>) : t \in Found(<<n, 0>>)' /\ dirty'[t] = dirty[t]
<1>1. TypeOK BY DEF IInv
<1>2. /\ files' = files \cup {s} /\ s \notin files
      /\ fname' = [fname EXCEPT ![s] = key]
      /\ dirty' = [dirty EXCEPT ![s] = {}]
  BY <1>1, CreateTrackerFacts DEF TypeOK, CreateTracker, StrdupResult
<1>3. key # NULL BY NullPathAssumption
<1> QED BY <1>1, <1>2, <1>3 DEF ListedTrackersNamed, Found, TypeOK

(* A step that leaves the list, the names, the bits and the ghost record   *)
(* alone keeps CoverInv.                                                   *)
LEMMA CoverUnchanged ==
    ASSUME CoverInv, UNCHANGED <<realVfs, files, fname, dirty, touched, dropped>>
    PROVE  CoverInv'
BY DEF CoverInv, Covered, ListedTrackersNamed, Found

(* get_file creating a tracker while nothing is touched keeps CoverInv.    *)
LEMMA CoverCreateStep ==
    ASSUME IInv, CoverInv, ~StrdupMayFail,
           NEW key \in Paths, NEW s \in Slots, NEW open \in BOOLEAN,
           CreateTracker(key, s, open), UNCHANGED <<realVfs, touched, dropped>>
    PROVE  CoverInv'
<1>1. /\ ListedTrackersNamed'
      /\ \A n \in Names : \A t \in Found(<<n, 0>>) : t \in Found(<<n, 0>>)' /\ dirty'[t] = dirty[t]
  BY CoverCreate DEF CoverInv
<1>2. \A n \in Names : Covered(n)'
  <2> TAKE n \in Names
  <2>1. Covered(n) BY DEF CoverInv
  <2> QED BY <1>1, <2>1, CoverMono
<1> QED BY <1>1, <1>2 DEF CoverInv

(* The ghost record of a write: the pages of f it adds to the lost-free    *)
(* ones are those a tracker recorded, and none for another name.           *)
LEMMA TouchLostFree ==
    ASSUME TypeOK, NEW f \in Names \cup {NULL}, NEW P, NEW tracked \in BOOLEAN,
           Touch(f, P, tracked)
    PROVE  \A n \in Names : touched'[n] \ dropped'[n] \subseteq
                               (touched[n] \ dropped[n]) \cup (IF tracked /\ f = n THEN P ELSE {})
<1>1. CASE f = NULL BY <1>1, NullAssumption DEF Touch, ghostVars
<1>2. CASE f # NULL
  <2>1. /\ touched' = [touched EXCEPT ![f] = touched[f] \cup P]
        /\ dropped' = [dropped EXCEPT ![f] = IF tracked THEN dropped[f] \ P ELSE dropped[f] \cup P]
    BY <1>2 DEF Touch
  <2> QED BY <1>2, <2>1 DEF TypeOK
<1> QED BY <1>1, <1>2

(* fileWrite and fileTruncate keep CoverInv: with no tracker or a failed   *)
(* realloc the pages are recorded as lost; a completed mark_dirty sets     *)
(* them on the handle's tracker, listed under the handle's own name.       *)
LEMMA CoverTrack ==
    ASSUME IInv, SessionInv, CoverInv, NEW h \in Handles, NEW o \in 0 .. MaxOffset,
           NEW a \in 1 .. MaxAmount, Track(h, o, a)
    PROVE  CoverInv'
<1> DEFINE f == hFile[h]
           P == FilePages(o, a)
<1>1. TypeOK /\ PageSizeInv BY DEF IInv
<1>2. /\ hOpen[h] /\ realVfs /\ defaultPageSize \in Nat \ {0}
      /\ f \in Names \cup {NULL} /\ hTracker[h] \in Slots \cup {NULL}
      /\ UNCHANGED <<realVfs, files, fname>>
  <2>1. hOpen[h] /\ UNCHANGED registryVars BY DEF Track
  <2>2. UNCHANGED <<files, fname>>
    <3>1. CASE UNCHANGED trackerVars BY <3>1 DEF trackerVars
    <3>2. CASE UNCHANGED <<allocated, files, fname, pageSize, isOpen>> BY <3>2
    <3> QED BY <3>1, <3>2 DEF Track
  <2> QED BY <1>1, <2>1, <2>2 DEF SessionInv, PageSizeInv, TypeOK, registryVars
<1>3. ListedTrackersNamed' /\ (~realVfs => \A n \in Names : touched[n] = {})'
  BY <1>2 DEF CoverInv, ListedTrackersNamed
<1> HIDE DEF P
<1>4. CASE Touch(f, P, FALSE) /\ UNCHANGED dirty
  <2>1. UNCHANGED dirty BY <1>4
  <2>2. Touch(f, P, FALSE) BY <1>4
  <2>3. \A n \in Names : touched'[n] \ dropped'[n] \subseteq (touched[n] \ dropped[n]) \cup {}
    BY <1>1, <1>2, <2>2, TouchLostFree
  <2>4. \A n \in Names : Covered(n)'
    <3> TAKE n \in Names
    <3>1. Covered(n) BY DEF CoverInv
    <3>2. \A t \in Found(<<n, 0>>) : t \in Found(<<n, 0>>)' /\ dirty[t] \subseteq dirty'[t]
      BY <1>2, <2>1 DEF Found
    <3> QED BY <2>3, <3>1, <3>2, CoverMono
  <2> QED BY <1>3, <2>4 DEF CoverInv
<1>5. CASE hTracker[h] # NULL /\ MarkDirtyOk(hTracker[h], o, a) /\ Touch(f, P, TRUE)
  <2> PICK r \in Slots : r = hTracker[h] BY <1>2, <1>5
  <2>1. r \in files /\ f \in Names /\ fname[r] = <<f, 0>> /\ pageSize[r] = defaultPageSize
    BY <1>2, <1>5 DEF SessionInv, CoverInv, ListedTrackersNamed
  <2>2. dirty'[r] = dirty[r] \cup P BY <1>2, <1>5, <2>1, MarkDirtyAdds DEF P
  <2>3. \A t \in files : t # r => dirty'[t] = dirty[t]
    <3>1. pageSize[r] \in Nat \ {0} /\ MarkDirtyOk(r, o, a) BY <1>2, <1>5, <2>1
    <3>2. dirty' = [dirty EXCEPT ![r] = dirty'[r]] BY <1>1, <3>1, MarkDirtyOkSlot
    <3> QED BY <1>1, <3>2 DEF TypeOK
  <2>4. Touch(f, P, TRUE) BY <1>5
  <2>5. \A n \in Names : touched'[n] \ dropped'[n] \subseteq
                            (touched[n] \ dropped[n]) \cup (IF f = n THEN P ELSE {})
    BY <1>1, <1>2, <2>4, TouchLostFree
  <2>6. \A n \in Names : Covered(n)'
    <3> TAKE n \in Names
    <3>1. Covered(n) BY DEF CoverInv
    <3>2. \A t \in Found(<<n, 0>>) : t \in Found(<<n, 0>>)' /\ dirty[t] \subseteq dirty'[t]
      BY <1>2, <2>2, <2>3 DEF Found
    <3>3. (IF f = n THEN P ELSE {}) \subseteq UNION {dirty'[t] : t \in Found(<<n, 0>>)'}
      <4>1. f = n => r \in Found(<<n, 0>>)' BY <1>2, <2>1 DEF Found
      <4> QED BY <2>2, <4>1
    <3> QED BY <2>5, <3>1, <3>2, <3>3, CoverMono
  <2> QED BY <1>3, <2>6 DEF CoverInv
<1> QED BY <1>4, <1>5 DEF Track, P, MarkDirtyFails, trackerVars

(* vfs_tracking_reset_dirty(p) keeps CoverInv: it empties what p's name    *)
(* touched, and the tracker whose bits it zeroes is listed under p's name  *)
(* only, so no other name loses a bit.                                     *)
LEMMA CoverReset ==
    ASSUME IInv, CoverInv, ~StrdupMayFail, NEW p \in Paths, ResetDirty(p)
    PROVE  CoverInv'
<1>1. TypeOK BY DEF IInv
<1>2. Normalize(p) = <<p[1], 0>> /\ p[1] \in Names /\ Normalize(p) \in Paths
  BY NormalizeKey, NormalizeType
<1>3. /\ touched' = [touched EXCEPT ![p[1]] = {}]
      /\ dropped' = [dropped EXCEPT ![p[1]] = {}]
      /\ UNCHANGED realVfs
  BY DEF ResetDirty, registryVars
<1>4. (~realVfs => \A n \in Names : touched[n] = {})'
  BY <1>1, <1>3 DEF CoverInv, TypeOK
<1>5. \A n \in Names : n # p[1] => touched'[n] = touched[n] /\ dropped'[n] = dropped[n]
  BY <1>1, <1>3 DEF TypeOK
<1>6. Covered(p[1])' BY <1>1, <1>2, <1>3 DEF Covered, TypeOK
<1>7. CASE \E s \in Found(Normalize(p)) :
             /\ dirty' = IF bitmapSize[s] = 0 THEN dirty ELSE [dirty EXCEPT ![s] = {}]
             /\ UNCHANGED <<allocated, files, fname, pageSize, totalPages, bitmapSize, isOpen>>
  <2> PICK s \in Found(Normalize(p)) :
             /\ dirty' = IF bitmapSize[s] = 0 THEN dirty ELSE [dirty EXCEPT ![s] = {}]
             /\ UNCHANGED <<files, fname>>
    BY <1>7
  <2>1. fname[s] = <<p[1], 0>> BY <1>2 DEF Found
  <2>2. ASSUME NEW n \in Names, n # p[1] PROVE Covered(n)'
    <3>1. Covered(n) BY DEF CoverInv
    <3>2. \A t \in Found(<<n, 0>>) : t \in Found(<<n, 0>>)' /\ dirty[t] \subseteq dirty'[t]
      BY <1>1, <2>1, <2>2 DEF Found, TypeOK
    <3>3. touched'[n] \ dropped'[n] \subseteq (touched[n] \ dropped[n]) \cup {}
      BY <1>5, <2>2
    <3> QED BY <3>1, <3>2, <3>3, CoverMono
  <2>3. ListedTrackersNamed' BY DEF CoverInv, ListedTrackersNamed
  <2> QED BY <1>4, <1>6, <2>2, <2>3 DEF CoverInv
<1>8. CASE \E s \in Slots \ allocated : CreateTracker(Normalize(p), s, FALSE)
  <2> PICK s \in Slots \ allocated : CreateTracker(Normalize(p), s, FALSE) BY <1>8
  <2>1. /\ ListedTrackersNamed'
        /\ \A n \in Names : \A t \in Found(<<n, 0>>) : t \in Found(<<n, 0>>)' /\ dirty'[t] = dirty[t]
    BY <1>2, CoverCreate DEF CoverInv
  <2>2. ASSUME NEW n \in Names, n # p[1] PROVE Covered(n)'
    <3>1. Covered(n) BY DEF CoverInv
    <3>2. touched'[n] \ dropped'[n] \subseteq (touched[n] \ dropped[n]) \cup {}
      BY <1>5, <2>2
    <3> QED BY <2>1, <3>1, <3>2, CoverMono
  <2> QED BY <1>4, <1>6, <2>1, <2>2 DEF CoverInv
<1>9. CASE UNCHANGED trackerVars
  <2>1. ASSUME NEW n \in Names, n # p[1] PROVE Covered(n)'
    <3>1. Covered(n) BY DEF CoverInv
    <3>2. touched'[n] \ dropped'[n] \subseteq (touched[n] \ dropped[n]) \cup {}
      BY <1>5, <2>1
    <3>3. \A t \in Found(<<n, 0>>) : t \in Found(<<n, 0>>)' /\ dirty[t] \subseteq dirty'[t]
      BY <1>9 DEF Found, trackerVars
    <3> QED BY <3>1, <3>2, <3>3, CoverMono
  <2>2. ListedTrackersNamed' BY <1>9 DEF CoverInv, ListedTrackersNamed, trackerVars
  <2> QED BY <1>4, <1>6, <2>1, <2>2 DEF CoverInv
<1> QED BY <1>7, <1>8, <1>9 DEF ResetDirty

(* Every step of the session keeps CoverInv when strdup does not fail.     *)
LEMMA CoverStep ==
    ASSUME IInv, SessionInv, CoverInv, ~StrdupMayFail, [SessionNext]_vars
    PROVE  CoverInv'
<1>1. TypeOK /\ PageSizeInv BY DEF IInv
<1>2. CASE \E ps \in InitPageSizes : VfsInit(ps)
  <2> PICK ps \in InitPageSizes : VfsInit(ps) BY <1>2
  <2>1. CASE ~realVfs /\ files' = {}
    <3>1. \A n \in Names : touched'[n] = {} BY <2>1 DEF VfsInit, CoverInv, ghostVars
    <3> QED BY <2>1, <3>1 DEF CoverInv, Covered, ListedTrackersNamed
  <2>3. CASE UNCHANGED <<realVfs, files>>
    BY <2>3, CoverUnchanged DEF VfsInit, ghostVars
  <2> QED BY <2>1, <2>3 DEF VfsInit
<1>3. CASE \E h \in Handles, p \in Paths : Open(h, p)
  <2> PICK h \in Handles, p \in Paths : Open(h, p) BY <1>3
  <2>1. Normalize(p) \in Paths BY NormalizeType
  <2>2. CASE \E s \in Slots \ allocated : CreateTracker(Normalize(p), s, TRUE)
    BY <2>1, <2>2, CoverCreateStep DEF Open, registryVars, ghostVars
  <2>3. CASE UNCHANGED <<files, fname, dirty>>
    BY <2>3, CoverUnchanged DEF Open, registryVars, ghostVars
  <2> QED BY <2>2, <2>3 DEF Open, trackerVars
<1>4. CASE \E h \in Handles : OpenAnon(h) \/ Close(h)
  BY <1>4, CoverUnchanged DEF OpenAnon, Close, registryVars, trackerVars, ghostVars
<1>5. CASE \E h \in Handles, o \in 0 .. MaxOffset, a \in 1 .. MaxAmount : Write(h, o, a)
  BY <1>5, CoverTrack DEF Write
<1>6. CASE \E h \in Handles, size \in 0 .. MaxOffset : Truncate(h, size)
  <2>1. 1 \in 1 .. MaxAmount BY BoundsAssumption
  <2> QED BY <1>6, <2>1, CoverTrack DEF Truncate
<1>7. CASE \E p \in Paths : GetDirtyPages(p)
  <2> PICK p \in Paths : GetDirtyPages(p) BY <1>7
  <2>1. Normalize(p) \in Paths BY NormalizeType
  <2>2. CASE \E s \in Slots \ allocated : CreateTracker(Normalize(p), s, FALSE)
    BY <2>1, <2>2, CoverCreateStep DEF GetDirtyPages, registryVars, ghostVars
  <2>3. CASE UNCHANGED trackerVars
    BY <2>3, CoverUnchanged DEF GetDirtyPages, registryVars, trackerVars, ghostVars
  <2> QED BY <2>2, <2>3 DEF GetDirtyPages
<1>8. CASE \E p \in Paths : ResetDirty(p) BY <1>8, CoverReset
<1>9. CASE (\E h \in Handles : FilePassThrough(h)) \/ VfsPassThrough \/ UNCHANGED vars
  BY <1>9, CoverUnchanged DEF FilePassThrough, VfsPassThrough, vars, registryVars,
                              trackerVars, ghostVars
<1> QED BY <1>2, <1>3, <1>4, <1>5, <1>6, <1>7, <1>8, <1>9 DEF SessionNext

(* CoverInv with IInv is DirtyCoversWrites: a listed tracker reports every *)
(* bit it holds, and both spellings of a name look up the same trackers.   *)
LEMMA CoverInvCovers ==
    ASSUME IInv, CoverInv PROVE DirtyCoversWrites
<1> SUFFICES ASSUME NEW p \in Paths PROVE touched[p[1]] \ dropped[p[1]] \subseteq DirtyPagesOf(p)
  BY DEF DirtyCoversWrites
<1>1. Normalize(p) = <<p[1], 0>> /\ p[1] \in Names BY NormalizeKey
<1>2. \A s \in Found(<<p[1], 0>>) : Reported(s) = dirty[s] BY ReportedIsDirty DEF Found
<1>3. Covered(p[1]) BY <1>1 DEF CoverInv
<1> QED BY <1>1, <1>2, <1>3 DEF Covered, DirtyPagesOf

(* Completeness of vfs_tracking_get_dirty_pages (lines 299-343) between     *)
(* init and shutdown, for every number of names, handles and heap blocks   *)
(* and every page size, when strdup at line 215 does not fail: it lists    *)
(* every page written or truncated through any handle of the file since    *)
(* its last reset_dirty, through either spelling of the name, except pages *)
(* whose marking a calloc (no tracker) or realloc failure lost, whatever   *)
(* the order of opens, closes, lookups, resets and repeated inits;         *)
(* shutdown is not a step of SessionSpec.                                  *)
THEOREM WritesCovered ==
    ASSUME ~StrdupMayFail PROVE SessionSpec => []DirtyCoversWrites
<1>1. Init => IInv /\ SessionInv /\ CoverInv
  BY InitIInv, SessionInit DEF Init, CoverInv, Covered, ListedTrackersNamed
<1>2. IInv /\ SessionInv /\ CoverInv /\ [SessionNext]_vars => (IInv /\ SessionInv /\ CoverInv)'
  BY SessionInvInductive, CoverStep
<1>3. IInv /\ SessionInv /\ CoverInv => DirtyCoversWrites BY CoverInvCovers
<1> QED BY <1>1, <1>2, <1>3, PTL DEF SessionSpec

=============================================================================
