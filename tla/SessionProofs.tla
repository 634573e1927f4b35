--------------------------- MODULE SessionProofs ---------------------------
(***************************************************************************)
(* Soundness of get_dirty_pages between init and shutdown, for every      *)
(* value of the constants: it lists only pages written or truncated       *)
(* through a handle of the file since its last reset_dirty.  The proof    *)
(* rests on where handles' trackers live: every open handle's tracker is  *)
(* on the list under its own file name (or under no name, when strdup     *)
(* failed), its page size is the configured one, and a name has at most   *)
(* one listed tracker, so reset_dirty clears all of that name's bits.     *)
(***************************************************************************)
EXTENDS VfsTrackingProofs

(* What SessionSpec keeps, on top of IInv.                                 *)
SessionInv ==
    /\ \A h \in Handles : hOpen[h] => realVfs
    /\ realVfs => \A s \in files : pageSize[s] = defaultPageSize
    /\ \A h \in Handles : hOpen[h] /\ hTracker[h] # NULL =>
          /\ hTracker[h] \in files
          /\ hFile[h] \in Names
          /\ fname[hTracker[h]] \in {<<hFile[h], 0>>, NULL}
    /\ \A s, t \in files : fname[s] = fname[t] /\ fname[s] # NULL => s = t
    /\ \A s \in files, n \in Names : fname[s] = <<n, 0>> => dirty[s] \subseteq touched[n]

(* Both spellings of a name normalize to the spelling without a slash.     *)
LEMMA NormalizeKey ==
    ASSUME NEW p \in Paths
    PROVE  /\ Normalize(p) = <<p[1], 0>>
           /\ p[1] \in Names
BY DEF Normalize, Paths

LEMMA SessionInit == Init => SessionInv
BY DEF Init, SessionInv

LEMMA SessionVfsInit ==
    ASSUME IInv, SessionInv, NEW ps \in InitPageSizes, VfsInit(ps)
    PROVE  SessionInv'
<1>1. UNCHANGED <<hOpen, hTracker, hFile, fname, pageSize, dirty, touched>>
  BY DEF VfsInit, handleVars, ghostVars
<1>2. CASE UNCHANGED <<realVfs, defaultPageSize, files>>
  BY <1>1, <1>2 DEF SessionInv
<1>3. CASE ~realVfs /\ files' = {}
  <2>1. \A h \in Handles : ~hOpen[h] BY <1>3 DEF SessionInv
  <2> QED BY <1>1, <1>3, <2>1 DEF SessionInv
<1> QED BY <1>2, <1>3 DEF VfsInit

LEMMA SessionOpenAnon ==
    ASSUME IInv, SessionInv, NEW h \in Handles, OpenAnon(h)
    PROVE  SessionInv'
<1>1. realVfs BY DEF OpenAnon, IInv, PageSizeInv
<1> QED BY <1>1 DEF OpenAnon, SessionInv, IInv, TypeOK, registryVars, trackerVars, ghostVars

LEMMA SessionClose ==
    ASSUME IInv, SessionInv, NEW h \in Handles, Close(h)
    PROVE  SessionInv'
BY DEF Close, SessionInv, IInv, TypeOK, registryVars, ghostVars

LEMMA SessionStutter ==
    ASSUME SessionInv, UNCHANGED vars
    PROVE  SessionInv'
BY DEF vars, registryVars, trackerVars, handleVars, ghostVars, SessionInv
(* A tracker get_file creates for a key no listed tracker has keeps the    *)
(* list's names distinct, takes the configured page size and starts with   *)
(* no dirty page; the trackers already listed keep their names.           *)
LEMMA SessionCreate ==
    ASSUME IInv, SessionInv, NEW key \in Paths, NEW s \in Slots, NEW open \in BOOLEAN,
           CreateTracker(key, s, open), Found(key) = {},
           UNCHANGED <<realVfs, defaultPageSize>>
    PROVE  /\ s \in files' /\ s \notin files /\ fname'[s] \in {key, NULL}
           /\ \A t \in files : fname'[t] = fname[t] /\ dirty'[t] = dirty[t]
           /\ realVfs => \A t \in files' : pageSize'[t] = defaultPageSize
           /\ \A t, u \in files' : fname'[t] = fname'[u] /\ fname'[t] # NULL => t = u
           /\ UNCHANGED touched =>
                 \A t \in files', n \in Names :
                    fname'[t] = <<n, 0>> => dirty'[t] \subseteq touched'[n]
<1>1. TypeOK BY DEF IInv
<1>2. /\ files' = files \cup {s} /\ s \notin files
      /\ pageSize' = [pageSize EXCEPT ![s] = defaultPageSize]
      /\ dirty' = [dirty EXCEPT ![s] = {}]
  BY <1>1 DEF CreateTracker, TypeOK
<1>3. PICK nm \in {key, NULL} : fname' = [fname EXCEPT ![s] = nm]
  BY DEF CreateTracker, StrdupResult
<1>4. \A t \in files : fname'[t] = fname[t] /\ dirty'[t] = dirty[t] /\ pageSize'[t] = pageSize[t]
  BY <1>1, <1>2, <1>3 DEF TypeOK
<1>5. fname'[s] = nm /\ dirty'[s] = {} /\ pageSize'[s] = defaultPageSize
  BY <1>1, <1>2, <1>3 DEF TypeOK
<1>6. \A t \in files : fname[t] # key BY DEF Found
<1>7. \A t, u \in files' : fname'[t] = fname'[u] /\ fname'[t] # NULL => t = u
  BY <1>2, <1>4, <1>5, <1>6 DEF SessionInv
<1>8. UNCHANGED touched =>
        \A t \in files', n \in Names : fname'[t] = <<n, 0>> => dirty'[t] \subseteq touched'[n]
  BY <1>2, <1>4, <1>5 DEF SessionInv
<1>9. realVfs => \A t \in files' : pageSize'[t] = defaultPageSize
  BY <1>2, <1>4, <1>5 DEF SessionInv
<1> QED BY <1>2, <1>4, <1>5, <1>7, <1>8, <1>9

LEMMA SessionOpen ==
    ASSUME IInv, SessionInv, NEW h \in Handles, NEW p \in Paths, Open(h, p)
    PROVE  SessionInv'
<1> DEFINE key == Normalize(p)
<1>1. key = <<p[1], 0>> /\ p[1] \in Names BY NormalizeKey
<1>2. /\ realVfs /\ UNCHANGED <<realVfs, defaultPageSize, touched>>
      /\ hOpen' = [hOpen EXCEPT ![h] = TRUE] /\ hFile' = [hFile EXCEPT ![h] = p[1]]
  BY DEF Open, IInv, PageSizeInv, registryVars, ghostVars
<1>3. TypeOK BY DEF IInv
<1>4. CASE \E s \in Found(key) :
             /\ hTracker' = [hTracker EXCEPT ![h] = s]
             /\ isOpen' = [isOpen EXCEPT ![s] = TRUE]
             /\ UNCHANGED <<allocated, files, fname, pageSize, totalPages, bitmapSize, dirty>>
  <2>1. PICK s \in Found(key) :
             /\ hTracker' = [hTracker EXCEPT ![h] = s]
             /\ UNCHANGED <<files, fname, pageSize, dirty>>
    BY <1>4
  <2>2. s \in files /\ fname[s] = <<p[1], 0>> BY <1>1, <2>1 DEF Found
  <2>3. ASSUME NEW g \in Handles, hOpen'[g], hTracker'[g] # NULL
        PROVE  /\ hTracker'[g] \in files'
               /\ hFile'[g] \in Names
               /\ fname'[hTracker'[g]] \in {<<hFile'[g], 0>>, NULL}
    <3>1. CASE g = h BY <1>1, <1>2, <1>3, <2>1, <2>2, <3>1 DEF TypeOK
    <3>2. CASE g # h BY <1>2, <1>3, <2>1, <2>3, <3>2 DEF SessionInv, TypeOK
    <3> QED BY <3>1, <3>2
  <2>4. \A g \in Handles : hOpen'[g] => realVfs' BY <1>2
  <2> QED BY <2>1, <2>3, <2>4, <1>2 DEF SessionInv
<1>5. CASE /\ Found(key) = {}
           /\ \E s \in Slots \ allocated :
                 /\ CreateTracker(key, s, TRUE)
                 /\ hTracker' = [hTracker EXCEPT ![h] = s]
  <2>1. PICK s \in Slots \ allocated :
             /\ CreateTracker(key, s, TRUE)
             /\ hTracker' = [hTracker EXCEPT ![h] = s]
    BY <1>5
  <2>2. /\ s \in files' /\ s \notin files /\ fname'[s] \in {key, NULL}
        /\ \A t \in files : fname'[t] = fname[t] /\ dirty'[t] = dirty[t]
        /\ realVfs => \A t \in files' : pageSize'[t] = defaultPageSize
        /\ \A t, u \in files' : fname'[t] = fname'[u] /\ fname'[t] # NULL => t = u
        /\ \A t \in files', n \in Names :
              fname'[t] = <<n, 0>> => dirty'[t] \subseteq touched'[n]
    <3>1. key \in Paths BY NormalizeType
    <3> QED BY <1>2, <1>5, <2>1, <3>1, SessionCreate
  <2>3. files \subseteq files' BY <2>1 DEF CreateTracker
  <2>4. \A g \in Handles : hOpen'[g] /\ hTracker'[g] # NULL =>
          /\ hTracker'[g] \in files'
          /\ hFile'[g] \in Names
          /\ fname'[hTracker'[g]] \in {<<hFile'[g], 0>>, NULL}
    BY <1>1, <1>2, <1>3, <2>1, <2>2, <2>3 DEF SessionInv, TypeOK
  <2> QED BY <1>2, <2>2, <2>4 DEF SessionInv
<1>6. CASE /\ Found(key) = {}
           /\ hTracker' = [hTracker EXCEPT ![h] = NULL]
           /\ UNCHANGED trackerVars
  BY <1>2, <1>3, <1>6 DEF SessionInv, TypeOK, trackerVars
<1> QED BY <1>4, <1>5, <1>6 DEF Open

LEMMA SessionGetDirtyPages ==
    ASSUME IInv, SessionInv, NEW p \in Paths, GetDirtyPages(p)
    PROVE  SessionInv'
<1> DEFINE key == Normalize(p)
<1>1. UNCHANGED <<realVfs, defaultPageSize, touched, hOpen, hTracker, hFile>>
  BY DEF GetDirtyPages, registryVars, handleVars, ghostVars
<1>2. CASE Found(key) # {} /\ UNCHANGED trackerVars
  BY <1>1, <1>2 DEF SessionInv, trackerVars
<1>3. CASE Found(key) = {} /\ \E s \in Slots \ allocated : CreateTracker(key, s, FALSE)
  <2>1. PICK s \in Slots \ allocated : CreateTracker(key, s, FALSE) BY <1>3
  <2>2. /\ s \notin files
        /\ \A t \in files : fname'[t] = fname[t]
        /\ realVfs => \A t \in files' : pageSize'[t] = defaultPageSize
        /\ \A t, u \in files' : fname'[t] = fname'[u] /\ fname'[t] # NULL => t = u
        /\ \A t \in files', n \in Names :
              fname'[t] = <<n, 0>> => dirty'[t] \subseteq touched'[n]
    BY <1>1, <1>3, <2>1, NormalizeType, SessionCreate
  <2>3. files \subseteq files' BY <2>1 DEF CreateTracker
  <2> QED BY <1>1, <2>2, <2>3 DEF SessionInv
<1> QED BY <1>2, <1>3 DEF GetDirtyPages

(* A listed tracker with no bitmap has no dirty page (BitmapWellFormed):   *)
(* the reset of line 362, which skips it, clears nothing it would need to. *)
LEMMA EmptyBitmapClean ==
    ASSUME IInv, NEW s \in files, bitmapSize[s] = 0
    PROVE  dirty[s] = {}
<1>1. s \in allocated /\ s \in Slots BY DEF IInv, TypeOK
<1>2. totalPages[s] <= bitmapSize[s] * WordBits /\ dirty[s] \subseteq 0 .. (totalPages[s] - 1)
  BY <1>1 DEF IInv, BitmapWellFormed
<1>3. totalPages[s] \in Nat BY <1>1 DEF IInv, TypeOK, MaxPages
<1>4. totalPages[s] = 0 BY <1>2, <1>3, WordBitsAssumption
<1> QED BY <1>2, <1>4

LEMMA SessionResetDirty ==
    ASSUME IInv, SessionInv, NEW p \in Paths, ResetDirty(p)
    PROVE  SessionInv'
<1> DEFINE key == Normalize(p)
<1>1. key = <<p[1], 0>> /\ p[1] \in Names BY NormalizeKey
<1>2. /\ UNCHANGED <<realVfs, defaultPageSize, hOpen, hTracker, hFile>>
      /\ touched' = [touched EXCEPT ![p[1]] = {}]
  BY DEF ResetDirty, registryVars, handleVars
<1>3. TypeOK BY DEF IInv
<1>4. \A n \in Names : n # p[1] => touched'[n] = touched[n] BY <1>2, <1>3 DEF TypeOK
<1>5. CASE \E s \in Found(key) :
             /\ dirty' = IF bitmapSize[s] = 0 THEN dirty ELSE [dirty EXCEPT ![s] = {}]
             /\ UNCHANGED <<allocated, files, fname, pageSize, totalPages, bitmapSize, isOpen>>
  <2>1. PICK s \in Found(key) :
             /\ dirty' = IF bitmapSize[s] = 0 THEN dirty ELSE [dirty EXCEPT ![s] = {}]
             /\ UNCHANGED <<files, fname, pageSize>>
    BY <1>5
  <2>2. s \in files /\ fname[s] = key BY DEF Found
  <2>3. dirty'[s] = {} /\ \A t \in files : t # s => dirty'[t] = dirty[t]
    <3>1. CASE bitmapSize[s] = 0 BY <2>1, <2>2, <3>1, EmptyBitmapClean
    <3>2. CASE bitmapSize[s] # 0 BY <1>3, <2>1, <2>2, <3>2 DEF TypeOK
    <3> QED BY <3>1, <3>2
  <2>4. ASSUME NEW t \in files', NEW n \in Names, fname'[t] = <<n, 0>>
        PROVE  dirty'[t] \subseteq touched'[n]
    <3>1. CASE t = s BY <2>3, <3>1
    <3>2. CASE t # s
      <4>1. t \in files /\ fname[t] = <<n, 0>> BY <2>1, <2>4
      <4>2. n = p[1] => fname[t] = fname[s] /\ fname[s] # NULL BY <1>1, <2>2, <4>1, NullPathAssumption, NormalizeType
      <4>3. n # p[1] BY <3>2, <2>2, <4>1, <4>2 DEF SessionInv
      <4> QED BY <1>4, <2>3, <3>2, <4>1, <4>3 DEF SessionInv
    <3> QED BY <3>1, <3>2
  <2> QED BY <1>2, <2>1, <2>4 DEF SessionInv
<1>6. CASE Found(key) = {} /\ \E s \in Slots \ allocated : CreateTracker(key, s, FALSE)
  <2>1. PICK s \in Slots \ allocated : CreateTracker(key, s, FALSE) BY <1>6
  <2>2. /\ s \in files' /\ fname'[s] \in {key, NULL}
        /\ \A t \in files : fname'[t] = fname[t] /\ dirty'[t] = dirty[t]
        /\ realVfs => \A t \in files' : pageSize'[t] = defaultPageSize
        /\ \A t, u \in files' : fname'[t] = fname'[u] /\ fname'[t] # NULL => t = u
    <3>1. key \in Paths BY NormalizeType
    <3>2. UNCHANGED <<realVfs, defaultPageSize>> BY <1>2
    <3> QED BY <1>6, <2>1, <3>1, <3>2, SessionCreate
  <2>3. files' = files \cup {s} /\ dirty'[s] = {} BY <1>3, <2>1 DEF CreateTracker, TypeOK
  <2>4. ASSUME NEW t \in files', NEW n \in Names, fname'[t] = <<n, 0>>
        PROVE  dirty'[t] \subseteq touched'[n]
    <3>1. CASE t = s BY <2>3, <3>1
    <3>2. CASE t # s
      <4>1. t \in files /\ fname[t] = <<n, 0>> BY <2>2, <2>3, <2>4, <3>2
      <4>2. n # p[1] BY <1>1, <1>6, <4>1 DEF Found
      <4> QED BY <1>4, <2>2, <4>1, <4>2 DEF SessionInv
    <3> QED BY <3>1, <3>2
  <2> QED BY <1>2, <2>2, <2>3, <2>4 DEF SessionInv
<1>7. CASE Found(key) = {} /\ UNCHANGED trackerVars
  <2>1. ASSUME NEW t \in files', NEW n \in Names, fname'[t] = <<n, 0>>
        PROVE  dirty'[t] \subseteq touched'[n]
    <3>1. n # p[1] BY <1>1, <1>7, <2>1 DEF Found, trackerVars
    <3> QED BY <1>4, <1>7, <2>1, <3>1 DEF SessionInv, trackerVars
  <2> QED BY <1>2, <1>7, <2>1 DEF SessionInv, trackerVars
<1> QED BY <1>5, <1>6, <1>7 DEF ResetDirty

(* The ghost bookkeeping of a write only adds to what was touched.         *)
LEMMA TouchGrows ==
    ASSUME TypeOK, NEW f \in Names \cup {NULL}, NEW P, NEW tracked, Touch(f, P, tracked)
    PROVE  \A n \in Names : /\ touched[n] \subseteq touched'[n]
                            /\ f = n => P \subseteq touched'[n]
<1>1. CASE f = NULL BY <1>1, NullAssumption DEF Touch, ghostVars
<1>2. CASE f # NULL
  <2>1. touched' = [touched EXCEPT ![f] = touched[f] \cup P] BY <1>2 DEF Touch
  <2> QED BY <1>2, <2>1 DEF TypeOK
<1> QED BY <1>1, <1>2

(* The pages mark_dirty sets on a tracker with the consumer's page size    *)
(* are the pages of the file the write covers.                             *)
LEMMA MarkedIsFilePages ==
    ASSUME NEW r \in Slots, pageSize[r] = defaultPageSize, defaultPageSize \in Nat \ {0},
           NEW o \in 0 .. MaxOffset, NEW a \in 1 .. MaxAmount
    PROVE  Marked(r, o, a) = FilePages(o, a)
<1>1. /\ StartPage(defaultPageSize, o) = o \div defaultPageSize
      /\ EndPage(defaultPageSize, o, a) = (o + a - 1) \div defaultPageSize
  BY PageArith
<1> QED BY <1>1 DEF Marked, FilePages

LEMMA SessionTrack ==
    ASSUME IInv, SessionInv, NEW h \in Handles, NEW o \in 0 .. MaxOffset,
           NEW a \in 1 .. MaxAmount, Track(h, o, a)
    PROVE  SessionInv'
<1> DEFINE f == hFile[h]
           P == FilePages(o, a)
<1>1. TypeOK /\ PageSizeInv BY DEF IInv
<1>2. /\ hOpen[h] /\ realVfs /\ defaultPageSize \in Nat \ {0}
      /\ f \in Names \cup {NULL} /\ hTracker[h] \in Slots \cup {NULL}
      /\ UNCHANGED <<registryVars, handleVars, allocated, files, fname, pageSize>>
  <2>1. hOpen[h] /\ UNCHANGED <<registryVars, handleVars, allocated, files, fname, pageSize>>
    <3>1. hOpen[h] /\ UNCHANGED <<registryVars, handleVars>> BY DEF Track
    <3>2. UNCHANGED <<allocated, files, fname, pageSize>>
      <4>1. CASE UNCHANGED trackerVars BY <4>1 DEF trackerVars
      <4>2. CASE UNCHANGED <<allocated, files, fname, pageSize, isOpen>> BY <4>2
      <4> QED BY <4>1, <4>2 DEF Track
    <3> QED BY <3>1, <3>2
  <2>2. realVfs /\ defaultPageSize \in Nat \ {0} BY <1>1, <2>1 DEF SessionInv, PageSizeInv, TypeOK
  <2>3. f \in Names \cup {NULL} /\ hTracker[h] \in Slots \cup {NULL} BY <1>1 DEF TypeOK
  <2> QED BY <2>1, <2>2, <2>3
<1>3. UNCHANGED <<realVfs, defaultPageSize, hOpen, hTracker, hFile>>
  BY <1>2 DEF registryVars, handleVars
<1> HIDE DEF P
<1>4. \A t \in BOOLEAN : Touch(f, P, t) =>
         \A n \in Names : /\ touched[n] \subseteq touched'[n]
                          /\ f = n => P \subseteq touched'[n]
  BY <1>1, <1>2, TouchGrows
<1>5. ASSUME NEW t \in files, NEW n \in Names, fname[t] = <<n, 0>>,
             dirty'[t] \subseteq dirty[t] \cup (IF t = hTracker[h] THEN P ELSE {}),
             \A m \in Names : /\ touched[m] \subseteq touched'[m]
                              /\ f = m => P \subseteq touched'[m]
      PROVE  dirty'[t] \subseteq touched'[n]
  <2>1. dirty[t] \subseteq touched[n] BY <1>5 DEF SessionInv
  <2>2. CASE t = hTracker[h]
    <3>1. fname[t] \in {<<f, 0>>, NULL} BY <1>1, <1>2, <1>5, <2>2, NullAssumption DEF SessionInv, TypeOK
    <3>2. <<n, 0>> \in Paths BY DEF Paths
    <3>3. f = n BY <1>5, <3>1, <3>2, NullPathAssumption
    <3> QED BY <1>5, <2>1, <2>2, <3>3
  <2>3. CASE t # hTracker[h] BY <1>5, <2>1, <2>3
  <2> QED BY <2>2, <2>3
<1>6. \A t \in files : dirty'[t] \subseteq dirty[t] \cup (IF t = hTracker[h] THEN P ELSE {})
  <2>1. CASE hTracker[h] = NULL \/ MarkDirtyFails(hTracker[h], o, a)
    BY <2>1 DEF Track, MarkDirtyFails, trackerVars
  <2>2. CASE /\ hTracker[h] # NULL /\ MarkDirtyOk(hTracker[h], o, a)
    <3> PICK r \in Slots : r = hTracker[h] BY <1>2, <2>2
    <3>1. pageSize[r] = defaultPageSize BY <1>2, <2>2 DEF SessionInv
    <3>2. Marked(r, o, a) = P BY <1>2, <3>1, MarkedIsFilePages DEF P
    <3>3. dirty'[r] \subseteq dirty[r] \cup Marked(r, o, a)
      BY <1>1, <2>2 DEF MarkDirtyOk, TypeOK
    <3>4. \A t \in Slots : t # r => dirty'[t] = dirty[t]
      BY <1>1, <2>2 DEF MarkDirtyOk, TypeOK
    <3> QED BY <1>1, <3>2, <3>3, <3>4 DEF TypeOK
  <2> QED BY <2>1, <2>2 DEF Track
<1>7. \E t \in BOOLEAN : Touch(f, P, t) BY DEF Track, P
<1>8. \A t \in files, n \in Names : fname[t] = <<n, 0>> => dirty'[t] \subseteq touched'[n]
  BY <1>4, <1>5, <1>6, <1>7
<1> QED BY <1>2, <1>3, <1>8 DEF SessionInv

(* Every step of the session keeps IInv and SessionInv together.           *)
LEMMA SessionInvInductive ==
    IInv /\ SessionInv /\ [SessionNext]_vars => IInv' /\ SessionInv'
<1> SUFFICES ASSUME IInv, SessionInv, [SessionNext]_vars PROVE IInv' /\ SessionInv'
  OBVIOUS
<1>1. IInv' BY IInvInductive DEF Next
<1> SUFFICES SessionInv' BY <1>1
<1>2. CASE \E ps \in InitPageSizes : VfsInit(ps) BY <1>2, SessionVfsInit
<1>3. CASE \E h \in Handles, p \in Paths : Open(h, p) BY <1>3, SessionOpen
<1>4. CASE \E h \in Handles : OpenAnon(h) \/ Close(h) BY <1>4, SessionOpenAnon, SessionClose
<1>5. CASE \E h \in Handles, o \in 0 .. MaxOffset, a \in 1 .. MaxAmount : Write(h, o, a)
  BY <1>5, SessionTrack DEF Write
<1>6. CASE \E h \in Handles, size \in 0 .. MaxOffset : Truncate(h, size)
  <2>1. 1 \in 1 .. MaxAmount BY BoundsAssumption
  <2> QED BY <1>6, <2>1, SessionTrack DEF Truncate
<1>7. CASE \E p \in Paths : GetDirtyPages(p) \/ ResetDirty(p)
  BY <1>7, SessionGetDirtyPages, SessionResetDirty
<1>8. CASE (\E h \in Handles : FilePassThrough(h)) \/ VfsPassThrough \/ UNCHANGED vars
  <2>1. UNCHANGED vars BY <1>8 DEF FilePassThrough, VfsPassThrough
  <2> QED BY <2>1, SessionStutter
<1> QED BY <1>2, <1>3, <1>4, <1>5, <1>6, <1>7, <1>8 DEF SessionNext

(* Soundness of vfs_tracking_get_dirty_pages (lines 299-343) between init  *)
(* and shutdown, for every number of names, handles and slots and every    *)
(* page size: the pages it returns for a file were all written or          *)
(* truncated through a handle of that file since its last reset_dirty, so  *)
(* the sync never ships a page nobody changed, whatever the order of       *)
(* opens, closes, repeated inits, resets and failed allocations.  Shutdown *)
(* is not a step of SessionSpec, so no tracker is freed and no heap block  *)
(* is reused: after shutdown the property fails (the stale_tracker run).   *)
THEOREM PhantomFree == SessionSpec => []NoPhantomDirty
<1>1. IInv /\ SessionInv => NoPhantomDirty
  <2> SUFFICES ASSUME IInv, SessionInv, NEW p \in Paths, NEW s \in Found(Normalize(p)),
                      NEW i \in Reported(s)
               PROVE  i \in touched[p[1]]
    BY DEF NoPhantomDirty, DirtyPagesOf
  <2>1. s \in files /\ fname[s] = <<p[1], 0>> /\ p[1] \in Names BY NormalizeKey DEF Found
  <2>2. i \in dirty[s] BY DEF Reported
  <2> QED BY <2>1, <2>2 DEF SessionInv
<1>2. Init => IInv /\ SessionInv BY InitIInv, SessionInit
<1> QED BY <1>1, <1>2, SessionInvInductive, PTL DEF SessionSpec

=============================================================================
