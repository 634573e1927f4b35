----------------------------- MODULE VfsTracking -----------------------------
(***************************************************************************)
(* The dirty-page tracking VFS of SQLiteNET.Opfs                           *)
(* (src/SQLiteNET.Opfs/Native/src/vfs_tracking.c).                         *)
(*                                                                         *)
(* One process-wide registry g_state: the wrapped real VFS, the default    *)
(* page size and a linked list of FileTracker records, each a growable     *)
(* bitmap of dirty pages for one normalized file name.  SQLite opens files *)
(* through trackingOpen, which attaches a tracker to the TrackingFile;     *)
(* fileWrite and fileTruncate mark pages dirty after the real VFS          *)
(* succeeded.  The persistence layer reads the pages with                  *)
(* vfs_tracking_get_dirty_pages and clears them with                       *)
(* vfs_tracking_reset_dirty.                                               *)
(*                                                                         *)
(* Heap blocks are modelled as Slots: calloc returns any free slot (or     *)
(* fails), free returns it; a handle keeps its pointer to a slot even      *)
(* after the slot is freed, as the C code does.  The bitmap is the set     *)
(* `dirty` of bit indices that are 1, over bitmapSize words of WordBits    *)
(* bits; page arithmetic is uint32, scaled to PageWidth bits.              *)
(*                                                                         *)
(* The ghost variables touched and dropped record, per logical file, what *)
(* the code has been asked to track; they never influence a guard and     *)
(* exist only for the properties.                                         *)
(***************************************************************************)
EXTENDS Naturals, FiniteSets

CONSTANTS
    Names,              \* logical database files (model values)
    Handles,            \* sqlite3_file structures SQLite passes to xOpen
    Slots,              \* heap blocks calloc may return for a FileTracker
    NULL,               \* the null pointer / absent name
    InitPageSizes,      \* pageSize arguments of vfs_tracking_init
    DEFAULT_PAGE_SIZE,  \* vfs_tracking.h:28
    WordBits,           \* bits per bitmap word (32: uint32_t)
    PageWidth,          \* width of the uint32_t page arithmetic (32)
    MaxOffset,          \* largest byte offset SQLite writes or truncates to
    MaxAmount,          \* largest byte count of one write
    StrdupMayFail       \* whether strdup may return NULL (a fault model)

UINT == 2^PageWidth

(* Largest page count a tracker can need, and the bitmap words for it.    *)
MaxPages == MaxOffset + MaxAmount
MaxWords == (MaxPages + WordBits - 1) \div WordBits

ASSUME WordBitsAssumption == WordBits \in Nat \ {0}
ASSUME PageWidthAssumption == PageWidth \in Nat \ {0}
ASSUME DefaultPageSizeAssumption == DEFAULT_PAGE_SIZE \in Nat \ {0}
ASSUME InitPageSizesAssumption == InitPageSizes \subseteq Nat
ASSUME NullAssumption == NULL \notin Slots \cup Names
ASSUME NamesAssumption == Names # {}
ASSUME StrdupAssumption == StrdupMayFail \in BOOLEAN
(* Page indices stay below 2^32 - WordBits: no uint32 wrap in mark_dirty. *)
ASSUME BoundsAssumption ==
    /\ MaxOffset \in Nat
    /\ MaxAmount \in Nat \ {0}
    /\ MaxPages + WordBits <= UINT

(* A file name as SQLite or the binding passes it: <<name, k>> with k     *)
(* leading '/' characters.  vfs_tracking_get_file strips one.             *)
Paths == Names \X {0, 1}

(* A strdup'd name is a non-NULL pointer: no file name is NULL.          *)
ASSUME NullPathAssumption == NULL \notin Paths

(* Mutant: the leading '/' is not stripped.                             *)
NormalizeNoStrip(p) == p

Normalize(p) == <<p[1], IF p[2] > 0 THEN p[2] - 1 ELSE 0>>

RcValues == {"none", "OK", "ERROR"}

VARIABLES
    (* g_state and the registration of trackingVfs *)
    realVfs,          \* g_state.pRealVfs # NULL
    registered,       \* trackingVfs is registered (as the default VFS)
    defaultPageSize,  \* g_state.defaultPageSize
    initRc,           \* result of the last vfs_tracking_init call
    (* the heap of FileTracker blocks *)
    allocated,        \* slots calloc'd and not yet freed
    files,            \* slots on the g_state.files list
    fname,            \* FileTracker.filename (normalized)
    pageSize,         \* FileTracker.pageSize
    totalPages,       \* FileTracker.totalPages
    bitmapSize,       \* FileTracker.bitmapSize (words; 0 <=> dirtyBitmap NULL)
    dirty,            \* the bits set in FileTracker.dirtyBitmap
    isOpen,           \* FileTracker.isOpen
    (* TrackingFile structures *)
    hOpen,            \* the handle is open (xOpen succeeded, no xClose yet)
    hTracker,         \* TrackingFile.pTracker
    (* ghost state *)
    hFile,            \* the logical file a handle was opened on (NULL: anonymous)
    touched,          \* pages written/truncated since the last reset, per file
    dropped           \* pages of touched whose marking an allocation failure lost

registryVars == <<realVfs, registered, defaultPageSize, initRc>>
trackerVars == <<allocated, files, fname, pageSize, totalPages, bitmapSize, dirty, isOpen>>
handleVars == <<hOpen, hTracker, hFile>>
ghostVars == <<touched, dropped>>
vars == <<registryVars, trackerVars, handleVars, ghostVars>>

-----------------------------------------------------------------------------
(* Page arithmetic of vfs_tracking_mark_dirty (lines 242-249).            *)

StartPage(ps, o) == (o \div ps) % UINT
EndPage(ps, o, a) == ((o + a - 1) \div ps) % UINT
Required(ps, o, a) == (EndPage(ps, o, a) + 1) % UINT
(* Mutant: the size in words is taken to be the page count (no /32).    *)
NewBitmapSizeInPages(req) == req % UINT
NewBitmapSize(req) == ((req + WordBits - 1) % UINT) \div WordBits

(* Mutant: the loop runs to i <= requiredPages, one page past the range.  *)
MarkedPastEnd(s, o, a) == StartPage(pageSize[s], o) .. Required(pageSize[s], o, a)

(* The pages the loop of lines 276-281 sets for a write to tracker s.     *)
Marked(s, o, a) == StartPage(pageSize[s], o) .. EndPage(pageSize[s], o, a)

NeedsGrow(s, o, a) == Required(pageSize[s], o, a) > totalPages[s]
NeedsRealloc(s, o, a) ==
    /\ NeedsGrow(s, o, a)
    /\ NewBitmapSize(Required(pageSize[s], o, a)) > bitmapSize[s]

(* The bits of the words realloc adds when the bitmap grows to n words.   *)
NewWords(s, n) == {i \in 0 .. (n * WordBits - 1) : i >= bitmapSize[s] * WordBits}

(* What vfs_tracking_get_dirty_pages lists for tracker s (lines 299-343). *)
Reported(s) ==
    IF bitmapSize[s] = 0 THEN {} ELSE {i \in dirty[s] : i < totalPages[s]}

(* The trackers vfs_tracking_get_file finds for key (lines 197-206).      *)
Found(key) == {s \in files : fname[s] = key}

(* The pages get_dirty_pages(p) would return now.                         *)
DirtyPagesOf(p) == UNION {Reported(s) : s \in Found(Normalize(p))}

(* The pages of the file a write covers, in the consumer's page size.     *)
FilePages(o, a) == (o \div defaultPageSize) .. ((o + a - 1) \div defaultPageSize)

-----------------------------------------------------------------------------
(* Mutant: the failed realloc does not return; totalPages is raised and  *)
(* the bits are set beyond the old bitmap.                               *)
MarkDirtyFailsNoReturn(s, o, a) ==
    /\ a > 0
    /\ NeedsRealloc(s, o, a)
    /\ totalPages' = [totalPages EXCEPT ![s] = Required(pageSize[s], o, a)]
    /\ dirty' = [dirty EXCEPT ![s] = @ \cup Marked(s, o, a)]
    /\ UNCHANGED bitmapSize

(* Mutant: the words realloc adds are not zeroed and hold any bits.       *)
MarkDirtyOkNoZero(s, o, a) ==
    LET req == Required(pageSize[s], o, a)
        nbs == NewBitmapSize(req)
    IN  /\ a > 0
        /\ bitmapSize' = [bitmapSize EXCEPT ![s] =
                            IF NeedsRealloc(s, o, a) THEN nbs ELSE @]
        /\ totalPages' = [totalPages EXCEPT ![s] = IF req > @ THEN req ELSE @]
        /\ \E junk \in SUBSET NewWords(s, nbs) :
              dirty' = [dirty EXCEPT ![s] =
                          IF NeedsRealloc(s, o, a)
                          THEN @ \cup junk \cup Marked(s, o, a)
                          ELSE @ \cup Marked(s, o, a)]

(* vfs_tracking_mark_dirty(s, o, a) when realloc of a grown bitmap fails: *)
(* it prints an error and returns with the tracker unchanged.             *)
MarkDirtyFails(s, o, a) ==
    /\ a > 0
    /\ NeedsRealloc(s, o, a)
    /\ UNCHANGED <<bitmapSize, totalPages, dirty>>

(* vfs_tracking_mark_dirty(s, o, a) when it completes: grow the bitmap    *)
(* (realloc, zero the new words), raise totalPages, set the page bits.    *)
MarkDirtyOk(s, o, a) ==
    LET req == Required(pageSize[s], o, a)
        nbs == NewBitmapSize(req)
    IN  /\ a > 0
        /\ bitmapSize' = [bitmapSize EXCEPT ![s] =
                            IF NeedsRealloc(s, o, a) THEN nbs ELSE @]
        /\ totalPages' = [totalPages EXCEPT ![s] = IF req > @ THEN req ELSE @]
        /\ dirty' = [dirty EXCEPT ![s] =
                        IF NeedsRealloc(s, o, a)
                        THEN (@ \ NewWords(s, nbs)) \cup Marked(s, o, a)
                        ELSE @ \cup Marked(s, o, a)]

(* Ghost bookkeeping of a successful write or truncate to file f that     *)
(* covers pages P; `tracked` says whether the tracker recorded them.      *)
Touch(f, P, tracked) ==
    IF f = NULL
    THEN UNCHANGED ghostVars
    ELSE /\ touched' = [touched EXCEPT ![f] = @ \cup P]
         /\ dropped' = [dropped EXCEPT ![f] = IF tracked THEN @ \ P ELSE @ \cup P]

(* strdup(normalizedName) at line 215: a copy of the name, or NULL when   *)
(* it cannot allocate; the result is not checked.                         *)
StrdupResult(key) == IF StrdupMayFail THEN {key, NULL} ELSE {key}

(* vfs_tracking_get_file, miss branch: calloc returns the free slot s and *)
(* the new tracker is pushed on g_state.files (lines 208-226); isOpen is  *)
(* set to `open` (0 from calloc, 1 when trackingOpen sets it at once).    *)
CreateTracker(key, s, open) ==
    /\ s \in Slots \ allocated
    /\ allocated' = allocated \cup {s}
    /\ files' = files \cup {s}
    /\ \E nm \in StrdupResult(key) : fname' = [fname EXCEPT ![s] = nm]
    /\ pageSize' = [pageSize EXCEPT ![s] = defaultPageSize]
    /\ totalPages' = [totalPages EXCEPT ![s] = 0]
    /\ bitmapSize' = [bitmapSize EXCEPT ![s] = 0]
    /\ dirty' = [dirty EXCEPT ![s] = {}]
    /\ isOpen' = [isOpen EXCEPT ![s] = open]

-----------------------------------------------------------------------------
Init ==
    /\ realVfs = FALSE
    /\ registered = FALSE
    /\ defaultPageSize = 0
    /\ initRc = "none"
    /\ allocated = {}
    /\ files = {}
    /\ fname = [s \in Slots |-> <<CHOOSE n \in Names : TRUE, 0>>]
    /\ pageSize = [s \in Slots |-> 0]
    /\ totalPages = [s \in Slots |-> 0]
    /\ bitmapSize = [s \in Slots |-> 0]
    /\ dirty = [s \in Slots |-> {}]
    /\ isOpen = [s \in Slots |-> FALSE]
    /\ hOpen = [h \in Handles |-> FALSE]
    /\ hTracker = [h \in Handles |-> NULL]
    /\ hFile = [h \in Handles |-> NULL]
    /\ touched = [n \in Names |-> {}]
    /\ dropped = [n \in Names |-> {}]

(* Mutant: initialization keeps the trackers created before it.          *)
VfsInitKeepFiles(ps) ==
    /\ \/ /\ realVfs
          /\ initRc' = "OK"
          /\ UNCHANGED <<realVfs, registered, defaultPageSize>>
       \/ /\ ~realVfs
          /\ initRc' = "ERROR"
          /\ UNCHANGED <<realVfs, registered, defaultPageSize>>
       \/ /\ ~realVfs
          /\ realVfs' = TRUE
          /\ defaultPageSize' = IF ps > 0 THEN ps ELSE DEFAULT_PAGE_SIZE
          /\ \E ok \in BOOLEAN :
                /\ registered' = ok
                /\ initRc' = IF ok THEN "OK" ELSE "ERROR"
    /\ UNCHANGED <<allocated, files, fname, pageSize, totalPages, bitmapSize, dirty, isOpen>>
    /\ UNCHANGED <<handleVars, ghostVars>>

(* vfs_tracking_init(baseVfsName, ps).  Already initialized: return OK.   *)
(* Base VFS not found: return SQLITE_ERROR.  Otherwise record the real    *)
(* VFS, drop the tracker list, set the page size, then register; a failed *)
(* registration returns its code with g_state already filled in.          *)
VfsInit(ps) ==
    /\ \/ /\ realVfs
          /\ initRc' = "OK"
          /\ UNCHANGED <<realVfs, registered, defaultPageSize, files>>
       \/ /\ ~realVfs
          /\ initRc' = "ERROR"
          /\ UNCHANGED <<realVfs, registered, defaultPageSize, files>>
       \/ /\ ~realVfs
          /\ realVfs' = TRUE
          /\ files' = {}
          /\ defaultPageSize' = IF ps > 0 THEN ps ELSE DEFAULT_PAGE_SIZE
          /\ \E ok \in BOOLEAN :
                /\ registered' = ok
                /\ initRc' = IF ok THEN "OK" ELSE "ERROR"
    /\ UNCHANGED <<allocated, fname, pageSize, totalPages, bitmapSize, dirty, isOpen>>
    /\ UNCHANGED <<handleVars, ghostVars>>

(* vfs_tracking_shutdown: free every tracker on the list, unregister the  *)
(* VFS, clear the list and pRealVfs.  Open TrackingFiles keep pTracker.   *)
Shutdown ==
    /\ allocated' = allocated \ files
    /\ files' = {}
    /\ realVfs' = FALSE
    /\ registered' = FALSE
    /\ touched' = [n \in Names |-> {}]
    /\ dropped' = [n \in Names |-> {}]
    /\ UNCHANGED <<defaultPageSize, initRc, fname, pageSize, totalPages,
                   bitmapSize, dirty, isOpen, handleVars>>

(* trackingOpen(p) when the real xOpen succeeded (a failed xOpen changes  *)
(* nothing): attach the tracker get_file returns and set its isOpen.      *)
Open(h, p) ==
    LET key == Normalize(p) IN
    /\ registered
    /\ ~hOpen[h]
    /\ hOpen' = [hOpen EXCEPT ![h] = TRUE]
    /\ hFile' = [hFile EXCEPT ![h] = p[1]]
    /\ \/ \E s \in Found(key) :
             /\ hTracker' = [hTracker EXCEPT ![h] = s]
             /\ isOpen' = [isOpen EXCEPT ![s] = TRUE]
             /\ UNCHANGED <<allocated, files, fname, pageSize, totalPages, bitmapSize, dirty>>
       \/ /\ Found(key) = {}
          /\ \E s \in Slots \ allocated :
                /\ CreateTracker(key, s, TRUE)
                /\ hTracker' = [hTracker EXCEPT ![h] = s]
       \/ /\ Found(key) = {}
          /\ hTracker' = [hTracker EXCEPT ![h] = NULL]
          /\ UNCHANGED trackerVars
    /\ UNCHANGED <<registryVars, ghostVars>>

(* trackingOpen with zName == NULL (a temporary file): no tracker.        *)
OpenAnon(h) ==
    /\ registered
    /\ ~hOpen[h]
    /\ hOpen' = [hOpen EXCEPT ![h] = TRUE]
    /\ hTracker' = [hTracker EXCEPT ![h] = NULL]
    /\ hFile' = [hFile EXCEPT ![h] = NULL]
    /\ UNCHANGED <<registryVars, trackerVars, ghostVars>>

(* fileClose: close the real file, then clear isOpen of the tracker,      *)
(* whatever the close returned.  SQLite releases the TrackingFile.        *)
Close(h) ==
    LET s == hTracker[h] IN
    /\ hOpen[h]
    /\ hOpen' = [hOpen EXCEPT ![h] = FALSE]
    /\ hTracker' = [hTracker EXCEPT ![h] = NULL]
    /\ hFile' = [hFile EXCEPT ![h] = NULL]
    /\ isOpen' = IF s = NULL THEN isOpen ELSE [isOpen EXCEPT ![s] = FALSE]
    /\ UNCHANGED <<registryVars, allocated, files, fname, pageSize, totalPages,
                   bitmapSize, dirty, ghostVars>>

(* fileRead, fileSync, fileFileSize, fileLock, fileUnlock,                *)
(* fileCheckReservedLock, fileFileControl, fileSectorSize and             *)
(* fileDeviceCharacteristics: SQLite calls them on an open handle, and    *)
(* each only forwards to the real file, whatever that returns.            *)
FilePassThrough(h) ==
    /\ hOpen[h]
    /\ UNCHANGED vars

(* trackingDelete, trackingAccess and trackingFullPathname: SQLite calls  *)
(* them through the registered VFS, and each forwards to pAppData, the    *)
(* real VFS.  Deleting a file leaves its tracker and its dirty pages.     *)
VfsPassThrough ==
    /\ registered
    /\ UNCHANGED vars

(* The tracking half of fileWrite and fileTruncate after the real call    *)
(* returned SQLITE_OK (a failing real call changes nothing): mark         *)
(* [o, o + a) dirty on the handle's tracker, if it has one.               *)
Track(h, o, a) ==
    LET s == hTracker[h]
        f == hFile[h]
    IN
    /\ hOpen[h]
    /\ \/ /\ s = NULL
          /\ Touch(f, FilePages(o, a), FALSE)
          /\ UNCHANGED trackerVars
       \/ /\ s # NULL
          /\ MarkDirtyOk(s, o, a)
          /\ Touch(f, FilePages(o, a), TRUE)
          /\ UNCHANGED <<allocated, files, fname, pageSize, isOpen>>
       \/ /\ s # NULL
          /\ MarkDirtyFails(s, o, a)
          /\ Touch(f, FilePages(o, a), FALSE)
          /\ UNCHANGED <<allocated, files, fname, pageSize, isOpen>>
    /\ UNCHANGED <<registryVars, handleVars>>

(* fileWrite: track the written bytes.                                    *)
Write(h, o, a) == Track(h, o, a)

(* fileTruncate: track the single byte at the new size.                   *)
Truncate(h, size) == Track(h, size, 1)

(* vfs_tracking_get_dirty_pages(p): get_file(p), then list the set bits   *)
(* below totalPages.  A failing calloc or malloc changes nothing.         *)
GetDirtyPages(p) ==
    LET key == Normalize(p) IN
    /\ \/ /\ Found(key) # {}
          /\ UNCHANGED trackerVars
       \/ /\ Found(key) = {}
          /\ \E s \in Slots \ allocated : CreateTracker(key, s, FALSE)
    /\ UNCHANGED <<registryVars, handleVars, ghostVars>>

(* vfs_tracking_reset_dirty(p): get_file(p), then zero all bitmapSize     *)
(* words if the bitmap exists.                                            *)
ResetDirty(p) ==
    LET key == Normalize(p) IN
    /\ \/ \E s \in Found(key) :
             /\ dirty' = IF bitmapSize[s] = 0 THEN dirty
                         ELSE [dirty EXCEPT ![s] = {}]
             /\ UNCHANGED <<allocated, files, fname, pageSize, totalPages,
                            bitmapSize, isOpen>>
       \/ /\ Found(key) = {}
          /\ \E s \in Slots \ allocated : CreateTracker(key, s, FALSE)
       \/ /\ Found(key) = {}
          /\ UNCHANGED trackerVars
    /\ touched' = [touched EXCEPT ![p[1]] = {}]
    /\ dropped' = [dropped EXCEPT ![p[1]] = {}]
    /\ UNCHANGED <<registryVars, handleVars>>

-----------------------------------------------------------------------------
(* Everything but the teardown: the registry's lifetime between           *)
(* initialization and process shutdown.                                   *)
SessionNext ==
    \/ \E ps \in InitPageSizes : VfsInit(ps)
    \/ \E h \in Handles, p \in Paths : Open(h, p)
    \/ \E h \in Handles : OpenAnon(h) \/ Close(h)
    \/ \E h \in Handles, o \in 0 .. MaxOffset, a \in 1 .. MaxAmount : Write(h, o, a)
    \/ \E h \in Handles, size \in 0 .. MaxOffset : Truncate(h, size)
    \/ \E p \in Paths : GetDirtyPages(p) \/ ResetDirty(p)
    \/ \E h \in Handles : FilePassThrough(h)
    \/ VfsPassThrough

Next == SessionNext \/ Shutdown

SessionSpec == Init /\ [][SessionNext]_vars

Spec == Init /\ [][Next]_vars

-----------------------------------------------------------------------------
(* The refinement mapping onto DirtyPageSet: a file's abstract dirty set   *)
(* is what get_dirty_pages returns for its name (both spellings normalize  *)
(* to <<n, 0>>); the configured page size is g_state.defaultPageSize.      *)
AbsDirtyPages == [n \in Names |-> DirtyPagesOf(<<n, 0>>)]

Abs == INSTANCE DirtyPageSet WITH
    pageSize <- defaultPageSize,
    dirtyPages <- AbsDirtyPages,
    PageSizes <- {IF ps > 0 THEN ps ELSE DEFAULT_PAGE_SIZE : ps \in InitPageSizes},
    Offsets <- 0 .. MaxOffset,
    Amounts <- 1 .. MaxAmount

-----------------------------------------------------------------------------
(* Every variable holds a value of its C type, within the bounds the      *)
(* inputs allow: no page index or bitmap size outside what mark_dirty can *)
(* compute for offsets up to MaxOffset.                                   *)
TypeOK ==
    /\ realVfs \in BOOLEAN
    /\ registered \in BOOLEAN
    /\ defaultPageSize \in Nat
    /\ initRc \in RcValues
    /\ allocated \subseteq Slots
    /\ files \subseteq allocated
    /\ fname \in [Slots -> Paths \cup {NULL}]
    /\ pageSize \in [Slots -> Nat]
    /\ totalPages \in [Slots -> 0 .. MaxPages]
    /\ bitmapSize \in [Slots -> 0 .. MaxWords]
    /\ dirty \in [Slots -> SUBSET (0 .. (MaxPages - 1))]
    /\ isOpen \in [Slots -> BOOLEAN]
    /\ hOpen \in [Handles -> BOOLEAN]
    /\ hTracker \in [Handles -> Slots \cup {NULL}]
    /\ hFile \in [Handles -> Names \cup {NULL}]
    /\ touched \in [Names -> SUBSET (0 .. (MaxPages - 1))]
    /\ dropped \in [Names -> SUBSET (0 .. (MaxPages - 1))]

(* The bitmap of every live tracker covers its totalPages and has no bit  *)
(* set at or beyond totalPages (spec 3: such bits "must read as unset").  *)
(* mark_dirty relies on this when it raises totalPages inside the last    *)
(* word without reallocating or zeroing anything.                         *)
BitmapWellFormed ==
    \A s \in allocated :
        /\ totalPages[s] <= bitmapSize[s] * WordBits
        /\ dirty[s] \subseteq 0 .. (totalPages[s] - 1)

(* Every open handle's tracker has a positive page size, so fileWrite and *)
(* fileTruncate never divide by zero in mark_dirty, though get_file gives *)
(* trackers created before vfs_tracking_init a page size of 0.            *)
NoZeroPageSize ==
    \A h \in Handles :
        hOpen[h] /\ hTracker[h] # NULL => pageSize[hTracker[h]] > 0

(* Completeness: for every spelling p of a file name, get_dirty_pages(p)  *)
(* lists every page written or truncated through any handle of that file  *)
(* since its last reset_dirty, unless an allocation failure lost it.      *)
DirtyCoversWrites ==
    \A p \in Paths : touched[p[1]] \ dropped[p[1]] \subseteq DirtyPagesOf(p)

(* Soundness: get_dirty_pages(p) lists only pages written or truncated    *)
(* through a handle of that file since its last reset_dirty.              *)
NoPhantomDirty ==
    \A p \in Paths : DirtyPagesOf(p) \subseteq touched[p[1]]

(* isOpen of a tracker is TRUE exactly when some open handle references   *)
(* it (spec 3, Tracker.isOpen).                                           *)
IsOpenAccurate ==
    \A s \in files :
        isOpen[s] <=> \E h \in Handles : hOpen[h] /\ hTracker[h] = s

(* Trackers outlive the handles that reference them (spec 9): the tracker *)
(* of an open handle is still on the registry's list.                     *)
TrackersOutliveHandles ==
    \A h \in Handles :
        hOpen[h] /\ hTracker[h] # NULL => hTracker[h] \in files

(* When vfs_tracking_init last returned SQLITE_OK, the tracking VFS is    *)
(* installed as the default VFS (spec 4.2, initialize).                   *)
InitOkMeansRegistered == initRc = "OK" => registered

(* Every tracker on g_state.files has a file name: get_file's search      *)
(* (line 200) passes each listed filename to strcmp, so a tracker whose   *)
(* strdup failed at line 215 makes every later open or query of a file    *)
(* not found before it dereference NULL.                                  *)
ListedTrackersNamed == \A s \in files : fname[s] # NULL

(* Between init and shutdown the tracker implements DirtyPageSet: every    *)
(* step of the C code, seen through get_dirty_pages, either configures     *)
(* the page size once, adds exactly the pages of one write or truncation   *)
(* to one file, empties one file on reset_dirty, or changes nothing a     *)
(* consumer can see (opens, closes, queries, lost tracking).               *)
DirtyPageSetRefined == Abs!Spec

=============================================================================
