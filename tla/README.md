# TLA+ verification of the dirty-page tracking VFS

This directory models `src/SQLiteNET.Opfs/Native/src/vfs_tracking.c` and
`vfs_tracking.h`. That code is a SQLite VFS decorator that records which pages
of each database file were written since the last sync, so the persistence
layer can upload only those pages to OPFS.

## The system

| Part | Code | What it does |
|---|---|---|
| File tracker registry | `g_state`, `vfs_tracking_init` (93-146), `vfs_tracking_shutdown` (151-179), `vfs_tracking_get_file` (184-227) | One process-wide record holds the real VFS, the default page size and a linked list of `FileTracker`s, keyed by the normalised file name (one leading `/` stripped). |
| Dirty page bitmap | `vfs_tracking_mark_dirty` (232-282), `vfs_tracking_get_dirty_pages` (287-351), `vfs_tracking_reset_dirty` (356-377) | Each tracker has a `uint32_t` word bitmap, `bitmapSize` words and `totalPages`. The bitmap grows by `realloc`, and the new words are zeroed. |
| Tracking VFS decorator | `trackingOpen` (382-420), `fileClose` (444-455), `fileWrite` (463-478), `fileTruncate` (480-493), plus pass-throughs | Opening attaches a tracker to the `TrackingFile` and sets `isOpen`. A successful write or truncate marks pages dirty, and close clears `isOpen`. |
| SQLite stub (`src/SqliteWasm.Data/native/sqlite3_stub.c`) | link-time stubs | Not modelled: it keeps no state and only returns constants. |

How the parts interact:
- SQLite calls the decorator.
- The decorator calls `get_file` and `mark_dirty` on the registry's trackers.
- The sync consumer, which is C# and not under `src/`, calls `get_dirty_pages` and then `reset_dirty`.
- `shutdown` frees every tracker, while SQLite handles may still point at them.

## Modules

- **`VfsTracking.tla`**: the whole C file as one state machine.
  - **Registry state:**
    - `realVfs` is `g_state.pRealVfs != NULL`.
    - `registered` says whether the VFS is registered.
    - `defaultPageSize` is `g_state.defaultPageSize`.
    - `initRc` is the last result of `vfs_tracking_init`.
  - **Heap:** `calloc`'d `FileTracker` blocks are `Slots`.
    - `allocated` is the set of blocks that are not freed.
    - `files` is the list `g_state.files`.
    - The per-slot fields are `fname`, `pageSize`, `totalPages`, `bitmapSize`, `dirty` (the set of 1-bits) and `isOpen`.
    - Because `calloc` may return a freed slot, a handle that still holds a freed pointer ends up sharing a tracker with a new file.
  - **Handles:** `hOpen`, and `hTracker` (`TrackingFile.pTracker`).
  - **Ghost variables:** `hFile`, `touched` and `dropped` record what the code was asked to track. They appear in no guard.
  - **Actions:**
    - `VfsInit(ps)` has three outcomes: already initialised, base VFS not found, or the state is filled in and then registration succeeds or fails.
    - `Shutdown`.
    - `Open(h, p)` has three outcomes: tracker found, tracker created, or `calloc` fails.
    - `OpenAnon(h)` and `Close(h)`.
    - `Write` and `Truncate` both use `Track`, which has three outcomes: no tracker, `mark_dirty` completes, or `realloc` fails.
    - `GetDirtyPages(p)` and `ResetDirty(p)` both go through `get_file`, so each may create a tracker.
    - A failing real `xOpen`/`xWrite`/`xTruncate`, a failing `calloc` in the query calls, or a failing `malloc` in `get_dirty_pages` changes no state. Each is therefore a stutter.
    - The pass-through methods change no decorator state.
  - **Integers:** page arithmetic is `uint32_t` scaled to `PageWidth` bits (`% UINT`). The word size is `WordBits`.
  - **Names:**
    - A name is a pair `<<name, slashes>>`, where `slashes` is 0 or 1 leading `/`.
    - `Normalize` strips one slash, as line 195 does.
  - **Pass-throughs:** `FilePassThrough(h)` covers `fileRead`, `fileSync` and the other forwarding file methods on an open handle. `VfsPassThrough` covers `trackingDelete`, `trackingAccess` and `trackingFullPathname` while the VFS is registered. Both are stuttering steps, because the code changes no decorator state there. In particular, a delete keeps the file's tracker.
  - **Fault model:** `StrdupMayFail` lets the unchecked `strdup` of line 215 return NULL. It is `FALSE` in every run except `strdup_fail`, and the proofs hold for both values.
- **`DirtyPageSet.tla`**: the abstract specification of what the tracker promises its consumer. Per file, it holds the set of pages written since the last reset. The page size is configured once. `Mark` adds exactly the pages of a byte range, and `Reset` empties one file. `VfsTracking` defines `Abs == INSTANCE DirtyPageSet WITH pageSize <- defaultPageSize, dirtyPages <- AbsDirtyPages`. Here `AbsDirtyPages[n]` is what `get_dirty_pages` returns for `n`, and the refinement is the property `DirtyPageSetRefined == Abs!Spec`.
- **`MarkDirtyLoop.tla`**: `vfs_tracking_mark_dirty` on one tracker, at statement grain.
  - `Call(o, a)` is lines 242-273: the page arithmetic, and the growth with its failing realloc.
  - `LoopStep` is one iteration of the loop at 276-281, and `LoopExit` is the failing loop test.
  - Unlike `VfsTracking`, it does not bound page numbers. So the uint32 sums `endPage + 1` and `requiredPages + 31` and the counter `i++` wrap, as in C.
  - The bitmap is an array of words. Setting a bit in a word at or past `bitmapSize` sets `overflow`, which models a heap overflow.
  - The ghost `marked` collects the pages of completed calls.
- **`MCVfsTracking.tla`** and **`MCMarkDirtyLoop.tla`**: the constants for TLC. `MCVfsTracking` also gives a symmetry over `Handles` and over `Slots`, and two VIEWs that drop ghost variables. Both VIEWs are sound because no guard reads a dropped variable.
- **`VfsTrackingProofs.tla`**, **`SessionProofs.tla`**, **`RefinementProofs.tla`**, **`CoverageProofs.tla`** and **`MarkDirtyLoopProofs.tla`**: the TLAPS proofs. Each of the last three extends the one before it in this list where it reuses its invariant (`RefinementProofs` extends `SessionProofs`, `CoverageProofs` extends `RefinementProofs`).

## Runs

The `VfsTracking` runs use `Names = {a}`, two handles, two heap slots, `InitPageSizes = {0, 1}`, `DEFAULT_PAGE_SIZE = 2`, `WordBits = 2`, `PageWidth = 4`, offsets 0..3 and write lengths 1..2. `lifecycle` stops at offset 2. It explores shutdown, re-init and stale handles over two slots, and offset 2 keeps it to about 300,000 states. Page 3 still needs a second word, so realloc growth still happens.

These bounds make the interesting cases happen:
- Both page sizes occur: page size 1 comes from init, and page size 2 is the default reached through `ps = 0`.
- Writes span a page boundary.
- The bitmap grows by one word with a `realloc`, and also grows inside its last word without one.
- Two handles share a tracker.
- Both spellings of the name occur.
- In `lifecycle`, a slot is freed by shutdown and reused.

The `MarkDirtyLoop` runs use page size 1, `WordBits = 2` and `PageWidth = 3`, so there are 8 page numbers and 4 words. `loop` uses offsets 0..4, which keep `endPage + WordBits` below 2^PageWidth: this is `NoPageWrap`, the scaled form of "page numbers below 2^32 - 32". `page_wrap` and `loop_hang` use offsets 0..9. These reach page 6, where `requiredPages + WordBits - 1` wraps, page 7, where `endPage = UINT_MAX`, and offsets past the last page, which the cast wraps to page 0.

| Run | Expect | Properties | Shows |
|---|---|---|---|
| `tracking` | pass | `DirtyCoversWrites`, `NoPhantomDirty` | `get_dirty_pages` for either spelling lists exactly the pages written since the last reset, less those a failed `realloc` dropped. This holds across calloc/realloc failures, growth and reopening. The run uses `SessionSpec`: before shutdown, since shutdown discards everything. |
| `lifecycle` | pass | `TypeOK`, `BitmapWellFormed`, `NoZeroPageSize` | It covers init, shutdown, re-init and stale handles. No live bitmap has a bit at or beyond `totalPages`, and no open handle reaches a tracker whose page size is 0. |
| `refinement` | pass | `DirtyPageSetRefined` | Between init and shutdown, every C step seen through `get_dirty_pages` is a `DirtyPageSet` step or a stutter. This includes the bitmap growth, the failing allocations and the pass-throughs. |
| `loop` | pass | `LoopInBounds`, `BitmapMatchesCalls`, `CallReturns` | With pages below the wrap, the loop stays inside the bitmap and always returns. Between calls, the bitmap holds exactly the pages of the completed calls, with no stale bits from realloc. |
| `page_wrap` | violation | `LoopInBounds` | `requiredPages + 31` wraps, no realloc happens, and the loop writes past the bitmap. |
| `loop_hang` | violation | `CallReturns` | `endPage = UINT32_MAX`: `i <= endPage` never fails and `mark_dirty` never returns. |
| `strdup_fail` | violation | `ListedTrackersNamed` | A failed `strdup` puts a tracker with a NULL name on the list. The next lookup passes it to `strcmp`. |
| `isopen` | violation | `IsOpenAccurate` | Closing one of two handles clears `isOpen` while the other handle is still open. |
| `stale_tracker` | violation | `TrackersOutliveHandles` | `shutdown` frees trackers that open handles still use. This is a use-after-free. |
| `init_retry` | violation | `InitOkMeansRegistered` | `init` fails at registration, then a retry returns `SQLITE_OK` with nothing registered. |

The six violations are the findings in `PROJECT.json`. Each passing property has a mutant of the code that TLC catches, listed in `PROJECT.json`.

**Fairness:**
- `VfsTracking` assumes none. Every operation there is one synchronous call, and SQLite and the consumer are free never to call again. Deadlock checking stays on and never triggers, because an open/close or a query is always enabled.
- `MarkDirtyLoop` assumes `WF_vars(LoopStep \/ LoopExit)`. The loop runs on the calling thread, and spec section 5 says that thread is single-threaded, synchronous and never suspended. So once inside the loop, the thread keeps taking its steps.
- New calls are not forced. `CallReturns` (`pc = "loop" ~> pc = "idle"`) therefore says exactly that each call terminates.

**The refinement:**
- It is checked under `SessionSpec`, because `shutdown` discards all dirty sets. That is a step the abstract spec does not have, and the `stale_tracker` finding is about it.
- The mapping makes a failed realloc or calloc a stutter. A lost write is therefore allowed by the abstraction and is accounted for by `DirtyCoversWrites` through `dropped`. A spurious page is not allowed.

## Proofs (TLAPS)

`VfsTrackingProofs.tla` proves three theorems for every value of the constants that satisfies the `ASSUME`s:
- `TypeCorrect`: `Spec => []TypeOK`.
- `PageSizePositive`: `Spec => []NoZeroPageSize`.
- `BitmapAlwaysWellFormed`: `Spec => []BitmapWellFormed`.

The `ASSUME`s are:
- the word and page widths are positive;
- `MaxPages + WordBits <= 2^PageWidth`;
- `NULL` is distinct from names, slots and file names (`NullPathAssumption`: a `strdup`'d name is a non-NULL pointer);
- there is at least one name;
- `StrdupMayFail` is Boolean.

**Why the invariants are not proved alone:** none of the three is inductive by itself. `IInv` = `TypeOK /\ PageSizeInv /\ BitmapWellFormed`, where `PageSizeInv` adds the facts below. A tracker created before init gets page size 0, and a slot freed by shutdown can be reused. So positivity on the handles' trackers holds only because of the history these facts record.
- registered ⇒ `realVfs`;
- `realVfs` ⇒ the default page size and every listed tracker's page size are positive;
- any open handle ⇒ the default page size is positive.

**The argument:** TLC checked `IInv` as an invariant of the lifecycle configuration. The proof then shows `Init => IInv` and `IInv /\ [Next]_vars => IInv'`, with one lemma per action. The pass-through actions are stutters. The lemmas it rests on are:
- `PageArith`: with the bound assumed, `% UINT` is the identity, and the word count is the exact ceiling.
- `MarkDirtyOkSlot`: growth keeps a slot's bitmap well formed. The key case raises `totalPages` within the last word without a `realloc`, and is safe because `BitmapWellFormed` held before.
- `CreateTrackerStep`: a reused slot gets the positive default page size.

`SessionProofs.tla` proves `PhantomFree`: `SessionSpec => []NoPhantomDirty`, the soundness of `get_dirty_pages` between init and shutdown. It is the statement of the `tracking` run for every instance. Shutdown is not a step of `SessionSpec`, so no tracker is freed and no heap block is reused within the theorem's scope. After shutdown, a stale handle can write into a reused block that now belongs to another file, and the property fails (the `stale_tracker` finding).
- **Inductive invariant:** `IInv /\ SessionInv`. TLC checked `SessionInv` as an invariant of `SessionSpec`, with and without `strdup` failures. `SessionInv` says:
  - an open handle implies `realVfs`, and under `realVfs` every listed tracker has the default page size;
  - an open handle's tracker is listed under the handle's own file name, or under no name when `strdup` failed;
  - a non-NULL name is listed at most once;
  - a tracker listed under a name has no dirty page outside what was touched for that name.
- **Why it is needed:** `NoPhantomDirty` alone says nothing about the handles. A write through a handle sets bits on its tracker, and only the facts about where that tracker is listed show those bits belong to the handle's file. Likewise, `reset_dirty` clears the touched pages of a name. Uniqueness of the listing shows it also clears every tracker that could report them.
- **Lemmas:** one per action. `SessionTrack` uses `MarkedIsFilePages`: with the tracker's page size equal to the consumer's, the pages `mark_dirty` sets are exactly the pages the write covers. `EmptyBitmapClean` covers the reset that skips a tracker without a bitmap.

`MarkDirtyLoopProofs.tla` proves `LoopNeverOverflows`: `ASSUME NoPageWrap PROVE Spec => []LoopInBounds`, for every page size, word size and width. It is the statement of the `loop` run for every instance. The `page_wrap` run shows the hypothesis cannot be dropped.
- **Inductive invariant:** `LoopInv` says that `totalPages <= bitmapSize * WordBits`, and that `endPage < totalPages` inside the loop. `LoopInBounds` alone is not inductive: it says nothing about where the next iteration writes.
- **The three growth branches:** each keeps the first conjunct. When a realloc happens, lemma `CeilBits` shows `(r + WordBits - 1) \div WordBits` words hold `r` bits. When none happens, the old size already held them. Each branch also sets `endPage < totalPages`.
- **Each iteration:** the loop test gives `i <= endPage < totalPages`, and lemma `WordOfPage` puts word `i \div WordBits` inside the bitmap.
- **Assumption:** the module assumes `UintAssumption` (`2^PageWidth` is a positive natural). The provers cannot expand `^` with a symbolic exponent, and TLC evaluates the assumption on every run.

`MarkDirtyLoopProofs.tla` also proves `CallsMatchBitmap`: `ASSUME NoPageWrap PROVE Spec => []BitmapMatchesCalls`. Between calls, the bitmap holds exactly the pages of the calls that completed.
- **Inductive invariant:** `MatchInv`. It says:
  - `LoopInv` holds, and the words are sets of bit numbers over `WordIndex`;
  - `bitmapSize <= UINT \div WordBits`;
  - inside the loop, `startPage <= i`, `i <= endPage + 1` or `i = startPage`, and `endPage + 1 < UINT`;
  - the set pages are `marked` between calls, and `marked \cup startPage .. i - 1` inside the loop.
- **Why it is needed:** `BitmapMatchesCalls` says nothing inside the loop, where the bitmap is ahead of `marked` by the pages already set. The bound on `endPage` shows that `i++` does not wrap before the loop test fails.
- **Lemmas:**
  - `WordBitUnique`: a page is determined by its word index and its bit index (lines 278-279). So setting one bit adds one page (`SetBitAddsPage`).
  - `GrowKeepsPages`: the words that realloc adds are zeroed (line 265), so growth adds no page.
  - `SizeInWords` and `CeilBits`: the new size fits in `WordIndex` and holds the request.
- TLC checked `MatchInv` as an invariant under `loop.cfg`.

`RefinementProofs.tla` proves `SessionRefinesDirtyPageSet`: `SessionSpec => DirtyPageSetRefined`, where `DirtyPageSetRefined == Abs!Spec`. This is the property of the `refinement` run, for every value of the constants.
- **Inductive invariant:** `RefInv == IInv /\ SessionInv /\ PreInitClean`. `PreInitClean` says that before init the default page size is 0 and every listed tracker is clean. It is needed because trackers created by queries before init must map to the empty abstract set.
- **The argument, step by step:** `RefInit` maps the initial state to `Abs!Init`. `RefStep` maps each step, under `RefInv` and `RefInv'`, to a step of `Abs!Next` or a stutter:
  - `RefTrack`: a completed `mark_dirty` maps to `Abs!Mark(f, o, a)`, through `MarkDirtyAdds` and `MarkedIsFilePages`. A write with no tracker, a failed realloc, or a tracker with a NULL name changes no reported set, so it maps to a stutter.
  - `RefReset`: `reset_dirty` on a found file maps to `Abs!Reset`.
  - `RefConfigure`: the third branch of init maps to `Abs!Configure`.
  - Every other action leaves the reported sets alone (`SlotsUnchanged`, `CreateStutter`). `AbsView` and `AbsExt` rewrite `AbsDirtyPages` as the union of the bitmaps of the trackers found under each name.

`CoverageProofs.tla` proves `WritesCovered`: `ASSUME ~StrdupMayFail PROVE SessionSpec => []DirtyCoversWrites`. Every page written or truncated through a handle of a name since its last reset is reported for that name.
- **Inductive invariant:** `CoverInv`. It says:
  - `ListedTrackersNamed` holds;
  - before init nothing is touched;
  - for each name, the touched pages not lost to a failed realloc (`dropped`) are in the bitmaps of the trackers found under it (`Covered`).
- **Why the hypothesis:** with `strdup` failing, the statement is false. TLC finds a write through a handle whose tracker has a NULL name, which no lookup reaches. The `strdup_fail` run shows the cause: a tracker with a NULL name stays listed, and `ListedTrackersNamed` is violated. Under the hypothesis, `ListedTrackersNamed` is a conjunct of `CoverInv` and so is proved as well.
- **Lemmas:**
  - `CoverMono`: bitmaps only grow between resets, so coverage survives.
  - `CoverTrack`: the write's pages land on the tracker found under its own name.
  - `CoverReset`: a reset empties the touched set together with the bitmap.
- TLC checked `CoverInv` with one name. The run with two names did not finish in the time allowed.

**What is only model-checked:**
- `CallReturns` is a liveness property, and liveness under fairness is out of the prover's reach.
- The violations are found by TLC, including the failure of `DirtyCoversWrites` when `strdup` may fail.

## Not modelled

- The text of file names. Names are model values, and `strcmp`/`strdup` are modelled by what they do to the key, including the NULL result.
- Logging.
- The VFS method-table copying in init. It writes only `trackingVfs` fields that no tracker operation reads.
- The C# consumer, which is not under `src/`.
- The stub library.
- No property is about calls the header forbids, or about behaviour it documents:
  - `vfs_tracking.h:50` requires `vfs_tracking_init` before any other tracking call. The model still lets `get_dirty_pages` and `reset_dirty` run before init, because the code allows it and `PageSizeInv` must account for the trackers they create with page size 0. But the trackers that line 113 drops are not reported as a leak.
  - `reset_dirty` clears every page, including pages written after the caller's last `get_dirty_pages` (`vfs_tracking.h:74-75`: mark all clean). Whether a write can come between the two calls is up to the consumer, so the project checks no property about it.

## Plan for later work

1. An action property for `reset_dirty` (a reset never removes a page from another name), proved from `SessionInv`'s uniqueness of listings.
2. A property for what `trackingDelete` should do to the dirty set, once the spec says it.
