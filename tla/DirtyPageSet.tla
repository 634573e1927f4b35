---------------------------- MODULE DirtyPageSet ----------------------------
(***************************************************************************)
(* What the dirty-page tracker promises its sync consumer, with no         *)
(* trackers, bitmaps, words or heap: for each logical file, the set of     *)
(* pages written or truncated since its last reset (spec 1, 4.1, 4.2).     *)
(* The page size is fixed once, when tracking is configured, and the       *)
(* configuration starts every file clean.  A write adds the pages its byte *)
(* range covers; a reset empties the file's set; nothing else changes it.  *)
(* A write whose tracking is lost (no tracker, failed allocation) is a     *)
(* stuttering step: the promise is best-effort completeness, but exact     *)
(* soundness.                                                              *)
(***************************************************************************)
EXTENDS Naturals

CONSTANTS
    Names,      \* logical files
    PageSizes,  \* the page sizes tracking may be configured with
    Offsets,    \* byte offsets of writes and truncations
    Amounts     \* byte counts of writes

VARIABLES
    pageSize,   \* 0 until tracking is configured
    dirtyPages  \* dirtyPages[n]: the pages of file n to transfer at the next sync

vars == <<pageSize, dirtyPages>>

(* The pages the bytes [o, o + a) lie on.                                  *)
PageRange(o, a) == (o \div pageSize) .. ((o + a - 1) \div pageSize)

Init ==
    /\ pageSize = 0
    /\ dirtyPages = [n \in Names |-> {}]

(* Tracking is configured once, with every file clean.                     *)
Configure(ps) ==
    /\ pageSize = 0
    /\ pageSize' = ps
    /\ dirtyPages' = [n \in Names |-> {}]

(* A write or truncation of file n covering bytes [o, o + a).              *)
Mark(n, o, a) ==
    /\ pageSize > 0
    /\ dirtyPages' = [dirtyPages EXCEPT ![n] = @ \cup PageRange(o, a)]
    /\ UNCHANGED pageSize

(* The consumer resets file n after a sync.                                *)
Reset(n) ==
    /\ dirtyPages' = [dirtyPages EXCEPT ![n] = {}]
    /\ UNCHANGED pageSize

Next ==
    \/ \E ps \in PageSizes : Configure(ps)
    \/ \E n \in Names, o \in Offsets, a \in Amounts : Mark(n, o, a)
    \/ \E n \in Names : Reset(n)

Spec == Init /\ [][Next]_vars
=============================================================================
