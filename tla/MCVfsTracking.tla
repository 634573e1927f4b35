---------------------------- MODULE MCVfsTracking ----------------------------
(* Small instances of VfsTracking for TLC.  Page size 1 (from init) or 2  *)
(* (the default), two-bit words and offsets up to 3 give trackers of up   *)
(* to 5 pages in 3 words: enough for growth inside a word, growth by a    *)
(* new word, and writes that span two pages.                              *)
EXTENDS VfsTracking, TLC

MCInitPageSizes == {0, 1}
MCDefaultPageSize == 2
MCWordBits == 2
MCPageWidth == 4
MCMaxOffset == 3

(* The lifecycle run, over init, shutdown and stale handles, stops at    *)
(* offset 2: page 3 still needs a second word, so realloc growth occurs. *)
MCLifecycleMaxOffset == 2
MCMaxAmount == 2

(* The state without the ghost variables and initRc, which no guard reads: *)
(* a view for runs whose properties do not mention them.                  *)
MCCodeView == <<realVfs, registered, defaultPageSize, trackerVars, hOpen, hTracker>>

(* The state without initRc, for the runs about the ghost variables.     *)
MCTrackingView == <<realVfs, registered, defaultPageSize, trackerVars, handleVars,
                    touched, dropped>>

(* Handles and heap slots are interchangeable identities.                 *)
MCSymmetry == Permutations(Handles) \cup Permutations(Slots)
=============================================================================
