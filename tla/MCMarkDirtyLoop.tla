--------------------------- MODULE MCMarkDirtyLoop --------------------------
(***************************************************************************)
(* Constants for TLC.  uint32_t is scaled to 3 bits (8 pages) and a word   *)
(* to 2 bits, so 4 words cover every page number.  MCSafeOffsets keep      *)
(* endPage + 32 below 2^32 (the range VfsTracking assumes); MCWideOffsets  *)
(* reach the top page numbers and wrap past them.                          *)
(***************************************************************************)
EXTENDS MarkDirtyLoop

MCPageSize == 1
MCWordBits == 2
MCPageWidth == 3
MCSafeOffsets == 0 .. 4
MCWideOffsets == 0 .. 9
MCAmounts == 1 .. 2
=============================================================================
