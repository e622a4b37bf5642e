----------------------- MODULE MC_SpanBatchDerivation -----------------------
(* Two channels; L2 blocks 10..13 requested; 2-second L2 blocks from       *)
(* genesis 0, so timestamps 18 and 24 are blocks 9 and 12; spans of 1 or 3 *)
(* blocks lie outside, straddle or sit inside the requested range.         *)
EXTENDS SpanBatchDerivation

MC_Channels == {"c1", "c2"}
=============================================================================
