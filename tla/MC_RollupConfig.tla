---------------------------- MODULE MC_RollupConfig ----------------------------
(* An instance of RollupConfig for TLC.                                    *)
EXTENDS RollupConfig

(* Decimal digits, the hex-only digit a, and the non-hex letter x.         *)
MC_Chars == {"0", "1", "9", "a", "x"}
================================================================================
