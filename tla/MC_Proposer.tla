----------------------------- MODULE MC_Proposer -----------------------------
(* Instances of Proposer for TLC.                                          *)
EXTENDS Proposer

(* Two spans of two blocks each: both can be split, and a split child is a *)
(* single block.                                                           *)
MC_InitialSpans == << <<1, 2>>, <<3, 4>> >>

(* One span, for the runs that check liveness or faults.                   *)
MC_OneSpan == << <<1, 2>> >>

(* A reply may carry an id, or the empty id of an error body.              *)
MC_AnyAnswer == ProverIds

(* The prover server only ever answers with an id.                        *)
MC_IdAnswer == ProverIds \ {NoId}
=============================================================================
