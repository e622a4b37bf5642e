------------------------------- MODULE Ledger -------------------------------
(***************************************************************************)
(* The proof-request ledger (spec section 4.1, C1) and the aggregation     *)
(* planner (spec section 4.5, C5).  The database code is not part of the   *)
(* analysed sources, so every operator here is written from the spec.      *)
(*                                                                         *)
(* The ledger is a sequence of ProofRequest records: the index of a record *)
(* is its id, so ids are assigned at insert and increase monotonically.    *)
(* Each operator is one atomic ledger operation over a ledger value L.     *)
(***************************************************************************)
EXTENDS Naturals, Sequences, SequencesExt

ProofTypes == {"SPAN", "AGG"}
Statuses   == {"UNREQ", "REQ", "COMPLETE", "FAILED"}

(* prover_request_id: empty until the prover answers; "id" stands for any  *)
(* non-empty identifier the prover hands out.                              *)
NoId == ""
ProverIds == {NoId, "id"}

(* insert(type, start, end, request_added_time): a fresh UNREQ record with *)
(* no prover id, no L1 checkpoint and no proof.                            *)
NewEntry(type, start, end) ==
    [type |-> type, start |-> start, end |-> end, status |-> "UNREQ",
     proverRequestID |-> NoId, l1BlockHash |-> FALSE, proof |-> FALSE]

WithStatus(L, s) == {i \in DOMAIN L : L[i].status = s}

(* next_unrequested(): the UNREQ record with the lowest id, if any.        *)
NextUnrequested(L) == Min(WithStatus(L, "UNREQ"))

(* count_by_status(status)                                                 *)
CountWithStatus(L, s) == Cardinality(WithStatus(L, s))

(* get_failed_on_server(): FAILED records that never got a prover id.      *)
FailedOnServer(L) == {i \in WithStatus(L, "FAILED") : L[i].proverRequestID = NoId}

(* get_all_pending(): REQ records that carry a prover id.                  *)
AllPending(L) == {i \in WithStatus(L, "REQ") : L[i].proverRequestID # NoId}

(* update_status(id, new_status): unconditional.                           *)
UpdateProofStatus(L, i, s) == [L EXCEPT ![i].status = s]

(* set_prover_request_id(id, s)                                            *)
SetProverRequestID(L, i, id) == [L EXCEPT ![i].proverRequestID = id]

(* add_proof(id, bytes): only from REQ; sets the proof and COMPLETE.       *)
CanAddProof(L, i) == L[i].status = "REQ"
AddProof(L, i) == [L EXCEPT ![i].status = "COMPLETE", ![i].proof = TRUE]

(* attach_l1_checkpoint(start, end, ...): the AGG records of that range.   *)
AddL1BlockInfoToAggRequest(L, start, end) ==
    [i \in DOMAIN L |->
        IF L[i].type = "AGG" /\ L[i].start = start /\ L[i].end = end
        THEN [L[i] EXCEPT !.l1BlockHash = TRUE]
        ELSE L[i]]

IsCompleteSpan(r) == r.type = "SPAN" /\ r.status = "COMPLETE"

(* get_consecutive_span_proofs(start, end) succeeds iff COMPLETE SPAN      *)
(* records tile [start, end] with no gap and no overlap.                   *)
RECURSIVE SpanTiling(_, _, _)
SpanTiling(L, from, to) ==
    \/ from = to + 1
    \/ \E i \in DOMAIN L :
          /\ IsCompleteSpan(L[i])
          /\ L[i].start = from
          /\ from <= L[i].end /\ L[i].end <= to
          /\ SpanTiling(L, L[i].end + 1, to)

(* try_create_agg_from_spans(from, min_to), spec 4.5: the COMPLETE SPAN    *)
(* records starting at or after from, ordered by start_block (ties in id   *)
(* order), walked while each starts right after the previous one ends.     *)
AggCandidates(L, from) ==
    SetToSortSeq({i \in DOMAIN L : IsCompleteSpan(L[i]) /\ L[i].start >= from},
                 LAMBDA a, b : L[a].start < L[b].start
                               \/ (L[a].start = L[b].start /\ a < b))

AggRunEnd(L, from) ==
    LET s   == AggCandidates(L, from)
        run == {k \in 1..Len(s) :
                  \A j \in 1..(k - 1) : L[s[j + 1]].start = L[s[j]].end + 1}
    IN  L[s[Max(run)]].end

CanCreateAgg(L, from, minTo) ==
    LET s == AggCandidates(L, from)
    IN  /\ s # <<>>
        /\ L[s[1]].start = from
        /\ AggRunEnd(L, from) >= minTo

TryCreateAggProofFromSpanProofs(L, from) ==
    Append(L, NewEntry("AGG", from, AggRunEnd(L, from)))

=============================================================================
