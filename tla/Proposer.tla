------------------------------ MODULE Proposer ------------------------------
(***************************************************************************)
(* The proof orchestrator of src/proposer/op/proposer/prove.go (spec C4),  *)
(* with the prover gateway (C3) reduced to the outcomes its HTTP calls can *)
(* return, the ledger of module Ledger, and the background goroutines that *)
(* RequestQueuedProofs spawns.                                             *)
(*                                                                         *)
(* The main loop runs ProcessPendingProofs, RequestQueuedProofs and        *)
(* DeriveAggProofs in that order, forever; phase is its program counter.   *)
(* Every ledger call is atomic and may interleave with goroutine steps.    *)
(***************************************************************************)
EXTENDS Ledger, Bags, BagsExt

CONSTANTS
    InitialSpans,          \* the SPAN ranges in the ledger at start, <<s, e>>
    SubmissionInterval,    \* on-chain: nextBlockNumber = latest + interval
    MaxConcurrentProofRequests,
    UintWidth,             \* bit width of block arithmetic (uint64 in Go)
    MaxRecords,            \* bound: ledger size explored
    MaxTasks,              \* bound: goroutines alive at once
    AnswerIds,             \* prover ids a request reply may carry
    Faults                 \* TRUE: ledger calls may fail, the proposer may restart

ASSUME SubmissionInterval \in Nat \ {0}
ASSUME MaxConcurrentProofRequests \in Nat \ {0}
ASSUME AnswerIds \subseteq ProverIds /\ Faults \in BOOLEAN

VARIABLES
    reqs,      \* the ledger: sequence of ProofRequest records, index = id
    tasks,     \* bag of in-flight goroutines [rid |-> id, pc |-> step]
    phase,     \* where the main loop is
    pending,   \* ids of the GetAllPendingProofs snapshot still to poll
    latest,    \* the output oracle's latestBlockNumber
    jobs       \* the prover's side: for each record, the range <<after, last>>
               \* of the request whose id it carries (blocks after+1..last)

vars == <<reqs, tasks, phase, pending, latest, jobs>>

Uint == 2 ^ UintWidth

(* The L2 blocks the initial spans cover; MaxBlock is the last of them.    *)
MaxBlock == Max({InitialSpans[k][2] : k \in DOMAIN InitialSpans})

NextBlockNumber == latest + SubmissionInterval

Phases == {"retryFailed", "getPending", "poll", "requestQueued", "deriveAgg"}
TaskSteps == {"updateREQ", "request", "revert", "retry"}

Records == [type : ProofTypes, start : 0..(Uint - 1), end : 0..(Uint - 1),
            status : Statuses, proverRequestID : ProverIds,
            l1BlockHash : BOOLEAN, proof : BOOLEAN]

(* A request body is the range <<after, last>> it asks the prover to prove *)
(* (blocks after+1..last); NoJob: no request has been accepted.            *)
NoJob == <<>>

TypeOK ==
    /\ reqs \in [1..Len(reqs) -> Records]
    /\ IsABag(tasks)
    /\ BagToSet(tasks) \subseteq [rid : DOMAIN reqs, pc : TaskSteps]
    /\ phase \in Phases
    /\ pending \subseteq DOMAIN reqs
    /\ latest \in 0..MaxBlock
    /\ jobs \in [1..MaxRecords -> {NoJob} \cup (0..(Uint - 1)) \X (0..(Uint - 1))]

(***************************************************************************)
(* RetryRequest (prove.go 78-107): an AGG is re-inserted unchanged; a SPAN *)
(* is split at start + (end - start) / 2 in uint64 arithmetic.             *)
(***************************************************************************)
(* Mutant: the second half starts one block late.                        *)
RetryRequestSkipsBlock(L, r) ==
    IF r.type = "AGG"
    THEN Append(L, NewEntry("AGG", r.start, r.end))
    ELSE LET tmpEnd == (r.start + ((r.end - r.start) % Uint) \div 2) % Uint
         IN  L \o << NewEntry("SPAN", r.start, tmpEnd),
                     NewEntry("SPAN", (tmpEnd + 2) % Uint, r.end) >>

(* The records RetryRequest inserts, in the order it inserts them.         *)
RetryEntries(r) ==
    IF r.type = "AGG"
    THEN << NewEntry("AGG", r.start, r.end) >>
    ELSE LET tmpEnd == (r.start + ((r.end - r.start) % Uint) \div 2) % Uint
         IN  << NewEntry("SPAN", r.start, tmpEnd),
                NewEntry("SPAN", (tmpEnd + 1) % Uint, r.end) >>

RetryRequest(L, r) == L \o RetryEntries(r)

(* RetryRequest returning after k inserts, the next one having failed     *)
(* (lines 84-86, 96-98): only the first k records are in the ledger.       *)
PartialRetry(L, r, k) == L \o SubSeq(RetryEntries(r), 1, k)

(* Room in the ledger for what one retry inserts (the model's bound).      *)
RetrySize(r) == IF r.type = "AGG" THEN 1 ELSE 2

Init ==
    /\ reqs = [k \in DOMAIN InitialSpans |->
                 NewEntry("SPAN", InitialSpans[k][1], InitialSpans[k][2])]
    /\ tasks = EmptyBag
    /\ phase = "retryFailed"
    /\ pending = {}
    /\ latest = 0
    /\ jobs = [i \in 1..MaxRecords |-> NoJob]

(***************************************************************************)
(* The prover gateway (prove.go 201-359): each call is the set of replies  *)
(* it can return, an error or Ok(value).                                   *)
(***************************************************************************)
Ok(v) == [ok |-> TRUE, val |-> v]
Err == [ok |-> FALSE, val |-> NoId]

(* RequestProofFromServer (281-317): building, sending (3 min timeout),    *)
(* reading or decoding may fail; otherwise the proof_id of the body, whose *)
(* HTTP status is never looked at, so an error body yields an empty id.    *)
(* An accepted reply names the job the prover now works on.                *)
Answer(id, body) == [ok |-> TRUE, val |-> id, job |-> body]
Failure == [ok |-> FALSE, val |-> NoId, job |-> NoJob]
RequestProofFromServer(body) == {Failure} \cup {Answer(id, body) : id \in AnswerIds}

(* RequestSpanProof(l2Start, l2End) (241-254): SpanProofRequest carries    *)
(* the two numbers as they are.                                            *)
RequestSpanProof(l2Start, l2End) == RequestProofFromServer(<<l2Start, l2End>>)

(* RequestAggProof(start, end) (256-277): the subproofs are the COMPLETE   *)
(* spans tiling [start + 1, end], read when the goroutine runs; without    *)
(* them the request fails before reaching the server.                      *)
RequestAggProof(L, start, end) ==
    IF SpanTiling(L, (start + 1) % Uint, end)
    THEN RequestProofFromServer(<<start, end>>) ELSE {Failure}

(* Mutant: a SPAN is requested from its own start block, as if the server *)
(* took an inclusive start.                                                *)
RequestOPSuccinctProofFromStart(L, p) ==
    LET prevConfirmedBlock == (p.start - 1) % Uint
    IN  IF p.type = "AGG" THEN RequestAggProof(L, prevConfirmedBlock, p.end)
        ELSE RequestSpanProof(p.start, p.end)

(* RequestOPSuccinctProof (201-218): both kinds of request cover the       *)
(* blocks after prevConfirmedBlock = start - 1, in uint64.                 *)
RequestOPSuccinctProof(L, p) ==
    LET prevConfirmedBlock == (p.start - 1) % Uint
    IN  IF p.type = "AGG" THEN RequestAggProof(L, prevConfirmedBlock, p.end)
        ELSE RequestSpanProof(prevConfirmedBlock, p.end)

(* GetProofStatus (325-359): building, sending (30 s timeout), reading or  *)
(* decoding may fail; otherwise the status string the server reports.      *)
ProverStatuses == {"PROOF_FULFILLED", "PROOF_UNCLAIMED", "PROOF_REQUESTED"}
GetProofStatus(id) == {Err} \cup {Ok(st) : st \in ProverStatuses}

(***************************************************************************)
(* ProcessPendingProofs (prove.go 20-76).                                  *)
(***************************************************************************)

(* Lines 22-31: every FAILED record without a prover id is retried, in id  *)
(* order.  The failed record itself is left as it is.                      *)
RetriedFailed ==
    FoldLeft(LAMBDA L, i : RetryRequest(L, reqs[i]), reqs,
             SetToSortSeq(FailedOnServer(reqs), <))

RetryFailedOnServer ==
    /\ phase = "retryFailed"
    /\ Len(RetriedFailed) <= MaxRecords
    /\ reqs' = RetriedFailed
    /\ phase' = "getPending"
    /\ UNCHANGED <<tasks, pending, latest, jobs>>

(* Lines 27-30: an insert fails after n records went in; the pass returns *)
(* its error and the main loop goes on to RequestQueuedProofs.  The        *)
(* records retried so far stay FAILED and are retried again next tick.     *)
RetryFailedOnServerFails ==
    /\ Faults /\ phase = "retryFailed"
    /\ \E n \in 0..(Len(RetriedFailed) - Len(reqs) - 1) :
          /\ Len(reqs) + n <= MaxRecords
          /\ reqs' = SubSeq(RetriedFailed, 1, Len(reqs) + n)
    /\ phase' = "requestQueued"
    /\ UNCHANGED <<tasks, pending, latest, jobs>>

(* Line 36: snapshot of the pending proofs the loop below walks.           *)
GetAllPendingProofs ==
    /\ phase = "getPending"
    /\ pending' = AllPending(reqs)
    /\ phase' = "poll"
    /\ UNCHANGED <<reqs, tasks, latest, jobs>>

(* Lines 42-46: the status poll fails; the pass returns the error.  A      *)
(* failing AddProof (50-53) or UpdateProofStatus(FAILED) (62-66) leaves    *)
(* the ledger as it was and ends the pass the same way.                    *)
PollError(i) ==
    /\ phase = "poll" /\ i \in pending
    /\ Err \in GetProofStatus(reqs[i].proverRequestID)
    /\ pending' = {}
    /\ phase' = "requestQueued"
    /\ UNCHANGED <<reqs, tasks, latest, jobs>>

(* Lines 47-56: PROOF_FULFILLED; AddProof refuses a record no longer REQ,  *)
(* and that error ends the pass.                                           *)
PollFulfilled(i) ==
    /\ phase = "poll" /\ i \in pending
    /\ Ok("PROOF_FULFILLED") \in GetProofStatus(reqs[i].proverRequestID)
    /\ IF CanAddProof(reqs, i)
       THEN /\ reqs' = AddProof(reqs, i)
            /\ pending' = pending \ {i}
            /\ UNCHANGED phase
       ELSE /\ pending' = {}
            /\ phase' = "requestQueued"
            /\ UNCHANGED reqs
    /\ UNCHANGED <<tasks, latest, jobs>>

(* Lines 58-72: timed out or PROOF_UNCLAIMED: FAILED, then RetryRequest of *)
(* the record as read in the snapshot.                                     *)
PollTimedOut(i) ==
    /\ phase = "poll" /\ i \in pending
    /\ \E r \in GetProofStatus(reqs[i].proverRequestID) : r.ok /\ r.val # "PROOF_FULFILLED"
    /\ Len(reqs) + RetrySize(reqs[i]) <= MaxRecords
    /\ reqs' = RetryRequest(UpdateProofStatus(reqs, i, "FAILED"), reqs[i])
    /\ pending' = pending \ {i}
    /\ UNCHANGED <<tasks, phase, latest, jobs>>

(* Lines 68-71: FAILED is written, then an insert of RetryRequest fails   *)
(* after k records; the pass returns.  The record now carries a prover id, *)
(* so neither GetProofsFailedOnServer nor GetAllPendingProofs returns it.  *)
PollTimedOutRetryFails(i) ==
    /\ Faults /\ phase = "poll" /\ i \in pending
    /\ \E r \in GetProofStatus(reqs[i].proverRequestID) : r.ok /\ r.val # "PROOF_FULFILLED"
    /\ \E k \in 0..(RetrySize(reqs[i]) - 1) :
          /\ Len(reqs) + k <= MaxRecords
          /\ reqs' = PartialRetry(UpdateProofStatus(reqs, i, "FAILED"), reqs[i], k)
    /\ pending' = {}
    /\ phase' = "requestQueued"
    /\ UNCHANGED <<tasks, latest, jobs>>

(* Any other status before the timeout: nothing to do for this record.     *)
PollStillProving(i) ==
    /\ phase = "poll" /\ i \in pending
    /\ Ok("PROOF_REQUESTED") \in GetProofStatus(reqs[i].proverRequestID)
    /\ pending' = pending \ {i}
    /\ UNCHANGED <<reqs, tasks, phase, latest, jobs>>

PendingDone ==
    /\ phase = "poll" /\ pending = {}
    /\ phase' = "requestQueued"
    /\ UNCHANGED <<reqs, tasks, pending, latest, jobs>>

(***************************************************************************)
(* RequestQueuedProofs (prove.go 109-172).                                 *)
(***************************************************************************)

NothingQueued ==
    /\ phase = "requestQueued"
    /\ WithStatus(reqs, "UNREQ") = {}
    /\ phase' = "deriveAgg"
    /\ UNCHANGED <<reqs, tasks, pending, latest, jobs>>

(* Lines 118-131: an AGG without L1 block info is checkpointed and the     *)
(* pass returns; the next loop requests it.                                *)
CheckpointAgg ==
    /\ phase = "requestQueued"
    /\ WithStatus(reqs, "UNREQ") # {}
    /\ LET p == reqs[NextUnrequested(reqs)]
       IN  /\ p.type = "AGG" /\ ~p.l1BlockHash
           /\ reqs' = AddL1BlockInfoToAggRequest(reqs, p.start, p.end)
    /\ phase' = "deriveAgg"
    /\ UNCHANGED <<tasks, pending, latest, jobs>>

(* Mutant: the cap is taken as reached one request early.                  *)
AtConcurrencyLimitOffByOne ==
    /\ phase = "requestQueued"
    /\ WithStatus(reqs, "UNREQ") # {}
    /\ reqs[NextUnrequested(reqs)].type = "SPAN"
    /\ CountWithStatus(reqs, "REQ") >= MaxConcurrentProofRequests - 1
    /\ phase' = "deriveAgg"
    /\ UNCHANGED <<reqs, tasks, pending, latest, jobs>>

(* Lines 136-143: a SPAN waits while the count of REQ records (of any      *)
(* type) is at the limit.                                                  *)
AtConcurrencyLimit ==
    /\ phase = "requestQueued"
    /\ WithStatus(reqs, "UNREQ") # {}
    /\ reqs[NextUnrequested(reqs)].type = "SPAN"
    /\ CountWithStatus(reqs, "REQ") >= MaxConcurrentProofRequests
    /\ phase' = "deriveAgg"
    /\ UNCHANGED <<reqs, tasks, pending, latest, jobs>>

(* Lines 145-171: the request runs in a goroutine; the pass returns at     *)
(* once, before the goroutine has marked the record REQ.                   *)
DispatchRequest ==
    /\ phase = "requestQueued"
    /\ WithStatus(reqs, "UNREQ") # {}
    /\ LET i == NextUnrequested(reqs)
           p == reqs[i]
       IN  /\ \/ p.type = "AGG" /\ p.l1BlockHash
              \/ p.type = "SPAN"
                 /\ CountWithStatus(reqs, "REQ") < MaxConcurrentProofRequests
           /\ BagCardinality(tasks) < MaxTasks
           /\ tasks' = BagAdd(tasks, [rid |-> i, pc |-> "updateREQ"])
    /\ phase' = "deriveAgg"
    /\ UNCHANGED <<reqs, pending, latest, jobs>>

(***************************************************************************)
(* DeriveAggProofs (prove.go 177-198) over the output oracle's latest and  *)
(* next block numbers.                                                     *)
(***************************************************************************)
DeriveAggProofs ==
    /\ phase = "deriveAgg"
    /\ IF CanCreateAgg(reqs, latest + 1, NextBlockNumber)
       THEN /\ Len(reqs) < MaxRecords
            /\ reqs' = TryCreateAggProofFromSpanProofs(reqs, latest + 1)
       ELSE UNCHANGED reqs
    /\ phase' = "retryFailed"
    /\ UNCHANGED <<tasks, pending, latest, jobs>>

(***************************************************************************)
(* The goroutine of RequestQueuedProofs, one action per ledger call.       *)
(***************************************************************************)
Step(t, pc) == BagAdd(BagRemove(tasks, t), [t EXCEPT !.pc = pc])

(* Mutant: the goroutine writes a status string the schema does not know. *)
TaskUpdateREQMisspelt(t) ==
    /\ t.pc = "updateREQ"
    /\ reqs' = UpdateProofStatus(reqs, t.rid, "REQUESTED")
    /\ tasks' = Step(t, "request")
    /\ UNCHANGED <<phase, pending, latest, jobs>>

(* Line 147: UpdateProofStatus(id, "REQ").                                 *)
TaskUpdateREQ(t) ==
    /\ t.pc = "updateREQ"
    /\ reqs' = UpdateProofStatus(reqs, t.rid, "REQ")
    /\ tasks' = Step(t, "request")
    /\ UNCHANGED <<phase, pending, latest, jobs>>

(* Lines 148-151: UpdateProofStatus(REQ) fails; the goroutine returns and *)
(* the record stays UNREQ for a later tick.                                *)
TaskUpdateREQFails(t) ==
    /\ Faults /\ t.pc = "updateREQ"
    /\ tasks' = BagRemove(tasks, t)
    /\ UNCHANGED <<reqs, phase, pending, latest, jobs>>

(* Mutant: the proof id the server answered with is not stored (220).     *)
TaskRequestAnsweredNoId(t) ==
    /\ t.pc = "request"
    /\ \E r \in RequestOPSuccinctProof(reqs, reqs[t.rid]) :
          r.ok /\ jobs' = [jobs EXCEPT ![t.rid] = r.job] /\ UNCHANGED reqs
    /\ tasks' = BagRemove(tasks, t)
    /\ UNCHANGED <<phase, pending, latest>>

(* Lines 220-225: the server accepted the request and answered with a     *)
(* proof id, which is stored; the prover's job is the request's body.      *)
TaskRequestAnswered(t) ==
    /\ t.pc = "request"
    /\ \E r \in RequestOPSuccinctProof(reqs, reqs[t.rid]) :
          /\ r.ok
          /\ reqs' = SetProverRequestID(reqs, t.rid, r.val)
          /\ jobs' = [jobs EXCEPT ![t.rid] = r.job]
    /\ tasks' = BagRemove(tasks, t)
    /\ UNCHANGED <<phase, pending, latest>>

(* Lines 154-156: the request failed (network error, timeout, bad JSON,    *)
(* no tiling for an AGG, or a failing SetProverRequestID at 220-223 after  *)
(* the prover accepted the request).                                       *)
TaskRequestFailed(t) ==
    /\ t.pc = "request"
    /\ Failure \in RequestOPSuccinctProof(reqs, reqs[t.rid])
    /\ tasks' = Step(t, "revert")
    /\ UNCHANGED <<reqs, phase, pending, latest, jobs>>

(* Line 157: UpdateProofStatus(id, "FAILED").                              *)
TaskRevert(t) ==
    /\ t.pc = "revert"
    /\ reqs' = UpdateProofStatus(reqs, t.rid, "FAILED")
    /\ tasks' = Step(t, "retry")
    /\ UNCHANGED <<phase, pending, latest, jobs>>

(* Lines 158-160: the revert fails; the error is only logged and the      *)
(* goroutine goes on to RetryRequest with the record still REQ.            *)
TaskRevertFails(t) ==
    /\ Faults /\ t.pc = "revert"
    /\ tasks' = Step(t, "retry")
    /\ UNCHANGED <<reqs, phase, pending, latest, jobs>>

(* Line 163: RetryRequest of the record read before the goroutine started. *)
TaskRetry(t) ==
    /\ t.pc = "retry"
    /\ Len(reqs) + RetrySize(reqs[t.rid]) <= MaxRecords
    /\ reqs' = RetryRequest(reqs, reqs[t.rid])
    /\ tasks' = BagRemove(tasks, t)
    /\ UNCHANGED <<phase, pending, latest, jobs>>

(* Lines 164-166: an insert of the retry fails after k records; logged.    *)
TaskRetryFails(t) ==
    /\ Faults /\ t.pc = "retry"
    /\ \E k \in 0..(RetrySize(reqs[t.rid]) - 1) :
          /\ Len(reqs) + k <= MaxRecords
          /\ reqs' = PartialRetry(reqs, reqs[t.rid], k)
    /\ tasks' = BagRemove(tasks, t)
    /\ UNCHANGED <<phase, pending, latest, jobs>>

(* The proposer process stops and starts again: the ledger is durable, the *)
(* goroutines and the pass in progress are gone, and the loop starts over. *)
(* A crash inside a handler leaves the ledger as one of the failing        *)
(* actions above does.                                                     *)
Restart ==
    /\ Faults
    /\ tasks' = EmptyBag
    /\ phase' = "retryFailed"
    /\ pending' = {}
    /\ UNCHANGED <<reqs, latest, jobs>>

(***************************************************************************)
(* Environment: the out-of-scope submitter posts a COMPLETE AGG proof that *)
(* starts right after the oracle's latest output and reaches its next one. *)
(***************************************************************************)
SubmitAggProof ==
    /\ \E i \in DOMAIN reqs :
          /\ reqs[i].type = "AGG" /\ reqs[i].status = "COMPLETE"
          /\ reqs[i].start = latest + 1
          /\ reqs[i].end >= NextBlockNumber
          /\ latest' = reqs[i].end
    /\ UNCHANGED <<reqs, tasks, phase, pending, jobs>>

(* Exploration stops once the ledger bound may block an insert: a retry    *)
(* adds at most two records per failed record.                            *)
LedgerFull == Len(reqs) + 2 * Cardinality(FailedOnServer(reqs)) + 2 > MaxRecords

LedgerBoundReached == LedgerFull /\ UNCHANGED vars

MainLoop ==
    \/ RetryFailedOnServer \/ RetryFailedOnServerFails
    \/ GetAllPendingProofs \/ PendingDone
    \/ \E i \in pending :
          \/ PollError(i) \/ PollFulfilled(i) \/ PollTimedOut(i)
          \/ PollTimedOutRetryFails(i) \/ PollStillProving(i)
    \/ NothingQueued \/ CheckpointAgg \/ AtConcurrencyLimit \/ DispatchRequest
    \/ DeriveAggProofs

Goroutine(t) ==
    \/ TaskUpdateREQ(t) \/ TaskUpdateREQFails(t)
    \/ TaskRequestAnswered(t) \/ TaskRequestFailed(t)
    \/ TaskRevert(t) \/ TaskRevertFails(t)
    \/ TaskRetry(t) \/ TaskRetryFails(t)

Next ==
    \/ MainLoop
    \/ \E t \in BagToSet(tasks) : Goroutine(t)
    \/ Restart
    \/ SubmitAggProof
    \/ LedgerBoundReached

Spec == Init /\ [][Next]_vars

(***************************************************************************)
(* Fairness.  The main loop never blocks (every pass returns, errors       *)
(* included), and the Go scheduler runs every runnable goroutine.  A       *)
(* record that is polled on infinitely many ticks is eventually fulfilled  *)
(* or found timed out: line 58 fails it once ProofTimeout has passed.      *)
(* The submitter is not assumed to make progress.                         *)
(***************************************************************************)
TaskRuns(t) == t \in BagToSet(tasks) /\ Goroutine(t)

PollResolves(i) == PollFulfilled(i) \/ PollTimedOut(i)

Fairness ==
    /\ WF_vars(MainLoop)
    /\ \A i \in 1..MaxRecords, pc \in TaskSteps : WF_vars(TaskRuns([rid |-> i, pc |-> pc]))
    /\ \A i \in 1..MaxRecords : SF_vars(PollResolves(i))

FairSpec == Spec /\ Fairness

-----------------------------------------------------------------------------
(***************************************************************************)
(* Properties.                                                             *)
(***************************************************************************)

(* A block is still being worked on when a live SPAN record covers it, a  *)
(* FAILED one that GetProofsFailedOnServer will hand to RetryRequest does, *)
(* or a goroutine that failed to request a SPAN covering it has yet to     *)
(* retry.                                                                  *)
CoveredBy(b, r) == r.type = "SPAN" /\ r.start <= b /\ b <= r.end
StillWorkedOn(b) ==
    \/ \E i \in DOMAIN reqs :
          reqs[i].status \in {"UNREQ", "REQ", "COMPLETE"} /\ CoveredBy(b, reqs[i])
    \/ \E i \in FailedOnServer(reqs) : CoveredBy(b, reqs[i])
    \/ \E t \in BagToSet(tasks) :
          t.pc \in {"revert", "retry"} /\ CoveredBy(b, reqs[t.rid])

(* No lost work: whatever fails, times out or is unclaimed, RetryRequest   *)
(* (prove.go 78-107) leaves every L2 block above the oracle's latest       *)
(* output covered by a SPAN record that is not FAILED, or by a retry that  *)
(* a goroutine is about to make.                                           *)
NoLostWork == \A b \in (latest + 1)..MaxBlock : StillWorkedOn(b)

(* Two well-formed ranges share a block.                                   *)
Overlap(r1, r2) ==
    /\ r1.start <= r2.end /\ r2.start <= r1.end
    /\ r1.start <= r1.end /\ r2.start <= r2.end

(* Spec 3, ledger invariant 1 (and 8.1): no two SPAN records in REQ or     *)
(* COMPLETE cover a common block.  At stake: a goroutine dispatched by     *)
(* RequestQueuedProofs (prove.go 145-169) for a record it has not yet      *)
(* marked REQ, the same record dispatched again on the next loop, and the  *)
(* retries of RetryRequest and of GetProofsFailedOnServer.                 *)
SpanNoOverlap ==
    \A i, j \in DOMAIN reqs :
        /\ i # j
        /\ reqs[i].type = "SPAN" /\ reqs[j].type = "SPAN"
        /\ reqs[i].status \in {"REQ", "COMPLETE"}
        /\ reqs[j].status \in {"REQ", "COMPLETE"}
        => ~Overlap(reqs[i], reqs[j])

(* Spec 3 (start_block <= end_block) and 4.4: a single-block SPAN must not *)
(* be split into an empty range.  At stake: the split of RetryRequest,     *)
(* prove.go 92-103.                                                        *)
RangesWellFormed == \A i \in DOMAIN reqs : reqs[i].start <= reqs[i].end

(* Spec 3 (lifecycle) and 4.4: the work of a FAILED record is inherited by *)
(* one set of successors, so no L2 block is covered by two SPAN records    *)
(* that are not FAILED.  At stake: a record that failed before reaching    *)
(* the prover keeps its empty prover id, so GetProofsFailedOnServer hands  *)
(* it to RetryRequest on every pass (prove.go 22-31), after the goroutine  *)
(* already retried it (prove.go 157-163).                                  *)
NoDuplicateWork ==
    \A i, j \in DOMAIN reqs :
        /\ i # j
        /\ reqs[i].status # "FAILED" /\ reqs[j].status # "FAILED"
        => ~(\E b \in 0..MaxBlock : CoveredBy(b, reqs[i]) /\ CoveredBy(b, reqs[j]))


(* Spec 4.4, pass B: the UNREQ records are requested lowest id first, so   *)
(* each is eventually requested, unless exploration stopped at the ledger  *)
(* bound.  At stake: the concurrency cap of prove.go 136-143, which counts *)
(* every REQ record, and double dispatches that leave a record REQ.        *)
UnrequestedEventuallyRequested ==
    \A i \in 1..MaxRecords :
        (i \in DOMAIN reqs /\ reqs[i].status = "UNREQ")
            ~> ((i \in DOMAIN reqs /\ reqs[i].status # "UNREQ") \/ LedgerFull)

(* Spec 5 (ordering guarantees): count_by_status(REQ) may exceed the      *)
(* concurrency cap while two background requests race the UNREQ -> REQ    *)
(* step, but the cap holds again eventually.  At stake: the count taken at *)
(* prove.go 136-140 before the goroutines it launched mark REQ (147), and  *)
(* whether every REQ record is later polled out of REQ (36-72).            *)
CapEventuallyRestored ==
    CountWithStatus(reqs, "REQ") > MaxConcurrentProofRequests
        ~> (CountWithStatus(reqs, "REQ") <= MaxConcurrentProofRequests \/ LedgerFull)

(* Spec 4.4, pass A: a REQ record is eventually fulfilled or failed by the *)
(* timeout.  At stake: a record REQ with an empty prover id (a reply whose *)
(* body has no proof_id, prove.go 310-316 and 220) is skipped by           *)
(* GetAllPendingProofs and never looked at again.                          *)
ReqEventuallyResolved ==
    \A i \in 1..MaxRecords :
        (i \in DOMAIN reqs /\ reqs[i].status = "REQ")
            ~> ((i \in DOMAIN reqs /\ reqs[i].status # "REQ") \/ LedgerFull)


(***************************************************************************)
(* Refinement.  A block is proven once a SPAN record holding a proof       *)
(* carries the id of a prover job that covers the block: the prover proves *)
(* what it was asked, whatever range the ledger record says.  The proof    *)
(* bytes are never removed, whatever happens to the record's status.       *)
(***************************************************************************)
JobCovers(j, b) == j # NoJob /\ j[1] < b /\ b <= j[2]

ProvenBlocks ==
    {b \in 1..MaxBlock : \E i \in DOMAIN reqs :
        reqs[i].type = "SPAN" /\ reqs[i].proof /\ JobCovers(jobs[i], b)}

Abstract == INSTANCE ProofProgress WITH
    LastBlock <- MaxBlock, proven <- ProvenBlocks, latest <- latest

(* The proposer implements ProofProgress: the oracle's output moves only   *)
(* over blocks that span proofs really cover, and no proven block becomes  *)
(* unproven.  The planner tiles [from, end] with the ledger's ranges of    *)
(* COMPLETE spans (spec 4.5), so at stake is whether the range each SPAN   *)
(* request sends the prover (prevConfirmedBlock = start - 1, prove.go 202  *)
(* and 212, with RequestSpanProof 241-254) is the record's range, through  *)
(* double dispatches, late answers, failed writes and restarts.            *)
ImplementsProofProgress == Abstract!Spec

=============================================================================
