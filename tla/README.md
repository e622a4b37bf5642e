# TLA+ models of the sp-stack proposer

This directory holds TLA+ models of the two Go sources of this repository,
the TLC configurations that check them, and `PROJECT.json`, which maps every
modelled definition to its source lines and lists runs, mutants, findings and
hazards.

* `src/proposer/op/proposer/prove.go`: the proof orchestrator. It has three
  passes over a ledger of proof requests, plus the goroutines that request
  proofs from the prover server.
* `src/contracts/test/ZKUpgrader.t.sol`: the Foundry test file. Lines 1-39 are
  Solidity. Lines 40-492 are the Go `utils` package that derives the span-batch
  ranges of an L2 block window from L1 data.

## 1. Inventory

| Part | Source | State | Operations | Status |
|---|---|---|---|---|
| C1 Request ledger | db layer (not in src/) | ProofRequest rows: type, range, status, prover id, L1 checkpoint, proof | insert, next_unrequested, count_by_status, get_failed_on_server, get_all_pending, update_status, set_prover_request_id, add_proof, attach_l1_checkpoint | `Ledger`, from spec 4.1 |
| C5 Aggregation planner | db layer (not in src/) | none (reads C1) | try_create_agg_from_spans, get_consecutive_span_proofs | `Ledger`, from spec 4.5 |
| C4 Proof orchestrator | prove.go 20-198 | the ledger, in-flight goroutines | ProcessPendingProofs (pass A), RetryRequest, RequestQueuedProofs and its goroutine (pass B), DeriveAggProofs (pass C) | `Proposer` |
| C3 Prover gateway | prove.go 201-358 | none | RequestOPSuccinctProof, RequestSpanProof, RequestAggProof, RequestProofFromServer, GetProofStatus | `Proposer`, as the set of replies each call can return |
| C2 Range derivation | ZKUpgrader.t.sol 217-492 | the fetched frames, the result being built | GetAllSpanBatchesInL2BlockRange, GetL1SearchBoundaries, fetchBatchesBetweenL1Blocks, GetSpanBatchRanges, TimestampToBlock, processFrames | `SpanBatchDerivation` |
| Config loading | ZKUpgrader.t.sol 92-198 | none | CustomBytes32.UnmarshalJSON, LoadOPStackRollupConfigFromChainID | `RollupConfig` |
| Beacon setup | ZKUpgrader.t.sol 394-414 | none | SetupBeacon | not modelled (HTTP only) |
| Solidity tests | ZKUpgrader.t.sol 1-39 | none | fork tests | not modelled |
| Output oracle / submitter | outside src/ | latest output block | posts a COMPLETE AGG | environment action in `Proposer` |

### How the parts interact

The proposer's main loop runs passes A, B and C in order on each tick. All of
them read and write the ledger. Pass B starts a goroutine per request. That
goroutine writes the ledger (REQ, then the prover id, or FAILED plus a retry)
concurrently with later ticks. Pass C asks the ledger (C5) whether completed
SPAN records tile the range from the oracle's `latest + 1` to its next block
number. If they do, it inserts an AGG record, which pass B later checkpoints
and requests. C2 is used by the range-splitting side (spec 4.2). Its callers
are not in the sources.

### What makes it hard

* Goroutines outlive the pass that started them. The record they act on is
  marked REQ only inside the goroutine, so later ticks see it as UNREQ.
* Ledger writes are unconditional: `UpdateProofStatus` and
  `SetProverRequestID` overwrite whatever is there.
* Failures are retried from two places: the goroutine itself, and pass A via
  `GetProofsFailedOnServer`. Nothing marks a failed record as already retried.
* uint64 arithmetic in the split (prove.go 93) and in the L1 window
  (ZKUpgrader.t.sol 360).
* Go map iteration order over channels (ZKUpgrader.t.sol 269).

## 2. Modules

### `Ledger` (C1 and C5, modelled from the spec)

The ledger is a sequence of records whose index is the record id. Each ledger
operation is one operator over a ledger value, applied atomically by the
actions that call it. Timestamps are left out: timeouts are a nondeterministic
choice in `Proposer`. Proof bytes and the L1 checkpoint are booleans.
`SpanTiling` (RECURSIVE) decides `get_consecutive_span_proofs`.
`AggCandidates`/`AggRunEnd` walk the completed spans in start order, as spec
4.5 describes.

### `Proposer` (C4 with C3 as outcomes)

Variables:

| Variable | Meaning |
|---|---|
| `reqs` | the ledger |
| `tasks` | a bag of in-flight goroutines, `[rid, pc]` |
| `phase` | the main loop's program counter |
| `pending` | the `GetAllPendingProofs` snapshot still to poll |
| `latest` | the oracle's latest output |
| `jobs` | the prover's side: for each record, the range its accepted request asked for |

Actions and the code they model:

| Action | Code |
|---|---|
| `RetryFailedOnServer` | prove.go 21-31 (folds `RetryRequest` over the failed-on-server records in id order) |
| `GetAllPendingProofs` | 36-40 |
| `PollError`, `PollFulfilled`, `PollTimedOut`, `PollStillProving`, `PendingDone` | the poll loop 41-76, one action per outcome of `GetProofStatus` and the timeout test |
| `NothingQueued`, `CheckpointAgg`, `AtConcurrencyLimit`, `DispatchRequest` | the four exits of `RequestQueuedProofs` 109-172 |
| `DeriveAggProofs` | 177-198 |
| `TaskUpdateREQ`, `TaskRequestAnswered`, `TaskRequestFailed`, `TaskRevert`, `TaskRetry` | one action per ledger call of the goroutine 145-169 |
| `SubmitAggProof` | the environment: the oracle advances `latest` over a COMPLETE AGG |
| `RetryFailedOnServerFails`, `PollTimedOutRetryFails` | the error returns of pass A (27-30, 62-70): an insert fails part way through a retry |
| `TaskUpdateREQFails`, `TaskRevertFails`, `TaskRetryFails` | the goroutine's failing ledger calls (148-151, 158-160, 164-166) |
| `Restart` | a restart of the proposer process: the ledger survives, the goroutines do not (spec 1) |

`RetryRequest` keeps uint64 wrap (`% 2^UintWidth`).
The prover gateway (C3) has no state of its own. Each HTTP call is an
operator giving the set of replies it can return. `GetProofStatus` returns
`Err` or `Ok(status)`. A proof request returns `Failure`, or `Answer(id, body)`
with the id and the range the request body asked for.

* `RequestProofFromServer` (281-317) can fail to build, send, read or decode
  a request. Otherwise it returns the body's `proof_id`, which is empty for
  an error body, because the HTTP status is never checked.
* `RequestSpanProof` (241-254) sends its two numbers as they are.
  `RequestAggProof` (256-277) sends the subproofs of `[start+1, end]`.
  Both call `RequestProofFromServer`.
  `RequestAggProof` fails without reaching the server unless COMPLETE spans
  tile `[start+1, end]` when the goroutine runs.
* `RequestOPSuccinctProof` (201-218) picks one of them by record type.
* `GetProofStatus` (324-359) returns an error or one of the statuses that
  pass A distinguishes.

The goroutine's `TaskRequestAnswered`/`TaskRequestFailed` and the `Poll*`
actions take their outcome from these sets.

The fault actions are enabled only when the constant `Faults` is TRUE. A
failing ledger call fails as a whole. A retry whose insert fails keeps the
records inserted before that insert.

### `ProofProgress` (abstract) and the refinement

`ProofProgress` states what the proposer promises, with the ledger and the
goroutines left out:

* `ProveRange`: a range of L2 blocks becomes proven;
* `PostOutput`: the oracle's `latest` moves forward over blocks that are all
  proven.

`Proposer` maps onto it with:

* `proven <- ProvenBlocks`: the blocks that the prover job of a SPAN record
  holding a proof covers;
* `latest <- latest`.

The variable `jobs` is the prover's side of the system. For each record it
holds the range `<<after, last>>` that the accepted request asked for, and
the prover proves blocks `after+1..last`. `TaskRequestAnswered` sets it from
the request body that `RequestOPSuccinctProof` built:
`prevConfirmedBlock = start - 1` and `end` (lines 202, 212, 241-254). The
job is not taken from the record's range. The planner tiles a range with the
records' inclusive `[start, end]`, while the prover gets an exclusive start.
The refinement is therefore a check that the two agree, end to end, through
double dispatches, late answers, failed writes and restarts.

The property `ImplementsProofProgress == Abstract!Spec` is checked by
`proposer_faults`. An AGG proof does not count as proven blocks. The mutant
that sends a SPAN's own start, as spec 4.3's `request_span_proof(start, end)`
reads, leaves block `start` unproven, and TLC finds the output posted over it.
Sending `start` would still be correct if the server took the start as
inclusive, because the proven range would then be a superset; the code's
names (`prevConfirmedBlock`, and `start+1` in `RequestAggProof`) say the
start is exclusive.

### `RollupConfig` (config loading)

One behaviour loads one raw JSON field into the typed field it is meant for.
A number field goes through `LoadNumber`: lines 138-152 and 170-183, the
base-16 `ParseInt` after `TrimPrefix("0x")`. A Bytes32 field goes through
`LoadBytes32` (lines 153-167), which calls `CustomBytes32`. `CustomBytes32`
models lines 96-122:

* zero-pad on the left to the full width;
* hex decoding, which rejects odd lengths and non-hex characters;
* the 32-byte length check.

A string is its "0x" flag plus the characters `TrimPrefix` leaves. A Bytes32
is `Width` hex digits (64 in the code). Padding never truncates, so the same
cases arise at width 2:

* shorter than Width;
* exactly Width;
* longer than Width;
* odd length;
* non-hex.

### `SpanBatchDerivation` (C2)

One behaviour is one call of `GetAllSpanBatchesInL2BlockRange`. It computes
the L1 window, fetches (or fails), visits the channels in any order (Go map
order), and walks each channel's batches. A channel is abstracted to what
`processFrames` yields: a ready flag and a sequence of payloads. A payload is
one of:

* a decodable span batch (timestamp, block count);
* a singular batch;
* a span or singular batch that fails to decode (kept as nil);
* a read error or unknown type (skipped).

The L1 block time is a nondeterministic choice from a small set.

## 3. Runs

| Run | Expect | What it shows |
|---|---|---|
| `proposer_safety` | pass | `TypeOK`. `NoLostWork`: every block above `latest` stays covered by a non-FAILED SPAN or a pending retry. |
| `proposer_faults` | pass | With every ledger call allowed to fail and the process allowed to restart, the proposer implements `ProofProgress` (`ImplementsProofProgress`): the output moves only over blocks that the prover jobs of COMPLETE spans cover. Every fault action fires. |
| `proposer_liveness` | pass | `UnrequestedEventuallyRequested`: under the fairness below, and with the prover always returning a proof id, every UNREQ record is eventually dispatched, although the concurrency cap counts every REQ record. `CapEventuallyRestored`: racing goroutines push the REQ count over the cap, as spec 5 allows, and it always comes back under the cap. |
| `proposer_NoLostWork` | violation | A timed-out record is marked FAILED (prove.go 62). Then the retry's insert fails. The record keeps its prover id, so neither query of pass A returns it again, and its blocks are lost. |
| `proposer_ReqEventuallyResolved` | violation | The prover answers with an empty proof id (HTTP status never checked, prove.go 310). The record then stays REQ forever: `GetAllPendingProofs` skips it. |
| `proposer_SpanNoOverlap` | violation | Double dispatch of one record. A late goroutine makes a FAILED record REQ beside its own REQ children (spec 3 inv. 1, 8.1). |
| `proposer_RangesWellFormed` | violation | Splitting `[s,s]` yields `[s+1,s]` (spec 4.4). |
| `proposer_NoDuplicateWork` | violation | A failed-on-server record is retried by its goroutine and again by pass A (spec 4.4). |
| `derivation_ranges` | pass | `SpanRangesExact`: on a normal return, the ranges are inside the window and cover exactly the blocks the span batches cover there, in every channel order. |
| `derivation_NoPanicOnUndecodableBatch` | violation | A nil batch is dereferenced (spec 7). |
| `config_fields` | pass | `Bytes32MinimalHex`: a Bytes32 string in minimal or full hex loads as its value, and any other string is rejected. An even string longer than the width is rejected only by the length check of line 116. |
| `config_NumberAsWritten` | violation | The decimal string "10" loads as 16: unprefixed numbers are parsed in base 16 (ZKUpgrader.t.sol 141), but spec 6 allows decimal. |

Each violation run is a finding in `PROJECT.json`. Each property of a passing
run has a mutant: a plausible bug in a mapped definition that TLC must catch.
The same early return of `RequestQueuedProofs` that `proposer_SpanNoOverlap`
exhibits also lets two SPAN records be REQ under a cap of 1. The late
goroutine can also write an empty id over a COMPLETE record. Neither is
checked by a run of its own.

### Bounds

`MC_Proposer.cfg` sets:

* two initial spans, `[1,2]` and `[3,4]`. Both can be split, and a split child
  is a single block, so the single-block split is reached.
* `SubmissionInterval = 4`, so one AGG over both spans advances the oracle.
* a concurrency cap of 1, so the cap is active.
* at most 2 live goroutines, which is enough for a double dispatch.
* at most 6 ledger records, which allows two rounds of retries.

`LedgerBoundReached` stutters once the next retries might not fit, so hitting
the bound is not reported as a deadlock. The passing run explores about 2.3
million states.

`MC_Proposer_Faults.cfg` and `MC_Proposer_NoLostWork.cfg` set:

* one initial span `[1,2]` and `SubmissionInterval = 2`;
* at most 4 records and 2 goroutines;
* `Faults = TRUE`.

One span suffices: every fault hits a record of its own, and a split with a
failing second insert is reachable. The run explores 0.5 million states.

The liveness configurations use:

* the same single span and `SubmissionInterval = 2`;
* at most 5 records, which is enough for a failure, its split and an AGG.

`proposer_liveness` restricts the prover's answers to non-empty ids
(`AnswerIds`), because an empty id is exactly what breaks the property.
`proposer_ReqEventuallyResolved` allows empty ids. Each liveness property reads
`P ~> (Q \/ LedgerFull)`: a behaviour that stops because the ledger bound is
reached is not a counterexample.

`MC_RollupConfig.cfg` sets:

* strings of up to 4 characters over `0 1 9 a x` (3 in the
  `NumberAsWritten` run);
* a Width of 2;
* JSON numbers 0 and 5.

The length cases listed above all occur at these bounds. An odd string is
rejected by hex decoding. A 4-digit hex string decodes to 2 bytes where 1 is
expected, so only the length check rejects it. "10" tells base 10 from base 16.

`MC_SpanBatchDerivation.cfg` sets:

* two channels, with up to two payloads each, over all payload kinds;
* window [10,13] with 2 s L2 blocks, so timestamps 18 and 24 are blocks 9 and
  12, one straddling the window's start;
* block counts 1 and 3, so the clipping at both ends is reached;
* L1 block times 12 s (exact window) and 7 s.

`CHECK_DEADLOCK FALSE` is set there only because the function returns: `done`
is final.

### Fairness

`FairSpec` in `Proposer` assumes:

* weak fairness of `MainLoop`: the proposer ticks forever;
* weak fairness of each goroutine step `TaskRuns([rid, pc])`: the Go
  scheduler runs every runnable goroutine;
* strong fairness of `PollResolves(i)`. A polled record is fulfilled or
  times out. The timeout of prove.go 58 fires whenever the record stays
  pending long enough, so resolution is enabled infinitely often while the
  record is pending. This needs the record's status query to succeed now
  and then. If the query fails, the pass returns at line 45, before the
  timeout test. A record whose query fails forever is never timed out, and
  it stops the records after it from being polled on that tick. That case
  is outside the assumption and is listed as a hazard.

The prover is not assumed to ever succeed, so progress of `latest` is not
claimed (see below). Safety runs use `Spec`.

## 4. Not modelled, and the plan

* **Progress of `latest`**: this needs the prover to eventually fulfil a
  request, which the code cannot guarantee. Under that assumption, the
  duplicate AGGs of prove.go 189 should be checked next.
* **`log.Fatalf`** at ZKUpgrader.t.sol 272 ends the process. It is modelled as
  the final outcome `fatal`, and no property is claimed about it.
* **Concurrent derivations sharing a DataDir** (ZKUpgrader.t.sol 370): no
  caller under `src/` runs two derivations at once, so this is not a hazard
  of this code.
* **Reading the config file and JSON (un)marshalling**: these are reduced to
  the value that lands in the typed field, or an error.
* Beacon setup and the Solidity fork tests are pure I/O.
* **Batches missing from a fetch** (ZKUpgrader.t.sol 387): `fetch.Batches`
  is library code, and its valid and invalid counts are printed and
  dropped. The derivation model takes the fetched channels as its input.
  Nothing under `src/` shows that a batch can be lost, so this is not
  listed as a hazard.
* **Planner completeness inside the spec**: spec 4.5's walk stops at the
  first COMPLETE span that does not start right after the previous one. The
  double dispatch of prove.go 147 leaves overlapping spans behind, such as
  [1,2], a late [1,1] and [3,4]. The walk then stops at 2, although [1,2]
  and [3,4] tile [1,4], which spec 8 property 5 says must yield an AGG. TLC
  reaches this state under `MC_Proposer.cfg` with an invariant stating
  property 5. The planner is the database layer, not under `src/`, so this
  is a question for the spec, not a hazard of this code, and it is not run.

Nothing more of the system can be modelled faithfully within these limits.
Every state-changing function under `src/` that runs in-process is an action
of a module. What remains is library code (`fetch.Batches`, the batch
decoder), network and file I/O, or the database layer, which exists only as
spec text and is modelled from it.
