------------------------- MODULE SpanBatchDerivation -------------------------
(***************************************************************************)
(* Range derivation (spec C2): GetAllSpanBatchesInL2BlockRange and what it *)
(* calls, from the Go utilities that follow the Solidity test in           *)
(* src/contracts/test/ZKUpgrader.t.sol (lines 40-492).                     *)
(*                                                                         *)
(* One call of the function is one behaviour: compute the L1 search window,*)
(* fetch the frames, then walk the channels in Go map order (any order)    *)
(* and the batches of each channel in order.  The frames a channel holds   *)
(* are abstracted to what processFrames makes of them: whether the channel *)
(* became ready and the sequence of batch payloads read from it.           *)
(***************************************************************************)
EXTENDS Naturals, Sequences, FiniteSets

CONSTANTS
    Channels,          \* channel ids found in the fetched frames
    StartBlock,        \* L2StartBlock
    EndBlock,          \* L2EndBlock
    L2GenesisTime, L2GenesisBlock, L2BlockTime,
    EndL1Origin,       \* L1 origin of the output at EndBlock
    L1BlockTimes,      \* possible timestamp gaps between two L1 blocks
    Timestamps,        \* possible batch timestamps (>= L2GenesisTime)
    BlockCounts,       \* possible span batch block counts (>= 1)
    MaxBatches         \* bound: batch payloads read from one channel

ASSUME StartBlock <= EndBlock /\ L2BlockTime > 0 /\ 0 \notin L1BlockTimes

(* A payload read from a channel: a span or singular batch that decodes,   *)
(* one that fails to decode, a read error, or an unknown batch type.       *)
Payloads ==
    [kind : {"span"}, ts : Timestamps, count : BlockCounts]
    \cup [kind : {"singular", "spanBad", "singularBad", "readErr", "unknown"}]

ChannelInputs == [ready : BOOLEAN, payloads : UNION {[1..n -> Payloads] : n \in 0..MaxBatches}]

VARIABLES
    input,        \* the frames on L1: [Channels -> ChannelInputs]
    l1BlockTime,  \* timestamp gap of startL1Origin and startL1Origin - 1
    l1End,        \* the upper L1 search bound
    stage,        \* "bounds", "fetch", "channels", "batches", "done"
    outcome,      \* "running", "ok", "fallback", "fatal", "panic", "error"
    todo,         \* channels of the map not yet visited
    cur,          \* batches of the channel being walked
    ranges        \* the result being built

vars == <<input, l1BlockTime, l1End, stage, outcome, todo, cur, ranges>>

(* TimestampToBlock, lines 255-257.                                        *)
TimestampToBlock(ts) == ((ts - L2GenesisTime) \div L2BlockTime) + L2GenesisBlock

(* processFrames, lines 418-492: a channel that is not ready yields no     *)
(* batches; otherwise read errors and unknown types are skipped and a      *)
(* batch that fails to decode is appended as a nil batch.                  *)
Kept(p) == p.kind \notin {"readErr", "unknown"}

(* Mutant: read errors and unknown batch types are not skipped.            *)
ProcessFramesNoSkip(ch) ==
    IF ch.ready THEN ch.payloads ELSE <<>>

ProcessFrames(ch) ==
    IF ch.ready THEN SelectSeq(ch.payloads, Kept) ELSE <<>>

Bad(b) == b.kind \in {"spanBad", "singularBad"}

TypeOK ==
    /\ input \in [Channels -> ChannelInputs]
    /\ l1BlockTime \in L1BlockTimes
    /\ l1End \in Nat
    /\ stage \in {"bounds", "fetch", "channels", "batches", "done"}
    /\ outcome \in {"running", "ok", "fallback", "fatal", "panic", "error"}
    /\ todo \subseteq Channels
    /\ cur \in Seq({p \in Payloads : Kept(p)})
    /\ ranges \in Seq([start : Nat, end : Nat])

Init ==
    /\ input \in [Channels -> ChannelInputs]
    /\ l1BlockTime \in L1BlockTimes
    /\ l1End = 0
    /\ stage = "bounds"
    /\ outcome = "running"
    /\ todo = Channels
    /\ cur = <<>>
    /\ ranges = <<>>

(* GetL1SearchBoundaries, lines 329-363: the end bound is the end block's  *)
(* L1 origin plus (60 / l1BlockTime) * 10 blocks, in integer division.    *)
GetL1SearchBoundaries ==
    /\ stage = "bounds"
    /\ l1End' = EndL1Origin + (60 \div l1BlockTime) * 10
    /\ stage' = "fetch"
    /\ UNCHANGED <<input, l1BlockTime, outcome, todo, cur, ranges>>

(* fetchBatchesBetweenL1Blocks, lines 367-392: the data directory is       *)
(* cleared and refilled; only the RemoveAll error is reported.             *)
FetchBatches ==
    /\ stage = "fetch"
    /\ stage' = "channels"
    /\ UNCHANGED <<input, l1BlockTime, l1End, outcome, todo, cur, ranges>>

FetchFails ==
    /\ stage = "fetch"
    /\ stage' = "done" /\ outcome' = "error"
    /\ UNCHANGED <<input, l1BlockTime, l1End, todo, cur, ranges>>

(* GetSpanBatchRanges, lines 269-273: the next channel of the map; one     *)
(* without batches ends the process through log.Fatalf.                    *)
NextChannel(c) ==
    /\ stage = "channels" /\ c \in todo
    /\ LET batches == ProcessFrames(input[c])
       IN  IF batches = <<>>
           THEN /\ stage' = "done" /\ outcome' = "fatal"
                /\ UNCHANGED cur
           ELSE /\ cur' = batches /\ stage' = "batches"
                /\ UNCHANGED outcome
    /\ todo' = todo \ {c}
    /\ UNCHANGED <<input, l1BlockTime, l1End, ranges>>

(* Mutant: the last block of a span is counted one too far.               *)
BatchEndBlockNoMinusOne(bs, count) == bs + count

(* Line 285: the last L2 block a span batch of count blocks covers.        *)
BatchEndBlock(bs, count) == bs + count - 1

(* Lines 275-292 for one batch.  GetTimestamp of a nil batch dereferences  *)
(* nil and panics; a batch that is not a span batch makes the function     *)
(* return what it has collected plus the whole range; a span batch is      *)
(* clipped to [StartBlock, EndBlock] and kept when the two intersect.      *)
NextBatch ==
    LET b    == Head(cur)
        rest == Tail(cur)
        next == IF rest = <<>> THEN "channels" ELSE "batches"
    IN
    /\ stage = "batches"
    /\ CASE Bad(b) ->
              /\ stage' = "done" /\ outcome' = "panic"
              /\ UNCHANGED <<cur, ranges>>
         [] b.kind = "singular" ->
              /\ ranges' = Append(ranges, [start |-> StartBlock, end |-> EndBlock])
              /\ stage' = "done" /\ outcome' = "fallback"
              /\ UNCHANGED cur
         [] OTHER ->
              LET bs == TimestampToBlock(b.ts)
                  be == BatchEndBlock(bs, b.count)
              IN  /\ ranges' = IF bs > EndBlock \/ be < StartBlock THEN ranges
                               ELSE Append(ranges,
                                      [start |-> IF bs > StartBlock THEN bs ELSE StartBlock,
                                       end   |-> IF be < EndBlock THEN be ELSE EndBlock])
                  /\ cur' = rest /\ stage' = next
                  /\ UNCHANGED outcome
    /\ UNCHANGED <<input, l1BlockTime, l1End, todo>>

(* Line 295: every channel visited.                                        *)
ReturnRanges ==
    /\ stage = "channels" /\ todo = {}
    /\ stage' = "done" /\ outcome' = "ok"
    /\ UNCHANGED <<input, l1BlockTime, l1End, todo, cur, ranges>>

Next ==
    \/ GetL1SearchBoundaries \/ FetchBatches \/ FetchFails
    \/ \E c \in Channels : NextChannel(c)
    \/ NextBatch \/ ReturnRanges

Spec == Init /\ [][Next]_vars

-----------------------------------------------------------------------------
(***************************************************************************)
(* Properties.                                                             *)
(***************************************************************************)

(* Reference: the blocks of [StartBlock, EndBlock] some decoded span batch *)
(* of a ready channel covers, a span of count blocks from its first one.   *)
SpanBlocks ==
    {n \in StartBlock..EndBlock :
        \E c \in Channels :
           \E k \in DOMAIN ProcessFrames(input[c]) :
              LET p == ProcessFrames(input[c])[k]
              IN  /\ p.kind = "span"
                  /\ TimestampToBlock(p.ts) <= n
                  /\ n < TimestampToBlock(p.ts) + p.count}

RangeBlocks == UNION {ranges[k].start..ranges[k].end : k \in DOMAIN ranges}

(* GetSpanBatchRanges (lines 260-296), when it returns normally, gives     *)
(* non-empty ranges inside [StartBlock, EndBlock] that together cover      *)
(* exactly the blocks the span batches of all channels cover there, in     *)
(* whatever order the Go map hands out the channels.                       *)
SpanRangesExact ==
    outcome = "ok" =>
        /\ \A k \in DOMAIN ranges :
              StartBlock <= ranges[k].start /\ ranges[k].start <= ranges[k].end
              /\ ranges[k].end <= EndBlock
        /\ RangeBlocks = SpanBlocks

(* Spec 7: a span batch that cannot be parsed degrades to the fallback;    *)
(* the derivation does not crash.  At stake: the nil batch processFrames   *)
(* appends on a decode error (lines 455-469), used at line 276.            *)
NoPanicOnUndecodableBatch == outcome # "panic"

=============================================================================
