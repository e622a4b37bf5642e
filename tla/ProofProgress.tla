---------------------------- MODULE ProofProgress ----------------------------
(***************************************************************************)
(* What the proposer promises (spec sections 1 and 4.4), with ledger,      *)
(* goroutines and prover left out: L2 blocks become proven by span proofs, *)
(* a proven block stays proven, and the output oracle's latest block only  *)
(* moves forward over blocks that are all proven.                          *)
(***************************************************************************)
EXTENDS Naturals

CONSTANT LastBlock     \* the last L2 block to be proven

VARIABLES
    proven,   \* the L2 blocks some span proof covers
    latest    \* the oracle's latest output block

vars == <<proven, latest>>

Blocks == 1..LastBlock

Init ==
    /\ proven = {}
    /\ latest = 0

(* A span proof of the blocks s..e is obtained.                            *)
ProveRange ==
    /\ \E s, e \in Blocks : proven' = proven \cup s..e
    /\ UNCHANGED latest

(* An output up to block n is posted; every block after the previous one   *)
(* up to n is proven.                                                      *)
PostOutput ==
    /\ \E n \in (latest + 1)..LastBlock :
          /\ (latest + 1)..n \subseteq proven
          /\ latest' = n
    /\ UNCHANGED proven

Next == ProveRange \/ PostOutput

Spec == Init /\ [][Next]_vars

=============================================================================
