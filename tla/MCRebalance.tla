---------------------------- MODULE MCRebalance ----------------------------
(* A small instance of Rebalance: three calls, two of which share a run id. *)
EXTENDS Rebalance, TLC

CONSTANTS c1, c2, c3, r1, r2

(* c2 repeats the run of c1: a client that retries with the same runId. *)
MCIdOf == c1 :> r1 @@ c2 :> r1 @@ c3 :> r2
MCAmountOf == c1 :> 3 @@ c2 :> 3 @@ c3 :> 2
=============================================================================
