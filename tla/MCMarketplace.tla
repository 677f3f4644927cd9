--------------------------- MODULE MCMarketplace ---------------------------
(* A small instance of Marketplace: one payment with an event about it,      *)
(* two buyers' keys, three calls of which two are the same run.             *)
EXTENDS Marketplace, TLC

CONSTANTS k1, k2, p1, ePaid, c1, c2, c3, rA, rB

MCKeyOf == [p \in Payment |-> k1]
MCNotice == [e \in Event |-> [payment |-> p1, status |-> "paid", paid |-> "absent"]]

(* A confirmation as the docs show it, and a failure the code understands.  *)
MCBodies == {[status |-> "pending", paid |-> "absent"], [status |-> "failed", paid |-> "false"]}

(* What the docs say reports a failure: status "failed", no paid flag.      *)
MCFailedBody == {[status |-> "failed", paid |-> "absent"]}
MCRunOf == [c \in Call |-> IF c = c3 THEN rB ELSE rA]
MCPaymentOf == [c \in Call |-> p1]
MCClaimOf == [c \in Call |-> k1]

(* States that differ only in what no step will read again are one: the     *)
(* file after the last restart, the entitlement of a call that has ended,   *)
(* the contents of entries that block no run.                               *)
MCView ==
    <<market, IF restarts < MaxRestarts THEN disk ELSE <<>>,
      [i \in 1..Len(history) |->
          IF history[i].terminal /\ history[i].payment # NoPayment THEN history[i] ELSE {}],
      dailyDay, dailyCount, pc, [c \in Call |-> IF pc[c] = "executing" THEN held[c] ELSE 0],
      env>>

(* c1 and c2 are the same request. *)
MCSameRun == Permutations({c1, c2})
=============================================================================
