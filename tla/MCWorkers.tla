----------------------------- MODULE MCWorkers -----------------------------
(* A small instance of Workers: an account with two workers in turn,        *)
(* another account with one, and two ticks in flight.                       *)
EXTENDS Workers

CONSTANTS w1, w2, w3, accountA, accountB, t1, t2

MCAccountOf == [w \in Worker |-> IF w = w3 THEN accountB ELSE accountA]
=============================================================================
