----------------------------- MODULE MCWorkflow -----------------------------
(* A small instance of Workflow: two runs, two intents and two calls.       *)
EXTENDS Workflow, TLC

CONSTANTS r1, r2, plan, transfer, c1, c2

Symmetry == Permutations(Call)
=============================================================================
