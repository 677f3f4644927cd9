---------------------------- MODULE CycleLedger ----------------------------
(***************************************************************************)
(* What BscAutonomousStrategy promises about committed transactions: the   *)
(* cycles form one sequence, numbered without gap or repetition; a cycle   *)
(* that fails halts the sequence until somebody recovers it.               *)
(* AutonomousStrategy.tla implements this specification.                   *)
(***************************************************************************)
EXTENDS Naturals, Sequences

CONSTANT CycleId     (* the cycleId values of the requests *)

VARIABLES
    cycles,          (* the ExecutionDecision events, oldest first *)
    halted           (* no cycle runs until a recovery *)

ledgerVars == <<cycles, halted>>

LedgerInit == cycles = <<>> /\ halted = FALSE

Run(id, ok) ==
    /\ ~halted
    /\ cycles' = Append(cycles, [transitionNonce |-> Len(cycles) + 1, cycleId |-> id,
                                 executed |-> ok])
    /\ halted' = ~ok

Recover ==
    /\ halted
    /\ halted' = FALSE
    /\ UNCHANGED cycles

LedgerNext ==
    \/ \E id \in CycleId, ok \in BOOLEAN : Run(id, ok)
    \/ Recover

LedgerSpec == LedgerInit /\ [][LedgerNext]_ledgerVars
=============================================================================
