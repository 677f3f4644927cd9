------------------------------ MODULE Workflow ------------------------------
(***************************************************************************)
(* The workflow tools of the chains, each in a process of its own, and     *)
(* what they all promise: ConfirmationGate.                                *)
(***************************************************************************)
EXTENDS SuiWorkflow, EvmWorkflow, PolymarketWorkflow, SolanaWorkflow,
        NearWorkflow, KaspaWorkflow

vars == <<sessionVars, handed, requoteVars>>

TypeOK == StoreTypeOK /\ NearTypeOK /\ PolymarketTypeOK

Init ==
    /\ tool \in Tool
    /\ StoreInit /\ NearInit /\ PolymarketInit

Plain ==
    /\ \/ tool = "sui" /\ SuiNext
       \/ tool = "evm" /\ EvmNext
       \/ tool = "venus" /\ VenusNext
       \/ tool = "solana" /\ SolanaNext
       \/ tool = "kaspa" /\ KaspaNext
    /\ UNCHANGED <<handed, requoteVars>>

Polymarket == tool = "polymarket" /\ PolymarketNext /\ UNCHANGED handed
Near == tool = "near" /\ NearNext /\ UNCHANGED requoteVars
Restart == LoseStore /\ PolymarketRestart /\ UNCHANGED handed

Next == Plain \/ Polymarket \/ Near \/ Restart

Spec == Init /\ [][Next]_vars

-----------------------------------------------------------------------------
(* The implementation of the gate: a call submits from the moment its      *)
(* guard passed, until it returns or throws.                               *)

Submitting(c) ==
    /\ In(c, "sending")
    /\ Guarded(calls[c].net)

submitting ==
    [c \in Call |-> IF Submitting(c)
                    THEN TicketFor(calls[c].run, calls[c].net, calls[c].intent)
                    ELSE None]

Gate == INSTANCE ConfirmationGate WITH NoTicket <- None

-----------------------------------------------------------------------------
(* Properties.                                                             *)

(* Nothing is sent to mainnet unless the caller was shown a token for that *)
(* run, network and intent: not from a session confirmed on testnet, not   *)
(* from one that was rewritten while another call was in flight, and not   *)
(* after a restart.  With Kaspa, not on a token that expired while the     *)
(* request was being composed (the guards of the execute branches; the     *)
(* tools without sessions are not meant).                                  *)
ConfirmedOnly == Gate!Spec

(* A session never holds what the caller was not shown: an execute of its  *)
(* run without a token can confirm nothing else, whichever call wrote the  *)
(* session last (rememberWorkflowSession).  The sessions of the NEAR tool  *)
(* confirm nothing but their plan.                                         *)
SessionsShown ==
    \A run \in Run :
        LET session == sessions[run] IN
        /\ session # None
        /\ tool # "kaspa"
        /\ \/ session.net = "mainnet" /\ tool # "near"
           \/ session.holds = "plan"
        => Given(run, session.net, session.intent)

(* A stable-yield plan is handed to the agent wallet at most once for each *)
(* time the run was simulated (isStableYieldReplayReplayViolation).        *)
PlanHandedOutOnce == \A run \in Run : handed[run] <= 1

(* Calls that ask for a requoteMaxAttempts of at most n place at most n    *)
(* orders for a run that are reported as placed, and n more for each       *)
(* restart that lost the attempts: whatever the limits of the other calls  *)
(* of the run, whatever cancels and orders fail, while none has ever read  *)
(* the count of another that had yet to write it (readTradeRequoteRuntime, *)
(* writeTradeRequoteRuntime).                                              *)
RequotesBounded ==
    \A run \in Run \ overlapped, n \in Limits :
        placed[run][n] <= n * (forgotten[run] + 1)
=============================================================================
