---------------------------- MODULE SuiWorkflow ----------------------------
(***************************************************************************)
(* The Sui workflow tool (chains/sui/tools/workflow.ts).  On mainnet an    *)
(* execute wants the token, or no token and the session of its own run.    *)
(* The stablelayer and farms tools do the same on the same Map; whether    *)
(* the simulated transaction is reused or built again is left out.         *)
(***************************************************************************)
EXTENDS WorkflowSessions

SuiAnalysis == Analysis
SuiSimulate(c) == StartSimulation(c)

(* devInspect succeeds; otherwise the tool throws (SuiFails).              *)
SuiSimulated(c) == EndSimulation(c)

(* hasSessionConfirmation, or the token: the session is the one read       *)
(* before the intent was normalised.                                       *)
SuiConfirmed(run, net, intent) ==
    \/ ~Guarded(net)
    \/ Given(run, net, intent)
    \/ SessionConfirmed(run, net, intent)

SuiExecute(c) ==
    \E run \in Run, net \in Net, intent \in Intent :
        /\ SuiConfirmed(run, net, intent)
        /\ Send(c, run, net, intent)

SuiSent(c) == Sent(c, "nothing")

(* The simulation or the execution throws: the session stays.              *)
SuiFails(c) == Throws(c)

SuiNext ==
    \/ SuiAnalysis
    \/ \E c \in Call : \/ SuiSimulate(c) \/ SuiSimulated(c)
                       \/ SuiExecute(c) \/ SuiSent(c) \/ SuiFails(c)
=============================================================================
