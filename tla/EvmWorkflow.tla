---------------------------- MODULE EvmWorkflow ----------------------------
(***************************************************************************)
(* The EVM transfer tool (chains/evm/tools/transfer-workflow.ts), and the  *)
(* swap tool, which differs by a static check of the chain's addresses;    *)
(* and the Venus tool (venus-workflow.ts).                                 *)
(***************************************************************************)
EXTENDS WorkflowSessions

EvmAnalysis == Analysis
EvmSimulate(c) == StartSimulation(c)

(* A preview that throws is reported and remembered all the same.          *)
EvmSimulated(c) == EndSimulation(c)

EvmConfirmed(run, net, intent) ==
    \/ ~Guarded(net)
    \/ Given(run, net, intent)
    \/ SessionConfirmed(run, net, intent)

EvmExecute(c) ==
    \E run \in Run, net \in Net, intent \in Intent :
        /\ EvmConfirmed(run, net, intent)
        /\ Send(c, run, net, intent)

EvmRefuses ==
    \E run \in Run, net \in Net, intent \in Intent : RefuseNaming(run, net, intent)

EvmSent(c) == Sent(c, "nothing")
EvmSendFails(c) == In(c, "sending") /\ Throws(c)

EvmNext ==
    \/ EvmAnalysis \/ EvmRefuses
    \/ \E c \in Call : \/ EvmSimulate(c) \/ EvmSimulated(c)
                       \/ EvmExecute(c) \/ EvmSent(c) \/ EvmSendFails(c)

-----------------------------------------------------------------------------
(* Venus: analysis leaves no session; simulate stores the calldata with    *)
(* its token, and execute sends what the session holds, whatever it was    *)
(* called with.                                                            *)

VenusSimulate(c) == StartSimulation(c)
VenusSimulated(c) == EndSimulation(c)

VenusExecute(c) ==
    \E run \in Run :
        LET session == sessions[run] IN
        /\ session # None
        /\ Guarded(session.net) => Given(run, session.net, session.intent)
        /\ Send(c, run, session.net, session.intent)

(* After some of the transactions or all of them; the session stays.       *)
VenusEnds(c) == Throws(c)

VenusNext ==
    \E c \in Call : \/ VenusSimulate(c) \/ VenusSimulated(c)
                    \/ VenusExecute(c) \/ VenusEnds(c)
=============================================================================
