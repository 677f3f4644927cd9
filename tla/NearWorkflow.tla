---------------------------- MODULE NearWorkflow ----------------------------
(***************************************************************************)
(* The NEAR workflow tool (chains/near/tools/workflow.ts): the token on    *)
(* mainnet, and no session that confirms.  A stable-yield plan is handed   *)
(* to an agent wallet instead of being sent: for the plan and the approval *)
(* token that the simulation of the run showed, while it holds, and once.  *)
(***************************************************************************)
EXTENDS WorkflowSessions

CONSTANT YieldIntent  (* the intents of type near.defi.stableYieldPlan *)
ASSUME YieldAssumption == YieldIntent \subseteq Intent

(* History: how often the plan simulated last in a run was handed out.     *)
VARIABLE handed

NearInit == handed = [r \in Run |-> 0]
NearTypeOK == handed \in [Run -> Nat]

NearAnalysis ==
    \E run \in Run, net \in Net, intent \in Intent :
        /\ Remember(run, net, intent, "nothing")
        /\ IF intent \in YieldIntent THEN UNCHANGED announced ELSE Show(run, net, intent)
        /\ UNCHANGED <<tool, calls, handed>>

(* Or compose, which awaits the transaction's parts.                       *)
NearSimulate(c) == StartSimulation(c) /\ UNCHANGED handed

(* A swap by intents takes the deposit address of the quote into its       *)
(* intent: the session and the token are for what was quoted.              *)
NearSimulated(c) ==
    LET job == calls[c] IN
    /\ In(c, "simulating") /\ job.intent \notin YieldIntent
    /\ \E quoted \in Intent \ YieldIntent :
           /\ Remember(job.run, job.net, quoted, "nothing")
           /\ Show(job.run, job.net, quoted)
    /\ Await(c, None)
    /\ UNCHANGED <<tool, handed>>

(* The composed transaction is returned without a token.                   *)
NearComposed(c) ==
    LET job == calls[c] IN
    /\ In(c, "simulating") /\ job.intent \notin YieldIntent
    /\ Remember(job.run, job.net, job.intent, "nothing")
    /\ Await(c, None)
    /\ UNCHANGED <<tool, announced, handed>>

(* The plan, unless it says hold, and on any network its approval token.   *)
NearPlanned(c) ==
    LET job == calls[c] IN
    /\ In(c, "simulating") /\ job.intent \in YieldIntent
    /\ \E holds \in {"plan", "nothing"} : Remember(job.run, job.net, job.intent, holds)
    /\ announced' = announced \union {TicketFor(job.run, job.net, job.intent)}
    /\ handed' = [handed EXCEPT ![job.run] = 0]
    /\ Await(c, None)
    /\ UNCHANGED tool

(* The guard stands before the risk check of Burrow intents, which may     *)
(* still refuse (NearEnds).                                                *)
NearExecute(c) ==
    /\ \E run \in Run, net \in Net, intent \in Intent \ YieldIntent :
           /\ Guarded(net) => Given(run, net, intent)
           /\ Send(c, run, net, intent)
    /\ UNCHANGED handed

NearRefuses ==
    /\ \E run \in Run, net \in Net, intent \in Intent \ YieldIntent :
           RefuseNaming(run, net, intent)
    /\ UNCHANGED handed

(* An execute writes no session, whether it ends well or throws.           *)
NearEnds(c) == Throws(c) /\ UNCHANGED handed

(* Mutant: what was executed is not marked.                                *)
NearHandOutUnmarked(run) ==
    LET session == sessions[run] IN
    /\ session # None /\ session.holds = "plan"
    /\ Given(run, session.net, session.intent)
    /\ handed' = [handed EXCEPT ![run] = @ + 1]
    /\ UNCHANGED sessionVars

(* runNearStableYieldProposalExecute, from the read of the session to the  *)
(* mark of what was executed, without an await.  The readers' plans have   *)
(* one action each.                                                        *)
NearHandOut(run) ==
    LET session == sessions[run] IN
    /\ session # None /\ session.holds = "plan"
    /\ Given(run, session.net, session.intent)
    /\ Remember(run, session.net, session.intent, "handed")
    /\ handed' = [handed EXCEPT ![run] = @ + 1]
    /\ UNCHANGED <<tool, calls, announced>>

(* Sixty minutes after the plan was made it is refused.                    *)
NearPlanExpires(run) ==
    LET session == sessions[run] IN
    /\ session # None /\ session.holds = "plan"
    /\ Remember(run, session.net, session.intent, "nothing")
    /\ UNCHANGED <<tool, calls, announced, handed>>

NearNext ==
    \/ NearAnalysis \/ NearRefuses
    \/ \E run \in Run : NearHandOut(run) \/ NearPlanExpires(run)
    \/ \E c \in Call : \/ NearSimulate(c) \/ NearSimulated(c) \/ NearComposed(c)
                       \/ NearPlanned(c) \/ NearExecute(c) \/ NearEnds(c)
=============================================================================
