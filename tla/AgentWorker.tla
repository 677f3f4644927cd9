---------------------------- MODULE AgentWorker ----------------------------
(***************************************************************************)
(* The EVM agent worker: runCycle of chains/evm/tools/agent-worker.ts.     *)
(* The markets and the position are read together; decideLtvAction holds,  *)
(* repays or borrows more; a repayment is one or more transactions sent in *)
(* turn.  Whatever the execution throws is caught inside the cycle.        *)
(***************************************************************************)
EXTENDS WorkerRegistry

CONSTANT MaxSends  (* transactions of one repayment *)
ASSUME SendsAssumption == MaxSends \in Nat \ {0}

VARIABLE toSend  (* transactions the cycle of each object still has to send *)

AgentInit == toSend = [w \in Worker |-> 0]
AgentTypeOK == toSend \in [Worker -> 0..MaxSends]

AgentStart(w) ==
    /\ RegistryStart(w)
    /\ \E dryRun \in BOOLEAN : idleRun' = [idleRun EXCEPT ![w] = dryRun]
    /\ pc' = [pc EXCEPT ![w] = "reading"]
    /\ UNCHANGED <<armed, toSend>>

AgentStop(w) == RegistryStop(w) /\ UNCHANGED toSend

(* agentWorkerStop without an id stops every running worker of the Map.    *)
AgentStopAll ==
    LET running == {w \in Worker : Registered(w) /\ status[w] = "running"} IN
    /\ running # {}
    /\ status' = [w \in Worker |-> IF w \in running THEN "stopped" ELSE status[w]]
    /\ armed' = [w \in Worker |-> armed[w] /\ w \notin running]
    /\ UNCHANGED <<registry, errors, idleRun, pc, toSend>>

AgentCycle(w) ==
    /\ TimerFires(w)
    /\ pc' = [pc EXCEPT ![w] = "reading"]
    /\ UNCHANGED <<registry, status, errors, idleRun, toSend>>

AgentReadFails(w) ==
    /\ pc[w] = "reading"
    /\ CycleFails(w)
    /\ UNCHANGED toSend

(* decideLtvAction holds (a paused worker always holds), or the run is dry. *)
AgentHolds(w) ==
    /\ pc[w] = "reading"
    /\ CycleDone(w)
    /\ UNCHANGED toSend

(* Repay or optimize: the calldata is built first.  Nothing looks at the   *)
(* status again before the transactions are sent.                          *)
AgentActs(w) ==
    /\ pc[w] = "reading"
    /\ ~idleRun[w]
    /\ pc' = [pc EXCEPT ![w] = "building"]
    /\ UNCHANGED <<registry, status, errors, idleRun, armed, toSend>>

AgentBuilt(w) ==
    /\ pc[w] = "building"
    /\ \E n \in 1..MaxSends : toSend' = [toSend EXCEPT ![w] = n]
    /\ pc' = [pc EXCEPT ![w] = "sending"]
    /\ UNCHANGED <<registry, status, errors, idleRun, armed>>

AgentSends(w) ==
    /\ pc[w] = "sending" /\ toSend[w] > 1
    /\ toSend' = [toSend EXCEPT ![w] = @ - 1]
    /\ UNCHANGED workerVars

AgentSendsLast(w) ==
    /\ pc[w] = "sending" /\ toSend[w] = 1
    /\ toSend' = [toSend EXCEPT ![w] = 0]
    /\ CycleDone(w)

(* Building or sending throws: the error is logged, and the cycle counts   *)
(* as one without error, after any number of its transactions.             *)
AgentExecutionFails(w) ==
    /\ pc[w] \in {"building", "sending"}
    /\ toSend' = [toSend EXCEPT ![w] = 0]
    /\ CycleDone(w)

(* What the await in flight comes back with.                               *)
AgentReturns(w) ==
    \/ AgentReadFails(w) \/ AgentHolds(w) \/ AgentActs(w) \/ AgentBuilt(w)
    \/ AgentSends(w) \/ AgentSendsLast(w) \/ AgentExecutionFails(w)

AgentNext ==
    \/ AgentStopAll
    \/ \E w \in Worker :
           AgentStart(w) \/ AgentStop(w) \/ AgentCycle(w) \/ AgentReturns(w)
=============================================================================
