---------------------------- MODULE YieldWorker ----------------------------
(***************************************************************************)
(* The NEAR yield worker: runCycle of chains/near/tools/yield-worker.ts.   *)
(* A paused worker ends its cycle at once; otherwise the plan is read,     *)
(* then the position.  The decision is logged and sent to the webhook:     *)
(* this worker sends no transaction.                                       *)
(***************************************************************************)
EXTENDS WorkerRegistry

(* The first cycle runs within the start tool, up to its first await: a    *)
(* paused one runs to its end.                                             *)
YieldStart(w) ==
    /\ RegistryStart(w)
    /\ \E paused \in BOOLEAN :
           /\ idleRun' = [idleRun EXCEPT ![w] = paused]
           /\ IF paused THEN ScheduleNext(w)
                        ELSE pc' = [pc EXCEPT ![w] = "reading"] /\ UNCHANGED armed

YieldStop(w) == RegistryStop(w)

(* config.paused: no read, no error, and the next cycle is armed.          *)
YieldPausedCycle(w) ==
    /\ armed[w] /\ idleRun[w]
    /\ CycleDone(w)

YieldCycle(w) ==
    /\ TimerFires(w) /\ ~idleRun[w]
    /\ pc' = [pc EXCEPT ![w] = "reading"]
    /\ UNCHANGED <<registry, status, errors, idleRun>>

YieldPlanRead(w) ==
    /\ pc[w] = "reading"
    /\ pc' = [pc EXCEPT ![w] = "readingPosition"]
    /\ UNCHANGED <<registry, status, errors, idleRun, armed>>

YieldDecides(w) == pc[w] = "readingPosition" /\ CycleDone(w)

YieldReadFails(w) == pc[w] \in {"reading", "readingPosition"} /\ CycleFails(w)

YieldReturns(w) == YieldPlanRead(w) \/ YieldDecides(w) \/ YieldReadFails(w)

YieldNext ==
    \E w \in Worker : \/ YieldStart(w) \/ YieldStop(w) \/ YieldCycle(w)
                      \/ YieldPausedCycle(w) \/ YieldReturns(w)
=============================================================================
