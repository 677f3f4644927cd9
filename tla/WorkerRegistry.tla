--------------------------- MODULE WorkerRegistry ---------------------------
(***************************************************************************)
(* What the EVM agent worker (chains/evm/tools/agent-worker.ts) and the    *)
(* NEAR yield worker (chains/near/tools/yield-worker.ts) share: a Map from *)
(* account to the worker object started last, and a loop in which every    *)
(* cycle arms the timer of the next one.  The loop holds the object, not   *)
(* the Map: an object that was stopped and replaced may still be in the    *)
(* middle of a cycle.                                                      *)
(***************************************************************************)
EXTENDS Naturals

CONSTANTS
    Worker,     (* worker objects; each is started at most once *)
    NoWorker,   (* no worker was started for the account *)
    Account,    (* keys of the Map: network and account *)
    AccountOf,  (* the account each object is for *)
    MaxErrors   (* maxConsecutiveErrors *)

ASSUME RegistryAssumption ==
    /\ NoWorker \notin Worker
    /\ AccountOf \in [Worker -> Account]
    /\ MaxErrors \in Nat \ {0}

VARIABLES
    registry,  (* the Map workers *)
    status,    (* status of each object, "new" before it is started *)
    errors,    (* consecutiveErrors *)
    idleRun,   (* dryRun of the agent worker, config.paused of the yield worker *)
    armed,     (* the object's timer is set *)
    pc         (* where its runCycle awaits, or "idle" *)

workerVars == <<registry, status, errors, idleRun, armed, pc>>

Ended == {"stopped", "error"}
Await == {"reading", "readingPosition", "building", "sending"}

RegistryTypeOK ==
    /\ registry \in [Account -> Worker \union {NoWorker}]
    /\ status \in [Worker -> {"new", "running"} \union Ended]
    /\ errors \in [Worker -> Nat]
    /\ idleRun \in [Worker -> BOOLEAN]
    /\ armed \in [Worker -> BOOLEAN]
    /\ pc \in [Worker -> {"idle"} \union Await]

RegistryInit ==
    /\ registry = [a \in Account |-> NoWorker]
    /\ status = [w \in Worker |-> "new"]
    /\ errors = [w \in Worker |-> 0]
    /\ idleRun = [w \in Worker |-> FALSE]
    /\ armed = [w \in Worker |-> FALSE]
    /\ pc = [w \in Worker |-> "idle"]

Registered(w) == registry[AccountOf[w]] = w

(* Mutant: a worker that runs is replaced as well.                         *)
RegistryStartOver(w) ==
    /\ status[w] = "new"
    /\ registry' = [registry EXCEPT ![AccountOf[w]] = w]
    /\ status' = [status EXCEPT ![w] = "running"]
    /\ UNCHANGED errors

(* The start tool refuses while the registered worker is running; anything *)
(* else is replaced, and the first cycle runs up to its first await.       *)
RegistryStart(w) ==
    /\ status[w] = "new"
    /\ \A v \in Worker : AccountOf[v] = AccountOf[w] /\ Registered(v) =>
           status[v] # "running"
    /\ registry' = [registry EXCEPT ![AccountOf[w]] = w]
    /\ status' = [status EXCEPT ![w] = "running"]
    /\ UNCHANGED errors

(* The stop tool: the registered object, whatever its status.              *)
RegistryStop(w) ==
    /\ Registered(w)
    /\ status' = [status EXCEPT ![w] = "stopped"]
    /\ armed' = [armed EXCEPT ![w] = FALSE]
    /\ UNCHANGED <<registry, errors, idleRun, pc>>

(* The timer fires: its handle is spent.                                   *)
TimerFires(w) ==
    /\ armed[w]
    /\ armed' = [armed EXCEPT ![w] = FALSE]

(* Mutant: the next cycle is armed whatever the status.                    *)
ScheduleAlways(w) ==
    /\ pc' = [pc EXCEPT ![w] = "idle"]
    /\ armed' = [armed EXCEPT ![w] = TRUE]

(* The end of runCycle: the next cycle is armed if the worker is running.  *)
ScheduleNext(w) ==
    /\ pc' = [pc EXCEPT ![w] = "idle"]
    /\ armed' = [armed EXCEPT ![w] = status'[w] = "running"]

(* The cycle went through.                                                 *)
CycleDone(w) ==
    /\ errors' = [errors EXCEPT ![w] = 0]
    /\ UNCHANGED status
    /\ ScheduleNext(w)
    /\ UNCHANGED <<registry, idleRun>>

(* Mutant: a failed cycle returns before it arms the next one.             *)
CycleFailsForGood(w) ==
    /\ errors' = [errors EXCEPT ![w] = @ + 1]
    /\ status' = IF errors[w] + 1 >= MaxErrors
                 THEN [status EXCEPT ![w] = "error"] ELSE status
    /\ pc' = [pc EXCEPT ![w] = "idle"]
    /\ UNCHANGED <<registry, idleRun, armed>>

(* A read threw: one more error, and the pause when there are MaxErrors,   *)
(* even over a stop that came during the cycle.                            *)
CycleFails(w) ==
    /\ errors' = [errors EXCEPT ![w] = @ + 1]
    /\ status' = IF errors[w] + 1 >= MaxErrors
                 THEN [status EXCEPT ![w] = "error"] ELSE status
    /\ ScheduleNext(w)
    /\ UNCHANGED <<registry, idleRun>>

-----------------------------------------------------------------------------
(* What the loop promises about its objects.                               *)

InCycle(w) == pc[w] # "idle"
Quiet(w) == ~armed[w] /\ ~InCycle(w)

(* Every worker that runs is the registered one, and so is every timer     *)
(* that is set: the stop tools reach whatever can begin a cycle.  A timer  *)
(* and a cycle of one object never coexist, and a worker with MaxErrors    *)
(* failed reads in a row does not run (start, stop, runCycle).             *)
OneWorkerPerAccount ==
    \A w \in Worker :
        /\ status[w] = "running" => Registered(w) /\ errors[w] < MaxErrors
        /\ armed[w] => status[w] = "running" /\ ~InCycle(w)
=============================================================================
