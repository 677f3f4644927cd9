------------------------------ MODULE Workers ------------------------------
(***************************************************************************)
(* The three position workers side by side.  They run in processes of      *)
(* their own and share no state, so a behaviour is of one kind of worker.  *)
(***************************************************************************)
EXTENDS AgentWorker, YieldWorker, BscYieldWorker

VARIABLE kind  (* which worker's program runs *)

vars == <<kind, workerVars, toSend, bscVars>>

Kind == {"agent", "yield", "bsc"}

TypeOK ==
    /\ kind \in Kind
    /\ RegistryTypeOK /\ AgentTypeOK /\ BscTypeOK

Init == kind \in Kind /\ RegistryInit /\ AgentInit /\ BscInit

Agent == kind = "agent" /\ AgentNext /\ UNCHANGED <<kind, bscVars>>
Yield == kind = "yield" /\ YieldNext /\ UNCHANGED <<kind, toSend, bscVars>>
Bsc == kind = "bsc" /\ BscNext /\ UNCHANGED <<kind, workerVars, toSend>>

Next == Agent \/ Yield \/ Bsc

(* A timer that is set fires, unless it is cleared first, and what a cycle *)
(* awaits comes back: a value, an error or a time-out.                     *)
Turns(w) ==
    \/ /\ kind = "agent"
       /\ AgentCycle(w) \/ AgentReturns(w)
       /\ UNCHANGED <<kind, bscVars>>
    \/ /\ kind = "yield"
       /\ YieldCycle(w) \/ YieldPausedCycle(w) \/ YieldReturns(w)
       /\ UNCHANGED <<kind, toSend, bscVars>>

Fairness == \A w \in Worker : WF_vars(Turns(w))

Spec == Init /\ [][Next]_vars
FairSpec == Spec /\ Fairness

-----------------------------------------------------------------------------
(* Properties.                                                             *)

(* A worker that was stopped or paused by its errors never runs again and  *)
(* never begins another cycle, although a cycle may be in flight when it   *)
(* is stopped and ends after it was replaced (runCycle, scheduleNext).     *)
NoCycleOnceEnded ==
    \A w \in Worker : status[w] \in Ended =>
        status'[w] \in Ended /\ (~InCycle(w) => ~InCycle(w)')

(* While a worker of an account runs, no cycle of a worker it replaced     *)
(* begins: two cycles of one account are in flight only when the older one *)
(* was already there at the start (agentWorkerStart, yieldWorkerStart).    *)
OnlyCurrentBegins ==
    \A w, v \in Worker :
        /\ AccountOf[w] = AccountOf[v] /\ w # v
        /\ ~InCycle(w) /\ InCycle(w)'
        => status'[v] # "running"

(* No trade of the BSC worker begins within the minimum hold after one     *)
(* that went well, whatever stops and starts came in between and whenever  *)
(* its plan was read (runBscYieldWorkerTick, startBscYieldWorker).         *)
HoldKept == \A t \in Tick : tick[t] = "planning" /\ tick'[t] = "trading" =>
                                sinceTrade >= MinHold

WorkerSteps == [][NoCycleOnceEnded /\ OnlyCurrentBegins /\ HoldKept]_vars

(* A running worker arms its timer again and again, whatever its cycles    *)
(* ran into, until it is stopped or paused; then it comes to rest for      *)
(* good, also when the stop met a cycle in flight.                         *)
WorkersProgress ==
    \A w \in Worker :
        /\ status[w] = "running" ~> (armed[w] \/ status[w] \in Ended)
        /\ status[w] \in Ended ~> []Quiet(w)
=============================================================================
