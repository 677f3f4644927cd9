--------------------------- MODULE BscYieldWorker ---------------------------
(***************************************************************************)
(* The BSC yield worker of apps/dashboard/server.mjs: one global object,   *)
(* whose interval timer starts a tick whether or not the last one is over. *)
(* A tick awaits the plan, checks the minimum hold and the dry-run flag,   *)
(* and awaits the trade; the trade's time is recorded when it returns.     *)
(***************************************************************************)
EXTENDS Naturals

CONSTANTS
    Tick,    (* ticks that may be in flight together: bound of the model *)
    MinHold  (* minHoldSeconds *)

ASSUME BscAssumption == MinHold \in Nat

VARIABLES
    interval,   (* the interval timer is set *)
    dryRun,     (* BSC_YIELD_WORKER.dryRun *)
    sinceHeld,  (* time since lastExecuteAt, up to MinHold *)
    tick,       (* where each tick awaits *)
    sinceTrade  (* history: time since a trade ended well, up to MinHold *)

bscVars == <<interval, dryRun, sinceHeld, tick, sinceTrade>>

BscTypeOK ==
    /\ interval \in BOOLEAN
    /\ dryRun \in BOOLEAN
    /\ sinceHeld \in 0..MinHold
    /\ tick \in [Tick -> {"idle", "planning", "trading"}]
    /\ sinceTrade \in 0..MinHold

BscInit ==
    /\ interval = FALSE
    /\ dryRun = TRUE
    /\ sinceHeld = MinHold
    /\ tick = [t \in Tick |-> "idle"]
    /\ sinceTrade = MinHold

TickTo(t, place) == tick' = [tick EXCEPT ![t] = place]

(* Stops the old interval, sets the new one, and starts a tick at once.    *)
BscStart(t) ==
    /\ tick[t] = "idle"
    /\ interval' = TRUE
    /\ dryRun' \in BOOLEAN
    /\ TickTo(t, "planning")
    /\ UNCHANGED <<sinceHeld, sinceTrade>>

(* Ticks in flight are left alone.                                         *)
BscStop ==
    /\ interval
    /\ interval' = FALSE
    /\ UNCHANGED <<dryRun, sinceHeld, tick, sinceTrade>>

BscInterval(t) ==
    /\ interval /\ tick[t] = "idle"
    /\ TickTo(t, "planning")
    /\ UNCHANGED <<interval, dryRun, sinceHeld, sinceTrade>>

(* The plan throws, or says hold, not ready, no net yield or too slow; or  *)
(* the minimum hold is active; or the worker is on a dry run.              *)
BscEnds(t) ==
    /\ tick[t] = "planning"
    /\ TickTo(t, "idle")
    /\ UNCHANGED <<interval, dryRun, sinceHeld, sinceTrade>>

BscTrades(t) ==
    /\ tick[t] = "planning"
    /\ sinceHeld >= MinHold
    /\ ~dryRun
    /\ TickTo(t, "trading")
    /\ UNCHANGED <<interval, dryRun, sinceHeld, sinceTrade>>

BscTradeReturns(t) ==
    /\ tick[t] = "trading"
    /\ TickTo(t, "idle")
    /\ sinceHeld' = 0
    /\ sinceTrade' = 0
    /\ UNCHANGED <<interval, dryRun>>

(* executeAction throws: lastError is set and lastExecuteAt is not.        *)
BscTradeThrows(t) ==
    /\ tick[t] = "trading"
    /\ TickTo(t, "idle")
    /\ UNCHANGED <<interval, dryRun, sinceHeld, sinceTrade>>

Later(age) == IF age < MinHold THEN age + 1 ELSE age

BscTime ==
    /\ sinceHeld' = Later(sinceHeld)
    /\ sinceTrade' = Later(sinceTrade)
    /\ UNCHANGED <<interval, dryRun, tick>>

BscReturns(t) ==
    BscEnds(t) \/ BscTrades(t) \/ BscTradeReturns(t) \/ BscTradeThrows(t)

BscNext ==
    \/ BscStop \/ BscTime
    \/ \E t \in Tick : BscStart(t) \/ BscInterval(t) \/ BscReturns(t)
=============================================================================
