----------------------------- MODULE Rebalance -----------------------------
(***************************************************************************)
(* The NEAR rebalance of apps/dashboard/server.mjs: the action             *)
(* rebalance_usdt_to_usdce_txn of executeAction, its three transactions    *)
(* (withdraw USDt from Burrow, swap to USDC.e, supply USDC.e to Burrow),   *)
(* the rollback of a failed swap, the run lock and the risk guards.        *)
(*                                                                         *)
(* The server is one Node process: the code between two awaits is one      *)
(* step, and other calls of executeAction run at every await.  The chain   *)
(* is the ledger of four balances.  A transaction is sent by the near      *)
(* command line tool, whose report (ok, an error that looks transient, any *)
(* other error) need not agree with what the chain did.                    *)
(***************************************************************************)
EXTENDS Integers, Sequences, FiniteSetsExt

CONSTANTS
    Call,             (* invocations of executeAction, each made at most once *)
    RunId,            (* the runId values the callers use *)
    NoRun,            (* the null of activeRunId *)
    IdOf,             (* the runId each call passes *)
    CallersSerialise, (* TRUE: no caller reuses a runId before its answer came *)
    InitialUsdt,      (* USDt collateral in Burrow at first *)
    Amounts,          (* amounts a caller may ask for *)
    AmountOf,         (* the amountRaw each call passes *)
    MaxAmount,        (* NEAR_REBAL_MAX_AMOUNT_RAW *)
    MinOuts,          (* minAmountOutRaw values that the quote guards let through *)
    MaxOut,           (* bound of the model on what a swap delivers *)
    RpcEndpoints,     (* length of the list RPC_ENDPOINTS *)
    RecentCap,        (* entries kept in recentRuns (30 in the code) *)
    DailyMax,         (* NEAR_REBAL_DAILY_MAX *)
    Cooldown,         (* NEAR_REBAL_COOLDOWN_SECONDS, in ticks *)
    MaxTime,          (* bound of the model on the clock *)
    MaxDay,           (* bound of the model on the days *)
    MaxRestarts       (* bound of the model on process restarts *)

ASSUME RunIdAssumption ==
    /\ NoRun \notin RunId
    /\ IdOf \in [Call -> RunId]
    /\ CallersSerialise \in BOOLEAN

ASSUME AmountAssumption ==
    /\ InitialUsdt \in Nat
    /\ Amounts \subseteq Nat \ {0}
    /\ AmountOf \in [Call -> Amounts]
    /\ MaxAmount \in Nat
    /\ MaxOut \in Nat
    /\ MinOuts \subseteq 1..MaxOut

ASSUME LimitAssumption ==
    /\ RpcEndpoints \in Nat \ {0}
    /\ RecentCap \in Nat \ {0}
    /\ DailyMax \in Nat \ {0}
    /\ Cooldown \in Nat \ {0}
    /\ MaxTime \in Nat
    /\ MaxDay \in Nat
    /\ MaxRestarts \in Nat

VARIABLES
    pc,             (* where each call is *)
    endpoint,       (* the RPC endpoint its current transaction goes to next *)
    usdcBefore,     (* its usdcBeforeRaw *)
    minOut,         (* its minAmountOutRaw *)
    supplyOut,      (* its supplyOutRaw *)
    outcome,        (* how it ended; the entries of REBALANCE_METRICS.recent *)
    activeRunId,    (* REBALANCE_STATE.activeRunId *)
    recentRuns,     (* the keys of REBALANCE_STATE.recentRuns, oldest first *)
    lastExecutedAt, (* REBALANCE_STATE.lastExecutedAt, 0 before the first *)
    dailyWindowDay, (* REBALANCE_STATE.dailyWindowDay, -1 for the first "" *)
    dailyCount,     (* REBALANCE_STATE.dailyCount *)
    metrics,        (* REBALANCE_METRICS, less what the process read from the file *)
    burrowUsdt, walletUsdt, walletUsdc, burrowUsdc,  (* the account's balances *)
    misreported,    (* history: an applied transaction was reported as an error,
                       or a balance read as 0 that was not *)
    promised,       (* history: the minAmountOutRaw of the successes, added up *)
    refunded,       (* history: USDt of rollbacks reported ok that Burrow refunded *)
    now,            (* Date.now() *)
    today,          (* currentDayKey() *)
    restarts        (* restarts so far *)

locals == <<usdcBefore, minOut, supplyOut>>
callVars == <<pc, endpoint, locals, outcome>>
lockVars == <<activeRunId, recentRuns>>
guardVars == <<lastExecutedAt, dailyWindowDay, dailyCount>>
ledger == <<burrowUsdt, walletUsdt, walletUsdc, burrowUsdc>>
env == <<now, today, restarts>>
books == <<promised, refunded>>
vars == <<callVars, lockVars, guardVars, metrics, ledger, books, misreported, env>>

Transactions == {"withdraw", "swap", "rollback", "supply"}
InFlightPc == Transactions \union {"begun", "quote", "alert", "balance", "reconcile"}
Pcs == InFlightPc \union {"idle", "done"}
Outcomes == {"none", "refused", "success", "warning", "failed", "rollback", "lost"}
Counters == {"total", "success", "failed", "rollback", "warning"}
Reports == {"ok", "transient", "fatal"}

InFlight == {c \in Call : pc[c] \in InFlightPc}

TypeOK ==
    /\ pc \in [Call -> Pcs]
    /\ endpoint \in [Call -> 1..RpcEndpoints]
    /\ usdcBefore \in [Call -> Nat]
    /\ minOut \in [Call -> Nat]
    /\ supplyOut \in [Call -> Nat]
    /\ outcome \in [Call -> Outcomes]
    /\ activeRunId \in RunId \union {NoRun}
    /\ recentRuns \in Seq(RunId)
    /\ lastExecutedAt \in Nat
    /\ dailyWindowDay \in Nat \union {-1}
    /\ dailyCount \in Nat
    /\ metrics \in [Counters -> Nat]
    /\ burrowUsdt \in Nat /\ walletUsdt \in Nat
    /\ walletUsdc \in Nat /\ burrowUsdc \in Nat
    /\ promised \in Nat /\ refunded \in Nat
    /\ misreported \in BOOLEAN
    /\ now \in Nat \ {0}
    /\ today \in Nat
    /\ restarts \in Nat

Init ==
    /\ pc = [c \in Call |-> "idle"]
    /\ endpoint = [c \in Call |-> 1]
    /\ usdcBefore = [c \in Call |-> 0]
    /\ minOut = [c \in Call |-> 0]
    /\ supplyOut = [c \in Call |-> 0]
    /\ outcome = [c \in Call |-> "none"]
    /\ activeRunId = NoRun
    /\ recentRuns = <<>>
    /\ lastExecutedAt = 0
    /\ dailyWindowDay = -1
    /\ dailyCount = 0
    /\ metrics = [m \in Counters |-> 0]
    /\ burrowUsdt = InitialUsdt
    /\ walletUsdt = 0 /\ walletUsdc = 0 /\ burrowUsdc = 0
    /\ promised = 0 /\ refunded = 0
    /\ misreported = FALSE
    /\ now = 1
    /\ today = 0
    /\ restarts = 0
-----------------------------------------------------------------------------
(* The run lock. *)

Known(r) == \E i \in 1..Len(recentRuns) : recentRuns[i] = r

(* Fault: the lock is not looked at. *)
RefusedWithoutLock(r) == Known(r)

(* beginRebalanceRun throws in these cases. *)
Refused(r) ==
    \/ activeRunId \notin {NoRun, r}
    \/ Known(r)

LastEntries(s, n) ==
    IF Len(s) > n THEN SubSeq(s, Len(s) - n + 1, Len(s)) ELSE s

(* recentRuns.set keeps the place of a key that is there already. *)
Remember(r) ==
    LastEntries(IF Known(r) THEN recentRuns ELSE Append(recentRuns, r), RecentCap)

(* Fault: a run that ends is not remembered. *)
endRebalanceRunForgets(r) ==
    /\ activeRunId' = IF activeRunId = r THEN NoRun ELSE activeRunId
    /\ UNCHANGED recentRuns

endRebalanceRun(r) ==
    /\ activeRunId' = IF activeRunId = r THEN NoRun ELSE activeRunId
    /\ recentRuns' = Remember(r)

(* The call returns: its locals are gone. *)
Return(c, status) ==
    /\ pc' = [pc EXCEPT ![c] = "done"]
    /\ outcome' = [outcome EXCEPT ![c] = status]
    /\ endpoint' = [endpoint EXCEPT ![c] = 1]
    /\ usdcBefore' = [usdcBefore EXCEPT ![c] = 0]
    /\ minOut' = [minOut EXCEPT ![c] = 0]
    /\ supplyOut' = [supplyOut EXCEPT ![c] = 0]

(* Fault: the failure is not counted. *)
CatchUncounted(c, status) ==
    /\ Return(c, status)
    /\ UNCHANGED metrics
    /\ endRebalanceRun(IdOf[c])

(* Fault: the lock is kept when the run fails. *)
CatchKeepsLock(c, status) ==
    /\ Return(c, status)
    /\ metrics' = [metrics EXCEPT !["failed"] = @ + 1]
    /\ UNCHANGED lockVars

(* The outer catch of the transaction: the run is over and failed. *)
Catch(c, status) ==
    /\ Return(c, status)
    /\ metrics' = [metrics EXCEPT !["failed"] = @ + 1]
    /\ endRebalanceRun(IdOf[c])

(* The call goes on to its next step. *)
Advance(c, step) ==
    /\ pc' = [pc EXCEPT ![c] = step]
    /\ endpoint' = [endpoint EXCEPT ![c] = 1]
    /\ UNCHANGED <<outcome, lockVars>>

Proceed(c, step) == Advance(c, step) /\ UNCHANGED <<locals, metrics>>

(* runNearCommandWithRpcFallback: a report that looks transient makes it   *)
(* send the transaction again, through the next endpoint.                  *)
RpcFallback(c, report, OnSuccess, OnError) ==
    \/ (report = "ok" /\ OnSuccess)
    \/ /\ report = "transient"
       /\ endpoint[c] < RpcEndpoints
       /\ endpoint' = [endpoint EXCEPT ![c] = @ + 1]
       /\ UNCHANGED <<pc, outcome, locals, metrics, lockVars>>
    \/ /\ report # "ok"
       /\ report = "transient" => endpoint[c] = RpcEndpoints
       /\ OnError

(* The tool reports an error for a transaction the chain applied. *)
NoteReport(report, applied) ==
    misreported' = (misreported \/ (applied /\ report # "ok"))

-----------------------------------------------------------------------------
(* The steps of one call. *)

(* Up to the first await of the run: the lock, or the throw of the lock.   *)
Begin(c) ==
    /\ pc[c] = "idle"
    /\ CallersSerialise => \A d \in InFlight : IdOf[d] # IdOf[c]
    /\ \/ /\ Refused(IdOf[c])
          /\ pc' = [pc EXCEPT ![c] = "done"]
          /\ outcome' = [outcome EXCEPT ![c] = "refused"]
          /\ UNCHANGED <<activeRunId, metrics>>
       \/ /\ ~Refused(IdOf[c])
          /\ activeRunId' = IdOf[c]
          /\ metrics' = [metrics EXCEPT !["total"] = @ + 1]
          /\ pc' = [pc EXCEPT ![c] = "begun"]
          /\ UNCHANGED outcome
    /\ UNCHANGED <<endpoint, locals, recentRuns, guardVars,
                   ledger, books, misreported, env>>

(* Snapshot, validation of the arguments and usdcBeforeRaw. *)
ReadBefore(c) ==
    /\ pc[c] = "begun"
    /\ \/ /\ usdcBefore' = [usdcBefore EXCEPT ![c] = walletUsdc]
          /\ Advance(c, "withdraw")
          /\ UNCHANGED <<minOut, supplyOut, metrics>>
       \/ Catch(c, "failed")
    /\ UNCHANGED <<guardVars, ledger, books, misreported, env>>

(* Step 1, simple_withdraw from Burrow. *)
Withdraw(c) ==
    /\ pc[c] = "withdraw"
    /\ \E report \in Reports, applied \in BOOLEAN :
        /\ report = "ok" => applied
        /\ applied => burrowUsdt >= AmountOf[c]
        /\ burrowUsdt' = IF applied THEN burrowUsdt - AmountOf[c] ELSE burrowUsdt
        /\ walletUsdt' = IF applied THEN walletUsdt + AmountOf[c] ELSE walletUsdt
        /\ NoteReport(report, applied)
        /\ RpcFallback(c, report, Proceed(c, "quote"), Catch(c, "failed"))
    /\ UNCHANGED <<guardVars, walletUsdc, burrowUsdc, books, env>>

(* Faults: each limit is off by one. *)
DailyOkOffByOne == (dailyWindowDay = today) => (dailyCount <= DailyMax)
CooldownOkOffByOne == (lastExecutedAt > 0) => (now - lastExecutedAt + 1 >= Cooldown)

(* The daily and cooldown checks of enforceRebalanceGuards. *)
DailyOk == (dailyWindowDay = today) => (dailyCount < DailyMax)
CooldownOk == (lastExecutedAt > 0) => (now - lastExecutedAt >= Cooldown)

(* The quote, then enforceRebalanceGuards; the funds are in the wallet by  *)
(* now.  The least the swap is to deliver is the caller's or a share of    *)
(* the quote, whatever its rate.  A quote that fails or is too poor, like  *)
(* an amount above the limit, is rejected before the day's window is       *)
(* looked at.                                                              *)
QuoteAndGuards(c) ==
    /\ pc[c] = "quote"
    /\ \/ (Catch(c, "failed") /\ UNCHANGED guardVars)
       \/ /\ AmountOf[c] <= MaxAmount
          /\ dailyWindowDay' = today
          /\ dailyCount' = IF dailyWindowDay = today THEN dailyCount ELSE 0
          /\ UNCHANGED lastExecutedAt
          /\ \/ /\ DailyOk /\ CooldownOk
                /\ \E least \in MinOuts : minOut' = [minOut EXCEPT ![c] = least]
                /\ Advance(c, "swap")
                /\ UNCHANGED <<usdcBefore, supplyOut, metrics>>
             \/ (~(DailyOk /\ CooldownOk) /\ Catch(c, "failed"))
    /\ UNCHANGED <<ledger, books, misreported, env>>

(* Step 2, the swap: a transfer to the exchange, which delivers what was   *)
(* asked for or more, or refunds it, which is still reported ok.  An error *)
(* goes to the rollback.                                                   *)
Swap(c) ==
    /\ pc[c] = "swap"
    /\ \E report \in Reports, applied \in BOOLEAN, out \in minOut[c]..MaxOut :
        /\ (applied \/ report = "ok") => walletUsdt >= AmountOf[c]
        /\ walletUsdt' = IF applied THEN walletUsdt - AmountOf[c] ELSE walletUsdt
        /\ walletUsdc' = IF applied THEN walletUsdc + out ELSE walletUsdc
        /\ NoteReport(report, applied)
        /\ RpcFallback(c, report, Proceed(c, "balance"), Proceed(c, "rollback"))
    /\ UNCHANGED <<guardVars, burrowUsdt, burrowUsdc, books, env>>

(* Fault: a rollback that failed is recorded as one that was made. *)
RollbackErrorAssumed(c) == Catch(c, "rollback")

RollbackError(c) == Catch(c, "failed")

(* The rollback: a transfer of the amount to Burrow, which may refund it   *)
(* and still be reported ok.                                               *)
Rollback(c) ==
    /\ pc[c] = "rollback"
    /\ \E report \in Reports, applied \in BOOLEAN :
        /\ (applied \/ report = "ok") => walletUsdt >= AmountOf[c]
        /\ walletUsdt' = IF applied THEN walletUsdt - AmountOf[c] ELSE walletUsdt
        /\ burrowUsdt' = IF applied THEN burrowUsdt + AmountOf[c] ELSE burrowUsdt
        /\ refunded' = IF report = "ok" /\ ~applied THEN refunded + AmountOf[c] ELSE refunded
        /\ NoteReport(report, applied)
        /\ \/ /\ report = "ok"
              /\ metrics' = [metrics EXCEPT !["rollback"] = @ + 1]
              /\ Advance(c, "alert")
              /\ UNCHANGED locals
           \/ RpcFallback(c, report, FALSE, RollbackError(c))
    /\ UNCHANGED <<guardVars, walletUsdc, burrowUsdc, promised, env>>

(* The rollback alert has been sent; the error reaches the outer catch. *)
RollbackAlerted(c) ==
    /\ pc[c] = "alert"
    /\ Catch(c, "rollback")
    /\ UNCHANGED <<guardVars, ledger, books, misreported, env>>

(* usdcAfterRaw: what the swap delivered, or minAmountOutRaw if it shows   *)
(* no gain.                                                                *)
Delivered(c) ==
    IF walletUsdc > usdcBefore[c] THEN walletUsdc - usdcBefore[c] ELSE minOut[c]

ReadAfter(c) ==
    /\ pc[c] = "balance"
    /\ \/ /\ supplyOut' = [supplyOut EXCEPT ![c] = Delivered(c)]
          /\ Advance(c, "supply")
          /\ UNCHANGED <<usdcBefore, minOut, metrics>>
       \/ Catch(c, "failed")
    /\ UNCHANGED <<guardVars, ledger, books, misreported, env>>

(* Step 3, the supply of USDC.e: an error leaves it in the wallet. *)
Supply(c) ==
    /\ pc[c] = "supply"
    /\ \E report \in Reports, applied \in BOOLEAN :
        /\ (applied \/ report = "ok") => walletUsdc >= supplyOut[c]
        /\ walletUsdc' = IF applied THEN walletUsdc - supplyOut[c] ELSE walletUsdc
        /\ burrowUsdc' = IF applied THEN burrowUsdc + supplyOut[c] ELSE burrowUsdc
        /\ NoteReport(report, applied)
        /\ RpcFallback(c, report, Proceed(c, "reconcile"), Catch(c, "failed"))
    /\ UNCHANGED <<guardVars, burrowUsdt, walletUsdt, books, env>>

(* The last snapshot, in which a balance that cannot be read counts as 0;  *)
(* markRebalanceExecuted, endRebalanceRun and the success metrics.         *)
Reconcile(c) ==
    /\ pc[c] = "reconcile"
    /\ \E usdt \in {0, walletUsdt}, usdc \in {0, walletUsdc} :
        LET reconciled == usdt = 0 /\ usdc = 0 IN
        /\ Return(c, IF reconciled THEN "success" ELSE "warning")
        /\ metrics' = [metrics EXCEPT !["success"] = @ + 1,
                                      !["warning"] = IF reconciled THEN @ ELSE @ + 1]
        /\ promised' = IF reconciled THEN promised + minOut[c] ELSE promised
        /\ misreported' = (misreported \/ (reconciled /\ walletUsdt + walletUsdc > 0))
    /\ lastExecutedAt' = now
    /\ dailyWindowDay' = today
    /\ dailyCount' = IF dailyWindowDay = today THEN dailyCount + 1 ELSE 1
    /\ endRebalanceRun(IdOf[c])
    /\ UNCHANGED <<ledger, refunded, env>>

CallStep(c) ==
    \/ ReadBefore(c) \/ Withdraw(c) \/ QuoteAndGuards(c) \/ Swap(c) \/ Rollback(c)
    \/ RollbackAlerted(c) \/ ReadAfter(c) \/ Supply(c) \/ Reconcile(c)

-----------------------------------------------------------------------------
(* What happens around the calls. *)

(* The action supply_usdt_collateral moves wallet USDt without the lock. *)
SupplyUsdtCollateral(a) ==
    /\ walletUsdt >= a
    /\ walletUsdt' = walletUsdt - a
    /\ burrowUsdt' = burrowUsdt + a
    /\ UNCHANGED <<callVars, lockVars, guardVars, metrics, walletUsdc, burrowUsdc, books,
                   misreported, env>>

(* The process restarts: REBALANCE_STATE is gone, REBALANCE_METRICS starts *)
(* from what the metrics file holds, the calls in flight never end.        *)
Restart ==
    /\ restarts < MaxRestarts
    /\ restarts' = restarts + 1
    /\ pc' = [c \in Call |-> IF c \in InFlight THEN "done" ELSE pc[c]]
    /\ endpoint' = [c \in Call |-> 1]
    /\ usdcBefore' = [c \in Call |-> 0]
    /\ minOut' = [c \in Call |-> 0]
    /\ supplyOut' = [c \in Call |-> 0]
    /\ outcome' = [c \in Call |-> IF c \in InFlight THEN "lost" ELSE outcome[c]]
    /\ activeRunId' = NoRun
    /\ recentRuns' = <<>>
    /\ lastExecutedAt' = 0
    /\ dailyWindowDay' = -1
    /\ dailyCount' = 0
    /\ metrics' = [m \in Counters |-> 0]
    /\ UNCHANGED <<ledger, books, misreported, now, today>>

(* Time passes; midnight may fall anywhere. *)
Tick ==
    /\ now < MaxTime
    /\ now' = now + 1
    /\ today' \in {today, today + 1} \intersect 0..MaxDay
    /\ UNCHANGED <<callVars, lockVars, guardVars, metrics, ledger, books, misreported, restarts>>

Next ==
    \/ \E c \in Call : Begin(c) \/ CallStep(c)
    \/ \E a \in Amounts : SupplyUsdtCollateral(a)
    \/ Restart
    \/ Tick

Spec == Init /\ [][Next]_vars

(* A step of a call waits for a command, which execFile kills after 120 s, *)
(* or for an HTTP request, which ends: it is taken in the end.  Nothing    *)
(* obliges a caller to call, an operator to supply or the host to restart. *)
FairSpec == Spec /\ \A c \in Call : WF_vars(CallStep(c))

-----------------------------------------------------------------------------
(* Properties. *)

(* The lock of beginRebalanceRun and endRebalanceRun: two rebalances of the *)
(* account are never in flight together, whatever the tool reports and     *)
(* wherever a run ends.                                                    *)
OneRebalanceInFlight == \A c, d \in InFlight : c = d

(* The saga, its throws and its restarts implement the run registry: no    *)
(* overlap, and no second start of a run id the process has seen end,      *)
(* unless recentRuns was full and dropped it.                              *)
Registry == INSTANCE RunRegistry WITH
    active <- {IdOf[c] : c \in InFlight},
    ended <- {recentRuns[i] : i \in 1..Len(recentRuns)},
    process <- restarts,
    Memory <- RecentCap

RegistryImplemented == Registry!RegistrySpec

(* The cooldown is tested before the swap and restarted only after the     *)
(* supply, several awaits later; two executions are still Cooldown apart.  *)
CooldownKept ==
    [][(lastExecutedAt > 0 /\ lastExecutedAt' > 0 /\ lastExecutedAt' # lastExecutedAt)
        => lastExecutedAt' - lastExecutedAt >= Cooldown]_lastExecutedAt

(* Likewise the daily cap, though a run may pass the guard on one day and  *)
(* be counted on the next.                                                 *)
DailyCapKept == dailyCount <= DailyMax

(* The metrics of a process: every run counted as started is counted once  *)
(* as successful or failed, or is in flight; only failed runs, or one that *)
(* is about to fail, were rolled back.                                     *)
MetricsAddUp ==
    /\ metrics["total"] = metrics["success"] + metrics["failed"] + Cardinality(InFlight)
    /\ metrics["rollback"] <= metrics["failed"]
                               + Cardinality({c \in InFlight : pc[c] = "alert"})
    /\ metrics["warning"] <= metrics["success"]

SumOver(f, S) == MapThenSumSet(LAMBDA c : f[c], S)

(* Funds left in the wallet leave a trace.  If no error was reported of    *)
(* what was applied and every run ended as a success or a rollback, no     *)
(* USDC.e is left in the wallet, nor USDt but what Burrow refunded of      *)
(* rollbacks; the successful runs, and they alone, took their amounts of   *)
(* USDt, and brought Burrow at least the minAmountOutRaw of each.          *)
CollateralAccounted ==
    LET succeeded == {c \in Call : outcome[c] = "success"}
    IN (/\ InFlight = {}
        /\ ~misreported
        /\ \A c \in Call : outcome[c] \notin {"failed", "warning", "lost"})
       => /\ walletUsdc = 0
          /\ walletUsdt <= refunded
          /\ burrowUsdt + walletUsdt = InitialUsdt - SumOver(AmountOf, succeeded)
          /\ burrowUsdc >= promised

(* The lock is not leaked: whatever fails on the way, a rebalance that is  *)
(* in flight ends, the lock is free again and the next one can start.      *)
LockReleased == []<>(activeRunId = NoRun)
=============================================================================
