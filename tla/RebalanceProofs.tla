-------------------------- MODULE RebalanceProofs --------------------------
(***************************************************************************)
(* Proofs about the NEAR rebalance, for every value of the constants: type *)
(* correctness, mutual exclusion of the run lock, the two limits whose     *)
(* test and whose update are several awaits apart (the daily cap and the   *)
(* cooldown), the counters, the refinement of RunRegistry, and the books:  *)
(* where the collateral is at every step of a saga no one lied about.      *)
(* The limits and the books are only as good as the lock, and use it.      *)
(***************************************************************************)
EXTENDS Rebalance, TLAPS, FiniteSetTheorems, WellFoundedInduction

Assumptions == RunIdAssumption /\ AmountAssumption /\ LimitAssumption

LEMMA AssumptionsHold == Assumptions
BY RunIdAssumption, AmountAssumption, LimitAssumption DEF Assumptions

(* The lock names the run in flight, and only one is. *)
LockInv ==
    /\ OneRebalanceInFlight
    /\ \A c \in InFlight : activeRunId = IdOf[c]

(* Past the guards, where only the lock keeps their verdict true. *)
PastGuards == {"swap", "rollback", "alert", "balance", "supply", "reconcile"}

LimitInv ==
    /\ lastExecutedAt <= now
    /\ dailyWindowDay <= today
    /\ DailyCapKept
    /\ \A c \in Call : pc[c] \in PastGuards => DailyOk /\ CooldownOk

(* Types are preserved by the operations on recentRuns. *)
LEMMA RememberType ==
    ASSUME RunIdAssumption, LimitAssumption, NEW r \in RunId, recentRuns \in Seq(RunId)
    PROVE  Remember(r) \in Seq(RunId)
<1>1. Append(recentRuns, r) \in Seq(RunId)
  OBVIOUS
<1>2. ASSUME NEW s \in Seq(RunId)
      PROVE  LastEntries(s, RecentCap) \in Seq(RunId)
  <2>1. CASE Len(s) > RecentCap
    <3>1. /\ Len(s) - RecentCap + 1 \in 1..Len(s) + 1
          /\ Len(s) \in (Len(s) - RecentCap)..Len(s)
      BY <2>1 DEF LimitAssumption
    <3>2. QED
      BY <2>1, <3>1 DEF LastEntries, LimitAssumption
  <2>2. CASE ~(Len(s) > RecentCap)
    BY <2>2 DEF LastEntries
  <2>3. QED
    BY <2>1, <2>2
<1>3. QED
  BY <1>1, <1>2 DEF Remember

(* TypeOK by groups of variables that the same part of a step updates. *)
CallTypes ==
    /\ pc \in [Call -> Pcs] /\ outcome \in [Call -> Outcomes]
    /\ endpoint \in [Call -> 1..RpcEndpoints]
    /\ usdcBefore \in [Call -> Nat] /\ minOut \in [Call -> Nat] /\ supplyOut \in [Call -> Nat]
    /\ metrics \in [Counters -> Nat]
    /\ activeRunId \in RunId \union {NoRun} /\ recentRuns \in Seq(RunId)

GuardTypes ==
    /\ lastExecutedAt \in Nat /\ dailyWindowDay \in Nat \union {-1} /\ dailyCount \in Nat

LedgerTypes ==
    /\ burrowUsdt \in Nat /\ walletUsdt \in Nat
    /\ walletUsdc \in Nat /\ burrowUsdc \in Nat

OtherTypes ==
    /\ now \in Nat \ {0} /\ today \in Nat /\ restarts \in Nat

BookTypes == promised \in Nat /\ refunded \in Nat

LEMMA TypeGroups ==
    TypeOK <=> /\ CallTypes /\ GuardTypes /\ LedgerTypes /\ OtherTypes /\ BookTypes
               /\ misreported \in BOOLEAN
BY Zenon DEF TypeOK, CallTypes, GuardTypes, LedgerTypes, OtherTypes, BookTypes

LEMMA InitType ==
    ASSUME Assumptions, Init  PROVE TypeOK
<1> USE DEF Init, Assumptions
<1>1. CallTypes
  BY DEF CallTypes, Pcs, Outcomes, LimitAssumption
<1>2. GuardTypes /\ LedgerTypes /\ OtherTypes /\ BookTypes
  BY DEF GuardTypes, LedgerTypes, OtherTypes, BookTypes, AmountAssumption
<1>3. misreported \in BOOLEAN
  OBVIOUS
<1>4. QED
  BY <1>1, <1>2, <1>3, TypeGroups

LEMMA CountType ==
    ASSUME TypeOK, NEW m \in Counters
    PROVE  [metrics EXCEPT ![m] = @ + 1] \in [Counters -> Nat]
BY DEF TypeOK

(* The two ways a step of a call goes on, and the lock update of its end. *)
LEMMA EndType ==
    ASSUME Assumptions, TypeOK, NEW c \in Call, endRebalanceRun(IdOf[c])
    PROVE  activeRunId' \in RunId \union {NoRun} /\ recentRuns' \in Seq(RunId)
BY RememberType DEF Assumptions, RunIdAssumption, TypeOK, endRebalanceRun

LEMMA CatchType ==
    ASSUME Assumptions, TypeOK, NEW c \in Call, NEW status \in Outcomes, Catch(c, status)
    PROVE  CallTypes'
<1>1. activeRunId' \in RunId \union {NoRun} /\ recentRuns' \in Seq(RunId)
  BY EndType DEF Catch
<1>2. pc' \in [Call -> Pcs] /\ outcome' \in [Call -> Outcomes]
  BY DEF Catch, Return, TypeOK, Pcs
<1>3. endpoint' \in [Call -> 1..RpcEndpoints]
  BY DEF Catch, Return, TypeOK, Assumptions, LimitAssumption
<1>4. /\ usdcBefore' \in [Call -> Nat] /\ minOut' \in [Call -> Nat]
      /\ supplyOut' \in [Call -> Nat]
  BY DEF Catch, Return, TypeOK
<1>5. metrics' \in [Counters -> Nat]
  BY CountType DEF Catch, Counters
<1>6. QED
  BY <1>1, <1>2, <1>3, <1>4, <1>5 DEF CallTypes

LEMMA ProceedType ==
    ASSUME Assumptions, TypeOK, NEW c \in Call, NEW step \in Pcs, Proceed(c, step)
    PROVE  CallTypes'
BY DEF Proceed, Advance, CallTypes, TypeOK, locals, lockVars, Assumptions, LimitAssumption

(* What RpcFallback leaves typed, whichever way the report sends the call. *)
LEMMA FallbackType ==
    ASSUME Assumptions, TypeOK, NEW c \in Call, NEW report \in Reports,
           NEW step \in Pcs, NEW failure \in Pcs,
           \/ RpcFallback(c, report, Proceed(c, step), Catch(c, "failed"))
           \/ RpcFallback(c, report, Proceed(c, step), Proceed(c, failure))
           \/ RpcFallback(c, report, FALSE, Catch(c, "failed"))
    PROVE  CallTypes'
<1>1. CASE Proceed(c, step)
  BY <1>1, ProceedType
<1>2. CASE Proceed(c, failure)
  BY <1>2, ProceedType
<1>3. CASE Catch(c, "failed")
  BY <1>3, CatchType DEF Outcomes
<1>4. CASE /\ endpoint[c] < RpcEndpoints
           /\ endpoint' = [endpoint EXCEPT ![c] = @ + 1]
           /\ UNCHANGED <<pc, outcome, locals, metrics, lockVars>>
  BY <1>4 DEF CallTypes, TypeOK, locals, lockVars, Assumptions, LimitAssumption
<1>5. QED
  BY <1>1, <1>2, <1>3, <1>4 DEF RpcFallback

(* The history flag is a Boolean after every step. *)
LEMMA MisreportedType ==
    ASSUME TypeOK, [Next]_vars  PROVE misreported' \in BOOLEAN
<1>1. misreported \in BOOLEAN
  BY DEF TypeOK
<1>2. CASE UNCHANGED misreported
  BY <1>1, <1>2
<1>3. ASSUME NEW c \in Call, CallStep(c)
      PROVE  misreported' \in BOOLEAN
  BY <1>1, <1>3, Zenon DEF CallStep, ReadBefore, Withdraw, QuoteAndGuards, Swap, Rollback,
     RollbackAlerted, ReadAfter, Supply, Reconcile, NoteReport
<1>4. QED
  BY <1>2, <1>3 DEF Next, vars, Begin, SupplyUsdtCollateral, Restart, Tick

LEMMA CallTypesStep ==
    ASSUME Assumptions, TypeOK, [Next]_vars  PROVE CallTypes'
<1>1. ASSUME NEW c \in Call, Begin(c)
      PROVE  CallTypes'
  <2>1. metrics' \in [Counters -> Nat]
    BY <1>1, CountType DEF Begin, TypeOK, Counters
  <2>2. pc' \in [Call -> Pcs] /\ outcome' \in [Call -> Outcomes]
    BY <1>1 DEF Begin, TypeOK, Pcs, InFlightPc, Outcomes
  <2>3. activeRunId' \in RunId \union {NoRun}
    BY <1>1 DEF Begin, TypeOK, Assumptions, RunIdAssumption
  <2>4. QED
    BY <1>1, <2>1, <2>2, <2>3 DEF Begin, CallTypes, TypeOK, locals
<1>2. ASSUME NEW c \in Call, ReadBefore(c)
      PROVE  CallTypes'
  <2>1. CASE Catch(c, "failed")
    BY <2>1, CatchType DEF Outcomes
  <2>2. CASE /\ usdcBefore' = [usdcBefore EXCEPT ![c] = walletUsdc]
             /\ Advance(c, "withdraw")
             /\ UNCHANGED <<minOut, supplyOut, metrics>>
    BY <2>2 DEF Advance, CallTypes, TypeOK, Pcs, InFlightPc, Transactions, lockVars,
       Assumptions, LimitAssumption
  <2>3. QED
    BY <1>2, <2>1, <2>2 DEF ReadBefore
<1>3. ASSUME NEW c \in Call, Withdraw(c)
      PROVE  CallTypes'
  <2>1. \E report \in Reports :
           RpcFallback(c, report, Proceed(c, "quote"), Catch(c, "failed"))
    BY <1>3 DEF Withdraw
  <2>2. QED
    BY <2>1, FallbackType DEF Pcs, InFlightPc
<1>4. ASSUME NEW c \in Call, QuoteAndGuards(c)
      PROVE  CallTypes'
  <2>1. CASE Catch(c, "failed")
    BY <2>1, CatchType DEF Outcomes
  <2>2. ASSUME NEW least \in MinOuts, minOut' = [minOut EXCEPT ![c] = least],
               Advance(c, "swap"), UNCHANGED <<usdcBefore, supplyOut, metrics>>
        PROVE  CallTypes'
    <3>1. least \in Nat
      BY DEF Assumptions, AmountAssumption
    <3>2. QED
      BY <2>2, <3>1 DEF Advance, CallTypes, TypeOK, Pcs, InFlightPc, Transactions, lockVars,
         Assumptions, LimitAssumption
  <2>3. QED
    BY <1>4, <2>1, <2>2 DEF QuoteAndGuards
<1>5. ASSUME NEW c \in Call, Swap(c)
      PROVE  CallTypes'
  <2>1. \E report \in Reports :
           RpcFallback(c, report, Proceed(c, "balance"), Proceed(c, "rollback"))
    BY <1>5 DEF Swap
  <2>2. QED
    BY <2>1, FallbackType DEF Pcs, InFlightPc, Transactions
<1>6. ASSUME NEW c \in Call, Rollback(c)
      PROVE  CallTypes'
  <2>1. CASE /\ metrics' = [metrics EXCEPT !["rollback"] = @ + 1]
             /\ Advance(c, "alert")
             /\ UNCHANGED locals
    <3>1. metrics' \in [Counters -> Nat]
      BY <2>1, CountType DEF Counters
    <3>2. pc' \in [Call -> Pcs] /\ endpoint' \in [Call -> 1..RpcEndpoints]
      BY <2>1 DEF Advance, TypeOK, Pcs, InFlightPc, Assumptions, LimitAssumption
    <3>3. QED
      BY <2>1, <3>1, <3>2 DEF Advance, CallTypes, TypeOK, locals, lockVars
  <2>2. ASSUME NEW report \in Reports, RpcFallback(c, report, FALSE, Catch(c, "failed"))
        PROVE  CallTypes'
    BY <2>2, FallbackType DEF Pcs
  <2>3. QED
    BY <1>6, <2>1, <2>2 DEF Rollback, RollbackError
<1>7. ASSUME NEW c \in Call, RollbackAlerted(c)
      PROVE  CallTypes'
  BY <1>7, CatchType DEF RollbackAlerted, Outcomes
<1>8. ASSUME NEW c \in Call, ReadAfter(c)
      PROVE  CallTypes'
  <2>1. CASE Catch(c, "failed")
    BY <2>1, CatchType DEF Outcomes
  <2>2. CASE ~Catch(c, "failed")
    <3> DEFINE out == IF walletUsdc > usdcBefore[c] THEN walletUsdc - usdcBefore[c]
                                                    ELSE minOut[c]
    <3>1. supplyOut' = [supplyOut EXCEPT ![c] = out] /\ Advance(c, "supply")
          /\ UNCHANGED <<usdcBefore, minOut, metrics>>
      BY <1>8, <2>2 DEF ReadAfter, Delivered
    <3>2. out \in Nat
      BY DEF TypeOK
    <3>3. QED
      BY <3>1, <3>2 DEF Advance, CallTypes, TypeOK, Pcs, InFlightPc, Transactions, lockVars,
         Assumptions, LimitAssumption
  <2>3. QED
    BY <2>1, <2>2
<1>9. ASSUME NEW c \in Call, Supply(c)
      PROVE  CallTypes'
  <2>1. \E report \in Reports :
           RpcFallback(c, report, Proceed(c, "reconcile"), Catch(c, "failed"))
    BY <1>9 DEF Supply
  <2>2. QED
    BY <2>1, FallbackType DEF Pcs, InFlightPc
<1>10. ASSUME NEW c \in Call, Reconcile(c)
       PROVE  CallTypes'
  <2>1. activeRunId' \in RunId \union {NoRun} /\ recentRuns' \in Seq(RunId)
    BY <1>10, EndType DEF Reconcile
  <2>2. \E status \in Outcomes : Return(c, status)
    BY <1>10 DEF Reconcile, Outcomes
  <2>3. metrics' \in [Counters -> Nat]
    <3>1. PICK reconciled \in BOOLEAN :
             metrics' = [metrics EXCEPT !["success"] = @ + 1,
                                        !["warning"] = IF reconciled THEN @ ELSE @ + 1]
      BY <1>10 DEF Reconcile
    <3>2. \A m \in Counters : metrics[m] \in Nat /\ metrics[m] + 1 \in Nat
      BY DEF TypeOK
    <3>3. QED
      BY <3>1, <3>2 DEF Counters, TypeOK
  <2>4. QED
    BY <2>1, <2>2, <2>3 DEF Return, CallTypes, TypeOK, Pcs, Assumptions, LimitAssumption
<1>11. CASE Restart
  BY <1>11 DEF Restart, CallTypes, TypeOK, Pcs, Outcomes, Assumptions, LimitAssumption
<1>12. CASE UNCHANGED <<callVars, lockVars, metrics>>
  BY <1>12 DEF callVars, locals, lockVars, CallTypes, TypeOK
<1>13. QED
  BY <1>1, <1>2, <1>3, <1>4, <1>5, <1>6, <1>7, <1>8, <1>9, <1>10, <1>11, <1>12
     DEF Next, CallStep, SupplyUsdtCollateral, Tick, vars

(* Steps that touch the guard state, the balances and the clock. *)
LEMMA GuardTypesStep ==
    ASSUME Assumptions, TypeOK, [Next]_vars  PROVE GuardTypes'
<1>1. ASSUME NEW c \in Call, QuoteAndGuards(c)
      PROVE  GuardTypes'
  BY <1>1 DEF QuoteAndGuards, GuardTypes, TypeOK, guardVars
<1>2. ASSUME NEW c \in Call, Reconcile(c)
      PROVE  GuardTypes'
  BY <1>2 DEF Reconcile, GuardTypes, TypeOK
<1>3. CASE Restart
  BY <1>3 DEF Restart, GuardTypes
<1>4. CASE UNCHANGED guardVars
  BY <1>4 DEF guardVars, GuardTypes, TypeOK
<1>5. QED
  BY <1>1, <1>2, <1>3, <1>4
     DEF Next, CallStep, Begin, ReadBefore, Withdraw, Swap, Rollback, RollbackAlerted, ReadAfter,
         Supply, SupplyUsdtCollateral, Tick, vars

LEMMA LedgerTypesStep ==
    ASSUME Assumptions, TypeOK, [Next]_vars  PROVE LedgerTypes'
<1> USE DEF LedgerTypes
<1>1. /\ burrowUsdt \in Nat /\ walletUsdt \in Nat /\ walletUsdc \in Nat /\ burrowUsdc \in Nat
      /\ minOut \in [Call -> Nat] /\ supplyOut \in [Call -> Nat]
  BY DEF TypeOK
<1>2. /\ MaxOut \in Nat /\ Amounts \subseteq Nat
      /\ \A c \in Call : AmountOf[c] \in Nat
  BY DEF Assumptions, AmountAssumption
<1>3. ASSUME NEW c \in Call, Withdraw(c)
      PROVE  LedgerTypes'
  BY <1>1, <1>2, <1>3 DEF Withdraw
<1>4. ASSUME NEW c \in Call, Swap(c)
      PROVE  LedgerTypes'
  BY <1>1, <1>2, <1>4 DEF Swap
<1>5. ASSUME NEW c \in Call, Rollback(c)
      PROVE  LedgerTypes'
  BY <1>1, <1>2, <1>5 DEF Rollback
<1>6. ASSUME NEW c \in Call, Supply(c)
      PROVE  LedgerTypes'
  <2>1. supplyOut[c] \in Nat
    BY <1>1
  <2>2. QED
    BY <1>1, <1>6, <2>1 DEF Supply
<1>7. ASSUME NEW a \in Amounts, SupplyUsdtCollateral(a)
      PROVE  LedgerTypes'
  BY <1>1, <1>2, <1>7 DEF SupplyUsdtCollateral
<1>8. CASE UNCHANGED ledger
  BY <1>1, <1>8 DEF ledger
<1>9. QED
  BY <1>3, <1>4, <1>5, <1>6, <1>7, <1>8
     DEF Next, CallStep, Begin, ReadBefore, QuoteAndGuards, RollbackAlerted, ReadAfter,
         Reconcile, Restart, Tick, vars

LEMMA BookTypesStep ==
    ASSUME Assumptions, TypeOK, [Next]_vars  PROVE BookTypes'
<1>1. /\ promised \in Nat /\ refunded \in Nat /\ minOut \in [Call -> Nat]
      /\ \A c \in Call : AmountOf[c] \in Nat
  BY DEF TypeOK, Assumptions, AmountAssumption
<1>2. ASSUME NEW c \in Call, Rollback(c)
      PROVE  BookTypes'
  BY <1>1, <1>2 DEF Rollback, BookTypes
<1>3. ASSUME NEW c \in Call, Reconcile(c)
      PROVE  BookTypes'
  <2>1. promised' \in {promised, promised + minOut[c]} /\ refunded' = refunded
    BY <1>3 DEF Reconcile
  <2>2. QED
    BY <1>1, <2>1 DEF BookTypes
<1>4. CASE UNCHANGED books
  BY <1>1, <1>4 DEF books, BookTypes
<1>5. QED
  BY <1>2, <1>3, <1>4
     DEF Next, CallStep, Begin, ReadBefore, Withdraw, QuoteAndGuards, Swap, RollbackAlerted,
         ReadAfter, Supply, SupplyUsdtCollateral, Restart, Tick, vars

LEMMA OtherTypesStep ==
    ASSUME TypeOK, [Next]_vars  PROVE OtherTypes'
<1>1. CASE Restart
  BY <1>1 DEF Restart, OtherTypes, TypeOK
<1>2. CASE Tick
  BY <1>2 DEF Tick, OtherTypes, TypeOK
<1>3. CASE UNCHANGED env
  BY <1>3 DEF env, OtherTypes, TypeOK
<1>4. QED
  BY <1>1, <1>2, <1>3
     DEF Next, CallStep, Begin, ReadBefore, Withdraw, QuoteAndGuards, Swap, Rollback,
         RollbackAlerted, ReadAfter, Supply, Reconcile, SupplyUsdtCollateral, vars

LEMMA StepType ==
    ASSUME Assumptions, TypeOK, [Next]_vars  PROVE TypeOK'
<1>1. /\ CallTypes' /\ GuardTypes' /\ LedgerTypes' /\ OtherTypes' /\ BookTypes'
      /\ misreported' \in BOOLEAN
  BY CallTypesStep, GuardTypesStep, LedgerTypesStep, OtherTypesStep, BookTypesStep,
     MisreportedType
<1>2. QED
  BY <1>1, Zenon DEF TypeOK, CallTypes, GuardTypes, LedgerTypes, OtherTypes, BookTypes

(* The state keeps its types, whatever is called, reported or restarted. *)
THEOREM TypeCorrect == Spec => []TypeOK
<1>1. Init => TypeOK
  BY AssumptionsHold, InitType
<1>2. TypeOK /\ [Next]_vars => TypeOK'
  BY AssumptionsHold, StepType
<1>3. QED
  BY <1>1, <1>2, PTL DEF Spec

-----------------------------------------------------------------------------
(* The lock. *)

(* How a step of a call moves it: within the run, with the lock untouched, *)
(* or out of the run through endRebalanceRun.                              *)
Moves(c) ==
    /\ \E step \in InFlightPc : pc' = [pc EXCEPT ![c] = step]
    /\ UNCHANGED lockVars

Leaves(c) ==
    /\ pc' = [pc EXCEPT ![c] = "done"]
    /\ endRebalanceRun(IdOf[c])

LEMMA CallStepShape ==
    ASSUME TypeOK, NEW c \in Call, CallStep(c)
    PROVE  c \in InFlight /\ (Moves(c) \/ Leaves(c))
<1>1. c \in InFlight
  BY DEF CallStep, ReadBefore, Withdraw, QuoteAndGuards, Swap, Rollback, RollbackAlerted,
     ReadAfter, Supply, Reconcile, InFlight, InFlightPc, Transactions
<1>2. ASSUME NEW status, Catch(c, status)
      PROVE  Leaves(c)
  BY <1>2 DEF Catch, Return, Leaves
<1>3. ASSUME NEW step \in InFlightPc, Advance(c, step) \/ Proceed(c, step)
      PROVE  Moves(c)
  BY <1>3 DEF Proceed, Advance, Moves
<1>4. ASSUME UNCHANGED <<pc, lockVars>>
      PROVE  Moves(c)
  <2>1. pc' = [pc EXCEPT ![c] = pc[c]]
    BY <1>4 DEF TypeOK
  <2>2. pc[c] \in InFlightPc
    BY <1>1 DEF InFlight
  <2>3. UNCHANGED lockVars
    BY <1>4
  <2>4. QED
    BY <2>1, <2>2, <2>3, Zenon DEF Moves
<1>5. ASSUME ReadBefore(c) \/ ReadAfter(c) \/ QuoteAndGuards(c) \/ RollbackAlerted(c)
      PROVE  Moves(c) \/ Leaves(c)
  <2>1. \/ Advance(c, "withdraw") \/ Advance(c, "supply") \/ Advance(c, "swap")
        \/ \E status \in Outcomes : Catch(c, status)
    BY <1>5 DEF ReadBefore, ReadAfter, QuoteAndGuards, RollbackAlerted, Outcomes
  <2>2. QED
    BY <1>2, <1>3, <2>1 DEF InFlightPc, Transactions
<1>6. ASSUME Withdraw(c) \/ Swap(c) \/ Supply(c) \/ Rollback(c)
      PROVE  Moves(c) \/ Leaves(c)
  <2>1. \/ Proceed(c, "quote") \/ Proceed(c, "balance") \/ Proceed(c, "rollback")
        \/ Proceed(c, "reconcile") \/ Advance(c, "alert") \/ Catch(c, "failed")
        \/ UNCHANGED <<pc, lockVars>>
    BY <1>6 DEF Withdraw, Swap, Supply, Rollback, RollbackError, RpcFallback
  <2>2. QED
    BY <1>2, <1>3, <1>4, <2>1 DEF InFlightPc, Transactions
<1>7. ASSUME Reconcile(c)
      PROVE  Leaves(c)
  <2>1. endRebalanceRun(IdOf[c]) /\ \E status \in Outcomes : Return(c, status)
    BY <1>7 DEF Reconcile, Outcomes
  <2>2. QED
    BY <2>1 DEF Return, Leaves
<1>8. QED
  BY <1>1, <1>5, <1>6, <1>7 DEF CallStep

(* What each way does to the lock invariant. *)
LEMMA MovesKeepsLock ==
    ASSUME TypeOK, LockInv, NEW c \in InFlight, Moves(c)
    PROVE  LockInv'
<1>1. InFlight' = InFlight
  BY DEF Moves, InFlight, InFlightPc, Transactions, TypeOK
<1>2. QED
  BY <1>1 DEF Moves, LockInv, OneRebalanceInFlight, lockVars

LEMMA LeavesKeepsLock ==
    ASSUME TypeOK, LockInv, NEW c \in InFlight, Leaves(c)
    PROVE  InFlight' = {} /\ LockInv'
<1>1. InFlight = {c}
  BY DEF LockInv, OneRebalanceInFlight
<1>2. \A d \in Call : d # c => pc'[d] = pc[d]
  BY DEF Leaves, TypeOK
<1>3. pc'[c] = "done"
  BY DEF Leaves, TypeOK, InFlight
<1>4. InFlight' = {}
  BY <1>1, <1>2, <1>3 DEF InFlight, InFlightPc, Transactions
<1>5. QED
  BY <1>4 DEF LockInv, OneRebalanceInFlight

LEMMA LockStep ==
    ASSUME CallersSerialise, TypeOK, LockInv, [Next]_vars
    PROVE  LockInv'
<1>1. ASSUME NEW c \in Call, Begin(c)
      PROVE  LockInv'
  <2>1. CASE Refused(IdOf[c])
    <3>1. pc' = [pc EXCEPT ![c] = "done"] /\ pc[c] = "idle" /\ UNCHANGED activeRunId
      BY <1>1, <2>1 DEF Begin
    <3>2. InFlight' = InFlight
      BY <3>1 DEF InFlight, InFlightPc, Transactions, TypeOK
    <3>3. QED
      BY <3>1, <3>2 DEF LockInv, OneRebalanceInFlight
  <2>2. CASE ~Refused(IdOf[c])
    <3>1. activeRunId = NoRun \/ activeRunId = IdOf[c]
      BY <2>2 DEF Refused
    <3>2. InFlight = {}
      BY <1>1, <3>1, RunIdAssumption DEF Begin, LockInv, InFlight
    <3>3. pc' = [pc EXCEPT ![c] = "begun"] /\ activeRunId' = IdOf[c]
      BY <1>1, <2>2 DEF Begin
    <3>4. InFlight' = {c}
      BY <3>2, <3>3 DEF InFlight, InFlightPc, Transactions, TypeOK
    <3>5. QED
      BY <3>3, <3>4 DEF LockInv, OneRebalanceInFlight
  <2>3. QED
    BY <2>1, <2>2
<1>2. ASSUME NEW c \in Call, CallStep(c)
      PROVE  LockInv'
  BY <1>2, CallStepShape, MovesKeepsLock, LeavesKeepsLock
<1>3. CASE Restart
  <2>1. InFlight' = {}
    BY <1>3 DEF Restart, InFlight, InFlightPc, Transactions, TypeOK
  <2>2. QED
    BY <2>1 DEF LockInv, OneRebalanceInFlight
<1>4. CASE UNCHANGED <<callVars, lockVars>>
  BY <1>4 DEF callVars, lockVars, LockInv, OneRebalanceInFlight, InFlight
<1>5. QED
  BY <1>1, <1>2, <1>3, <1>4 DEF Next, SupplyUsdtCollateral, Tick, vars

(* Two rebalances are never in flight together, if no caller reuses a run  *)
(* id before its answer came: the lock alone does not refuse a second call *)
(* with the id that holds it.                                              *)
THEOREM MutualExclusion ==
    ASSUME CallersSerialise
    PROVE  Spec => []OneRebalanceInFlight
<1>1. Init => LockInv
  BY DEF Init, LockInv, OneRebalanceInFlight, InFlight, InFlightPc, Transactions
<1>2. TypeOK /\ LockInv /\ [Next]_vars => LockInv'
  BY LockStep
<1>3. LockInv => OneRebalanceInFlight
  BY DEF LockInv
<1>4. QED
  BY <1>1, <1>2, <1>3, TypeCorrect, PTL DEF Spec

-----------------------------------------------------------------------------
(* The limits. *)

(* Steps of a call that neither test nor count leave the guard state and   *)
(* the clock alone, and do not pass the guards.                            *)
LEMMA PlainStep ==
    ASSUME TypeOK, NEW c \in Call,
           CallStep(c), ~QuoteAndGuards(c), ~Reconcile(c)
    PROVE  /\ UNCHANGED <<guardVars, env>>
           /\ \A d \in Call : pc'[d] \in PastGuards => pc[d] \in PastGuards
<1>1. UNCHANGED <<guardVars, env>>
  BY DEF CallStep, ReadBefore, Withdraw, Swap, Rollback, RollbackAlerted, ReadAfter, Supply
<1>2. \A d \in Call : d # c => pc'[d] = pc[d]
  <2>1. Moves(c) \/ Leaves(c)
    BY CallStepShape
  <2>2. QED
    BY <2>1 DEF Moves, Leaves, TypeOK
<1>3. CASE pc[c] \in PastGuards
  BY <1>1, <1>2, <1>3
<1>4. CASE pc[c] \notin PastGuards
  <2>1. ReadBefore(c) \/ Withdraw(c)
    BY <1>4 DEF CallStep, Swap, Rollback, RollbackAlerted, ReadAfter, Supply, PastGuards
  <2>2. \/ pc' = [pc EXCEPT ![c] = "withdraw"] \/ pc' = [pc EXCEPT ![c] = "quote"]
        \/ pc' = [pc EXCEPT ![c] = "done"] \/ UNCHANGED pc
    BY <2>1 DEF ReadBefore, Withdraw, RpcFallback, Proceed, Advance, Catch, Return
  <2>3. QED
    BY <1>1, <1>2, <1>4, <2>2 DEF PastGuards, TypeOK
<1>5. QED
  BY <1>3, <1>4

LEMMA LimitStep ==
    ASSUME TypeOK, LockInv, LimitInv, [Next]_vars
    PROVE  LimitInv'
<1> USE DEF LimitInv, DailyCapKept, DailyOk, CooldownOk
<1>1. /\ DailyMax \in Nat \ {0} /\ Cooldown \in Nat \ {0}
      /\ now \in Nat /\ today \in Nat /\ lastExecutedAt \in Nat /\ dailyCount \in Nat
      /\ dailyWindowDay \in Nat \union {-1}
  BY LimitAssumption DEF TypeOK, LimitAssumption
<1>2. PastGuards \subseteq InFlightPc
  BY DEF PastGuards, InFlightPc, Transactions
<1>3. ASSUME NEW c \in Call, Begin(c)
      PROVE  LimitInv'
  <2>1. \A d \in Call : pc'[d] \in PastGuards => pc[d] \in PastGuards
    BY <1>3 DEF Begin, PastGuards, TypeOK
  <2>2. UNCHANGED <<guardVars, env>>
    BY <1>3 DEF Begin
  <2>3. QED
    BY <2>1, <2>2 DEF guardVars, env
<1>4. ASSUME NEW c \in Call, QuoteAndGuards(c)
      PROVE  LimitInv'
  <2>1. InFlight = {c}
    BY <1>4 DEF QuoteAndGuards, InFlight, InFlightPc, LockInv, OneRebalanceInFlight
  <2>2. \A d \in Call : d # c => pc[d] \notin PastGuards /\ pc'[d] \notin PastGuards
    <3>1. Moves(c) \/ Leaves(c)
      BY <1>4, CallStepShape DEF CallStep
    <3>2. \A d \in Call : d # c => pc'[d] = pc[d]
      BY <3>1 DEF Moves, Leaves, TypeOK
    <3>3. QED
      BY <1>2, <2>1, <3>2 DEF InFlight
  <2>3. UNCHANGED <<lastExecutedAt, now, today>>
    BY <1>4 DEF QuoteAndGuards, guardVars, env
  <2>4. CASE Catch(c, "failed")
    <3>1. pc'[c] = "done"
      BY <2>4, <2>1 DEF Catch, Return, TypeOK, InFlight
    <3>2. dailyWindowDay' \in {dailyWindowDay, today} /\ dailyCount' \in {dailyCount, 0}
      BY <1>4 DEF QuoteAndGuards, guardVars
    <3>3. QED
      BY <1>1, <2>2, <2>3, <3>1, <3>2 DEF PastGuards
  <2>5. CASE ~Catch(c, "failed")
    <3>1. /\ dailyWindowDay' = today
          /\ dailyCount' = IF dailyWindowDay = today THEN dailyCount ELSE 0
          /\ DailyOk /\ CooldownOk
      BY <1>4, <2>5 DEF QuoteAndGuards
    <3>2. QED
      BY <1>1, <2>3, <3>1
  <2>6. QED
    BY <2>4, <2>5
<1>5. ASSUME NEW c \in Call, Reconcile(c)
      PROVE  LimitInv'
  <2>1. InFlight' = {}
    BY <1>5, CallStepShape, LeavesKeepsLock DEF CallStep, Reconcile, Return, Leaves
  <2>2. pc[c] \in PastGuards
    BY <1>5 DEF Reconcile, PastGuards
  <2>3. /\ lastExecutedAt' = now /\ now' = now /\ today' = today /\ dailyWindowDay' = today
        /\ dailyCount' = IF dailyWindowDay = today THEN dailyCount + 1 ELSE 1
    BY <1>5 DEF Reconcile, env
  <2>4. QED
    BY <1>1, <1>2, <2>1, <2>2, <2>3 DEF InFlight
<1>6. ASSUME NEW c \in Call, CallStep(c), ~QuoteAndGuards(c), ~Reconcile(c)
      PROVE  LimitInv'
  BY <1>6, PlainStep DEF guardVars, env
<1>7. CASE Restart
  <2>1. \A c \in Call : pc'[c] \notin PastGuards
    BY <1>2, <1>7 DEF Restart, InFlight, PastGuards, TypeOK, Pcs
  <2>2. QED
    BY <1>1, <1>7, <2>1 DEF Restart
<1>8. CASE Tick
  <2>1. UNCHANGED <<pc, guardVars>> /\ now' = now + 1 /\ today' \in {today, today + 1}
    BY <1>8 DEF Tick, callVars
  <2>2. QED
    BY <1>1, <2>1 DEF guardVars
<1>9. CASE UNCHANGED <<callVars, guardVars, env>>
  BY <1>9 DEF callVars, guardVars, env
<1>10. QED
  BY <1>3, <1>4, <1>5, <1>6, <1>7, <1>8, <1>9 DEF Next, SupplyUsdtCollateral, vars

LEMMA InitLimits == Init => LimitInv
BY LimitAssumption DEF Init, LimitInv, DailyCapKept, PastGuards, LimitAssumption

LEMMA Limits ==
    ASSUME CallersSerialise
    PROVE  Spec => [](TypeOK /\ LockInv /\ LimitInv)
<1>1. Init => LockInv
  BY DEF Init, LockInv, OneRebalanceInFlight, InFlight, InFlightPc, Transactions
<1>2. TypeOK /\ LockInv /\ LimitInv /\ [Next]_vars => LockInv' /\ LimitInv'
  BY LockStep, LimitStep
<1>3. QED
  BY <1>1, <1>2, InitLimits, TypeCorrect, PTL DEF Spec

(* No day sees more than DailyMax executions, although a run is counted    *)
(* only awaits after the guard let it pass.                                *)
THEOREM DailyCap ==
    ASSUME CallersSerialise
    PROVE  Spec => []DailyCapKept
<1>1. LimitInv => DailyCapKept
  BY DEF LimitInv
<1>2. QED
  BY <1>1, Limits, PTL

(* Executions are Cooldown apart: no other run can move lastExecutedAt     *)
(* between the test of a run and its end.                                  *)
THEOREM CooldownRespected ==
    ASSUME CallersSerialise
    PROVE  Spec => CooldownKept
<1>1. TypeOK /\ LimitInv /\ [Next]_vars
      => [(lastExecutedAt > 0 /\ lastExecutedAt' > 0 /\ lastExecutedAt' # lastExecutedAt)
          => lastExecutedAt' - lastExecutedAt >= Cooldown]_lastExecutedAt
  <2> SUFFICES ASSUME TypeOK, LimitInv, [Next]_vars, lastExecutedAt > 0, lastExecutedAt' > 0,
                      lastExecutedAt' # lastExecutedAt
               PROVE  lastExecutedAt' - lastExecutedAt >= Cooldown
    OBVIOUS
  <2>1. ~Restart
    BY DEF Restart
  <2>2. PICK c \in Call : Reconcile(c)
    BY <2>1 DEF Next, CallStep, Begin, ReadBefore, Withdraw, QuoteAndGuards, Swap, Rollback,
       RollbackAlerted, ReadAfter, Supply, SupplyUsdtCollateral, Tick, vars, guardVars
  <2>3. CooldownOk /\ lastExecutedAt' = now
    BY <2>2 DEF Reconcile, LimitInv, PastGuards
  <2>4. QED
    BY <2>3 DEF CooldownOk
<1>2. QED
  BY <1>1, Limits, PTL DEF CooldownKept, Spec

-----------------------------------------------------------------------------
(* The metrics. *)

Alerting == {c \in InFlight : pc[c] = "alert"}

(* Sets of calls in flight are counted: they are finite. *)
CountInv == IsFiniteSet(InFlight) /\ MetricsAddUp

(* What a step of a call does to the counters: nothing, a rollback whose   *)
(* alert is under way, a failure, or a success.                            *)
Uncounted == UNCHANGED <<InFlight, Alerting, metrics>>
RolledBack(c) ==
    /\ InFlight' = InFlight /\ c \notin Alerting /\ Alerting' = Alerting \union {c}
    /\ metrics' = [metrics EXCEPT !["rollback"] = @ + 1]
Failed(c) ==
    /\ InFlight' = InFlight \ {c} /\ Alerting' = Alerting \ {c}
    /\ metrics' = [metrics EXCEPT !["failed"] = @ + 1]
Succeeded(c, warnings) ==
    /\ InFlight' = InFlight \ {c} /\ Alerting' = Alerting
    /\ metrics' = [metrics EXCEPT !["success"] = @ + 1, !["warning"] = @ + warnings]

(* A call that moves within the run, into the alert or elsewhere. *)
LEMMA AdvanceCounts ==
    ASSUME TypeOK, NEW c \in InFlight, NEW step \in InFlightPc, Advance(c, step)
    PROVE  /\ InFlight' = InFlight
           /\ Alerting' = IF step = "alert" THEN Alerting \union {c} ELSE Alerting \ {c}
BY DEF Advance, TypeOK, InFlight, InFlightPc, Transactions, Alerting

LEMMA CatchCounts ==
    ASSUME TypeOK, NEW c \in InFlight, NEW status, Catch(c, status)
    PROVE  Failed(c)
BY DEF Catch, Return, Failed, TypeOK, InFlight, InFlightPc, Transactions, Alerting

LEMMA ProceedCounts ==
    ASSUME TypeOK, NEW c \in InFlight \ Alerting, NEW step \in InFlightPc \ {"alert"},
           Proceed(c, step)
    PROVE  Uncounted
BY AdvanceCounts DEF Proceed, Uncounted

LEMMA FallbackCounts ==
    ASSUME TypeOK, NEW c \in InFlight \ Alerting, NEW report,
           NEW step \in InFlightPc \ {"alert"}, NEW failure \in InFlightPc \ {"alert"},
           \/ RpcFallback(c, report, Proceed(c, step), Catch(c, "failed"))
           \/ RpcFallback(c, report, Proceed(c, step), Proceed(c, failure))
           \/ RpcFallback(c, report, FALSE, Catch(c, "failed"))
    PROVE  Uncounted \/ Failed(c)
<1>1. CASE Proceed(c, step) \/ Proceed(c, failure)
  BY <1>1, ProceedCounts
<1>2. CASE Catch(c, "failed")
  BY <1>2, CatchCounts
<1>3. CASE UNCHANGED <<pc, metrics>>
  BY <1>3 DEF Uncounted, InFlight, Alerting
<1>4. QED
  BY <1>1, <1>2, <1>3 DEF RpcFallback

LEMMA CallStepCounts ==
    ASSUME TypeOK, NEW c \in Call, CallStep(c)
    PROVE  /\ c \in InFlight
           /\ Uncounted \/ RolledBack(c) \/ Failed(c) \/ \E w \in {0, 1} : Succeeded(c, w)
<1>1. c \in InFlight
  BY CallStepShape
<1>2. ASSUME pc[c] # "alert"
      PROVE  c \notin Alerting
  BY <1>2 DEF Alerting
<1>labels. {"quote", "balance", "rollback", "reconcile"} \subseteq InFlightPc \ {"alert"}
  BY DEF InFlightPc, Transactions
<1>3. CASE ReadBefore(c)
  <2>1. CASE Catch(c, "failed")
    BY <1>1, <2>1, CatchCounts
  <2>2. CASE Advance(c, "withdraw") /\ UNCHANGED metrics
    BY <1>1, <1>2, <1>3, <2>2, AdvanceCounts DEF ReadBefore, InFlightPc, Transactions, Uncounted
  <2>3. QED
    BY <1>3, <2>1, <2>2 DEF ReadBefore
<1>4. CASE Withdraw(c)
  <2>1. PICK report \in Reports :
           RpcFallback(c, report, Proceed(c, "quote"), Catch(c, "failed"))
    BY <1>4 DEF Withdraw
  <2>2. c \notin Alerting
    BY <1>2, <1>4 DEF Withdraw
  <2>3. QED
    BY <1>1, <2>1, <2>2, <1>labels, FallbackCounts
<1>5. CASE QuoteAndGuards(c)
  <2>1. CASE Catch(c, "failed")
    BY <1>1, <2>1, CatchCounts
  <2>2. CASE Advance(c, "swap") /\ UNCHANGED metrics
    BY <1>1, <1>2, <1>5, <2>2, AdvanceCounts DEF QuoteAndGuards, InFlightPc, Transactions, Uncounted
  <2>3. QED
    BY <1>5, <2>1, <2>2 DEF QuoteAndGuards
<1>6. CASE Swap(c)
  <2>1. PICK report \in Reports :
           RpcFallback(c, report, Proceed(c, "balance"), Proceed(c, "rollback"))
    BY <1>6 DEF Swap
  <2>2. c \notin Alerting
    BY <1>2, <1>6 DEF Swap
  <2>3. QED
    BY <1>1, <2>1, <2>2, <1>labels, FallbackCounts
<1>7. CASE Rollback(c)
  <2>1. c \notin Alerting
    BY <1>2, <1>7 DEF Rollback
  <2>2. CASE /\ metrics' = [metrics EXCEPT !["rollback"] = @ + 1]
             /\ Advance(c, "alert")
    BY <1>1, <2>1, <2>2, AdvanceCounts DEF InFlightPc, RolledBack
  <2>3. ASSUME NEW report \in Reports, RpcFallback(c, report, FALSE, Catch(c, "failed"))
        PROVE  Uncounted \/ Failed(c)
    BY <1>1, <2>1, <2>3, <1>labels, FallbackCounts
  <2>4. QED
    BY <1>1, <1>7, <2>2, <2>3 DEF Rollback, RollbackError
<1>8. CASE RollbackAlerted(c)
  BY <1>1, <1>8, CatchCounts DEF RollbackAlerted
<1>9. CASE ReadAfter(c)
  <2>1. CASE Catch(c, "failed")
    BY <1>1, <2>1, CatchCounts
  <2>2. CASE Advance(c, "supply") /\ UNCHANGED metrics
    BY <1>1, <1>2, <1>9, <2>2, AdvanceCounts DEF ReadAfter, InFlightPc, Transactions, Uncounted
  <2>3. QED
    BY <1>9, <2>1, <2>2 DEF ReadAfter
<1>10. CASE Supply(c)
  <2>1. PICK report \in Reports :
           RpcFallback(c, report, Proceed(c, "reconcile"), Catch(c, "failed"))
    BY <1>10 DEF Supply
  <2>2. c \notin Alerting
    BY <1>2, <1>10 DEF Supply
  <2>3. QED
    BY <1>1, <2>1, <2>2, <1>labels, FallbackCounts
<1>11. CASE Reconcile(c)
  <2>1. pc' = [pc EXCEPT ![c] = "done"] /\ pc[c] = "reconcile"
    BY <1>11 DEF Reconcile, Return
  <2>2. InFlight' = InFlight \ {c} /\ Alerting' = Alerting
    BY <2>1 DEF TypeOK, InFlight, InFlightPc, Transactions, Alerting
  <2>3. PICK reconciled \in BOOLEAN :
           metrics' = [metrics EXCEPT !["success"] = @ + 1,
                                      !["warning"] = IF reconciled THEN @ ELSE @ + 1]
    BY <1>11 DEF Reconcile
  <2>4. metrics["warning"] + 0 = metrics["warning"]
    BY DEF TypeOK, Counters
  <2>5. \E w \in {0, 1} : metrics' = [metrics EXCEPT !["success"] = @ + 1, !["warning"] = @ + w]
    BY <2>3, <2>4
  <2>6. QED
    BY <1>1, <2>2, <2>5 DEF Succeeded
<1>12. QED
  BY <1>3, <1>4, <1>5, <1>6, <1>7, <1>8, <1>9, <1>10, <1>11 DEF CallStep

(* MetricsAddUp of the counters m, with so many calls in flight and so     *)
(* many of them sending their alert.                                       *)
AddUp(m, running, alerting) ==
    /\ m["total"] = m["success"] + m["failed"] + running
    /\ m["rollback"] <= m["failed"] + alerting
    /\ m["warning"] <= m["success"]

LEMMA AddUpSteps ==
    ASSUME NEW m \in [Counters -> Nat], NEW running \in Nat, NEW alerting \in Nat,
           AddUp(m, running, alerting)
    PROVE  /\ AddUp([m EXCEPT !["total"] = @ + 1], running + 1, alerting)
           /\ AddUp([m EXCEPT !["rollback"] = @ + 1], running, alerting + 1)
           /\ \A rest \in {alerting, alerting - 1} :
                 AddUp([m EXCEPT !["failed"] = @ + 1], running - 1, rest)
           /\ \A w \in {0, 1} :
                 AddUp([m EXCEPT !["success"] = @ + 1, !["warning"] = @ + w], running - 1, alerting)
<1> USE DEF AddUp
<1> /\ m["total"] \in Nat /\ m["success"] \in Nat /\ m["failed"] \in Nat
    /\ m["rollback"] \in Nat /\ m["warning"] \in Nat
  BY DEF Counters
<1>1. AddUp([m EXCEPT !["total"] = @ + 1], running + 1, alerting)
  BY DEF Counters
<1>2. AddUp([m EXCEPT !["rollback"] = @ + 1], running, alerting + 1)
  BY DEF Counters
<1>3. ASSUME NEW rest \in {alerting, alerting - 1}
      PROVE  AddUp([m EXCEPT !["failed"] = @ + 1], running - 1, rest)
  BY DEF Counters
<1>4. ASSUME NEW w \in {0, 1}
      PROVE  AddUp([m EXCEPT !["success"] = @ + 1, !["warning"] = @ + w], running - 1, alerting)
  BY DEF Counters
<1>5. QED
  BY <1>1, <1>2, <1>3, <1>4

LEMMA CountStep ==
    ASSUME TypeOK, CountInv, [Next]_vars
    PROVE  CountInv'
<1> DEFINE running == Cardinality(InFlight)
           alerting == Cardinality(Alerting)
<1>1. Alerting \subseteq InFlight
  BY DEF Alerting
<1>2. IsFiniteSet(InFlight) /\ IsFiniteSet(Alerting) /\ running \in Nat /\ alerting \in Nat
  BY <1>1, FS_Subset, FS_CardinalityType DEF CountInv
<1>3. metrics \in [Counters -> Nat] /\ AddUp(metrics, running, alerting)
  BY DEF TypeOK, CountInv, MetricsAddUp, Alerting, AddUp
<1>4. ASSUME IsFiniteSet(InFlight'), AddUp(metrics', Cardinality(InFlight'), Cardinality(Alerting'))
      PROVE  CountInv'
  BY <1>4 DEF CountInv, MetricsAddUp, Alerting, AddUp
<1> HIDE DEF running, alerting
<1>5. ASSUME NEW c \in Call, Begin(c)
      PROVE  CountInv'
  <2>1. CASE Refused(IdOf[c])
    <3>1. pc' = [pc EXCEPT ![c] = "done"] /\ pc[c] = "idle" /\ UNCHANGED metrics
      BY <1>5, <2>1 DEF Begin
    <3>2. InFlight' = InFlight /\ Alerting' = Alerting
      BY <3>1 DEF InFlight, InFlightPc, Transactions, TypeOK, Alerting
    <3>3. QED
      BY <1>2, <1>3, <1>4, <3>1, <3>2 DEF running, alerting
  <2>2. CASE ~Refused(IdOf[c])
    <3>1. /\ pc' = [pc EXCEPT ![c] = "begun"] /\ pc[c] = "idle"
          /\ metrics' = [metrics EXCEPT !["total"] = @ + 1]
      BY <1>5, <2>2 DEF Begin
    <3>2. InFlight' = InFlight \union {c} /\ c \notin InFlight /\ Alerting' = Alerting
      BY <3>1 DEF InFlight, InFlightPc, Transactions, TypeOK, Alerting
    <3>3. IsFiniteSet(InFlight') /\ Cardinality(InFlight') = running + 1
      BY <1>2, <3>2, FS_AddElement DEF running
    <3>4. AddUp(metrics', running + 1, alerting)
      BY <1>2, <1>3, <3>1, AddUpSteps
    <3>5. QED
      BY <1>4, <3>2, <3>3, <3>4 DEF alerting
  <2>3. QED
    BY <2>1, <2>2
<1>6. ASSUME NEW c \in Call, CallStep(c)
      PROVE  CountInv'
  <2>1. c \in InFlight
    BY <1>6, CallStepCounts
  <2>2. /\ IsFiniteSet(InFlight \ {c}) /\ Cardinality(InFlight \ {c}) = running - 1
        /\ Cardinality(Alerting \ {c}) \in {alerting, alerting - 1}
        /\ c \notin Alerting => Cardinality(Alerting \union {c}) = alerting + 1
    BY <1>2, <2>1, FS_RemoveElement, FS_AddElement DEF running, alerting
  <2>3. CASE Uncounted
    BY <1>2, <1>3, <1>4, <2>3 DEF Uncounted, running, alerting
  <2>4. CASE RolledBack(c)
    <3>1. AddUp(metrics', running, alerting + 1)
      BY <1>2, <1>3, <2>4, AddUpSteps DEF RolledBack
    <3>2. QED
      BY <1>2, <1>4, <2>2, <2>4, <3>1 DEF RolledBack, running
  <2>5. CASE Failed(c)
    <3>1. AddUp(metrics', running - 1, Cardinality(Alerting \ {c}))
      BY <1>2, <1>3, <2>2, <2>5, AddUpSteps DEF Failed
    <3>2. QED
      BY <1>4, <2>2, <2>5, <3>1 DEF Failed
  <2>6. ASSUME NEW w \in {0, 1}, Succeeded(c, w)
        PROVE  CountInv'
    <3>1. AddUp(metrics', running - 1, alerting)
      BY <1>2, <1>3, <2>6, AddUpSteps DEF Succeeded
    <3>2. QED
      BY <1>4, <2>2, <2>6, <3>1 DEF Succeeded, alerting
  <2>7. QED
    BY <1>6, <2>3, <2>4, <2>5, <2>6, CallStepCounts
<1>7. CASE Restart
  <2>1. InFlight' = {} /\ Alerting' = {}
    BY <1>7 DEF Restart, InFlight, InFlightPc, Transactions, TypeOK, Alerting
  <2>2. metrics' = [m \in Counters |-> 0]
    BY <1>7 DEF Restart
  <2>3. QED
    BY <1>4, <2>1, <2>2, FS_EmptySet DEF AddUp, Counters
<1>8. CASE UNCHANGED <<callVars, metrics>>
  <2>1. InFlight' = InFlight /\ Alerting' = Alerting /\ metrics' = metrics
    BY <1>8 DEF callVars, InFlight, Alerting
  <2>2. QED
    BY <1>2, <1>3, <1>4, <2>1 DEF running, alerting
<1>9. QED
  BY <1>5, <1>6, <1>7, <1>8 DEF Next, SupplyUsdtCollateral, Tick, vars

LEMMA InitCounts == Init => CountInv
<1> SUFFICES ASSUME Init PROVE CountInv
  OBVIOUS
<1>1. InFlight = {} /\ {c \in InFlight : pc[c] = "alert"} = {}
  BY DEF Init, InFlight, InFlightPc, Transactions
<1>2. metrics = [m \in Counters |-> 0]
  BY DEF Init
<1>3. QED
  BY <1>1, <1>2, FS_EmptySet DEF CountInv, MetricsAddUp, Counters

(* Every started run is counted once, as it ends; it holds even when       *)
(* callers do not serialise, since no counter is shared between calls.     *)
THEOREM MetricsCorrect == Spec => []MetricsAddUp
<1>1. CountInv => MetricsAddUp
  BY DEF CountInv
<1>2. TypeOK /\ CountInv /\ [Next]_vars => CountInv'
  BY CountStep
<1>3. QED
  BY <1>1, <1>2, InitCounts, TypeCorrect, PTL DEF Spec

-----------------------------------------------------------------------------
(* The saga implements the registry. *)

Ended == {recentRuns[i] : i \in 1..Len(recentRuns)}

(* recentRuns holds each key once, and no more than its cap. *)
RecentInv ==
    /\ Len(recentRuns) <= RecentCap
    /\ \A i, j \in 1..Len(recentRuns) : recentRuns[i] = recentRuns[j] => i = j

(* As many different entries as the sequence is long. *)
LEMMA EntriesCounted ==
    ASSUME NEW S, NEW s \in Seq(S), \A i, j \in 1..Len(s) : s[i] = s[j] => i = j
    PROVE  Cardinality({s[i] : i \in 1..Len(s)}) = Len(s)
<1> DEFINE T == {s[i] : i \in 1..Len(s)}
           f == [i \in 1..Len(s) |-> s[i]]
<1>1. Len(s) \in Nat
  OBVIOUS
<1>2. IsFiniteSet(1..Len(s)) /\ Cardinality(1..Len(s)) = Len(s)
  <2>1. \A n \in Nat : IsFiniteSet(1..n) /\ Cardinality(1..n) = n
    BY FS_Interval
  <2>2. QED
    BY <1>1, <2>1
<1>3. f \in [1..Len(s) -> T] /\ \A t \in T : \E i \in 1..Len(s) : f[i] = t
  OBVIOUS
<1>4. f \in Surjection(1..Len(s), T) /\ f \in Injection(1..Len(s), T)
  BY <1>3 DEF Surjection, Injection, IsInjective
<1>5. QED
  BY <1>2, <1>4, FS_Surjection

(* What remembering a run does to the set of those remembered. *)
LEMMA RememberEntries ==
    ASSUME RunIdAssumption, LimitAssumption, recentRuns \in Seq(RunId), RecentInv,
           NEW r \in RunId, recentRuns' = Remember(r)
    PROVE  /\ RecentInv'
           /\ r \in Ended' /\ Ended' \subseteq Ended \union {r}
           /\ Ended' # Ended \union {r} => Cardinality(Ended') = RecentCap
<1>1. RecentCap \in Nat \ {0} /\ Len(recentRuns) \in Nat
  BY DEF LimitAssumption
<1>2. CASE Known(r)
  <2>1. recentRuns' = recentRuns
    BY <1>1, <1>2 DEF Remember, LastEntries, RecentInv
  <2>2. QED
    BY <1>2, <2>1 DEF Known, Ended, RecentInv
<1>3. CASE ~Known(r)
  <2> DEFINE longer == Append(recentRuns, r)
  <2>1. /\ longer \in Seq(RunId) /\ Len(longer) = Len(recentRuns) + 1
        /\ \A i \in 1..Len(longer) :
              longer[i] = IF i = Len(longer) THEN r ELSE recentRuns[i]
        /\ recentRuns' = LastEntries(longer, RecentCap)
    BY <1>3 DEF Remember
  <2>2. \A i, j \in 1..Len(longer) : longer[i] = longer[j] => i = j
    BY <1>1, <1>3, <2>1 DEF Known, RecentInv
  <2>3. {longer[i] : i \in 1..Len(longer)} = Ended \union {r}
    <3>1. ASSUME NEW x \in Ended \union {r}
          PROVE  \E i \in 1..Len(longer) : longer[i] = x
      <4>1. CASE x = r
        BY <1>1, <2>1, <4>1
      <4>2. CASE x \in Ended
        <5>1. PICK i \in 1..Len(recentRuns) : recentRuns[i] = x
          BY <4>2 DEF Ended
        <5>2. i \in 1..Len(longer) /\ longer[i] = x
          BY <1>1, <2>1, <5>1
        <5>3. QED
          BY <5>2
      <4>3. QED
        BY <3>1, <4>1, <4>2
    <3>2. ASSUME NEW i \in 1..Len(longer)
          PROVE  longer[i] \in Ended \union {r}
      BY <1>1, <2>1 DEF Ended
    <3>3. QED
      BY <3>1, <3>2
  <2> HIDE DEF longer
  <2>4. CASE Len(longer) <= RecentCap
    <3>1. recentRuns' = longer
      BY <1>1, <2>1, <2>4 DEF LastEntries
    <3>2. Ended' = Ended \union {r}
      BY <2>3, <3>1 DEF Ended
    <3>3. RecentInv'
      BY <2>2, <2>4, <3>1 DEF RecentInv
    <3>4. QED
      BY <3>2, <3>3
  <2>5. CASE Len(longer) > RecentCap
    <3>1. Len(longer) = RecentCap + 1
      BY <1>1, <2>1, <2>5 DEF RecentInv
    <3>2. recentRuns' = SubSeq(longer, 2, RecentCap + 1)
      <4>1. Len(longer) - RecentCap + 1 = 2
        BY <1>1, <3>1
      <4>2. QED
        BY <2>1, <2>5, <3>1, <4>1 DEF LastEntries
    <3>3. /\ recentRuns' \in Seq(RunId) /\ Len(recentRuns') = RecentCap
          /\ \A i \in 1..RecentCap : i + 1 \in 1..Len(longer) /\ recentRuns'[i] = longer[i + 1]
      BY <1>1, <2>1, <3>1, <3>2
    <3>4. RecentInv'
      <4>1. ASSUME NEW i \in 1..RecentCap, NEW j \in 1..RecentCap, recentRuns'[i] = recentRuns'[j]
            PROVE  i = j
        <5>1. i + 1 \in 1..Len(longer) /\ j + 1 \in 1..Len(longer)
              /\ longer[i + 1] = longer[j + 1]
          BY <3>3, <4>1
        <5>2. i + 1 = j + 1
          BY <2>2, <5>1
        <5>3. QED
          BY <1>1, <5>2
      <4>2. QED
        BY <1>1, <3>3, <4>1 DEF RecentInv
    <3>5. r \in Ended'
      <4>1. RecentCap \in 1..RecentCap /\ recentRuns'[RecentCap] = longer[Len(longer)]
        BY <1>1, <3>1, <3>3
      <4>2. longer[Len(longer)] = r
        BY <1>1, <2>1, <3>1
      <4>3. QED
        BY <3>3, <4>1, <4>2 DEF Ended
    <3>6. Ended' \subseteq Ended \union {r}
      BY <2>3, <3>3 DEF Ended
    <3>7. Cardinality(Ended') = RecentCap
      <4>1. \A i, j \in 1..Len(recentRuns') : recentRuns'[i] = recentRuns'[j] => i = j
        BY <3>4 DEF RecentInv
      <4>2. Cardinality({recentRuns'[i] : i \in 1..Len(recentRuns')}) = Len(recentRuns')
        <5> DEFINE entries == recentRuns'
        <5>1. entries \in Seq(RunId)
          BY <3>3
        <5>2. \A i, j \in 1..Len(entries) : entries[i] = entries[j] => i = j
          BY <4>1
        <5> HIDE DEF entries
        <5>3. Cardinality({entries[i] : i \in 1..Len(entries)}) = Len(entries)
          BY <5>1, <5>2, EntriesCounted
        <5>4. QED
          BY <5>3 DEF entries
      <4>3. QED
        BY <3>3, <4>2 DEF Ended
    <3>8. QED
      BY <3>4, <3>5, <3>6, <3>7
  <2>6. QED
    BY <1>1, <2>1, <2>4, <2>5
<1>4. QED
  BY <1>2, <1>3

LEMMA RecentStep ==
    ASSUME Assumptions, TypeOK, RecentInv, [Next]_vars
    PROVE  RecentInv'
<1>1. ASSUME NEW c \in Call, Leaves(c)
      PROVE  RecentInv'
  <2>1. recentRuns' = Remember(IdOf[c]) /\ IdOf[c] \in RunId
    BY <1>1 DEF Leaves, endRebalanceRun, Assumptions, RunIdAssumption
  <2>2. QED
    BY <2>1, RememberEntries DEF Assumptions, TypeOK
<1>2. CASE Restart
  BY <1>2 DEF Restart, RecentInv, Assumptions, LimitAssumption
<1>3. CASE UNCHANGED recentRuns
  BY <1>3 DEF RecentInv
<1>4. ASSUME NEW c \in Call, CallStep(c)
      PROVE  RecentInv'
  BY <1>1, <1>3, <1>4, CallStepShape DEF Moves, lockVars
<1>5. QED
  BY <1>2, <1>3, <1>4 DEF Next, Begin, SupplyUsdtCollateral, Tick, vars, lockVars

(* RunRegistry counts as FiniteSets does. *)
LEMMA RegistryCardinality == \A S : Registry!Cardinality(S) = Cardinality(S)
BY DEF Registry!Cardinality, Cardinality

(* Every step of the saga is one of the registry, or a stutter of it. *)
LEMMA RegistryStep ==
    ASSUME CallersSerialise, Assumptions, TypeOK, LockInv, RecentInv, [Next]_vars
    PROVE  [Registry!RegistryNext]_(Registry!registryVars)
<1> USE DEF Registry!RegistryNext, Registry!Start, Registry!End, Registry!Forget,
            Registry!registryVars
<1>1. ASSUME UNCHANGED <<InFlight, recentRuns, restarts>>
      PROVE  UNCHANGED Registry!registryVars
  BY <1>1
<1>2. ASSUME NEW c \in Call, Begin(c)
      PROVE  [Registry!RegistryNext]_(Registry!registryVars)
  <2>1. CASE Refused(IdOf[c])
    <3>1. pc' = [pc EXCEPT ![c] = "done"] /\ pc[c] = "idle"
      BY <1>2, <2>1 DEF Begin
    <3>2. InFlight' = InFlight
      BY <3>1 DEF InFlight, InFlightPc, Transactions, TypeOK
    <3>3. UNCHANGED <<recentRuns, restarts>>
      BY <1>2 DEF Begin, env
    <3>4. QED
      BY <1>1, <3>2, <3>3
  <2>2. CASE ~Refused(IdOf[c])
    <3>1. activeRunId = NoRun \/ activeRunId = IdOf[c]
      BY <2>2 DEF Refused
    <3>2. InFlight = {}
      BY <1>2, <3>1 DEF Begin, LockInv, InFlight, Assumptions, RunIdAssumption
    <3>3. InFlight' = {c}
      BY <1>2, <2>2, <3>2 DEF Begin, InFlight, InFlightPc, Transactions, TypeOK
    <3>4. IdOf[c] \in RunId /\ IdOf[c] \notin Ended
      BY <2>2 DEF Refused, Known, Ended, Assumptions, RunIdAssumption
    <3>5. UNCHANGED <<recentRuns, restarts>>
      BY <1>2 DEF Begin, env
    <3>6. Registry!Start(IdOf[c])
      BY <3>2, <3>3, <3>4, <3>5 DEF Ended
    <3>7. QED
      BY <3>4, <3>6
  <2>3. QED
    BY <2>1, <2>2
<1>3. ASSUME NEW d \in Call, CallStep(d)
      PROVE  [Registry!RegistryNext]_(Registry!registryVars)
  <2>1. restarts' = restarts
    BY <1>3 DEF CallStep, ReadBefore, Withdraw, QuoteAndGuards, Swap, Rollback,
       RollbackAlerted, ReadAfter, Supply, Reconcile, env
  <2>2. d \in InFlight /\ InFlight = {d}
    BY <1>3, CallStepShape DEF LockInv, OneRebalanceInFlight
  <2>3. CASE Moves(d)
    <3>1. InFlight' = InFlight /\ recentRuns' = recentRuns
      BY <2>2, <2>3 DEF Moves, InFlight, InFlightPc, Transactions, TypeOK, lockVars
    <3>2. QED
      BY <1>1, <2>1, <3>1
  <2>4. CASE Leaves(d)
    <3>1. InFlight' = {}
      BY <2>2, <2>4, LeavesKeepsLock
    <3>2. IdOf[d] \in RunId /\ recentRuns' = Remember(IdOf[d])
      BY <2>4 DEF Leaves, endRebalanceRun, Assumptions, RunIdAssumption
    <3>3. /\ IdOf[d] \in Ended' /\ Ended' \subseteq Ended \union {IdOf[d]}
          /\ Ended' # Ended \union {IdOf[d]} => Cardinality(Ended') = RecentCap
      BY <3>2, RememberEntries DEF Assumptions, TypeOK
    <3>4. Registry!End(IdOf[d])
      <4>1. {IdOf[c] : c \in InFlight} = {IdOf[d]} /\ {IdOf[c] : c \in InFlight'} = {}
        BY <2>2, <3>1
      <4>2. {IdOf[c] : c \in InFlight}' = {IdOf[c] : c \in InFlight'}
        OBVIOUS
      <4>3. {IdOf[c] : c \in InFlight}' = {}
        BY <4>1, <4>2
      <4>4. QED
        BY <2>1, <3>3, <4>1, <4>3, RegistryCardinality DEF Ended
    <3>5. QED
      BY <3>2, <3>4
  <2>5. QED
    BY <1>3, <2>3, <2>4, CallStepShape
<1>4. CASE Restart
  <2>1. InFlight' = {}
    BY <1>4 DEF Restart, InFlight, InFlightPc, Transactions, TypeOK
  <2>2. Registry!Forget
    BY <1>4, <2>1 DEF Restart
  <2>3. QED
    BY <2>2
<1>5. CASE UNCHANGED <<callVars, lockVars, restarts>>
  <2>1. UNCHANGED <<InFlight, recentRuns, restarts>>
    BY <1>5 DEF callVars, lockVars, InFlight
  <2>2. QED
    BY <1>1, <2>1
<1>6. QED
  BY <1>2, <1>3, <1>4, <1>5 DEF Next, SupplyUsdtCollateral, Tick, vars, env

(* The saga, with its throws and restarts, is a registry of runs: one at a *)
(* time, and none again that it remembers.                                 *)
THEOREM RegistryCorrect ==
    ASSUME CallersSerialise
    PROVE  Spec => RegistryImplemented
<1>1. Init => RecentInv /\ LockInv /\ Registry!RegistryInit
  <2> SUFFICES ASSUME Init PROVE RecentInv /\ LockInv /\ Registry!RegistryInit
    OBVIOUS
  <2>1. InFlight = {}
    BY DEF Init, InFlight, InFlightPc, Transactions
  <2>2. QED
    BY <2>1, LimitAssumption
       DEF Init, RecentInv, LimitAssumption, LockInv, OneRebalanceInFlight, Registry!RegistryInit
<1>2. TypeOK /\ LockInv /\ RecentInv /\ [Next]_vars => LockInv' /\ RecentInv'
  BY LockStep, RecentStep, AssumptionsHold
<1>3. TypeOK /\ LockInv /\ RecentInv /\ [Next]_vars
      => [Registry!RegistryNext]_(Registry!registryVars)
  BY RegistryStep, AssumptionsHold
<1>4. QED
  BY <1>1, <1>2, <1>3, TypeCorrect, PTL DEF Spec, RegistryImplemented, Registry!RegistrySpec

-----------------------------------------------------------------------------
(* Sums over a finite set, by induction on its subsets.                   *)

(* The least-number principle.  It speaks of a set, where the library's    *)
(* induction speaks of a predicate.                                        *)
LEMMA LeastNumber ==
    ASSUME NEW T \in SUBSET Nat, T # {}
    PROVE  \E x \in T : \A y \in T : x <= y
<1>1. OpToRel(<, Nat) = {ss \in Nat \X Nat : ss[1] < ss[2]}
  BY Zenon DEF OpToRel
<1>2. \E x \in T : \A y \in T : <<y, x>> \notin OpToRel(<, Nat)
  BY NatLessThanWellFounded, WFMin, Zenon
<1>3. \A x, y \in Nat : y < x => <<y, x>> \in {ss \in Nat \X Nat : ss[1] < ss[2]}
  OBVIOUS
<1>4. PICK x \in T : \A y \in T : ~(y < x)
  BY <1>1, <1>2, <1>3
<1>5. QED
  BY <1>4

LEMMA Induction ==
    ASSUME NEW S, 0 \in S, \A n \in Nat : n \in S => n + 1 \in S
    PROVE  Nat \subseteq S
<1>1. ASSUME ~(Nat \subseteq S)
      PROVE  FALSE
  <2>1. PICK x \in Nat \ S : \A y \in Nat \ S : x <= y
    BY <1>1, LeastNumber
  <2>2. x # 0 /\ x - 1 \in Nat /\ x - 1 \in S
    BY <2>1
  <2>3. QED
    BY <2>1, <2>2
<1>2. QED
  BY <1>1

Pick(s) == CHOOSE x \in s : TRUE

(* g is a sum over the subsets of S.                                       *)
Sums(f, S, g) ==
    g = [s \in SUBSET S |-> IF s = {} THEN 0 ELSE f[Pick(s)] + g[s \ {Pick(s)}]]

LEMMA SumOverIs ==
    ASSUME NEW f, NEW S
    PROVE  SumOver(f, S) = (CHOOSE g : Sums(f, S, g))[S]
BY DEF SumOver, MapThenSumSet, MapThenFoldSet, Sums, Pick

LEMMA PickIn == ASSUME NEW s, s # {}  PROVE Pick(s) \in s
BY DEF Pick

(* It exists.                                                              *)
LEMMA SumsExist ==
    ASSUME NEW S, IsFiniteSet(S), NEW f \in [S -> Nat]
    PROVE  \E g : Sums(f, S, g)
<1> DEFINE Summed(g, s) == IF s = {} THEN 0 ELSE f[Pick(s)] + g[s \ {Pick(s)}]
           UpTo(n, g) == \A s \in SUBSET S : Cardinality(s) <= n => g[s] = Summed(g, s)
           Good == {n \in Nat : \E g \in [SUBSET S -> Nat] : UpTo(n, g)}
<1>1. \A s \in SUBSET S : IsFiniteSet(s) /\ Cardinality(s) \in Nat
                          /\ (Cardinality(s) = 0 <=> s = {})
  BY FS_Subset, FS_CardinalityType, FS_EmptySet
<1>2. \A s \in SUBSET S : s # {} => 
          /\ Pick(s) \in S /\ s \ {Pick(s)} \in SUBSET S /\ f[Pick(s)] \in Nat
          /\ Cardinality(s \ {Pick(s)}) = Cardinality(s) - 1
  BY <1>1, PickIn, FS_RemoveElement
<1>3. 0 \in Good
  <2> DEFINE g == [s \in SUBSET S |-> 0]
  <2>1. g \in [SUBSET S -> Nat] /\ UpTo(0, g)
    BY <1>1
  <2>2. QED
    BY <2>1
<1>4. ASSUME NEW n \in Nat, n \in Good
      PROVE  n + 1 \in Good
  <2>1. PICK g \in [SUBSET S -> Nat] : UpTo(n, g)
    BY <1>4
  <2> DEFINE h == [s \in SUBSET S |-> Summed(g, s)]
  <2>2. h \in [SUBSET S -> Nat]
    <3>1. ASSUME NEW s \in SUBSET S, s # {}
          PROVE  f[Pick(s)] + g[s \ {Pick(s)}] \in Nat
      <4>1. f[Pick(s)] \in Nat /\ g[s \ {Pick(s)}] \in Nat
        BY <1>2, <3>1
      <4>2. QED
        BY <4>1
    <3>2. QED
      BY <3>1
  <2>3. ASSUME NEW s \in SUBSET S, Cardinality(s) <= n + 1
        PROVE  h[s] = Summed(h, s)
    <3>1. CASE s = {}
      BY <3>1
    <3>2. CASE s # {}
      <4> DEFINE t == s \ {Pick(s)}
      <4>1. t \in SUBSET S /\ Cardinality(t) <= n
        BY <1>1, <1>2, <2>3, <3>2
      <4>2. h[t] = g[t]
        BY <4>1, <2>1
      <4>3. QED
        BY <3>2, <4>2
    <3>3. QED
      BY <3>1, <3>2
  <2>4. UpTo(n + 1, h)
    BY <2>3
  <2>5. QED
    <3> HIDE DEF h, UpTo
    <3>1. QED
      BY <2>2, <2>4
<1>5. Cardinality(S) \in Good
  <2> HIDE DEF Good
  <2>1. Nat \subseteq Good
    BY <1>3, <1>4, Induction
  <2>2. QED
    BY <2>1, <1>1
<1>6. PICK g \in [SUBSET S -> Nat] : UpTo(Cardinality(S), g)
  BY <1>5
<1>7. \A s \in SUBSET S : Cardinality(s) <= Cardinality(S)
  BY FS_Subset
<1>8. \A s \in SUBSET S : g[s] = Summed(g, s)
  BY <1>6, <1>7
<1>9. QED
  BY <1>8 DEF Sums

(* A minimal subset of those that have a property.                         *)
LEMMA MinimalSubset ==
    ASSUME NEW S, IsFiniteSet(S), NEW B \in SUBSET SUBSET S, B # {}
    PROVE  \E s \in B : \A t \in B : t \subseteq s => t = s
<1>1. IsWellFoundedOn(StrictSubsetOrdering(S), SUBSET S)
  BY FS_StrictSubsetOrderingWellFounded, FS_FiniteSubsetsOfFinite
<1>2. PICK s \in B : \A t \in B : <<t, s>> \notin StrictSubsetOrdering(S)
  BY <1>1, WFMin
<1>3. QED
  BY <1>2 DEF StrictSubsetOrdering

(* Sums agree on what they have in common, and are numbers.                *)
LEMMA SumsAgree ==
    ASSUME NEW S, IsFiniteSet(S), NEW f \in [S -> Nat], NEW g, Sums(f, S, g),
           NEW T, T \subseteq S, NEW h, Sums(f, T, h)
    PROVE  \A s \in SUBSET T : g[s] \in Nat /\ g[s] = h[s]
<1> DEFINE B == {s \in SUBSET T : ~(g[s] \in Nat /\ g[s] = h[s])}
<1>1. CASE B = {}
  BY <1>1
<1>2. CASE B # {}
  <2>1. IsFiniteSet(T)
    BY FS_Subset
  <2>2. PICK s \in B : \A t \in B : t \subseteq s => t = s
    <3>1. B \in SUBSET SUBSET T
      OBVIOUS
    <3> HIDE DEF B
    <3>2. QED
      BY <1>2, <2>1, <3>1, MinimalSubset
  <2>3. s # {}
    BY <2>2 DEF Sums
  <2>4. Pick(s) \in s /\ s \in SUBSET T
    BY <2>2, <2>3, PickIn
  <2>5. g[s \ {Pick(s)}] \in Nat /\ g[s \ {Pick(s)}] = h[s \ {Pick(s)}]
    BY <2>2, <2>4
  <2>6. /\ g[s] = f[Pick(s)] + g[s \ {Pick(s)}]
        /\ h[s] = f[Pick(s)] + h[s \ {Pick(s)}]
    BY <2>3, <2>4 DEF Sums
  <2>7. f[Pick(s)] \in Nat
    BY <2>4
  <2>8. QED
    BY <2>2, <2>5, <2>6, <2>7
<1>3. QED
  BY <1>1, <1>2

(* Any element may be taken out first.                                     *)
LEMMA SumsRemove ==
    ASSUME NEW S, IsFiniteSet(S), NEW f \in [S -> Nat], NEW g, Sums(f, S, g)
    PROVE  \A s \in SUBSET S : \A x \in s : g[s] = f[x] + g[s \ {x}]
<1> DEFINE B == {s \in SUBSET S : \E x \in s : g[s] # f[x] + g[s \ {x}]}
<1>1. CASE B = {}
  BY <1>1
<1>2. CASE B # {}
  <2>1. PICK s \in B : \A t \in B : t \subseteq s => t = s
    <3>1. B \in SUBSET SUBSET S
      OBVIOUS
    <3> HIDE DEF B
    <3>2. QED
      BY <1>2, <3>1, MinimalSubset
  <2>2. PICK x \in s : g[s] # f[x] + g[s \ {x}]
    BY <2>1
  <2> DEFINE p == Pick(s)
  <2>3. p \in s /\ s \in SUBSET S
    BY <2>1, <2>2, PickIn
  <2>4. g[s] = f[p] + g[s \ {p}]
    BY <2>2, <2>3 DEF Sums
  <2>5. p # x
    BY <2>2, <2>4
  <2>6. g[s \ {p}] = f[x] + g[(s \ {p}) \ {x}]
    <3>1. s \ {p} \in SUBSET S /\ s \ {p} # s /\ x \in s \ {p}
      BY <2>2, <2>3, <2>5
    <3>2. QED
      BY <2>1, <3>1
  <2>7. g[s \ {x}] = f[p] + g[(s \ {x}) \ {p}]
    <3>1. s \ {x} \in SUBSET S /\ s \ {x} # s /\ p \in s \ {x}
      BY <2>2, <2>3, <2>5
    <3>2. QED
      BY <2>1, <3>1
  <2>8. (s \ {p}) \ {x} = (s \ {x}) \ {p}
    OBVIOUS
  <2>9. f[p] \in Nat /\ f[x] \in Nat
    BY <2>2, <2>3
  <2>10. g[(s \ {p}) \ {x}] \in Nat
    BY SumsAgree, <2>3
  <2>11. g[s] = f[x] + g[s \ {x}]
    <3> DEFINE a == f[p]  b == f[x]  d == g[(s \ {p}) \ {x}]
    <3>1. g[s] = a + g[s \ {p}] /\ g[s \ {p}] = b + d /\ g[s \ {x}] = a + d
      BY <2>4, <2>6, <2>7, <2>8
    <3>2. a \in Nat /\ b \in Nat /\ d \in Nat
      BY <2>9, <2>10
    <3> HIDE DEF a, b, d
    <3>3. a + (b + d) = b + (a + d)
      BY <3>2
    <3>4. g[s] = b + g[s \ {x}]
      BY <3>1, <3>3
    <3>5. QED
      BY <3>4 DEF b
  <2>12. QED
    BY <2>2, <2>11
<1>3. QED
  BY <1>1, <1>2

(* What a sum over a finite set is.                                        *)
LEMMA SumEmpty == ASSUME NEW f  PROVE SumOver(f, {}) = 0
<1>1. Sums(f, {}, [s \in SUBSET {} |-> 0])
  BY DEF Sums
<1>2. \E g : Sums(f, {}, g)
  BY <1>1
<1>3. Sums(f, {}, CHOOSE g : Sums(f, {}, g))
  BY <1>2
<1>4. QED
  BY <1>3, SumOverIs DEF Sums

LEMMA SumsAdd ==
    ASSUME NEW T, IsFiniteSet(T), NEW f \in [T -> Nat], NEW g, Sums(f, T, g),
           NEW x \in T, NEW S, S = T \ {x}, NEW h, Sums(f, S, h)
    PROVE  h[S] \in Nat /\ g[T] = h[S] + f[x]
<1>1. S \subseteq T
  OBVIOUS
<1>2. \A s \in SUBSET S : g[s] \in Nat /\ g[s] = h[s]
  BY <1>1, SumsAgree
<1>3. g[T] = f[x] + g[T \ {x}]
  BY SumsRemove
<1>4. f[x] \in Nat /\ g[S] \in Nat /\ g[S] = h[S]
  BY <1>2
<1>5. QED
  BY <1>3, <1>4

LEMMA SumAdd ==
    ASSUME NEW D, NEW f \in [D -> Nat], NEW S \in SUBSET D, IsFiniteSet(S), NEW x \in D, x \notin S
    PROVE  /\ SumOver(f, S) \in Nat
           /\ SumOver(f, S \union {x}) = SumOver(f, S) + f[x]
<1> DEFINE T == S \union {x}
           F == [c \in T |-> f[c]]
<1>1. IsFiniteSet(T) /\ S = T \ {x} /\ x \in T /\ F \in [T -> Nat] /\ F[x] = f[x]
  BY FS_AddElement
<1>2. \A U, k : U \subseteq T => (Sums(f, U, k) <=> Sums(F, U, k))
  BY PickIn DEF Sums
<1>3. \E k : Sums(F, T, k)
  BY <1>1, SumsExist
<1>4. \E k : Sums(F, S, k)
  <2>1. F \in [T -> Nat]  /\ [c \in S |-> f[c]] \in [S -> Nat]
    BY <1>1
  <2>2. \A k : Sums([c \in S |-> f[c]], S, k) <=> Sums(F, S, k)
    BY PickIn DEF Sums
  <2>3. QED
    BY <2>1, <2>2, SumsExist
<1> DEFINE g == CHOOSE k : Sums(f, T, k)
           h == CHOOSE k : Sums(f, S, k)
<1>5. Sums(F, T, g) /\ Sums(F, S, h)
  BY <1>1, <1>2, <1>3, <1>4
<1>6. SumOver(f, T) = g[T] /\ SumOver(f, S) = h[S]
  BY SumOverIs
<1> HIDE DEF T, F, g, h
<1>7. h[S] \in Nat /\ g[T] = h[S] + F[x]
  BY <1>1, <1>5, SumsAdd
<1>8. QED
  BY <1>1, <1>6, <1>7 DEF T

LEMMA SumType ==
    ASSUME NEW D, NEW f \in [D -> Nat], NEW S \in SUBSET D, IsFiniteSet(S)
    PROVE  SumOver(f, S) \in Nat
<1> DEFINE F == [c \in S |-> f[c]]
           h == CHOOSE k : Sums(f, S, k)
<1>1. F \in [S -> Nat] /\ S \subseteq S
  OBVIOUS
<1>2. \A k : Sums(f, S, k) <=> Sums(F, S, k)
  BY PickIn DEF Sums
<1>3. Sums(F, S, h)
  BY <1>1, <1>2, SumsExist
<1>4. SumOver(f, S) = h[S]
  BY SumOverIs
<1> HIDE DEF F, h
<1>5. QED
  BY <1>1, <1>3, <1>4, SumsAgree

-----------------------------------------------------------------------------
(* The ledger. *)

Success == {c \in Call : outcome[c] = "success"}
Moved == SumOver(AmountOf, Success)

(* Every report was true and no run has ended but as a success, refused or *)
(* rolled back.                                                            *)
Clean == ~misreported /\ \A c \in Call : outcome[c] \notin {"failed", "warning", "lost"}

(* The successes took their amounts, and taken besides, out of the USDt,   *)
(* of which the wallet keeps no more than what was refunded and what else  *)
(* it may hold; they brought what they promised, and brought besides.      *)
Balanced(holds, taken, brought) ==
    /\ walletUsdt <= refunded + holds
    /\ burrowUsdt + walletUsdt = InitialUsdt - Moved - taken
    /\ burrowUsdc >= promised + brought

Settled == walletUsdc = 0 /\ Balanced(0, 0, 0)

(* The amount of c has left Burrow and is, or may be, in the wallet.       *)
Withdrawn(c) == walletUsdc = 0 /\ Balanced(AmountOf[c], 0, 0)

(* The amount of c was swapped. *)
Swapped(c) == walletUsdc >= minOut[c] /\ Balanced(0, AmountOf[c], 0)

(* The amount of c was supplied. *)
SuppliedAs(c) == walletUsdc = 0 /\ Balanced(0, AmountOf[c], minOut[c])

(* What the ledger shows of the run in flight; a swap reported ok that     *)
(* moved nothing cannot end well, as what it should have brought is not    *)
(* there to supply.                                                        *)
Book(c) ==
    /\ pc[c] = "begun" => Settled
    /\ pc[c] = "withdraw" => Settled /\ usdcBefore[c] = 0
    /\ pc[c] \in {"quote", "swap", "rollback"} => Withdrawn(c) /\ usdcBefore[c] = 0
    /\ pc[c] \in {"swap", "balance"} => minOut[c] > 0
    /\ pc[c] = "alert" => Settled
    /\ pc[c] = "balance" => usdcBefore[c] = 0 /\ (Swapped(c) \/ walletUsdc = 0)
    /\ pc[c] = "supply" =>
          walletUsdc < supplyOut[c] \/
              (Swapped(c) /\ supplyOut[c] = walletUsdc /\ walletUsdc > 0)
    /\ pc[c] = "reconcile" => walletUsdc > 0 \/ SuppliedAs(c)

BooksInv ==
    /\ IsFiniteSet(Success)
    /\ \A c \in Call : pc[c] # "done" => outcome[c] = "none"
    /\ Clean => (InFlight = {} => Settled) /\ \A c \in InFlight : Book(c)

LEMMA MovedType ==
    ASSUME Assumptions, IsFiniteSet(Success)
    PROVE  Moved \in Nat
<1>1. AmountOf \in [Call -> Nat] /\ Success \in SUBSET Call
  BY DEF Assumptions, AmountAssumption, Success
<1>2. QED
  BY <1>1, SumType DEF Moved

(* A run that ends well is counted. *)
LEMMA SuccessAdds ==
    ASSUME Assumptions, TypeOK, IsFiniteSet(Success), NEW c \in Call, outcome[c] # "success",
           outcome' = [outcome EXCEPT ![c] = "success"]
    PROVE  Moved' = Moved + AmountOf[c]
<1>1. Success' = Success \union {c} /\ c \notin Success /\ Success \in SUBSET Call
  BY DEF Success, TypeOK
<1>2. AmountOf \in [Call -> Nat]
  BY DEF Assumptions, AmountAssumption
<1>3. SumOver(AmountOf, Success \union {c}) = SumOver(AmountOf, Success) + AmountOf[c]
  BY <1>1, <1>2, SumAdd
<1>4. QED
  BY <1>1, <1>3 DEF Moved

LEMMA SuccessKept ==
    ASSUME TypeOK,
           \A c \in Call : outcome'[c] = "success" <=> outcome[c] = "success"
    PROVE  Success' = Success /\ Moved' = Moved
<1>1. Success' = Success
  BY DEF Success
<1>2. QED
  BY <1>1 DEF Moved

(* The outcome of a call changes once. *)
LEMMA OutcomeStep ==
    ASSUME TypeOK, BooksInv, [Next]_vars
    PROVE  /\ \A c \in Call : outcome'[c] = outcome[c] \/ pc[c] # "done"
           /\ \A c \in Call : pc'[c] # "done" => outcome'[c] = "none"
           /\ misreported => misreported'
<1> USE DEF BooksInv
<1>1. ASSUME NEW c \in Call, Begin(c)
      PROVE  /\ \A d \in Call : outcome'[d] = outcome[d] \/ pc[d] # "done"
             /\ \A d \in Call : pc'[d] # "done" => outcome'[d] = "none"
             /\ misreported => misreported'
  BY <1>1 DEF Begin, TypeOK
<1>2. ASSUME NEW c \in Call, CallStep(c)
      PROVE  /\ \A d \in Call : outcome'[d] = outcome[d] \/ pc[d] # "done"
             /\ \A d \in Call : pc'[d] # "done" => outcome'[d] = "none"
             /\ misreported => misreported'
  <2>1. pc[c] # "done"
    BY <1>2, CallStepShape DEF InFlight, InFlightPc, Transactions
  <2>2. \/ outcome' = outcome /\ \A d \in Call : pc'[d] # "done" => pc[d] # "done"
        \/ \E status : Return(c, status)
    <3>1. ASSUME NEW step, Advance(c, step) \/ Proceed(c, step)
          PROVE  outcome' = outcome /\ \A d \in Call : pc'[d] # "done" => pc[d] # "done"
      BY <2>1, <3>1 DEF Advance, Proceed, TypeOK
    <3>2. QED
      BY <1>2, <3>1, Zenon DEF CallStep, ReadBefore, Withdraw, QuoteAndGuards, Swap, Rollback,
         RollbackAlerted, ReadAfter, Supply, Reconcile, RpcFallback, Catch, RollbackError
  <2>3. misreported => misreported'
    BY <1>2 DEF CallStep, ReadBefore, Withdraw, QuoteAndGuards, Swap, Rollback,
       RollbackAlerted, ReadAfter, Supply, Reconcile, NoteReport
  <2>4. QED
    BY <2>1, <2>2, <2>3 DEF Return, TypeOK
<1>3. CASE Restart
  BY <1>3 DEF Restart, InFlight, InFlightPc, Transactions, TypeOK, Pcs
<1>4. CASE UNCHANGED <<pc, outcome, misreported>>
  BY <1>4
<1>5. QED
  BY <1>1, <1>2, <1>3, <1>4 DEF Next, SupplyUsdtCollateral, Tick, vars, callVars

LEMMA CleanBefore ==
    ASSUME TypeOK, BooksInv, [Next]_vars, Clean'
    PROVE  Clean
BY OutcomeStep DEF Clean, BooksInv

(* The books after a step that leaves them, or the run they are about.     *)
LEMMA BookKept ==
    ASSUME NEW c \in Call, Book(c), UNCHANGED <<ledger, books, locals>>,
           pc'[c] = pc[c], Moved' = Moved
    PROVE  Book(c)'
<1>1. /\ Settled => Settled'
      /\ Withdrawn(c) => Withdrawn(c)'
      /\ Swapped(c) => Swapped(c)'
      /\ SuppliedAs(c) => SuppliedAs(c)'
  BY DEF Settled, Withdrawn, Swapped, SuppliedAs, Balanced, ledger, books, locals
<1>2. QED
  BY <1>1 DEF Book, ledger, locals

LEMMA BookNumbers ==
    ASSUME Assumptions, TypeOK, IsFiniteSet(Success), NEW c \in Call
    PROVE  /\ Moved \in Nat /\ InitialUsdt \in Nat /\ AmountOf[c] \in Nat
           /\ burrowUsdt \in Nat /\ walletUsdt \in Nat /\ walletUsdc \in Nat /\ burrowUsdc \in Nat
           /\ promised \in Nat /\ refunded \in Nat
           /\ usdcBefore[c] \in Nat /\ minOut[c] \in Nat /\ supplyOut[c] \in Nat
<1>1. Moved \in Nat
  BY MovedType
<1>2. QED
  BY <1>1 DEF Assumptions, AmountAssumption, TypeOK

(* After a clean step of c: c did not fail, no success was added unless c   *)
(* reconciled.                                                             *)
LEMMA NotFailed ==
    ASSUME TypeOK, NEW c \in Call, Catch(c, "failed"), Clean'
    PROVE  FALSE
BY DEF Catch, Return, Clean, TypeOK

LEMMA ProceedKeepsSuccess ==
    ASSUME TypeOK, NEW c \in Call, NEW step \in InFlightPc,
           Advance(c, step) \/ Proceed(c, step)
    PROVE  /\ Success' = Success /\ Moved' = Moved
           /\ pc'[c] = step
<1>1. outcome' = outcome /\ pc'[c] = step
  BY DEF Advance, Proceed, TypeOK
<1>2. QED
  BY <1>1, SuccessKept

(* A call sent again through the next endpoint.                            *)
LEMMA RetryKeepsBook ==
    ASSUME TypeOK, NEW c \in Call, Book(c), UNCHANGED <<ledger, books>>,
           UNCHANGED <<pc, outcome, locals, metrics, lockVars>>
    PROVE  Success' = Success /\ Book(c)'
<1>1. Success' = Success /\ Moved' = Moved
  BY SuccessKept
<1>2. QED
  BY <1>1, BookKept

(* What a step of the run in flight does to the books.                     *)
Booked(c) ==
    /\ pc[c] = "done" => Settled
    /\ pc[c] # "done" => Book(c)

LEMMA ReadBeforeBooks ==
    ASSUME Assumptions, TypeOK, NEW c \in Call, Book(c), ReadBefore(c), Clean'
    PROVE  Success' = Success /\ Booked(c)'
<1>1. pc[c] = "begun" /\ Settled
  BY DEF ReadBefore, Book
<1>2. /\ usdcBefore' = [usdcBefore EXCEPT ![c] = walletUsdc]
      /\ Advance(c, "withdraw") /\ UNCHANGED <<ledger, books>>
  BY NotFailed DEF ReadBefore
<1>3. Success' = Success /\ Moved' = Moved /\ pc'[c] = "withdraw"
  BY <1>2, ProceedKeepsSuccess DEF InFlightPc, Transactions
<1>4. usdcBefore'[c] = 0
  BY <1>1, <1>2 DEF Settled, TypeOK
<1>5. Settled'
  BY <1>1, <1>2, <1>3 DEF Settled, Balanced, ledger, books
<1>6. QED
  BY <1>3, <1>4, <1>5 DEF Booked, Book

LEMMA WithdrawBooks ==
    ASSUME Assumptions, TypeOK, IsFiniteSet(Success), NEW c \in Call, Book(c), Withdraw(c), Clean'
    PROVE  Success' = Success /\ Booked(c)'
<1>1. pc[c] = "withdraw" /\ Settled /\ usdcBefore[c] = 0
  BY DEF Withdraw, Book
<1>2. PICK report \in Reports, applied \in BOOLEAN :
        /\ report = "ok" => applied
        /\ burrowUsdt' = IF applied THEN burrowUsdt - AmountOf[c] ELSE burrowUsdt
        /\ walletUsdt' = IF applied THEN walletUsdt + AmountOf[c] ELSE walletUsdt
        /\ NoteReport(report, applied)
        /\ RpcFallback(c, report, Proceed(c, "quote"), Catch(c, "failed"))
  BY DEF Withdraw
<1>3. UNCHANGED <<walletUsdc, burrowUsdc, books>>
  BY DEF Withdraw
<1>4. applied => report = "ok"
  BY <1>2 DEF NoteReport, Clean
<1>5. CASE report = "ok" /\ Proceed(c, "quote")
  <2>1. /\ Success' = Success /\ Moved' = Moved /\ pc'[c] = "quote"
        /\ usdcBefore' = usdcBefore
    BY <1>5, ProceedKeepsSuccess DEF InFlightPc, Proceed, locals
  <2>2. walletUsdt' = walletUsdt + AmountOf[c] /\ burrowUsdt' = burrowUsdt - AmountOf[c]
    BY <1>2, <1>5
  <2>3. Withdrawn(c)'
    BY <1>1, <1>3, <2>1, <2>2, BookNumbers DEF Settled, Withdrawn, Balanced, books
  <2>4. QED
    BY <1>1, <2>1, <2>3 DEF Booked, Book
<1>6. CASE UNCHANGED <<pc, outcome, locals, metrics, lockVars>> /\ report # "ok"
  <2>1. UNCHANGED <<ledger, books>>
    BY <1>2, <1>3, <1>4, <1>6 DEF ledger, books
  <2>2. Success' = Success /\ Book(c)' /\ pc'[c] = pc[c]
    BY <1>6, <2>1, RetryKeepsBook
  <2>3. QED
    BY <1>1, <2>2 DEF Booked
<1>7. QED
  BY <1>2, <1>5, <1>6, NotFailed DEF RpcFallback

LEMMA QuoteBooks ==
    ASSUME Assumptions, TypeOK, NEW c \in Call, Book(c), QuoteAndGuards(c), Clean'
    PROVE  Success' = Success /\ Booked(c)'
<1>1. pc[c] = "quote" /\ Withdrawn(c) /\ usdcBefore[c] = 0
  BY DEF QuoteAndGuards, Book
<1>2. PICK least \in MinOuts :
        /\ minOut' = [minOut EXCEPT ![c] = least] /\ Advance(c, "swap")
        /\ usdcBefore' = usdcBefore /\ UNCHANGED <<ledger, books>>
  BY NotFailed DEF QuoteAndGuards
<1>3. Success' = Success /\ Moved' = Moved /\ pc'[c] = "swap"
  BY <1>2, ProceedKeepsSuccess DEF InFlightPc, Transactions
<1>4. minOut'[c] > 0
  BY <1>2 DEF TypeOK, Assumptions, AmountAssumption
<1>5. Withdrawn(c)'
  BY <1>1, <1>2, <1>3 DEF Withdrawn, Balanced, ledger, books
<1>6. QED
  BY <1>1, <1>2, <1>3, <1>4, <1>5 DEF Booked, Book

LEMMA SwapBooks ==
    ASSUME Assumptions, TypeOK, IsFiniteSet(Success), NEW c \in Call, Book(c), Swap(c), Clean'
    PROVE  Success' = Success /\ Booked(c)'
<1>1. pc[c] = "swap" /\ Withdrawn(c) /\ usdcBefore[c] = 0 /\ minOut[c] > 0
  BY DEF Swap, Book
<1>2. PICK report \in Reports, applied \in BOOLEAN, out \in minOut[c]..MaxOut :
        /\ (applied \/ report = "ok") => walletUsdt >= AmountOf[c]
        /\ walletUsdt' = IF applied THEN walletUsdt - AmountOf[c] ELSE walletUsdt
        /\ walletUsdc' = IF applied THEN walletUsdc + out ELSE walletUsdc
        /\ NoteReport(report, applied)
        /\ RpcFallback(c, report, Proceed(c, "balance"), Proceed(c, "rollback"))
  BY DEF Swap
<1>3. UNCHANGED <<burrowUsdt, burrowUsdc, books>>
  BY DEF Swap
<1>4. applied => report = "ok"
  BY <1>2 DEF NoteReport, Clean
<1>5. CASE report = "ok" /\ Proceed(c, "balance")
  <2>1. /\ Success' = Success /\ Moved' = Moved /\ pc'[c] = "balance"
        /\ usdcBefore' = usdcBefore /\ minOut' = minOut
    BY <1>5, ProceedKeepsSuccess DEF InFlightPc, Proceed, locals
  <2>2. CASE applied
    <3>1. /\ walletUsdt' = walletUsdt - AmountOf[c] /\ walletUsdt >= AmountOf[c]
          /\ walletUsdc' = out
      BY <1>1, <1>2, <2>2, BookNumbers DEF Withdrawn, Assumptions, AmountAssumption
    <3>2. walletUsdc' >= minOut'[c]
      BY <2>1, <3>1
    <3>3. Balanced(0, AmountOf[c], 0)'
      BY <1>1, <1>3, <2>1, <3>1, BookNumbers DEF Withdrawn, Balanced, books
    <3>4. QED
      BY <1>1, <2>1, <3>2, <3>3 DEF Booked, Book, Swapped
  <2>3. CASE ~applied
    <3>1. walletUsdc' = 0
      BY <1>1, <1>2, <2>3 DEF Withdrawn
    <3>2. QED
      BY <1>1, <2>1, <3>1 DEF Booked, Book
  <2>4. QED
    BY <2>2, <2>3
<1>6. CASE UNCHANGED <<pc, outcome, locals, metrics, lockVars>> /\ report # "ok"
  <2>1. UNCHANGED <<ledger, books>>
    BY <1>2, <1>3, <1>4, <1>6 DEF ledger, books
  <2>2. Success' = Success /\ Book(c)' /\ pc'[c] = pc[c]
    BY <1>6, <2>1, RetryKeepsBook
  <2>3. QED
    BY <1>1, <2>2 DEF Booked
<1>7. CASE report # "ok" /\ Proceed(c, "rollback")
  <2>1. /\ Success' = Success /\ Moved' = Moved /\ pc'[c] = "rollback"
        /\ usdcBefore' = usdcBefore
    BY <1>7, ProceedKeepsSuccess DEF InFlightPc, Transactions, Proceed, locals
  <2>2. UNCHANGED <<ledger, books>>
    BY <1>2, <1>3, <1>4, <1>7 DEF ledger, books
  <2>3. Withdrawn(c)'
    BY <1>1, <2>1, <2>2 DEF Withdrawn, Balanced, ledger, books
  <2>4. QED
    BY <1>1, <2>1, <2>3 DEF Booked, Book
<1>8. QED
  BY <1>2, <1>5, <1>6, <1>7 DEF RpcFallback

LEMMA RollbackBooks ==
    ASSUME Assumptions, TypeOK, IsFiniteSet(Success), NEW c \in Call, Book(c), Rollback(c), Clean'
    PROVE  Success' = Success /\ Booked(c)'
<1>1. pc[c] = "rollback" /\ Withdrawn(c)
  BY DEF Rollback, Book
<1>2. PICK report \in Reports, applied \in BOOLEAN :
        /\ (applied \/ report = "ok") => walletUsdt >= AmountOf[c]
        /\ walletUsdt' = IF applied THEN walletUsdt - AmountOf[c] ELSE walletUsdt
        /\ burrowUsdt' = IF applied THEN burrowUsdt + AmountOf[c] ELSE burrowUsdt
        /\ refunded' = IF report = "ok" /\ ~applied THEN refunded + AmountOf[c] ELSE refunded
        /\ NoteReport(report, applied)
        /\ \/ /\ report = "ok"
              /\ Advance(c, "alert")
           \/ RpcFallback(c, report, FALSE, Catch(c, "failed"))
  BY DEF Rollback, RollbackError
<1>3. UNCHANGED <<walletUsdc, burrowUsdc, promised>>
  BY DEF Rollback
<1>4. applied => report = "ok"
  BY <1>2 DEF NoteReport, Clean
<1>5. CASE report = "ok" /\ Advance(c, "alert")
  <2>1. Success' = Success /\ Moved' = Moved /\ pc'[c] = "alert"
    BY <1>5, ProceedKeepsSuccess DEF InFlightPc
  <2>2. \/ /\ walletUsdt' = walletUsdt - AmountOf[c] /\ walletUsdt >= AmountOf[c]
           /\ burrowUsdt' = burrowUsdt + AmountOf[c] /\ refunded' = refunded
        \/ /\ walletUsdt' = walletUsdt /\ burrowUsdt' = burrowUsdt
           /\ refunded' = refunded + AmountOf[c]
    BY <1>2, <1>5
  <2>3. walletUsdt' <= refunded' /\ burrowUsdt' + walletUsdt' = burrowUsdt + walletUsdt
    BY <1>1, <2>2, BookNumbers DEF Withdrawn, Balanced
  <2>4. refunded' \in Nat
    BY <2>2, BookNumbers
  <2>5. Settled'
    BY <1>1, <1>3, <2>1, <2>3, <2>4 DEF Withdrawn, Settled, Balanced
  <2>6. QED
    BY <2>1, <2>5 DEF Booked, Book
<1>6. CASE UNCHANGED <<pc, outcome, locals, metrics, lockVars>> /\ report # "ok"
  <2>1. UNCHANGED <<ledger, books>>
    BY <1>2, <1>3, <1>4, <1>6 DEF ledger, books
  <2>2. Success' = Success /\ Book(c)' /\ pc'[c] = pc[c]
    BY <1>6, <2>1, RetryKeepsBook
  <2>3. QED
    BY <1>1, <2>2 DEF Booked
<1>7. QED
  BY <1>2, <1>5, <1>6, NotFailed DEF RpcFallback

LEMMA AlertedBooks ==
    ASSUME TypeOK, NEW c \in Call, outcome[c] = "none", Book(c), RollbackAlerted(c)
    PROVE  Success' = Success /\ Booked(c)'
<1>1. Settled
  BY DEF RollbackAlerted, Book
<1>2. /\ outcome' = [outcome EXCEPT ![c] = "rollback"]
      /\ pc'[c] = "done" /\ UNCHANGED <<ledger, books>>
  BY DEF RollbackAlerted, Catch, Return, TypeOK
<1>3. Success' = Success /\ Moved' = Moved
  <2>1. \A d \in Call : outcome'[d] = "success" <=> outcome[d] = "success"
    BY <1>2 DEF TypeOK
  <2>2. QED
    BY <2>1, SuccessKept
<1>4. QED
  BY <1>1, <1>2, <1>3 DEF Booked, Settled, Balanced, ledger, books

LEMMA ReadAfterBooks ==
    ASSUME Assumptions, TypeOK, IsFiniteSet(Success), NEW c \in Call, Book(c), ReadAfter(c), Clean'
    PROVE  Success' = Success /\ Booked(c)'
<1>1. usdcBefore[c] = 0 /\ minOut[c] > 0 /\ (Swapped(c) \/ walletUsdc = 0)
  BY DEF ReadAfter, Book
<1>2. /\ supplyOut' = [supplyOut EXCEPT ![c] = Delivered(c)] /\ minOut' = minOut
      /\ Advance(c, "supply") /\ UNCHANGED <<ledger, books>>
  BY NotFailed DEF ReadAfter
<1>3. Success' = Success /\ Moved' = Moved /\ pc'[c] = "supply"
  BY <1>2, ProceedKeepsSuccess DEF InFlightPc, Transactions
<1>4. supplyOut'[c] = Delivered(c) /\ walletUsdc' = walletUsdc
  BY <1>2 DEF TypeOK, ledger
<1>5. \/ walletUsdc' < supplyOut'[c]
      \/ Swapped(c) /\ supplyOut'[c] = walletUsdc' /\ walletUsdc' > 0
  BY <1>1, <1>4, BookNumbers DEF Delivered, Swapped
<1>6. Swapped(c) => Swapped(c)'
  BY <1>2, <1>3 DEF Swapped, Balanced, ledger, books
<1>7. QED
  BY <1>3, <1>5, <1>6 DEF Booked, Book

LEMMA SupplyBooks ==
    ASSUME Assumptions, TypeOK, IsFiniteSet(Success), NEW c \in Call, Book(c), Supply(c), Clean'
    PROVE  Success' = Success /\ Booked(c)'
<1>1. /\ pc[c] = "supply"
      /\ \/ walletUsdc < supplyOut[c]
         \/ Swapped(c) /\ supplyOut[c] = walletUsdc /\ walletUsdc > 0
  BY DEF Supply, Book
<1>2. PICK report \in Reports, applied \in BOOLEAN :
        /\ (applied \/ report = "ok") => walletUsdc >= supplyOut[c]
        /\ walletUsdc' = IF applied THEN walletUsdc - supplyOut[c] ELSE walletUsdc
        /\ burrowUsdc' = IF applied THEN burrowUsdc + supplyOut[c] ELSE burrowUsdc
        /\ NoteReport(report, applied)
        /\ RpcFallback(c, report, Proceed(c, "reconcile"), Catch(c, "failed"))
  BY DEF Supply
<1>3. UNCHANGED <<burrowUsdt, walletUsdt, books>>
  BY DEF Supply
<1>4. applied => report = "ok"
  BY <1>2 DEF NoteReport, Clean
<1>5. CASE report = "ok" /\ Proceed(c, "reconcile")
  <2>1. Success' = Success /\ Moved' = Moved /\ pc'[c] = "reconcile" /\ minOut' = minOut
    BY <1>5, ProceedKeepsSuccess DEF InFlightPc, Proceed, locals
  <2>2. Swapped(c) /\ supplyOut[c] = walletUsdc /\ walletUsdc > 0
    BY <1>1, <1>2, <1>5, BookNumbers
  <2>3. CASE applied
    <3>1. walletUsdc' = 0 /\ burrowUsdc' = burrowUsdc + walletUsdc
      BY <1>2, <2>2, <2>3, BookNumbers
    <3>2. burrowUsdc' >= promised + minOut[c]
      BY <2>2, <3>1, BookNumbers DEF Swapped, Balanced
    <3>3. SuppliedAs(c)'
      BY <1>3, <2>1, <2>2, <3>1, <3>2 DEF Swapped, SuppliedAs, Balanced, books
    <3>4. QED
      BY <2>1, <3>3 DEF Booked, Book
  <2>4. CASE ~applied
    <3>1. walletUsdc' > 0
      BY <1>2, <2>2, <2>4
    <3>2. QED
      BY <2>1, <3>1 DEF Booked, Book
  <2>5. QED
    BY <2>3, <2>4
<1>6. CASE UNCHANGED <<pc, outcome, locals, metrics, lockVars>> /\ report # "ok"
  <2>1. UNCHANGED <<ledger, books>>
    BY <1>2, <1>3, <1>4, <1>6 DEF ledger, books
  <2>2. Success' = Success /\ Book(c)' /\ pc'[c] = pc[c]
    BY <1>6, <2>1, RetryKeepsBook
  <2>3. QED
    BY <1>1, <2>2 DEF Booked
<1>7. QED
  BY <1>2, <1>5, <1>6, NotFailed DEF RpcFallback

LEMMA ReconcileBooks ==
    ASSUME Assumptions, TypeOK, IsFiniteSet(Success), NEW c \in Call, outcome[c] = "none",
           Book(c), Reconcile(c), Clean'
    PROVE  Booked(c)'
<1>1. walletUsdc > 0 \/ SuppliedAs(c)
  BY DEF Reconcile, Book
<1>2. PICK reconciled \in BOOLEAN :
        /\ Return(c, IF reconciled THEN "success" ELSE "warning")
        /\ promised' = IF reconciled THEN promised + minOut[c] ELSE promised
        /\ misreported' = (misreported \/ (reconciled /\ walletUsdt + walletUsdc > 0))
  BY DEF Reconcile
<1>3. reconciled
  BY <1>2 DEF Return, Clean, TypeOK
<1>4. /\ outcome' = [outcome EXCEPT ![c] = "success"] /\ pc'[c] = "done"
      /\ UNCHANGED <<ledger, refunded>> /\ promised' = promised + minOut[c]
  BY <1>2, <1>3 DEF Return, TypeOK, Reconcile
<1>5. Moved' = Moved + AmountOf[c]
  BY <1>4, SuccessAdds
<1>6. SuppliedAs(c)
  <2>1. ~(walletUsdt + walletUsdc > 0)
    BY <1>2, <1>3, Zenon DEF Clean
  <2>2. ~(walletUsdc > 0)
    BY <2>1, BookNumbers
  <2>3. QED
    BY <1>1, <2>2
<1>7. Settled'
  BY <1>4, <1>5, <1>6, BookNumbers DEF SuppliedAs, Settled, Balanced, ledger
<1>8. QED
  BY <1>4, <1>7 DEF Booked

LEMMA CallStepBooks ==
    ASSUME Assumptions, TypeOK, LockInv, BooksInv, NEW c \in Call, CallStep(c), Clean, Clean'
    PROVE  Booked(c)'
<1>1. c \in InFlight
  BY CallStepShape
<1>2. Book(c) /\ IsFiniteSet(Success)
  BY <1>1 DEF BooksInv
<1>3. outcome[c] = "none"
  BY <1>1 DEF BooksInv, InFlight, InFlightPc, Transactions
<1>4. QED
  BY <1>2, <1>3, ReadBeforeBooks, WithdrawBooks, QuoteBooks, SwapBooks, RollbackBooks,
     AlertedBooks, ReadAfterBooks, SupplyBooks, ReconcileBooks DEF CallStep

(* The set of successes stays finite.                                      *)
LEMMA FiniteStep ==
    ASSUME Assumptions, TypeOK, BooksInv, [Next]_vars
    PROVE  IsFiniteSet(Success')
<1> USE DEF BooksInv
<1>1. ASSUME NEW c \in Call, CallStep(c)
      PROVE  IsFiniteSet(Success')
  <2>1. Success' \subseteq Success \union {c}
    <3>1. \A d \in Call : d # c => outcome'[d] = outcome[d]
      BY <1>1 DEF CallStep, ReadBefore, Withdraw, QuoteAndGuards, Swap, Rollback, RollbackAlerted,
         ReadAfter, Supply, Reconcile, RpcFallback, Catch, RollbackError, Return, Advance, Proceed,
         TypeOK
    <3>2. QED
      BY <3>1 DEF Success
  <2>2. QED
    BY <2>1, FS_AddElement, FS_Subset
<1>2. ASSUME NEW c \in Call, Begin(c)
      PROVE  Success' \subseteq Success
  BY <1>2 DEF Begin, Success, TypeOK
<1>3. CASE Restart
  <2>1. Success' \subseteq Success
    BY <1>3 DEF Restart, Success, TypeOK
  <2>2. QED
    BY <2>1, FS_Subset
<1>4. CASE UNCHANGED outcome
  BY <1>4 DEF Success
<1>5. QED
  BY <1>1, <1>2, <1>3, <1>4, FS_Subset DEF Next, SupplyUsdtCollateral, Tick, vars, callVars

LEMMA BooksStep ==
    ASSUME Assumptions, CallersSerialise, TypeOK, LockInv, BooksInv, [Next]_vars
    PROVE  BooksInv'
<1>1. IsFiniteSet(Success') /\ \A c \in Call : pc'[c] # "done" => outcome'[c] = "none"
  BY FiniteStep, OutcomeStep
<1>2. ASSUME Clean'
      PROVE  (InFlight' = {} => Settled') /\ \A c \in InFlight' : Book(c)'
  <2>1. Clean /\ IsFiniteSet(Success) /\ (InFlight = {} => Settled) /\ \A c \in InFlight : Book(c)
    BY <1>2, CleanBefore DEF BooksInv
  <2>2. ASSUME NEW c \in Call, Begin(c)
        PROVE  (InFlight' = {} => Settled') /\ \A d \in InFlight' : Book(d)'
    <3>1. /\ pc[c] = "idle" /\ UNCHANGED <<ledger, books, locals>>
          /\ \/ /\ pc' = [pc EXCEPT ![c] = "done"]
                /\ outcome' = [outcome EXCEPT ![c] = "refused"]
             \/ /\ ~Refused(IdOf[c])
                /\ pc' = [pc EXCEPT ![c] = "begun"]
                /\ UNCHANGED outcome
      BY <2>2 DEF Begin
    <3>2. Success' = Success /\ Moved' = Moved
      <4>1. outcome[c] = "none"
        BY <3>1 DEF BooksInv
      <4>2. \A d \in Call : outcome'[d] = "success" <=> outcome[d] = "success"
        BY <3>1, <4>1 DEF TypeOK
      <4>3. QED
        BY <4>2, SuccessKept
    <3>3. Settled => Settled'
      BY <3>1, <3>2 DEF Settled, Balanced, ledger, books
    <3>4. CASE pc' = [pc EXCEPT ![c] = "done"]
      <4>1. InFlight' = InFlight /\ \A d \in InFlight : d \in Call /\ pc'[d] = pc[d]
        BY <3>1, <3>4 DEF InFlight, InFlightPc, Transactions, TypeOK
      <4>2. QED
        BY <2>1, <3>1, <3>2, <3>3, <4>1, BookKept
    <3>5. CASE ~Refused(IdOf[c]) /\ pc' = [pc EXCEPT ![c] = "begun"]
      <4>1. InFlight = {}
        BY <2>2, <3>5, RunIdAssumption DEF Begin, Refused, LockInv, InFlight
      <4>2. InFlight' = {c} /\ pc'[c] = "begun"
        BY <3>5, <4>1 DEF InFlight, InFlightPc, Transactions, TypeOK
      <4>3. Book(c)'
        BY <2>1, <3>3, <4>1, <4>2 DEF Book
      <4>4. QED
        BY <4>2, <4>3
    <3>6. QED
      BY <3>1, <3>4, <3>5
  <2>3. ASSUME NEW c \in Call, CallStep(c)
        PROVE  (InFlight' = {} => Settled') /\ \A d \in InFlight' : Book(d)'
    <3>1. InFlight = {c}
      BY <2>3, CallStepShape DEF LockInv, OneRebalanceInFlight
    <3>2. InFlight' \subseteq {c} /\ (InFlight' = {} => pc'[c] = "done")
          /\ (c \in InFlight' => pc'[c] # "done")
      <4>1. \/ \E step \in InFlightPc : pc' = [pc EXCEPT ![c] = step]
            \/ pc' = [pc EXCEPT ![c] = "done"]
        BY <2>3, CallStepShape DEF Moves, Leaves
      <4>2. QED
        BY <3>1, <4>1 DEF InFlight, InFlightPc, Transactions, TypeOK
    <3>3. Booked(c)'
      BY <1>2, <2>1, <2>3, CallStepBooks
    <3>4. QED
      BY <3>2, <3>3 DEF Booked
  <2>4. ASSUME NEW a \in Amounts, SupplyUsdtCollateral(a)
        PROVE  (InFlight' = {} => Settled') /\ \A d \in InFlight' : Book(d)'
    <3>1. /\ walletUsdt >= a /\ walletUsdt' = walletUsdt - a /\ burrowUsdt' = burrowUsdt + a
          /\ UNCHANGED <<pc, locals, outcome, walletUsdc, burrowUsdc, books>>
      BY <2>4 DEF SupplyUsdtCollateral, callVars
    <3>2. a \in Nat /\ walletUsdt \in Nat /\ burrowUsdt \in Nat /\ refunded \in Nat
      BY DEF Assumptions, AmountAssumption, TypeOK
    <3>3. InFlight' = InFlight /\ Success' = Success /\ Moved' = Moved
      BY <3>1, SuccessKept DEF InFlight
    <3>4. walletUsdt' <= walletUsdt /\ burrowUsdt' + walletUsdt' = burrowUsdt + walletUsdt
          /\ walletUsdt' \in Nat
      BY <3>1, <3>2
    <3>5. ASSUME NEW h \in Nat, NEW t \in Nat, NEW b \in Nat, Balanced(h, t, b)
          PROVE  /\ walletUsdt' <= refunded' + h
                 /\ burrowUsdt' + walletUsdt' = InitialUsdt - Moved' - t
                 /\ burrowUsdc' >= promised' + b
      <4>1. walletUsdt' <= refunded + h
        BY <3>2, <3>4, <3>5 DEF Balanced
      <4>2. QED
        BY <3>1, <3>3, <3>4, <3>5, <4>1 DEF Balanced, books
    <3>6. ASSUME NEW d \in InFlight
          PROVE  Book(d)'
      <4>1. Book(d) /\ d \in Call
        BY <2>1 DEF InFlight
      <4>2. 0 \in Nat /\ AmountOf[d] \in Nat /\ minOut[d] \in Nat /\ minOut' = minOut
        BY <2>1, <3>1, <4>1, BookNumbers DEF locals
      <4>3. /\ Settled => Settled'
            /\ Withdrawn(d) => Withdrawn(d)'
            /\ Swapped(d) => Swapped(d)'
            /\ SuppliedAs(d) => SuppliedAs(d)'
        BY <3>1, <3>5, <4>2 DEF Settled, Withdrawn, Swapped, SuppliedAs, Balanced
      <4>4. QED
        BY <3>1, <4>1, <4>3 DEF Book, locals
    <3>7. Settled => Settled'
      BY <3>1, <3>5 DEF Settled, Balanced
    <3>8. QED
      BY <2>1, <3>3, <3>6, <3>7
  <2>5. CASE Restart
    <3>1. InFlight = {}
      BY <1>2, <2>5 DEF Restart, Clean, InFlight
    <3>2. outcome' = outcome /\ UNCHANGED <<ledger, books>>
      BY <2>5, <3>1 DEF Restart, TypeOK
    <3>3. InFlight' = {}
      BY <2>5 DEF Restart, InFlight, InFlightPc, Transactions, TypeOK
    <3>4. Moved' = Moved
      BY <3>2, SuccessKept
    <3>5. QED
      BY <2>1, <3>1, <3>2, <3>3, <3>4 DEF Settled, Balanced, ledger, books
  <2>6. CASE UNCHANGED <<callVars, ledger, books>>
    <3>1. /\ UNCHANGED <<pc, locals, outcome, ledger, books>>
          /\ InFlight' = InFlight /\ \A d \in InFlight : d \in Call
      BY <2>6 DEF callVars, InFlight
    <3>2. Moved' = Moved
      BY <3>1, SuccessKept
    <3>3. \A d \in InFlight : Book(d)'
      BY <2>1, <3>1, <3>2, BookKept
    <3>4. Settled => Settled'
      BY <3>1, <3>2 DEF Settled, Balanced, ledger, books
    <3>5. QED
      BY <2>1, <3>1, <3>3, <3>4
  <2>7. QED
    BY <2>2, <2>3, <2>4, <2>5, <2>6 DEF Next, Tick, vars
<1>3. QED
  BY <1>1, <1>2 DEF BooksInv

LEMMA InitBooks ==
    ASSUME Assumptions, Init
    PROVE  BooksInv
<1>1. Success = {} /\ InFlight = {}
  BY DEF Init, Success, InFlight, InFlightPc, Transactions
<1>2. Moved = 0 /\ IsFiniteSet(Success)
  BY <1>1, SumEmpty, FS_EmptySet DEF Moved
<1>3. InitialUsdt \in Nat
  BY DEF Assumptions, AmountAssumption
<1>4. Settled
  BY <1>2, <1>3 DEF Init, Settled, Balanced
<1>5. QED
  BY <1>1, <1>2, <1>4 DEF BooksInv, Init

(* Whatever the rate of the swaps, what is refunded, and the interleaving  *)
(* with manual supplies and restarts: as long as no error is reported of   *)
(* what was applied and runs succeed or roll back, the wallet keeps no     *)
(* more than Burrow refunded of rollbacks, and the collateral is accounted *)
(* for.                                                                    *)
THEOREM CollateralCorrect ==
    ASSUME CallersSerialise
    PROVE  Spec => []CollateralAccounted
<1>1. Init => LockInv
  BY DEF Init, LockInv, OneRebalanceInFlight, InFlight, InFlightPc, Transactions
<1>2. Init => BooksInv
  BY AssumptionsHold, InitBooks
<1>3. TypeOK /\ LockInv /\ BooksInv /\ [Next]_vars => LockInv' /\ BooksInv'
  BY AssumptionsHold, LockStep, BooksStep
<1>4. TypeOK /\ BooksInv => CollateralAccounted
  <2> SUFFICES ASSUME TypeOK, BooksInv, InFlight = {}, Clean
               PROVE  /\ walletUsdc = 0 /\ walletUsdt <= refunded
                      /\ burrowUsdt + walletUsdt = InitialUsdt - SumOver(AmountOf, Success)
                      /\ burrowUsdc >= promised
    BY DEF CollateralAccounted, Clean, Success
  <2>1. Settled
    BY DEF BooksInv
  <2>2. walletUsdt \in Nat /\ refunded \in Nat /\ promised \in Nat /\ burrowUsdc \in Nat
        /\ Moved \in Nat /\ burrowUsdt \in Nat /\ InitialUsdt \in Nat
    BY AssumptionsHold, MovedType DEF TypeOK, BooksInv, Assumptions, AmountAssumption
  <2>3. QED
    BY <2>1, <2>2 DEF Settled, Balanced, Moved
<1>5. QED
  BY <1>1, <1>2, <1>3, <1>4, TypeCorrect, PTL DEF Spec
=============================================================================
