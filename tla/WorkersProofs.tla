--------------------------- MODULE WorkersProofs ---------------------------
(***************************************************************************)
(* Proofs about Workers: one worker per account, and what its steps never  *)
(* do, for any number of accounts, worker objects and ticks.               *)
(***************************************************************************)
EXTENDS Workers, TLAPS

(* The time the BSC worker keeps is the time since its last good trade.    *)
HoldRecorded == sinceHeld = sinceTrade

(* An object that was not started yet has no trace.                        *)
NewIsFresh ==
    \A w \in Worker : status[w] = "new" =>
        errors[w] = 0 /\ ~InCycle(w) /\ ~Registered(w)

LoopInv == RegistryTypeOK /\ OneWorkerPerAccount /\ NewIsFresh
IInv == TypeOK /\ OneWorkerPerAccount /\ NewIsFresh /\ HoldRecorded

-----------------------------------------------------------------------------
(* Whatever the program, a step of a loop starts an object, stops some,    *)
(* begins a cycle, moves on within one, or ends one.                       *)

Starting(w) ==
    /\ RegistryStart(w)
    /\ \E idle \in BOOLEAN : idleRun' = [idleRun EXCEPT ![w] = idle]
    /\ \/ /\ pc' = [pc EXCEPT ![w] = "reading"]
          /\ UNCHANGED armed
       \/ /\ pc' = [pc EXCEPT ![w] = "idle"]
          /\ armed' = [armed EXCEPT ![w] = TRUE]

Stopping(some) ==
    /\ \A w \in some : Registered(w)
    /\ status' = [w \in Worker |-> IF w \in some THEN "stopped" ELSE status[w]]
    /\ armed' = [w \in Worker |-> armed[w] /\ w \notin some]
    /\ UNCHANGED <<registry, errors, idleRun, pc>>

Beginning(w) ==
    /\ TimerFires(w)
    /\ pc' = [pc EXCEPT ![w] = "reading"]
    /\ UNCHANGED <<registry, status, errors, idleRun>>

Moving(w) ==
    /\ InCycle(w)
    /\ \E place \in Await : pc' = [pc EXCEPT ![w] = place]
    /\ UNCHANGED <<registry, status, errors, idleRun, armed>>

Ending(w) ==
    /\ InCycle(w) \/ armed[w]
    /\ CycleDone(w) \/ CycleFails(w)

LoopStep ==
    \/ \E w \in Worker :
           Starting(w) \/ Beginning(w) \/ Moving(w) \/ Ending(w)
    \/ \E some \in SUBSET Worker : Stopping(some)
    \/ UNCHANGED workerVars

-----------------------------------------------------------------------------
(* Each of them keeps the invariant.                                       *)

LEMMA CycleEnds ==
    ASSUME RegistryAssumption, LoopInv, NEW w \in Worker, Ending(w)
    PROVE  LoopInv'
<1> USE DEF LoopInv
<1>1. /\ registry' = registry /\ idleRun' = idleRun
      /\ pc' = [pc EXCEPT ![w] = "idle"]
      /\ armed' = [armed EXCEPT ![w] = status'[w] = "running"]
  BY DEF Ending, CycleDone, CycleFails, ScheduleNext
<1>2. /\ status' \in [Worker -> {"new", "running"} \union Ended]
      /\ \A v \in Worker : status'[v] = "running" => status[v] = "running"
      /\ \A v \in Worker : status'[v] = "new" => status[v] = "new"
      /\ \A v \in Worker \ {w} : status'[v] = status[v]
  BY DEF Ending, CycleDone, CycleFails, RegistryTypeOK, Ended
<1>3. status[w] # "new"
  BY DEF Ending, OneWorkerPerAccount, NewIsFresh
<1>4. /\ errors' \in [Worker -> Nat]
      /\ \A v \in Worker \ {w} : errors'[v] = errors[v]
      /\ status'[w] = "running" => errors'[w] < MaxErrors
  <2>1. MaxErrors \in Nat /\ MaxErrors > 0
    BY DEF RegistryAssumption
  <2>2. CASE CycleDone(w)
    BY <2>1, <2>2 DEF CycleDone, RegistryTypeOK
  <2>3. CASE CycleFails(w)
    <3>1. errors[w] \in Nat /\ errors' = [errors EXCEPT ![w] = errors[w] + 1]
      BY <2>3 DEF CycleFails, RegistryTypeOK
    <3>2. errors[w] + 1 >= MaxErrors => status'[w] = "error"
      BY <2>3 DEF CycleFails, RegistryTypeOK
    <3>3. QED
      BY <2>1, <3>1, <3>2 DEF RegistryTypeOK
  <2>4. QED
    BY <2>2, <2>3 DEF Ending
<1>5. RegistryTypeOK'
  BY <1>1, <1>2, <1>4 DEF RegistryTypeOK
<1>6. ASSUME NEW v \in Worker
      PROVE  /\ status'[v] = "running" => Registered(v)' /\ errors'[v] < MaxErrors
             /\ armed'[v] => status'[v] = "running" /\ ~InCycle(v)'
             /\ status'[v] = "new" =>
                    errors'[v] = 0 /\ ~InCycle(v)' /\ ~Registered(v)'
  <2>1. CASE v = w
    <3>1. pc'[w] = "idle" /\ (armed'[w] => status'[w] = "running")
      BY <1>1 DEF RegistryTypeOK
    <3>2. status'[w] = "running" => Registered(w)'
      BY <1>1, <1>2 DEF OneWorkerPerAccount, Registered
    <3>3. status'[w] # "new"
      BY <1>2, <1>3
    <3>4. QED
      BY <1>4, <2>1, <3>1, <3>2, <3>3 DEF InCycle
  <2>2. CASE v # w
    BY <1>1, <1>2, <1>4, <2>2
       DEF RegistryTypeOK, OneWorkerPerAccount, NewIsFresh, Registered, InCycle
  <2>3. QED
    BY <2>1, <2>2
<1>7. OneWorkerPerAccount' /\ NewIsFresh'
  BY <1>6 DEF OneWorkerPerAccount, NewIsFresh
<1>8. QED
  BY <1>5, <1>7

LEMMA Starts ==
    ASSUME RegistryAssumption, LoopInv, NEW w \in Worker, Starting(w)
    PROVE  LoopInv'
<1> USE DEF LoopInv
<1>1. errors[w] = 0 /\ ~armed[w] /\ status[w] = "new"
  BY DEF Starting, RegistryStart, NewIsFresh, OneWorkerPerAccount
<1>2. PICK place \in {"idle", "reading"}, b \in BOOLEAN :
          /\ pc' = [pc EXCEPT ![w] = place]
          /\ armed' = [armed EXCEPT ![w] = b]
          /\ b => place = "idle"
  <2>1. CASE /\ pc' = [pc EXCEPT ![w] = "reading"]
             /\ UNCHANGED armed
    <3>1. armed' = [armed EXCEPT ![w] = FALSE]
      BY <1>1, <2>1 DEF RegistryTypeOK
    <3>2. QED
      BY <2>1, <3>1
  <2>2. CASE /\ pc' = [pc EXCEPT ![w] = "idle"]
             /\ armed' = [armed EXCEPT ![w] = TRUE]
    BY <2>2
  <2>3. QED
    BY <2>1, <2>2 DEF Starting
<1>3. /\ registry' = [registry EXCEPT ![AccountOf[w]] = w]
      /\ status' = [status EXCEPT ![w] = "running"]
      /\ errors' = errors
  BY DEF Starting, RegistryStart
<1>4. RegistryTypeOK'
  BY <1>2, <1>3 DEF Starting, RegistryTypeOK, RegistryAssumption, Await
<1>5. 0 < MaxErrors
  BY DEF RegistryAssumption
<1>6. ASSUME NEW v \in Worker
      PROVE  /\ status'[v] = "running" => Registered(v)' /\ errors'[v] < MaxErrors
             /\ armed'[v] => status'[v] = "running" /\ ~InCycle(v)'
             /\ status'[v] = "new" =>
                    errors'[v] = 0 /\ ~InCycle(v)' /\ ~Registered(v)'
  <2>1. CASE v = w
    BY <1>1, <1>2, <1>3, <1>5, <2>1
       DEF RegistryTypeOK, RegistryAssumption, Registered, InCycle
  <2>2. CASE v # w
    <3>1. /\ status'[v] = status[v] /\ errors'[v] = errors[v]
          /\ armed'[v] = armed[v] /\ pc'[v] = pc[v]
      BY <1>2, <1>3, <2>2 DEF RegistryTypeOK
    <3>2. status[v] = "running" => AccountOf[v] # AccountOf[w]
      BY <2>2 DEF Starting, RegistryStart, OneWorkerPerAccount
    <3>3. status[v] = "running" => Registered(v)'
      BY <1>3, <3>2 DEF RegistryTypeOK, RegistryAssumption, OneWorkerPerAccount, Registered
    <3>4. Registered(v)' => Registered(v)
      BY <1>3, <2>2 DEF RegistryTypeOK, RegistryAssumption, Registered
    <3>5. QED
      BY <3>1, <3>3, <3>4 DEF OneWorkerPerAccount, NewIsFresh, InCycle
  <2>3. QED
    BY <2>1, <2>2
<1>7. OneWorkerPerAccount' /\ NewIsFresh'
  BY <1>6 DEF OneWorkerPerAccount, NewIsFresh
<1>8. QED
  BY <1>4, <1>7

LEMMA Stops ==
    ASSUME LoopInv, NEW some \in SUBSET Worker, Stopping(some)
    PROVE  LoopInv'
<1> USE DEF LoopInv
<1>1. RegistryTypeOK'
  BY DEF Stopping, RegistryTypeOK, Ended
<1>2. ASSUME NEW v \in Worker
      PROVE  /\ status'[v] = "running" => Registered(v)' /\ errors'[v] < MaxErrors
             /\ armed'[v] => status'[v] = "running" /\ ~InCycle(v)'
             /\ status'[v] = "new" =>
                    errors'[v] = 0 /\ ~InCycle(v)' /\ ~Registered(v)'
  BY DEF Stopping, OneWorkerPerAccount, NewIsFresh, Registered, InCycle
<1>3. OneWorkerPerAccount' /\ NewIsFresh'
  BY <1>2 DEF OneWorkerPerAccount, NewIsFresh
<1>4. QED
  BY <1>1, <1>3

LEMMA Begins ==
    ASSUME LoopInv, NEW w \in Worker, Beginning(w) \/ Moving(w)
    PROVE  LoopInv'
<1> USE DEF LoopInv
<1>1. PICK place \in Await : pc' = [pc EXCEPT ![w] = place]
  BY DEF Beginning, Moving, Await
<1>2. /\ registry' = registry /\ status' = status
      /\ errors' = errors /\ idleRun' = idleRun
      /\ armed' = [armed EXCEPT ![w] = FALSE]
  <2>1. CASE Beginning(w)
    BY <2>1 DEF Beginning, TimerFires
  <2>2. CASE Moving(w)
    <3>1. ~armed[w]
      BY <2>2 DEF Moving, OneWorkerPerAccount
    <3>2. QED
      BY <2>2, <3>1 DEF Moving, RegistryTypeOK
  <2>3. QED
    BY <2>1, <2>2
<1>3. status[w] # "new"
  BY DEF Beginning, Moving, TimerFires, OneWorkerPerAccount, NewIsFresh
<1>4. RegistryTypeOK'
  BY <1>1, <1>2 DEF RegistryTypeOK
<1>5. ASSUME NEW v \in Worker
      PROVE  /\ status'[v] = "running" => Registered(v)' /\ errors'[v] < MaxErrors
             /\ armed'[v] => status'[v] = "running" /\ ~InCycle(v)'
             /\ status'[v] = "new" =>
                    errors'[v] = 0 /\ ~InCycle(v)' /\ ~Registered(v)'
  <2>1. CASE v = w
    BY <1>1, <1>2, <1>3, <2>1 DEF RegistryTypeOK, OneWorkerPerAccount, Registered
  <2>2. CASE v # w
    BY <1>1, <1>2, <2>2
       DEF RegistryTypeOK, OneWorkerPerAccount, NewIsFresh, Registered, InCycle
  <2>3. QED
    BY <2>1, <2>2
<1>6. OneWorkerPerAccount' /\ NewIsFresh'
  BY <1>5 DEF OneWorkerPerAccount, NewIsFresh
<1>7. QED
  BY <1>4, <1>6

LEMMA LoopKeeps ==
    ASSUME RegistryAssumption, LoopInv, LoopStep
    PROVE  LoopInv'
<1>1. CASE UNCHANGED workerVars
  BY <1>1 DEF workerVars, LoopInv, RegistryTypeOK, OneWorkerPerAccount,
              NewIsFresh, Registered, InCycle
<1>2. QED
  BY <1>1, Starts, Stops, Begins, CycleEnds DEF LoopStep

(* What no step of a loop does.                                            *)
LEMMA LoopNeverDoes ==
    ASSUME RegistryAssumption, LoopInv, LoopStep
    PROVE  NoCycleOnceEnded /\ OnlyCurrentBegins
<1> USE DEF LoopInv
<1>1. ASSUME NEW w \in Worker, Starting(w)
      PROVE  NoCycleOnceEnded /\ OnlyCurrentBegins
  <2>1. status[w] = "new"
    BY <1>1 DEF Starting, RegistryStart
  <2>2. \A v \in Worker \ {w} : status'[v] = status[v] /\ pc'[v] = pc[v]
    BY <1>1 DEF Starting, RegistryStart, RegistryTypeOK
  <2>3. NoCycleOnceEnded
    BY <2>1, <2>2 DEF NoCycleOnceEnded, InCycle, Ended
  <2>4. \A v \in Worker : AccountOf[w] = AccountOf[v] /\ w # v => status'[v] # "running"
    BY <1>1, <2>2 DEF Starting, RegistryStart, OneWorkerPerAccount
  <2>5. QED
    BY <2>2, <2>3, <2>4 DEF OnlyCurrentBegins, InCycle
<1>2. ASSUME NEW w \in Worker, Beginning(w)
      PROVE  NoCycleOnceEnded /\ OnlyCurrentBegins
  <2>1. status[w] = "running" /\ Registered(w) /\ status' = status
    BY <1>2 DEF Beginning, TimerFires, OneWorkerPerAccount
  <2>2. \A v \in Worker \ {w} : pc'[v] = pc[v]
    BY <1>2 DEF Beginning, RegistryTypeOK
  <2>3. NoCycleOnceEnded
    BY <2>1, <2>2 DEF NoCycleOnceEnded, InCycle, Ended
  <2>4. \A v \in Worker : AccountOf[w] = AccountOf[v] /\ w # v => status'[v] # "running"
    BY <2>1 DEF OneWorkerPerAccount, Registered
  <2>5. QED
    BY <2>2, <2>3, <2>4 DEF OnlyCurrentBegins, InCycle
<1>3. ASSUME NEW w \in Worker, Moving(w)
      PROVE  NoCycleOnceEnded /\ OnlyCurrentBegins
  <2>1. status' = status /\ \A v \in Worker \ {w} : pc'[v] = pc[v]
    BY <1>3 DEF Moving, RegistryTypeOK
  <2>2. QED
    BY <1>3, <2>1 DEF Moving, NoCycleOnceEnded, OnlyCurrentBegins, InCycle
<1>4. ASSUME NEW w \in Worker, Ending(w)
      PROVE  NoCycleOnceEnded /\ OnlyCurrentBegins
  <2>1. pc' = [pc EXCEPT ![w] = "idle"]
    BY <1>4 DEF Ending, CycleDone, CycleFails, ScheduleNext
  <2>2. \A v \in Worker : InCycle(v)' => InCycle(v)
    BY <2>1 DEF RegistryTypeOK, InCycle
  <2>3. \A v \in Worker : status[v] \in Ended => status'[v] \in Ended
    BY <1>4 DEF Ending, CycleDone, CycleFails, RegistryTypeOK, Ended
  <2>4. QED
    BY <2>2, <2>3 DEF NoCycleOnceEnded, OnlyCurrentBegins
<1>5. ASSUME NEW some \in SUBSET Worker, Stopping(some)
      PROVE  NoCycleOnceEnded /\ OnlyCurrentBegins
  BY <1>5 DEF Stopping, NoCycleOnceEnded, OnlyCurrentBegins, InCycle, Ended
<1>6. CASE UNCHANGED workerVars
  BY <1>6 DEF workerVars, NoCycleOnceEnded, OnlyCurrentBegins, InCycle
<1>7. QED
  BY <1>1, <1>2, <1>3, <1>4, <1>5, <1>6 DEF LoopStep

-----------------------------------------------------------------------------
(* The programs are such loops.                                            *)

LEMMA AgentIsLoop ==
    ASSUME RegistryTypeOK, OneWorkerPerAccount, AgentTypeOK, SendsAssumption, AgentNext
    PROVE  LoopStep /\ AgentTypeOK'
<1>1. ASSUME NEW w \in Worker, AgentStart(w)
      PROVE  Starting(w) /\ AgentTypeOK'
  BY <1>1 DEF AgentStart, Starting, AgentTypeOK
<1>2. ASSUME NEW w \in Worker, AgentStop(w)
      PROVE  Stopping({w}) /\ AgentTypeOK'
  BY <1>2 DEF AgentStop, RegistryStop, Stopping, RegistryTypeOK, AgentTypeOK
<1>3. CASE AgentStopAll
  <2>1. Stopping({w \in Worker : Registered(w) /\ status[w] = "running"})
    BY <1>3 DEF AgentStopAll, Stopping
  <2>2. QED
    BY <1>3, <2>1 DEF AgentStopAll, AgentTypeOK, LoopStep
<1>4. ASSUME NEW w \in Worker, AgentCycle(w)
      PROVE  Beginning(w) /\ AgentTypeOK'
  BY <1>4 DEF AgentCycle, Beginning, AgentTypeOK
<1>5. ASSUME NEW w \in Worker, AgentReturns(w)
      PROVE  LoopStep /\ AgentTypeOK'
  <2>1. CASE AgentReadFails(w) \/ AgentHolds(w)
    <3>1. Ending(w) /\ AgentTypeOK'
      BY <2>1 DEF AgentReadFails, AgentHolds, Ending, InCycle, AgentTypeOK
    <3>2. QED
      BY <3>1 DEF LoopStep
  <2>2. CASE AgentActs(w) \/ AgentBuilt(w)
    <3>1. toSend' \in [Worker -> 0..MaxSends]
      BY <2>2 DEF AgentActs, AgentBuilt, AgentTypeOK, SendsAssumption
    <3>2. Moving(w)
      BY <2>2 DEF AgentActs, AgentBuilt, Moving, InCycle, Await
    <3>3. QED
      BY <3>1, <3>2 DEF LoopStep, AgentTypeOK
  <2>3. CASE AgentSends(w)
    <3>1. toSend' = [toSend EXCEPT ![w] = toSend[w] - 1] /\ toSend[w] \in 2..MaxSends
      BY <2>3 DEF AgentSends, AgentTypeOK, SendsAssumption
    <3>2. AgentTypeOK'
      BY <3>1 DEF AgentTypeOK, SendsAssumption
    <3>3. QED
      BY <2>3, <3>2 DEF AgentSends, LoopStep
  <2>4. CASE AgentSendsLast(w) \/ AgentExecutionFails(w)
    <3>1. toSend' = [toSend EXCEPT ![w] = 0]
      BY <2>4 DEF AgentSendsLast, AgentExecutionFails
    <3>2. AgentTypeOK'
      BY <3>1 DEF AgentTypeOK, SendsAssumption
    <3>3. Ending(w)
      BY <2>4 DEF AgentSendsLast, AgentExecutionFails, Ending, InCycle
    <3>4. QED
      BY <3>2, <3>3 DEF LoopStep
  <2>5. QED
    BY <1>5, <2>1, <2>2, <2>3, <2>4 DEF AgentReturns
<1>6. QED
  BY <1>1, <1>2, <1>3, <1>4, <1>5 DEF AgentNext, LoopStep

LEMMA YieldIsLoop ==
    ASSUME RegistryTypeOK, YieldNext
    PROVE  LoopStep
<1>1. ASSUME NEW w \in Worker, YieldStart(w)
      PROVE  Starting(w)
  <2>1. status'[w] = "running"
    BY <1>1 DEF YieldStart, RegistryStart, RegistryTypeOK
  <2>2. QED
    BY <1>1, <2>1 DEF YieldStart, Starting, ScheduleNext
<1>2. ASSUME NEW w \in Worker, YieldStop(w)
      PROVE  Stopping({w})
  BY <1>2 DEF YieldStop, RegistryStop, Stopping, RegistryTypeOK
<1>3. ASSUME NEW w \in Worker, YieldCycle(w)
      PROVE  Beginning(w)
  BY <1>3 DEF YieldCycle, Beginning
<1>4. ASSUME NEW w \in Worker, YieldPausedCycle(w)
      PROVE  Ending(w)
  BY <1>4 DEF YieldPausedCycle, Ending
<1>5. ASSUME NEW w \in Worker, YieldReturns(w)
      PROVE  Moving(w) \/ Ending(w)
  BY <1>5 DEF YieldReturns, YieldPlanRead, YieldDecides, YieldReadFails,
              Moving, Ending, InCycle, Await
<1>6. QED
  BY <1>1, <1>2, <1>3, <1>4, <1>5 DEF YieldNext, LoopStep

LEMMA BscKeeps ==
    ASSUME BscAssumption, BscTypeOK, HoldRecorded, BscNext
    PROVE  BscTypeOK' /\ HoldRecorded'
<1>1. \A age \in 0..MinHold : Later(age) \in 0..MinHold
  BY DEF Later, BscAssumption
<1>2. CASE BscTime
  BY <1>1, <1>2 DEF BscTime, BscTypeOK, HoldRecorded
<1>3. CASE BscStop
  BY <1>3 DEF BscStop, BscTypeOK, HoldRecorded
<1>4. ASSUME NEW t \in Tick, BscStart(t) \/ BscInterval(t) \/ BscReturns(t)
      PROVE  BscTypeOK' /\ HoldRecorded'
  <2>1. 0 \in 0..MinHold
    BY DEF BscAssumption
  <2>2. PICK place \in {"idle", "planning", "trading"} : TickTo(t, place)
    BY <1>4 DEF BscStart, BscInterval, BscReturns, BscEnds, BscTrades,
                BscTradeReturns, BscTradeThrows
  <2>3. tick' \in [Tick -> {"idle", "planning", "trading"}]
    BY <2>2 DEF TickTo, BscTypeOK
  <2>4. interval' \in BOOLEAN /\ dryRun' \in BOOLEAN
    BY <1>4 DEF BscStart, BscInterval, BscReturns, BscEnds, BscTrades,
                BscTradeReturns, BscTradeThrows, BscTypeOK
  <2>5. sinceHeld' \in 0..MinHold /\ sinceTrade' = sinceHeld'
    BY <1>4, <2>1 DEF BscStart, BscInterval, BscReturns, BscEnds, BscTrades,
                BscTradeReturns, BscTradeThrows, BscTypeOK, HoldRecorded
  <2>6. QED
    BY <2>3, <2>4, <2>5 DEF BscTypeOK, HoldRecorded
<1>5. QED
  BY <1>2, <1>3, <1>4 DEF BscNext

LEMMA BscHolds ==
    ASSUME BscTypeOK, HoldRecorded, BscNext, BscAssumption
    PROVE  HoldKept
<1>1. SUFFICES ASSUME NEW t \in Tick, tick[t] = "planning", tick'[t] = "trading"
               PROVE  sinceTrade >= MinHold
  BY DEF HoldKept
<1>2. \A u \in Tick : TickTo(u, "idle") \/ TickTo(u, "planning") => tick'[t] # "trading"
  BY <1>1 DEF TickTo, BscTypeOK
<1>3. CASE BscStop \/ BscTime
  BY <1>1, <1>3 DEF BscStop, BscTime
<1>4. ASSUME NEW u \in Tick, BscTrades(u)
      PROVE  sinceTrade >= MinHold
  BY <1>4 DEF BscTrades, HoldRecorded
<1>5. ASSUME NEW u \in Tick, BscStart(u) \/ BscInterval(u) \/ BscReturns(u)
      PROVE  sinceTrade >= MinHold
  BY <1>2, <1>4, <1>5, <1>1 DEF BscStart, BscInterval, BscReturns, BscEnds,
                BscTradeReturns, BscTradeThrows
<1>6. QED
  BY <1>3, <1>5 DEF BscNext

-----------------------------------------------------------------------------
(* The invariant of the specification.                                     *)

LEMMA InitInv == Init => IInv
<1> SUFFICES ASSUME Init PROVE IInv
  OBVIOUS
<1>1. RegistryTypeOK
  BY DEF Init, RegistryInit, RegistryTypeOK, Ended, Await
<1>2. AgentTypeOK
  BY SendsAssumption DEF Init, AgentInit, AgentTypeOK, SendsAssumption
<1>3. BscTypeOK /\ HoldRecorded
  <2>1. MinHold \in 0..MinHold
    BY BscAssumption DEF BscAssumption
  <2>2. BscInit
    BY DEF Init
  <2>3. BscTypeOK
    BY <2>1, <2>2 DEF BscInit, BscTypeOK
  <2>4. QED
    BY <2>2, <2>3 DEF BscInit, HoldRecorded
<1>4. \A w \in Worker : registry[AccountOf[w]] = NoWorker
  BY RegistryAssumption DEF Init, RegistryInit, RegistryAssumption
<1>5. OneWorkerPerAccount /\ NewIsFresh
  BY <1>4, RegistryAssumption
     DEF Init, RegistryInit, RegistryAssumption, OneWorkerPerAccount, NewIsFresh,
         InCycle, Registered
<1>6. QED
  BY <1>1, <1>2, <1>3, <1>5 DEF Init, IInv, TypeOK

(* One step: the invariant again, and what a step never does.              *)
LEMMA NextInv ==
    ASSUME IInv, [Next]_vars
    PROVE  IInv' /\ (vars' = vars \/ (NoCycleOnceEnded /\ OnlyCurrentBegins /\ HoldKept))
<1>1. LoopInv /\ RegistryAssumption /\ SendsAssumption /\ BscAssumption
  BY RegistryAssumption, SendsAssumption, BscAssumption DEF IInv, TypeOK, LoopInv
<1>2. ASSUME UNCHANGED bscVars
      PROVE  BscTypeOK' /\ HoldRecorded' /\ HoldKept
  BY <1>2 DEF IInv, TypeOK, bscVars, BscTypeOK, HoldRecorded, HoldKept
<1>3. ASSUME LoopStep
      PROVE  LoopInv' /\ NoCycleOnceEnded /\ OnlyCurrentBegins
  BY <1>1, <1>3, LoopKeeps, LoopNeverDoes
<1>4. CASE Agent
  BY <1>1, <1>2, <1>3, <1>4, AgentIsLoop DEF Agent, IInv, TypeOK, LoopInv
<1>5. CASE Yield
  BY <1>1, <1>2, <1>3, <1>5, YieldIsLoop DEF Yield, IInv, TypeOK, LoopInv, AgentTypeOK
<1>6. CASE Bsc
  <2>1. LoopStep /\ AgentTypeOK' /\ kind' \in Kind
    BY <1>6 DEF Bsc, LoopStep, IInv, TypeOK, AgentTypeOK
  <2>2. BscTypeOK' /\ HoldRecorded' /\ HoldKept
    BY <1>1, <1>6, BscKeeps, BscHolds DEF Bsc, IInv, TypeOK
  <2>3. QED
    BY <1>3, <2>1, <2>2 DEF IInv, TypeOK, LoopInv
<1>7. CASE UNCHANGED vars
  <2>1. LoopStep /\ AgentTypeOK' /\ kind' \in Kind /\ UNCHANGED bscVars
    BY <1>7 DEF vars, LoopStep, IInv, TypeOK, AgentTypeOK
  <2>2. QED
    BY <1>2, <1>3, <1>7, <2>1 DEF IInv, TypeOK, LoopInv
<1>8. QED
  BY <1>4, <1>5, <1>6, <1>7 DEF Next

LEMMA Invariant == Spec => []IInv
<1>1. IInv /\ [Next]_vars => IInv'
  BY NextInv
<1>2. QED
  BY InitInv, <1>1, PTL DEF Spec

(* The types of the state of the three workers.                            *)
THEOREM TypeCorrect == Spec => []TypeOK
<1>1. IInv => TypeOK
  BY DEF IInv
<1>2. QED
  BY Invariant, <1>1, PTL

(* Every worker that runs and every timer that is set belongs to the       *)
(* registered worker of its account, whatever is started, stopped or       *)
(* failing, and in whatever order cycles end.                              *)
THEOREM OneWorker == Spec => []OneWorkerPerAccount
<1>1. IInv => OneWorkerPerAccount
  BY DEF IInv
<1>2. QED
  BY Invariant, <1>1, PTL

(* No cycle begins for an ended worker or while another of the account     *)
(* runs, and no BSC trade begins within the hold of a good one.            *)
THEOREM StepsKept == Spec => WorkerSteps
<1>1. IInv /\ [Next]_vars => [NoCycleOnceEnded /\ OnlyCurrentBegins /\ HoldKept]_vars
  BY NextInv
<1>2. QED
  BY Invariant, <1>1, PTL DEF Spec, WorkerSteps
=============================================================================
