---------------------- MODULE AutonomousStrategyProofs ----------------------
(***************************************************************************)
(* Proofs about the contract, for every set of accounts, roles, requests,  *)
(* risk configurations and every depth of call-backs: no cycle runs inside *)
(* another, nonces are used in order and once, failures are recovered one  *)
(* by one, executed cycles are a cooldown apart, and the contract          *)
(* implements CycleLedger.                                                 *)
(***************************************************************************)
EXTENDS AutonomousStrategy, FiniteSetTheorems, TLAPS

Assumptions == AccountAssumption /\ RiskAssumption

LEMMA AssumptionsHold == Assumptions
BY AccountAssumption, RiskAssumption DEF Assumptions

(* The cycle in progress: what a call-back cannot have changed since it    *)
(* began.  A revert thus gives back storage that fits the kept events.     *)
CycleInProgress ==
    frames # <<>> =>
        /\ frames[1].saved.cycleState = "Idle"
        /\ frames[1].saved.decisions = storage.decisions
        /\ frames[1].saved.recoveries = storage.recoveries
        /\ frames[1].saved.lastTransitionNonce = storage.lastTransitionNonce
        /\ frames[1].saved.lastExecutionAt = storage.lastExecutionAt
        /\ frames[1].saved.lastExecutionAt + frames[1].saved.cooldownSeconds <= timestamp
        /\ frames[1].request.transitionNonce = storage.lastTransitionNonce + 1
        /\ frames[1].request.cycleId = storage.activeCycleId

IInv == TypeOK /\ NotNested /\ CycleInProgress /\ NoncesInOrder /\ HaltsRecovered
-----------------------------------------------------------------------------
(* Types. *)

LEMMA InitType ==
    ASSUME Assumptions, Init  PROVE TypeOK
BY DEF Init, TypeOK, Storage, Risk, Assumptions, AccountAssumption, RiskAssumption

(* The steps of an account that await nothing leave frames and time alone. *)
LEMMA ConfigurationType ==
    ASSUME Assumptions, TypeOK, NEW a \in Account,
           \/ \E account \in Account : GrantRole(a, account)
           \/ \E risk \in RiskConfig : SetRiskConfig(a, risk)
           \/ \E value \in BOOLEAN : SetEmergencyPause(a, value)
           \/ RecoverFromHalt(a)
    PROVE  TypeOK'
<1>1. ASSUME NEW account \in Account, GrantRole(a, account)
      PROVE  TypeOK'
  <2>1. /\ storage.admins \union {account} \in SUBSET Account
        /\ storage.emergencies \union {account} \in SUBSET Account
    BY DEF TypeOK, Storage
  <2>2. storage' \in Storage
    BY <1>1, <2>1 DEF GrantRole, TypeOK, Storage
  <2>3. QED
    BY <1>1, <2>2 DEF GrantRole, TypeOK
<1>2. ASSUME NEW risk \in RiskConfig, SetRiskConfig(a, risk)
      PROVE  TypeOK'
  <2>1. risk.maxAmountRaw \in Nat /\ risk.cooldownSeconds \in Nat
    BY DEF Assumptions, RiskAssumption, Risk
  <2>2. QED
    BY <1>2, <2>1 DEF SetRiskConfig, TypeOK, Storage
<1>3. ASSUME NEW value \in BOOLEAN, SetEmergencyPause(a, value)
      PROVE  TypeOK'
  BY <1>3 DEF SetEmergencyPause, TypeOK, Storage
<1>4. CASE RecoverFromHalt(a)
  <2>1. storage.recoveries + 1 \in Nat
    BY DEF TypeOK, Storage
  <2>2. storage' \in Storage
    BY <1>4, <2>1 DEF RecoverFromHalt, TypeOK, Storage
  <2>3. QED
    BY <1>4, <2>2 DEF RecoverFromHalt, TypeOK
<1>5. QED
  BY <1>1, <1>2, <1>3, <1>4

LEMMA RunType ==
    ASSUME TypeOK, NEW a \in Account, NEW request \in Request,
           RunDeterministicCycle(a, request)
    PROVE  TypeOK'
<1>1. frames' \in Seq(Frame)
  BY DEF RunDeterministicCycle, TypeOK, Frame
<1>2. storage' \in Storage
  BY DEF RunDeterministicCycle, TypeOK, Storage, Request
<1>3. QED
  BY <1>1, <1>2 DEF RunDeterministicCycle, TypeOK

LEMMA TopType ==
    ASSUME TypeOK, frames # <<>>
    PROVE  /\ Top.request \in Request /\ Top.saved \in Storage
           /\ SubSeq(frames, 1, Len(frames) - 1) \in Seq(Frame)
<1>1. Len(frames) \in Nat \ {0} /\ frames[Len(frames)] \in Frame
  BY DEF TypeOK
<1>2. SubSeq(frames, 1, Len(frames) - 1) \in Seq(Frame)
  BY <1>1 DEF TypeOK
<1>3. QED
  BY <1>1, <1>2 DEF Top, Frame

LEMMA DecidedType ==
    ASSUME Assumptions, TypeOK, frames # <<>>, NEW ok \in BOOLEAN
    PROVE  Decided(ok) \in Seq(Decision)
<1>1. [transitionNonce |-> Top.request.transitionNonce, cycleId |-> Top.request.cycleId,
       executed |-> ok] \in Decision
  BY TopType DEF Request, Decision, Assumptions, RiskAssumption
<1>2. storage.decisions \in Seq(Decision)
  BY DEF TypeOK, Storage
<1>3. QED
  BY <1>1, <1>2 DEF Decided

LEMMA RouterType ==
    ASSUME Assumptions, TypeOK, RouterSucceeds \/ RouterFails \/ RouterReverts
    PROVE  TypeOK'
<1>1. frames # <<>>
  BY DEF RouterSucceeds, RouterFails, RouterReverts
<1>2. frames' \in Seq(Frame)
  BY <1>1, TopType DEF RouterSucceeds, RouterFails, RouterReverts, Pop
<1>3. timestamp' \in Nat \ {0}
  BY DEF RouterSucceeds, RouterFails, RouterReverts, TypeOK
<1>4. Top.request.transitionNonce \in Nat
  BY <1>1, TopType DEF Request, Assumptions, RiskAssumption
<1>5. Decided(TRUE) \in Seq(Decision) /\ Decided(FALSE) \in Seq(Decision)
  BY <1>1, DecidedType
<1>6. storage' \in Storage
  <2>1. CASE RouterSucceeds
    BY <2>1, <1>4, <1>5 DEF RouterSucceeds, TypeOK, Storage
  <2>2. CASE RouterFails
    BY <2>2, <1>4, <1>5 DEF RouterFails, Halted, TypeOK, Storage
  <2>3. CASE RouterReverts
    BY <2>3, <1>1, TopType DEF RouterReverts
  <2>4. QED
    BY <2>1, <2>2, <2>3
<1>7. QED
  BY <1>2, <1>3, <1>6 DEF TypeOK

LEMMA TypeStep ==
    ASSUME Assumptions, TypeOK, [Next]_vars  PROVE TypeOK'
<1>1. CASE NextBlock
  BY <1>1 DEF NextBlock, TypeOK
<1>2. CASE UNCHANGED vars
  BY <1>2 DEF vars, TypeOK
<1>3. QED
  BY <1>1, <1>2, ConfigurationType, RunType, RouterType DEF Next

(* Storage, frames and events have their types in every state, whatever is *)
(* restored by a revert.                                                   *)
THEOREM TypeCorrect == Spec => []TypeOK
<1>1. Init => TypeOK
  BY InitType, AssumptionsHold
<1>2. TypeOK /\ [Next]_vars => TypeOK'
  BY TypeStep, AssumptionsHold
<1>3. QED
  BY <1>1, <1>2, PTL DEF Spec
-----------------------------------------------------------------------------
(* The cycle in progress and the order of the events. *)

(* Calls that await nothing change neither the cycle in progress nor the   *)
(* events, except that a recovery answers the last failure.                *)
Configured ==
    /\ UNCHANGED <<frames, timestamp>>
    /\ storage'.cycleState = storage.cycleState
    /\ storage'.activeCycleId = storage.activeCycleId
    /\ storage'.decisions = storage.decisions
    /\ storage'.recoveries = storage.recoveries
    /\ storage'.lastTransitionNonce = storage.lastTransitionNonce
    /\ storage'.lastExecutionAt = storage.lastExecutionAt

LEMMA ConfigurationKeeps ==
    ASSUME TypeOK, NEW a \in Account,
           \/ \E account \in Account : GrantRole(a, account)
           \/ \E risk \in RiskConfig : SetRiskConfig(a, risk)
           \/ \E value \in BOOLEAN : SetEmergencyPause(a, value)
    PROVE  Configured
<1>1. ASSUME NEW account \in Account, GrantRole(a, account)
      PROVE  Configured
  BY <1>1 DEF GrantRole, Configured, TypeOK, Storage
<1>2. ASSUME NEW risk \in RiskConfig, SetRiskConfig(a, risk)
      PROVE  Configured
  BY <1>2 DEF SetRiskConfig, Configured, TypeOK, Storage
<1>3. ASSUME NEW value \in BOOLEAN, SetEmergencyPause(a, value)
      PROVE  Configured
  BY <1>3 DEF SetEmergencyPause, Configured, TypeOK, Storage
<1>4. QED
  BY <1>1, <1>2, <1>3

(* With one frame at most, the frame that returns is the only one. *)
LEMMA OneFrame ==
    ASSUME TypeOK, NotNested, frames # <<>>
    PROVE  /\ Len(frames) = 1 /\ Top = frames[1]
           /\ SubSeq(frames, 1, Len(frames) - 1) = <<>>
<1>1. Len(frames) = 1
  <2>1. Len(frames) \in Nat /\ Len(frames) # 0 /\ Len(frames) <= 1
    BY DEF TypeOK, NotNested
  <2>2. \A n \in Nat : n # 0 /\ n <= 1 => n = 1
    OBVIOUS
  <2>3. QED
    BY <2>1, <2>2, Zenon
<1>2. SubSeq(frames, 1, Len(frames) - 1) = <<>>
  BY <1>1 DEF TypeOK
<1>3. QED
  BY <1>1, <1>2 DEF Top

(* What a failing and a succeeding router have in common. *)
Returned(ok) ==
    /\ frames # <<>> /\ frames' = <<>> /\ UNCHANGED timestamp
    /\ storage'.decisions = Append(storage.decisions,
           [transitionNonce |-> frames[1].request.transitionNonce,
            cycleId |-> frames[1].request.cycleId, executed |-> ok])
    /\ storage'.lastTransitionNonce = frames[1].request.transitionNonce
    /\ storage'.recoveries = storage.recoveries
    /\ storage'.activeCycleId = storage.activeCycleId
    /\ storage'.cycleState = IF ok THEN "Idle" ELSE "Halted"
    /\ storage'.lastExecutionAt = IF ok THEN timestamp ELSE storage.lastExecutionAt

LEMMA RouterReturns ==
    ASSUME TypeOK, NotNested
    PROVE  (RouterSucceeds => Returned(TRUE)) /\ (RouterFails => Returned(FALSE))
<1>1. ASSUME RouterSucceeds  PROVE Returned(TRUE)
  BY <1>1, OneFrame DEF RouterSucceeds, Returned, Pop, Decided, TypeOK, Storage
<1>2. ASSUME RouterFails  PROVE Returned(FALSE)
  BY <1>2, OneFrame DEF RouterFails, Halted, Returned, Pop, Decided, TypeOK, Storage
<1>3. QED
  BY <1>1, <1>2

LEMMA RunStarts ==
    ASSUME TypeOK, NotNested, NEW a \in Account, NEW request \in Request,
           RunDeterministicCycle(a, request)
    PROVE  /\ frames = <<>> /\ storage.cycleState = "Idle"
           /\ frames' = <<[request |-> request, saved |-> storage]>>
           /\ UNCHANGED timestamp
           /\ CooledDown
           /\ request.transitionNonce = storage.lastTransitionNonce + 1
           /\ storage'.cycleState = "Triggered"
           /\ storage'.activeCycleId = request.cycleId
           /\ storage'.decisions = storage.decisions
           /\ storage'.recoveries = storage.recoveries
           /\ storage'.lastTransitionNonce = storage.lastTransitionNonce
           /\ storage'.lastExecutionAt = storage.lastExecutionAt
<1>1. /\ storage.cycleState = "Idle" /\ CooledDown /\ UNCHANGED timestamp
      /\ request.transitionNonce = storage.lastTransitionNonce + 1
  BY DEF RunDeterministicCycle, Admissible
<1>2. frames = <<>>
  BY <1>1 DEF NotNested
<1>3. frames' = <<[request |-> request, saved |-> storage]>>
  BY <1>2 DEF RunDeterministicCycle
<1>4. storage' = [storage EXCEPT !.activeCycleId = request.cycleId,
                                 !.cycleState = "Triggered"]
  BY DEF RunDeterministicCycle
<1>5. /\ storage'.cycleState = "Triggered"
      /\ storage'.activeCycleId = request.cycleId
      /\ storage'.decisions = storage.decisions
      /\ storage'.recoveries = storage.recoveries
      /\ storage'.lastTransitionNonce = storage.lastTransitionNonce
      /\ storage'.lastExecutionAt = storage.lastExecutionAt
  BY <1>4 DEF TypeOK, Storage
<1>6. QED
  BY <1>1, <1>2, <1>3, <1>5

LEMMA CycleStep ==
    ASSUME Assumptions, TypeOK, NotNested, CycleInProgress, [Next]_vars
    PROVE  NotNested' /\ CycleInProgress'
<1>1. CASE Configured
  BY <1>1 DEF Configured, NotNested, CycleInProgress
<1>2. ASSUME NEW a \in Account, NEW request \in Request, RunDeterministicCycle(a, request)
      PROVE  NotNested' /\ CycleInProgress'
  <2>1. /\ frames' # <<>> /\ Len(frames') = 1
        /\ frames'[1].saved = storage /\ frames'[1].request = request
    <3>1. frames' = <<[request |-> request, saved |-> storage]>>
      BY <1>2, RunStarts
    <3>2. QED
      BY <3>1
  <2>2. /\ storage'.cycleState = "Triggered" /\ storage'.activeCycleId = request.cycleId
        /\ storage'.decisions = storage.decisions /\ storage'.recoveries = storage.recoveries
        /\ storage'.lastTransitionNonce = storage.lastTransitionNonce
        /\ storage'.lastExecutionAt = storage.lastExecutionAt
    BY <1>2, RunStarts
  <2>3. storage.lastExecutionAt + storage.cooldownSeconds <= timestamp'
    BY <1>2, RunStarts DEF CooledDown, TypeOK, Storage
  <2>4. storage.cycleState = "Idle" /\ request.transitionNonce = storage.lastTransitionNonce + 1
    BY <1>2, RunStarts
  <2>5. NotNested'
    BY <2>1, <2>2 DEF NotNested
  <2>6. CycleInProgress'
    BY <2>1, <2>2, <2>3, <2>4 DEF CycleInProgress
  <2>7. QED
    BY <2>5, <2>6
<1>3. CASE RouterSucceeds \/ RouterFails
  BY <1>3, RouterReturns DEF Returned, NotNested, CycleInProgress
<1>4. CASE RouterReverts
  <2>1. frames' = <<>> /\ storage' = frames[1].saved /\ storage'.cycleState = "Idle"
    BY <1>4, OneFrame DEF RouterReverts, Pop, CycleInProgress
  <2>2. QED
    BY <2>1 DEF NotNested, CycleInProgress
<1>5. ASSUME NEW a \in Account, RecoverFromHalt(a)
      PROVE  NotNested' /\ CycleInProgress'
  <2>1. frames = <<>> /\ frames' = <<>> /\ storage'.cycleState = "Idle"
    BY <1>5 DEF RecoverFromHalt, NotNested, TypeOK, Storage
  <2>2. QED
    BY <2>1 DEF NotNested, CycleInProgress
<1>6. CASE NextBlock \/ UNCHANGED vars
  BY <1>6 DEF NextBlock, vars, NotNested, CycleInProgress
<1>7. QED
  BY <1>1, <1>2, <1>3, <1>4, <1>5, <1>6, ConfigurationKeeps DEF Next

(* Steps that leave the events as they are, and the ones that add one. *)
LEMMA DecisionsStep ==
    ASSUME Assumptions, TypeOK, NotNested, CycleInProgress, [Next]_vars
    PROVE  \/ UNCHANGED <<storage.decisions, storage.lastTransitionNonce>>
           \/ \E ok \in BOOLEAN : Returned(ok)
<1>1. ASSUME NEW a \in Account, NEW request \in Request, RunDeterministicCycle(a, request)
      PROVE  UNCHANGED <<storage.decisions, storage.lastTransitionNonce>>
  BY <1>1, RunStarts
<1>2. CASE RouterReverts
  BY <1>2, OneFrame DEF RouterReverts, CycleInProgress
<1>3. ASSUME NEW a \in Account, RecoverFromHalt(a)
      PROVE  UNCHANGED <<storage.decisions, storage.lastTransitionNonce>>
  BY <1>3 DEF RecoverFromHalt, TypeOK, Storage
<1>4. CASE NextBlock \/ UNCHANGED vars
  BY <1>4 DEF NextBlock, vars
<1>5. CASE Configured
  BY <1>5 DEF Configured
<1>6. QED
  BY <1>1, <1>2, <1>3, <1>4, <1>5, RouterReturns, ConfigurationKeeps DEF Next

LEMMA NoncesStep ==
    ASSUME Assumptions, TypeOK, NotNested, CycleInProgress, NoncesInOrder, [Next]_vars
    PROVE  NoncesInOrder'
<1>1. CASE UNCHANGED <<storage.decisions, storage.lastTransitionNonce>>
  BY <1>1 DEF NoncesInOrder
<1>2. ASSUME NEW ok \in BOOLEAN, Returned(ok)
      PROVE  NoncesInOrder'
  <2> DEFINE event == [transitionNonce |-> frames[1].request.transitionNonce,
                       cycleId |-> frames[1].request.cycleId, executed |-> ok]
  <2>1. event.transitionNonce = Len(storage.decisions) + 1
    BY <1>2 DEF Returned, CycleInProgress, NoncesInOrder
  <2>2. storage.decisions \in Seq(Decision)
    BY DEF TypeOK, Storage
  <2>3. storage'.decisions = Append(storage.decisions, event)
        /\ storage'.lastTransitionNonce = event.transitionNonce
    BY <1>2 DEF Returned
  <2>4. Len(Append(storage.decisions, event)) = Len(storage.decisions) + 1
    BY <2>2
  <2>5. ASSUME NEW n \in 1..Len(storage.decisions) + 1
        PROVE  Append(storage.decisions, event)[n].transitionNonce = n
    <3>1. CASE n = Len(storage.decisions) + 1
      BY <2>1, <2>2, <3>1
    <3>2. CASE n \in 1..Len(storage.decisions)
      BY <2>2, <3>2 DEF NoncesInOrder
    <3>3. QED
      BY <2>2, <3>1, <3>2
  <2>6. QED
    BY <2>1, <2>3, <2>4, <2>5 DEF NoncesInOrder
<1>3. QED
  BY <1>1, <1>2, DecisionsStep
-----------------------------------------------------------------------------
(* Failures and recoveries. *)

LEMMA FailuresFinite ==
    ASSUME TypeOK
    PROVE  IsFiniteSet(Failures) /\ Cardinality(Failures) \in Nat
<1>1. Len(storage.decisions) \in Nat
  BY DEF TypeOK, Storage
<1>2. IsFiniteSet(1..Len(storage.decisions))
  BY <1>1, FS_Interval
<1>3. Failures \subseteq 1..Len(storage.decisions)
  BY DEF Failures
<1>4. QED
  BY <1>2, <1>3, FS_Subset, FS_CardinalityType

LEMMA FailuresStep ==
    ASSUME TypeOK, NEW ok \in BOOLEAN, Returned(ok)
    PROVE  Failures' = IF ok THEN Failures ELSE Failures \union {Len(storage.decisions) + 1}
<1> DEFINE event == [transitionNonce |-> frames[1].request.transitionNonce,
                     cycleId |-> frames[1].request.cycleId, executed |-> ok]
           longer == Append(storage.decisions, event)
<1>1. storage.decisions \in Seq(Decision) /\ storage'.decisions = longer
  BY DEF TypeOK, Storage, Returned
<1>2. Len(longer) = Len(storage.decisions) + 1
  BY <1>1
<1>3. longer[Len(storage.decisions) + 1].executed = ok
  BY <1>1
<1>4. \A n \in 1..Len(storage.decisions) : longer[n] = storage.decisions[n]
  BY <1>1
<1>5. Len(storage.decisions) \in Nat
  BY <1>1
<1>6. Failures' = {n \in 1..Len(storage.decisions) + 1 : ~longer[n].executed}
  BY <1>1, <1>2 DEF Failures
<1> HIDE DEF longer
<1>7. QED
  BY <1>3, <1>4, <1>5, <1>6 DEF Failures

(* The event of the cycle that returns is the last one. *)
LEMMA LastDecision ==
    ASSUME TypeOK, CycleInProgress, NEW ok \in BOOLEAN, Returned(ok)
    PROVE  /\ storage'.decisions # <<>>
           /\ storage'.decisions[Len(storage'.decisions)].executed = ok
           /\ storage'.decisions[Len(storage'.decisions)].cycleId = storage'.activeCycleId
<1> DEFINE event == [transitionNonce |-> frames[1].request.transitionNonce,
                     cycleId |-> frames[1].request.cycleId, executed |-> ok]
           longer == Append(storage.decisions, event)
<1>1. storage.decisions \in Seq(Decision) /\ storage'.decisions = longer
  BY DEF TypeOK, Storage, Returned
<1>2. event.cycleId = storage'.activeCycleId /\ event.executed = ok
  BY DEF Returned, CycleInProgress
<1> HIDE DEF event
<1>3. longer # <<>> /\ longer[Len(longer)] = event
  BY <1>1
<1>4. QED
  BY <1>1, <1>2, <1>3

LEMMA HaltStep ==
    ASSUME Assumptions, TypeOK, NotNested, CycleInProgress, HaltsRecovered, [Next]_vars
    PROVE  HaltsRecovered'
<1>1. CASE UNCHANGED <<storage.decisions, storage.recoveries>>
           /\ storage.cycleState # "Halted" /\ storage'.cycleState # "Halted"
  BY <1>1 DEF HaltsRecovered, Failures
<1>2. CASE UNCHANGED <<storage.decisions, storage.recoveries, storage.cycleState,
                       storage.activeCycleId>>
  BY <1>2 DEF HaltsRecovered, Failures
<1>3. ASSUME NEW a \in Account, NEW request \in Request, RunDeterministicCycle(a, request)
      PROVE  HaltsRecovered'
  BY <1>1, <1>3, RunStarts
<1>4. ASSUME NEW ok \in BOOLEAN, Returned(ok)
      PROVE  HaltsRecovered'
  <2> DEFINE n == Len(storage.decisions) + 1
  <2>1. storage.cycleState = "Triggered" /\ storage'.recoveries = storage.recoveries
        /\ storage'.cycleState = IF ok THEN "Idle" ELSE "Halted"
    BY <1>4 DEF Returned, NotNested
  <2>2. Cardinality(Failures) = storage.recoveries /\ storage.recoveries \in Nat
    BY <2>1 DEF HaltsRecovered, TypeOK, Storage
  <2>3. CASE ok
    BY <1>4, <2>1, <2>2, <2>3, FailuresStep DEF HaltsRecovered
  <2>4. CASE ~ok
    <3>1. n \notin Failures
      BY DEF Failures, TypeOK, Storage
    <3>2. Cardinality(Failures') = Cardinality(Failures) + 1
      BY <1>4, <2>4, <3>1, FailuresStep, FailuresFinite, FS_AddElement
    <3>3. /\ storage'.decisions # <<>>
          /\ ~storage'.decisions[Len(storage'.decisions)].executed
          /\ storage'.decisions[Len(storage'.decisions)].cycleId = storage'.activeCycleId
      BY <1>4, LastDecision, <2>4
    <3>4. QED
      BY <2>1, <2>2, <2>4, <3>2, <3>3 DEF HaltsRecovered
  <2>5. QED
    BY <2>3, <2>4
<1>5. CASE RouterReverts
  BY <1>1, <1>5, OneFrame DEF RouterReverts, CycleInProgress, NotNested
<1>6. ASSUME NEW a \in Account, RecoverFromHalt(a)
      PROVE  HaltsRecovered'
  <2>1. /\ storage.cycleState = "Halted" /\ storage'.cycleState = "Idle"
        /\ storage'.decisions = storage.decisions
        /\ storage'.recoveries = storage.recoveries + 1
    BY <1>6 DEF RecoverFromHalt, TypeOK, Storage
  <2>2. storage.recoveries \in Nat
    BY DEF TypeOK, Storage
  <2>3. QED
    BY <2>1, <2>2 DEF HaltsRecovered, Failures
<1>7. CASE Configured
  BY <1>2, <1>7 DEF Configured
<1>8. CASE NextBlock \/ UNCHANGED vars
  BY <1>2, <1>8 DEF NextBlock, vars
<1>9. QED
  BY <1>3, <1>4, <1>5, <1>6, <1>7, <1>8, RouterReturns, ConfigurationKeeps DEF Next
-----------------------------------------------------------------------------
(* The inductive invariant and what follows from it. *)

LEMMA InitInvariant ==
    ASSUME Assumptions, Init  PROVE IInv
<1>1. TypeOK
  BY InitType
<1>2. NotNested /\ CycleInProgress /\ NoncesInOrder
  BY DEF Init, NotNested, CycleInProgress, NoncesInOrder
<1>3. Failures = {}
  BY DEF Init, Failures
<1>4. HaltsRecovered
  BY <1>3, FS_EmptySet DEF Init, HaltsRecovered
<1>5. QED
  BY <1>1, <1>2, <1>4 DEF IInv

THEOREM InvariantHolds == Spec => []IInv
<1>1. Init => IInv
  BY InitInvariant, AssumptionsHold
<1>2. IInv /\ [Next]_vars => IInv'
  BY TypeStep, CycleStep, NoncesStep, HaltStep, AssumptionsHold DEF IInv
<1>3. QED
  BY <1>1, <1>2, PTL DEF Spec

(* No cycle runs inside another: the state Triggered is a lock that every  *)
(* call-back meets, however deep it is and whatever role it holds.         *)
THEOREM NoNesting == Spec => []NotNested
<1>1. IInv => NotNested
  BY DEF IInv
<1>2. QED
  BY <1>1, InvariantHolds, PTL

(* Nonces are used in order, none twice and none skipped. *)
THEOREM NonceOrder == Spec => []NoncesInOrder
<1>1. IInv => NoncesInOrder
  BY DEF IInv
<1>2. QED
  BY <1>1, InvariantHolds, PTL

(* Every failure but a halt in force has had its one recovery. *)
THEOREM RecoveriesMatch == Spec => []HaltsRecovered
<1>1. IInv => HaltsRecovered
  BY DEF IInv
<1>2. QED
  BY <1>1, InvariantHolds, PTL

(* What a step looks like from outside: nothing happens before the cycle   *)
(* that is in progress returns.                                            *)
LEMMA CommittedCycle ==
    ASSUME TypeOK, NotNested, NEW ok \in BOOLEAN, Returned(ok)
    PROVE  Committed = frames[1].saved /\ Committed' = storage'
BY DEF Returned, Committed

LEMMA CommittedCalls ==
    ASSUME Assumptions, IInv, [Next]_vars, \A ok \in BOOLEAN : ~Returned(ok)
    PROVE  /\ Committed'.lastExecutionAt = Committed.lastExecutionAt
           /\ Committed'.decisions = Committed.decisions
           /\ \/ (Committed'.cycleState = "Halted") = (Committed.cycleState = "Halted")
              \/ Committed.cycleState = "Halted" /\ Committed'.cycleState # "Halted"
<1> USE DEF IInv
<1>1. CASE Configured
  BY <1>1 DEF Configured, Committed
<1>2. ASSUME NEW a \in Account, NEW request \in Request, RunDeterministicCycle(a, request)
      PROVE  Committed' = Committed
  <2>1. frames = <<>> /\ frames' = <<[request |-> request, saved |-> storage]>>
    BY <1>2, RunStarts
  <2>2. frames' # <<>> /\ frames'[1].saved = storage
    BY <2>1
  <2>3. QED
    BY <2>1, <2>2 DEF Committed
<1>3. CASE RouterReverts
  BY <1>3, OneFrame DEF RouterReverts, Pop, Committed
<1>4. ASSUME NEW a \in Account, RecoverFromHalt(a)
      PROVE  /\ frames = <<>> /\ frames' = <<>>
             /\ storage.cycleState = "Halted" /\ storage'.cycleState = "Idle"
             /\ storage'.decisions = storage.decisions
             /\ storage'.lastExecutionAt = storage.lastExecutionAt
  BY <1>4 DEF RecoverFromHalt, NotNested, TypeOK, Storage
<1>5. CASE NextBlock \/ UNCHANGED vars
  BY <1>5 DEF NextBlock, vars, Committed
<1>6. ASSUME NEW a \in Account, RecoverFromHalt(a)
      PROVE  /\ Committed'.lastExecutionAt = Committed.lastExecutionAt
             /\ Committed'.decisions = Committed.decisions
             /\ Committed.cycleState = "Halted" /\ Committed'.cycleState # "Halted"
  BY <1>4, <1>6 DEF Committed
<1>7. ~RouterSucceeds /\ ~RouterFails
  BY RouterReturns
<1>8. QED
  BY <1>1, <1>2, <1>3, <1>5, <1>6, <1>7, ConfigurationKeeps DEF Next

(* Executed cycles are as far apart as the cooldown in force when the      *)
(* later one began, whatever a call-back did to the configuration.         *)
THEOREM CooldownHolds == Spec => CooldownKept
<1>1. ASSUME Assumptions, IInv, [Next]_vars,
             Committed'.lastExecutionAt # Committed.lastExecutionAt
      PROVE  Committed'.lastExecutionAt >= Committed.lastExecutionAt + Committed.cooldownSeconds
  <2>1. PICK ok \in BOOLEAN : Returned(ok)
    BY <1>1, CommittedCalls
  <2>2. Committed = frames[1].saved /\ Committed' = storage'
    BY <1>1, <2>1, CommittedCycle DEF IInv
  <2>3. storage'.lastExecutionAt = timestamp
    BY <1>1, <2>1, <2>2 DEF Returned, IInv, CycleInProgress
  <2>4. frames[1].saved \in Storage
    BY <1>1, <2>1, TopType, OneFrame DEF Returned, IInv
  <2>5. /\ frames[1].saved.lastExecutionAt \in Nat /\ frames[1].saved.cooldownSeconds \in Nat
        /\ timestamp \in Nat
    BY <1>1, <2>4 DEF Storage, IInv, TypeOK
  <2>6. frames[1].saved.lastExecutionAt + frames[1].saved.cooldownSeconds <= timestamp
    BY <1>1, <2>1 DEF Returned, IInv, CycleInProgress
  <2>7. QED
    BY <2>2, <2>3, <2>5, <2>6
<1>2. QED
  BY <1>1, InvariantHolds, AssumptionsHold, PTL DEF Spec, CooldownKept

LEMMA LedgerStep ==
    ASSUME Assumptions, IInv, [Next]_vars
    PROVE  [Ledger!LedgerNext]_(Ledger!ledgerVars)
<1>1. ASSUME NEW ok \in BOOLEAN, Returned(ok)
      PROVE  Ledger!Run(frames[1].request.cycleId, ok)
  <2>1. Committed = frames[1].saved /\ Committed' = storage'
    BY <1>1, CommittedCycle DEF IInv
  <2>2. /\ Committed.cycleState = "Idle" /\ Committed.decisions = storage.decisions
        /\ frames[1].request.transitionNonce = Len(storage.decisions) + 1
    BY <1>1, <2>1 DEF Returned, IInv, CycleInProgress, NoncesInOrder
  <2>3. /\ storage'.decisions = Append(storage.decisions,
               [transitionNonce |-> Len(storage.decisions) + 1,
                cycleId |-> frames[1].request.cycleId, executed |-> ok])
        /\ (storage'.cycleState = "Halted") = ~ok
    BY <1>1, <2>2 DEF Returned
  <2>4. QED
    BY <2>1, <2>2, <2>3 DEF Ledger!Run
<1>2. ASSUME NEW ok \in BOOLEAN, Returned(ok)
      PROVE  frames[1].request.cycleId \in CycleId
  BY <1>2, TopType, OneFrame DEF Returned, IInv, Request
<1>3. CASE \A ok \in BOOLEAN : ~Returned(ok)
  <2>1. CASE (Committed'.cycleState = "Halted") = (Committed.cycleState = "Halted")
    BY <1>3, <2>1, CommittedCalls DEF Ledger!ledgerVars
  <2>2. CASE Committed.cycleState = "Halted" /\ Committed'.cycleState # "Halted"
    BY <1>3, <2>2, CommittedCalls DEF Ledger!LedgerNext, Ledger!Recover
  <2>3. QED
    BY <1>3, <2>1, <2>2, CommittedCalls
<1>4. QED
  BY <1>1, <1>2, <1>3 DEF Ledger!LedgerNext

(* Committed transactions behave as CycleLedger says: initial states map   *)
(* to initial states, a returned cycle to Run, a recovery to Recover, and  *)
(* everything else to a stutter.                                           *)
THEOREM ImplementsLedger == Spec => LedgerImplemented
<1>1. Init => Ledger!LedgerInit
  BY DEF Init, Ledger!LedgerInit, Committed
<1>2. IInv /\ [Next]_vars => [Ledger!LedgerNext]_(Ledger!ledgerVars)
  BY LedgerStep, AssumptionsHold
<1>3. QED
  BY <1>1, <1>2, InvariantHolds, PTL DEF Spec, LedgerImplemented, Ledger!LedgerSpec
=============================================================================
