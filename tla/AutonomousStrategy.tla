------------------------- MODULE AutonomousStrategy -------------------------
(***************************************************************************)
(* The contract BscAutonomousStrategy.sol: the cycle machine, its guards,  *)
(* the roles, the pause and the risk configuration.                        *)
(*                                                                         *)
(* A transaction is atomic towards other transactions, but while           *)
(* runDeterministicCycle waits for the router, the router and whatever it  *)
(* calls may call the contract back, and a revert undoes what the call and *)
(* the calls inside it did.  The calls in progress are frames, each with   *)
(* the storage a revert restores.  The router is external: it answers ok,  *)
(* not ok, or reverts.                                                     *)
(***************************************************************************)
EXTENDS Integers, Sequences, FiniteSets

CONSTANTS
    Eoa,            (* externally owned accounts: each can be tx.origin *)
    Contract,       (* other accounts: a forwarder, the router, what it calls *)
    Admin,          (* the constructor's admin *)
    EmergencyAdmin, (* the constructor's emergencyAdmin *)
    CycleId,        (* the cycleId values of the requests *)
    NoCycle,        (* bytes32(0) *)
    Amount,         (* the amountRaw values of the requests *)
    RiskConfig,     (* what an admin may set: [maxAmountRaw, cooldownSeconds] *)
    InitialRisk,    (* what the constructor sets *)
    MaxTime,        (* bound of the model on block.timestamp *)
    MaxNonce,       (* bound of the model on the cycles *)
    MaxDepth        (* bound of the model on cycles inside cycles *)

Account == Eoa \union Contract
Risk == [maxAmountRaw : Nat, cooldownSeconds : Nat]

ASSUME AccountAssumption ==
    /\ Eoa \intersect Contract = {}
    /\ Admin \in Account /\ EmergencyAdmin \in Account
    /\ NoCycle \notin CycleId

ASSUME RiskAssumption ==
    /\ Amount \subseteq Nat \ {0}
    /\ RiskConfig \subseteq Risk /\ InitialRisk \in Risk
    /\ MaxTime \in Nat /\ MaxNonce \in Nat /\ MaxDepth \in Nat

VARIABLES
    storage,        (* the contract's storage and the events that were kept *)
    frames,         (* the calls of runDeterministicCycle that await the router *)
    timestamp       (* block.timestamp *)

vars == <<storage, frames, timestamp>>

Request == [cycleId : CycleId, transitionNonce : 1..MaxNonce, amountRaw : Amount,
            emergencyOverride : BOOLEAN]
Decision == [transitionNonce : Nat, cycleId : CycleId, executed : BOOLEAN]
Storage == [cycleState : {"Idle", "Triggered", "Halted"},
            activeCycleId : CycleId \union {NoCycle},
            lastTransitionNonce : Nat, lastExecutionAt : Nat,
            maxAmountRaw : Nat, cooldownSeconds : Nat, paused : BOOLEAN,
            admins : SUBSET Account, emergencies : SUBSET Account,
            decisions : Seq(Decision), recoveries : Nat]
Frame == [request : Request, saved : Storage]

TypeOK ==
    /\ storage \in Storage
    /\ frames \in Seq(Frame)
    /\ timestamp \in Nat \ {0}

(* The constructor.  decisions and recoveries are the ExecutionDecision    *)
(* events and the CycleStateTransition events from Halted to Idle.         *)
Init ==
    /\ storage = [cycleState |-> "Idle", activeCycleId |-> NoCycle,
                  lastTransitionNonce |-> 0, lastExecutionAt |-> 0,
                  maxAmountRaw |-> InitialRisk.maxAmountRaw,
                  cooldownSeconds |-> InitialRisk.cooldownSeconds, paused |-> FALSE,
                  admins |-> {Admin}, emergencies |-> {EmergencyAdmin},
                  decisions |-> <<>>, recoveries |-> 0]
    /\ frames = <<>>
    /\ timestamp = 1
-----------------------------------------------------------------------------
(* msg.sender: inside a call only contracts can be. *)
Sender(a) == a \in Account /\ (frames # <<>> => a \in Contract)

(* onlyRole(ADMIN_ROLE), onlyRole(EMERGENCY_ROLE) *)
IsAdmin(a) == Sender(a) /\ a \in storage.admins
IsEmergency(a) == Sender(a) /\ a \in storage.emergencies

GrantRole(a, account) ==
    /\ IsAdmin(a)
    /\ \/ storage' = [storage EXCEPT !.admins = @ \union {account}]
       \/ storage' = [storage EXCEPT !.emergencies = @ \union {account}]
    /\ UNCHANGED <<frames, timestamp>>

SetRiskConfig(a, risk) ==
    /\ IsAdmin(a)
    /\ storage' = [storage EXCEPT !.maxAmountRaw = risk.maxAmountRaw,
                                  !.cooldownSeconds = risk.cooldownSeconds]
    /\ UNCHANGED <<frames, timestamp>>

SetEmergencyPause(a, value) ==
    /\ IsEmergency(a)
    /\ storage' = [storage EXCEPT !.paused = value]
    /\ UNCHANGED <<frames, timestamp>>

(* whenNotPausedOrEmergency and the caller's path: an override needs the   *)
(* role, anything else must come straight from the origin.                 *)
Allowed(a, request) ==
    /\ Sender(a)
    /\ storage.paused => request.emergencyOverride
    /\ IF request.emergencyOverride THEN a \in storage.emergencies ELSE a \in Eoa

(* Fault: the cooldown is a second short. *)
CooledDownEarly == timestamp + 1 >= storage.lastExecutionAt + storage.cooldownSeconds

CooledDown == timestamp >= storage.lastExecutionAt + storage.cooldownSeconds

(* Faults: a nonce may be skipped; a cycle may start inside another.       *)
AdmissibleSkipping(request) ==
    /\ request.amountRaw <= storage.maxAmountRaw
    /\ request.transitionNonce > storage.lastTransitionNonce
    /\ storage.cycleState = "Idle"
    /\ CooledDown
AdmissibleInside(request) ==
    /\ request.amountRaw <= storage.maxAmountRaw
    /\ request.transitionNonce = storage.lastTransitionNonce + 1
    /\ storage.cycleState # "Halted"
    /\ CooledDown

(* The other requirements.  A request whose route data does not match its  *)
(* hash is refused and changes nothing, like all that is refused here.     *)
Admissible(request) ==
    /\ request.amountRaw <= storage.maxAmountRaw
    /\ request.transitionNonce = storage.lastTransitionNonce + 1
    /\ storage.cycleState = "Idle"
    /\ CooledDown

(* runDeterministicCycle up to the call of the router. *)
RunDeterministicCycle(a, request) ==
    /\ Len(frames) < MaxDepth
    /\ Allowed(a, request)
    /\ Admissible(request)
    /\ frames' = Append(frames, [request |-> request, saved |-> storage])
    /\ storage' = [storage EXCEPT !.activeCycleId = request.cycleId,
                                  !.cycleState = "Triggered"]
    /\ UNCHANGED timestamp

Top == frames[Len(frames)]
Pop == frames' = SubSeq(frames, 1, Len(frames) - 1)

Decided(ok) ==
    Append(storage.decisions, [transitionNonce |-> Top.request.transitionNonce,
                               cycleId |-> Top.request.cycleId, executed |-> ok])

(* The router answers ok: Executed, and Idle again. *)
RouterSucceeds ==
    /\ frames # <<>>
    /\ Pop
    /\ storage' = [storage EXCEPT !.cycleState = "Idle",
                                  !.lastExecutionAt = timestamp,
                                  !.lastTransitionNonce = Top.request.transitionNonce,
                                  !.decisions = Decided(TRUE)]
    /\ UNCHANGED timestamp

(* Fault: a failure leaves the contract idle.                              *)
HaltedNever(nonce) == [storage EXCEPT !.lastTransitionNonce = nonce]

Halted(nonce) ==
    [storage EXCEPT !.cycleState = "Halted", !.lastTransitionNonce = nonce]

RouterFails ==
    /\ frames # <<>>
    /\ Pop
    /\ storage' = [Halted(Top.request.transitionNonce) EXCEPT !.decisions = Decided(FALSE)]
    /\ UNCHANGED timestamp

(* The router reverts, and the call with it. *)
RouterReverts ==
    /\ frames # <<>>
    /\ Pop
    /\ storage' = Top.saved
    /\ UNCHANGED timestamp

RecoverFromHalt(a) ==
    /\ IsEmergency(a)
    /\ storage.cycleState = "Halted"
    /\ storage' = [storage EXCEPT !.cycleState = "Idle", !.recoveries = @ + 1]
    /\ UNCHANGED <<frames, timestamp>>

(* A block with a later timestamp. *)
NextBlock ==
    /\ frames = <<>>
    /\ timestamp < MaxTime
    /\ timestamp' = timestamp + 1
    /\ UNCHANGED <<storage, frames>>

Next ==
    \/ \E a \in Account :
        \/ \E account \in Account : GrantRole(a, account)
        \/ \E risk \in RiskConfig : SetRiskConfig(a, risk)
        \/ \E value \in BOOLEAN : SetEmergencyPause(a, value)
        \/ \E request \in Request : RunDeterministicCycle(a, request)
        \/ RecoverFromHalt(a)
    \/ RouterSucceeds
    \/ RouterFails
    \/ RouterReverts
    \/ NextBlock

Spec == Init /\ [][Next]_vars
-----------------------------------------------------------------------------
(* Properties. *)

(* No cycle runs inside another, whatever the router and the roles it may  *)
(* have been granted do: Triggered is Idle's and Halted's lock.            *)
NotNested ==
    /\ Len(frames) <= 1
    /\ storage.cycleState = "Triggered" <=> frames # <<>>

(* The nonces of the kept events are 1, 2, 3...: none is skipped or used   *)
(* twice, across failures, recoveries, call-backs and reverts.             *)
NoncesInOrder ==
    /\ Len(storage.decisions) = storage.lastTransitionNonce
    /\ \A n \in 1..Len(storage.decisions) : storage.decisions[n].transitionNonce = n

Failures == {n \in 1..Len(storage.decisions) : ~storage.decisions[n].executed}

(* A halt is the last decision, its cycle is the one the recovery will     *)
(* report, and there is one recovery between a failure and what follows.   *)
HaltsRecovered ==
    /\ storage.cycleState = "Halted" =>
        /\ storage.decisions # <<>>
        /\ ~storage.decisions[Len(storage.decisions)].executed
        /\ storage.decisions[Len(storage.decisions)].cycleId = storage.activeCycleId
    /\ Cardinality(Failures) =
       storage.recoveries + IF storage.cycleState = "Halted" THEN 1 ELSE 0

(* What other transactions can see: the storage before the call in progress. *)
Committed == IF frames = <<>> THEN storage ELSE frames[1].saved

(* Executed cycles are as far apart as the cooldown in force when the      *)
(* later one began, though a call-back may have changed it meanwhile.      *)
CooldownKept ==
    [][Committed'.lastExecutionAt # Committed.lastExecutionAt =>
         Committed'.lastExecutionAt >= Committed.lastExecutionAt + Committed.cooldownSeconds]_vars

(* Frames, call-backs and reverts cannot be seen from outside: committed   *)
(* cycles run one by one, numbered in order, and stop at a failure until a *)
(* recovery.                                                               *)
Ledger == INSTANCE CycleLedger WITH
    cycles <- Committed.decisions, halted <- Committed.cycleState = "Halted"

LedgerImplemented == Ledger!LedgerSpec
=============================================================================
