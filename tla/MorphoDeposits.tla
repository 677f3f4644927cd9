--------------------------- MODULE MorphoDeposits ---------------------------
(***************************************************************************)
(* POST /api/monad/morpho/earn/execute of apps/dashboard/server.mjs: a     *)
(* deposit into the Morpho vault from the account of the server's signer.  *)
(* The risk controls (largest amount, daily cap, cooldown) are evaluated   *)
(* before the first await and the deposit enters their record after the    *)
(* last; several requests may be in between.  With the SDK on, a deposit   *)
(* that fails in any way there is made again by the native executor.       *)
(*                                                                         *)
(* The account's asset and the vault's shares change by these deposits     *)
(* only: `moved' is what has left the account, and a balance read is the   *)
(* value of `moved' at that time.  The delegation gate in front of the     *)
(* executor is DelegationGate.                                             *)
(***************************************************************************)
EXTENDS Integers

CONSTANTS
    Deposit,    (* requests to the route *)
    Amount,     (* amountRaw of each *)
    MaxAmount,  (* MONAD_MORPHO_MAX_AMOUNT_RAW *)
    DailyCap,   (* MONAD_MORPHO_DAILY_CAP_RAW, when it is set *)
    Cooldown,   (* MONAD_MORPHO_COOLDOWN_SECONDS *)
    Setting,    (* settings of useSdk and of the fallback to consider *)
    Days,       (* bound of the model on the days *)
    MaxReboots  (* bound of the model on restarts *)

MorphoSettings == [useSdk : BOOLEAN, fallback : BOOLEAN]

ASSUME MorphoAssumption ==
    /\ Amount \in [Deposit -> Nat \ {0}]
    /\ MaxAmount \in Nat /\ DailyCap \in Nat /\ Cooldown \in Nat
    /\ Setting \subseteq MorphoSettings
    /\ Days \in Nat \ {0} /\ MaxReboots \in Nat

VARIABLES
    setting,     (* the settings the server runs with *)
    exec,        (* MONAD_MORPHO_EXECUTE_STATE *)
    saved,       (* its image in the metrics file *)
    deposit,     (* how far each request is *)
    path,        (* the executor that works on it *)
    tx,          (* the transaction each executor sent for it *)
    balance,     (* the balance that executor read before it sent *)
    answer,      (* the reconciliation and the proof of an answered request *)
    day,         (* today *)
    moved,       (* what has been deposited *)
    spent,       (* history: what was deposited on each day *)
    idle,        (* history: the time since the last deposit *)
    foreign,     (* history: deposited by others since `balance' was read *)
    overlapped,  (* history: a request was admitted beside another one *)
    adrift,      (* history: a transaction nobody waits for may be deposited *)
    forgot,      (* history: a restart brought an older record back *)
    reboots

record == <<exec, saved>>
requests == <<deposit, path, tx, balance, answer>>
depositLog == <<spent, idle, foreign, overlapped, adrift, forgot>>
morphoVars == <<setting, record, requests, day, moved, depositLog, reboots>>

Path == {"sdk", "native"}
DepositInFlight == {"begun", "prepared", "sent"}
Age == 0..Cooldown
ExecuteState == [age : Age, day : 0..Days, used : Nat]
Unanswered == [reconciled |-> FALSE, proven |-> FALSE]

MorphoTypeOK ==
    /\ setting \in Setting
    /\ exec \in ExecuteState /\ saved \in ExecuteState
    /\ deposit \in [Deposit -> DepositInFlight \union {"new", "done", "failed", "lost"}]
    /\ path \in [Deposit -> Path]
    /\ tx \in [Deposit -> [Path -> {"none", "pending", "mined", "reverted"}]]
    /\ balance \in [Deposit -> Nat]
    /\ answer \in [Deposit -> [reconciled : BOOLEAN, proven : BOOLEAN]]
    /\ day \in 1..Days
    /\ moved \in Nat
    /\ spent \in [1..Days -> Nat]
    /\ idle \in Age
    /\ foreign \in [Deposit -> Nat]
    /\ overlapped \in BOOLEAN /\ adrift \in BOOLEAN /\ forgot \in BOOLEAN
    /\ reboots \in 0..MaxReboots

-----------------------------------------------------------------------------
(* The risk controls and their record.                                     *)

NeverExecuted == [age |-> Cooldown, day |-> 0, used |-> 0]

(* Mutants: the first deposit of a day is not counted; the cooldown is not *)
(* started again.                                                          *)
RecordedButFirst(amount) ==
    [age |-> 0, day |-> day,
     used |-> IF exec.day = day THEN exec.used + amount ELSE 0]
RecordedUntimed(amount) ==
    [age |-> exec.age, day |-> day,
     used |-> (IF exec.day = day THEN exec.used ELSE 0) + amount]

UsedToday == IF exec.day = day THEN exec.used ELSE 0

(* evaluateMonadMorphoRiskControls finds no blocker.                       *)
Allowed(amount) ==
    /\ amount <= MaxAmount
    /\ UsedToday + amount <= DailyCap
    /\ exec.age >= Cooldown

(* updateMonadMorphoExecuteState.                                          *)
Recorded(amount) == [age |-> 0, day |-> day, used |-> UsedToday + amount]

(* Mutant: the amount is no longer an upper bound of what left the account. *)
ReconciledLoosely(c) == moved - balance[c] >= 0

(* reconcileMonadMorphoExecutionArtifact, of a success with a txHash.      *)
Reconciled(c) == moved - balance[c] >= 0 /\ moved - balance[c] <= Amount[c]

(* The route builds the proof from a field `ok' of the reconciliation,     *)
(* whose field is `reconcileOk'.                                           *)
ReconcilePassed(reconciliation) ==
    "ok" \in DOMAIN reconciliation /\ reconciliation["ok"]

-----------------------------------------------------------------------------
(* One request.                                                            *)

MorphoInit ==
    /\ setting \in Setting
    /\ exec = NeverExecuted /\ saved = NeverExecuted
    /\ deposit = [c \in Deposit |-> "new"]
    /\ path = [c \in Deposit |-> "native"]
    /\ tx = [c \in Deposit |-> [p \in Path |-> "none"]]
    /\ balance = [c \in Deposit |-> 0]
    /\ answer = [c \in Deposit |-> Unanswered]
    /\ day = 1
    /\ moved = 0
    /\ spent = [d \in 1..Days |-> 0]
    /\ idle = Cooldown
    /\ foreign = [c \in Deposit |-> 0]
    /\ overlapped = FALSE /\ adrift = FALSE /\ forgot = FALSE
    /\ reboots = 0

DepositIs(c, at) == deposit' = [deposit EXCEPT ![c] = at]

Depositing == {c \in Deposit : deposit[c] \in DepositInFlight}

BeginDeposit(c) ==
    /\ deposit[c] = "new"
    /\ Allowed(Amount[c])
    /\ DepositIs(c, "begun")
    /\ path' = [path EXCEPT ![c] = IF setting.useSdk THEN "sdk" ELSE "native"]
    /\ overlapped' = (overlapped \/ Depositing # {})
    /\ UNCHANGED <<setting, record, tx, balance, answer, day, moved, spent, idle,
                   foreign, adrift, forgot, reboots>>

Refuse(c) ==
    /\ deposit[c] = "new"
    /\ ~Allowed(Amount[c])
    /\ DepositIs(c, "failed")
    /\ UNCHANGED <<setting, record, path, tx, balance, answer, day, moved, depositLog,
                   reboots>>

(* The balances are read; an allowance that is too small is raised, which  *)
(* moves nothing.                                                          *)
ReadBalance(c) ==
    /\ deposit[c] = "begun"
    /\ balance' = [balance EXCEPT ![c] = moved]
    /\ foreign' = [foreign EXCEPT ![c] = 0]
    /\ DepositIs(c, "prepared")
    /\ UNCHANGED <<setting, record, path, tx, answer, day, moved, spent, idle, overlapped,
                   adrift, forgot, reboots>>

SendDeposit(c) ==
    /\ deposit[c] = "prepared"
    /\ tx' = [tx EXCEPT ![c][path[c]] = "pending"]
    /\ DepositIs(c, "sent")
    /\ UNCHANGED <<setting, record, path, balance, answer, day, moved, depositLog, reboots>>

(* The receipt arrives and the balances are read again; from there to the  *)
(* answer the handler does not wait.                                       *)
Finish(c) ==
    /\ deposit[c] = "sent"
    /\ tx[c][path[c]] = "mined"
    /\ exec' = Recorded(Amount[c])
    /\ answer' = [answer EXCEPT ![c] =
                    [reconciled |-> Reconciled(c),
                     proven |-> ReconcilePassed([reconcileOk |-> Reconciled(c)])]]
    /\ DepositIs(c, "done")
    /\ UNCHANGED <<setting, saved, path, tx, balance, day, moved, depositLog, reboots>>

(* Any await throws: a read, the broadcast (perhaps after the node took    *)
(* the transaction), the wait for the receipt, or the read after it.       *)
Fail(c) ==
    /\ deposit[c] \in DepositInFlight
    /\ IF path[c] = "sdk" /\ setting.fallback
       THEN path' = [path EXCEPT ![c] = "native"] /\ DepositIs(c, "begun")
       ELSE DepositIs(c, "failed") /\ UNCHANGED path
    /\ adrift' = (adrift \/ (deposit[c] = "sent" /\ tx[c][path[c]] # "reverted"))
    /\ UNCHANGED <<setting, record, tx, balance, answer, day, moved, spent, idle,
                   foreign, overlapped, forgot, reboots>>

-----------------------------------------------------------------------------
(* The chain, the metrics file, and time.                                  *)

(* A deposit is applied; another request that has read its balance before  *)
(* sees the difference.                                                    *)
Mine(c, p) ==
    /\ tx[c][p] = "pending"
    /\ tx' = [tx EXCEPT ![c][p] = "mined"]
    /\ moved' = moved + Amount[c]
    /\ spent' = [spent EXCEPT ![day] = @ + Amount[c]]
    /\ idle' = 0
    /\ foreign' = [other \in Deposit |->
                     IF /\ deposit[other] \in {"prepared", "sent"}
                        /\ ~(other = c /\ path[c] = p)
                     THEN foreign[other] + Amount[c] ELSE foreign[other]]
    /\ UNCHANGED <<setting, record, deposit, path, balance, answer, day, overlapped, adrift,
                   forgot, reboots>>

Revert(c, p) ==
    /\ tx[c][p] = "pending"
    /\ tx' = [tx EXCEPT ![c][p] = "reverted"]
    /\ UNCHANGED <<setting, record, deposit, path, balance, answer, day, moved, depositLog,
                   reboots>>

(* Another part of the server writes the metrics file; a deposit does not. *)
Save ==
    /\ saved' = exec
    /\ UNCHANGED <<setting, exec, requests, day, moved, depositLog, reboots>>

MorphoRestart ==
    /\ reboots < MaxReboots
    /\ reboots' = reboots + 1
    /\ exec' = saved
    /\ deposit' = [c \in Deposit |-> IF c \in Depositing THEN "lost" ELSE deposit[c]]
    /\ forgot' = (forgot \/ saved # exec)
    /\ adrift' = (adrift \/ \E c \in Depositing :
                    deposit[c] = "sent" /\ tx[c][path[c]] # "reverted")
    /\ UNCHANGED <<setting, saved, path, tx, balance, answer, day, moved, spent, idle,
                   foreign, overlapped>>

NewDay ==
    /\ day < Days
    /\ day' = day + 1
    /\ UNCHANGED <<setting, record, requests, moved, depositLog, reboots>>

Older(age) == IF age < Cooldown THEN age + 1 ELSE age

Tick ==
    /\ exec' = [exec EXCEPT !.age = Older(@)]
    /\ saved' = [saved EXCEPT !.age = Older(@)]
    /\ idle' = Older(idle)
    /\ UNCHANGED <<setting, requests, day, moved, spent, foreign, overlapped, adrift, forgot,
                   reboots>>

DepositRequest(c) ==
    \/ BeginDeposit(c) \/ Refuse(c) \/ ReadBalance(c) \/ SendDeposit(c) \/ Finish(c) \/ Fail(c)

MorphoNext ==
    \/ \E c \in Deposit : DepositRequest(c)
    \/ \E c \in Deposit, p \in Path : Mine(c, p) \/ Revert(c, p)
    \/ Save \/ MorphoRestart \/ NewDay \/ Tick

MorphoSpec == MorphoInit /\ [][MorphoNext]_morphoVars

-----------------------------------------------------------------------------
(* Properties.                                                             *)

(* Requests came one at a time, no transaction was left behind by a failed *)
(* attempt or a restart, and no restart lost the record.                   *)
DepositsUndisturbed == ~overlapped /\ ~adrift /\ ~forgot

(* Undisturbed, what the account deposits on a day stays within the daily  *)
(* cap, though the cap is tested before the deposit, applied perhaps after *)
(* midnight, and recorded on the day of the answer                         *)
(* (evaluateMonadMorphoRiskControls, updateMonadMorphoExecuteState).       *)
CapKept == DepositsUndisturbed => \A d \in 1..Days : spent[d] <= DailyCap

(* Undisturbed, deposits are applied at least the cooldown apart, through  *)
(* failures, fallbacks and restarts, though the cooldown is counted from   *)
(* answers.                                                                *)
DepositsApart ==
    [][\A c \in Deposit, p \in Path :
         Mine(c, p) /\ DepositsUndisturbed => idle >= Cooldown]_morphoVars

(* A success is reconciled exactly if nothing else was deposited between   *)
(* the two balance reads: the first attempt of a fallback counts as        *)
(* something else, in one request as in two                                *)
(* (reconcileMonadMorphoExecutionArtifact).                                *)
ReconcileHonest ==
    \A c \in Deposit : deposit[c] = "done" => (answer[c].reconciled <=> foreign[c] = 0)
=============================================================================
