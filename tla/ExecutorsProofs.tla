-------------------------- MODULE ExecutorsProofs --------------------------
(***************************************************************************)
(* Proofs about the executors, for every value of the constants.  Each     *)
(* part is proved about on its own; a behaviour of Executors is, for each  *)
(* part, a behaviour of that part, which carries the results over.         *)
(***************************************************************************)
EXTENDS Executors, TLAPS, FiniteSetTheorems

-----------------------------------------------------------------------------
(* Deposits on Monad, for any requests, amounts, limits and settings:      *)
(* undisturbed, the account stays within the daily cap and its deposits    *)
(* are a cooldown apart; and the reconciliation of a success is exact.     *)

(* Transactions appear with the stages: none before a request is sent, and *)
(* none of the native executor while the SDK has the request.              *)
MorphoStaged ==
    \A c \in Deposit :
        /\ deposit[c] = "new" => \A p \in Path : tx[c][p] = "none"
        /\ deposit[c] \in {"begun", "prepared"} => tx[c][path[c]] = "none"
        /\ deposit[c] = "sent" => tx[c][path[c]] # "none"
        /\ deposit[c] \in DepositInFlight /\ path[c] = "sdk" => tx[c]["native"] = "none"

OwnMined(c) == IF tx[c][path[c]] = "mined" THEN Amount[c] ELSE 0

(* What has left the account since a request read its balance is its own   *)
(* deposit and those of others.                                            *)
Windows ==
    \A c \in Deposit : deposit[c] \in {"prepared", "sent"} =>
        moved - balance[c] = foreign[c] + OwnMined(c)

(* No record is of a day to come, and nothing was deposited on one.        *)
Dated ==
    /\ exec.day <= day /\ saved.day <= day
    /\ \A d \in 1..Days : d > day => spent[d] = 0

(* Between requests the record bounds what was deposited today, and is no  *)
(* older than the last deposit.                                            *)
Settled ==
    Depositing = {} => /\ spent[day] <= UsedToday
                       /\ UsedToday <= DailyCap
                       /\ exec.age <= idle

(* A request in flight has room below the cap, and its deposit is the only *)
(* one that can be applied.                                                *)
Admitted(c) ==
    /\ UsedToday + Amount[c] <= DailyCap
    /\ spent[day] <= UsedToday + OwnMined(c)
    /\ tx[c][path[c]] # "mined" => idle = Cooldown

OnlyOwn ==
    /\ \A c, e \in Depositing : c = e
    /\ \A c \in Deposit, p \in Path : tx[c][p] = "pending" => deposit[c] = "sent" /\ path[c] = p

MorphoQuiet ==
    DepositsUndisturbed =>
        /\ OnlyOwn
        /\ Settled
        /\ \A c \in Depositing : Admitted(c)
        /\ \A d \in 1..Days : d < day => spent[d] <= DailyCap

-----------------------------------------------------------------------------
(* Type correctness.                                                       *)

LEMMA RecordedType ==
    ASSUME MorphoAssumption, MorphoTypeOK, NEW c \in Deposit
    PROVE  Recorded(Amount[c]) \in ExecuteState
<1>1. Amount[c] \in Nat /\ exec.used \in Nat /\ UsedToday \in Nat
  BY DEF MorphoAssumption, MorphoTypeOK, ExecuteState, UsedToday
<1>2. day \in 0..Days /\ 0 \in Age
  BY DEF MorphoAssumption, MorphoTypeOK, Age
<1>3. QED
  BY <1>1, <1>2 DEF Recorded, ExecuteState

LEMMA OlderAge == ASSUME MorphoAssumption, NEW a \in Age
                  PROVE  Older(a) \in Age /\ Older(a) >= a
  BY DEF MorphoAssumption, Age, Older

LEMMA MorphoTypeInit == ASSUME MorphoAssumption PROVE MorphoInit => MorphoTypeOK
<1> SUFFICES ASSUME MorphoInit PROVE MorphoTypeOK
  OBVIOUS
<1>1. Cooldown \in Age /\ 0 \in 0..Days /\ 1 \in 1..Days /\ 0 \in 0..MaxReboots
  BY DEF MorphoAssumption, Age
<1>2. NeverExecuted \in ExecuteState
  BY <1>1 DEF NeverExecuted, ExecuteState
<1>3. Unanswered \in [reconciled : BOOLEAN, proven : BOOLEAN]
  BY DEF Unanswered
<1>4. /\ deposit \in [Deposit -> DepositInFlight \union {"new", "done", "failed", "lost"}]
      /\ path \in [Deposit -> Path]
      /\ tx \in [Deposit -> [Path -> {"none", "pending", "mined", "reverted"}]]
  BY DEF MorphoInit, DepositInFlight, Path
<1>5. QED
  BY <1>1, <1>2, <1>3, <1>4 DEF MorphoInit, MorphoTypeOK

LEMMA MorphoTypeStep ==
    ASSUME MorphoAssumption, MorphoTypeOK, [MorphoNext]_morphoVars
    PROVE MorphoTypeOK'
<1> USE DEF MorphoTypeOK
<1>1. CASE UNCHANGED morphoVars
  BY <1>1 DEF morphoVars, record, requests, depositLog
<1>2. ASSUME NEW c \in Deposit, DepositRequest(c) PROVE MorphoTypeOK'
  <2>1. CASE BeginDeposit(c)
    <3>1. path' \in [Deposit -> Path]
      BY <2>1 DEF BeginDeposit, Path
    <3>2. QED
      BY <2>1, <3>1 DEF BeginDeposit, DepositIs, DepositInFlight, record
  <2>2. CASE Refuse(c)
    BY <2>2 DEF Refuse, DepositIs, record, depositLog
  <2>3. CASE ReadBalance(c)
    BY <2>3 DEF ReadBalance, DepositIs, DepositInFlight, record
  <2>4. CASE SendDeposit(c)
    <3>1. path[c] \in Path
      OBVIOUS
    <3>2. QED
      BY <2>4, <3>1 DEF SendDeposit, DepositIs, DepositInFlight, record, depositLog
  <2>5. CASE Finish(c)
    <3>1. Reconciled(c) \in BOOLEAN
      BY DEF Reconciled
    <3>2. ReconcilePassed([reconcileOk |-> Reconciled(c)]) \in BOOLEAN
      BY DEF ReconcilePassed
    <3>3. [reconciled |-> Reconciled(c),
           proven |-> ReconcilePassed([reconcileOk |-> Reconciled(c)])]
          \in [reconciled : BOOLEAN, proven : BOOLEAN]
      BY <3>1, <3>2
    <3> DEFINE reply == [reconciled |-> Reconciled(c),
                         proven |-> ReconcilePassed([reconcileOk |-> Reconciled(c)])]
    <3>4. answer' = [answer EXCEPT ![c] = reply]
      BY <2>5 DEF Finish
    <3>5. reply \in [reconciled : BOOLEAN, proven : BOOLEAN]
      BY <3>3
    <3> HIDE DEF reply
    <3>6. answer' \in [Deposit -> [reconciled : BOOLEAN, proven : BOOLEAN]]
      BY <3>4, <3>5
    <3>7. exec' \in ExecuteState
      BY <2>5, RecordedType DEF Finish
    <3>8. QED
      BY <2>5, <3>6, <3>7 DEF Finish, DepositIs, depositLog
  <2>6. CASE Fail(c)
    <3>1. path' \in [Deposit -> Path]
      BY <2>6 DEF Fail, Path
    <3>2. deposit' \in [Deposit -> DepositInFlight \union {"new", "done", "failed", "lost"}]
      BY <2>6 DEF Fail, DepositIs, DepositInFlight
    <3>3. adrift' \in BOOLEAN
      BY <2>6 DEF Fail
    <3>4. QED
      BY <2>6, <3>1, <3>2, <3>3 DEF Fail, record
  <2>7. QED
    BY <1>2, <2>1, <2>2, <2>3, <2>4, <2>5, <2>6 DEF DepositRequest
<1>3. ASSUME NEW c \in Deposit, NEW p \in Path, Mine(c, p) PROVE MorphoTypeOK'
  <2>1. Amount[c] \in Nat
    BY DEF MorphoAssumption
  <2>2. moved' \in Nat /\ spent' \in [1..Days -> Nat] /\ foreign' \in [Deposit -> Nat]
    <3>1. moved' \in Nat
      BY <1>3, <2>1 DEF Mine
    <3>2. spent[day] + Amount[c] \in Nat
      BY <2>1
    <3>3. spent' \in [1..Days -> Nat]
      BY <1>3, <3>2 DEF Mine
    <3>4. \A e \in Deposit : foreign[e] \in Nat /\ foreign[e] + Amount[c] \in Nat
      BY <2>1
    <3>5. foreign' \in [Deposit -> Nat]
      BY <1>3, <3>4 DEF Mine
    <3>6. QED
      BY <3>1, <3>3, <3>5
  <2>3. tx' \in [Deposit -> [Path -> {"none", "pending", "mined", "reverted"}]]
    BY <1>3 DEF Mine
  <2>4. idle' \in Age
    BY <1>3 DEF Mine, Age, MorphoAssumption
  <2>5. QED
    BY <1>3, <2>2, <2>3, <2>4 DEF Mine, record
<1>4. ASSUME NEW c \in Deposit, NEW p \in Path, Revert(c, p) PROVE MorphoTypeOK'
  BY <1>4 DEF Revert, record, depositLog
<1>5. CASE Save
  BY <1>5 DEF Save, requests, depositLog
<1>6. CASE MorphoRestart
  BY <1>6 DEF MorphoRestart, MorphoAssumption
<1>7. CASE NewDay
  BY <1>7 DEF NewDay, record, requests, depositLog, MorphoAssumption
<1>8. CASE Tick
  <2>1. exec' \in ExecuteState /\ saved' \in ExecuteState
    BY <1>8, OlderAge DEF Tick, ExecuteState
  <2>2. idle' \in Age
    BY <1>8, OlderAge DEF Tick
  <2>3. QED
    BY <1>8, <2>1, <2>2 DEF Tick, requests
<1>9. QED
  BY <1>1, <1>2, <1>3, <1>4, <1>5, <1>6, <1>7, <1>8 DEF MorphoNext

-----------------------------------------------------------------------------
(* Transactions, windows and dates.                                        *)

LEMMA FirstInvariants ==
    ASSUME MorphoAssumption
    PROVE  MorphoInit => MorphoStaged /\ Windows /\ Dated /\ MorphoQuiet
<1> SUFFICES ASSUME MorphoInit PROVE MorphoStaged /\ Windows /\ Dated /\ MorphoQuiet
  OBVIOUS
<1>1. Depositing = {} /\ UsedToday = 0
  BY DEF MorphoInit, Depositing, DepositInFlight, UsedToday, NeverExecuted
<1>2. spent[1] = 0 /\ exec.age = Cooldown /\ exec.day = 0 /\ saved.day = 0
  BY DEF MorphoInit, NeverExecuted, MorphoAssumption
<1>3. MorphoStaged /\ Windows
  BY DEF MorphoInit, MorphoStaged, Windows, DepositInFlight, Path
<1>4. Dated
  BY <1>2 DEF MorphoInit, Dated
<1>5. OnlyOwn
  BY <1>1 DEF MorphoInit, OnlyOwn, Path
<1>6. Settled
  BY <1>1, <1>2 DEF MorphoInit, Settled, MorphoAssumption
<1>7. \A d \in 1..Days : ~(d < day)
  BY DEF MorphoInit
<1>8. QED
  BY <1>1, <1>3, <1>4, <1>5, <1>6, <1>7 DEF MorphoQuiet

LEMMA MorphoStagedStep ==
    ASSUME MorphoTypeOK, MorphoStaged, [MorphoNext]_morphoVars
    PROVE  MorphoStaged'
<1> USE DEF MorphoStaged, Path, DepositInFlight
<1>1. CASE UNCHANGED morphoVars
  BY <1>1 DEF morphoVars, requests
<1>2. ASSUME NEW c \in Deposit, DepositRequest(c) PROVE MorphoStaged'
  <2>1. CASE BeginDeposit(c)
    BY <2>1 DEF BeginDeposit, DepositIs, MorphoTypeOK
  <2>2. CASE Refuse(c)
    BY <2>2 DEF Refuse, DepositIs, MorphoTypeOK
  <2>3. CASE ReadBalance(c)
    BY <2>3 DEF ReadBalance, DepositIs, MorphoTypeOK
  <2>4. CASE SendDeposit(c)
    BY <2>4 DEF SendDeposit, DepositIs, MorphoTypeOK
  <2>5. CASE Finish(c)
    BY <2>5 DEF Finish, DepositIs, MorphoTypeOK
  <2>6. CASE Fail(c)
    BY <2>6 DEF Fail, DepositIs, MorphoTypeOK
  <2>7. QED
    BY <1>2, <2>1, <2>2, <2>3, <2>4, <2>5, <2>6 DEF DepositRequest
<1>3. ASSUME NEW c \in Deposit, NEW p \in Path, Mine(c, p) \/ Revert(c, p) PROVE MorphoStaged'
  <2>1. deposit' = deposit /\ path' = path
    BY <1>3 DEF Mine, Revert
  <2>2. \A e \in Deposit, q \in Path : tx'[e][q] = "none" <=> tx[e][q] = "none"
    <3>1. PICK state \in {"mined", "reverted"} : tx' = [tx EXCEPT ![c][p] = state]
      BY <1>3 DEF Mine, Revert
    <3>2. tx[c][p] = "pending"
      BY <1>3 DEF Mine, Revert
    <3>3. QED
      BY <3>1, <3>2 DEF MorphoTypeOK
  <2>3. \A e \in Deposit : path[e] \in Path
    BY DEF MorphoTypeOK
  <2>4. QED
    BY <2>1, <2>2, <2>3
<1>4. CASE Save
  BY <1>4 DEF Save, requests
<1>5. CASE MorphoRestart
  <2>1. path' = path /\ tx' = tx
    BY <1>5 DEF MorphoRestart
  <2>2. \A c \in Deposit : deposit'[c] = deposit[c] \/ deposit'[c] = "lost"
    BY <1>5 DEF MorphoRestart, MorphoTypeOK
  <2>3. QED
    BY <2>1, <2>2
<1>6. CASE NewDay
  BY <1>6 DEF NewDay, requests
<1>7. CASE Tick
  BY <1>7 DEF Tick, requests
<1>8. QED
  BY <1>1, <1>2, <1>3, <1>4, <1>5, <1>6, <1>7 DEF MorphoNext

LEMMA WindowsStep ==
    ASSUME MorphoAssumption, MorphoTypeOK, MorphoStaged, Windows, [MorphoNext]_morphoVars
    PROVE  Windows'
<1>0. \A e \in Deposit : /\ Amount[e] \in Nat /\ foreign[e] \in Nat /\ balance[e] \in Nat
                         /\ path[e] \in Path /\ moved \in Nat
  BY DEF MorphoAssumption, MorphoTypeOK
<1> USE DEF Windows, OwnMined
<1>1. CASE UNCHANGED morphoVars
  BY <1>1 DEF morphoVars, requests, depositLog
<1>2. ASSUME NEW c \in Deposit, DepositRequest(c) PROVE Windows'
  <2>1. CASE BeginDeposit(c)
    BY <2>1 DEF BeginDeposit, DepositIs, MorphoTypeOK
  <2>2. CASE Refuse(c)
    BY <2>2 DEF Refuse, DepositIs, MorphoTypeOK, depositLog
  <2>3. CASE ReadBalance(c)
    <3>1. tx[c][path[c]] = "none"
      BY <2>3 DEF ReadBalance, MorphoStaged
    <3>2. moved - moved = 0
      BY <1>0
    <3>3. QED
      BY <2>3, <3>1, <3>2 DEF ReadBalance, DepositIs, MorphoTypeOK
  <2>4. CASE SendDeposit(c)
    <3>1. tx[c][path[c]] = "none" /\ tx'[c][path[c]] = "pending"
      BY <2>4, <1>0 DEF SendDeposit, MorphoStaged, MorphoTypeOK
    <3>2. \A e \in Deposit : e # c => tx'[e] = tx[e]
      BY <2>4 DEF SendDeposit, MorphoTypeOK
    <3>3. QED
      BY <2>4, <3>1, <3>2 DEF SendDeposit, DepositIs, MorphoTypeOK, depositLog
  <2>5. CASE Finish(c)
    BY <2>5 DEF Finish, DepositIs, MorphoTypeOK, depositLog
  <2>6. CASE Fail(c)
    BY <2>6 DEF Fail, DepositIs, MorphoTypeOK
  <2>7. QED
    BY <1>2, <2>1, <2>2, <2>3, <2>4, <2>5, <2>6 DEF DepositRequest
<1>3. ASSUME NEW c \in Deposit, NEW p \in Path, Mine(c, p) PROVE Windows'
  <2> SUFFICES ASSUME NEW e \in Deposit, deposit'[e] \in {"prepared", "sent"}
               PROVE  moved' - balance'[e] = foreign'[e] + OwnMined(e)'
    OBVIOUS
  <2>1. /\ deposit' = deposit /\ path' = path /\ balance' = balance
        /\ moved' = moved + Amount[c]
    BY <1>3 DEF Mine
  <2>2. CASE e = c /\ path[c] = p
    <3>1. tx[e][path[e]] = "pending" /\ tx'[e][path[e]] = "mined"
      BY <1>3, <2>2, <1>0 DEF Mine, MorphoTypeOK
    <3>2. foreign'[e] = foreign[e]
      BY <1>3, <2>2 DEF Mine
    <3>3. moved - balance[e] = foreign[e]
      BY <2>1, <3>1, <1>0
    <3>4. OwnMined(e)' = Amount[c]
      BY <2>1, <2>2, <3>1
    <3>5. QED
      BY <2>1, <3>2, <3>3, <3>4, <1>0
  <2>3. CASE ~(e = c /\ path[c] = p)
    <3>1. tx'[e][path[e]] = tx[e][path[e]]
      BY <1>3, <2>3, <1>0 DEF Mine, MorphoTypeOK
    <3>2. foreign'[e] = foreign[e] + Amount[c]
      BY <1>3, <2>1, <2>3 DEF Mine
    <3>3. moved - balance[e] = foreign[e] + OwnMined(e) /\ OwnMined(e) \in Nat
      BY <2>1, <1>0
    <3>4. OwnMined(e)' = OwnMined(e)
      BY <2>1, <3>1
    <3>5. QED
      BY <2>1, <3>2, <3>3, <3>4, <1>0
  <2>4. QED
    BY <2>2, <2>3
<1>4. ASSUME NEW c \in Deposit, NEW p \in Path, Revert(c, p) PROVE Windows'
  <2>1. \A e \in Deposit, q \in Path : tx'[e][q] = "mined" <=> tx[e][q] = "mined"
    BY <1>4 DEF Revert, MorphoTypeOK
  <2>2. QED
    BY <1>4, <2>1, <1>0 DEF Revert, depositLog
<1>5. CASE Save
  BY <1>5 DEF Save, requests, depositLog
<1>6. CASE MorphoRestart
  BY <1>6 DEF MorphoRestart, Depositing, MorphoTypeOK
<1>7. CASE NewDay
  BY <1>7 DEF NewDay, requests, depositLog
<1>8. CASE Tick
  BY <1>8 DEF Tick, requests
<1>9. QED
  BY <1>1, <1>2, <1>3, <1>4, <1>5, <1>6, <1>7, <1>8 DEF MorphoNext

LEMMA DatedStep ==
    ASSUME MorphoAssumption, MorphoTypeOK, Dated, [MorphoNext]_morphoVars
    PROVE  Dated'
<1>0. /\ day \in 1..Days /\ Days \in Nat /\ spent \in [1..Days -> Nat]
      /\ exec \in ExecuteState /\ saved \in ExecuteState
  BY DEF MorphoAssumption, MorphoTypeOK
<1> USE DEF Dated
<1>1. CASE UNCHANGED morphoVars
  BY <1>1 DEF morphoVars, record, depositLog
<1>2. ASSUME NEW c \in Deposit, DepositRequest(c) PROVE Dated'
  <2>1. CASE Finish(c)
    BY <2>1, <1>0 DEF Finish, Recorded, depositLog
  <2>2. CASE ~Finish(c)
    BY <1>2, <2>2
       DEF DepositRequest, BeginDeposit, Refuse, ReadBalance, SendDeposit, Fail, record, depositLog
  <2>3. QED
    BY <2>1, <2>2
<1>3. ASSUME NEW c \in Deposit, NEW p \in Path, Mine(c, p) PROVE Dated'
  BY <1>3, <1>0 DEF Mine, record
<1>4. ASSUME NEW c \in Deposit, NEW p \in Path, Revert(c, p) PROVE Dated'
  BY <1>4 DEF Revert, record, depositLog
<1>5. CASE Save
  BY <1>5 DEF Save, depositLog
<1>6. CASE MorphoRestart
  BY <1>6 DEF MorphoRestart
<1>7. CASE NewDay
  BY <1>7, <1>0 DEF NewDay, record, depositLog, ExecuteState
<1>8. CASE Tick
  BY <1>8, <1>0 DEF Tick, ExecuteState
<1>9. QED
  BY <1>1, <1>2, <1>3, <1>4, <1>5, <1>6, <1>7, <1>8 DEF MorphoNext

-----------------------------------------------------------------------------
(* The cap and the cooldown, undisturbed.                                  *)

LEMMA Numbers ==
    ASSUME MorphoAssumption, MorphoTypeOK, Dated
    PROVE  /\ UsedToday \in Nat /\ DailyCap \in Nat /\ Cooldown \in Nat
           /\ spent \in [1..Days -> Nat] /\ day \in 1..Days /\ spent[day] \in Nat
           /\ idle \in 0..Cooldown /\ exec.age \in 0..Cooldown
           /\ \A c \in Deposit : /\ Amount[c] \in Nat /\ Amount[c] > 0
                                 /\ path[c] \in Path
                                 /\ OwnMined(c) \in Nat /\ OwnMined(c) <= Amount[c]
  BY DEF MorphoAssumption, MorphoTypeOK, ExecuteState, UsedToday, Age, OwnMined

(* A step that leaves the parts of MorphoQuiet alone.                            *)
LEMMA QuietFrame ==
    ASSUME MorphoQuiet, UNCHANGED <<exec, deposit, path, tx, day, spent, idle>>,
           UNCHANGED <<overlapped, adrift, forgot>>
    PROVE  MorphoQuiet'
  BY DEF MorphoQuiet, DepositsUndisturbed, OnlyOwn, Settled, Admitted, Depositing, UsedToday,
         OwnMined

LEMMA BeginQuiet ==
    ASSUME MorphoAssumption, MorphoTypeOK, MorphoStaged, Dated, MorphoQuiet,
           NEW c \in Deposit, BeginDeposit(c)
    PROVE  MorphoQuiet'
<1> SUFFICES ASSUME DepositsUndisturbed'
             PROVE  /\ OnlyOwn' /\ Settled'
                    /\ \A e \in Depositing' : Admitted(e)'
                    /\ \A d \in 1..Days : d < day' => spent'[d] <= DailyCap
  BY DEF MorphoQuiet
<1>1. DepositsUndisturbed /\ Depositing = {}
  BY DEF BeginDeposit, DepositsUndisturbed
<1>2. Depositing' = {c}
  BY <1>1 DEF BeginDeposit, DepositIs, Depositing, DepositInFlight, MorphoTypeOK
<1>3. tx' = tx /\ UNCHANGED <<exec, day, spent, idle>>
  BY DEF BeginDeposit, record
<1>4. \A p \in Path : tx[c][p] = "none"
  BY DEF BeginDeposit, MorphoStaged
<1>5. path'[c] \in Path
  BY DEF BeginDeposit, Path, MorphoTypeOK
<1>6. \A e \in Deposit, p \in Path : tx[e][p] # "pending"
  BY <1>1 DEF MorphoQuiet, OnlyOwn, Depositing, DepositInFlight
<1>7. OnlyOwn'
  BY <1>2, <1>3, <1>6 DEF OnlyOwn
<1>8. Settled'
  BY <1>2 DEF Settled
<1>9. tx'[c][path'[c]] = "none"
  BY <1>3, <1>4, <1>5
<1>10. UsedToday' = UsedToday
  BY <1>3 DEF UsedToday
<1>11. spent[day] <= UsedToday /\ exec.age <= idle
  BY <1>1 DEF MorphoQuiet, Settled
<1>12. UsedToday + Amount[c] <= DailyCap /\ exec.age >= Cooldown
  BY DEF BeginDeposit, Allowed
<1>13. OwnMined(c)' = 0
  BY <1>9 DEF OwnMined
<1>14. Admitted(c)'
  BY <1>3, <1>10, <1>11, <1>12, <1>13, Numbers DEF Admitted
<1>15. QED
  BY <1>1, <1>2, <1>3, <1>7, <1>8, <1>14 DEF MorphoQuiet

LEMMA SendQuiet ==
    ASSUME MorphoAssumption, MorphoTypeOK, MorphoStaged, Dated, MorphoQuiet,
           NEW c \in Deposit, SendDeposit(c)
    PROVE  MorphoQuiet'
<1> SUFFICES ASSUME DepositsUndisturbed'
             PROVE  /\ OnlyOwn' /\ Settled'
                    /\ \A e \in Depositing' : Admitted(e)'
                    /\ \A d \in 1..Days : d < day' => spent'[d] <= DailyCap
  BY DEF MorphoQuiet
<1>1. DepositsUndisturbed /\ UNCHANGED <<exec, day, spent, idle, path>>
  BY DEF SendDeposit, DepositsUndisturbed, record, depositLog
<1>2. Depositing' = Depositing /\ c \in Depositing /\ deposit'[c] = "sent"
  BY DEF SendDeposit, DepositIs, Depositing, DepositInFlight, MorphoTypeOK
<1>3. \A e \in Depositing : e = c
  BY <1>1, <1>2 DEF MorphoQuiet, OnlyOwn
<1>4. tx' = [tx EXCEPT ![c][path[c]] = "pending"] /\ path[c] \in Path
  BY DEF SendDeposit, MorphoTypeOK
<1>5. tx[c][path[c]] = "none" /\ tx'[c][path[c]] = "pending"
  BY <1>4 DEF SendDeposit, MorphoStaged, MorphoTypeOK
<1>6. OnlyOwn'
  <2>1. \A e \in Deposit, p \in Path : tx'[e][p] = "pending" => e = c /\ p = path[c]
    <3>1. \A e \in Deposit, p \in Path : tx[e][p] # "pending"
      BY <1>1, <1>3 DEF MorphoQuiet, OnlyOwn, SendDeposit, Depositing, DepositInFlight
    <3>2. QED
      BY <3>1, <1>4 DEF MorphoTypeOK
  <2>2. QED
    BY <2>1, <1>1, <1>2, <1>3 DEF OnlyOwn
<1>7. Settled'
  BY <1>2 DEF Settled
<1>8. OwnMined(c)' = 0 /\ OwnMined(c) = 0 /\ UsedToday' = UsedToday
  BY <1>1, <1>5 DEF OwnMined, UsedToday
<1>9. Admitted(c)
  BY <1>1, <1>2 DEF MorphoQuiet
<1>10. Admitted(c)'
  BY <1>1, <1>5, <1>8, <1>9 DEF Admitted
<1>11. QED
  BY <1>1, <1>2, <1>3, <1>6, <1>7, <1>10 DEF MorphoQuiet

LEMMA FinishQuiet ==
    ASSUME MorphoAssumption, MorphoTypeOK, MorphoStaged, Dated, MorphoQuiet,
           NEW c \in Deposit, Finish(c)
    PROVE  MorphoQuiet'
<1> SUFFICES ASSUME DepositsUndisturbed'
             PROVE  /\ OnlyOwn' /\ Settled'
                    /\ \A e \in Depositing' : Admitted(e)'
                    /\ \A d \in 1..Days : d < day' => spent'[d] <= DailyCap
  BY DEF MorphoQuiet
<1>1. DepositsUndisturbed /\ UNCHANGED <<tx, day, spent, idle, path>>
  BY DEF Finish, DepositsUndisturbed, depositLog
<1>2. c \in Depositing /\ deposit[c] = "sent" /\ tx[c][path[c]] = "mined"
  BY DEF Finish, Depositing, DepositInFlight
<1>3. \A e \in Depositing : e = c
  BY <1>1, <1>2 DEF MorphoQuiet, OnlyOwn
<1>4. Depositing' = {}
  BY <1>3 DEF Finish, DepositIs, Depositing, DepositInFlight, MorphoTypeOK
<1>5. \A e \in Deposit, p \in Path : tx[e][p] # "pending"
  BY <1>1, <1>2, <1>3 DEF MorphoQuiet, OnlyOwn, Depositing, DepositInFlight
<1>6. OnlyOwn'
  BY <1>1, <1>4, <1>5 DEF OnlyOwn
<1>7. Admitted(c) /\ OwnMined(c) = Amount[c]
  BY <1>1, <1>2 DEF MorphoQuiet, OwnMined
<1>8. exec' = Recorded(Amount[c]) /\ exec'.age = 0 /\ UsedToday' = UsedToday + Amount[c]
  BY <1>1 DEF Finish, Recorded, UsedToday
<1>9. Settled'
  BY <1>1, <1>7, <1>8, Numbers DEF Settled, Admitted
<1>10. QED
  BY <1>1, <1>4, <1>6, <1>9 DEF MorphoQuiet

LEMMA FailQuiet ==
    ASSUME MorphoAssumption, MorphoTypeOK, MorphoStaged, Dated, MorphoQuiet,
           NEW c \in Deposit, Fail(c)
    PROVE  MorphoQuiet'
<1> SUFFICES ASSUME DepositsUndisturbed'
             PROVE  /\ OnlyOwn' /\ Settled'
                    /\ \A e \in Depositing' : Admitted(e)'
                    /\ \A d \in 1..Days : d < day' => spent'[d] <= DailyCap
  BY DEF MorphoQuiet
<1>1. DepositsUndisturbed /\ UNCHANGED <<exec, tx, day, spent, idle>>
  BY DEF Fail, DepositsUndisturbed, record
<1>2. c \in Depositing
  BY DEF Fail, Depositing
<1>3. \A e \in Depositing : e = c
  BY <1>1, <1>2 DEF MorphoQuiet, OnlyOwn
<1>4. path[c] \in Path /\ tx[c][path[c]] \notin {"pending", "mined"}
  <2>1. deposit[c] = "sent" => tx[c][path[c]] = "reverted"
    BY DEF Fail, DepositsUndisturbed
  <2>2. deposit[c] # "sent" => tx[c][path[c]] = "none"
    BY DEF Fail, MorphoStaged, DepositInFlight
  <2>3. QED
    BY <2>1, <2>2 DEF MorphoTypeOK
<1>5. \A e \in Deposit, p \in Path : tx[e][p] # "pending"
  BY <1>1, <1>2, <1>3, <1>4 DEF MorphoQuiet, OnlyOwn, Depositing, DepositInFlight
<1>6. Depositing' \subseteq {c}
  BY <1>3 DEF Fail, DepositIs, Depositing, DepositInFlight, MorphoTypeOK
<1>7. OnlyOwn'
  BY <1>1, <1>5, <1>6 DEF OnlyOwn
<1>8. UsedToday' = UsedToday
  BY <1>1 DEF UsedToday
<1>9. /\ UsedToday + Amount[c] <= DailyCap
      /\ spent[day] <= UsedToday /\ idle = Cooldown
  BY <1>1, <1>2, <1>4, Numbers DEF MorphoQuiet, Admitted, OwnMined
<1>10. Settled'
  BY <1>1, <1>8, <1>9, Numbers DEF Settled
<1>11. ASSUME c \in Depositing' PROVE Admitted(c)'
  <2>1. deposit'[c] \in DepositInFlight /\ deposit'[c] # "failed"
    BY <1>11 DEF Depositing, DepositInFlight
  <2>2. path[c] = "sdk" /\ path' = [path EXCEPT ![c] = "native"]
    BY <2>1 DEF Fail, DepositIs, MorphoTypeOK
  <2>3. path'[c] = "native" /\ tx[c]["native"] = "none"
    BY <2>2 DEF Fail, MorphoStaged, MorphoTypeOK
  <2>4. OwnMined(c)' = 0
    BY <2>3, <1>1 DEF OwnMined
  <2>5. QED
    BY <1>1, <1>8, <1>9, <2>4, Numbers DEF Admitted
<1>12. QED
  BY <1>1, <1>6, <1>7, <1>10, <1>11 DEF MorphoQuiet

(* The steps of a request that change nothing MorphoQuiet depends on but its     *)
(* stage.                                                                  *)
LEMMA StageQuiet ==
    ASSUME MorphoTypeOK, MorphoQuiet, NEW c \in Deposit, Refuse(c) \/ ReadBalance(c)
    PROVE  MorphoQuiet'
<1>1. /\ UNCHANGED <<exec, path, tx, day, spent, idle>>
      /\ UNCHANGED <<overlapped, adrift, forgot>>
  BY DEF Refuse, ReadBalance, record, depositLog
<1>2. Depositing' = Depositing
  BY DEF Refuse, ReadBalance, DepositIs, Depositing, DepositInFlight, MorphoTypeOK
<1>3. \A e \in Deposit : deposit[e] = "sent" => deposit'[e] = "sent"
  BY DEF Refuse, ReadBalance, DepositIs, MorphoTypeOK
<1>4. QED
  BY <1>1, <1>2, <1>3
  DEF MorphoQuiet, DepositsUndisturbed, OnlyOwn, Settled, Admitted, UsedToday, OwnMined

LEMMA MineQuiet ==
    ASSUME MorphoAssumption, MorphoTypeOK, Dated, MorphoQuiet, NEW c \in Deposit, NEW p \in Path,
           Mine(c, p)
    PROVE  /\ MorphoQuiet'
           /\ DepositsUndisturbed => idle >= Cooldown
<1>1. /\ UNCHANGED <<exec, deposit, path, day>> /\ UNCHANGED <<overlapped, adrift, forgot>>
      /\ tx[c][p] = "pending" /\ tx' = [tx EXCEPT ![c][p] = "mined"]
      /\ spent' = [spent EXCEPT ![day] = @ + Amount[c]] /\ idle' = 0
  BY DEF Mine, record
<1> SUFFICES ASSUME DepositsUndisturbed
             PROVE  /\ OnlyOwn' /\ Settled'
                    /\ \A e \in Depositing' : Admitted(e)'
                    /\ \A d \in 1..Days : d < day' => spent'[d] <= DailyCap
                    /\ idle >= Cooldown
  BY <1>1 DEF MorphoQuiet, DepositsUndisturbed
<1>2. deposit[c] = "sent" /\ path[c] = p /\ c \in Depositing
  BY <1>1 DEF MorphoQuiet, OnlyOwn, Depositing, DepositInFlight
<1>3. Depositing' = Depositing /\ \A e \in Depositing : e = c
  BY <1>1, <1>2 DEF MorphoQuiet, OnlyOwn, Depositing
<1>4. Admitted(c) /\ OwnMined(c) = 0 /\ idle = Cooldown
  BY <1>1, <1>2 DEF MorphoQuiet, Admitted, OwnMined
<1>5. tx'[c][path'[c]] = "mined" /\ OwnMined(c)' = Amount[c]
  <2>1. tx'[c][p] = "mined"
    BY <1>1 DEF MorphoTypeOK
  <2>2. QED
    BY <2>1, <1>1, <1>2 DEF OwnMined
<1>6. OnlyOwn'
  <2>1. \A e \in Deposit, q \in Path : tx'[e][q] = "pending" => tx[e][q] = "pending"
    BY <1>1 DEF MorphoTypeOK
  <2>2. QED
    BY <2>1, <1>1, <1>3 DEF MorphoQuiet, OnlyOwn
<1>7. UsedToday' = UsedToday /\ spent'[day] = spent[day] + Amount[c]
  BY <1>1, Numbers DEF UsedToday
<1>8. Admitted(c)'
  BY <1>1, <1>4, <1>5, <1>7, Numbers DEF Admitted
<1>9. \A d \in 1..Days : d < day' => spent'[d] <= DailyCap
  BY <1>1, Numbers DEF MorphoQuiet
<1>10. QED
  BY <1>2, <1>3, <1>4, <1>6, <1>8, <1>9, Numbers DEF Settled

LEMMA RevertQuiet ==
    ASSUME MorphoAssumption, MorphoTypeOK, MorphoQuiet,
           NEW c \in Deposit, NEW p \in Path, Revert(c, p)
    PROVE  MorphoQuiet'
<1>1. /\ UNCHANGED <<exec, deposit, path, day, spent, idle>>
      /\ UNCHANGED <<overlapped, adrift, forgot>>
      /\ tx[c][p] = "pending" /\ tx' = [tx EXCEPT ![c][p] = "reverted"]
  BY DEF Revert, record, depositLog
<1>2. \A e \in Deposit, q \in Path : /\ tx'[e][q] = "pending" => tx[e][q] = "pending"
                                 /\ tx'[e][q] = "mined" <=> tx[e][q] = "mined"
  BY <1>1 DEF MorphoTypeOK
<1>3. \A e \in Deposit : OwnMined(e)' = OwnMined(e)
  BY <1>1, <1>2 DEF OwnMined, MorphoTypeOK
<1>4. /\ DepositsUndisturbed' = DepositsUndisturbed /\ Depositing' = Depositing
      /\ UsedToday' = UsedToday
  BY <1>1 DEF DepositsUndisturbed, Depositing, UsedToday
<1>5. OnlyOwn => OnlyOwn'
  BY <1>1, <1>2, <1>4 DEF OnlyOwn
<1>6. Settled => Settled'
  BY <1>1, <1>4 DEF Settled
<1>7. \A e \in Depositing : Admitted(e) => Admitted(e)'
  BY <1>1, <1>2, <1>3, <1>4 DEF Admitted, Depositing, MorphoTypeOK
<1>8. QED
  BY <1>1, <1>4, <1>5, <1>6, <1>7 DEF MorphoQuiet

LEMMA RestartQuiet ==
    ASSUME MorphoAssumption, MorphoTypeOK, MorphoStaged, Dated, MorphoQuiet, MorphoRestart
    PROVE  MorphoQuiet'
<1> SUFFICES ASSUME DepositsUndisturbed'
             PROVE  /\ OnlyOwn' /\ Settled'
                    /\ \A e \in Depositing' : Admitted(e)'
                    /\ \A d \in 1..Days : d < day' => spent'[d] <= DailyCap
  BY DEF MorphoQuiet
<1>1. DepositsUndisturbed /\ UNCHANGED <<path, tx, day, spent, idle>> /\ exec' = exec
  BY DEF MorphoRestart, DepositsUndisturbed
<1>2. Depositing' = {}
  BY DEF MorphoRestart, Depositing, DepositInFlight, MorphoTypeOK
<1>3. \A c \in Depositing : tx[c][path[c]] \notin {"pending", "mined"}
  <2>1. \A c \in Depositing : deposit[c] = "sent" => tx[c][path[c]] = "reverted"
    BY DEF MorphoRestart, DepositsUndisturbed
  <2>2. \A c \in Depositing : deposit[c] # "sent" => tx[c][path[c]] = "none"
    BY DEF MorphoStaged, Depositing, DepositInFlight
  <2>3. QED
    BY <2>1, <2>2
<1>4. \A e \in Deposit, p \in Path : tx[e][p] # "pending"
  BY <1>1, <1>3 DEF MorphoQuiet, OnlyOwn, Depositing, DepositInFlight
<1>5. OnlyOwn'
  BY <1>1, <1>2, <1>4 DEF OnlyOwn
<1>6. UsedToday' = UsedToday
  BY <1>1 DEF UsedToday
<1>7. /\ spent[day] <= UsedToday /\ UsedToday <= DailyCap /\ exec.age <= idle
  <2>1. CASE Depositing = {}
    BY <2>1, <1>1 DEF MorphoQuiet, Settled
  <2>2. ASSUME NEW c \in Depositing
        PROVE  spent[day] <= UsedToday /\ UsedToday <= DailyCap /\ exec.age <= idle
    <3>1. c \in Deposit /\ Admitted(c) /\ tx[c][path[c]] # "mined"
      BY <1>1, <1>3 DEF MorphoQuiet, Depositing
    <3>2. OwnMined(c) = 0
      BY <3>1 DEF OwnMined
    <3>3. QED
      BY <3>1, <3>2, Numbers DEF Admitted
  <2>3. QED
    BY <2>1, <2>2
<1>8. Settled'
  BY <1>1, <1>6, <1>7 DEF Settled
<1>9. QED
  BY <1>1, <1>2, <1>5, <1>8 DEF MorphoQuiet

LEMMA NewDayQuiet ==
    ASSUME MorphoAssumption, MorphoTypeOK, Dated, MorphoQuiet, NewDay
    PROVE  MorphoQuiet'
<1>1. /\ UNCHANGED <<exec, deposit, path, tx, spent, idle>>
      /\ UNCHANGED <<overlapped, adrift, forgot>>
      /\ day' = day + 1 /\ day' \in 1..Days
  BY DEF NewDay, record, requests, depositLog, MorphoTypeOK, MorphoAssumption
<1> SUFFICES ASSUME DepositsUndisturbed
             PROVE  /\ OnlyOwn' /\ Settled'
                    /\ \A e \in Depositing' : Admitted(e)'
                    /\ \A d \in 1..Days : d < day' => spent'[d] <= DailyCap
  BY <1>1 DEF MorphoQuiet, DepositsUndisturbed
<1>2. Depositing' = Depositing
  BY <1>1 DEF Depositing
<1>3. OnlyOwn'
  BY <1>1, <1>2 DEF MorphoQuiet, OnlyOwn
<1>4. UsedToday' = 0 /\ spent'[day'] = 0
  BY <1>1, Numbers DEF UsedToday, Dated
<1>5. Settled'
  BY <1>1, <1>2, <1>4, Numbers DEF MorphoQuiet, Settled
<1>6. ASSUME NEW e \in Depositing PROVE Admitted(e)'
  <2>1. e \in Deposit /\ Admitted(e)
    BY DEF MorphoQuiet, Depositing
  <2>2. OwnMined(e)' = OwnMined(e)
    BY <1>1 DEF OwnMined
  <2>3. /\ UsedToday \in Nat /\ Amount[e] \in Nat /\ OwnMined(e) \in Nat
        /\ DailyCap \in Nat
    BY <2>1, Numbers
  <2>4. UsedToday + Amount[e] <= DailyCap
    BY <2>1 DEF Admitted
  <2>5. 0 + Amount[e] <= DailyCap /\ 0 <= 0 + OwnMined(e)
    BY <2>3, <2>4
  <2>6. tx'[e][path'[e]] # "mined" => idle' = Cooldown
    BY <1>1, <2>1 DEF Admitted
  <2>7. QED
    BY <1>4, <2>2, <2>5, <2>6 DEF Admitted
<1>7. spent[day] <= DailyCap
  <2>1. CASE Depositing = {}
    BY <2>1, Numbers DEF MorphoQuiet, Settled
  <2>2. ASSUME NEW e \in Depositing PROVE spent[day] <= DailyCap
    <3>1. e \in Deposit /\ Admitted(e)
      BY DEF MorphoQuiet, Depositing
    <3>2. QED
      BY <3>1, Numbers DEF Admitted
  <2>3. QED
    BY <2>1, <2>2
<1>8. \A d \in 1..Days : d < day' => spent'[d] <= DailyCap
  BY <1>1, <1>7, Numbers DEF MorphoQuiet
<1>9. QED
  BY <1>2, <1>3, <1>5, <1>6, <1>8

LEMMA TickQuiet ==
    ASSUME MorphoAssumption, MorphoTypeOK, Dated, MorphoQuiet, Tick
    PROVE  MorphoQuiet'
<1>1. /\ UNCHANGED <<deposit, path, tx, day, spent>> /\ UNCHANGED <<overlapped, adrift, forgot>>
      /\ exec' = [exec EXCEPT !.age = Older(@)] /\ idle' = Older(idle)
  BY DEF Tick, requests
<1>2. exec'.used = exec.used /\ exec'.day = exec.day /\ exec'.age = Older(exec.age)
  BY <1>1 DEF MorphoTypeOK, ExecuteState
<1>3. /\ UsedToday' = UsedToday /\ Depositing' = Depositing
      /\ DepositsUndisturbed' = DepositsUndisturbed
  BY <1>1, <1>2 DEF UsedToday, Depositing, DepositsUndisturbed
<1>4. exec.age <= idle => exec'.age <= idle'
  BY <1>1, <1>2, Numbers DEF Older
<1>5. idle = Cooldown => idle' = Cooldown
  BY <1>1 DEF Older
<1>6. Settled => Settled'
  BY <1>1, <1>3, <1>4 DEF Settled
<1>7. \A e \in Depositing : Admitted(e) => Admitted(e)'
  BY <1>1, <1>3, <1>5 DEF Admitted, OwnMined
<1>8. OnlyOwn => OnlyOwn'
  BY <1>1, <1>3 DEF OnlyOwn
<1>9. QED
  BY <1>1, <1>3, <1>6, <1>7, <1>8 DEF MorphoQuiet

LEMMA MorphoQuietStep ==
    ASSUME MorphoAssumption, MorphoTypeOK, MorphoStaged, Dated, MorphoQuiet, [MorphoNext]_morphoVars
    PROVE  MorphoQuiet'
<1>1. CASE UNCHANGED morphoVars
  BY <1>1, QuietFrame DEF morphoVars, record, requests, depositLog
<1>2. ASSUME NEW c \in Deposit, DepositRequest(c) PROVE MorphoQuiet'
  BY <1>2, BeginQuiet, SendQuiet, FinishQuiet, FailQuiet, StageQuiet DEF DepositRequest
<1>3. ASSUME NEW c \in Deposit, NEW p \in Path, Mine(c, p) \/ Revert(c, p) PROVE MorphoQuiet'
  BY <1>3, MineQuiet, RevertQuiet
<1>4. CASE Save
  BY <1>4, QuietFrame DEF Save, requests, depositLog
<1>5. QED
  BY <1>1, <1>2, <1>3, <1>4, RestartQuiet, NewDayQuiet, TickQuiet DEF MorphoNext

-----------------------------------------------------------------------------
(* The theorems.                                                           *)

MorphoInv == MorphoTypeOK /\ MorphoStaged /\ Windows /\ Dated /\ MorphoQuiet

LEMMA MorphoInvariance == ASSUME MorphoAssumption PROVE MorphoSpec => []MorphoInv
<1>1. MorphoInit => MorphoInv
  BY MorphoTypeInit, FirstInvariants DEF MorphoInv
<1>2. MorphoInv /\ [MorphoNext]_morphoVars => MorphoInv'
  BY MorphoTypeStep, MorphoStagedStep, WindowsStep, DatedStep, MorphoQuietStep DEF MorphoInv
<1>3. QED
  BY <1>1, <1>2, PTL DEF MorphoSpec

(* Every reachable state has its types.                                    *)
THEOREM MorphoTypeCorrect == ASSUME MorphoAssumption PROVE MorphoSpec => []MorphoTypeOK
<1>1. MorphoInv => MorphoTypeOK
  BY DEF MorphoInv
<1>2. QED
  BY <1>1, MorphoInvariance, PTL

(* The cap at rest: the record bounds what was deposited; in flight: the   *)
(* request admitted has room.                                              *)
THEOREM CapHolds == ASSUME MorphoAssumption PROVE MorphoSpec => []CapKept
<1>1. ASSUME MorphoInv PROVE CapKept
  <2> SUFFICES ASSUME DepositsUndisturbed, NEW d \in 1..Days PROVE spent[d] <= DailyCap
    BY DEF CapKept
  <2>1. CASE d < day
    BY <1>1, <2>1 DEF MorphoInv, MorphoQuiet
  <2>2. CASE d > day
    BY <1>1, <2>2 DEF MorphoInv, Dated, MorphoAssumption
  <2>3. CASE d = day
    <3>1. CASE Depositing = {}
      BY <1>1, <2>3, <3>1, Numbers DEF MorphoInv, MorphoQuiet, Settled
    <3>2. ASSUME NEW c \in Depositing PROVE spent[d] <= DailyCap
      <4>1. c \in Deposit /\ Admitted(c)
        BY <1>1 DEF MorphoInv, MorphoQuiet, Depositing
      <4>2. QED
        BY <1>1, <2>3, <4>1, Numbers DEF MorphoInv, Admitted
    <3>3. QED
      BY <3>1, <3>2
  <2>4. QED
    BY <1>1, <2>1, <2>2, <2>3 DEF MorphoInv, MorphoTypeOK
<1>2. QED
  BY <1>1, MorphoInvariance, PTL

(* A deposit that can be applied, undisturbed, belongs to the request in   *)
(* flight, and that one was admitted after the cooldown.                   *)
THEOREM CooldownHolds == ASSUME MorphoAssumption PROVE MorphoSpec => DepositsApart
<1>1. ASSUME MorphoInv, NEW c \in Deposit, NEW p \in Path, Mine(c, p) /\ DepositsUndisturbed
      PROVE  idle >= Cooldown
  BY <1>1, MineQuiet DEF MorphoInv
<1>2. MorphoInv /\ [MorphoNext]_morphoVars =>
        [\A c \in Deposit, p \in Path :
             Mine(c, p) /\ DepositsUndisturbed => idle >= Cooldown]_morphoVars
  BY <1>1
<1>3. QED
  BY <1>2, MorphoInvariance, PTL DEF MorphoSpec, DepositsApart

LEMMA HonestStep ==
    ASSUME MorphoAssumption, MorphoTypeOK, Windows, ReconcileHonest, [MorphoNext]_morphoVars
    PROVE  ReconcileHonest'
<1> USE DEF ReconcileHonest
<1>1. CASE UNCHANGED morphoVars
  BY <1>1 DEF morphoVars, requests, depositLog
<1>2. ASSUME NEW c \in Deposit, DepositRequest(c) PROVE ReconcileHonest'
  <2>1. CASE Finish(c)
    <3>1. moved - balance[c] = foreign[c] + Amount[c]
      BY <2>1 DEF Finish, Windows, OwnMined
    <3>2. Amount[c] \in Nat /\ foreign[c] \in Nat
      BY DEF MorphoAssumption, MorphoTypeOK
    <3>3. Reconciled(c) <=> foreign[c] = 0
      BY <3>1, <3>2 DEF Reconciled
    <3>4. answer'[c].reconciled = Reconciled(c)
      BY <2>1 DEF Finish, MorphoTypeOK
    <3>5. foreign' = foreign /\ \A e \in Deposit : e # c =>
            deposit'[e] = deposit[e] /\ answer'[e] = answer[e]
      BY <2>1 DEF Finish, DepositIs, MorphoTypeOK, depositLog
    <3>6. QED
      BY <3>3, <3>4, <3>5
  <2>2. CASE ReadBalance(c)
    BY <2>2 DEF ReadBalance, DepositIs, MorphoTypeOK
  <2>3. CASE BeginDeposit(c) \/ Refuse(c) \/ SendDeposit(c) \/ Fail(c)
    <3>1. answer' = answer /\ foreign' = foreign
      BY <2>3 DEF BeginDeposit, Refuse, SendDeposit, Fail, depositLog
    <3>2. \A e \in Deposit : deposit'[e] = "done" => deposit[e] = "done"
      BY <2>3 DEF BeginDeposit, Refuse, SendDeposit, Fail, DepositIs, MorphoTypeOK
    <3>3. QED
      BY <3>1, <3>2
  <2>4. QED
    BY <1>2, <2>1, <2>2, <2>3 DEF DepositRequest
<1>3. ASSUME NEW c \in Deposit, NEW p \in Path, Mine(c, p) PROVE ReconcileHonest'
  BY <1>3 DEF Mine
<1>4. ASSUME NEW c \in Deposit, NEW p \in Path, Revert(c, p) PROVE ReconcileHonest'
  BY <1>4 DEF Revert, depositLog
<1>5. CASE Save \/ NewDay \/ Tick
  BY <1>5 DEF Save, NewDay, Tick, requests, depositLog
<1>6. CASE MorphoRestart
  BY <1>6 DEF MorphoRestart, Depositing, DepositInFlight, MorphoTypeOK
<1>7. QED
  BY <1>1, <1>2, <1>3, <1>4, <1>5, <1>6 DEF MorphoNext

(* The difference of the two balances is the request's own amount and what *)
(* others deposited in between.                                            *)
THEOREM ReconcileExact == ASSUME MorphoAssumption PROVE MorphoSpec => []ReconcileHonest
<1>1. MorphoInit => ReconcileHonest
  BY DEF MorphoInit, ReconcileHonest
<1>2. MorphoInv /\ ReconcileHonest /\ [MorphoNext]_morphoVars => ReconcileHonest'
  BY HonestStep DEF MorphoInv
<1>3. QED
  BY <1>1, <1>2, MorphoInvariance, PTL DEF MorphoSpec

-----------------------------------------------------------------------------
(* The delegation gate: what a submission or a revocation answered holds   *)
(* through restarts and concurrent writes, for any requests, delegations   *)
(* and number of rows kept, as long as no write fails, is cut off, or      *)
(* lands after a later one.                                                *)

Pending(r) == saving[r] \in {"mkdir", "writing"}

(* Every row of the delegation is active, and there is one.                *)
Stands(d, rs) ==
    /\ d \in Ids(rs)
    /\ \A i \in DOMAIN rs : rs[i].id = d => rs[i].active

(* Ids in use were given out, and stamps follow the clock.                 *)
Known ==
    /\ Ids(rows) \subseteq issued
    /\ file # Torn => Ids(file) \subseteq issued
    /\ \A r \in Saver : Ids(image[r]) \subseteq issued
    /\ \A r \in Saver : /\ submits[r] # None => submits[r] \in issued
                        /\ revokes[r] # None => revokes[r] \in issued
                        /\ saving[r] = "new" => submits[r] = None /\ revokes[r] = None
    /\ told \subseteq issued /\ granted \subseteq issued
    /\ landed <= clock /\ \A r \in Saver : stamp[r] <= clock

(* A write that may still land without being late.                         *)
Timely(r) == saving[r] = "writing" /\ stamp[r] >= landed

(* An answered revocation is in the rows, in the file and in every image   *)
(* that may replace the file; one that is being saved is in the rows, in   *)
(* its own image and in every later one.                                   *)
RevocationsKept ==
    /\ \A d \in told : /\ ~ActiveIn(d, rows) /\ ~ActiveIn(d, file)
                       /\ \A r \in Saver : Timely(r) => ~ActiveIn(d, image[r])
    /\ \A r \in Saver : Pending(r) /\ revokes[r] # None => ~ActiveIn(revokes[r], rows)
    /\ \A r, q \in Saver :
          saving[r] = "writing" /\ saving[q] = "writing" /\ stamp[q] >= stamp[r]
            /\ revokes[r] # None => ~ActiveIn(revokes[r], image[q])

Standing(d) == d \notin marked /\ d \notin dropped

(* The same for submissions, of delegations nobody revoked or pushed out.  *)
SubmissionsKept ==
    /\ \A d \in granted : Standing(d) =>
          /\ Stands(d, rows) /\ Stands(d, file)
          /\ \A r \in Saver : Timely(r) => Stands(d, image[r])
    /\ \A r \in Saver :
          Pending(r) /\ submits[r] # None /\ Standing(submits[r]) => Stands(submits[r], rows)
    /\ \A r, q \in Saver :
          saving[r] = "writing" /\ saving[q] = "writing" /\ stamp[q] >= stamp[r]
            /\ submits[r] # None /\ Standing(submits[r]) => Stands(submits[r], image[q])

GateKept == ~faulted => file # Torn /\ RevocationsKept /\ SubmissionsKept

-----------------------------------------------------------------------------
(* The operators on the rows.                                              *)

LEMMA SubmittedRows ==
    ASSUME DelegationAssumption, rows \in Seq(Row), NEW d \in Delegation
    PROVE  /\ Submitted(d) \in Seq(Row)
           /\ 1 \in DOMAIN Submitted(d)
           /\ Submitted(d)[1] = [id |-> d, active |-> TRUE]
           /\ \A i \in DOMAIN Submitted(d) : i # 1 =>
                 i - 1 \in DOMAIN rows /\ Submitted(d)[i] = rows[i - 1]
<1> DEFINE new == [id |-> d, active |-> TRUE]
           all == <<new>> \o rows
<1>1. new \in Row /\ RowCap \in Nat /\ RowCap >= 1 /\ Len(rows) \in Nat
  BY DEF Row, DelegationAssumption
<1>2. all \in Seq(Row) /\ Len(all) = Len(rows) + 1
  BY <1>1
<1>3. all[1] = new /\ \A i \in 1..Len(all) : i # 1 => i - 1 \in 1..Len(rows) /\ all[i] = rows[i - 1]
  BY <1>1, <1>2
<1>4. Submitted(d) = IF Len(all) > RowCap THEN SubSeq(all, 1, RowCap) ELSE all
  BY DEF Submitted
<1> HIDE DEF all, new
<1>5. CASE Len(all) > RowCap
  <2> DEFINE cut == SubSeq(all, 1, RowCap)
  <2>1. cut \in Seq(Row) /\ Len(cut) = RowCap
    BY <1>1, <1>2, <1>5
  <2>2. \A i \in 1..RowCap : cut[i] = all[i]
    BY <1>1, <1>2, <1>5
  <2>3. 1 \in 1..RowCap /\ \A i \in 1..RowCap : i \in 1..Len(all)
    BY <1>1, <1>2, <1>5
  <2> HIDE DEF cut
  <2>4. DOMAIN cut = 1..RowCap
    BY <2>1
  <2>5. DOMAIN rows = 1..Len(rows)
    OBVIOUS
  <2>6. Submitted(d) = cut
    BY <1>4, <1>5 DEF cut
  <2>7. QED
    BY <1>3, <2>1, <2>2, <2>3, <2>4, <2>5, <2>6 DEF new
<1>6. CASE ~(Len(all) > RowCap)
  <2>1. DOMAIN all = 1..Len(all) /\ DOMAIN rows = 1..Len(rows) /\ 1 \in 1..Len(all)
    BY <1>1, <1>2
  <2>2. QED
    BY <1>2, <1>3, <1>4, <1>6, <2>1 DEF new
<1>7. QED
  BY <1>5, <1>6

LEMMA RevokedRows ==
    ASSUME rows \in Seq(Row), NEW d \in Delegation
    PROVE  /\ Revoked(d) \in Seq(Row)
           /\ DOMAIN Revoked(d) = DOMAIN rows
           /\ \A i \in DOMAIN rows :
                 /\ Revoked(d)[i].id = rows[i].id
                 /\ Revoked(d)[i].active <=> rows[i].active /\ rows[i].id # d
<1>1. \A i \in DOMAIN rows : rows[i] \in Row
  OBVIOUS
<1>2. \A i \in DOMAIN rows : [rows[i] EXCEPT !.active = FALSE] \in Row
  BY <1>1 DEF Row
<1>3. Revoked(d) \in [1..Len(rows) -> Row] /\ DOMAIN rows = 1..Len(rows)
  BY <1>1, <1>2 DEF Revoked
<1>4. Len(rows) \in Nat
  OBVIOUS
<1>5. Revoked(d) \in Seq(Row)
  BY <1>3, <1>4
<1>6. QED
  BY <1>1, <1>3, <1>5 DEF Revoked, Row

LEMMA SubmittedFacts ==
    ASSUME DelegationAssumption, rows \in Seq(Row), NEW d \in Delegation
    PROVE  /\ \A e : ActiveIn(e, Submitted(d)) => e = d \/ ActiveIn(e, rows)
           /\ Ids(Submitted(d)) \subseteq Ids(rows) \union {d}
           /\ d \notin Ids(rows) => Stands(d, Submitted(d))
           /\ \A e : e # d /\ Stands(e, rows) /\ e \in Ids(Submitted(d)) => Stands(e, Submitted(d))
<1> DEFINE new == [id |-> d, active |-> TRUE]
           rs == Submitted(d)
<1>1. /\ 1 \in DOMAIN rs /\ rs[1] = new
      /\ \A i \in DOMAIN rs : i # 1 => i - 1 \in DOMAIN rows /\ rs[i] = rows[i - 1]
  BY SubmittedRows
<1>2. new.id = d /\ new.active
  OBVIOUS
<1> HIDE DEF new, rs
<1>3. \A e : ActiveIn(e, rs) => e = d \/ ActiveIn(e, rows)
  BY <1>1, <1>2 DEF ActiveIn
<1>4. Ids(rs) \subseteq Ids(rows) \union {d}
  BY <1>1, <1>2 DEF Ids
<1>5. d \notin Ids(rows) => Stands(d, rs)
  BY <1>1, <1>2 DEF Ids, Stands
<1>6. \A e : e # d /\ Stands(e, rows) /\ e \in Ids(rs) => Stands(e, rs)
  BY <1>1, <1>2 DEF Ids, Stands
<1>7. QED
  BY <1>3, <1>4, <1>5, <1>6 DEF rs

LEMMA RevokedFacts ==
    ASSUME rows \in Seq(Row), NEW d \in Delegation
    PROVE  /\ \A e : ActiveIn(e, Revoked(d)) => e # d /\ ActiveIn(e, rows)
           /\ Ids(Revoked(d)) = Ids(rows)
           /\ \A e : e # d /\ Stands(e, rows) => Stands(e, Revoked(d))
  BY RevokedRows DEF ActiveIn, Ids, Stands

-----------------------------------------------------------------------------
(* Types and known ids.                                                    *)

LEMMA GateTypeInit == ASSUME DelegationAssumption PROVE GateInit => GateTypeOK
<1> SUFFICES ASSUME GateInit PROVE GateTypeOK
  OBVIOUS
<1>1. << >> \in Seq(Row) /\ 0 \in 0..MaxGateCrashes
  BY DEF DelegationAssumption
<1>2. rows \in Seq(Row) /\ file \in Seq(Row) /\ image \in [Saver -> Seq(Row)]
  BY <1>1 DEF GateInit
<1>3. QED
  BY <1>1, <1>2 DEF GateInit, GateTypeOK

LEMMA GateTypeStep == ASSUME DelegationAssumption, GateTypeOK, [GateNext]_gateVars PROVE GateTypeOK'
<1> USE DEF GateTypeOK
<1>1. CASE UNCHANGED gateVars
  BY <1>1 DEF gateVars, writing, gateHistory
<1>2. ASSUME NEW r \in Saver, NEW d \in Delegation, Submit(r, d) PROVE GateTypeOK'
  <2>1. rows' \in Seq(Row)
    BY <1>2, SubmittedRows DEF Submit
  <2>2. dropped' \subseteq Delegation
    <3>1. Ids(rows) \subseteq Delegation
      <4>1. \A i \in DOMAIN rows : rows[i] \in Row
        OBVIOUS
      <4>2. QED
        BY <4>1 DEF Ids, Row
    <3>2. QED
      BY <1>2, <3>1 DEF Submit
  <2>3. QED
    BY <1>2, <2>1, <2>2 DEF Submit, SavingIs
<1>3. ASSUME NEW r \in Saver, NEW d \in Delegation, Revoke(r, d) PROVE GateTypeOK'
  BY <1>3, RevokedRows DEF Revoke, SavingIs
<1>4. ASSUME NEW r \in Saver, SaveOther(r) PROVE GateTypeOK'
  BY <1>4 DEF SaveOther, SavingIs, gateHistory
<1>5. ASSUME NEW r \in Saver, TakeImage(r) PROVE GateTypeOK'
  BY <1>5 DEF TakeImage, SavingIs
<1>6. ASSUME NEW r \in Saver, Land(r) PROVE GateTypeOK'
  BY <1>6 DEF Land, Answer, SavingIs
<1>7. ASSUME NEW r \in Saver, SaveFails(r) PROVE GateTypeOK'
  BY <1>7 DEF SaveFails, Answer, SavingIs
<1>8. ASSUME NEW d \in Delegation, Expire(d) PROVE GateTypeOK'
  BY <1>8 DEF Expire, writing, gateHistory
<1>9. CASE GateRestart
  <2>1. file' \in Seq(Row) \union {Torn}
    BY <1>9 DEF GateRestart, Interrupted
  <2>2. rows' \in Seq(Row)
    BY <1>9, <2>1 DEF GateRestart
  <2>3. faulted' \in BOOLEAN /\ gateCrashes' \in 0..MaxGateCrashes
    BY <1>9 DEF GateRestart, DelegationAssumption
  <2>4. QED
    BY <1>9, <2>1, <2>2, <2>3 DEF GateRestart
<1>10. QED
  BY <1>1, <1>2, <1>3, <1>4, <1>5, <1>6, <1>7, <1>8, <1>9 DEF GateNext

LEMMA KnownInit == GateInit => Known
<1>1. Ids(<< >>) = {}
  BY DEF Ids
<1>2. QED
  BY <1>1 DEF GateInit, Known

LEMMA KnownStep == ASSUME DelegationAssumption, GateTypeOK, Known, [GateNext]_gateVars PROVE Known'
<1> USE DEF Known
<1>0. None \notin Delegation
  BY DEF DelegationAssumption
<1>1. CASE UNCHANGED gateVars
  BY <1>1 DEF gateVars, writing, gateHistory
<1>2. ASSUME NEW r \in Saver, NEW d \in Delegation, Submit(r, d) PROVE Known'
  <2>1. Ids(rows') \subseteq issued'
    BY <1>2, SubmittedFacts DEF Submit, GateTypeOK
  <2>2. QED
    BY <1>2, <2>1 DEF Submit, SavingIs, GateTypeOK
<1>3. ASSUME NEW r \in Saver, NEW d \in Delegation, Revoke(r, d) PROVE Known'
  <2>1. Ids(rows') \subseteq issued'
    BY <1>3, RevokedFacts DEF Revoke, GateTypeOK
  <2>2. QED
    BY <1>3, <2>1 DEF Revoke, SavingIs, GateTypeOK
<1>4. ASSUME NEW r \in Saver, SaveOther(r) PROVE Known'
  BY <1>4 DEF SaveOther, SavingIs, GateTypeOK, gateHistory
<1>5. ASSUME NEW r \in Saver, TakeImage(r) PROVE Known'
  <2>1. \A q \in Saver : stamp'[q] <= clock' /\ landed <= clock'
    BY <1>5 DEF TakeImage, GateTypeOK
  <2>2. \A q \in Saver : Ids(image'[q]) \subseteq issued
    BY <1>5 DEF TakeImage, GateTypeOK
  <2>3. QED
    BY <1>5, <2>1, <2>2 DEF TakeImage, SavingIs, GateTypeOK
<1>6. ASSUME NEW r \in Saver, Land(r) PROVE Known'
  BY <1>6 DEF Land, Answer, SavingIs, GateTypeOK
<1>7. ASSUME NEW r \in Saver, SaveFails(r) PROVE Known'
  <2>1. file' = file \/ file' = Torn
    BY <1>7 DEF SaveFails
  <2>2. told' \subseteq issued /\ granted' \subseteq issued
    BY <1>7 DEF SaveFails, Answer
  <2>3. \A q \in Saver : saving'[q] = "new" => saving[q] = "new"
    BY <1>7 DEF SaveFails, Answer, SavingIs, GateTypeOK
  <2>4. QED
    BY <1>7, <2>1, <2>2, <2>3 DEF SaveFails
<1>8. ASSUME NEW d \in Delegation, Expire(d) PROVE Known'
  BY <1>8 DEF Expire, writing, gateHistory
<1>9. CASE GateRestart
  <2>1. file' = file \/ file' = Torn
    BY <1>9 DEF GateRestart, Interrupted
  <2>2. Ids(<< >>) = {}
    BY DEF Ids
  <2>3. Ids(rows') \subseteq issued
    BY <1>9, <2>1, <2>2 DEF GateRestart
  <2>4. \A q \in Saver : saving'[q] = "new" => saving[q] = "new"
    BY <1>9 DEF GateRestart, GateTypeOK
  <2>5. QED
    BY <1>9, <2>1, <2>3, <2>4 DEF GateRestart
<1>10. QED
  BY <1>1, <1>2, <1>3, <1>4, <1>5, <1>6, <1>7, <1>8, <1>9 DEF GateNext

-----------------------------------------------------------------------------
(* What is kept.                                                           *)

LEMMA KeptSubmit ==
    ASSUME DelegationAssumption, GateTypeOK, Known, GateKept,
           NEW r \in Saver, NEW d \in Delegation, Submit(r, d)
    PROVE  GateKept'
<1> SUFFICES ASSUME ~faulted' PROVE file' # Torn /\ RevocationsKept' /\ SubmissionsKept'
  BY DEF GateKept
<1>1. /\ ~faulted /\ UNCHANGED <<file, revokes, image, stamp, landed, marked, granted, told>>
      /\ rows' = Submitted(d) /\ d \notin issued /\ rows \in Seq(Row)
      /\ dropped' = dropped \union (Ids(rows) \ Ids(rows'))
      /\ submits' = [submits EXCEPT ![r] = d] /\ saving' = [saving EXCEPT ![r] = "mkdir"]
  BY DEF Submit, SavingIs, GateTypeOK
<1>2. file # Torn /\ RevocationsKept /\ SubmissionsKept
  BY <1>1 DEF GateKept
<1>3. \A q \in Saver : /\ saving'[q] = "writing" <=> saving[q] = "writing"
                       /\ q # r => /\ Pending(q)' = Pending(q) /\ submits'[q] = submits[q]
  BY <1>1 DEF GateTypeOK, Pending, Submit
<1>4. submits'[r] = d /\ saving'[r] = "mkdir" /\ revokes[r] = None
  BY <1>1 DEF GateTypeOK, Known, Submit
<1>5. \A q \in Saver : Timely(q)' <=> Timely(q)
  BY <1>1, <1>3 DEF Timely
<1>6. d \notin Ids(rows)
  BY <1>1 DEF Known
<1>7. /\ \A e : ActiveIn(e, rows') => e = d \/ ActiveIn(e, rows)
      /\ Stands(d, rows')
      /\ \A e : e # d /\ Stands(e, rows) /\ e \in Ids(rows') => Stands(e, rows')
  BY <1>1, <1>6, SubmittedFacts
<1>8. RevocationsKept'
  <2>1. \A e \in told : ~ActiveIn(e, rows')
    BY <1>1, <1>2, <1>7 DEF RevocationsKept, Known
  <2>2. \A q \in Saver : Pending(q)' /\ revokes[q] # None => ~ActiveIn(revokes[q], rows')
    BY <1>1, <1>2, <1>3, <1>4, <1>7 DEF RevocationsKept, Known
  <2>3. QED
    BY <1>1, <1>2, <1>3, <1>5, <2>1, <2>2 DEF RevocationsKept
<1>9. SubmissionsKept'
  <2>1. \A e : Standing(e)' => Standing(e) /\ (e \in Ids(rows) => e \in Ids(rows'))
    BY <1>1 DEF Standing
  <2>0. \A q \in Saver : q # r => (Standing(submits[q])' => Standing(submits[q])
                            /\ (submits[q] \in Ids(rows) => submits[q] \in Ids(rows')))
    BY <1>1, <1>3 DEF Standing
  <2>2. \A e : Stands(e, rows) /\ Standing(e)' => Stands(e, rows')
    BY <1>6, <1>7, <2>1 DEF Stands
  <2>3. \A e \in granted : Standing(e)' => Stands(e, rows')
    BY <1>2, <2>1, <2>2 DEF SubmissionsKept
  <2>4. \A q \in Saver : Pending(q)' /\ submits'[q] # None /\ Standing(submits[q])'
                          => Stands(submits'[q], rows')
    <3> SUFFICES ASSUME NEW q \in Saver, Pending(q)', submits'[q] # None,
                        Standing(submits[q])'
                 PROVE  Stands(submits'[q], rows')
      OBVIOUS
    <3>1. CASE q = r
      BY <3>1, <1>4, <1>7
    <3>2. CASE q # r
      <4>1. Pending(q) /\ submits'[q] = submits[q] /\ Standing(submits[q])
        BY <3>2, <1>3, <2>0
      <4>2. Stands(submits[q], rows)
        BY <4>1, <1>2 DEF SubmissionsKept
      <4>3. submits[q] # d /\ submits[q] \in Ids(rows')
        BY <3>2, <4>2, <1>6, <2>0 DEF Stands
      <4>4. QED
        BY <4>1, <4>2, <4>3, <1>7
    <3>3. QED
      BY <3>1, <3>2
  <2>5. \A q, w \in Saver :
          saving'[q] = "writing" /\ saving'[w] = "writing" /\ stamp[w] >= stamp[q]
            /\ submits'[q] # None /\ Standing(submits[q])' => Stands(submits'[q], image[w])
    BY <1>2, <1>3, <1>4, <2>0 DEF SubmissionsKept
  <2>6. QED
    BY <1>1, <1>2, <1>5, <2>1, <2>3, <2>4, <2>5 DEF SubmissionsKept
<1>10. QED
  BY <1>1, <1>2, <1>8, <1>9

LEMMA KeptRevoke ==
    ASSUME DelegationAssumption, GateTypeOK, Known, GateKept,
           NEW r \in Saver, NEW d \in Delegation, Revoke(r, d)
    PROVE  GateKept'
<1> SUFFICES ASSUME ~faulted' PROVE file' # Torn /\ RevocationsKept' /\ SubmissionsKept'
  BY DEF GateKept
<1>1. /\ ~faulted /\ UNCHANGED <<file, submits, image, stamp, landed, dropped, granted, told>>
      /\ rows' = Revoked(d) /\ rows \in Seq(Row)
      /\ marked' = marked \union {d}
      /\ revokes' = [revokes EXCEPT ![r] = d] /\ saving' = [saving EXCEPT ![r] = "mkdir"]
  BY DEF Revoke, SavingIs, GateTypeOK
<1>2. file # Torn /\ RevocationsKept /\ SubmissionsKept
  BY <1>1 DEF GateKept
<1>3. \A q \in Saver : /\ saving'[q] = "writing" <=> saving[q] = "writing"
                       /\ q # r => /\ Pending(q)' = Pending(q) /\ revokes'[q] = revokes[q]
  BY <1>1 DEF GateTypeOK, Pending, Revoke
<1>4. revokes'[r] = d /\ saving'[r] = "mkdir" /\ submits[r] = None
  BY <1>1 DEF GateTypeOK, Known, Revoke
<1>5. \A q \in Saver : Timely(q)' <=> Timely(q)
  BY <1>1, <1>3 DEF Timely
<1>6. /\ \A e : ActiveIn(e, rows') => e # d /\ ActiveIn(e, rows)
      /\ \A e : e # d /\ Stands(e, rows) => Stands(e, rows')
  BY <1>1, RevokedFacts
<1>7. RevocationsKept'
  <2>1. \A e \in told : ~ActiveIn(e, rows')
    BY <1>2, <1>6 DEF RevocationsKept
  <2>2. \A q \in Saver : Pending(q)' /\ revokes'[q] # None => ~ActiveIn(revokes'[q], rows')
    BY <1>2, <1>3, <1>4, <1>6 DEF RevocationsKept
  <2>3. \A q, w \in Saver :
          saving'[q] = "writing" /\ saving'[w] = "writing" /\ stamp[w] >= stamp[q]
            /\ revokes'[q] # None => ~ActiveIn(revokes'[q], image[w])
    BY <1>2, <1>3, <1>4 DEF RevocationsKept
  <2>4. QED
    BY <1>1, <1>2, <1>5, <2>1, <2>2, <2>3 DEF RevocationsKept
<1>8. SubmissionsKept'
  <2>1. \A e : Standing(e)' => Standing(e) /\ e # d
    BY <1>1 DEF Standing
  <2>0. \A q \in Saver : Standing(submits[q])' => Standing(submits[q]) /\ submits[q] # d
    BY <1>1 DEF Standing
  <2>2. \A e \in granted : Standing(e)' => Stands(e, rows')
    BY <1>2, <1>6, <2>1 DEF SubmissionsKept
  <2>3. \A q \in Saver : Pending(q)' /\ submits[q] # None /\ Standing(submits[q])'
                          => Stands(submits[q], rows')
    BY <1>2, <1>3, <1>4, <1>6, <2>0 DEF SubmissionsKept
  <2>4. \A q, w \in Saver :
          saving'[q] = "writing" /\ saving'[w] = "writing" /\ stamp[w] >= stamp[q]
            /\ submits[q] # None /\ Standing(submits[q])' => Stands(submits[q], image[w])
    BY <1>2, <1>3, <2>0 DEF SubmissionsKept
  <2>5. QED
    BY <1>1, <1>2, <1>5, <2>1, <2>2, <2>3, <2>4 DEF SubmissionsKept
<1>9. QED
  BY <1>1, <1>2, <1>7, <1>8

LEMMA KeptImage ==
    ASSUME DelegationAssumption, GateTypeOK, Known, GateKept, NEW r \in Saver, TakeImage(r)
    PROVE  GateKept'
<1> SUFFICES ASSUME ~faulted' PROVE file' # Torn /\ RevocationsKept' /\ SubmissionsKept'
  BY DEF GateKept
<1>1. /\ ~faulted
      /\ UNCHANGED <<rows, file, submits, revokes, landed, marked, dropped, granted, told>>
      /\ image' = [image EXCEPT ![r] = rows] /\ stamp' = [stamp EXCEPT ![r] = clock + 1]
      /\ saving' = [saving EXCEPT ![r] = "writing"] /\ saving[r] = "mkdir"
  BY DEF TakeImage, SavingIs
<1>2. file # Torn /\ RevocationsKept /\ SubmissionsKept
  BY <1>1 DEF GateKept
<1>3. /\ saving'[r] = "writing" /\ image'[r] = rows /\ stamp'[r] = clock + 1
      /\ \A q \in Saver : q # r => /\ saving'[q] = saving[q] /\ image'[q] = image[q]
                                   /\ stamp'[q] = stamp[q]
  BY <1>1 DEF GateTypeOK
<1>4. \A q \in Saver : q # r => stamp'[q] < stamp'[r]
  BY <1>3 DEF Known, GateTypeOK
<1>5. \A q \in Saver : Pending(q)' = Pending(q) /\ (q # r => Timely(q)' = Timely(q))
  BY <1>1, <1>3 DEF Pending, Timely
<1>6. Pending(r) /\ \A q \in Saver : saving[q] = "writing" => Pending(q)
  BY <1>1 DEF Pending
<1>7. \A q \in Saver : ~(stamp'[q] >= stamp'[r]) \/ q = r
  <2>1. \A q \in Saver : stamp'[q] \in Nat
    BY <1>1 DEF GateTypeOK
  <2>2. QED
    BY <1>4, <2>1
<1>8. Standing(None)' = Standing(None) /\ \A e : Standing(e)' = Standing(e)
  BY <1>1 DEF Standing
<1>9. RevocationsKept'
  <2>1. \A d \in told, q \in Saver : Timely(q)' => ~ActiveIn(d, image'[q])
    BY <1>2, <1>3, <1>5 DEF RevocationsKept
  <2>2. \A q, w \in Saver :
          saving'[q] = "writing" /\ saving'[w] = "writing" /\ stamp'[w] >= stamp'[q]
            /\ revokes[q] # None => ~ActiveIn(revokes[q], image'[w])
    <3> SUFFICES ASSUME NEW q \in Saver, NEW w \in Saver, saving'[q] = "writing",
                        saving'[w] = "writing", stamp'[w] >= stamp'[q], revokes[q] # None
                 PROVE  ~ActiveIn(revokes[q], image'[w])
      OBVIOUS
    <3>1. CASE w = r
      BY <3>1, <1>2, <1>3, <1>6 DEF RevocationsKept
    <3>2. CASE w # r
      BY <3>2, <1>2, <1>3, <1>7 DEF RevocationsKept
    <3>3. QED
      BY <3>1, <3>2
  <2>3. QED
    BY <1>1, <1>2, <1>5, <2>1, <2>2 DEF RevocationsKept
<1>10. SubmissionsKept'
  <2>1. \A d \in granted : Standing(d) => \A q \in Saver : Timely(q)' => Stands(d, image'[q])
    BY <1>2, <1>3, <1>5 DEF SubmissionsKept
  <2>2. \A q, w \in Saver :
          saving'[q] = "writing" /\ saving'[w] = "writing" /\ stamp'[w] >= stamp'[q]
            /\ submits[q] # None /\ Standing(submits[q]) => Stands(submits[q], image'[w])
    <3> SUFFICES ASSUME NEW q \in Saver, NEW w \in Saver, saving'[q] = "writing",
                        saving'[w] = "writing", stamp'[w] >= stamp'[q], submits[q] # None,
                        Standing(submits[q])
                 PROVE  Stands(submits[q], image'[w])
      OBVIOUS
    <3>1. CASE w = r
      BY <3>1, <1>2, <1>3, <1>6 DEF SubmissionsKept
    <3>2. CASE w # r
      BY <3>2, <1>2, <1>3, <1>7 DEF SubmissionsKept
    <3>3. QED
      BY <3>1, <3>2
  <2>3. QED
    BY <1>1, <1>2, <1>5, <1>8, <2>1, <2>2 DEF SubmissionsKept
<1>11. QED
  BY <1>1, <1>2, <1>9, <1>10

LEMMA KeptLand ==
    ASSUME DelegationAssumption, TornIsNoRows, GateTypeOK, Known, GateKept,
           NEW r \in Saver, Land(r)
    PROVE  GateKept'
<1> SUFFICES ASSUME ~faulted' PROVE file' # Torn /\ RevocationsKept' /\ SubmissionsKept'
  BY DEF GateKept
<1>1. /\ ~faulted /\ stamp[r] >= landed /\ saving[r] = "writing"
      /\ UNCHANGED <<rows, submits, revokes, image, stamp, marked, dropped>>
      /\ file' = image[r] /\ landed' = stamp[r]
      /\ saving' = [saving EXCEPT ![r] = "done"]
      /\ granted' = granted \union ({submits[r]} \ {None})
      /\ told' = told \union ({revokes[r]} \ {None})
  <2>1. ~faulted /\ ~(stamp[r] < landed) /\ stamp[r] \in Nat /\ landed \in Nat
    BY DEF Land, GateTypeOK
  <2>2. QED
    BY <2>1 DEF Land, Answer, SavingIs
<1>2. file # Torn /\ RevocationsKept /\ SubmissionsKept
  BY <1>1 DEF GateKept
<1>3. Timely(r) /\ Pending(r)
  BY <1>1 DEF Timely, Pending
<1>4. \A q \in Saver : /\ saving'[q] = "writing" => saving[q] = "writing"
                       /\ Pending(q)' => Pending(q)
                       /\ Timely(q)' => Timely(q) /\ saving[q] = "writing"
                                                   /\ stamp[q] >= stamp[r]
  <2>1. \A q \in Saver : stamp[q] \in Nat /\ landed \in Nat
    BY DEF GateTypeOK
  <2>2. QED
    BY <1>1, <2>1 DEF Timely, Pending, GateTypeOK
<1>5. file' # Torn
  BY <1>1 DEF GateTypeOK, TornIsNoRows
<1>6. RevocationsKept'
  <2>1. ASSUME NEW d \in told'
        PROVE  /\ ~ActiveIn(d, rows) /\ ~ActiveIn(d, image[r])
               /\ \A q \in Saver : Timely(q)' => ~ActiveIn(d, image[q])
    <3>1. CASE d \in told
      BY <3>1, <1>2, <1>3, <1>4 DEF RevocationsKept
    <3>2. CASE d = revokes[r] /\ revokes[r] # None
      <4>1. stamp[r] >= stamp[r]
        BY DEF GateTypeOK
      <4>2. QED
        BY <3>2, <4>1, <1>1, <1>2, <1>3, <1>4 DEF RevocationsKept
    <3>3. QED
      BY <1>1, <3>1, <3>2
  <2>2. QED
    BY <1>1, <1>2, <1>4, <2>1 DEF RevocationsKept
<1>7. SubmissionsKept'
  <2>1. ASSUME NEW d \in granted', Standing(d)
        PROVE  /\ Stands(d, rows) /\ Stands(d, image[r])
               /\ \A q \in Saver : Timely(q)' => Stands(d, image[q])
    <3>1. CASE d \in granted
      BY <2>1, <3>1, <1>2, <1>3, <1>4 DEF SubmissionsKept
    <3>2. CASE d = submits[r] /\ submits[r] # None
      <4>1. stamp[r] >= stamp[r]
        BY DEF GateTypeOK
      <4>2. QED
        BY <2>1, <3>2, <4>1, <1>1, <1>2, <1>3, <1>4 DEF SubmissionsKept
    <3>3. QED
      BY <1>1, <3>1, <3>2
  <2>2. \A e : Standing(e)' = Standing(e)
    BY <1>1 DEF Standing
  <2>3. \A q \in Saver : Standing(submits[q])' = Standing(submits[q])
    BY <1>1 DEF Standing
  <2>4. QED
    BY <1>1, <1>2, <1>4, <2>1, <2>2, <2>3 DEF SubmissionsKept
<1>8. QED
  BY <1>5, <1>6, <1>7

LEMMA KeptRestart ==
    ASSUME GateTypeOK, GateKept, GateRestart
    PROVE  GateKept'
<1> SUFFICES ASSUME ~faulted' PROVE file' # Torn /\ RevocationsKept' /\ SubmissionsKept'
  BY DEF GateKept
<1>1. /\ ~faulted /\ file' # Torn /\ file' = file /\ rows' = file
      /\ UNCHANGED <<submits, revokes, image, stamp, landed, marked, dropped, granted, told>>
  BY DEF GateRestart, Interrupted
<1>2. RevocationsKept /\ SubmissionsKept
  BY <1>1 DEF GateKept
<1>3. \A q \in Saver : saving'[q] \notin {"mkdir", "writing"}
  BY DEF GateRestart, GateTypeOK
<1>4. \A q \in Saver : ~Pending(q)' /\ ~Timely(q)'
  BY <1>3 DEF Pending, Timely
<1>5. RevocationsKept'
  BY <1>1, <1>2, <1>3, <1>4 DEF RevocationsKept
<1>6. \A e : Standing(e)' = Standing(e)
  BY <1>1 DEF Standing
<1>7. SubmissionsKept'
  BY <1>1, <1>2, <1>3, <1>4, <1>6 DEF SubmissionsKept
<1>8. QED
  BY <1>1, <1>5, <1>7

(* A step that leaves the parts of GateKept alone, or starts to save nothing.  *)
LEMMA KeptFrame ==
    ASSUME GateTypeOK, Known, GateKept,
           UNCHANGED <<rows, file, submits, revokes, image, stamp, gateHistory>>,
           \/ UNCHANGED saving
           \/ \E r \in Saver : SaveOther(r)
    PROVE  GateKept'
<1>1. /\ UNCHANGED <<rows, file, submits, revokes, image, stamp>>
      /\ UNCHANGED <<landed, marked, dropped, granted, told, faulted>>
  BY DEF gateHistory
<1>2. \A q \in Saver :
        /\ saving'[q] = "writing" <=> saving[q] = "writing"
        /\ Timely(q)' <=> Timely(q)
        /\ Pending(q)' => Pending(q) \/ (submits[q] = None /\ revokes[q] = None)
  <2>1. CASE UNCHANGED saving
    BY <2>1, <1>1 DEF Timely, Pending
  <2>2. ASSUME NEW r \in Saver, SaveOther(r)
        PROVE  \A q \in Saver :
                 /\ saving'[q] = "writing" <=> saving[q] = "writing"
                 /\ Timely(q)' <=> Timely(q)
                 /\ Pending(q)' => Pending(q) \/ (submits[q] = None /\ revokes[q] = None)
    <3>1. \A q \in Saver : q # r => saving'[q] = saving[q]
      BY <2>2 DEF SaveOther, SavingIs, GateTypeOK
    <3>2. saving[r] = "new" /\ saving'[r] = "mkdir" /\ submits[r] = None /\ revokes[r] = None
      BY <2>2 DEF SaveOther, SavingIs, GateTypeOK, Known
    <3>3. QED
      BY <3>1, <3>2, <1>1 DEF Timely, Pending
  <2>3. QED
    BY <2>1, <2>2
<1>3. RevocationsKept => RevocationsKept'
  BY <1>1, <1>2 DEF RevocationsKept
<1>4. \A q \in Saver : Standing(submits[q])' = Standing(submits[q])
  BY <1>1 DEF Standing
<1>5. \A e : Standing(e)' = Standing(e)
  BY <1>1 DEF Standing
<1>6. SubmissionsKept => SubmissionsKept'
  BY <1>1, <1>2, <1>4, <1>5 DEF SubmissionsKept
<1>7. QED
  BY <1>1, <1>3, <1>6 DEF GateKept

LEMMA KeptStep ==
    ASSUME DelegationAssumption, TornIsNoRows, GateTypeOK, Known, GateKept, [GateNext]_gateVars
    PROVE  GateKept'
<1>1. CASE UNCHANGED gateVars
  BY <1>1, KeptFrame DEF gateVars, writing, gateHistory
<1>2. ASSUME NEW r \in Saver, NEW d \in Delegation, Submit(r, d) \/ Revoke(r, d) PROVE GateKept'
  BY <1>2, KeptSubmit, KeptRevoke
<1>3. ASSUME NEW r \in Saver, SaveOther(r) PROVE GateKept'
  BY <1>3, KeptFrame DEF SaveOther
<1>4. ASSUME NEW r \in Saver, TakeImage(r) \/ Land(r) PROVE GateKept'
  BY <1>4, KeptImage, KeptLand
<1>5. ASSUME NEW r \in Saver, SaveFails(r) PROVE GateKept'
  BY <1>5 DEF SaveFails, GateKept
<1>6. ASSUME NEW d \in Delegation, Expire(d) PROVE GateKept'
  BY <1>6, KeptFrame DEF Expire, writing, gateHistory
<1>7. CASE GateRestart
  BY <1>7, KeptRestart
<1>8. QED
  BY <1>1, <1>2, <1>3, <1>4, <1>5, <1>6, <1>7 DEF GateNext

LEMMA KeptInit == TornIsNoRows /\ GateInit => GateKept
<1>1. << >> \in Seq(Row)
  OBVIOUS
<1>2. QED
  BY <1>1 DEF GateInit, TornIsNoRows, GateKept, RevocationsKept, SubmissionsKept, Pending, Timely

-----------------------------------------------------------------------------
(* The theorems.                                                           *)

GateInv == GateTypeOK /\ Known /\ GateKept

LEMMA GateInvariance == ASSUME DelegationAssumption, TornIsNoRows PROVE GateSpec => []GateInv
<1>1. GateInit => GateInv
  BY GateTypeInit, KnownInit, KeptInit DEF GateInv
<1>2. GateInv /\ [GateNext]_gateVars => GateInv'
  BY GateTypeStep, KnownStep, KeptStep DEF GateInv
<1>3. QED
  BY <1>1, <1>2, PTL DEF GateSpec

(* A revocation that was answered is in memory and in every image that a   *)
(* restart can bring back.                                                 *)
THEOREM RevocationsHold ==
    ASSUME DelegationAssumption, TornIsNoRows
    PROVE  GateSpec => []RevocationHolds
<1>1. GateInv => RevocationHolds
  BY DEF GateInv, GateKept, RevocationsKept, RevocationHolds, Passes
<1>2. QED
  BY <1>1, GateInvariance, PTL

(* So is a submission that was answered.                                   *)
THEOREM DelegationsHold ==
    ASSUME DelegationAssumption, TornIsNoRows
    PROVE  GateSpec => []DelegationHolds
<1>1. ASSUME GateInv PROVE DelegationHolds
  <2> SUFFICES ASSUME ~faulted,
                      NEW d \in (granted \intersect InScope)
                                  \ (marked \union dropped \union expired)
               PROVE  Passes(d)
    BY DEF DelegationHolds
  <2>1. Stands(d, rows)
    BY <1>1 DEF GateInv, GateKept, SubmissionsKept, Standing
  <2>2. QED
    BY <2>1 DEF Stands, Ids, Passes, ActiveIn
<1>2. QED
  BY <1>1, GateInvariance, PTL

-----------------------------------------------------------------------------
(* Swaps and supplies on BSC, for any requests, amounts, settings and      *)
(* executors: a request swaps at most once, what is answered as executed   *)
(* is backed by transactions, and undisturbed a request supplies no more   *)
(* than it received and overshoots no target.                              *)

NativeSwap == config.enabled /\ config.swapVia = "native"

(* Only the last attempt at a swap was accepted, and none before it is sent. *)
SwapStaged ==
    \A c \in Call :
        /\ \A i \in Tries : swap[c][i] # "none" => i = tries[c]
        /\ stage[c] \in {"new", "planned", "ready"} => Swapped(c) = "none" /\ got[c] = 0

SwapDone ==
    NativeSwap => \A c \in Call :
        stage[c] \in {"swapped", "lent", "executed"} => Swapped(c) = "mined"

(* Supplies come after the swap, with an amount, and take it when applied. *)
LendStaged ==
    \A c \in Call :
        /\ stage[c] \in {"new", "planned", "ready", "sent"} =>
               lent[c] = 0 /\ \A i \in Attempts : lend[c][i] = "none"
        /\ stage[c] \in {"swapped", "lent"} => Lends(c)
        /\ \A i \in Attempts : lend[c][i] # "none" => supply[c] > 0
        /\ \A i \in Attempts : lend[c][i] = "mined" => lent[c] >= supply[c]
        /\ stage[c] = "executed" /\ Lends(c) /\ Executor(c) # "command" =>
               lend[c][attempt[c]] = "mined"

BscStaged == SwapStaged /\ SwapDone /\ LendStaged

(* A swap that is not yet applied has room below its target.               *)
Roomy(c) ==
    /\ \/ stage[c] \in {"planned", "ready"}
       \/ stage[c] = "sent" /\ Swapped(c) # "mined"
    /\ amount[c] <= usdt
    => (usdc + amount[c]) * Bps <= goal[c] * (usdt + usdc)

(* The difference of the balances is what the swap delivered, and what is  *)
(* supplied.                                                               *)
Accounted(c) ==
    /\ stage[c] = "ready" => before[c] = usdc
    /\ stage[c] = "sent" => usdc - before[c] = got[c]
    /\ stage[c] \in {"swapped", "lent"} => supply[c] = got[c]
    /\ stage[c] = "swapped" => lent[c] = 0
    /\ stage[c] = "lent" /\ lend[c][attempt[c]] # "mined" => lent[c] = 0
    /\ lent[c] <= got[c]

Alone ==
    /\ \A c, e \in Call : stage[c] \in InFlight /\ stage[e] \in InFlight => c = e
    /\ \A c \in Call, i \in Tries : swap[c][i] = "pending" => stage[c] = "sent"
    /\ \A c \in Call, i \in Attempts :
          lend[c][i] = "pending" => stage[c] = "lent" /\ i = attempt[c]

BscQuiet ==
    Undisturbed =>
        /\ Alone
        /\ \A c \in Call : Roomy(c)
        /\ NativeSwap => \A c \in Call : Accounted(c)

-----------------------------------------------------------------------------
(* The plan.                                                               *)

LEMMA BpsType == Bps \in Nat \ {0}
  BY DEF Bps

LEMMA DivFloor ==
    ASSUME NEW x \in Nat PROVE x \div Bps \in Nat /\ (x \div Bps) * Bps <= x
  BY DEF Bps

(* What the plan recommends is in the wallet and does not reach beyond the *)
(* goal.                                                                   *)
LEMMA PlanWithin ==
    ASSUME usdt \in Nat, usdc \in Nat, NEW g \in 0..Bps
    PROVE  /\ Recommended(g) \in Nat
           /\ Recommended(g) > 0 => (usdc + Recommended(g)) * Bps <= g * (usdt + usdc)
<1> DEFINE total == (usdt + usdc) * g
           whole == total \div Bps
           gap == IF Gap(g) > 0 THEN Gap(g) ELSE 0
<1>1. total \in Nat /\ total = g * (usdt + usdc)
  BY BpsType
<1>2. Gap(g) = whole - usdc
  BY DEF Gap
<1> HIDE DEF total
<1>3. whole \in Nat /\ whole * Bps <= total
  BY <1>1, DivFloor
<1> HIDE DEF whole
<1>4. gap \in Nat /\ (gap > 0 => gap = whole - usdc)
  BY <1>2, <1>3
<1>5. \/ Recommended(g) = 0
      \/ Recommended(g) = Least(gap, Least(usdt, MaxStep))
  BY DEF Recommended
<1> HIDE DEF gap
<1>6. Recommended(g) \in Nat /\ Recommended(g) <= gap
  BY <1>4, <1>5, BscAssumption DEF Least
<1>7. ASSUME Recommended(g) > 0
      PROVE  (usdc + Recommended(g)) * Bps <= g * (usdt + usdc)
  <2>1. usdc + Recommended(g) <= whole
    BY <1>3, <1>4, <1>6, <1>7
  <2>2. (usdc + Recommended(g)) * Bps <= whole * Bps
    BY <2>1, <1>3, <1>6, BpsType
  <2>3. /\ (usdc + Recommended(g)) * Bps \in Int /\ whole * Bps \in Int
        /\ total \in Int
    BY <1>1, <1>3, <1>6, BpsType
  <2>4. (usdc + Recommended(g)) * Bps <= total
    BY <2>2, <2>3, <1>3
  <2>5. QED
    BY <2>4, <1>1
<1>8. QED
  BY <1>6, <1>7

LEMMA GoalRange == ASSUME NEW apr PROVE Goal(apr) \in 0..Bps
  BY BscAssumption DEF Goal, Bps

(* What is spent within the room leaves the share of USDT.                 *)
LEMMA RoomLeaves ==
    ASSUME NEW t \in Nat, NEW s \in Nat, NEW a \in Nat, NEW g \in 0..Bps,
           (s + a) * Bps <= g * (t + s)
    PROVE  (t - a) * Bps >= (Bps - g) * (t + s)
<1>1. g \in Nat /\ Bps \in Nat
  BY BpsType
<1>2. /\ (t - a) * Bps = (t + s) * Bps - (s + a) * Bps
      /\ (Bps - g) * (t + s) = (t + s) * Bps - g * (t + s)
  BY <1>1
<1>3. /\ (t + s) * Bps \in Int /\ (s + a) * Bps \in Int /\ g * (t + s) \in Int
  BY <1>1
<1>4. QED
  BY <1>2, <1>3

(* Quotes and minimum amounts are amounts.                                 *)
LEMMA QuoteType ==
    ASSUME NEW a \in Nat, NEW rate \in Rates PROVE QuoteAt(a, rate) \in Nat
<1>1. rate \in Nat
  BY BscAssumption
<1>2. a * rate \in Nat
  BY <1>1
<1>3. QED
  BY <1>2, DivFloor DEF QuoteAt

LEMMA MinOutType == ASSUME NEW q \in Nat PROVE MinOut(q) \in Nat
<1>1. Bps - Slippage \in Nat
  BY BscAssumption DEF Bps
<1>2. q * (Bps - Slippage) \in Nat
  BY <1>1
<1>3. QED
  BY <1>2, DivFloor DEF MinOut

LEMMA OutType ==
    ASSUME BscTypeOK, NEW c \in Call, NEW out \in MinOut(quote[c])..(quote[c] + Windfall)
    PROVE  out \in Nat
<1>1. quote[c] \in Nat /\ Windfall \in Nat
  BY BscAssumption DEF BscTypeOK
<1>2. MinOut(quote[c]) \in Nat
  BY <1>1, MinOutType
<1>3. QED
  BY <1>1, <1>2

-----------------------------------------------------------------------------
(* Type correctness.                                                       *)

LEMMA RouteLength ==
    ASSUME BscTypeOK, NEW c \in Call, Lends(c)
    PROVE  Len(RouteOf(c)) \in Attempts
<1>1. Protocol[c] \in Lenders
  BY BscAssumption DEF Lends
<1>2. RouteOf(c) \in Routes(Protocol[c])
  BY <1>1, RoutingAssumption DEF BscTypeOK, RouteOf
<1>3. \A a, b : Len(<<a>>) = 1 /\ Len(<<a, b>>) = 2
  OBVIOUS
<1>4. QED
  BY <1>2, <1>3 DEF Routes, Attempts

LEMMA NextAttempt ==
    ASSUME NEW n \in Attempts, NEW a \in Attempts, a < n PROVE a + 1 \in Attempts
  BY DEF Attempts

LEMMA NextTry == ASSUME NEW i \in Tries, i < NonceRetry PROVE i + 1 \in Tries
  BY BscAssumption DEF Tries

LEMMA ReceivedType ==
    ASSUME BscTypeOK, NEW c \in Call PROVE Received(c) \in Int
  BY DEF BscTypeOK, Received

LEMMA BscTypeInit == BscInit => BscTypeOK
<1> SUFFICES ASSUME BscInit PROVE BscTypeOK
  OBVIOUS
<1>1. 0 \in Tries /\ 1 \in Attempts /\ 0 \in 0..Bps
  BY BscAssumption, BpsType DEF Tries, Attempts
<1>2. Usdt \in Nat /\ Usdc \in Nat
  BY BscAssumption
<1>3. "none" \in Status
  BY DEF Status
<1>4. stage \in [Call -> InFlight \union {"new", "noop", "plan", "executed", "failed", "lost"}]
  BY DEF BscInit
<1>5. swap \in [Call -> [Tries -> Status]] /\ lend \in [Call -> [Attempts -> Status]]
  BY <1>3 DEF BscInit
<1>6. /\ amount \in [Call -> Nat] /\ quote \in [Call -> Nat]
      /\ before \in [Call -> Nat] /\ supply \in [Call -> Int]
      /\ got \in [Call -> Nat] /\ lent \in [Call -> Nat]
  BY DEF BscInit
<1>7. /\ tries \in [Call -> Tries] /\ attempt \in [Call -> Attempts]
      /\ goal \in [Call -> 0..Bps]
  BY <1>1 DEF BscInit
<1>8. /\ config \in Config /\ routing \in Routing /\ usdt \in Nat /\ usdc \in Nat
      /\ raced \in BOOLEAN /\ stray \in BOOLEAN
  BY <1>2 DEF BscInit
<1>9. QED
  BY <1>4, <1>5, <1>6, <1>7, <1>8 DEF BscTypeOK

LEMMA BscTypeStep ==
    ASSUME BscTypeOK, LendStaged, [BscNext]_bscVars PROVE BscTypeOK'
<1> USE DEF BscTypeOK
<1>1. CASE UNCHANGED bscVars
  BY <1>1 DEF bscVars, wallet, swapping, lending, history
<1>2. ASSUME NEW c \in Call, NEW a \in Nat, NEW g \in 0..Bps, Begin(c, a, g) PROVE BscTypeOK'
  <2>1. stage' \in [Call -> InFlight \union {"new", "noop", "plan", "executed", "failed", "lost"}]
    BY <1>2 DEF Begin, Goto, InFlight
  <2>2. QED
    BY <1>2, <2>1 DEF Begin, wallet, lending
<1>3. ASSUME NEW c \in Call, Request(c) PROVE BscTypeOK'
  <2>1. CASE Plan(c)
    <3>1. ASSUME NEW apr \in {"usdc", "even"}, Begin(c, Recommended(Goal(apr)), Goal(apr))
          PROVE BscTypeOK'
      BY <3>1, <1>2, PlanWithin, GoalRange
    <3>2. ASSUME Begin(c, 0, 0) PROVE BscTypeOK'
      <4>1. 0 \in Nat /\ 0 \in 0..Bps
        BY BpsType
      <4>2. QED
        BY <3>2, <4>1, <1>2
    <3>3. QED
      BY <2>1, <3>1, <3>2 DEF Plan
  <2>2. CASE AskSwap(c)
    <3>1. PICK a \in Asked : Begin(c, a, Bps)
      BY <2>2 DEF AskSwap
    <3>2. a \in Nat /\ Bps \in 0..Bps
      BY BpsType, BscAssumption
    <3>3. QED
      BY <3>1, <3>2, <1>2
  <2>3. CASE SkipSwap(c)
    <3>1. PICK rate \in Rates : quote' = [quote EXCEPT ![c] = QuoteAt(amount[c], rate)]
      BY <2>3 DEF SkipSwap
    <3>2. QuoteAt(amount[c], rate) \in Nat
      BY QuoteType
    <3>3. quote' \in [Call -> Nat]
      BY <3>1, <3>2
    <3>4. supply' \in [Call -> Int]
      BY <2>3, <3>3 DEF SkipSwap
    <3>5. QED
      BY <2>3, <3>3, <3>4 DEF SkipSwap, Goto, InFlight, wallet, history
  <2>4. CASE ReadBefore(c)
    <3>1. PICK rate \in Rates : quote' = [quote EXCEPT ![c] = QuoteAt(amount[c], rate)]
      BY <2>4 DEF ReadBefore
    <3>2. QuoteAt(amount[c], rate) \in Nat
      BY QuoteType
    <3>3. quote' \in [Call -> Nat]
      BY <3>1, <3>2
    <3>4. QED
      BY <2>4, <3>3 DEF ReadBefore, Goto, InFlight, wallet, lending, history
  <2>5. CASE SendSwap(c)
    <3>1. swap' \in [Call -> [Tries -> Status]]
      BY <2>5 DEF SendSwap, Status
    <3>2. QED
      BY <2>5, <3>1 DEF SendSwap, Goto, InFlight, wallet, lending, history
  <2>6. CASE SwapRejected(c)
    <3>1. tries' \in [Call -> Tries]
      <4>1. tries[c] < NonceRetry /\ tries' = [tries EXCEPT ![c] = tries[c] + 1]
        BY <2>6 DEF SwapRejected
      <4>2. tries[c] \in Tries
        OBVIOUS
      <4>3. tries[c] + 1 \in Tries
        BY <4>1, <4>2, NextTry
      <4>4. QED
        BY <4>1, <4>3
    <3>2. QED
      BY <2>6, <3>1 DEF SwapRejected, wallet, lending, history
  <2>7. CASE FinishSwap(c)
    <3>1. stray' \in BOOLEAN
      BY <2>7 DEF FinishSwap
    <3>2. QED
      BY <2>7, <3>1, ReceivedType DEF FinishSwap, Goto, InFlight, wallet, swapping
  <2>8. CASE SwapFails(c)
    <3>1. stray' \in BOOLEAN
      BY <2>8 DEF SwapFails
    <3>2. QED
      BY <2>8, <3>1 DEF SwapFails, Goto, wallet, swapping, lending
  <2>9. CASE SendSupply(c)
    <3>1. lend' \in [Call -> [Attempts -> Status]]
      BY <2>9 DEF SendSupply, Status
    <3>2. QED
      BY <2>9, <3>1 DEF SendSupply, Goto, InFlight, wallet, swapping, history
  <2>10. CASE FinishSupply(c)
    <3>1. stray' \in BOOLEAN
      BY <2>10 DEF FinishSupply
    <3>2. stage' \in [Call -> InFlight \union {"new", "noop", "plan", "executed", "failed", "lost"}]
      BY <2>10 DEF FinishSupply, Goto
    <3>3. QED
      BY <2>10, <3>1, <3>2 DEF FinishSupply, wallet, swapping, lending
  <2>11. CASE SupplyFails(c)
    <3>1. Len(RouteOf(c)) \in Attempts
      BY <2>11, RouteLength DEF SupplyFails, LendStaged
    <3>2. \/ attempt' = attempt
          \/ /\ attempt[c] + 1 \in Attempts
             /\ attempt' = [attempt EXCEPT ![c] = attempt[c] + 1]
      <4>1. \/ attempt' = attempt
            \/ /\ attempt[c] < Len(RouteOf(c))
               /\ attempt' = [attempt EXCEPT ![c] = attempt[c] + 1]
        BY <2>11 DEF SupplyFails
      <4>2. attempt[c] \in Attempts
        OBVIOUS
      <4>3. attempt[c] < Len(RouteOf(c)) => attempt[c] + 1 \in Attempts
        BY <3>1, <4>2, NextAttempt
      <4>4. QED
        BY <4>1, <4>3
    <3>5. attempt' \in [Call -> Attempts]
      BY <3>2
    <3>3. stage' \in [Call -> InFlight \union {"new", "noop", "plan", "executed", "failed", "lost"}]
      BY <2>11 DEF SupplyFails, Goto, InFlight
    <3>4. stray' \in BOOLEAN
      BY <2>11 DEF SupplyFails
    <3>6. QED
      BY <2>11, <3>5, <3>3, <3>4 DEF SupplyFails, wallet, swapping
  <2>12. QED
    BY <1>3, <2>1, <2>2, <2>3, <2>4, <2>5, <2>6, <2>7, <2>8, <2>9, <2>10, <2>11 DEF Request
<1>4. ASSUME NEW c \in Call, NEW i \in Tries, RevertSwap(c, i) PROVE BscTypeOK'
  <2>1. swap' \in [Call -> [Tries -> Status]]
    BY <1>4 DEF RevertSwap, Status
  <2>2. QED
    BY <1>4, <2>1 DEF RevertSwap, wallet, lending, history
<1>5. ASSUME NEW c \in Call, NEW i \in Tries, NEW out \in MinOut(quote[c])..(quote[c] + Windfall),
             MineSwap(c, i, out)
      PROVE BscTypeOK'
  <2>1. swap' \in [Call -> [Tries -> Status]]
    BY <1>5 DEF MineSwap, Status
  <2>2. out \in Nat /\ usdt - amount[c] \in Nat
    BY <1>5, OutType DEF MineSwap
  <2>3. QED
    BY <1>5, <2>1, <2>2 DEF MineSwap, lending
<1>6. ASSUME NEW c \in Call, NEW i \in Attempts, RevertSupply(c, i) PROVE BscTypeOK'
  <2>1. lend' \in [Call -> [Attempts -> Status]]
    BY <1>6 DEF RevertSupply, Status
  <2>2. QED
    BY <1>6, <2>1 DEF RevertSupply, wallet, swapping, history
<1>7. ASSUME NEW c \in Call, NEW i \in Attempts, MineSupply(c, i) PROVE BscTypeOK'
  <2>1. lend' \in [Call -> [Attempts -> Status]]
    BY <1>7 DEF MineSupply, Status
  <2>2. supply[c] > 0
    BY <1>7 DEF MineSupply, LendStaged
  <2>3. QED
    BY <1>7, <2>1, <2>2 DEF MineSupply, swapping
<1>8. CASE Restart
  <2>1. stray' \in BOOLEAN
    BY <1>8 DEF Restart
  <2>2. QED
    BY <1>8, <2>1 DEF Restart, wallet, swapping, lending
<1>9. QED
  BY <1>1, <1>3, <1>4, <1>5, <1>6, <1>7, <1>8 DEF BscNext, Chain

-----------------------------------------------------------------------------
(* The stages.                                                             *)

LEMMA BscStagedInit == BscInit => BscStaged
<1> SUFFICES ASSUME BscInit PROVE BscStaged
  OBVIOUS
<1>1. 0 \in Tries /\ 1 \in Attempts
  BY BscAssumption DEF Tries, Attempts
<1>2. SwapStaged
  BY <1>1 DEF BscInit, SwapStaged, Swapped
<1>3. SwapDone
  BY DEF BscInit, SwapDone
<1>4. LendStaged
  BY <1>1 DEF BscInit, LendStaged
<1>5. QED
  BY <1>2, <1>3, <1>4 DEF BscStaged

(* What keeps the stages of a request: nothing of it is touched, or only   *)
(* its stage is, to one that begins nothing.                               *)
LEMMA BscStagedStep ==
    ASSUME BscTypeOK, BscStaged, [BscNext]_bscVars PROVE BscStaged'
<1> USE DEF BscStaged
<1>1. CASE UNCHANGED bscVars
  BY <1>1 DEF bscVars, swapping, lending, history, SwapStaged, SwapDone, LendStaged, Swapped,
              NativeSwap, Lends, Executor, RouteOf
<1>2. ASSUME NEW c \in Call, NEW a, NEW g, Begin(c, a, g) PROVE BscStaged'
  <2>1. SwapStaged'
    BY <1>2 DEF Begin, Goto, SwapStaged, Swapped, BscTypeOK, InFlight
  <2>2. SwapDone'
    BY <1>2 DEF Begin, Goto, SwapDone, Swapped, NativeSwap, BscTypeOK
  <2>3. LendStaged'
    BY <1>2 DEF Begin, Goto, LendStaged, lending, Lends, Executor, RouteOf, BscTypeOK
  <2>4. QED
    BY <2>1, <2>2, <2>3
<1>3. ASSUME NEW c \in Call, SkipSwap(c) PROVE BscStaged'
  <2>1. SwapStaged'
    BY <1>3 DEF SkipSwap, Goto, SwapStaged, Swapped, BscTypeOK, swapping, history
  <2>2. SwapDone'
    BY <1>3 DEF SkipSwap, SwapDone, NativeSwap
  <2>3. LendStaged'
    BY <1>3 DEF SkipSwap, Goto, LendStaged, Lends, Executor, RouteOf, BscTypeOK, swapping, history
  <2>4. QED
    BY <2>1, <2>2, <2>3
<1>4. ASSUME NEW c \in Call, ReadBefore(c) \/ SendSwap(c) \/ SwapRejected(c) PROVE BscStaged'
  <2>1. SwapStaged'
    <3>1. CASE ReadBefore(c)
      BY <3>1 DEF ReadBefore, Goto, SwapStaged, Swapped, BscTypeOK, history
    <3>2. CASE SendSwap(c)
      BY <3>2 DEF SendSwap, Goto, SwapStaged, Swapped, BscTypeOK, history
    <3>3. CASE SwapRejected(c)
      <4>1. \A i \in Tries : swap[c][i] = "none"
        BY <3>3 DEF SwapRejected, SwapStaged, Swapped
      <4>2. tries[c] + 1 \in Tries /\ tries' = [tries EXCEPT ![c] = tries[c] + 1]
        BY <3>3, BscAssumption DEF SwapRejected, Tries, BscTypeOK
      <4>3. tries'[c] = tries[c] + 1 /\ \A e \in Call \ {c} : tries'[e] = tries[e]
        BY <4>2 DEF BscTypeOK
      <4>4. UNCHANGED <<stage, swap, got>>
        BY <3>3 DEF SwapRejected, history
      <4>5. QED
        BY <4>1, <4>2, <4>3, <4>4 DEF SwapStaged, Swapped
    <3>4. QED
      BY <1>4, <3>1, <3>2, <3>3
  <2>2. SwapDone'
    <3>1. CASE ReadBefore(c)
      BY <3>1 DEF ReadBefore, Goto, SwapDone, NativeSwap, Swapped, BscTypeOK
    <3>2. CASE SendSwap(c)
      BY <3>2 DEF SendSwap, Goto, SwapDone, NativeSwap, Swapped, BscTypeOK
    <3>3. CASE SwapRejected(c)
      BY <3>3 DEF SwapRejected, SwapDone, NativeSwap, Swapped, BscTypeOK
    <3>4. QED
      BY <1>4, <3>1, <3>2, <3>3
  <2>3. LendStaged'
    BY <1>4 DEF ReadBefore, SendSwap, SwapRejected, Goto, LendStaged, Lends, Executor, RouteOf,
                BscTypeOK, lending, history
  <2>4. QED
    BY <2>1, <2>2, <2>3
<1>5. ASSUME NEW c \in Call, FinishSwap(c) PROVE BscStaged'
  <2>1. SwapStaged'
    BY <1>5 DEF FinishSwap, Goto, SwapStaged, Swapped, BscTypeOK, swapping
  <2>2. SwapDone'
    BY <1>5 DEF FinishSwap, Goto, SwapDone, NativeSwap, Swapped, BscTypeOK, swapping
  <2>3. LendStaged'
    BY <1>5 DEF FinishSwap, Goto, LendStaged, Lends, Executor, RouteOf, BscTypeOK
  <2>4. QED
    BY <2>1, <2>2, <2>3
<1>6. ASSUME NEW c \in Call, SwapFails(c) PROVE BscStaged'
  BY <1>6 DEF SwapFails, Goto, SwapStaged, SwapDone, NativeSwap, LendStaged, Swapped, Lends,
              Executor, RouteOf, BscTypeOK, swapping, lending
<1>7. ASSUME NEW c \in Call, SendSupply(c) PROVE BscStaged'
  <2>1. SwapStaged' /\ SwapDone'
    BY <1>7 DEF SendSupply, Goto, SwapStaged, SwapDone, NativeSwap, Swapped, BscTypeOK, swapping,
                history
  <2>2. LendStaged'
    BY <1>7 DEF SendSupply, Valid, Goto, LendStaged, Lends, Executor, RouteOf, BscTypeOK, history
  <2>3. QED
    BY <2>1, <2>2
<1>8. ASSUME NEW c \in Call, FinishSupply(c) PROVE BscStaged'
  <2>1. SwapStaged' /\ SwapDone'
    BY <1>8 DEF FinishSupply, Goto, SwapStaged, SwapDone, NativeSwap, Swapped, BscTypeOK, swapping
  <2>2. LendStaged'
    BY <1>8 DEF FinishSupply, Goto, LendStaged, Lends, Executor, RouteOf, BscTypeOK, lending
  <2>3. QED
    BY <2>1, <2>2
<1>9. ASSUME NEW c \in Call, SupplyFails(c) PROVE BscStaged'
  <2>1. SwapStaged' /\ SwapDone'
    <3>1. /\ stage[c] \in {"swapped", "lent"}
          /\ stage' \in {[stage EXCEPT ![c] = "swapped"], [stage EXCEPT ![c] = "failed"]}
      BY <1>9 DEF SupplyFails, Goto
    <3>2. UNCHANGED <<config, swap, tries, got>>
      BY <1>9 DEF SupplyFails, swapping
    <3>3. QED
      BY <3>1, <3>2 DEF SwapStaged, SwapDone, NativeSwap, Swapped, BscTypeOK
  <2>2. LendStaged'
    BY <1>9 DEF SupplyFails, Goto, LendStaged, Lends, Executor, RouteOf, BscTypeOK
  <2>3. QED
    BY <2>1, <2>2
<1>10. ASSUME NEW c \in Call, NEW i \in Tries, NEW out \in MinOut(quote[c])..(quote[c] + Windfall),
              MineSwap(c, i, out)
       PROVE  BscStaged'
  <2>1. i = tries[c] /\ stage[c] \notin {"new", "planned", "ready"}
    BY <1>10 DEF MineSwap, SwapStaged, Swapped
  <2>2. SwapStaged' /\ SwapDone'
    BY <1>10, <2>1 DEF MineSwap, SwapStaged, SwapDone, NativeSwap, Swapped, BscTypeOK
  <2>3. LendStaged'
    BY <1>10 DEF MineSwap, LendStaged, Lends, Executor, RouteOf, BscTypeOK, lending
  <2>4. QED
    BY <2>2, <2>3
<1>11. ASSUME NEW c \in Call, NEW i \in Tries, RevertSwap(c, i) PROVE BscStaged'
  <2>1. i = tries[c] /\ stage[c] \notin {"new", "planned", "ready"}
    BY <1>11 DEF RevertSwap, SwapStaged, Swapped
  <2>2. SwapStaged' /\ SwapDone'
    BY <1>11, <2>1 DEF RevertSwap, SwapStaged, SwapDone, NativeSwap, Swapped, BscTypeOK, history
  <2>3. LendStaged'
    BY <1>11 DEF RevertSwap, LendStaged, Lends, Executor, RouteOf, BscTypeOK, lending, history
  <2>4. QED
    BY <2>2, <2>3
<1>12. ASSUME NEW c \in Call, NEW i \in Attempts, MineSupply(c, i) PROVE BscStaged'
  <2>1. SwapStaged' /\ SwapDone'
    BY <1>12 DEF MineSupply, SwapStaged, SwapDone, NativeSwap, Swapped, BscTypeOK, swapping
  <2>2. LendStaged'
    BY <1>12 DEF MineSupply, LendStaged, Lends, Executor, RouteOf, BscTypeOK
  <2>3. QED
    BY <2>1, <2>2
<1>13. ASSUME NEW c \in Call, NEW i \in Attempts, RevertSupply(c, i) PROVE BscStaged'
  <2>1. SwapStaged' /\ SwapDone'
    BY <1>13 DEF RevertSupply, SwapStaged, SwapDone, NativeSwap, Swapped, BscTypeOK, swapping,
                 history
  <2>2. LendStaged'
    BY <1>13 DEF RevertSupply, LendStaged, Lends, Executor, RouteOf, BscTypeOK, history
  <2>3. QED
    BY <2>1, <2>2
<1>14. CASE Restart
  BY <1>14 DEF Restart, Working, SwapStaged, SwapDone, NativeSwap, LendStaged, Swapped, Lends,
               Executor, RouteOf, BscTypeOK, swapping, lending
<1>15. QED
  BY <1>1, <1>2, <1>3, <1>4, <1>5, <1>6, <1>7, <1>8, <1>9, <1>10, <1>11, <1>12, <1>13, <1>14
     DEF BscNext, Request, Chain, Plan, AskSwap

(* One accepted swap is at most one.                                       *)
LEMMA OneSwap == ASSUME BscTypeOK, SwapStaged PROVE SwappedOnce
<1> SUFFICES ASSUME NEW c \in Call
             PROVE  Cardinality({i \in Tries : swap[c][i] # "none"}) <= 1
  BY DEF SwappedOnce
<1>1. {i \in Tries : swap[c][i] # "none"} \subseteq {tries[c]}
  BY DEF SwapStaged
<1>2. IsFiniteSet({tries[c]}) /\ Cardinality({tries[c]}) = 1
  BY FS_Singleton
<1>3. QED
  BY <1>1, <1>2, FS_Subset

LEMMA Backed == ASSUME BscTypeOK, BscStaged PROVE ExecutedBacked
  BY DEF ExecutedBacked, BscStaged, SwapDone, LendStaged, NativeSwap, BscTypeOK

(* The types are right and the stages kept.                                *)
LEMMA BscKept == BscSpec => [](BscTypeOK /\ BscStaged)
<1>1. BscInit => BscTypeOK /\ BscStaged
  BY BscTypeInit, BscStagedInit
<1>2. BscTypeOK /\ BscStaged /\ [BscNext]_bscVars => (BscTypeOK /\ BscStaged)'
  BY BscTypeStep, BscStagedStep DEF BscStaged
<1>3. QED
  BY <1>1, <1>2, PTL DEF BscSpec

-----------------------------------------------------------------------------
(* One request at a time.                                                  *)

LEMMA StillUndisturbed ==
    ASSUME BscTypeOK, [BscNext]_bscVars PROVE (Undisturbed' => Undisturbed) /\ config' = config
<1> USE DEF Undisturbed, BscTypeOK
<1>1. CASE UNCHANGED bscVars
  BY <1>1 DEF bscVars, history
<1>2. ASSUME NEW c \in Call, Plan(c) \/ AskSwap(c)
      PROVE  (Undisturbed' => Undisturbed) /\ config' = config
  BY <1>2 DEF Plan, AskSwap, Begin
<1>3. ASSUME NEW c \in Call, SkipSwap(c) \/ ReadBefore(c) \/ SendSwap(c) \/ SwapRejected(c)
      PROVE  (Undisturbed' => Undisturbed) /\ config' = config
  BY <1>3 DEF SkipSwap, ReadBefore, SendSwap, SwapRejected, history
<1>4. ASSUME NEW c \in Call, FinishSwap(c) \/ SwapFails(c) \/ SendSupply(c)
      PROVE  (Undisturbed' => Undisturbed) /\ config' = config
  BY <1>4 DEF FinishSwap, SwapFails, SendSupply, history
<1>5. ASSUME NEW c \in Call, FinishSupply(c) \/ SupplyFails(c)
      PROVE  (Undisturbed' => Undisturbed) /\ config' = config
  BY <1>5 DEF FinishSupply, SupplyFails
<1>6. ASSUME NEW c \in Call, Chain(c) PROVE (Undisturbed' => Undisturbed) /\ config' = config
  BY <1>6 DEF Chain, MineSwap, RevertSwap, MineSupply, RevertSupply, history
<1>7. CASE Restart
  BY <1>7 DEF Restart
<1>8. QED
  BY <1>1, <1>2, <1>3, <1>4, <1>5, <1>6, <1>7 DEF BscNext, Request

LEMMA NothingPending ==
    ASSUME BscStaged, Alone, NEW c \in Call,
           stage[c] = "sent" => Swapped(c) # "pending",
           stage[c] = "lent" => lend[c][attempt[c]] # "pending"
    PROVE  /\ \A i \in Tries : swap[c][i] # "pending"
           /\ \A i \in Attempts : lend[c][i] # "pending"
<1>1. ASSUME NEW i \in Tries, swap[c][i] = "pending" PROVE FALSE
  <2>1. swap[c][i] # "none"
    BY <1>1
  <2>2. i = tries[c]
    BY <2>1 DEF BscStaged, SwapStaged
  <2>3. QED
    BY <1>1, <2>2 DEF Alone, Swapped
<1>2. ASSUME NEW i \in Attempts, lend[c][i] = "pending" PROVE FALSE
  BY <1>2 DEF Alone
<1>3. QED
  BY <1>1, <1>2

(* A request that waits for nothing moves on.                              *)
LEMMA AloneMoves ==
    ASSUME BscTypeOK, Alone, NEW c \in Call, stage[c] \in InFlight,
           NEW x, stage' = [stage EXCEPT ![c] = x],
           UNCHANGED <<swap, lend>>, \A e \in Call \ {c} : attempt'[e] = attempt[e],
           \A i \in Tries : swap[c][i] # "pending",
           \A i \in Attempts : lend[c][i] # "pending"
    PROVE  Alone'
<1>1. \A e \in Call \ {c} : stage'[e] = stage[e]
  BY DEF BscTypeOK
<1>2. QED
  BY <1>1 DEF Alone

LEMMA AloneStep ==
    ASSUME BscTypeOK, BscStaged, Alone, [BscNext]_bscVars, Undisturbed' PROVE Alone'
<1> USE DEF Alone, BscTypeOK
<1>1. CASE UNCHANGED bscVars
  BY <1>1 DEF bscVars, swapping, lending
<1>2. ASSUME NEW c \in Call, NEW a, NEW g, Begin(c, a, g) PROVE Alone'
  <2>1. \A e \in Call : stage[e] \notin InFlight
    BY <1>2 DEF Begin, Undisturbed, Working
  <2>2. /\ \A e \in Call, i \in Tries : swap'[e][i] # "pending"
        /\ \A e \in Call, i \in Attempts : lend'[e][i] # "pending"
    BY <1>2, <2>1 DEF Begin, lending, InFlight
  <2>3. \A e \in Call : stage'[e] \in InFlight => e = c
    BY <1>2, <2>1 DEF Begin, Goto
  <2>4. QED
    BY <2>2, <2>3
<1>3. ASSUME NEW c \in Call, SkipSwap(c) PROVE Alone'
  BY <1>3 DEF SkipSwap, Goto, InFlight, swapping
<1>4. ASSUME NEW c \in Call, ReadBefore(c) PROVE Alone'
  BY <1>4 DEF ReadBefore, Goto, InFlight, lending
<1>5. ASSUME NEW c \in Call, SendSwap(c) PROVE Alone'
  BY <1>5 DEF SendSwap, Goto, InFlight, lending
<1>6. ASSUME NEW c \in Call, SwapRejected(c) PROVE Alone'
  BY <1>6 DEF SwapRejected, lending
<1>7. ASSUME NEW c \in Call, FinishSwap(c) \/ SwapFails(c) PROVE Alone'
  <2>1. stage[c] \in {"planned", "ready", "sent"}
    BY <1>7 DEF FinishSwap, SwapFails
  <2>2. stage[c] = "sent" => Swapped(c) # "pending"
    BY <1>7 DEF FinishSwap, SwapFails, Undisturbed
  <2>3. /\ \A i \in Tries : swap[c][i] # "pending"
        /\ \A i \in Attempts : lend[c][i] # "pending"
    BY <2>1, <2>2, NothingPending
  <2>4. PICK x : stage' = [stage EXCEPT ![c] = x]
    BY <1>7 DEF FinishSwap, SwapFails, Goto
  <2>5. UNCHANGED <<swap, lend, attempt>>
    BY <1>7 DEF FinishSwap, SwapFails, swapping, lending
  <2>6. QED
    BY <2>1, <2>3, <2>4, <2>5, AloneMoves DEF InFlight
<1>9. ASSUME NEW c \in Call, SendSupply(c) PROVE Alone'
  BY <1>9 DEF SendSupply, Goto, InFlight, swapping
<1>10. ASSUME NEW c \in Call, FinishSupply(c) \/ SupplyFails(c) PROVE Alone'
  <2>1. stage[c] \in {"swapped", "lent"}
    BY <1>10 DEF FinishSupply, SupplyFails
  <2>2. stage[c] = "lent" => lend[c][attempt[c]] # "pending"
    BY <1>10 DEF FinishSupply, SupplyFails, Undisturbed
  <2>3. /\ \A i \in Tries : swap[c][i] # "pending"
        /\ \A i \in Attempts : lend[c][i] # "pending"
    BY <2>1, <2>2
  <2>4. PICK x : stage' = [stage EXCEPT ![c] = x]
    BY <1>10 DEF FinishSupply, SupplyFails, Goto
  <2>5. UNCHANGED <<swap, lend>> /\ \A e \in Call \ {c} : attempt'[e] = attempt[e]
    BY <1>10 DEF FinishSupply, SupplyFails, swapping, lending
  <2>6. QED
    BY <2>1, <2>3, <2>4, <2>5, AloneMoves DEF InFlight
<1>12. ASSUME NEW c \in Call, Chain(c) PROVE Alone'
  <2>1. ASSUME NEW i \in Tries, RevertSwap(c, i) PROVE Alone'
    BY <2>1 DEF RevertSwap, lending
  <2>2. ASSUME NEW i \in Tries, NEW out, MineSwap(c, i, out) PROVE Alone'
    BY <2>2 DEF MineSwap, lending
  <2>3. ASSUME NEW i \in Attempts, MineSupply(c, i) PROVE Alone'
    BY <2>3 DEF MineSupply, swapping
  <2>4. ASSUME NEW i \in Attempts, RevertSupply(c, i) PROVE Alone'
    BY <2>4 DEF RevertSupply, swapping
  <2>5. QED
    BY <1>12, <2>1, <2>2, <2>3, <2>4 DEF Chain
<1>13. CASE Restart
  <2>1. \A e \in Call : stage'[e] \notin InFlight
    BY <1>13 DEF Restart, Working, InFlight
  <2>2. ASSUME NEW e \in Call
        PROVE  /\ \A i \in Tries : swap[e][i] # "pending"
               /\ \A i \in Attempts : lend[e][i] # "pending"
    <3>1. ~stray'
      BY DEF Undisturbed
    <3>2. /\ stage[e] = "sent" => Swapped(e) # "pending"
          /\ stage[e] = "lent" => lend[e][attempt[e]] # "pending"
      BY <1>13, <3>1 DEF Restart, Working, InFlight
    <3>3. QED
      BY <3>2, NothingPending
  <2>3. UNCHANGED <<swap, lend>>
    BY <1>13 DEF Restart, swapping, lending
  <2>4. QED
    BY <2>1, <2>2, <2>3
<1>14. QED
  BY <1>1, <1>2, <1>3, <1>4, <1>5, <1>6, <1>7, <1>9, <1>10, <1>12, <1>13
     DEF BscNext, Request, Plan, AskSwap

(* A swap not yet applied leaves room below its target.                    *)
LEMMA RoomyStep ==
    ASSUME BscTypeOK, BscStaged, BscQuiet, [BscNext]_bscVars, Undisturbed'
    PROVE \A c \in Call : Roomy(c)'
<1>1. Alone /\ \A c \in Call : Roomy(c)
  BY StillUndisturbed DEF BscQuiet
<1> USE <1>1 DEF BscTypeOK
<1>2. CASE UNCHANGED bscVars
  BY <1>2 DEF bscVars, wallet, swapping, history, Roomy, Swapped
<1>3. ASSUME NEW c \in Call, NEW a \in Nat, NEW g \in 0..Bps, Begin(c, a, g),
             a > 0 /\ a <= usdt => (usdc + a) * Bps <= g * (usdt + usdc)
      PROVE  \A e \in Call : Roomy(e)'
  <2>1. \A e \in Call \ {c} : stage'[e] \notin InFlight
    BY <1>3 DEF Begin, Undisturbed, Working, Goto
  <2>2. stage'[c] = "planned" => a > 0
    BY <1>3 DEF Begin, Goto
  <2>3. amount'[c] = a /\ goal'[c] = g /\ usdt' = usdt /\ usdc' = usdc
    BY <1>3 DEF Begin, wallet
  <2>4. stage'[c] \in {"planned", "noop"}
    BY <1>3 DEF Begin, Goto
  <2>5. QED
    BY <1>3, <2>1, <2>2, <2>3, <2>4 DEF Roomy, InFlight
<1>4. ASSUME NEW c \in Call, Plan(c) PROVE \A e \in Call : Roomy(e)'
  <2>1. ASSUME NEW apr \in {"usdc", "even"}, Begin(c, Recommended(Goal(apr)), Goal(apr))
        PROVE  \A e \in Call : Roomy(e)'
    BY <2>1, <1>3, PlanWithin, GoalRange
  <2>2. ASSUME Begin(c, 0, 0) PROVE \A e \in Call : Roomy(e)'
    <3>1. 0 \in Nat /\ 0 \in 0..Bps /\ ~(0 > 0)
      BY BpsType
    <3>2. QED
      BY <2>2, <3>1, <1>3
  <2>3. QED
    BY <1>4, <2>1, <2>2 DEF Plan
<1>5. ASSUME NEW c \in Call, AskSwap(c) PROVE \A e \in Call : Roomy(e)'
  <2>1. PICK a \in Asked : Begin(c, a, Bps)
    BY <1>5 DEF AskSwap
  <2>2. a \in Nat /\ Bps \in 0..Bps
    BY BpsType, BscAssumption
  <2>3. a <= usdt => (usdc + a) * Bps <= Bps * (usdt + usdc)
    BY <2>2, BpsType
  <2>4. QED
    BY <2>1, <2>2, <2>3, <1>3
<1>6. ASSUME NEW c \in Call, SkipSwap(c) PROVE \A e \in Call : Roomy(e)'
  BY <1>6 DEF SkipSwap, Goto, Roomy, Swapped, wallet, swapping, history
<1>7. ASSUME NEW c \in Call, ReadBefore(c) PROVE \A e \in Call : Roomy(e)'
  BY <1>7 DEF ReadBefore, Goto, Roomy, Swapped, wallet, history
<1>8. ASSUME NEW c \in Call, SendSwap(c) PROVE \A e \in Call : Roomy(e)'
  BY <1>8 DEF SendSwap, Goto, Roomy, Swapped, wallet, history
<1>9. ASSUME NEW c \in Call, SwapRejected(c) PROVE \A e \in Call : Roomy(e)'
  BY <1>9 DEF SwapRejected, Roomy, Swapped, wallet, history
<1>10. ASSUME NEW c \in Call, FinishSwap(c) \/ SwapFails(c) PROVE \A e \in Call : Roomy(e)'
  BY <1>10 DEF FinishSwap, SwapFails, Goto, Roomy, Swapped, wallet, swapping
<1>11. ASSUME NEW c \in Call, SendSupply(c) PROVE \A e \in Call : Roomy(e)'
  BY <1>11 DEF SendSupply, Goto, Roomy, Swapped, wallet, swapping, history
<1>12. ASSUME NEW c \in Call, FinishSupply(c) \/ SupplyFails(c) PROVE \A e \in Call : Roomy(e)'
  BY <1>12 DEF FinishSupply, SupplyFails, Goto, Roomy, Swapped, wallet, swapping
<1>13. ASSUME NEW c \in Call, NEW i \in Tries, NEW out, MineSwap(c, i, out)
       PROVE  \A e \in Call : Roomy(e)'
  <2>1. stage[c] = "sent" /\ i = tries[c]
    BY <1>13 DEF MineSwap, Alone, BscStaged, SwapStaged
  <2>2. \A e \in Call \ {c} : stage'[e] \notin InFlight
    BY <1>13, <2>1 DEF MineSwap, Alone, InFlight
  <2>3. stage'[c] = "sent" /\ Swapped(c)' = "mined"
    BY <1>13, <2>1 DEF MineSwap, Swapped
  <2>4. QED
    BY <2>2, <2>3 DEF Roomy, InFlight
<1>14. ASSUME NEW c \in Call, NEW i \in Tries, RevertSwap(c, i) PROVE \A e \in Call : Roomy(e)'
  BY <1>14 DEF RevertSwap, Roomy, Swapped, wallet, history
<1>15. ASSUME NEW c \in Call, NEW i \in Attempts, MineSupply(c, i)
       PROVE  \A e \in Call : Roomy(e)'
  <2>1. stage[c] = "lent" /\ stage' = stage
    BY <1>15 DEF MineSupply, Alone
  <2>2. \A e \in Call : stage'[e] \notin {"planned", "ready", "sent"}
    BY <2>1 DEF Alone, InFlight
  <2>3. QED
    BY <2>2 DEF Roomy
<1>16. ASSUME NEW c \in Call, NEW i \in Attempts, RevertSupply(c, i)
       PROVE  \A e \in Call : Roomy(e)'
  BY <1>16 DEF RevertSupply, Roomy, Swapped, wallet, swapping, history
<1>17. CASE Restart
  <2>1. \A e \in Call : stage'[e] \notin {"planned", "ready", "sent"}
    BY <1>17 DEF Restart, Working, InFlight
  <2>2. QED
    BY <2>1 DEF Roomy
<1>18. QED
  BY <1>2, <1>4, <1>5, <1>6, <1>7, <1>8, <1>9, <1>10, <1>11, <1>12, <1>13, <1>14, <1>15, <1>16,
     <1>17 DEF BscNext, Request, Chain

(* Only the chain applies a swap.                                          *)
LEMMA MinesSwap ==
    ASSUME BscTypeOK, [BscNext]_bscVars, NEW c \in Call, NEW i \in Tries,
           swap[c][i] = "pending", swap'[c][i] = "mined"
    PROVE  \E out \in MinOut(quote[c])..(quote[c] + Windfall) : MineSwap(c, i, out)
<1> USE DEF BscTypeOK
<1>1. swap' # swap
  OBVIOUS
<1>2. ~UNCHANGED bscVars /\ ~Restart
  BY <1>1 DEF bscVars, swapping, Restart
<1>3. PICK e \in Call : Request(e) \/ Chain(e)
  BY <1>2 DEF BscNext
<1>4. ASSUME Request(e) PROVE FALSE
  <2>1. ~Plan(e) /\ ~AskSwap(e)
    BY <1>1 DEF Plan, AskSwap, Begin
  <2>2. ~SkipSwap(e) /\ ~ReadBefore(e) /\ ~SwapRejected(e) /\ ~FinishSwap(e) /\ ~SwapFails(e)
    BY <1>1 DEF SkipSwap, ReadBefore, SwapRejected, FinishSwap, SwapFails, swapping
  <2>3. ~SendSupply(e) /\ ~FinishSupply(e) /\ ~SupplyFails(e)
    BY <1>1 DEF SendSupply, FinishSupply, SupplyFails, swapping
  <2>4. ASSUME SendSwap(e) PROVE FALSE
    <3>1. swap' = [swap EXCEPT ![e] = [swap[e] EXCEPT ![tries[e]] = "pending"]]
      BY <2>4 DEF SendSwap
    <3>2. CASE e = c
      BY <3>1, <3>2
    <3>3. CASE e # c
      BY <3>1, <3>3
    <3>4. QED
      BY <3>2, <3>3
  <2>5. QED
    BY <1>4, <2>1, <2>2, <2>3, <2>4 DEF Request
<1>5. CASE Chain(e)
  <2>1. ASSUME NEW k \in Tries, RevertSwap(e, k) PROVE FALSE
    BY <2>1 DEF RevertSwap
  <2>2. ASSUME NEW k \in Attempts, MineSupply(e, k) \/ RevertSupply(e, k) PROVE FALSE
    BY <2>2, <1>1 DEF MineSupply, RevertSupply, swapping
  <2>3. PICK k \in Tries, out \in MinOut(quote[e])..(quote[e] + Windfall) : MineSwap(e, k, out)
    BY <1>5, <2>1, <2>2 DEF Chain
  <2>4. e = c /\ k = i
    BY <2>3 DEF MineSwap
  <2>5. QED
    BY <2>3, <2>4
<1>6. QED
  BY <1>3, <1>4, <1>5

(* What a request received and supplies stays accounted for.               *)
LEMMA AccountedStep ==
    ASSUME BscTypeOK, BscStaged, BscQuiet, [BscNext]_bscVars, Undisturbed', NativeSwap
    PROVE  \A c \in Call : Accounted(c)'
<1>1. Alone /\ \A c \in Call : Accounted(c)
  BY StillUndisturbed DEF BscQuiet
<1> USE <1>1 DEF BscTypeOK
<1>2. CASE UNCHANGED bscVars
  BY <1>2 DEF bscVars, wallet, swapping, lending, history, Accounted
<1>3. ASSUME NEW c \in Call, NEW a, NEW g, Begin(c, a, g) PROVE \A e \in Call : Accounted(e)'
  BY <1>3 DEF Begin, Goto, wallet, lending, Accounted
<1>4. ASSUME NEW c \in Call, SkipSwap(c) PROVE FALSE
  BY <1>4 DEF SkipSwap, NativeSwap
<1>5. ASSUME NEW c \in Call, ReadBefore(c) PROVE \A e \in Call : Accounted(e)'
  BY <1>5 DEF ReadBefore, Goto, wallet, lending, history, Accounted
<1>6. ASSUME NEW c \in Call, SendSwap(c) PROVE \A e \in Call : Accounted(e)'
  <2>1. stage[c] = "ready" /\ got[c] = 0 /\ usdc - before[c] = 0 /\ lent[c] = 0
    BY <1>6 DEF SendSwap, Accounted, BscStaged, SwapStaged, LendStaged
  <2>2. /\ stage' = [stage EXCEPT ![c] = "sent"]
        /\ UNCHANGED <<usdc, before, supply, attempt, lend, got, lent>>
    BY <1>6 DEF SendSwap, Goto, wallet, lending, history
  <2>3. QED
    BY <2>1, <2>2 DEF Accounted
<1>7. ASSUME NEW c \in Call, SwapRejected(c) PROVE \A e \in Call : Accounted(e)'
  BY <1>7 DEF SwapRejected, wallet, lending, history, Accounted
<1>8. ASSUME NEW c \in Call, FinishSwap(c) PROVE \A e \in Call : Accounted(e)'
  <2>1. stage[c] = "sent" /\ supply' = [supply EXCEPT ![c] = Received(c)]
    BY <1>8 DEF FinishSwap
  <2>2. Received(c) = got[c] /\ lent[c] = 0
    BY <2>1 DEF Received, NativeSwap, Accounted, BscStaged, LendStaged
  <2>3. stage' \in {[stage EXCEPT ![c] = "swapped"], [stage EXCEPT ![c] = "executed"]}
    BY <1>8 DEF FinishSwap, Goto
  <2>4. UNCHANGED <<wallet, before, attempt, lend, got, lent>>
    BY <1>8 DEF FinishSwap, wallet, swapping
  <2>5. ASSUME NEW e \in Call \ {c} PROVE Accounted(e)'
    BY <2>1, <2>3, <2>4 DEF wallet, Accounted
  <2>6. Accounted(c)'
    BY <2>1, <2>2, <2>3, <2>4 DEF wallet, Accounted
  <2>7. QED
    BY <2>5, <2>6
<1>9. ASSUME NEW c \in Call, SwapFails(c) PROVE \A e \in Call : Accounted(e)'
  BY <1>9 DEF SwapFails, Goto, wallet, swapping, lending, Accounted
<1>10. ASSUME NEW c \in Call, SendSupply(c) PROVE \A e \in Call : Accounted(e)'
  BY <1>10 DEF SendSupply, Goto, wallet, swapping, history, Accounted
<1>11. ASSUME NEW c \in Call, FinishSupply(c) PROVE \A e \in Call : Accounted(e)'
  BY <1>11 DEF FinishSupply, Goto, wallet, swapping, lending, Accounted
<1>12. ASSUME NEW c \in Call, SupplyFails(c) PROVE \A e \in Call : Accounted(e)'
  <2>1. stage[c] \in {"swapped", "lent"}
    BY <1>12 DEF SupplyFails
  <2>2. supply[c] = got[c] /\ lent[c] = 0
    BY <1>12, <2>1 DEF SupplyFails, Undisturbed, Accounted
  <2>3. stage' \in {[stage EXCEPT ![c] = "swapped"], [stage EXCEPT ![c] = "failed"]}
    BY <1>12 DEF SupplyFails, Goto
  <2>4. /\ UNCHANGED <<wallet, before, supply, lend, got, lent>>
        /\ \A e \in Call \ {c} : attempt'[e] = attempt[e]
    BY <1>12 DEF SupplyFails, wallet, swapping
  <2>5. ASSUME NEW e \in Call \ {c} PROVE Accounted(e)'
    BY <2>3, <2>4 DEF wallet, Accounted
  <2>6. Accounted(c)'
    BY <2>1, <2>2, <2>3, <2>4 DEF wallet, Accounted
  <2>7. QED
    BY <2>5, <2>6
<1>13. ASSUME NEW c \in Call, NEW i \in Tries, NEW out \in MinOut(quote[c])..(quote[c] + Windfall),
              MineSwap(c, i, out)
       PROVE  \A e \in Call : Accounted(e)'
  <2>1. stage[c] = "sent"
    BY <1>13 DEF MineSwap, Alone
  <2>2. \A e \in Call \ {c} : stage'[e] \notin InFlight
    BY <1>13, <2>1 DEF MineSwap, Alone, InFlight
  <2>3. out \in Nat
    BY OutType
  <2>4. /\ got' = [got EXCEPT ![c] = got[c] + out] /\ usdc' = usdc + out
        /\ UNCHANGED <<stage, before, lend, lent>>
    BY <1>13 DEF MineSwap, lending
  <2>5. ASSUME NEW e \in Call \ {c} PROVE Accounted(e)'
    BY <2>2, <2>4 DEF InFlight, Accounted
  <2>6. Accounted(c)'
    <3>1. usdc - before[c] = got[c] /\ lent[c] <= got[c]
      BY <2>1 DEF Accounted
    <3>2. usdc' - before'[c] = got'[c] /\ lent'[c] <= got'[c]
      BY <2>3, <2>4, <3>1
    <3>3. QED
      BY <2>1, <2>4, <3>2 DEF Accounted
  <2>7. QED
    BY <2>5, <2>6
<1>14. ASSUME NEW c \in Call, NEW i \in Tries, RevertSwap(c, i)
       PROVE  \A e \in Call : Accounted(e)'
  BY <1>14 DEF RevertSwap, wallet, lending, history, Accounted
<1>15. ASSUME NEW c \in Call, NEW i \in Attempts, MineSupply(c, i)
       PROVE  \A e \in Call : Accounted(e)'
  <2>1. stage[c] = "lent" /\ i = attempt[c] /\ lend[c][i] = "pending"
    BY <1>15 DEF MineSupply, Alone
  <2>2. supply[c] = got[c] /\ lent[c] = 0
    BY <2>1 DEF Accounted
  <2>3. \A e \in Call \ {c} : stage'[e] \notin InFlight
    BY <1>15, <2>1 DEF MineSupply, Alone, InFlight
  <2>4. /\ lent' = [lent EXCEPT ![c] = lent[c] + supply[c]]
        /\ lend' = [lend EXCEPT ![c][i] = "mined"]
        /\ UNCHANGED <<stage, supply, attempt, got>>
    BY <1>15 DEF MineSupply
  <2>5. ASSUME NEW e \in Call \ {c} PROVE Accounted(e)'
    BY <2>3, <2>4 DEF InFlight, Accounted
  <2>6. Accounted(c)'
    BY <2>1, <2>2, <2>4 DEF Accounted
  <2>7. QED
    BY <2>5, <2>6
<1>16. ASSUME NEW c \in Call, NEW i \in Attempts, RevertSupply(c, i)
       PROVE  \A e \in Call : Accounted(e)'
  <2>1. stage[c] = "lent" /\ i = attempt[c] /\ lend[c][i] = "pending"
    BY <1>16 DEF RevertSupply, Alone
  <2>2. QED
    BY <1>16, <2>1 DEF RevertSupply, wallet, swapping, history, Accounted
<1>17. CASE Restart
  BY <1>17 DEF Restart, Working, InFlight, wallet, swapping, lending, Accounted
<1>18. QED
  BY <1>2, <1>3, <1>4, <1>5, <1>6, <1>7, <1>8, <1>9, <1>10, <1>11, <1>12, <1>13, <1>14, <1>15,
     <1>16, <1>17 DEF BscNext, Request, Chain, Plan, AskSwap

LEMMA BscQuietInit == BscInit => BscQuiet
<1> SUFFICES ASSUME BscInit PROVE BscQuiet
  OBVIOUS
<1>1. 0 \in Tries /\ 1 \in Attempts
  BY BscAssumption DEF Tries, Attempts
<1>2. Alone
  BY <1>1 DEF BscInit, Alone, InFlight
<1>3. \A c \in Call : Roomy(c) /\ Accounted(c)
  BY DEF BscInit, Roomy, Accounted
<1>4. QED
  BY <1>2, <1>3 DEF BscQuiet

LEMMA BscQuietStep == ASSUME BscTypeOK, BscStaged, BscQuiet, [BscNext]_bscVars PROVE BscQuiet'
<1> SUFFICES ASSUME Undisturbed'
             PROVE  (Alone /\ (\A c \in Call : Roomy(c))
                        /\ (NativeSwap => \A c \in Call : Accounted(c)))'
  BY DEF BscQuiet
<1>1. Alone /\ config' = config
  BY StillUndisturbed DEF BscQuiet
<1>2. Alone' /\ \A c \in Call : Roomy(c)'
  BY <1>1, AloneStep, RoomyStep
<1>3. NativeSwap' => \A c \in Call : Accounted(c)'
  BY <1>1, AccountedStep DEF NativeSwap
<1>4. QED
  BY <1>2, <1>3

LEMMA BscKeptQuiet == BscSpec => [](BscTypeOK /\ BscStaged /\ BscQuiet)
<1>1. BscInit => BscQuiet
  BY BscQuietInit
<1>2. BscTypeOK /\ BscStaged /\ BscQuiet /\ [BscNext]_bscVars => BscQuiet'
  BY BscQuietStep
<1>3. QED
  BY <1>1, <1>2, BscKept, PTL DEF BscSpec

(* A request broadcasts one swap that is accepted, however often the nonce *)
(* loop of executeBscSwapViaNativeRpc goes round.                          *)
THEOREM SwapsOnce == BscSpec => []SwappedOnce
<1>1. BscTypeOK /\ BscStaged => SwappedOnce
  BY OneSwap DEF BscStaged
<1>2. QED
  BY <1>1, BscKept, PTL

(* What the route bsc/yield/execute answers as executed was applied.       *)
THEOREM ExecutionIsBacked == BscSpec => []ExecutedBacked
<1>1. BscTypeOK /\ BscStaged => ExecutedBacked
  BY Backed
<1>2. QED
  BY <1>1, BscKept, PTL

(* One request at a time, the route bsc/yield/execute supplies no more     *)
(* than its swap delivered.                                                *)
THEOREM SupplyIsCovered == BscSpec => []SupplyCovered
<1>1. BscTypeOK /\ BscStaged /\ BscQuiet => SupplyCovered
  BY DEF BscQuiet, SupplyCovered, NativeSwap, Accounted
<1>2. QED
  BY <1>1, BscKeptQuiet, PTL

(* One request at a time, no swap spends the USDT that the target          *)
(* buildBscYieldPlan planned it for leaves.                                *)
THEOREM ReserveIsKept == BscSpec => ReserveKept
<1>1. ASSUME BscTypeOK, BscStaged, BscQuiet, [BscNext]_bscVars, NEW c \in Call, NEW i \in Tries,
             Undisturbed, swap[c][i] = "pending", swap'[c][i] = "mined"
      PROVE  usdt' * Bps >= (Bps - goal[c]) * (usdt + usdc)
  <2>1. PICK out \in MinOut(quote[c])..(quote[c] + Windfall) : MineSwap(c, i, out)
    BY <1>1, MinesSwap
  <2>2. stage[c] = "sent" /\ i = tries[c]
    BY <1>1 DEF BscQuiet, Alone, BscStaged, SwapStaged
  <2>3. amount[c] <= usdt /\ usdt' = usdt - amount[c]
    BY <2>1 DEF MineSwap
  <2>4. (usdc + amount[c]) * Bps <= goal[c] * (usdt + usdc)
    BY <1>1, <2>2, <2>3 DEF BscQuiet, Roomy, Swapped
  <2>5. usdt \in Nat /\ usdc \in Nat /\ amount[c] \in Nat /\ goal[c] \in 0..Bps
    BY <1>1 DEF BscTypeOK
  <2>6. (usdt - amount[c]) * Bps >= (Bps - goal[c]) * (usdt + usdc)
    BY <2>4, <2>5, RoomLeaves
  <2>7. QED
    BY <2>3, <2>6
<1>2. BscTypeOK /\ BscStaged /\ BscQuiet /\ [BscNext]_bscVars =>
          [\A c \in Call, i \in Tries :
             Undisturbed /\ swap[c][i] = "pending" /\ swap'[c][i] = "mined" =>
                 usdt' * Bps >= (Bps - goal[c]) * (usdt + usdc)]_bscVars
  BY <1>1
<1>3. QED
  BY <1>2, BscKeptQuiet, PTL DEF BscSpec, ReserveKept

-----------------------------------------------------------------------------
(* The parts together.                                                     *)

(* Each part runs as its own specification says, or stands still.          *)
THEOREM PartsRun == Spec => MorphoSpec /\ GateSpec /\ BscSpec
<1>1. Init => MorphoInit /\ GateInit /\ BscInit
  BY DEF Init
<1>2. [Next]_vars => /\ [MorphoNext]_morphoVars
                     /\ [GateNext]_gateVars
                     /\ [BscNext]_bscVars
  BY DEF Next, Morpho, Gate, Bsc, vars
<1>3. QED
  BY <1>1, <1>2, PTL DEF Spec, MorphoSpec, GateSpec, BscSpec

(* Every reachable state has its types.                                    *)
THEOREM TypeCorrect == Spec => []TypeOK
<1>1. MorphoSpec => []MorphoTypeOK
  BY MorphoAssumption, MorphoTypeCorrect
<1>2. GateSpec => []GateTypeOK
  <2>1. GateInv => GateTypeOK
    BY DEF GateInv
  <2>2. GateSpec => []GateInv
    BY DelegationAssumption, TornIsNoRows, GateInvariance
  <2>3. QED
    BY <2>1, <2>2, PTL
<1>3. Init => executor \in {"morpho", "gate", "bsc"}
  BY DEF Init
<1>4. executor \in {"morpho", "gate", "bsc"} /\ [Next]_vars
      => (executor \in {"morpho", "gate", "bsc"})'
  BY DEF Next, Morpho, Gate, Bsc, vars
<1>5. executor \in {"morpho", "gate", "bsc"} /\ MorphoTypeOK /\ GateTypeOK /\ BscTypeOK => TypeOK
  BY DEF TypeOK
<1>6. QED
  BY <1>1, <1>2, <1>3, <1>4, <1>5, PartsRun, BscKept, PTL DEF Spec

(* The three chains' promises at once, of the server that runs them: the   *)
(* limits and reconciliations of the deposits on Monad, the gate's answers *)
(* to submissions and revocations, and the swaps and supplies on BSC.      *)
THEOREM PromisesKept ==
    Spec => /\ [](CapKept /\ ReconcileHonest)
            /\ [](RevocationHolds /\ DelegationHolds)
            /\ [](SwappedOnce /\ ExecutedBacked /\ SupplyCovered)
            /\ DepositsApart /\ ReserveKept
<1>1. MorphoSpec => []CapKept /\ []ReconcileHonest /\ DepositsApart
  <2>1. MorphoSpec => []CapKept
    BY MorphoAssumption, CapHolds
  <2>2. MorphoSpec => []ReconcileHonest
    BY MorphoAssumption, ReconcileExact
  <2>3. MorphoSpec => DepositsApart
    BY MorphoAssumption, CooldownHolds
  <2>4. QED
    BY <2>1, <2>2, <2>3, PTL
<1>2. GateSpec => []RevocationHolds /\ []DelegationHolds
  <2>1. GateSpec => []RevocationHolds
    BY DelegationAssumption, TornIsNoRows, RevocationsHold
  <2>2. GateSpec => []DelegationHolds
    BY DelegationAssumption, TornIsNoRows, DelegationsHold
  <2>3. QED
    BY <2>1, <2>2, PTL
<1>3. BscSpec => /\ []SwappedOnce /\ []ExecutedBacked /\ []SupplyCovered
                 /\ ReserveKept
  BY SwapsOnce, ExecutionIsBacked, SupplyIsCovered, ReserveIsKept, PTL
<1>4. QED
  BY <1>1, <1>2, <1>3, PartsRun, PTL
=============================================================================
