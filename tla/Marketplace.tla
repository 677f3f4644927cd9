---------------------------- MODULE Marketplace ----------------------------
(***************************************************************************)
(* Strategy payments, entitlements and the gate of executeAcpJob in        *)
(* apps/dashboard/server.mjs: payments are created, confirmed by hand or   *)
(* by a provider's webhook, and grant uses of a strategy to a buyer; an    *)
(* ACP job in execute mode needs a paid payment and a use, is refused when *)
(* its run has ended before, counts against the day's limit, and consumes  *)
(* the use once executeAction has answered, several awaits after the check.*)
(*                                                                         *)
(* A key is a pair of strategyId and buyer.  executeAction is external     *)
(* here: it answers executed, plan-only or with an error.                  *)
(***************************************************************************)
EXTENDS Integers, Sequences, FiniteSetsExt

CONSTANTS
    Key,            (* the pairs of strategyId and buyer *)
    Payment,        (* the paymentIds *)
    KeyOf,          (* the key a payment is created for *)
    Event,          (* the webhook events that carry an eventId *)
    Notice,         (* what each event says: [payment, status, paid] *)
    Bodies,         (* the [status, paid] of the confirm requests *)
    Call,           (* calls of executeAcpJob in execute mode, with a strategyId *)
    RunOf, PaymentOf, ClaimOf,  (* the runId, paymentId and key each passes *)
    NoPayment,      (* entries of the job history without a paymentId *)
    UsesPerGrant,   (* entitlementUses *)
    Lifetime,       (* entitlementDays, in ticks *)
    DailyMax,       (* maxDailyRebalanceRuns of the policy *)
    HistoryCap,     (* entries kept in ACP_JOB_HISTORY (50 in the code) *)
    EventCap,       (* entries kept in PAYMENT_WEBHOOK_EVENTS (2000) *)
    Overlap,        (* FALSE: jobs come through the queue's one worker only *)
    GrantsApart,    (* TRUE: no two entitlements are created in one ms *)
    MaxTime,        (* bound of the model on the clock *)
    MaxDay,         (* bound of the model on the days *)
    MaxGrants,      (* bound of the model on grants, and openings of a payment *)
    MaxRestarts     (* bound of the model on process restarts *)

Statuses == {"pending", "paid", "failed"}
Flags == {"absent", "true", "false"}

ASSUME MarketAssumption ==
    /\ KeyOf \in [Payment -> Key]
    /\ Notice \in [Event -> [payment : Payment, status : Statuses, paid : Flags]]
    /\ Bodies \subseteq [status : Statuses, paid : Flags]
    /\ PaymentOf \in [Call -> Payment] /\ ClaimOf \in [Call -> Key]
    /\ NoPayment \notin Payment
    /\ UsesPerGrant \in Nat \ {0} /\ Lifetime \in Nat
    /\ DailyMax \in Nat \ {0} /\ HistoryCap \in Nat \ {0} /\ EventCap \in Nat \ {0}
    /\ Overlap \in BOOLEAN /\ GrantsApart \in BOOLEAN
    /\ MaxTime \in Nat /\ MaxDay \in Nat /\ MaxGrants \in Nat /\ MaxRestarts \in Nat

VARIABLES
    payments,      (* STRATEGY_PAYMENTS: the row findPaymentById finds for each id *)
    entitlements,  (* STRATEGY_ENTITLEMENTS, newest first *)
    events,        (* PAYMENT_WEBHOOK_EVENTS, newest first *)
    tally,         (* history, per key: uses bought and consumed *)
    disk,          (* the marketplace file *)
    history,       (* ACP_JOB_HISTORY, newest first *)
    dailyDay,      (* ACP_JOB_STATE.dailyWindowDay, -1 for null *)
    dailyCount,    (* ACP_JOB_STATE.dailyCount *)
    pc,            (* where each call is, or how it ended *)
    held,          (* the id of the entitlement each call found *)
    now, today,    (* Date.now(), currentDayKey() *)
    restarts       (* history: restarts of the process *)

market == <<payments, entitlements, events, tally>>
gate == <<history, dailyDay, dailyCount, pc, held>>
env == <<now, today, restarts>>
vars == <<market, disk, gate, env>>

PaymentRow == [status : Statuses \union {"none"}, said : Statuses \union {"none"},
               opened : Nat, granted : Nat, confirmed : Nat]
Entitlement == [id : Nat, key : Key, uses : Nat, expiresAt : Nat]
Entry == [run : {RunOf[c] : c \in Call}, payment : Payment \union {NoPayment},
          terminal : BOOLEAN]
Pcs == {"idle", "executing", "saving", "executed", "planned", "error", "refused", "lost"}

TypeOK ==
    /\ payments \in [Payment -> PaymentRow]
    /\ entitlements \in Seq(Entitlement)
    /\ events \in Seq(Event) /\ Len(events) <= EventCap
    /\ tally \in [Key -> [bought : Nat, consumed : Nat]]
    /\ history \in Seq(Entry) /\ Len(history) <= HistoryCap
    /\ dailyDay \in Nat \union {-1} /\ dailyCount \in Nat
    /\ pc \in [Call -> Pcs] /\ held \in [Call -> Nat]
    /\ now \in Nat \ {0} /\ today \in Nat /\ restarts \in Nat

Snapshot == [payments |-> payments, entitlements |-> entitlements,
             events |-> events, tally |-> tally]

Init ==
    /\ payments = [p \in Payment |-> [status |-> "none", said |-> "none", opened |-> 0,
                                      granted |-> 0, confirmed |-> 0]]
    /\ entitlements = <<>>
    /\ events = <<>>
    /\ tally = [k \in Key |-> [bought |-> 0, consumed |-> 0]]
    /\ disk = Snapshot
    /\ history = <<>>
    /\ dailyDay = -1 /\ dailyCount = 0
    /\ pc = [c \in Call |-> "idle"]
    /\ held = [c \in Call |-> 0]
    /\ now = 1 /\ today = 0 /\ restarts = 0
-----------------------------------------------------------------------------
(* Entitlements. *)

Truncated(s, n) == IF Len(s) > n THEN SubSeq(s, 1, n) ELSE s

(* Fault: the uses left are overwritten. *)
ToppedUpOverwrites(uses) == UsesPerGrant

ToppedUp(uses) == uses + UsesPerGrant

(* grantStrategyEntitlement: the uses are added to the key's row, expired  *)
(* or not; a new row has the time as its id.                               *)
Grant(k) ==
    LET rows == {i \in 1..Len(entitlements) : entitlements[i].key = k} IN
    /\ tally' = [tally EXCEPT ![k].bought = @ + UsesPerGrant]
    /\ MapThenSumSet(LAMBDA l : tally'[l].bought, Key) <= MaxGrants * UsesPerGrant
    /\ \/ \E i \in rows :
            entitlements' = [entitlements EXCEPT ![i].uses = ToppedUp(@),
                                                 ![i].expiresAt = now + Lifetime]
       \/ /\ rows = {}
          /\ GrantsApart => \A i \in 1..Len(entitlements) : entitlements[i].id # now
          /\ entitlements' = <<[id |-> now, key |-> k, uses |-> UsesPerGrant,
                                expiresAt |-> now + Lifetime]>> \o entitlements

(* findStrategyEntitlement: the rows it would accept, of which it takes    *)
(* the first.                                                              *)
Usable(k) ==
    {i \in 1..Len(entitlements) : /\ entitlements[i].key = k
                                  /\ entitlements[i].expiresAt >= now
                                  /\ entitlements[i].uses > 0}

(* consumeStrategyEntitlement: the first row with the id the call holds. *)
Consume(c) ==
    LET rows == {i \in 1..Len(entitlements) : entitlements[i].id = held[c]} IN
    entitlements' = [i \in 1..Len(entitlements) |->
        IF i \in rows /\ \A j \in rows : i <= j
        THEN [entitlements[i] EXCEPT !.uses = IF @ > 0 THEN @ - 1 ELSE 0]
        ELSE entitlements[i]]
-----------------------------------------------------------------------------
(* Payments. *)

(* A row created with an id that exists hides the older row. *)
CreatePayment(p) ==
    /\ payments[p].opened < MaxGrants
    /\ payments' = [payments EXCEPT ![p].status = "pending", ![p].said = "pending",
                                    ![p].opened = @ + 1]
    /\ UNCHANGED <<entitlements, events, tally, disk, gate, env>>

IsPaid(status, paid) == status = "paid" \/ paid # "false"

(* Fault: a payment that is paid is paid again. *)
UpdateAgain(p, status, paid, by) ==
    /\ IsPaid(status, paid)
    /\ payments' = [payments EXCEPT ![p].status = "paid", ![p].said = status,
                                    ![p].granted = @ + 1, ![p].confirmed = @ + by]
    /\ Grant(KeyOf[p])

(* applyPaymentStatusUpdate for a payment that exists; by tells how many   *)
(* of the confirmations are a person's.                                    *)
Update(p, status, paid, by) ==
    LET row == [payments[p] EXCEPT !.said = status] IN
    \/ /\ payments[p].status = "paid" /\ IsPaid(status, paid)
       /\ UNCHANGED <<payments, entitlements, tally>>
    \/ /\ payments[p].status # "paid" /\ IsPaid(status, paid)
       /\ payments' = [payments EXCEPT ![p] =
             [row EXCEPT !.status = "paid", !.granted = @ + 1, !.confirmed = @ + by]]
       /\ Grant(KeyOf[p])
    \/ /\ ~IsPaid(status, paid)
       /\ payments[p].opened < MaxGrants
       /\ payments' = [payments EXCEPT ![p] =
             [row EXCEPT !.status = "failed",
                         !.opened = IF payments[p].status = "paid" THEN @ + 1 ELSE @]]
       /\ UNCHANGED <<entitlements, tally>>

(* payments/confirm; a webhook without an eventId does the same. *)
Confirm(p, body) ==
    /\ payments[p].status # "none"
    /\ Update(p, body.status, body.paid, 1)
    /\ UNCHANGED <<events, disk, gate, env>>

(* Fault: an event counts as processed only while its payment is paid. *)
ProcessedWhilePaid(e) ==
    payments[Notice[e].payment].status = "paid" /\ \E i \in 1..Len(events) : events[i] = e

Processed(e) == \E i \in 1..Len(events) : events[i] = e

(* payments/webhook: providers deliver an event again at any time.  An     *)
(* event about no known payment is not remembered.                         *)
Webhook(e) ==
    /\ ~Processed(e)
    /\ payments[Notice[e].payment].status # "none"
    /\ Update(Notice[e].payment, Notice[e].status, Notice[e].paid, 0)
    /\ events' = Truncated(<<e>> \o events, EventCap)
    /\ UNCHANGED <<disk, gate, env>>

(* strategies/purchase grants without a payment. *)
Purchase(k) ==
    /\ Grant(k)
    /\ UNCHANGED <<payments, events, disk, gate, env>>
-----------------------------------------------------------------------------
(* executeAcpJob. *)

Executing == {c \in Call : pc[c] \in {"executing", "saving"}}

Pushed(run, payment, terminal) ==
    Truncated(<<[run |-> run, payment |-> payment, terminal |-> terminal]>> \o history,
              HistoryCap)

(* findAcpPriorTerminalRun *)
Prior(c) == \E i \in 1..Len(history) :
    /\ history[i].terminal
    /\ history[i].run = RunOf[c] /\ history[i].payment = PaymentOf[c]

(* What the gate holds against a call; each is answered with an entry      *)
(* "blocked", which is itself terminal.                                    *)
Blocked(c) ==
    \/ Prior(c)
    \/ payments[PaymentOf[c]].status # "paid"
    \/ KeyOf[PaymentOf[c]] # ClaimOf[c]
    \/ Usable(ClaimOf[c]) = {}

(* ensureAcpDailyRunLimit and registerAcpExecutedRun open the day's window. *)
CountToday == IF dailyDay = today THEN dailyCount ELSE 0

(* Fault: one run too many. *)
BelowDailyLimitOffByOne == CountToday <= DailyMax

BelowDailyLimit == CountToday < DailyMax

(* Up to the await of executeAction.  Requests rejected for their amount   *)
(* or their intent leave an entry without a paymentId.                     *)
Start(c) ==
    /\ pc[c] = "idle"
    /\ Overlap \/ Executing = {}
    /\ \/ /\ history' = Pushed(RunOf[c], NoPayment, TRUE)
          /\ pc' = [pc EXCEPT ![c] = "refused"]
          /\ UNCHANGED <<dailyDay, dailyCount, held>>
       \/ /\ Blocked(c)
          /\ history' = Pushed(RunOf[c], PaymentOf[c], TRUE)
          /\ pc' = [pc EXCEPT ![c] = "refused"]
          /\ UNCHANGED <<dailyDay, dailyCount, held>>
       \/ /\ ~Blocked(c)
          /\ dailyDay' = today /\ dailyCount' = CountToday
          /\ \/ /\ ~BelowDailyLimit
                /\ pc' = [pc EXCEPT ![c] = "refused"]
                /\ UNCHANGED held
             \/ /\ BelowDailyLimit
                /\ pc' = [pc EXCEPT ![c] = "executing"]
                /\ \E i \in Usable(ClaimOf[c]) :
                      /\ \A j \in Usable(ClaimOf[c]) : i <= j
                      /\ held' = [held EXCEPT ![c] = entitlements[i].id]
          /\ UNCHANGED history
    /\ UNCHANGED <<market, disk, env>>

(* executeAction failed, or only planned. *)
NotExecuted(c) ==
    /\ pc[c] = "executing"
    /\ \/ pc' = [pc EXCEPT ![c] = "error"] /\ UNCHANGED history
       \/ /\ pc' = [pc EXCEPT ![c] = "planned"]
          /\ history' = Pushed(RunOf[c], PaymentOf[c], FALSE)
    /\ UNCHANGED <<market, disk, dailyDay, dailyCount, held, env>>

(* executeAction executed: count the run, consume the use, save. *)
Executed(c) ==
    /\ pc[c] = "executing"
    /\ dailyDay' = today /\ dailyCount' = CountToday + 1
    /\ Consume(c)
    /\ tally' = [tally EXCEPT ![ClaimOf[c]].consumed = @ + 1]
    /\ pc' = [pc EXCEPT ![c] = "saving"]
    /\ UNCHANGED <<payments, events, disk, history, held, env>>

(* Fault: an executed run does not count as terminal. *)
RecordNotTerminal(c) ==
    /\ pc[c] = "saving"
    /\ history' = Pushed(RunOf[c], PaymentOf[c], FALSE)
    /\ pc' = [pc EXCEPT ![c] = "executed"]
    /\ UNCHANGED <<market, disk, dailyDay, dailyCount, held, env>>

(* The save has ended, well or not: the run enters the history. *)
Record(c) ==
    /\ pc[c] = "saving"
    /\ history' = Pushed(RunOf[c], PaymentOf[c], TRUE)
    /\ pc' = [pc EXCEPT ![c] = "executed"]
    /\ UNCHANGED <<market, disk, dailyDay, dailyCount, held, env>>
-----------------------------------------------------------------------------
(* The file, the process and the clock. *)

(* Some saveMarketplaceToDisk, or saveMetricsToDisk for the history, has   *)
(* written; a save may also fail unnoticed.  Saves that no restart will    *)
(* read are left out.                                                      *)
Save ==
    /\ restarts < MaxRestarts
    /\ disk # Snapshot
    /\ disk' = Snapshot
    /\ UNCHANGED <<market, gate, env>>

(* The process dies and boots: loadMarketplaceFromDisk, and the history of *)
(* the metrics file, whose newest entries may not have been saved.         *)
Restart ==
    /\ restarts < MaxRestarts
    /\ restarts' = restarts + 1
    /\ payments' = disk.payments
    /\ entitlements' = disk.entitlements
    /\ events' = disk.events
    /\ tally' = disk.tally
    /\ \E n \in 0..Len(history) : history' = SubSeq(history, n + 1, Len(history))
    /\ dailyDay' = -1 /\ dailyCount' = 0
    /\ pc' = [c \in Call |-> IF c \in Executing THEN "lost" ELSE pc[c]]
    /\ UNCHANGED <<disk, held, now, today>>

Tick ==
    /\ now < MaxTime
    /\ now' = now + 1
    /\ today' \in {today, today + 1} \intersect 0..MaxDay
    /\ UNCHANGED <<market, disk, gate, restarts>>

Next ==
    \/ \E p \in Payment : CreatePayment(p)
    \/ \E p \in Payment, body \in Bodies : Confirm(p, body)
    \/ \E e \in Event : Webhook(e)
    \/ \E k \in Key : Purchase(k)
    \/ \E c \in Call : Start(c) \/ NotExecuted(c) \/ Executed(c) \/ Record(c)
    \/ Save
    \/ Restart
    \/ Tick

Spec == Init /\ [][Next]_vars
-----------------------------------------------------------------------------
(* Properties. *)

(* No use is lost, created or taken from another buyer, across grants,     *)
(* executions that consume long after they checked, and restarts: a key's  *)
(* uses are those bought less those consumed, and never more consumed than *)
(* bought.  (Needs ~Overlap: two executions may hold the same last use.    *)
(* Needs GrantsApart: the id of a row is the millisecond it was made.)     *)
UsesAddUp ==
    \A k \in Key :
        tally[k].bought - tally[k].consumed =
        MapThenSumSet(LAMBDA i : entitlements[i].uses,
                      {i \in 1..Len(entitlements) : entitlements[i].key = k})

(* The daily limit of the policy, which is tested when a job starts and    *)
(* counted when it ends, perhaps on the next day.                          *)
DailyLimitKept == dailyCount <= DailyMax

(* A run is executed once for a payment: whatever became of the payment    *)
(* and the entitlement meanwhile, a call that repeats runId and paymentId  *)
(* is refused as long as the history has not lost the entry.               *)
DuplicateRunBlocked ==
    \A c, d \in Call :
        (/\ pc[c] = "executed" /\ pc[d] = "executed"
         /\ RunOf[c] = RunOf[d] /\ PaymentOf[c] = PaymentOf[d]
         /\ restarts = 0 /\ Len(history) < HistoryCap)
        => c = d

(* However often it is confirmed and by whomever, a payment grants once    *)
(* each time it is opened: created, or failed after it was paid.           *)
GrantedOncePerOpening == \A p \in Payment : payments[p].granted <= payments[p].opened

(* The redelivery of an event never grants again, whatever came between:   *)
(* confirmations apart, a payment grants at most once per event.           *)
RedeliveryHarmless ==
    Cardinality(Event) <= EventCap =>
        \A p \in Payment :
            payments[p].granted <= payments[p].confirmed
                                   + Cardinality({e \in Event : Notice[e].payment = p})

(* docs/near-dashboard.md: entitlements are granted only when paid.  A     *)
(* payment is not paid by an update that says failed.                      *)
GrantOnlyWhenPaid ==
    \A p \in Payment : payments[p].said = "failed" => payments[p].status # "paid"
=============================================================================
