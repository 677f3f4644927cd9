------------------------- MODULE MarketplaceProofs -------------------------
(***************************************************************************)
(* Proofs about strategy payments, entitlements and the execution gate,    *)
(* for any keys, payments, events, calls and limits.  What is in memory    *)
(* and what is in the file satisfy the same invariant, since a restart     *)
(* puts one in the place of the other.                                     *)
(***************************************************************************)
EXTENDS Marketplace, TLAPS, FiniteSetTheorems

-----------------------------------------------------------------------------
(* What the constants are. *)

LEMMA LimitConstants ==
    /\ UsesPerGrant \in Nat \ {0} /\ Lifetime \in Nat
    /\ DailyMax \in Nat \ {0} /\ HistoryCap \in Nat \ {0} /\ EventCap \in Nat \ {0}
BY MarketAssumption

LEMMA PaymentConstants ==
    /\ \A p \in Payment : KeyOf[p] \in Key
    /\ \A e \in Event : Notice[e].payment \in Payment /\ Notice[e].status \in Statuses
    /\ \A body \in Bodies : body.status \in Statuses
BY MarketAssumption

LEMMA CallConstants == \A c \in Call : PaymentOf[c] \in Payment /\ ClaimOf[c] \in Key
BY MarketAssumption

-----------------------------------------------------------------------------
(* Type correctness, of the memory and of the file. *)

MarketTypes(ps, es, evs, t) ==
    /\ ps \in [Payment -> PaymentRow]
    /\ es \in Seq(Entitlement)
    /\ evs \in Seq(Event) /\ Len(evs) <= EventCap
    /\ t \in [Key -> [bought : Nat, consumed : Nat]]

MemoryTypes == MarketTypes(payments, entitlements, events, tally)
FileTypes == MarketTypes(disk.payments, disk.entitlements, disk.events, disk.tally)

GateTypes ==
    /\ history \in Seq(Entry) /\ Len(history) <= HistoryCap
    /\ dailyDay \in Nat \union {-1} /\ dailyCount \in Nat
    /\ pc \in [Call -> Pcs] /\ held \in [Call -> Nat]

EnvTypes == now \in Nat \ {0} /\ today \in Nat /\ restarts \in Nat

Typed == MemoryTypes /\ FileTypes /\ GateTypes /\ EnvTypes

LEMMA TypedIsType == Typed => TypeOK
BY DEF Typed, TypeOK, MemoryTypes, MarketTypes, GateTypes, EnvTypes

LEMMA TruncatedType ==
    ASSUME NEW S, NEW s \in Seq(S), NEW n \in Nat
    PROVE  Truncated(s, n) \in Seq(S) /\ Len(Truncated(s, n)) <= n
BY DEF Truncated

LEMMA RestType ==
    ASSUME NEW S, NEW s \in Seq(S), NEW n \in 0..Len(s)
    PROVE  /\ SubSeq(s, n + 1, Len(s)) \in Seq(S)
           /\ Len(SubSeq(s, n + 1, Len(s))) <= Len(s)
OBVIOUS

(* The row of a key that is granted more uses. *)
RowAfter(row) ==
    [id |-> row.id, key |-> row.key, uses |-> row.uses + UsesPerGrant,
     expiresAt |-> now + Lifetime]

LEMMA RowAfterFacts ==
    ASSUME NEW row \in Entitlement
    PROVE  [row EXCEPT !.uses = ToppedUp(@), !.expiresAt = now + Lifetime] = RowAfter(row)
<1> DEFINE new == [row EXCEPT !.uses = ToppedUp(@), !.expiresAt = now + Lifetime]
<1>1. new \in [id : {row.id}, key : {row.key}, uses : {row.uses + UsesPerGrant},
               expiresAt : {now + Lifetime}]
  BY DEF Entitlement, ToppedUp
<1> HIDE DEF new
<1>2. new = RowAfter(row)
  BY <1>1 DEF RowAfter
<1>3. QED
  BY <1>2 DEF new

(* What a grant does to the rows and the tally. *)
LEMMA GrantFacts ==
    ASSUME MemoryTypes, now \in Nat, NEW k \in Key, Grant(k)
    PROVE  /\ tally' = [tally EXCEPT ![k].bought = @ + UsesPerGrant]
           /\ \/ \E i \in 1..Len(entitlements) :
                   /\ entitlements[i].key = k
                   /\ entitlements' = [entitlements EXCEPT ![i] = RowAfter(entitlements[i])]
              \/ /\ \A i \in 1..Len(entitlements) : entitlements[i].key # k
                 /\ GrantsApart => \A i \in 1..Len(entitlements) : entitlements[i].id # now
                 /\ entitlements' = <<[id |-> now, key |-> k, uses |-> UsesPerGrant,
                                       expiresAt |-> now + Lifetime]>> \o entitlements
<1>1. /\ entitlements \in Seq(Entitlement)
      /\ \A i \in 1..Len(entitlements) : entitlements[i] \in Entitlement
  BY DEF MemoryTypes, MarketTypes
<1>2. tally' = [tally EXCEPT ![k].bought = @ + UsesPerGrant]
  BY DEF Grant
<1>3. ASSUME NEW i \in 1..Len(entitlements), entitlements[i].key = k,
             entitlements' = [entitlements EXCEPT ![i].uses = ToppedUp(@),
                                                  ![i].expiresAt = now + Lifetime]
      PROVE  entitlements' = [entitlements EXCEPT ![i] = RowAfter(entitlements[i])]
  <2>1. entitlements' =
            [entitlements EXCEPT ![i] = [entitlements[i] EXCEPT !.uses = ToppedUp(@),
                                                                !.expiresAt = now + Lifetime]]
    BY <1>1, <1>3 DEF Entitlement
  <2>2. QED
    BY <1>1, <2>1, RowAfterFacts
<1>4. QED
  BY <1>2, <1>3 DEF Grant

LEMMA GrantTypes ==
    ASSUME MemoryTypes, now \in Nat, NEW k \in Key, Grant(k)
    PROVE  /\ entitlements' \in Seq(Entitlement)
           /\ tally' \in [Key -> [bought : Nat, consumed : Nat]]
<1>1. tally' \in [Key -> [bought : Nat, consumed : Nat]]
  <2>1. tally \in [Key -> [bought : Nat, consumed : Nat]] /\ UsesPerGrant \in Nat
    BY LimitConstants DEF MemoryTypes, MarketTypes
  <2>2. tally' = [tally EXCEPT ![k].bought = @ + UsesPerGrant]
    BY GrantFacts
  <2>3. QED
    BY <2>1, <2>2
<1>2. UsesPerGrant \in Nat /\ Lifetime \in Nat /\ now + Lifetime \in Nat
  BY LimitConstants
<1>3. ASSUME NEW i \in 1..Len(entitlements),
             entitlements' = [entitlements EXCEPT ![i] = RowAfter(entitlements[i])]
      PROVE  entitlements' \in Seq(Entitlement)
  <2>1. entitlements \in Seq(Entitlement) /\ entitlements[i] \in Entitlement
    BY DEF MemoryTypes, MarketTypes
  <2>2. ASSUME NEW row \in Entitlement
        PROVE  RowAfter(row) \in Entitlement
    BY <1>2 DEF RowAfter, Entitlement
  <2>3. QED
    BY <1>3, <2>1, <2>2
<1>4. ASSUME entitlements' = <<[id |-> now, key |-> k, uses |-> UsesPerGrant,
                                expiresAt |-> now + Lifetime]>> \o entitlements
      PROVE  entitlements' \in Seq(Entitlement)
  BY <1>2, <1>4 DEF MemoryTypes, MarketTypes, Entitlement
<1>5. QED
  BY <1>1, <1>3, <1>4, GrantFacts

(* The row of a payment that is created, paid or failed. *)
RowOpened(row) ==
    [status |-> "pending", said |-> "pending", opened |-> row.opened + 1,
     granted |-> row.granted, confirmed |-> row.confirmed]

RowPaid(row, status, by) ==
    [status |-> "paid", said |-> status, opened |-> row.opened,
     granted |-> row.granted + 1, confirmed |-> row.confirmed + by]

RowFailed(row, status) ==
    [status |-> "failed", said |-> status,
     opened |-> IF row.status = "paid" THEN row.opened + 1 ELSE row.opened,
     granted |-> row.granted, confirmed |-> row.confirmed]

LEMMA RowTypes ==
    ASSUME NEW row \in PaymentRow, NEW status \in Statuses, NEW by \in Nat
    PROVE  /\ RowOpened(row) \in PaymentRow
           /\ RowPaid(row, status, by) \in PaymentRow
           /\ RowFailed(row, status) \in PaymentRow
BY DEF RowOpened, RowPaid, RowFailed, PaymentRow, Statuses

LEMMA RowOpenedFacts ==
    ASSUME NEW row \in PaymentRow
    PROVE  [row EXCEPT !.status = "pending", !.said = "pending", !.opened = @ + 1]
             = RowOpened(row)
<1> DEFINE new == [row EXCEPT !.status = "pending", !.said = "pending", !.opened = @ + 1]
<1>1. new \in [status : {"pending"}, said : {"pending"}, opened : {row.opened + 1},
               granted : {row.granted}, confirmed : {row.confirmed}]
  BY DEF PaymentRow
<1> HIDE DEF new
<1>2. new = RowOpened(row)
  BY <1>1 DEF RowOpened
<1>3. QED
  BY <1>2 DEF new

LEMMA CreateFacts ==
    ASSUME MemoryTypes, NEW p \in Payment, CreatePayment(p)
    PROVE  payments' = [payments EXCEPT ![p] = RowOpened(payments[p])]
<1>1. payments \in [Payment -> PaymentRow] /\ payments[p] \in PaymentRow
  BY DEF MemoryTypes, MarketTypes
<1>2. payments' = [payments EXCEPT ![p] =
          [payments[p] EXCEPT !.status = "pending", !.said = "pending", !.opened = @ + 1]]
  BY <1>1 DEF CreatePayment, PaymentRow
<1>3. QED
  BY <1>1, <1>2, RowOpenedFacts

(* What an update does: nothing, a grant to the payment's key, or a row    *)
(* that has failed.                                                        *)
LEMMA UpdateFacts ==
    ASSUME MemoryTypes, NEW p \in Payment, NEW status,
           NEW paid, NEW by,
           Update(p, status, paid, by)
    PROVE  \/ UNCHANGED <<payments, entitlements, tally>>
           \/ /\ payments[p].status # "paid"
              /\ payments' = [payments EXCEPT ![p] = RowPaid(payments[p], status, by)]
              /\ Grant(KeyOf[p])
           \/ /\ payments' = [payments EXCEPT ![p] = RowFailed(payments[p], status)]
              /\ UNCHANGED <<entitlements, tally>>
<1> DEFINE row == [payments[p] EXCEPT !.said = status]
           paidRow == [row EXCEPT !.status = "paid", !.granted = @ + 1, !.confirmed = @ + by]
           failedRow == [row EXCEPT !.status = "failed",
                                    !.opened = IF payments[p].status = "paid" THEN @ + 1 ELSE @]
<1>1. payments[p] \in PaymentRow
  BY DEF MemoryTypes, MarketTypes
<1>2. /\ row \in [status : {payments[p].status}, said : {status}, opened : {payments[p].opened},
                   granted : {payments[p].granted}, confirmed : {payments[p].confirmed}]
  BY <1>1 DEF PaymentRow
<1>3. paidRow = RowPaid(payments[p], status, by)
  <2> HIDE DEF row
  <2>1. paidRow \in [status : {"paid"}, said : {status}, opened : {payments[p].opened},
                     granted : {payments[p].granted + 1}, confirmed : {payments[p].confirmed + by}]
    BY <1>2
  <2> HIDE DEF paidRow
  <2>2. QED
    BY <2>1 DEF RowPaid
<1>4. failedRow = RowFailed(payments[p], status)
  <2> HIDE DEF row
  <2>1. failedRow \in
          [status : {"failed"}, said : {status},
           opened : {IF payments[p].status = "paid" THEN payments[p].opened + 1
                                                    ELSE payments[p].opened},
           granted : {payments[p].granted}, confirmed : {payments[p].confirmed}]
    BY <1>2
  <2> HIDE DEF failedRow
  <2>2. QED
    BY <2>1 DEF RowFailed
<1>5. \/ UNCHANGED <<payments, entitlements, tally>>
      \/ /\ payments[p].status # "paid"
         /\ payments' = [payments EXCEPT ![p] = paidRow]
         /\ Grant(KeyOf[p])
      \/ /\ payments' = [payments EXCEPT ![p] = failedRow]
         /\ UNCHANGED <<entitlements, tally>>
  BY DEF Update
<1> HIDE DEF row, paidRow, failedRow
<1>6. QED
  BY <1>3, <1>4, <1>5

LEMMA UpdateTypes ==
    ASSUME MemoryTypes, now \in Nat, NEW p \in Payment, NEW status \in Statuses,
           NEW paid, NEW by \in Nat, Update(p, status, paid, by)
    PROVE  /\ payments' \in [Payment -> PaymentRow]
           /\ entitlements' \in Seq(Entitlement)
           /\ tally' \in [Key -> [bought : Nat, consumed : Nat]]
<1>1. KeyOf[p] \in Key
  BY PaymentConstants
<1>2. payments \in [Payment -> PaymentRow] /\ payments[p] \in PaymentRow
  BY DEF MemoryTypes, MarketTypes
<1>3. payments' \in [Payment -> PaymentRow]
  BY <1>2, UpdateFacts, RowTypes
<1>4. UNCHANGED <<entitlements, tally>> \/ Grant(KeyOf[p])
  BY UpdateFacts
<1>5. QED
  BY <1>1, <1>3, <1>4, GrantTypes DEF MemoryTypes, MarketTypes

LEMMA MemoryTypesStep ==
    ASSUME Typed, [Next]_vars
    PROVE  MemoryTypes'
<1> USE DEF Typed
<1>1. ASSUME NEW p \in Payment, CreatePayment(p)
      PROVE  MemoryTypes'
  <2>1. payments \in [Payment -> PaymentRow] /\ payments[p] \in PaymentRow
    BY DEF MemoryTypes, MarketTypes
  <2>2. RowOpened(payments[p]) \in PaymentRow
    BY <2>1 DEF RowOpened, PaymentRow, Statuses
  <2>3. payments' \in [Payment -> PaymentRow]
    BY <1>1, <2>1, <2>2, CreateFacts
  <2>4. QED
    BY <1>1, <2>3 DEF CreatePayment, MemoryTypes, MarketTypes
<1>2. ASSUME NEW p \in Payment, NEW body \in Bodies, Confirm(p, body)
      PROVE  MemoryTypes'
  <2>1. body.status \in Statuses
    BY PaymentConstants
  <2>2. QED
    BY <1>2, <2>1, UpdateTypes DEF Confirm, MemoryTypes, MarketTypes, EnvTypes
<1>3. ASSUME NEW e \in Event, Webhook(e)
      PROVE  MemoryTypes'
  <2>1. Notice[e].status \in Statuses /\ Notice[e].payment \in Payment /\ EventCap \in Nat
    BY PaymentConstants, LimitConstants
  <2>2. <<e>> \o events \in Seq(Event)
    BY DEF MemoryTypes, MarketTypes
  <2>3. events' \in Seq(Event) /\ Len(events') <= EventCap
    BY <1>3, <2>1, <2>2, TruncatedType DEF Webhook
  <2>4. QED
    BY <1>3, <2>1, <2>3, UpdateTypes DEF Webhook, MemoryTypes, MarketTypes, EnvTypes
<1>4. ASSUME NEW k \in Key, Purchase(k)
      PROVE  MemoryTypes'
  BY <1>4, GrantTypes DEF Purchase, MemoryTypes, MarketTypes, EnvTypes
<1>5. ASSUME NEW c \in Call, Executed(c)
      PROVE  MemoryTypes'
  <2>1. tally' \in [Key -> [bought : Nat, consumed : Nat]]
    <3>1. tally \in [Key -> [bought : Nat, consumed : Nat]] /\ ClaimOf[c] \in Key
      BY CallConstants DEF MemoryTypes, MarketTypes
    <3>2. tally' = [tally EXCEPT ![ClaimOf[c]].consumed = @ + 1]
      BY <1>5 DEF Executed
    <3>3. QED
      BY <3>1, <3>2
  <2>2. entitlements' \in Seq(Entitlement)
    <3>1. \A i \in 1..Len(entitlements) :
             /\ entitlements[i] \in Entitlement
             /\ [entitlements[i] EXCEPT !.uses = IF @ > 0 THEN @ - 1 ELSE 0] \in Entitlement
      <4>1. \A i \in 1..Len(entitlements) : entitlements[i] \in Entitlement
        BY DEF MemoryTypes, MarketTypes
      <4>2. ASSUME NEW r \in Entitlement
            PROVE  [r EXCEPT !.uses = IF @ > 0 THEN @ - 1 ELSE 0] \in Entitlement
        BY DEF Entitlement
      <4>3. QED
        BY <4>1, <4>2
    <3>2. Len(entitlements) \in Nat /\ entitlements' \in [1..Len(entitlements) -> Entitlement]
      BY <1>5, <3>1 DEF Executed, Consume, MemoryTypes, MarketTypes
    <3>3. QED
      BY <3>2
  <2>3. QED
    BY <1>5, <2>1, <2>2 DEF Executed, MemoryTypes, MarketTypes
<1>6. CASE Restart
  BY <1>6 DEF Restart, MemoryTypes, FileTypes
<1>7. CASE UNCHANGED market
  BY <1>7 DEF market, MemoryTypes
<1>8. QED
  BY <1>1, <1>2, <1>3, <1>4, <1>5, <1>6, <1>7
     DEF Next, Start, NotExecuted, Record, Save, Tick, vars

(* What is in the file is what was there or what is in memory. *)
LEMMA FileStep ==
    ASSUME [Next]_vars
    PROVE  \/ UNCHANGED disk
           \/ /\ disk'.payments = payments /\ disk'.entitlements = entitlements
              /\ disk'.events = events /\ disk'.tally = tally
<1>1. CASE Save
  BY <1>1 DEF Save, Snapshot
<1>2. QED
  BY <1>1
     DEF Next, CreatePayment, Confirm, Webhook, Purchase, Start, NotExecuted, Executed, Record,
         Restart, Tick, vars

LEMMA FileTypesStep ==
    ASSUME Typed, [Next]_vars
    PROVE  FileTypes'
BY FileStep DEF Typed, MemoryTypes, FileTypes

LEMMA PushedType ==
    ASSUME NEW c \in Call, NEW payment \in Payment \union {NoPayment},
           NEW terminal \in BOOLEAN, history \in Seq(Entry)
    PROVE  /\ Pushed(RunOf[c], payment, terminal) \in Seq(Entry)
           /\ Len(Pushed(RunOf[c], payment, terminal)) <= HistoryCap
<1>1. <<[run |-> RunOf[c], payment |-> payment, terminal |-> terminal]>> \o history \in Seq(Entry)
  BY DEF Entry
<1>2. QED
  BY <1>1, TruncatedType, LimitConstants DEF Pushed

LEMMA GateTypesStep ==
    ASSUME Typed, [Next]_vars
    PROVE  GateTypes'
<1> USE DEF GateTypes, Typed
<1>1. ASSUME NEW c \in Call
      PROVE  PaymentOf[c] \in Payment /\ ClaimOf[c] \in Key
  BY CallConstants
<1>2. CountToday \in Nat
  BY DEF CountToday
<1>3. ASSUME NEW c \in Call, Start(c)
      PROVE  GateTypes'
  <2>1. history' \in Seq(Entry) /\ Len(history') <= HistoryCap
    <3>1. \/ UNCHANGED history
          \/ history' = Pushed(RunOf[c], NoPayment, TRUE)
          \/ history' = Pushed(RunOf[c], PaymentOf[c], TRUE)
      BY <1>3 DEF Start
    <3>2. QED
      BY <1>1, <3>1, PushedType
  <2>2. pc' \in [Call -> Pcs]
    BY <1>3 DEF Start, Pcs
  <2>3. held' \in [Call -> Nat]
    <3>1. \A i \in 1..Len(entitlements) : entitlements[i].id \in Nat
      <4>1. \A i \in 1..Len(entitlements) : entitlements[i] \in Entitlement
        BY DEF MemoryTypes, MarketTypes
      <4>2. QED
        BY <4>1 DEF Entitlement
    <3>2. UNCHANGED held \/ \E i \in 1..Len(entitlements) :
                               held' = [held EXCEPT ![c] = entitlements[i].id]
      BY <1>3 DEF Start, Usable
    <3>3. QED
      BY <3>1, <3>2
  <2>4. dailyDay' \in Nat \union {-1} /\ dailyCount' \in Nat
    BY <1>2, <1>3 DEF Start, EnvTypes
  <2>5. QED
    BY <2>1, <2>2, <2>3, <2>4
<1>4. ASSUME NEW c \in Call, NotExecuted(c) \/ Record(c)
      PROVE  GateTypes'
  <2>1. history' \in Seq(Entry) /\ Len(history') <= HistoryCap
    <3>1. \/ UNCHANGED history
          \/ history' = Pushed(RunOf[c], PaymentOf[c], FALSE)
          \/ history' = Pushed(RunOf[c], PaymentOf[c], TRUE)
      BY <1>4 DEF NotExecuted, Record
    <3>2. QED
      BY <1>1, <3>1, PushedType
  <2>2. QED
    BY <1>4, <2>1 DEF NotExecuted, Record, Pcs
<1>5. ASSUME NEW c \in Call, Executed(c)
      PROVE  GateTypes'
  <2>1. dailyDay' \in Nat /\ dailyCount' \in Nat
    BY <1>2, <1>5 DEF Executed, EnvTypes
  <2>2. pc' \in [Call -> Pcs] /\ UNCHANGED <<history, held>>
    BY <1>5 DEF Executed, Pcs
  <2>3. QED
    BY <2>1, <2>2
<1>6. CASE Restart
  <2>1. PICK n \in 0..Len(history) : history' = SubSeq(history, n + 1, Len(history))
    BY <1>6 DEF Restart
  <2>2. history' \in Seq(Entry) /\ Len(history') <= HistoryCap
    BY <2>1, RestType, LimitConstants
  <2>3. QED
    BY <1>6, <2>2 DEF Restart, Pcs
<1>7. CASE UNCHANGED gate
  BY <1>7 DEF gate
<1>8. QED
  BY <1>3, <1>4, <1>5, <1>6, <1>7
     DEF Next, CreatePayment, Confirm, Webhook, Purchase, Save, Tick, vars

LEMMA EnvTypesStep ==
    ASSUME Typed, [Next]_vars
    PROVE  EnvTypes'
<1> USE DEF EnvTypes, Typed
<1>1. CASE Restart
  BY <1>1 DEF Restart
<1>2. CASE Tick
  BY <1>2 DEF Tick
<1>3. CASE UNCHANGED env
  BY <1>3 DEF env
<1>4. QED
  BY <1>1, <1>2, <1>3
     DEF Next, CreatePayment, Confirm, Webhook, Purchase, Start, NotExecuted, Executed, Record,
         Save, vars

LEMMA InitTyped ==
    ASSUME Init
    PROVE  Typed
<1>1. MemoryTypes
  BY LimitConstants DEF Init, MemoryTypes, MarketTypes, PaymentRow
<1>2. FileTypes
  BY <1>1 DEF Init, Snapshot, MemoryTypes, FileTypes
<1>3. GateTypes /\ EnvTypes
  BY LimitConstants DEF Init, GateTypes, EnvTypes, Pcs
<1>4. QED
  BY <1>1, <1>2, <1>3 DEF Typed

LEMMA AlwaysTyped == Spec => []Typed
<1>1. Init => Typed
  BY InitTyped
<1>2. Typed /\ [Next]_vars => Typed'
  BY MemoryTypesStep, FileTypesStep, GateTypesStep, EnvTypesStep DEF Typed
<1>3. QED
  BY <1>1, <1>2, PTL DEF Spec

(* Every reachable state has its types, through restarts that load what    *)
(* was saved.                                                              *)
THEOREM TypeCorrect == Spec => []TypeOK
BY AlwaysTyped, TypedIsType, PTL

-----------------------------------------------------------------------------
(* A payment that waits to be paid again has been opened again. *)

CoveredRow(row) ==
    /\ row.granted <= row.opened
    /\ row.status \notin {"none", "paid"} => row.granted < row.opened

Covered(ps) == \A p \in Payment : CoveredRow(ps[p])

LEMMA RowCovered ==
    ASSUME NEW row \in PaymentRow, CoveredRow(row), NEW status, NEW by
    PROVE  /\ CoveredRow(RowOpened(row))
           /\ row.status \notin {"none", "paid"} => CoveredRow(RowPaid(row, status, by))
           /\ row.status # "none" => CoveredRow(RowFailed(row, status))
BY DEF CoveredRow, RowOpened, RowPaid, RowFailed, PaymentRow

LEMMA UpdateCovered ==
    ASSUME MemoryTypes, Covered(payments), NEW p \in Payment, NEW status,
           NEW paid, NEW by,
           payments[p].status # "none", Update(p, status, paid, by)
    PROVE  Covered(payments')
<1>1. payments \in [Payment -> PaymentRow]
  BY DEF MemoryTypes, MarketTypes
<1>2. payments[p] \in PaymentRow /\ CoveredRow(payments[p])
  BY <1>1 DEF Covered
<1>3. ASSUME NEW row, CoveredRow(row), payments' = [payments EXCEPT ![p] = row]
      PROVE  Covered(payments')
  BY <1>1, <1>3 DEF Covered
<1>4. CASE UNCHANGED payments
  BY <1>4 DEF Covered
<1>5. CASE /\ payments[p].status # "paid"
           /\ payments' = [payments EXCEPT ![p] = RowPaid(payments[p], status, by)]
  BY <1>2, <1>3, <1>5, RowCovered
<1>6. CASE payments' = [payments EXCEPT ![p] = RowFailed(payments[p], status)]
  BY <1>2, <1>3, <1>6, RowCovered
<1>7. QED
  BY <1>4, <1>5, <1>6, UpdateFacts

LEMMA CoveredStep ==
    ASSUME Typed, Covered(payments), Covered(disk.payments), [Next]_vars
    PROVE  Covered(payments') /\ Covered(disk'.payments)
<1>1. Covered(payments')
  <2>1. ASSUME NEW p \in Payment, CreatePayment(p)
        PROVE  Covered(payments')
    <3>1. payments \in [Payment -> PaymentRow] /\ CoveredRow(RowOpened(payments[p]))
      BY RowCovered DEF Typed, MemoryTypes, MarketTypes, Covered
    <3>2. QED
      BY <2>1, <3>1, CreateFacts DEF Typed, Covered
  <2>2. ASSUME NEW p \in Payment, NEW body \in Bodies, Confirm(p, body)
        PROVE  Covered(payments')
    BY <2>2, UpdateCovered DEF Confirm, Typed
  <2>3. ASSUME NEW e \in Event, Webhook(e)
        PROVE  Covered(payments')
    BY <2>3, UpdateCovered, PaymentConstants DEF Webhook, Typed
  <2>4. CASE Restart
    BY <2>4 DEF Restart
  <2>5. CASE UNCHANGED payments
    BY <2>5
  <2>6. QED
    BY <2>1, <2>2, <2>3, <2>4, <2>5
       DEF Next, Purchase, Start, NotExecuted, Executed, Record, Save, Tick, market, vars
<1>2. Covered(disk'.payments)
  BY FileStep
<1>3. QED
  BY <1>1, <1>2

LEMMA InitCovered ==
    ASSUME Init
    PROVE  Covered(payments) /\ Covered(disk.payments)
<1>1. Covered(payments)
  BY DEF Init, Covered, CoveredRow
<1>2. disk.payments = payments
  BY DEF Init, Snapshot
<1>3. QED
  BY <1>1, <1>2

(* A payment never grants more often than it was opened, by whichever      *)
(* confirmations, redeliveries and restarts.                               *)
THEOREM GrantsAreOpened == Spec => []GrantedOncePerOpening
<1> DEFINE Inv == Covered(payments) /\ Covered(disk.payments)
<1>1. Init => Inv
  BY InitCovered
<1>2. Typed /\ Inv /\ [Next]_vars => Inv'
  BY CoveredStep
<1>3. Inv => GrantedOncePerOpening
  BY DEF Covered, CoveredRow, GrantedOncePerOpening
<1>4. QED
  BY <1>1, <1>2, <1>3, AlwaysTyped, PTL DEF Spec

-----------------------------------------------------------------------------
(* What a webhook has granted is in the events it remembers, each once.    *)

EventsAbout(evs, p) ==
    {e \in Event : Notice[e].payment = p /\ \E i \in 1..Len(evs) : evs[i] = e}

EachOnce(evs) == \A i, j \in 1..Len(evs) : evs[i] = evs[j] => i = j

Answered(ps, evs) ==
    \A p \in Payment : ps[p].granted <= ps[p].confirmed + Cardinality(EventsAbout(evs, p))

LEMMA EventsAboutFinite ==
    ASSUME IsFiniteSet(Event), NEW evs, NEW p
    PROVE  IsFiniteSet(EventsAbout(evs, p)) /\ Cardinality(EventsAbout(evs, p)) \in Nat
<1>1. EventsAbout(evs, p) \subseteq Event
  BY DEF EventsAbout
<1>2. QED
  BY <1>1, FS_Subset, FS_CardinalityType

(* Events that differ fit in the store, with room for one more. *)
LEMMA EventsFit ==
    ASSUME IsFiniteSet(Event), NEW evs \in Seq(Event), EachOnce(evs), NEW e \in Event,
           \A i \in 1..Len(evs) : evs[i] # e
    PROVE  Len(evs) + 1 <= Cardinality(Event)
<1>1. Len(evs) \in Nat
  OBVIOUS
<1> DEFINE others == Event \ {e}
<1>2. /\ IsFiniteSet(others) /\ Cardinality(others) = Cardinality(Event) - 1
      /\ Cardinality(Event) \in Nat
  BY FS_RemoveElement, FS_CardinalityType
<1>3. evs \in [1..Len(evs) -> others]
  OBVIOUS
<1>4. evs \in Injection(1..Len(evs), others)
  BY <1>3 DEF EachOnce, Injection, IsInjective
<1>5. Cardinality(1..Len(evs)) <= Cardinality(others)
  BY <1>2, <1>4, FS_Injection DEF ExistsInjection
<1>6. Cardinality(1..Len(evs)) = Len(evs)
  BY <1>1, FS_Interval
<1>7. QED
  BY <1>1, <1>2, <1>5, <1>6

LEMMA EventRemembered ==
    ASSUME IsFiniteSet(Event), Cardinality(Event) <= EventCap, NEW evs \in Seq(Event),
           EachOnce(evs), NEW e \in Event, \A i \in 1..Len(evs) : evs[i] # e
    PROVE  LET new == Truncated(<<e>> \o evs, EventCap) IN
           /\ EachOnce(new)
           /\ EventsAbout(new, Notice[e].payment)
                 = EventsAbout(evs, Notice[e].payment) \union {e}
           /\ \A p : p # Notice[e].payment => EventsAbout(new, p) = EventsAbout(evs, p)
<1> DEFINE new == <<e>> \o evs
<1>1. Len(evs) + 1 <= Cardinality(Event) /\ Cardinality(Event) \in Nat /\ EventCap \in Nat
  BY EventsFit, FS_CardinalityType, LimitConstants
<1>2. /\ new \in Seq(Event) /\ Len(new) = Len(evs) + 1 /\ Len(evs) \in Nat
      /\ new[1] = e /\ \A i \in 1..Len(evs) : new[i + 1] = evs[i]
      /\ \A i \in 2..Len(new) : i - 1 \in 1..Len(evs) /\ new[i] = evs[i - 1]
  OBVIOUS
<1> HIDE DEF new
<1>3. Truncated(new, EventCap) = new
  BY <1>1, <1>2 DEF Truncated
<1>4. EachOnce(new)
  <2> SUFFICES ASSUME NEW i \in 1..Len(new), NEW j \in 1..Len(new), new[i] = new[j]
               PROVE  i = j
    BY DEF EachOnce
  <2>1. i = 1 \/ i \in 2..Len(new)
    BY <1>2
  <2>2. j = 1 \/ j \in 2..Len(new)
    BY <1>2
  <2>3. CASE i \in 2..Len(new) /\ j \in 2..Len(new)
    <3>1. evs[i - 1] = evs[j - 1] /\ i - 1 \in 1..Len(evs) /\ j - 1 \in 1..Len(evs)
      BY <1>2, <2>3
    <3>2. i - 1 = j - 1
      BY <3>1 DEF EachOnce
    <3>3. QED
      BY <2>3, <3>2
  <2>4. QED
    BY <1>2, <2>1, <2>2, <2>3
<1>5. \A d : (\E i \in 1..Len(new) : new[i] = d) <=> d = e \/ \E i \in 1..Len(evs) : evs[i] = d
  <2>1. ASSUME NEW d, NEW i \in 1..Len(new), new[i] = d
        PROVE  d = e \/ \E j \in 1..Len(evs) : evs[j] = d
    <3>1. i = 1 \/ i \in 2..Len(new)
      BY <1>2
    <3>2. QED
      BY <1>2, <2>1, <3>1
  <2>2. ASSUME NEW d, NEW i \in 1..Len(evs), evs[i] = d
        PROVE  \E j \in 1..Len(new) : new[j] = d
    <3>1. i + 1 \in 1..Len(new) /\ new[i + 1] = d
      BY <1>2, <2>2
    <3>2. QED
      BY <3>1
  <2>3. 1 \in 1..Len(new)
    BY <1>2
  <2>4. QED
    BY <1>2, <2>1, <2>2, <2>3
<1>6. /\ EventsAbout(new, Notice[e].payment) = EventsAbout(evs, Notice[e].payment) \union {e}
      /\ \A p : p # Notice[e].payment => EventsAbout(new, p) = EventsAbout(evs, p)
  BY <1>5 DEF EventsAbout
<1>7. QED
  BY <1>3, <1>4, <1>6 DEF new

LEMMA UpdateAnswered ==
    ASSUME MemoryTypes, NEW p \in Payment, NEW status,
           NEW paid, NEW by \in Nat,
           Update(p, status, paid, by)
    PROVE  /\ \A q \in Payment \ {p} : payments'[q] = payments[q]
           /\ \/ /\ payments'[p].granted = payments[p].granted
                 /\ payments'[p].confirmed = payments[p].confirmed
              \/ /\ payments'[p].granted = payments[p].granted + 1
                 /\ payments'[p].confirmed = payments[p].confirmed + by
<1>1. payments \in [Payment -> PaymentRow]
  BY DEF MemoryTypes, MarketTypes
<1>2. QED
  BY <1>1, UpdateFacts DEF RowPaid, RowFailed

AllEvents == Cardinality(Event) <= EventCap

MemoryAnswered == AllEvents => EachOnce(events) /\ Answered(payments, events)
FileAnswered == AllEvents => EachOnce(disk.events) /\ Answered(disk.payments, disk.events)

LEMMA MemoryAnsweredStep ==
    ASSUME IsFiniteSet(Event), Typed, MemoryAnswered, FileAnswered, [Next]_vars
    PROVE  MemoryAnswered'
<1> SUFFICES ASSUME AllEvents
             PROVE  EachOnce(events') /\ Answered(payments', events')
  BY DEF MemoryAnswered, AllEvents
<1>1. EachOnce(events) /\ Answered(payments, events)
  BY DEF MemoryAnswered
<1>2. /\ payments \in [Payment -> PaymentRow] /\ events \in Seq(Event)
      /\ \A p \in Payment : payments[p].granted \in Nat /\ payments[p].confirmed \in Nat
  <2>1. \A row \in PaymentRow : row.granted \in Nat /\ row.confirmed \in Nat
    BY DEF PaymentRow
  <2>2. QED
    BY <2>1 DEF Typed, MemoryTypes, MarketTypes
<1>3. \A p : IsFiniteSet(EventsAbout(events, p)) /\ Cardinality(EventsAbout(events, p)) \in Nat
  BY EventsAboutFinite
<1>4. ASSUME NEW p \in Payment, CreatePayment(p)
      PROVE  EachOnce(events') /\ Answered(payments', events')
  <2>1. events' = events
    BY <1>4 DEF CreatePayment
  <2>2. \A q \in Payment : /\ payments'[q].granted = payments[q].granted
                           /\ payments'[q].confirmed = payments[q].confirmed
    BY <1>2, <1>4, CreateFacts DEF RowOpened, Typed
  <2>3. QED
    BY <1>1, <2>1, <2>2 DEF Answered
<1>5. ASSUME NEW p \in Payment, NEW body \in Bodies, Confirm(p, body)
      PROVE  EachOnce(events') /\ Answered(payments', events')
  <2>1. events' = events
    BY <1>5 DEF Confirm
  <2>2. Update(p, body.status, body.paid, 1)
    BY <1>5 DEF Confirm
  <2>3. \A q \in Payment :
           \/ /\ payments'[q].granted = payments[q].granted
              /\ payments'[q].confirmed = payments[q].confirmed
           \/ /\ payments'[q].granted = payments[q].granted + 1
              /\ payments'[q].confirmed = payments[q].confirmed + 1
    BY <2>2, UpdateAnswered DEF Typed
  <2>4. Answered(payments', events)
    BY <1>1, <1>2, <1>3, <2>3 DEF Answered
  <2>5. QED
    BY <1>1, <2>1, <2>4
<1>6. ASSUME NEW e \in Event, Webhook(e)
      PROVE  EachOnce(events') /\ Answered(payments', events')
  <2> DEFINE p == Notice[e].payment
  <2>1. p \in Payment
    BY PaymentConstants
  <2>2. /\ Update(p, Notice[e].status, Notice[e].paid, 0)
        /\ events' = Truncated(<<e>> \o events, EventCap)
        /\ \A i \in 1..Len(events) : events[i] # e
    BY <1>6 DEF Webhook, Processed
  <2>3. /\ EachOnce(events')
        /\ EventsAbout(events', p) = EventsAbout(events, p) \union {e}
        /\ \A q : q # p => EventsAbout(events', q) = EventsAbout(events, q)
    BY <1>1, <1>2, <2>2, EventRemembered DEF AllEvents
  <2>4. e \notin EventsAbout(events, p)
    BY <2>2 DEF EventsAbout
  <2>5. Cardinality(EventsAbout(events', p)) = Cardinality(EventsAbout(events, p)) + 1
    BY <1>3, <2>3, <2>4, FS_AddElement
  <2> HIDE DEF p
  <2>6. /\ \A q \in Payment \ {p} : payments'[q] = payments[q]
        /\ \/ /\ payments'[p].granted = payments[p].granted
              /\ payments'[p].confirmed = payments[p].confirmed
           \/ /\ payments'[p].granted = payments[p].granted + 1
              /\ payments'[p].confirmed = payments[p].confirmed + 0
    BY <2>1, <2>2, UpdateAnswered DEF Typed
  <2>7. ASSUME NEW q \in Payment
        PROVE  payments'[q].granted <= payments'[q].confirmed + Cardinality(EventsAbout(events', q))
    <3>1. /\ payments[q].granted <= payments[q].confirmed + Cardinality(EventsAbout(events, q))
          /\ payments[q].granted \in Nat /\ payments[q].confirmed \in Nat
          /\ Cardinality(EventsAbout(events, q)) \in Nat
      BY <1>1, <1>2, <1>3 DEF Answered
    <3>2. CASE q = p
      BY <2>5, <2>6, <3>1, <3>2
    <3>3. CASE q # p
      BY <2>3, <2>6, <3>1, <3>3
    <3>4. QED
      BY <3>2, <3>3
  <2>8. QED
    BY <2>3, <2>7 DEF Answered
<1>7. CASE Restart
  BY <1>7 DEF Restart, FileAnswered
<1>8. CASE UNCHANGED <<payments, events>>
  BY <1>1, <1>8
<1>9. QED
  BY <1>4, <1>5, <1>6, <1>7, <1>8
     DEF Next, Purchase, Start, NotExecuted, Executed, Record, Save, Tick, market, vars

LEMMA FileAnsweredStep ==
    ASSUME MemoryAnswered, FileAnswered, [Next]_vars
    PROVE  FileAnswered'
BY FileStep DEF MemoryAnswered, FileAnswered, AllEvents

LEMMA InitAnswered ==
    ASSUME IsFiniteSet(Event), Init
    PROVE  MemoryAnswered /\ FileAnswered
<1>1. \A p : EventsAbout(events, p) = {}
  BY DEF Init, EventsAbout
<1>2. EachOnce(events) /\ Answered(payments, events)
  <2>1. \A p \in Payment : payments[p].granted = 0 /\ payments[p].confirmed = 0
    BY DEF Init
  <2>2. \A p : Cardinality(EventsAbout(events, p)) = 0
    BY <1>1, FS_EmptySet
  <2>3. Answered(payments, events)
    BY <2>1, <2>2 DEF Answered
  <2>4. QED
    BY <2>3 DEF Init, EachOnce
<1>3. disk.payments = payments /\ disk.events = events
  BY DEF Init, Snapshot
<1>4. QED
  BY <1>2, <1>3 DEF MemoryAnswered, FileAnswered

(* Whatever providers deliver again, and whatever came between, a payment  *)
(* grants at most once per event apart from what people confirm, as long   *)
(* as the store of processed events can hold them all.                     *)
THEOREM RedeliveriesHarmless ==
    ASSUME IsFiniteSet(Event)
    PROVE  Spec => []RedeliveryHarmless
<1> DEFINE Inv == MemoryAnswered /\ FileAnswered
<1>1. Init => Inv
  BY InitAnswered
<1>2. Typed /\ Inv /\ [Next]_vars => Inv'
  BY MemoryAnsweredStep, FileAnsweredStep
<1>3. Typed /\ Inv => RedeliveryHarmless
  <2> SUFFICES ASSUME Typed, Inv, AllEvents, NEW p \in Payment
               PROVE  payments[p].granted <= payments[p].confirmed
                        + Cardinality({e \in Event : Notice[e].payment = p})
    BY DEF RedeliveryHarmless, AllEvents
  <2> DEFINE all == {e \in Event : Notice[e].payment = p}
  <2>1. IsFiniteSet(all)
    BY FS_Subset
  <2>2. EventsAbout(events, p) \subseteq all
    BY DEF EventsAbout
  <2>3. /\ Cardinality(EventsAbout(events, p)) <= Cardinality(all)
        /\ Cardinality(EventsAbout(events, p)) \in Nat /\ Cardinality(all) \in Nat
    BY <2>1, <2>2, FS_Subset, FS_CardinalityType
  <2>4. payments[p].granted <= payments[p].confirmed + Cardinality(EventsAbout(events, p))
    BY DEF MemoryAnswered, Answered
  <2>5. payments[p].granted \in Nat /\ payments[p].confirmed \in Nat
    <3>1. payments[p] \in PaymentRow
      BY DEF Typed, MemoryTypes, MarketTypes
    <3>2. QED
      BY <3>1 DEF PaymentRow
  <2>6. QED
    BY <2>3, <2>4, <2>5
<1>4. QED
  BY <1>1, <1>2, <1>3, AlwaysTyped, PTL DEF Spec

-----------------------------------------------------------------------------
(* The day's limit, when one job runs at a time: the count grows only by a *)
(* run that was started below the limit, and the day only moves on.        *)

WithinLimit ==
    /\ dailyDay <= today
    /\ dailyCount <= DailyMax
    /\ \A c \in Call : pc[c] = "executing" => CountToday < DailyMax

OneAtATime == \A c, d \in Executing : c = d

LEMMA OneAtATimeStep ==
    ASSUME ~Overlap, Typed, OneAtATime, [Next]_vars
    PROVE  OneAtATime'
<1>1. pc \in [Call -> Pcs]
  BY DEF Typed, GateTypes
<1>2. ASSUME NEW c \in Call, Start(c)
      PROVE  OneAtATime'
  <2>1. Executing = {} /\ \A d \in Call \ {c} : pc'[d] = pc[d]
    BY <1>1, <1>2 DEF Start
  <2>2. QED
    BY <2>1 DEF OneAtATime, Executing
<1>3. CASE Executing' \subseteq Executing
  BY <1>3 DEF OneAtATime
<1>4. ASSUME NEW c \in Call, NotExecuted(c) \/ Executed(c) \/ Record(c)
      PROVE  Executing' \subseteq Executing
  BY <1>1, <1>4 DEF NotExecuted, Executed, Record, Executing
<1>5. CASE Restart
  BY <1>1, <1>5 DEF Restart, Executing, OneAtATime
<1>6. CASE UNCHANGED pc
  BY <1>6 DEF Executing, OneAtATime
<1>7. QED
  BY <1>2, <1>3, <1>4, <1>5, <1>6
     DEF Next, CreatePayment, Confirm, Webhook, Purchase, Save, Tick, gate, vars

LEMMA WithinLimitStep ==
    ASSUME ~Overlap, Typed, OneAtATime, WithinLimit, [Next]_vars
    PROVE  WithinLimit'
<1>1. /\ pc \in [Call -> Pcs] /\ dailyDay \in Int /\ dailyCount \in Nat /\ today \in Nat
      /\ DailyMax \in Nat \ {0}
  BY LimitConstants DEF Typed, GateTypes, EnvTypes
<1>2. CountToday \in Nat /\ CountToday <= DailyMax
  BY <1>1 DEF CountToday, WithinLimit
<1>3. ASSUME NEW c \in Call, Start(c)
      PROVE  WithinLimit'
  <2>1. CASE UNCHANGED <<dailyDay, dailyCount>> /\ pc' = [pc EXCEPT ![c] = "refused"]
    BY <1>1, <1>3, <2>1 DEF Start, WithinLimit, CountToday, env
  <2>2. CASE dailyDay' = today /\ dailyCount' = CountToday /\ pc' = [pc EXCEPT ![c] = "refused"]
    <3>1. CountToday' = CountToday /\ today' = today
      BY <1>3, <2>2 DEF Start, CountToday, env
    <3>2. QED
      BY <1>1, <1>2, <2>2, <3>1 DEF WithinLimit
  <2>3. CASE /\ dailyDay' = today /\ dailyCount' = CountToday /\ BelowDailyLimit
             /\ pc' = [pc EXCEPT ![c] = "executing"]
    <3>1. CountToday' = CountToday /\ today' = today
      BY <1>3, <2>3 DEF Start, CountToday, env
    <3>2. QED
      BY <1>1, <1>2, <2>3, <3>1 DEF WithinLimit, BelowDailyLimit
  <2>4. QED
    BY <1>3, <2>1, <2>2, <2>3 DEF Start
<1>4. ASSUME NEW c \in Call, NotExecuted(c) \/ Record(c)
      PROVE  WithinLimit'
  <2>1. /\ UNCHANGED <<dailyDay, dailyCount, today>>
        /\ \A d \in Call : pc'[d] = "executing" => pc[d] = "executing"
    BY <1>1, <1>4 DEF NotExecuted, Record, env
  <2>2. QED
    BY <2>1 DEF WithinLimit, CountToday
<1>5. ASSUME NEW c \in Call, Executed(c)
      PROVE  WithinLimit'
  <2>1. /\ pc[c] = "executing" /\ pc' = [pc EXCEPT ![c] = "saving"]
        /\ dailyDay' = today /\ dailyCount' = CountToday + 1 /\ today' = today
    BY <1>5 DEF Executed, env
  <2>2. CountToday < DailyMax
    BY <2>1 DEF WithinLimit
  <2>3. \A d \in Call : pc'[d] # "executing"
    BY <1>1, <2>1 DEF OneAtATime, Executing
  <2>4. QED
    BY <1>1, <1>2, <2>1, <2>2, <2>3 DEF WithinLimit
<1>6. CASE Restart
  BY <1>1, <1>6 DEF Restart, WithinLimit, Executing
<1>7. CASE Tick
  <2>1. UNCHANGED <<dailyDay, dailyCount, pc>> /\ today' \in {today, today + 1}
    BY <1>7 DEF Tick, gate
  <2>2. CASE today' = today
    BY <2>1, <2>2 DEF WithinLimit, CountToday
  <2>3. CASE today' = today + 1
    BY <1>1, <2>1, <2>3 DEF WithinLimit, CountToday
  <2>4. QED
    BY <2>1, <2>2, <2>3
<1>8. CASE UNCHANGED <<dailyDay, dailyCount, pc, today>>
  BY <1>8 DEF WithinLimit, CountToday
<1>9. QED
  BY <1>3, <1>4, <1>5, <1>6, <1>7, <1>8
     DEF Next, CreatePayment, Confirm, Webhook, Purchase, Save, gate, env, vars

LEMMA InitOneAtATime ==
    ASSUME Init
    PROVE  OneAtATime /\ WithinLimit
<1>1. Executing = {} /\ \A c \in Call : pc[c] # "executing"
  BY DEF Init, Executing
<1>2. QED
  BY <1>1, LimitConstants DEF Init, OneAtATime, WithinLimit

LEMMA AlwaysOneAtATime ==
    ASSUME ~Overlap
    PROVE  Spec => []OneAtATime
<1>1. Init => OneAtATime
  BY InitOneAtATime
<1>2. Typed /\ OneAtATime /\ [Next]_vars => OneAtATime'
  BY OneAtATimeStep
<1>3. QED
  BY <1>1, <1>2, AlwaysTyped, PTL DEF Spec

(* No day counts more runs than the policy allows, across jobs that end on *)
(* the day after the one that admitted them, when jobs come through the    *)
(* queue's one worker.                                                     *)
THEOREM DailyLimitHolds ==
    ASSUME ~Overlap
    PROVE  Spec => []DailyLimitKept
<1>1. Init => WithinLimit
  BY InitOneAtATime
<1>2. Typed /\ OneAtATime /\ WithinLimit /\ [Next]_vars => WithinLimit'
  BY WithinLimitStep
<1>3. WithinLimit => DailyLimitKept
  BY DEF WithinLimit, DailyLimitKept
<1>4. QED
  BY <1>1, <1>2, <1>3, AlwaysTyped, AlwaysOneAtATime, PTL DEF Spec

-----------------------------------------------------------------------------
(* A run that was executed is in the history, and no call that repeats it  *)
(* is past the gate.                                                       *)

SameRun(c, d) == RunOf[c] = RunOf[d] /\ PaymentOf[c] = PaymentOf[d]

Complete == restarts = 0 /\ Len(history) < HistoryCap

Started(c) == pc[c] \in {"executing", "saving", "executed"}

Recorded ==
    Complete =>
        /\ \A c \in Call : pc[c] = "executed" => Prior(c)
        /\ \A c, d \in Call : pc[c] = "executed" /\ Started(d) /\ SameRun(c, d) => c = d

(* An entry is put before the others while the history has room. *)
LEMMA PushedFacts ==
    ASSUME NEW run, NEW payment, NEW terminal \in BOOLEAN, history \in Seq(Entry),
           Len(Pushed(run, payment, terminal)) < HistoryCap
    PROVE  /\ Len(history) < HistoryCap
           /\ Pushed(run, payment, terminal)[1]
                 = [run |-> run, payment |-> payment, terminal |-> terminal]
           /\ 1 \in 1..Len(Pushed(run, payment, terminal))
           /\ \A i \in 1..Len(history) :
                 /\ i + 1 \in 1..Len(Pushed(run, payment, terminal))
                 /\ Pushed(run, payment, terminal)[i + 1] = history[i]
<1> DEFINE entry == [run |-> run, payment |-> payment, terminal |-> terminal]
           new == <<entry>> \o history
<1>1. HistoryCap \in Nat \ {0} /\ Len(history) \in Nat
  BY LimitConstants
<1> HIDE DEF entry
<1>2. /\ Len(new) = Len(history) + 1 /\ new[1] = entry
      /\ \A i \in 1..Len(history) : new[i + 1] = history[i]
      /\ new \in Seq(Entry \union {entry})
  OBVIOUS
<1> HIDE DEF new
<1>3. Pushed(run, payment, terminal) = Truncated(new, HistoryCap)
  BY DEF Pushed, new, entry
<1>4. Len(new) <= HistoryCap
  <2>1. CASE Len(new) > HistoryCap
    <3>1. Len(SubSeq(new, 1, HistoryCap)) = HistoryCap
      BY <1>1, <1>2, <2>1
    <3>2. QED
      BY <1>1, <1>3, <2>1, <3>1 DEF Truncated
  <2>2. QED
    BY <1>1, <1>2, <2>1
<1>5. Pushed(run, payment, terminal) = new
  BY <1>1, <1>2, <1>3, <1>4 DEF Truncated
<1>6. QED
  BY <1>1, <1>2, <1>4, <1>5 DEF entry

(* What a new entry leaves true of the older ones. *)
LEMMA PushedKeeps ==
    ASSUME NEW run, NEW payment, NEW terminal \in BOOLEAN, history \in Seq(Entry),
           restarts' = restarts,
           history' = Pushed(run, payment, terminal), Complete'
    PROVE  /\ Complete
           /\ \A c \in Call : Prior(c) => Prior(c)'
           /\ \A c \in Call : terminal /\ run = RunOf[c] /\ payment = PaymentOf[c] => Prior(c)'
<1>1. Len(Pushed(run, payment, terminal)) < HistoryCap
  BY DEF Complete
<1>2. /\ Len(history) < HistoryCap
      /\ history'[1] = [run |-> run, payment |-> payment, terminal |-> terminal]
      /\ 1 \in 1..Len(history')
      /\ \A i \in 1..Len(history) : i + 1 \in 1..Len(history') /\ history'[i + 1] = history[i]
  BY <1>1, PushedFacts
<1>3. Complete
  BY <1>2 DEF Complete
<1>4. ASSUME NEW c \in Call, Prior(c)
      PROVE  Prior(c)'
  <2>1. PICK i \in 1..Len(history) : /\ history[i].terminal
                                     /\ history[i].run = RunOf[c] /\ history[i].payment = PaymentOf[c]
    BY <1>4 DEF Prior
  <2>2. /\ i + 1 \in 1..Len(history') /\ history'[i + 1].terminal
        /\ history'[i + 1].run = RunOf[c] /\ history'[i + 1].payment = PaymentOf[c]
    BY <1>2, <2>1
  <2>3. QED
    BY <2>2 DEF Prior
<1>5. ASSUME NEW c \in Call, terminal, run = RunOf[c], payment = PaymentOf[c]
      PROVE  Prior(c)'
  <2>1. /\ history'[1].terminal /\ history'[1].run = RunOf[c]
        /\ history'[1].payment = PaymentOf[c]
    BY <1>2, <1>5
  <2>2. QED
    BY <1>2, <2>1 DEF Prior
<1>6. QED
  BY <1>3, <1>4, <1>5

LEMMA RecordedStep ==
    ASSUME ~Overlap, Typed, OneAtATime, Recorded, [Next]_vars
    PROVE  Recorded'
<1>1. pc \in [Call -> Pcs] /\ history \in Seq(Entry) /\ restarts \in Nat
  BY DEF Typed, GateTypes, EnvTypes
<1>2. ASSUME Complete => Complete', \A c \in Call : Prior(c) => Prior(c)',
             \A c \in Call : pc'[c] = "executed" => pc[c] = "executed",
             \A c \in Call : Started(c)' => Started(c), Complete' => Complete
      PROVE  Recorded'
  BY <1>2 DEF Recorded, SameRun
<1>3. ASSUME NEW c \in Call, Start(c)
      PROVE  Recorded'
  <2> SUFFICES ASSUME Complete'
               PROVE  /\ \A a \in Call : pc'[a] = "executed" => Prior(a)'
                      /\ \A a, b \in Call : pc'[a] = "executed" /\ Started(b)' /\ SameRun(a, b) => a = b
    BY DEF Recorded, SameRun
  <2>1. restarts' = restarts /\ pc[c] = "idle"
    BY <1>3 DEF Start, env
  <2>2. /\ Complete /\ \A a \in Call : Prior(a) => Prior(a)'
    <3>1. CASE history' = history
      BY <2>1, <3>1 DEF Complete, Prior
    <3>2. CASE \E payment : history' = Pushed(RunOf[c], payment, TRUE)
      BY <1>1, <2>1, <3>2, PushedKeeps
    <3>3. QED
      BY <1>3, <3>1, <3>2 DEF Start
  <2>3. \A a \in Call : pc'[a] = "executed" => pc[a] = "executed"
    BY <1>1, <1>3 DEF Start
  <2>4. \A a \in Call : Started(a)' => Started(a) \/ (a = c /\ ~Prior(c))
    BY <1>1, <1>3 DEF Start, Started, Blocked
  <2>5. /\ \A a \in Call : pc[a] = "executed" => Prior(a)
        /\ \A a, b \in Call : pc[a] = "executed" /\ Started(b) /\ SameRun(a, b) => a = b
    BY <2>2 DEF Recorded
  <2>6. \A a \in Call : Prior(a) /\ SameRun(a, c) => Prior(c)
    BY DEF Prior, SameRun
  <2>7. QED
    BY <2>2, <2>3, <2>4, <2>5, <2>6
<1>4. ASSUME NEW c \in Call, NotExecuted(c)
      PROVE  Recorded'
  <2> SUFFICES ASSUME Complete'
               PROVE  /\ \A a \in Call : pc'[a] = "executed" => Prior(a)'
                      /\ \A a, b \in Call : pc'[a] = "executed" /\ Started(b)' /\ SameRun(a, b) => a = b
    BY DEF Recorded, SameRun
  <2>1. restarts' = restarts
    BY <1>4 DEF NotExecuted, env
  <2>2. /\ Complete /\ \A a \in Call : Prior(a) => Prior(a)'
    <3>1. CASE history' = history
      BY <2>1, <3>1 DEF Complete, Prior
    <3>2. CASE history' = Pushed(RunOf[c], PaymentOf[c], FALSE)
      BY <1>1, <2>1, <3>2, PushedKeeps
    <3>3. QED
      BY <1>4, <3>1, <3>2 DEF NotExecuted
  <2>3. \A a \in Call : /\ pc'[a] = "executed" => pc[a] = "executed"
                        /\ Started(a)' => Started(a)
    BY <1>1, <1>4 DEF NotExecuted, Started
  <2>4. QED
    BY <2>2, <2>3 DEF Recorded
<1>5. ASSUME NEW c \in Call, Record(c)
      PROVE  Recorded'
  <2> SUFFICES ASSUME Complete'
               PROVE  /\ \A a \in Call : pc'[a] = "executed" => Prior(a)'
                      /\ \A a, b \in Call : pc'[a] = "executed" /\ Started(b)' /\ SameRun(a, b) => a = b
    BY DEF Recorded, SameRun
  <2>1. /\ restarts' = restarts /\ history' = Pushed(RunOf[c], PaymentOf[c], TRUE)
        /\ pc[c] = "saving" /\ pc' = [pc EXCEPT ![c] = "executed"]
    BY <1>5 DEF Record, env
  <2>2. /\ Complete /\ Prior(c)' /\ \A a \in Call : Prior(a) => Prior(a)'
    BY <1>1, <2>1, PushedKeeps
  <2>3. \A a \in Call : Started(a)' => a = c \/ pc[a] = "executed"
    BY <1>1, <2>1 DEF Started, OneAtATime, Executing
  <2>4. Started(c)
    BY <2>1 DEF Started
  <2>5. \A a \in Call : pc[a] = "executed" /\ SameRun(a, c) => a = c
    BY <2>2, <2>4 DEF Recorded
  <2>6. \A a \in Call : pc'[a] = "executed" => a = c \/ pc[a] = "executed"
    BY <1>1, <2>1
  <2>7. \A a, b \in Call : pc[a] = "executed" /\ pc[b] = "executed" /\ SameRun(a, b) => a = b
    BY <2>2 DEF Recorded, Started
  <2>8. \A a \in Call : pc[a] = "executed" => Prior(a)
    BY <2>2 DEF Recorded
  <2>9. QED
    BY <2>2, <2>3, <2>5, <2>6, <2>7, <2>8 DEF SameRun
<1>6. ASSUME NEW c \in Call, Executed(c)
      PROVE  Recorded'
  <2>1. /\ UNCHANGED <<history, restarts>>
        /\ \A a \in Call : /\ pc'[a] = "executed" => pc[a] = "executed"
                           /\ Started(a)' => Started(a)
    BY <1>1, <1>6 DEF Executed, env, Started
  <2>2. (Complete' <=> Complete) /\ \A a \in Call : Prior(a)' <=> Prior(a)
    BY <2>1 DEF Complete, Prior
  <2>3. QED
    BY <1>2, <2>1, <2>2
<1>7. CASE Restart
  <2>1. restarts' # 0
    BY <1>1, <1>7 DEF Restart
  <2>2. QED
    BY <2>1 DEF Recorded, Complete
<1>8. CASE UNCHANGED <<history, restarts, pc>>
  <2>1. (Complete' <=> Complete) /\ \A a \in Call : Prior(a)' <=> Prior(a)
    BY <1>8 DEF Complete, Prior
  <2>2. \A a \in Call : Started(a)' <=> Started(a)
    BY <1>8 DEF Started
  <2>3. QED
    BY <1>2, <1>8, <2>1, <2>2
<1>9. QED
  BY <1>3, <1>4, <1>5, <1>6, <1>7, <1>8
     DEF Next, CreatePayment, Confirm, Webhook, Purchase, Save, Tick, gate, env, vars

(* A call that repeats the run and the payment of an executed one is       *)
(* refused, when jobs come through the one worker, for as long as the      *)
(* history has lost no entry.                                              *)
THEOREM DuplicatesBlocked ==
    ASSUME ~Overlap
    PROVE  Spec => []DuplicateRunBlocked
<1>1. Init => Recorded
  BY DEF Init, Recorded, Started
<1>2. Typed /\ OneAtATime /\ Recorded /\ [Next]_vars => Recorded'
  BY RecordedStep
<1>3. Recorded => DuplicateRunBlocked
  BY DEF Recorded, DuplicateRunBlocked, Complete, Started, SameRun
<1>4. QED
  BY <1>1, <1>2, <1>3, AlwaysTyped, AlwaysOneAtATime, PTL DEF Spec

-----------------------------------------------------------------------------
(* The uses of a key, when one job runs at a time and ids are distinct:    *)
(* one row has all that is left.                                           *)

RowsApart(es) ==
    \A i, j \in 1..Len(es) : (es[i].key = es[j].key \/ es[i].id = es[j].id) => i = j

UsesLeft(es, t) ==
    \A k \in Key :
        \/ \E i \in 1..Len(es) : es[i].key = k /\ es[i].uses = t[k].bought - t[k].consumed
        \/ /\ t[k].bought - t[k].consumed = 0
           /\ \A i \in 1..Len(es) : es[i].key # k

Entitled(es, t) == RowsApart(es) /\ UsesLeft(es, t)

(* What an executing call holds is a row of the key it claims, with a use. *)
HoldsUse(id, k, es) == \E i \in 1..Len(es) : es[i].id = id /\ es[i].key = k /\ es[i].uses > 0

Held == \A c \in Call : pc[c] = "executing" => HoldsUse(held[c], ClaimOf[c], entitlements)

(* The rows and the tally as a grant leaves them. *)
LEMMA ToppedUpEntitled ==
    ASSUME NEW es \in Seq(Entitlement), NEW t \in [Key -> [bought : Nat, consumed : Nat]],
           Entitled(es, t), NEW k \in Key, NEW i \in 1..Len(es), es[i].key = k,
           NEW row, row.id = es[i].id, row.key = k, row.uses = es[i].uses + UsesPerGrant,
           NEW new, new = [es EXCEPT ![i] = row],
           NEW u, u = [t EXCEPT ![k].bought = @ + UsesPerGrant]
    PROVE  /\ Entitled(new, u)
           /\ \A id, l : HoldsUse(id, l, es) => HoldsUse(id, l, new)
<1>1. UsesPerGrant \in Nat
  BY LimitConstants
<1>2. \A j \in 1..Len(es) : es[j] \in Entitlement /\ es[j].uses \in Nat
  <2>1. \A e \in Entitlement : e.uses \in Nat
    BY DEF Entitlement
  <2>2. QED
    BY <2>1
<1>3. /\ Len(new) = Len(es)
      /\ \A j \in 1..Len(es) : /\ new[j].key = es[j].key /\ new[j].id = es[j].id
                               /\ j # i => new[j] = es[j]
      /\ new[i].uses = es[i].uses + UsesPerGrant
  OBVIOUS
<1>4. RowsApart(new)
  BY <1>3 DEF Entitled, RowsApart
<1>5. UsesLeft(new, u)
  <2> SUFFICES ASSUME NEW l \in Key
               PROVE  \/ \E j \in 1..Len(new) :
                           new[j].key = l /\ new[j].uses = u[l].bought - u[l].consumed
                      \/ /\ u[l].bought - u[l].consumed = 0
                         /\ \A j \in 1..Len(new) : new[j].key # l
    BY DEF UsesLeft
  <2>1. \/ \E j \in 1..Len(es) : es[j].key = l /\ es[j].uses = t[l].bought - t[l].consumed
        \/ /\ t[l].bought - t[l].consumed = 0
           /\ \A j \in 1..Len(es) : es[j].key # l
    BY DEF Entitled, UsesLeft
  <2>2. CASE l = k
    <3>1. es[i].uses = t[k].bought - t[k].consumed
      BY <2>1, <2>2 DEF Entitled, RowsApart
    <3>2. t[k].bought \in Nat /\ t[k].consumed \in Nat
      OBVIOUS
    <3>3. u[k].bought = t[k].bought + UsesPerGrant /\ u[k].consumed = t[k].consumed
      BY <3>2
    <3>4. new[i].uses = u[k].bought - u[k].consumed
      BY <1>1, <1>3, <3>1, <3>2, <3>3
    <3>5. QED
      BY <1>3, <2>2, <3>4
  <2>3. CASE l # k
    <3>1. u[l] = t[l]
      BY <2>3
    <3>2. \A j \in 1..Len(es) : es[j].key = l => new[j] = es[j]
      BY <1>3, <2>3
    <3>3. QED
      BY <1>3, <2>1, <3>1, <3>2
  <2>4. QED
    BY <2>2, <2>3
<1>6. ASSUME NEW id, NEW l, HoldsUse(id, l, es)
      PROVE  HoldsUse(id, l, new)
  <2>1. PICK j \in 1..Len(es) : es[j].id = id /\ es[j].key = l /\ es[j].uses > 0
    BY <1>6 DEF HoldsUse
  <2>2. new[j].id = id /\ new[j].key = l /\ new[j].uses > 0
    BY <1>1, <1>2, <1>3, <2>1
  <2>3. QED
    BY <1>3, <2>2 DEF HoldsUse
<1>7. QED
  BY <1>4, <1>5, <1>6 DEF Entitled

LEMMA AddedEntitled ==
    ASSUME NEW es \in Seq(Entitlement), NEW t \in [Key -> [bought : Nat, consumed : Nat]],
           Entitled(es, t), NEW k \in Key, \A i \in 1..Len(es) : es[i].key # k,
           NEW row, row.key = k, row.uses = UsesPerGrant, \A i \in 1..Len(es) : es[i].id # row.id,
           NEW new, new = <<row>> \o es,
           NEW u, u = [t EXCEPT ![k].bought = @ + UsesPerGrant]
    PROVE  /\ Entitled(new, u)
           /\ \A id, l : HoldsUse(id, l, es) => HoldsUse(id, l, new)
<1>1. UsesPerGrant \in Nat
  BY LimitConstants
<1>2. /\ Len(es) \in Nat /\ Len(new) = Len(es) + 1 /\ new[1] = row
      /\ \A i \in 1..Len(es) : i + 1 \in 1..Len(new) /\ new[i + 1] = es[i]
      /\ \A i \in 1..Len(new) : i = 1 \/ (i - 1 \in 1..Len(es) /\ new[i] = es[i - 1])
      /\ 1 \in 1..Len(new)
  OBVIOUS
<1>3. RowsApart(new)
  <2> SUFFICES ASSUME NEW i \in 1..Len(new), NEW j \in 1..Len(new),
                      new[i].key = new[j].key \/ new[i].id = new[j].id
               PROVE  i = j
    BY DEF RowsApart
  <2>1. CASE /\ i - 1 \in 1..Len(es) /\ j - 1 \in 1..Len(es)
             /\ new[i] = es[i - 1] /\ new[j] = es[j - 1]
    <3>1. i - 1 = j - 1
      BY <2>1 DEF Entitled, RowsApart
    <3>2. QED
      BY <3>1
  <2>2. CASE i = 1 \/ j = 1
    BY <1>2, <2>2
  <2>3. QED
    BY <1>2, <2>1, <2>2
<1>4. UsesLeft(new, u)
  <2> SUFFICES ASSUME NEW l \in Key
               PROVE  \/ \E j \in 1..Len(new) :
                           new[j].key = l /\ new[j].uses = u[l].bought - u[l].consumed
                      \/ /\ u[l].bought - u[l].consumed = 0
                         /\ \A j \in 1..Len(new) : new[j].key # l
    BY DEF UsesLeft
  <2>1. \/ \E j \in 1..Len(es) : es[j].key = l /\ es[j].uses = t[l].bought - t[l].consumed
        \/ /\ t[l].bought - t[l].consumed = 0
           /\ \A j \in 1..Len(es) : es[j].key # l
    BY DEF Entitled, UsesLeft
  <2>2. CASE l = k
    <3>1. t[k].bought - t[k].consumed = 0
      BY <2>1, <2>2
    <3>2. t[k].bought \in Nat /\ t[k].consumed \in Nat
      OBVIOUS
    <3>3. u[k].bought = t[k].bought + UsesPerGrant /\ u[k].consumed = t[k].consumed
      BY <3>2
    <3>4. new[1].uses = u[k].bought - u[k].consumed
      BY <1>1, <1>2, <3>1, <3>2, <3>3
    <3>5. QED
      BY <1>2, <2>2, <3>4
  <2>3. CASE l # k
    <3>1. u[l] = t[l]
      BY <2>3
    <3>2. CASE \E j \in 1..Len(es) : es[j].key = l /\ es[j].uses = t[l].bought - t[l].consumed
      BY <1>2, <3>1, <3>2
    <3>3. ASSUME \A j \in 1..Len(es) : es[j].key # l, NEW j \in 1..Len(new)
          PROVE  new[j].key # l
      BY <1>2, <2>3, <3>3
    <3>4. QED
      BY <2>1, <3>1, <3>2, <3>3
  <2>4. QED
    BY <2>2, <2>3
<1>5. \A id, l : HoldsUse(id, l, es) => HoldsUse(id, l, new)
  BY <1>2 DEF HoldsUse
<1>6. QED
  BY <1>3, <1>4, <1>5 DEF Entitled

LEMMA GrantEntitled ==
    ASSUME GrantsApart, MemoryTypes, now \in Nat, Entitled(entitlements, tally),
           NEW k \in Key, Grant(k)
    PROVE  /\ Entitled(entitlements', tally')
           /\ \A id, l : HoldsUse(id, l, entitlements) => HoldsUse(id, l, entitlements')
<1>1. entitlements \in Seq(Entitlement) /\ tally \in [Key -> [bought : Nat, consumed : Nat]]
  BY DEF MemoryTypes, MarketTypes
<1>2. tally' = [tally EXCEPT ![k].bought = @ + UsesPerGrant]
  BY GrantFacts
<1>3. CASE \E i \in 1..Len(entitlements) :
              /\ entitlements[i].key = k
              /\ entitlements' = [entitlements EXCEPT ![i] = RowAfter(entitlements[i])]
  <2>1. PICK i \in 1..Len(entitlements) :
            /\ entitlements[i].key = k
            /\ entitlements' = [entitlements EXCEPT ![i] = RowAfter(entitlements[i])]
    BY <1>3
  <2> DEFINE row == RowAfter(entitlements[i])
  <2>2. row.id = entitlements[i].id /\ row.key = k /\ row.uses = entitlements[i].uses + UsesPerGrant
    BY <2>1 DEF RowAfter
  <2>3. entitlements[i].key = k /\ entitlements' = [entitlements EXCEPT ![i] = row]
    BY <2>1
  <2> HIDE DEF row
  <2>4. QED
    BY <1>1, <1>2, <2>2, <2>3, ToppedUpEntitled
<1>4. CASE /\ \A i \in 1..Len(entitlements) : entitlements[i].key # k
           /\ \A i \in 1..Len(entitlements) : entitlements[i].id # now
           /\ entitlements' = <<[id |-> now, key |-> k, uses |-> UsesPerGrant,
                                 expiresAt |-> now + Lifetime]>> \o entitlements
  <2> DEFINE row == [id |-> now, key |-> k, uses |-> UsesPerGrant, expiresAt |-> now + Lifetime]
  <2>1. row.key = k /\ row.uses = UsesPerGrant /\ row.id = now
    OBVIOUS
  <2> HIDE DEF row
  <2>2. entitlements' = <<row>> \o entitlements
    BY <1>4 DEF row
  <2>3. QED
    BY <1>1, <1>2, <1>4, <2>1, <2>2, AddedEntitled
<1>5. QED
  BY <1>3, <1>4, GrantFacts

(* The one use that is consumed is of the row the call holds. *)
LEMMA ConsumeEntitled ==
    ASSUME Typed, Entitled(entitlements, tally), Held, NEW c \in Call, Executed(c)
    PROVE  Entitled(entitlements', tally')
<1>1. /\ entitlements \in Seq(Entitlement) /\ tally \in [Key -> [bought : Nat, consumed : Nat]]
      /\ ClaimOf[c] \in Key
  BY CallConstants DEF Typed, MemoryTypes, MarketTypes
<1>2. PICK i \in 1..Len(entitlements) : /\ entitlements[i].id = held[c]
                                        /\ entitlements[i].key = ClaimOf[c]
                                        /\ entitlements[i].uses > 0
  BY DEF Executed, Held, HoldsUse
<1> DEFINE rows == {j \in 1..Len(entitlements) : entitlements[j].id = held[c]}
<1>3. rows = {i}
  BY <1>2 DEF Entitled, RowsApart
<1>4. \A j \in 1..Len(entitlements) : (j \in rows /\ \A m \in rows : j <= m) <=> j = i
  BY <1>3
<1>5. entitlements' = [j \in 1..Len(entitlements) |->
          IF j \in rows /\ \A m \in rows : j <= m
          THEN [entitlements[j] EXCEPT !.uses = IF @ > 0 THEN @ - 1 ELSE 0]
          ELSE entitlements[j]]
  BY DEF Executed, Consume
<1> HIDE DEF rows
<1>6. /\ \A j \in 1..Len(entitlements) : j # i => entitlements'[j] = entitlements[j]
      /\ entitlements'[i] = [entitlements[i] EXCEPT !.uses = IF @ > 0 THEN @ - 1 ELSE 0]
      /\ entitlements' \in [1..Len(entitlements) -> {entitlements'[j] : j \in 1..Len(entitlements)}]
  BY <1>4, <1>5
<1>7. entitlements[i] \in Entitlement
  BY <1>1
<1>8. /\ entitlements'[i].key = entitlements[i].key /\ entitlements'[i].id = entitlements[i].id
      /\ entitlements'[i].uses = entitlements[i].uses - 1
  <2>1. ASSUME NEW row \in Entitlement, row.uses > 0
        PROVE  LET new == [row EXCEPT !.uses = IF @ > 0 THEN @ - 1 ELSE 0] IN
               new.key = row.key /\ new.id = row.id /\ new.uses = row.uses - 1
    BY <2>1 DEF Entitlement
  <2>2. QED
    BY <1>2, <1>6, <1>7, <2>1
<1>9. Len(entitlements') = Len(entitlements)
  BY <1>1, <1>6
<1>10. /\ tally'[ClaimOf[c]].bought = tally[ClaimOf[c]].bought
       /\ tally'[ClaimOf[c]].consumed = tally[ClaimOf[c]].consumed + 1
       /\ \A k \in Key : k # ClaimOf[c] => tally'[k] = tally[k]
  BY <1>1 DEF Executed
<1>11. RowsApart(entitlements')
  <2>1. \A j \in 1..Len(entitlements) : /\ entitlements'[j].key = entitlements[j].key
                                        /\ entitlements'[j].id = entitlements[j].id
    BY <1>6, <1>8
  <2>2. QED
    BY <1>9, <2>1 DEF Entitled, RowsApart
<1>12. UsesLeft(entitlements', tally')
  <2> SUFFICES ASSUME NEW k \in Key
               PROVE  \/ \E j \in 1..Len(entitlements') :
                            /\ entitlements'[j].key = k
                            /\ entitlements'[j].uses = tally'[k].bought - tally'[k].consumed
                      \/ /\ tally'[k].bought - tally'[k].consumed = 0
                         /\ \A j \in 1..Len(entitlements') : entitlements'[j].key # k
    BY DEF UsesLeft
  <2>1. \/ \E j \in 1..Len(entitlements) :
              /\ entitlements[j].key = k
              /\ entitlements[j].uses = tally[k].bought - tally[k].consumed
        \/ /\ tally[k].bought - tally[k].consumed = 0
           /\ \A j \in 1..Len(entitlements) : entitlements[j].key # k
    BY DEF Entitled, UsesLeft
  <2>2. CASE k = ClaimOf[c]
    <3>1. entitlements[i].uses = tally[k].bought - tally[k].consumed
      BY <1>2, <2>1, <2>2 DEF Entitled, RowsApart
    <3>2. tally[k].bought \in Nat /\ tally[k].consumed \in Nat
      BY <1>1
    <3>3. entitlements'[i].uses = tally'[k].bought - tally'[k].consumed
      BY <1>8, <1>10, <2>2, <3>1, <3>2
    <3>4. QED
      BY <1>2, <1>8, <1>9, <2>2, <3>3
  <2>3. CASE k # ClaimOf[c]
    <3>1. tally'[k] = tally[k]
      BY <1>10, <2>3
    <3>2. \A j \in 1..Len(entitlements) :
              entitlements[j].key = k => entitlements'[j] = entitlements[j]
      BY <1>2, <1>6, <2>3
    <3>3. \A j \in 1..Len(entitlements) : entitlements'[j].key = entitlements[j].key
      BY <1>6, <1>8
    <3>4. QED
      BY <1>9, <2>1, <3>1, <3>2, <3>3
  <2>4. QED
    BY <2>2, <2>3
<1>13. QED
  BY <1>11, <1>12 DEF Entitled

LEMMA UpdateEntitled ==
    ASSUME GrantsApart, Typed, Entitled(entitlements, tally), NEW p \in Payment, NEW status,
           NEW paid,
           NEW by, Update(p, status, paid, by)
    PROVE  /\ Entitled(entitlements', tally')
           /\ \A id, l : HoldsUse(id, l, entitlements) => HoldsUse(id, l, entitlements')
<1>1. MemoryTypes /\ now \in Nat /\ KeyOf[p] \in Key
  BY PaymentConstants DEF Typed, EnvTypes
<1>2. CASE UNCHANGED <<entitlements, tally>>
  BY <1>2
<1>3. CASE Grant(KeyOf[p])
  BY <1>1, <1>3, GrantEntitled
<1>4. QED
  BY <1>1, <1>2, <1>3, UpdateFacts

LEMMA EntitledStep ==
    ASSUME ~Overlap, GrantsApart, Typed, OneAtATime, Entitled(entitlements, tally),
           Entitled(disk.entitlements, disk.tally), Held, [Next]_vars
    PROVE  /\ Entitled(entitlements', tally')
           /\ Entitled(disk'.entitlements, disk'.tally)
           /\ Held'
<1>1. pc \in [Call -> Pcs] /\ held \in [Call -> Nat]
  BY DEF Typed, GateTypes
<1>2. Entitled(disk'.entitlements, disk'.tally)
  BY FileStep
<1>3. ASSUME UNCHANGED <<pc, held>>,
             \A id, l : HoldsUse(id, l, entitlements) => HoldsUse(id, l, entitlements')
      PROVE  Held'
  BY <1>3 DEF Held
<1>4. ASSUME NEW p \in Payment, NEW body \in Bodies, Confirm(p, body)
      PROVE  Entitled(entitlements', tally') /\ Held'
  <2>1. Update(p, body.status, body.paid, 1) /\ UNCHANGED <<pc, held>>
    BY <1>4 DEF Confirm, gate
  <2>2. QED
    BY <1>3, <2>1, UpdateEntitled
<1>5. ASSUME NEW e \in Event, Webhook(e)
      PROVE  Entitled(entitlements', tally') /\ Held'
  <2>1. /\ Update(Notice[e].payment, Notice[e].status, Notice[e].paid, 0)
        /\ UNCHANGED <<pc, held>> /\ Notice[e].payment \in Payment
    BY <1>5, PaymentConstants DEF Webhook, gate
  <2>2. QED
    BY <1>3, <2>1, UpdateEntitled
<1>6. ASSUME NEW k \in Key, Purchase(k)
      PROVE  Entitled(entitlements', tally') /\ Held'
  <2>1. Grant(k) /\ UNCHANGED <<pc, held>>
    BY <1>6 DEF Purchase, gate
  <2>2. QED
    BY <1>3, <2>1, GrantEntitled DEF Typed, EnvTypes
<1>7. ASSUME NEW c \in Call, Start(c)
      PROVE  Entitled(entitlements', tally') /\ Held'
  <2>1. UNCHANGED <<entitlements, tally>>
    BY <1>7 DEF Start, market
  <2>2. CASE pc' = [pc EXCEPT ![c] = "refused"] /\ UNCHANGED held
    BY <1>1, <2>1, <2>2 DEF Held
  <2>3. CASE /\ pc' = [pc EXCEPT ![c] = "executing"]
             /\ \E i \in Usable(ClaimOf[c]) : held' = [held EXCEPT ![c] = entitlements[i].id]
    <3>1. PICK i \in Usable(ClaimOf[c]) : held' = [held EXCEPT ![c] = entitlements[i].id]
      BY <2>3
    <3>2. HoldsUse(held'[c], ClaimOf[c], entitlements)
      BY <1>1, <3>1 DEF Usable, HoldsUse
    <3>3. \A d \in Call : d # c => pc'[d] = pc[d] /\ held'[d] = held[d]
      BY <1>1, <2>3, <3>1
    <3>4. QED
      BY <2>1, <3>2, <3>3 DEF Held
  <2>4. QED
    BY <1>7, <2>1, <2>2, <2>3 DEF Start
<1>8. ASSUME NEW c \in Call, NotExecuted(c) \/ Record(c)
      PROVE  Entitled(entitlements', tally') /\ Held'
  <2>1. /\ UNCHANGED <<entitlements, tally, held>>
        /\ \A d \in Call : pc'[d] = "executing" => pc[d] = "executing"
    BY <1>1, <1>8 DEF NotExecuted, Record, market
  <2>2. QED
    BY <2>1 DEF Held
<1>9. ASSUME NEW c \in Call, Executed(c)
      PROVE  Entitled(entitlements', tally') /\ Held'
  <2>1. \A d \in Call : pc'[d] # "executing"
    BY <1>1, <1>9 DEF Executed, OneAtATime, Executing
  <2>2. QED
    BY <1>9, <2>1, ConsumeEntitled DEF Held
<1>10. CASE Restart
  <2>1. \A d \in Call : pc'[d] # "executing"
    BY <1>1, <1>10 DEF Restart, Executing
  <2>2. QED
    BY <1>10, <2>1 DEF Restart, Held
<1>11. CASE UNCHANGED <<entitlements, tally, pc, held>>
  BY <1>2, <1>11 DEF Held
<1>12. Entitled(entitlements', tally') /\ Held'
  BY <1>4, <1>5, <1>6, <1>7, <1>8, <1>9, <1>10, <1>11
     DEF Next, CreatePayment, Save, Tick, market, gate, vars
<1>13. QED
  BY <1>2, <1>12

LEMMA InitEntitled ==
    ASSUME Init
    PROVE  /\ Entitled(entitlements, tally)
           /\ Entitled(disk.entitlements, disk.tally)
           /\ Held
<1>1. Entitled(entitlements, tally) /\ Held
  BY DEF Init, Entitled, RowsApart, UsesLeft, Held
<1>2. disk.entitlements = entitlements /\ disk.tally = tally
  BY DEF Init, Snapshot
<1>3. QED
  BY <1>1, <1>2

(* The sum over no row, and over one.                                      *)

Pick(s) == CHOOSE x \in s : TRUE

SumOfUses(es, S) == MapThenSumSet(LAMBDA i : es[i].uses, S)

(* g is the sum over the subsets of S. *)
SumsUses(es, S, g) ==
    g = [s \in SUBSET S |-> IF s = {} THEN 0 ELSE es[Pick(s)].uses + g[s \ {Pick(s)}]]

LEMMA SumOfUsesIs ==
    ASSUME NEW es, NEW S
    PROVE  SumOfUses(es, S) = (CHOOSE g : SumsUses(es, S, g))[S]
BY DEF SumOfUses, MapThenSumSet, MapThenFoldSet, SumsUses, Pick

LEMMA SumOfNone == ASSUME NEW es  PROVE SumOfUses(es, {}) = 0
<1>1. SumsUses(es, {}, [s \in SUBSET {} |-> 0])
  BY DEF SumsUses
<1>2. \E g : SumsUses(es, {}, g)
  BY <1>1
<1>3. SumsUses(es, {}, CHOOSE g : SumsUses(es, {}, g))
  BY <1>2
<1>4. QED
  BY <1>3, SumOfUsesIs DEF SumsUses

LEMMA SumOfOne ==
    ASSUME NEW es, NEW i, es[i].uses \in Nat
    PROVE  SumOfUses(es, {i}) = es[i].uses
<1> DEFINE g == [s \in SUBSET {i} |-> IF s = {} THEN 0 ELSE es[i].uses]
<1>1. \A s \in SUBSET {i} : s = {} \/ (s = {i} /\ Pick(s) = i)
  BY DEF Pick
<1>2. g[{}] = 0 /\ \A s \in SUBSET {i} : s \ {i} = {}
  OBVIOUS
<1>3. \A s \in SUBSET {i} :
         (IF s = {} THEN 0 ELSE es[i].uses)
            = IF s = {} THEN 0 ELSE es[Pick(s)].uses + g[s \ {Pick(s)}]
  BY <1>1, <1>2
<1>4. SumsUses(es, {i}, g)
  BY <1>3 DEF SumsUses
<1>5. \E h : SumsUses(es, {i}, h)
  BY <1>4
<1> DEFINE h == CHOOSE h : SumsUses(es, {i}, h)
<1>6. SumsUses(es, {i}, h)
  BY <1>5
<1> HIDE DEF g, h
<1>7. h[{}] = 0 /\ h[{i}] = es[i].uses + h[{i} \ {i}]
  <2>1. \A s \in SUBSET {i} :
           h[s] = IF s = {} THEN 0 ELSE es[Pick(s)].uses + h[s \ {Pick(s)}]
    BY <1>6 DEF SumsUses
  <2>2. {} \in SUBSET {i} /\ {i} \in SUBSET {i} /\ {i} # {} /\ Pick({i}) = i
    BY <1>1
  <2>3. QED
    BY <2>1, <2>2
<1>8. h[{i}] = es[i].uses
  BY <1>2, <1>7
<1>9. QED
  BY <1>8, SumOfUsesIs DEF h

(* No use is lost, created or taken from another buyer, when jobs come     *)
(* through the one worker and no two entitlements share an id: what a key  *)
(* has left is what was bought for it less what it consumed.               *)
THEOREM UsesAreKept ==
    ASSUME ~Overlap, GrantsApart
    PROVE  Spec => []UsesAddUp
<1> DEFINE Inv == /\ Entitled(entitlements, tally)
                  /\ Entitled(disk.entitlements, disk.tally)
                  /\ Held
<1>1. Init => Inv
  BY InitEntitled
<1>2. Typed /\ OneAtATime /\ Inv /\ [Next]_vars => Inv'
  BY EntitledStep
<1>3. Typed /\ Inv => UsesAddUp
  <2> SUFFICES ASSUME Typed, Entitled(entitlements, tally), NEW k \in Key
               PROVE  tally[k].bought - tally[k].consumed =
                      MapThenSumSet(LAMBDA i : entitlements[i].uses,
                                    {i \in 1..Len(entitlements) : entitlements[i].key = k})
    BY DEF UsesAddUp
  <2> DEFINE rows == {i \in 1..Len(entitlements) : entitlements[i].key = k}
             left == tally[k].bought - tally[k].consumed
  <2>1. left = SumOfUses(entitlements, rows)
    <3>1. CASE \E i \in 1..Len(entitlements) :
                  entitlements[i].key = k /\ entitlements[i].uses = left
      <4>1. PICK i \in 1..Len(entitlements) :
                entitlements[i].key = k /\ entitlements[i].uses = left
        BY <3>1
      <4>2. rows = {i}
        BY <4>1 DEF Entitled, RowsApart
      <4>3. entitlements[i].uses \in Nat
        <5>1. entitlements[i] \in Entitlement
          BY DEF Typed, MemoryTypes, MarketTypes
        <5>2. QED
          BY <5>1 DEF Entitlement
      <4>4. QED
        BY <4>1, <4>2, <4>3, SumOfOne
    <3>2. CASE left = 0 /\ \A i \in 1..Len(entitlements) : entitlements[i].key # k
      <4>1. rows = {}
        BY <3>2
      <4>2. QED
        BY <3>2, <4>1, SumOfNone
    <3>3. QED
      BY <3>1, <3>2 DEF Entitled, UsesLeft
  <2>2. QED
    BY <2>1 DEF SumOfUses
<1>4. QED
  BY <1>1, <1>2, <1>3, AlwaysTyped, AlwaysOneAtATime, PTL DEF Spec

=============================================================================
