--------------------------- MODULE AcpQueueProofs ---------------------------
(***************************************************************************)
(* Proofs about the queue of ACP jobs, for any rows, ids, attempts and     *)
(* caps: type correctness, how often a row may be started and succeed,     *)
(* what a dead letter stands for, that a backoff is waited for, and that   *)
(* a dismissed row rests.  Rows in memory and rows in the metrics file     *)
(* satisfy the same invariant, since a restart reads the file.             *)
(***************************************************************************)
EXTENDS AcpQueue, TLAPS, WellFoundedInduction

LEMMA LimitConstants ==
    /\ NoRow \notin Row
    /\ MaxAttempts \in Nat \ {0} /\ QueueCap \in Nat \ {0} /\ PurgeAge \in Nat
BY QueueAssumption

-----------------------------------------------------------------------------
(* The least number of a set, and induction that speaks of a set where the *)
(* library's speaks of a predicate.                                        *)

LEMMA LeastNumber ==
    ASSUME NEW T \in SUBSET Nat, T # {}
    PROVE  Min(T) \in T /\ \A y \in T : Min(T) <= y
<1>1. OpToRel(<, Nat) = {ss \in Nat \X Nat : ss[1] < ss[2]}
  BY Zenon DEF OpToRel
<1>2. \E x \in T : \A y \in T : <<y, x>> \notin OpToRel(<, Nat)
  BY NatLessThanWellFounded, WFMin, Zenon
<1>3. \A x, y \in Nat : y < x => <<y, x>> \in {ss \in Nat \X Nat : ss[1] < ss[2]}
  OBVIOUS
<1>4. PICK x \in T : \A y \in T : ~(y < x)
  BY <1>1, <1>2, <1>3
<1>5. \E y \in T : \A z \in T : y <= z
  BY <1>4
<1>6. QED
  BY <1>5 DEF Min

LEMMA Induction ==
    ASSUME NEW S, 0 \in S, \A n \in Nat : n \in S => n + 1 \in S
    PROVE  Nat \subseteq S
<1>1. ASSUME ~(Nat \subseteq S)
      PROVE  FALSE
  <2> DEFINE T == Nat \ S
             x == Min(T)
  <2>1. x \in T /\ \A y \in T : x <= y
    BY <1>1, LeastNumber
  <2> HIDE DEF x
  <2>2. x # 0 /\ x - 1 \in Nat /\ x - 1 \in S
    BY <2>1
  <2>3. QED
    BY <2>1, <2>2
<1>2. QED
  BY <1>1

(* The first of some positions of a sequence. *)
LEMMA FirstRow ==
    ASSUME NEW q \in Seq(Row), NEW at \in SUBSET (1..Len(q)), at # {}
    PROVE  Min(at) \in at /\ q[Min(at)] \in Row
<1>1. at \in SUBSET Nat
  OBVIOUS
<1>2. Min(at) \in at
  BY <1>1, LeastNumber
<1>3. \A i \in 1..Len(q) : q[i] \in Row
  OBVIOUS
<1>4. Min(at) \in 1..Len(q)
  BY <1>2
<1>5. QED
  BY <1>2, <1>3, <1>4

-----------------------------------------------------------------------------
(* What becomes of a row. *)

LEMMA RowOf ==
    ASSUME NEW row \in Job
    PROVE  /\ row.status \in Status /\ row.attempts \in Nat /\ row.error \in Error
           /\ row.nextAttemptAt \in Nat /\ row.lastErrorAt \in Nat /\ row.dismissedAt \in Nat
BY DEF Job

LEMMA BackoffType ==
    ASSUME NEW n \in Nat, n >= 1
    PROVE  Backoff(n) \in Nat /\ Backoff(n) >= 1
<1>1. 2 ^ 0 = 1 /\ 2 ^ 1 = 2 /\ 2 ^ 2 = 4 /\ 2 ^ 3 = 8 /\ 2 ^ 4 = 16 /\ 2 ^ 5 = 32
  OBVIOUS
<1> DEFINE capped == IF n < 6 THEN n ELSE 6
<1>2. capped - 1 \in {0, 1, 2, 3, 4, 5}
  OBVIOUS
<1> HIDE DEF capped
<1>3. 2 ^ (capped - 1) \in {1, 2, 4, 8, 16, 32}
  BY <1>1, <1>2
<1>4. Backoff(n) = 2 ^ (capped - 1)
  BY DEF Backoff, capped
<1>5. QED
  BY <1>3, <1>4

LEMMA BackoffOfOne == Backoff(1) = 1
<1>1. 2 ^ 0 = 1
  OBVIOUS
<1>2. Backoff(1) = 2 ^ 0
  BY DEF Backoff
<1>3. QED
  BY <1>1, <1>2

LEMMA BlankFacts ==
    ASSUME NEW status \in Status
    PROVE  /\ Blank(status) \in Job
           /\ Blank(status).status = status /\ Blank(status).attempts = 0
           /\ Blank(status).error = "null"
BY DEF Blank, Job, Error

LEMMA TakenFacts ==
    ASSUME NEW row \in Job
    PROVE  /\ Taken(row) \in Job
           /\ Taken(row).status = "running" /\ Taken(row).attempts = row.attempts + 1
           /\ Taken(row).error = row.error /\ Taken(row).lastErrorAt = row.lastErrorAt
           /\ Taken(row).nextAttemptAt = row.nextAttemptAt
<1>1. Taken(row) \in [status : {"running"}, attempts : {row.attempts + 1}, error : {row.error},
                      nextAttemptAt : {row.nextAttemptAt}, lastErrorAt : {row.lastErrorAt},
                      dismissedAt : {row.dismissedAt}]
  BY DEF Taken, Job
<1>2. row.attempts + 1 \in Nat /\ "running" \in Status
  BY RowOf DEF Status
<1>3. QED
  BY <1>1, <1>2, RowOf DEF Job

LEMMA FreshFacts ==
    ASSUME NEW row \in Job
    PROVE  /\ Fresh(row) \in Job
           /\ Fresh(row).status = "queued" /\ Fresh(row).attempts = row.attempts
           /\ Fresh(row).error = "null"
<1>1. Fresh(row) \in [status : {"queued"}, attempts : {row.attempts}, error : {"null"},
                      nextAttemptAt : {0}, lastErrorAt : {row.lastErrorAt},
                      dismissedAt : {row.dismissedAt}]
  BY DEF Fresh, Job
<1>2. "queued" \in Status /\ "null" \in Error
  BY DEF Status, Error
<1>3. QED
  BY <1>1, <1>2, RowOf DEF Job

(* The verdict on a row that has been started. *)
LEMMA VerdictFacts ==
    ASSUME NEW r \in Row, job[r] \in Job, job[r].attempts >= 1, now \in Nat,
           NEW outcome \in Outcomes
    PROVE  LET v == Verdict(r, outcome) IN
           /\ v \in Job
           /\ v.attempts = job[r].attempts
           /\ \/ outcome = "ok" /\ v.status = "done"
              \/ /\ outcome = "fatal" \/ (outcome = "retryable" /\ job[r].attempts >= MaxAttempts)
                 /\ v.status = "dead-letter" /\ v.error = outcome
              \/ /\ outcome = "retryable" /\ job[r].attempts < MaxAttempts
                 /\ v.status = "queued" /\ v.error = outcome /\ v.lastErrorAt = now
                 /\ v.nextAttemptAt = now + Backoff(job[r].attempts)
<1> DEFINE row == job[r]
           failed == [row EXCEPT !.error = outcome, !.lastErrorAt = now]
<1>1. row \in Job /\ row.attempts \in Nat
  BY RowOf
<1>2. Backoff(row.attempts) \in Nat /\ now + Backoff(row.attempts) \in Nat
  BY <1>1, BackoffType
<1>3. /\ \A s \in {"done", "dead-letter", "queued"} : s \in Status
      /\ \A o \in Outcomes \ {"ok"} : o \in Error
      /\ "null" \in Error /\ 0 \in Nat
  BY DEF Status, Error, Outcomes
<1> HIDE DEF row
<1>4. CASE outcome = "ok"
  <2>1. Verdict(r, outcome) = [row EXCEPT !.status = "done", !.error = "null", !.nextAttemptAt = 0]
    BY <1>4 DEF Verdict, row
  <2> DEFINE v == [row EXCEPT !.status = "done", !.error = "null", !.nextAttemptAt = 0]
  <2>2. v \in [status : {"done"}, attempts : {row.attempts}, error : {"null"},
               nextAttemptAt : {0}, lastErrorAt : {row.lastErrorAt},
               dismissedAt : {row.dismissedAt}]
    BY <1>1 DEF Job
  <2> HIDE DEF v
  <2>3. v \in Job /\ v.attempts = row.attempts /\ v.status = "done"
    BY <1>1, <1>3, <2>2, RowOf DEF Job
  <2>4. QED
    BY <1>4, <2>1, <2>3 DEF v, row
<1>5. CASE outcome # "ok"
  <2>1. failed \in [status : {row.status}, attempts : {row.attempts}, error : {outcome},
                    nextAttemptAt : {row.nextAttemptAt}, lastErrorAt : {now},
                    dismissedAt : {row.dismissedAt}]
    BY <1>1 DEF Job
  <2> DEFINE dead == [failed EXCEPT !.status = "dead-letter", !.nextAttemptAt = 0]
             again == [failed EXCEPT !.status = "queued",
                                     !.nextAttemptAt = now + Backoff(row.attempts)]
  <2>2. Verdict(r, outcome) =
            IF outcome = "fatal" \/ row.attempts >= MaxAttempts THEN dead ELSE again
    BY <1>5 DEF Verdict, row
  <2> HIDE DEF failed
  <2>3. dead \in [status : {"dead-letter"}, attempts : {row.attempts}, error : {outcome},
                  nextAttemptAt : {0}, lastErrorAt : {now}, dismissedAt : {row.dismissedAt}]
    BY <2>1
  <2>4. again \in [status : {"queued"}, attempts : {row.attempts}, error : {outcome},
                   nextAttemptAt : {now + Backoff(row.attempts)}, lastErrorAt : {now},
                   dismissedAt : {row.dismissedAt}]
    BY <2>1
  <2> HIDE DEF dead, again
  <2>5. /\ dead \in Job /\ dead.status = "dead-letter" /\ dead.error = outcome
        /\ dead.attempts = row.attempts
    BY <1>1, <1>3, <1>5, <2>3, RowOf DEF Job
  <2>6. /\ again \in Job /\ again.status = "queued" /\ again.error = outcome
        /\ again.attempts = row.attempts /\ again.lastErrorAt = now
        /\ again.nextAttemptAt = now + Backoff(row.attempts)
    BY <1>1, <1>2, <1>3, <1>5, <2>4, RowOf DEF Job
  <2>7. outcome = "fatal" \/ outcome = "retryable"
    BY <1>5 DEF Outcomes
  <2>8. CASE outcome = "fatal" \/ row.attempts >= MaxAttempts
    BY <2>2, <2>5, <2>7, <2>8 DEF row
  <2>9. CASE ~(outcome = "fatal" \/ row.attempts >= MaxAttempts)
    BY <1>1, <2>2, <2>6, <2>7, <2>9, LimitConstants DEF row
  <2>10. QED
    BY <2>8, <2>9
<1>6. QED
  BY <1>4, <1>5

-----------------------------------------------------------------------------
(* What a purge leaves of a queue. *)

(* kept[n] is what is left of the first n rows. *)
Keeps(q, j, kept) ==
    kept = [n \in 0..Len(q) |->
               IF n = 0 THEN <<>>
               ELSE IF Expired(j[q[n]]) THEN kept[n - 1] ELSE Append(kept[n - 1], q[n])]

KeptNext(q, j, kept, n) ==
    IF n = 0 THEN <<>>
    ELSE IF Expired(j[q[n]]) THEN kept[n - 1] ELSE Append(kept[n - 1], q[n])

LEMMA KeptExists ==
    ASSUME NEW q \in Seq(Row), NEW j
    PROVE  \E kept : Keeps(q, j, kept)
<1> DEFINE Upto(m, kept) == \A n \in 0..Len(q) : n <= m => kept[n] = KeptNext(q, j, kept, n)
           Good == {m \in Nat : \E kept : Upto(m, kept)}
<1>1. Len(q) \in Nat
  OBVIOUS
<1>2. 0 \in Good
  <2> DEFINE none == [n \in 0..Len(q) |-> <<>>]
  <2>1. Upto(0, none)
    BY <1>1 DEF KeptNext
  <2>2. QED
    BY <2>1
<1>3. ASSUME NEW m \in Nat, m \in Good
      PROVE  m + 1 \in Good
  <2>1. PICK kept : Upto(m, kept)
    BY <1>3
  <2> DEFINE more == [n \in 0..Len(q) |-> KeptNext(q, j, kept, n)]
  <2>2. ASSUME NEW n \in 0..Len(q), n <= m + 1
        PROVE  more[n] = KeptNext(q, j, more, n)
    <3>1. CASE n = 0
      BY <1>1, <3>1 DEF KeptNext
    <3>2. CASE n # 0
      <4>1. n - 1 \in 0..Len(q) /\ n - 1 <= m
        BY <1>1, <2>2, <3>2
      <4>2. more[n - 1] = kept[n - 1]
        BY <2>1, <4>1
      <4>3. KeptNext(q, j, more, n) = KeptNext(q, j, kept, n)
        BY <3>2, <4>2 DEF KeptNext
      <4>4. QED
        BY <4>3
    <3>3. QED
      BY <3>1, <3>2
  <2>3. Upto(m + 1, more)
    BY <2>2
  <2> HIDE DEF more, Upto
  <2>4. QED
    BY <2>3
<1>4. Len(q) \in Good
  <2> HIDE DEF Good
  <2>1. Nat \subseteq Good
    BY <1>2, <1>3, Induction
  <2>2. QED
    BY <1>1, <2>1
<1>5. PICK kept : Upto(Len(q), kept)
  BY <1>4
<1> DEFINE all == [n \in 0..Len(q) |-> kept[n]]
<1>6. ASSUME NEW n \in 0..Len(q)
      PROVE  all[n] = KeptNext(q, j, all, n)
  <2>1. kept[n] = KeptNext(q, j, kept, n)
    BY <1>1, <1>5
  <2>2. n # 0 => n - 1 \in 0..Len(q)
    BY <1>1
  <2>3. KeptNext(q, j, all, n) = KeptNext(q, j, kept, n)
    BY <2>2 DEF KeptNext
  <2>4. QED
    BY <2>1, <2>3
<1>7. Keeps(q, j, all)
  <2> HIDE DEF Upto
  <2>1. all = [n \in 0..Len(q) |-> all[n]]
    OBVIOUS
  <2> HIDE DEF all
  <2>2. QED
    BY <1>6, <2>1 DEF Keeps, KeptNext
<1>8. QED
  BY <1>7

LEMMA PurgedType ==
    ASSUME NEW q \in Seq(Row), NEW j
    PROVE  Purged(q, j) \in Seq(Row) /\ Len(Purged(q, j)) <= Len(q)
<1> DEFINE kept == CHOOSE kept : Keeps(q, j, kept)
<1>1. Purged(q, j) = kept[Len(q)]
  BY DEF Purged, Keeps
<1>2. Keeps(q, j, kept)
  BY KeptExists
<1> HIDE DEF kept
<1>3. Len(q) \in Nat
  OBVIOUS
<1>4. \A n \in 0..Len(q) : kept[n] = KeptNext(q, j, kept, n)
  BY <1>2 DEF Keeps, KeptNext
<1> DEFINE Good == {n \in Nat : n <= Len(q) => kept[n] \in Seq(Row) /\ Len(kept[n]) <= n}
<1>5. 0 \in Good
  <2>1. kept[0] = <<>>
    BY <1>3, <1>4 DEF KeptNext
  <2> DEFINE first == kept[0]
  <2>2. first \in Seq(Row) /\ Len(first) <= 0
    <3> HIDE DEF first
    <3>1. first = <<>>
      BY <2>1 DEF first
    <3>2. QED
      BY <3>1
  <2>3. QED
    BY <2>2
<1>6. ASSUME NEW n \in Nat, n \in Good
      PROVE  n + 1 \in Good
  <2> SUFFICES ASSUME n + 1 <= Len(q)
               PROVE  kept[n + 1] \in Seq(Row) /\ Len(kept[n + 1]) <= n + 1
    OBVIOUS
  <2>1. kept[n] \in Seq(Row) /\ Len(kept[n]) <= n /\ Len(kept[n]) \in Nat
    BY <1>3, <1>6
  <2>2. q[n + 1] \in Row
    BY <1>3
  <2>3. kept[n + 1] = kept[n] \/ kept[n + 1] = Append(kept[n], q[n + 1])
    <3>1. n + 1 \in 0..Len(q) /\ n + 1 # 0 /\ (n + 1) - 1 = n
      BY <1>3
    <3>2. kept[n + 1] = KeptNext(q, j, kept, n + 1)
      BY <1>4, <3>1
    <3>3. QED
      BY <3>1, <3>2 DEF KeptNext
  <2>4. Append(kept[n], q[n + 1]) \in Seq(Row) /\ Len(Append(kept[n], q[n + 1])) = Len(kept[n]) + 1
    BY <2>1, <2>2
  <2> DEFINE old == kept[n]
             new == kept[n + 1]
  <2>5. /\ old \in Seq(Row) /\ Len(old) <= n /\ Len(old) \in Nat
        /\ \/ new = old
           \/ new \in Seq(Row) /\ Len(new) = Len(old) + 1
    BY <2>1, <2>3, <2>4
  <2> HIDE DEF old, new
  <2>6. new \in Seq(Row) /\ Len(new) <= n + 1
    BY <2>5
  <2>7. QED
    BY <2>6 DEF new
<1>7. Len(q) \in Good
  <2> HIDE DEF Good
  <2>1. Nat \subseteq Good
    BY <1>5, <1>6, Induction
  <2>2. QED
    BY <1>3, <2>1
<1>8. QED
  BY <1>1, <1>3, <1>7

-----------------------------------------------------------------------------
(* The worker, woken or not, from the rows j and the worker w to k and x.  *)

Woken(j, w, k, x) ==
    \/ k = j /\ x = w
    \/ /\ w = NoRow /\ x \in Row /\ Due(j, x)
       /\ k = [j EXCEPT ![x] = Taken(j[x])]

LEMMA WakeFacts ==
    ASSUME NEW q \in Seq(Row), NEW j, NEW w
    PROVE  Woken(j, w, Wake(q, j, w).job, Wake(q, j, w).worker)
<1> DEFINE due == {i \in 1..Len(q) : Due(j, q[i])}
           next == q[Min(due)]
<1>1. CASE w # NoRow \/ due = {}
  <2>1. Wake(q, j, w) = [job |-> j, worker |-> w]
    BY <1>1 DEF Wake
  <2>2. QED
    BY <2>1 DEF Woken
<1>2. CASE w = NoRow /\ due # {}
  <2>1. Min(due) \in due /\ next \in Row
    BY <1>2, FirstRow
  <2>2. Due(j, next)
    BY <2>1
  <2>3. Wake(q, j, w) = [job |-> [j EXCEPT ![next] = Taken(@)], worker |-> next]
    BY <1>2 DEF Wake
  <2> HIDE DEF next
  <2>4. [j EXCEPT ![next] = Taken(@)] = [j EXCEPT ![next] = Taken(j[next])]
    OBVIOUS
  <2>5. QED
    BY <1>2, <2>1, <2>2, <2>3, <2>4 DEF Woken
<1>3. QED
  BY <1>1, <1>2

LEMMA WokenTypes ==
    ASSUME NEW j \in [Row -> Job], NEW w \in Row \union {NoRow}, NEW k, NEW x, Woken(j, w, k, x)
    PROVE  k \in [Row -> Job] /\ x \in Row \union {NoRow}
BY TakenFacts DEF Woken

-----------------------------------------------------------------------------
(* Rows as the worker, the routes and a restart leave them.                *)

RowSound(row) ==
    /\ row.status = "new" => row.attempts = 0
    /\ row.status = "dead-letter" =>
          \/ row.error = "fatal"
          \/ row.error = "retryable" /\ row.attempts >= MaxAttempts
    /\ row.status \in {"queued", "running"} /\ row.error # "null" =>
          row.attempts >= 1 /\ row.nextAttemptAt >= row.lastErrorAt + 1

GoodRows(j) == j \in [Row -> Job] /\ \A r \in Row : RowSound(j[r])

(* The row the worker executes has been started. *)
GoodWorker(j, w) ==
    /\ w \in Row \union {NoRow}
    /\ w # NoRow => j[w].attempts >= 1 /\ j[w].status # "new"

LEMMA WokenGood ==
    ASSUME NEW j, NEW w, NEW k, NEW x, GoodRows(j), GoodWorker(j, w), Woken(j, w, k, x)
    PROVE  GoodRows(k) /\ GoodWorker(k, x)
<1>1. CASE k = j /\ x = w
  BY <1>1
<1>2. CASE x \in Row /\ Due(j, x) /\ k = [j EXCEPT ![x] = Taken(j[x])]
  <2>1. j \in [Row -> Job] /\ j[x] \in Job /\ RowSound(j[x])
    BY <1>2 DEF GoodRows
  <2>2. RowSound(Taken(j[x]))
    BY <1>2, <2>1, RowOf, TakenFacts DEF RowSound, Due
  <2>3. GoodRows(k)
    BY <1>2, <2>1, <2>2, TakenFacts DEF GoodRows
  <2>4. k[x].attempts >= 1 /\ k[x].status = "running"
    BY <1>2, <2>1, RowOf, TakenFacts
  <2>5. QED
    BY <1>2, <2>3, <2>4 DEF GoodWorker
<1>3. QED
  BY <1>1, <1>2 DEF Woken

LEMMA RefreshedGood ==
    ASSUME NEW j, NEW w, GoodRows(j), GoodWorker(j, w), NEW rows
    PROVE  /\ GoodRows(Refreshed(j, rows)) /\ GoodWorker(Refreshed(j, rows), w)
           /\ \A r \in Row : /\ Refreshed(j, rows)[r].attempts = j[r].attempts
                             /\ r \in rows => Refreshed(j, rows)[r] = Fresh(j[r])
                             /\ r \notin rows => Refreshed(j, rows)[r] = j[r]
<1>1. \A r \in Row : j[r] \in Job /\ RowSound(j[r])
  BY DEF GoodRows
<1>2. \A r \in Row : Fresh(j[r]) \in Job /\ RowSound(Fresh(j[r]))
  BY <1>1, FreshFacts DEF RowSound
<1>3. GoodRows(Refreshed(j, rows))
  BY <1>1, <1>2 DEF GoodRows, Refreshed
<1>4. \A r \in Row : /\ Refreshed(j, rows)[r].attempts = j[r].attempts
                     /\ j[r].status # "new" => Refreshed(j, rows)[r].status # "new"
                     /\ r \in rows => Refreshed(j, rows)[r] = Fresh(j[r])
                     /\ r \notin rows => Refreshed(j, rows)[r] = j[r]
  BY <1>1, FreshFacts DEF Refreshed
<1>5. GoodWorker(Refreshed(j, rows), w)
  BY <1>4 DEF GoodWorker
<1>6. QED
  BY <1>3, <1>4, <1>5

MemoryTypes == queue \in Seq(Row) /\ Len(queue) <= QueueCap
FileTypes == disk.queue \in Seq(Row) /\ Len(disk.queue) <= QueueCap
CountTypes ==
    /\ now \in Nat \ {0}
    /\ retries \in [Row -> Nat] /\ starts \in [Row -> Nat] /\ successes \in [Row -> Nat]
    /\ restarts \in Nat

MemoryGood == MemoryTypes /\ GoodRows(job) /\ GoodWorker(job, worker)
FileGood == FileTypes /\ GoodRows(disk.job)

Good == MemoryGood /\ FileGood /\ CountTypes

LEMMA GoodIsType == Good => TypeOK
BY DEF Good, MemoryGood, FileGood, MemoryTypes, FileTypes, CountTypes, GoodRows, GoodWorker, TypeOK

(* The await ends with an outcome. *)
Answered(outcome) == [job EXCEPT ![worker] = Verdict(worker, outcome)]

LEMMA FinishFacts ==
    ASSUME Good, NEW outcome \in Outcomes, Finish(outcome)
    PROVE  /\ worker \in Row
           /\ GoodRows(Answered(outcome)) /\ GoodWorker(Answered(outcome), NoRow)
           /\ Woken(Answered(outcome), NoRow, job', worker')
           /\ \A r \in Row : Answered(outcome)[r].attempts = job[r].attempts
           /\ \A r \in Row : r # worker => Answered(outcome)[r] = job[r]
           /\ Answered(outcome)[worker] = Verdict(worker, outcome)
<1>1. /\ worker \in Row /\ job \in [Row -> Job] /\ job[worker] \in Job /\ job[worker].attempts >= 1
      /\ \A r \in Row : RowSound(job[r])
  BY DEF Good, MemoryGood, GoodRows, GoodWorker, Finish
<1>2. now \in Nat /\ queue \in Seq(Row) /\ job[worker].attempts \in Nat
  BY <1>1, RowOf DEF Good, CountTypes, MemoryGood, MemoryTypes
<1> DEFINE v == Verdict(worker, outcome)
<1>3. /\ v \in Job /\ v.attempts = job[worker].attempts
      /\ \/ outcome = "ok" /\ v.status = "done"
         \/ /\ outcome = "fatal" \/ (outcome = "retryable" /\ job[worker].attempts >= MaxAttempts)
            /\ v.status = "dead-letter" /\ v.error = outcome
         \/ /\ outcome = "retryable" /\ job[worker].attempts < MaxAttempts
            /\ v.status = "queued" /\ v.error = outcome /\ v.lastErrorAt = now
            /\ v.nextAttemptAt = now + Backoff(job[worker].attempts)
  BY <1>1, <1>2, VerdictFacts
<1>4. Backoff(job[worker].attempts) \in Nat /\ Backoff(job[worker].attempts) >= 1
  BY <1>1, <1>2, BackoffType
<1> HIDE DEF v
<1>5. RowSound(v)
  BY <1>1, <1>2, <1>3, <1>4 DEF RowSound
<1>6. Answered(outcome) = [job EXCEPT ![worker] = v]
  BY DEF Answered, v
<1>7. GoodRows(Answered(outcome)) /\ GoodWorker(Answered(outcome), NoRow)
  BY <1>1, <1>3, <1>5, <1>6 DEF GoodRows, GoodWorker
<1>8. Woken(Answered(outcome), NoRow, job', worker')
  BY <1>2, WakeFacts DEF Finish, Become, Answered
<1>9. QED
  BY <1>1, <1>3, <1>6, <1>7, <1>8 DEF v

(* A row is submitted. *)
Submitted(r) == [job EXCEPT ![r] = Blank("queued")]

LEMMA EnqueueFacts ==
    ASSUME Good, NEW r \in Row, Enqueue(r)
    PROVE  /\ r # worker /\ job[r].attempts = 0
           /\ GoodRows(Submitted(r)) /\ GoodWorker(Submitted(r), worker)
           /\ Woken(Submitted(r), worker, job', worker')
           /\ \A o \in Row : Submitted(r)[o].attempts = job[o].attempts
           /\ \A o \in Row : o # r => Submitted(r)[o] = job[o]
           /\ Submitted(r)[r].status = "queued" /\ Submitted(r)[r].error = "null"
           /\ queue' \in Seq(Row) /\ Len(queue') <= QueueCap
<1>1. /\ job \in [Row -> Job] /\ GoodWorker(job, worker)
      /\ \A o \in Row : RowSound(job[o])
      /\ queue \in Seq(Row) /\ QueueCap \in Nat
  BY LimitConstants DEF Good, MemoryGood, MemoryTypes, GoodRows
<1>2. job[r].status = "new"
  BY DEF Enqueue
<1>3. r # worker /\ job[r].attempts = 0
  BY <1>1, <1>2, LimitConstants DEF GoodWorker, RowSound
<1> DEFINE b == Blank("queued")
<1>4. b \in Job /\ b.status = "queued" /\ b.attempts = 0 /\ b.error = "null"
  BY BlankFacts DEF Status
<1>5. RowSound(b)
  BY <1>4 DEF RowSound
<1> HIDE DEF b
<1>6. Submitted(r) = [job EXCEPT ![r] = b]
  BY DEF Submitted, b
<1>7. /\ \A o \in Row : o # r => Submitted(r)[o] = job[o]
      /\ Submitted(r)[r] = b
      /\ GoodRows(Submitted(r))
  BY <1>1, <1>4, <1>5, <1>6 DEF GoodRows
<1>8. GoodWorker(Submitted(r), worker)
  BY <1>1, <1>3, <1>7 DEF GoodWorker
<1> DEFINE grown == <<r>> \o queue
           kept == IF Len(grown) > QueueCap THEN SubSeq(grown, 1, QueueCap) ELSE grown
<1>9. kept \in Seq(Row) /\ Len(kept) <= QueueCap
  BY <1>1
<1>10. /\ queue' = kept
       /\ Become(Wake(kept, [job EXCEPT ![r] = Blank("queued")], worker))
  BY DEF Enqueue
<1> HIDE DEF kept
<1>11. Woken(Submitted(r), worker, job', worker')
  BY <1>9, <1>10, WakeFacts DEF Become, Submitted
<1>12. QED
  BY <1>3, <1>4, <1>7, <1>8, <1>9, <1>10, <1>11

(* The operator retries the rows of one id, then those of others. *)
LEMMA FoundRows ==
    ASSUME queue \in Seq(Row), NEW id
    PROVE  Found(id) \subseteq Row
<1> DEFINE at == {i \in 1..Len(queue) : JobOf[queue[i]] = id}
<1>1. CASE at = {}
  BY <1>1 DEF Found
<1>2. CASE at # {}
  <2>1. queue[Min(at)] \in Row
    BY <1>2, FirstRow
  <2>2. Found(id) = {queue[Min(at)]}
    BY <1>2 DEF Found
  <2>3. QED
    BY <2>1, <2>2
<1>3. QED
  BY <1>1, <1>2

(* first and rest are the rows found by the first id and by the others; k  *)
(* is what the jobs are once the worker has been woken.                    *)
RetriedTo(first, rest, k) ==
    /\ first \subseteq Row /\ rest \subseteq Row /\ first # {}
    /\ Woken(Refreshed(job, first), worker, k, worker')
    /\ job' = Refreshed(k, rest)
    /\ retries' = [r \in Row |-> IF r \in first \union rest THEN retries[r] + 1 ELSE retries[r]]

LEMMA RetryFacts ==
    ASSUME Good, NEW id, NEW others, RetryAll(id, others)
    PROVE  \E first, rest, k : RetriedTo(first, rest, k)
<1> DEFINE first == Found(id)
           rest == UNION {Found(other) : other \in others}
           woken == Requeued(first)
<1>1. queue \in Seq(Row)
  BY DEF Good, MemoryGood, MemoryTypes
<1>2. first \subseteq Row /\ rest \subseteq Row
  BY <1>1, FoundRows
<1>3. Woken(Refreshed(job, first), worker, woken.job, woken.worker)
  BY <1>1, WakeFacts DEF Requeued
<1>4. /\ first # {}
      /\ retries' = [r \in Row |-> IF r \in first \union rest THEN retries[r] + 1 ELSE retries[r]]
      /\ Become([woken EXCEPT !.job = Refreshed(woken.job, rest)])
  BY DEF RetryAll
<1>5. \E j, w : woken = [job |-> j, worker |-> w]
  BY DEF Requeued, Wake
<1> HIDE DEF woken, first, rest
<1>6. /\ [woken EXCEPT !.job = Refreshed(woken.job, rest)].job = Refreshed(woken.job, rest)
      /\ [woken EXCEPT !.job = Refreshed(woken.job, rest)].worker = woken.worker
  BY <1>5
<1>7. job' = Refreshed(woken.job, rest) /\ worker' = woken.worker
  BY <1>4, <1>6 DEF Become
<1>8. RetriedTo(first, rest, woken.job)
  BY <1>2, <1>3, <1>4, <1>7 DEF RetriedTo
<1>9. QED
  BY <1>8

LEMMA RetryGood ==
    ASSUME Good, NEW first, NEW rest, NEW k, RetriedTo(first, rest, k)
    PROVE  /\ GoodRows(Refreshed(job, first)) /\ GoodWorker(Refreshed(job, first), worker)
           /\ GoodRows(k) /\ GoodWorker(k, worker')
           /\ GoodRows(job') /\ GoodWorker(job', worker')
<1>1. GoodRows(job) /\ GoodWorker(job, worker)
  BY DEF Good, MemoryGood
<1>2. GoodRows(Refreshed(job, first)) /\ GoodWorker(Refreshed(job, first), worker)
  BY <1>1, RefreshedGood
<1>3. Woken(Refreshed(job, first), worker, k, worker') /\ job' = Refreshed(k, rest)
  BY DEF RetriedTo
<1>4. GoodRows(k) /\ GoodWorker(k, worker')
  BY <1>2, <1>3, WokenGood
<1>5. QED
  BY <1>2, <1>3, <1>4, RefreshedGood

LEMMA DismissFacts ==
    ASSUME Good, NEW id, Dismiss(id)
    PROVE  /\ GoodRows(job') /\ GoodWorker(job', worker)
           /\ \E r \in Row : /\ job'[r].status = "dismissed" /\ job'[r].attempts = job[r].attempts
                             /\ \A o \in Row \ {r} : job'[o] = job[o]
<1>1. /\ job \in [Row -> Job] /\ GoodWorker(job, worker) /\ \A o \in Row : RowSound(job[o])
      /\ queue \in Seq(Row) /\ now \in Nat
  BY DEF Good, MemoryGood, MemoryTypes, GoodRows, CountTypes
<1>2. PICK r \in Row :
          job' = [job EXCEPT ![r] = [job[r] EXCEPT !.status = "dismissed", !.dismissedAt = now,
                                                   !.nextAttemptAt = 0]]
  BY <1>1, FoundRows DEF Dismiss
<1> DEFINE d == [job[r] EXCEPT !.status = "dismissed", !.dismissedAt = now, !.nextAttemptAt = 0]
<1>3. job[r] \in Job
  BY <1>1
<1>4. d \in [status : {"dismissed"}, attempts : {job[r].attempts}, error : {job[r].error},
             nextAttemptAt : {0}, lastErrorAt : {job[r].lastErrorAt}, dismissedAt : {now}]
  BY <1>3 DEF Job
<1>5. job' = [job EXCEPT ![r] = d]
  BY <1>2
<1> HIDE DEF d
<1>6. d \in Job /\ d.status = "dismissed" /\ d.attempts = job[r].attempts
  BY <1>1, <1>3, <1>4, RowOf DEF Job, Status
<1>7. RowSound(d)
  BY <1>6 DEF RowSound
<1>8. QED
  BY <1>1, <1>5, <1>6, <1>7 DEF GoodRows, GoodWorker

(* The process restarts from the file. *)
LEMMA RestartFacts ==
    ASSUME Good, Restart
    PROVE  \E restored : /\ GoodRows(restored)
                         /\ Woken(restored, NoRow, job', worker')
                         /\ queue' \in Seq(Row) /\ Len(queue') <= QueueCap
<1>1. /\ job \in [Row -> Job] /\ \A r \in Row : RowSound(job[r])
      /\ disk.job \in [Row -> Job] /\ \A r \in Row : RowSound(disk.job[r])
      /\ disk.queue \in Seq(Row) /\ Len(disk.queue) <= QueueCap /\ Len(disk.queue) \in Nat
      /\ QueueCap \in Nat
  BY LimitConstants DEF Good, MemoryGood, FileGood, FileTypes, GoodRows
<1> DEFINE onDisk == {disk.queue[i] : i \in 1..Len(disk.queue)}
           Restored(r) ==
               IF r \notin onDisk
               THEN IF job[r].status = "new" THEN job[r] ELSE Blank("gone")
               ELSE IF disk.job[r].status = "running"
               THEN [disk.job[r] EXCEPT !.status = "queued"] ELSE disk.job[r]
           restored == [r \in Row |-> Restored(r)]
           woken == Wake(disk.queue, restored, NoRow)
<1>2. ASSUME NEW r \in Row
      PROVE  Restored(r) \in Job /\ RowSound(Restored(r))
  <2>1. CASE r \notin onDisk
    <3>1. "gone" \in Status
      BY DEF Status
    <3>2. Blank("gone") \in Job /\ RowSound(Blank("gone"))
      BY <3>1, BlankFacts DEF RowSound
    <3>3. Restored(r) = job[r] \/ Restored(r) = Blank("gone")
      BY <2>1
    <3>4. QED
      BY <1>1, <3>2, <3>3
  <2>2. CASE r \in onDisk /\ disk.job[r].status = "running"
    <3> DEFINE row == disk.job[r]
               again == [row EXCEPT !.status = "queued"]
    <3>1. row \in Job /\ RowSound(row) /\ row.status = "running" /\ Restored(r) = again
      BY <1>1, <2>2
    <3> HIDE DEF row
    <3>2. again \in [status : {"queued"}, attempts : {row.attempts}, error : {row.error},
                     nextAttemptAt : {row.nextAttemptAt}, lastErrorAt : {row.lastErrorAt},
                     dismissedAt : {row.dismissedAt}]
      BY <3>1 DEF Job
    <3> HIDE DEF again
    <3>3. again \in Job /\ RowSound(again)
      BY <3>1, <3>2, RowOf DEF Job, Status, RowSound
    <3> HIDE DEF Restored
    <3>4. QED
      BY <3>1, <3>3
  <2>3. CASE r \in onDisk /\ disk.job[r].status # "running"
    BY <1>1, <2>3
  <2>4. QED
    BY <2>1, <2>2, <2>3
<1> HIDE DEF Restored
<1>3. GoodRows(restored)
  BY <1>2 DEF GoodRows
<1>4. Woken(restored, NoRow, woken.job, woken.worker)
  <2> HIDE DEF restored
  <2>1. QED
    BY <1>1, WakeFacts
<1>5. /\ job' = woken.job /\ worker' = woken.worker
      /\ queue' = IF AutoPurge THEN Purged(disk.queue, woken.job) ELSE disk.queue
  BY DEF Restart, Restored
<1> HIDE DEF woken, restored
<1>6. queue' \in Seq(Row) /\ Len(queue') <= QueueCap
  <2> DEFINE left == Purged(disk.queue, woken.job)
  <2>1. left \in Seq(Row) /\ Len(left) <= Len(disk.queue) /\ Len(left) \in Nat
    BY <1>1, PurgedType
  <2>2. queue' = left \/ queue' = disk.queue
    BY <1>5
  <2> HIDE DEF left
  <2>3. QED
    BY <1>1, <2>1, <2>2
<1>7. QED
  BY <1>3, <1>4, <1>5, <1>6

-----------------------------------------------------------------------------
(* Every step keeps Good. *)

(* What the kind of a step says of the variables it does not set itself. *)
LEMMA MemoryStep ==
    ASSUME Good, [Next]_vars
    PROVE  MemoryGood'
<1>1. /\ GoodRows(job) /\ GoodWorker(job, worker)
      /\ queue \in Seq(Row) /\ Len(queue) <= QueueCap /\ Len(queue) \in Nat /\ QueueCap \in Nat
  BY LimitConstants DEF Good, MemoryGood, MemoryTypes
<1> SUFFICES /\ GoodRows(job') /\ GoodWorker(job', worker')
             /\ queue' \in Seq(Row) /\ Len(queue') <= QueueCap
  BY DEF MemoryGood, MemoryTypes, GoodRows, GoodWorker
<1>2. ASSUME NEW outcome \in Outcomes, Finish(outcome)
      PROVE  /\ GoodRows(job') /\ GoodWorker(job', worker')
             /\ queue' \in Seq(Row) /\ Len(queue') <= QueueCap
  <2>1. queue' = queue
    BY <1>2 DEF Finish
  <2>2. QED
    BY <1>1, <1>2, <2>1, FinishFacts, WokenGood
<1>3. ASSUME NEW r \in Row, Enqueue(r)
      PROVE  /\ GoodRows(job') /\ GoodWorker(job', worker')
             /\ queue' \in Seq(Row) /\ Len(queue') <= QueueCap
  BY <1>3, EnqueueFacts, WokenGood
<1>4. ASSUME NEW id, NEW others, RetryAll(id, others)
      PROVE  /\ GoodRows(job') /\ GoodWorker(job', worker')
             /\ queue' \in Seq(Row) /\ Len(queue') <= QueueCap
  <2>1. queue' = queue
    BY <1>4 DEF RetryAll
  <2>2. QED
    BY <1>1, <1>4, <2>1, RetryFacts, RetryGood
<1>5. ASSUME NEW id, Dismiss(id)
      PROVE  /\ GoodRows(job') /\ GoodWorker(job', worker')
             /\ queue' \in Seq(Row) /\ Len(queue') <= QueueCap
  <2>1. queue' = queue /\ worker' = worker
    BY <1>5 DEF Dismiss
  <2>2. QED
    BY <1>1, <1>5, <2>1, DismissFacts
<1>6. CASE Purge
  <2> DEFINE left == Purged(queue, job)
  <2>1. left \in Seq(Row) /\ Len(left) <= Len(queue) /\ Len(left) \in Nat
    BY <1>1, PurgedType
  <2>2. queue' = left /\ job' = job /\ worker' = worker
    BY <1>6 DEF Purge
  <2> HIDE DEF left
  <2>3. queue' \in Seq(Row) /\ Len(queue') <= QueueCap
    BY <1>1, <2>1, <2>2
  <2>4. QED
    BY <1>1, <2>2, <2>3
<1>7. CASE Restart
  BY <1>7, RestartFacts, WokenGood DEF GoodWorker
<1>8. CASE Save \/ Tick \/ UNCHANGED vars
  <2>1. queue' = queue /\ job' = job /\ worker' = worker
    BY <1>8 DEF Save, Tick, vars
  <2>2. QED
    BY <1>1, <2>1
<1>9. QED
  BY <1>2, <1>3, <1>4, <1>5, <1>6, <1>7, <1>8 DEF Next, Retry, RetryRetryable

LEMMA FileStep ==
    ASSUME Good, [Next]_vars
    PROVE  FileGood'
<1>1. /\ disk.queue \in Seq(Row) /\ Len(disk.queue) <= QueueCap /\ GoodRows(disk.job)
      /\ queue \in Seq(Row) /\ Len(queue) <= QueueCap /\ GoodRows(job)
  BY DEF Good, MemoryGood, MemoryTypes, FileGood, FileTypes
<1>2. disk' = disk \/ disk' = [queue |-> queue, job |-> job]
  BY DEF Next, vars, Finish, Enqueue, Retry, RetryRetryable, RetryAll, Dismiss, Purge, Save,
         Restart, Tick
<1>3. disk'.queue \in Seq(Row) /\ Len(disk'.queue) <= QueueCap /\ GoodRows(disk'.job)
  <2>1. CASE disk' = disk
    BY <1>1, <2>1
  <2>2. CASE disk' = [queue |-> queue, job |-> job]
    <3>1. disk'.queue = queue /\ disk'.job = job
      BY <2>2
    <3>2. QED
      BY <1>1, <3>1
  <2>3. QED
    BY <1>2, <2>1, <2>2
<1>4. QED
  BY <1>3 DEF FileGood, FileTypes, GoodRows

(* How often a row has been started: by at most one in a step, and by a    *)
(* step of the running process only if its attempts grew.                  *)
Counted ==
    \A r \in Row : starts'[r] = IF worker' = r /\ job'[r].attempts > job[r].attempts
                                THEN starts[r] + 1 ELSE starts[r]

LEMMA CountStep ==
    ASSUME Good, [Next]_vars
    PROVE  /\ CountTypes'
           /\ restarts' = restarts => Counted
           /\ restarts' # restarts => Restart
<1>1. /\ now \in Nat \ {0} /\ restarts \in Nat
      /\ retries \in [Row -> Nat] /\ starts \in [Row -> Nat] /\ successes \in [Row -> Nat]
      /\ job \in [Row -> Job]
  BY DEF Good, CountTypes, MemoryGood, GoodRows
<1> SUFFICES /\ now' \in Nat \ {0} /\ restarts' \in Nat
             /\ retries' \in [Row -> Nat] /\ starts' \in [Row -> Nat] /\ successes' \in [Row -> Nat]
             /\ restarts' = restarts => Counted
             /\ restarts' # restarts => Restart
  BY DEF CountTypes
<1> DEFINE Typed == /\ now' \in Nat \ {0} /\ restarts' \in Nat
                    /\ retries' \in [Row -> Nat] /\ starts' \in [Row -> Nat]
                    /\ successes' \in [Row -> Nat]
<1>2. ASSUME NEW s, Become(s)
      PROVE  starts' \in [Row -> Nat] /\ Counted
  BY <1>1, <1>2 DEF Become, Counted
<1>3. ASSUME NEW outcome \in Outcomes, Finish(outcome)
      PROVE  Typed /\ Counted /\ restarts' = restarts
  <2>1. starts' \in [Row -> Nat] /\ Counted
    <3> DEFINE s == Wake(queue, [job EXCEPT ![worker] = Verdict(worker, outcome)], NoRow)
    <3>1. Become(s)
      BY <1>3 DEF Finish
    <3> HIDE DEF s
    <3>2. QED
      BY <1>2, <3>1
  <2>2. worker \in Row
    BY <1>3, FinishFacts
  <2>3. QED
    BY <1>1, <1>3, <2>1, <2>2 DEF Finish
<1>4. ASSUME NEW r \in Row, Enqueue(r)
      PROVE  Typed /\ Counted /\ restarts' = restarts
  <2>1. starts' \in [Row -> Nat] /\ Counted
    BY <1>2, <1>4 DEF Enqueue
  <2>2. QED
    BY <1>1, <1>4, <2>1 DEF Enqueue
<1>5. ASSUME NEW id, NEW others, RetryAll(id, others)
      PROVE  Typed /\ Counted /\ restarts' = restarts
  <2>1. starts' \in [Row -> Nat] /\ Counted
    BY <1>2, <1>5 DEF RetryAll
  <2>2. PICK first, rest, k : RetriedTo(first, rest, k)
    BY <1>5, RetryFacts
  <2>3. retries' \in [Row -> Nat]
    BY <1>1, <2>2 DEF RetriedTo
  <2>4. QED
    BY <1>1, <1>5, <2>1, <2>3 DEF RetryAll
<1>6. ASSUME NEW id, Dismiss(id)
      PROVE  Typed /\ Counted /\ restarts' = restarts
  <2>1. \A r \in Row : job'[r].attempts = job[r].attempts
    BY <1>6, DismissFacts
  <2>2. \A r \in Row : ~(job'[r].attempts > job[r].attempts)
    BY <1>1, <2>1, RowOf
  <2>3. UNCHANGED <<now, retries, starts, successes, restarts>>
    BY <1>6 DEF Dismiss, history
  <2>4. QED
    BY <1>1, <2>2, <2>3 DEF Counted
<1>7. CASE Purge \/ Save \/ Tick \/ UNCHANGED vars
  <2>1. job' = job /\ UNCHANGED <<retries, starts, successes, restarts>> /\ now' \in Nat \ {0}
    BY <1>1, <1>7 DEF Purge, Save, Tick, vars, history
  <2>2. \A r \in Row : ~(job'[r].attempts > job[r].attempts)
    BY <1>1, <2>1, RowOf
  <2>3. QED
    BY <1>1, <2>1, <2>2 DEF Counted
<1>8. CASE Restart
  BY <1>1, <1>8 DEF Restart
<1>9. QED
  BY <1>3, <1>4, <1>5, <1>6, <1>7, <1>8 DEF Next, Retry, RetryRetryable

LEMMA GoodStep ==
    ASSUME Good, [Next]_vars
    PROVE  Good'
BY MemoryStep, FileStep, CountStep DEF Good

LEMMA InitGood ==
    ASSUME Init
    PROVE  Good
<1>1. RowSound(Blank("new")) /\ Blank("new") \in Job
  BY BlankFacts DEF RowSound, Status
<1>2. GoodRows(job) /\ GoodWorker(job, worker)
  BY <1>1 DEF Init, GoodRows, GoodWorker
<1>3. queue = <<>> /\ QueueCap \in Nat
  BY LimitConstants DEF Init
<1>4. queue \in Seq(Row) /\ Len(queue) <= QueueCap
  BY <1>3
<1>5. QED
  BY <1>2, <1>4 DEF Init, Good, MemoryGood, MemoryTypes, FileGood, FileTypes, CountTypes

LEMMA AlwaysGood == Spec => []Good
BY InitGood, GoodStep, PTL DEF Spec

(* The queue holds rows, within its cap, and so does the metrics file; the *)
(* worker executes a row or none: as the steps and restarts of             *)
(* processAcpAsyncQueue, the routes and loadMetricsFromDisk keep them.     *)
THEOREM TypeCorrect == Spec => []TypeOK
BY AlwaysGood, GoodIsType, PTL

(* A dead letter has used its attempts or failed for good, whatever        *)
(* retries, dismissals, restarts and late verdicts came before: the        *)
(* dead-letter view of the queue may be believed.                          *)
THEOREM DeadLettersJustified == Spec => []DeadLetterJustified
<1>1. Good => DeadLetterJustified
  BY DEF Good, MemoryGood, GoodRows, RowSound, DeadLetterJustified
<1>2. QED
  BY <1>1, AlwaysGood, PTL

-----------------------------------------------------------------------------
(* How often a row is started.                                             *)

(* The starts a row with n attempts has ahead of it if the operator leaves *)
(* it alone: what its attempts leave, and one for a row that waits.        *)
Ahead(n, waiting) ==
    IF n < MaxAttempts THEN MaxAttempts - n ELSE IF waiting THEN 1 ELSE 0

Waiting(j, w, r) == j[r].status = "queued" /\ w # r

Left(j, w, r) == Ahead(j[r].attempts, Waiting(j, w, r))

Budget(n) == MaxAttempts * (n + 1)

Budgeted == \A r \in Row : starts[r] + Left(job, worker, r) <= Budget(restarts) + retries[r]

LEMMA AheadFacts ==
    ASSUME NEW n \in Nat
    PROVE  /\ \A p \in BOOLEAN : Ahead(n, p) \in Nat /\ Ahead(n, p) <= MaxAttempts
           /\ \A p \in BOOLEAN : Ahead(n, p) <= Ahead(n, TRUE) /\ Ahead(n, FALSE) <= Ahead(n, p)
           /\ \A p \in BOOLEAN : Ahead(n, TRUE) <= Ahead(n, p) + 1
           /\ n < MaxAttempts => Ahead(n, TRUE) = Ahead(n, FALSE)
           /\ Ahead(n + 1, FALSE) + 1 = Ahead(n, TRUE)
BY LimitConstants DEF Ahead

LEMMA BudgetFacts ==
    ASSUME NEW n \in Nat
    PROVE  Budget(n) \in Nat /\ Budget(n + 1) = Budget(n) + MaxAttempts
BY LimitConstants DEF Budget

LEMMA LeftFacts ==
    ASSUME NEW j \in [Row -> Job], NEW w, NEW r \in Row
    PROVE  j[r].attempts \in Nat /\ Waiting(j, w, r) \in BOOLEAN /\ Left(j, w, r) \in Nat
<1>1. j[r].attempts \in Nat
  BY RowOf
<1>2. Waiting(j, w, r) \in BOOLEAN
  BY DEF Waiting
<1>3. QED
  BY <1>1, <1>2, AheadFacts DEF Left

(* A wakeup pays for the start it makes. *)
LEMMA WokenPays ==
    ASSUME NEW j \in [Row -> Job], NEW w \in Row \union {NoRow}, NEW k, NEW x,
           Woken(j, w, k, x), NEW r \in Row
    PROVE  /\ Left(k, x, r) + (IF x = r /\ k[r].attempts > j[r].attempts THEN 1 ELSE 0)
                <= Left(j, w, r)
           /\ j[r].status = "queued" => k[r].status = "queued" \/ x = r
           /\ r # x => k[r] = j[r]
<1>1. j[r].attempts \in Nat /\ Left(j, w, r) \in Nat
  BY LeftFacts
<1>2. CASE k = j /\ x = w
  BY <1>1, <1>2
<1>3. CASE w = NoRow /\ x \in Row /\ Due(j, x) /\ k = [j EXCEPT ![x] = Taken(j[x])]
  <2>1. CASE r # x
    <3>1. k[r] = j[r] /\ w # r
      BY <1>3, <2>1, LimitConstants
    <3>2. Left(k, x, r) = Left(j, w, r)
      BY <2>1, <3>1 DEF Left, Waiting
    <3>3. QED
      BY <1>1, <2>1, <3>1, <3>2
  <2>2. CASE r = x
    <3>1. k[r].attempts = j[r].attempts + 1 /\ j[r].status = "queued" /\ w # r
      BY <1>3, <2>2, LimitConstants, TakenFacts DEF Due
    <3>2. /\ Left(k, x, r) = Ahead(j[r].attempts + 1, FALSE)
          /\ Left(j, w, r) = Ahead(j[r].attempts, TRUE)
      BY <2>2, <3>1 DEF Left, Waiting
    <3>3. /\ Ahead(j[r].attempts + 1, FALSE) + 1 = Ahead(j[r].attempts, TRUE)
          /\ Ahead(j[r].attempts + 1, FALSE) \in Nat
      <4>1. j[r].attempts + 1 \in Nat
        BY <1>1
      <4>2. QED
        BY <1>1, <4>1, AheadFacts
    <3>4. Left(k, x, r) + 1 = Left(j, w, r) /\ Left(k, x, r) \in Nat
      BY <3>2, <3>3
    <3>5. QED
      BY <1>1, <2>2, <3>1, <3>4
  <2>3. QED
    BY <2>1, <2>2
<1>4. QED
  BY <1>2, <1>3 DEF Woken

(* An operator's retry adds one start at most, and none to a row that      *)
(* waits or is executed.                                                   *)
LEMMA RefreshedCosts ==
    ASSUME NEW j \in [Row -> Job], NEW w \in Row \union {NoRow}, NEW rows, NEW r \in Row
    PROVE  /\ Left(Refreshed(j, rows), w, r) \in Nat
           /\ r \in rows => Left(Refreshed(j, rows), w, r) <= Left(j, w, r) + 1
           /\ (r \notin rows \/ j[r].status = "queued" \/ w = r) =>
                 Left(Refreshed(j, rows), w, r) = Left(j, w, r)
           /\ r \in rows => Refreshed(j, rows)[r].status = "queued"
           /\ Refreshed(j, rows)[r].attempts = j[r].attempts
<1>1. j[r].attempts \in Nat /\ Waiting(j, w, r) \in BOOLEAN
  BY LeftFacts
<1>2. CASE r \notin rows
  <2>1. Refreshed(j, rows)[r] = j[r]
    BY <1>2 DEF Refreshed
  <2>2. Left(Refreshed(j, rows), w, r) = Left(j, w, r)
    BY <2>1 DEF Left, Waiting
  <2>3. QED
    BY <1>2, <2>1, <2>2, LeftFacts
<1>3. CASE r \in rows
  <2>1. Refreshed(j, rows)[r].status = "queued" /\ Refreshed(j, rows)[r].attempts = j[r].attempts
    BY <1>3, FreshFacts DEF Refreshed
  <2>2. Left(Refreshed(j, rows), w, r) = Ahead(j[r].attempts, w # r)
    BY <2>1 DEF Left, Waiting
  <2>3. Left(j, w, r) = Ahead(j[r].attempts, Waiting(j, w, r))
    BY DEF Left
  <2>4. Left(Refreshed(j, rows), w, r) \in Nat
    BY <1>1, <2>2, AheadFacts
  <2>5. Left(Refreshed(j, rows), w, r) <= Left(j, w, r) + 1
    <3>1. /\ Ahead(j[r].attempts, w # r) <= Ahead(j[r].attempts, TRUE)
          /\ Ahead(j[r].attempts, TRUE) <= Ahead(j[r].attempts, Waiting(j, w, r)) + 1
          /\ Ahead(j[r].attempts, TRUE) \in Nat /\ Ahead(j[r].attempts, w # r) \in Nat
          /\ Ahead(j[r].attempts, Waiting(j, w, r)) \in Nat
      BY <1>1, AheadFacts
    <3> DEFINE a == Ahead(j[r].attempts, w # r)
               b == Ahead(j[r].attempts, TRUE)
               c == Ahead(j[r].attempts, Waiting(j, w, r))
    <3>2. a \in Nat /\ b \in Nat /\ c \in Nat /\ a <= b /\ b <= c + 1
      BY <3>1
    <3> HIDE DEF a, b, c
    <3>3. a <= c + 1
      BY <3>2
    <3>4. QED
      BY <2>2, <2>3, <3>3 DEF a, c
  <2>6. (j[r].status = "queued" \/ w = r) => Waiting(j, w, r) = (w # r)
    BY DEF Waiting
  <2>7. QED
    BY <1>3, <2>1, <2>2, <2>3, <2>4, <2>5, <2>6
<1>4. QED
  BY <1>2, <1>3

(* A verdict adds no start, and neither do a submission and a dismissal.   *)
LEMMA AnsweredCosts ==
    ASSUME Good, NEW outcome \in Outcomes, Finish(outcome), NEW r \in Row
    PROVE  Left(Answered(outcome), NoRow, r) <= Left(job, worker, r)
<1>1. /\ job \in [Row -> Job] /\ worker \in Row /\ now \in Nat /\ job[worker].attempts >= 1
      /\ r # NoRow /\ MaxAttempts \in Nat
  BY LimitConstants DEF Good, MemoryGood, GoodRows, GoodWorker, Finish, CountTypes
<1>2. job[r].attempts \in Nat /\ Left(job, worker, r) \in Nat
  BY <1>1, LeftFacts
<1>3. CASE r # worker
  <2>1. Answered(outcome)[r] = job[r]
    BY <1>3, FinishFacts
  <2>2. Left(Answered(outcome), NoRow, r) = Left(job, worker, r)
    BY <1>1, <1>3, <2>1 DEF Left, Waiting
  <2>3. QED
    BY <1>2, <2>2
<1>4. CASE r = worker
  <2> DEFINE v == Verdict(r, outcome)
             n == job[r].attempts
  <2>1. Answered(outcome)[r] = v
    BY <1>4, FinishFacts
  <2>2. v.attempts = n /\ (v.status = "queued" => n < MaxAttempts)
    BY <1>1, <1>4, VerdictFacts
  <2>3. Left(Answered(outcome), NoRow, r) = Ahead(n, v.status = "queued")
    <3> HIDE DEF v
    <3>1. QED
      BY <1>1, <2>1, <2>2 DEF Left, Waiting
  <2>4. Left(job, worker, r) = Ahead(n, FALSE)
    BY <1>4 DEF Left, Waiting
  <2>5. n < MaxAttempts => Ahead(n, TRUE) = Ahead(n, FALSE)
    BY <1>2, AheadFacts
  <2>6. Left(Answered(outcome), NoRow, r) = Left(job, worker, r)
    <3>1. CASE v.status = "queued"
      BY <2>2, <2>3, <2>4, <2>5, <3>1
    <3>2. CASE v.status # "queued"
      BY <2>3, <2>4, <3>2
    <3>3. QED
      BY <3>1, <3>2
  <2>7. QED
    BY <1>2, <2>6
<1>5. QED
  BY <1>3, <1>4

LEMMA SubmittedCosts ==
    ASSUME Good, NEW r \in Row, Enqueue(r), NEW o \in Row
    PROVE  Left(Submitted(r), worker, o) <= Left(job, worker, o)
<1>1. job \in [Row -> Job] /\ MaxAttempts \in Nat /\ MaxAttempts > 0
  BY LimitConstants DEF Good, MemoryGood, GoodRows
<1>2. Left(job, worker, o) \in Nat
  BY <1>1, LeftFacts
<1>3. CASE o # r
  <2>1. Left(Submitted(r), worker, o) = Left(job, worker, o)
    BY <1>3, EnqueueFacts DEF Left, Waiting
  <2>2. QED
    BY <1>2, <2>1
<1>4. CASE o = r
  <2>1. job[r].attempts = 0 /\ Submitted(r)[r].attempts = 0
    BY EnqueueFacts
  <2>2. \A p \in BOOLEAN : Ahead(0, p) = MaxAttempts
    BY <1>1 DEF Ahead
  <2>3. Waiting(job, worker, o) \in BOOLEAN /\ Waiting(Submitted(r), worker, o) \in BOOLEAN
    BY DEF Waiting
  <2>4. Left(Submitted(r), worker, o) = MaxAttempts /\ Left(job, worker, o) = MaxAttempts
    BY <1>4, <2>1, <2>2, <2>3 DEF Left
  <2>5. QED
    BY <1>1, <2>4
<1>5. QED
  BY <1>3, <1>4

LEMMA DismissCosts ==
    ASSUME Good, NEW id, Dismiss(id), NEW o \in Row
    PROVE  Left(job', worker, o) <= Left(job, worker, o) /\ job'[o].attempts = job[o].attempts
<1>1. job \in [Row -> Job] /\ job' \in [Row -> Job]
  BY DismissFacts DEF Good, MemoryGood, GoodRows
<1>2. Left(job, worker, o) \in Nat /\ Left(job', worker, o) \in Nat /\ job[o].attempts \in Nat
  BY <1>1, LeftFacts
<1>3. PICK r \in Row : /\ job'[r].status = "dismissed" /\ job'[r].attempts = job[r].attempts
                       /\ \A q \in Row \ {r} : job'[q] = job[q]
  BY DismissFacts
<1>4. CASE o # r
  <2>1. job'[o] = job[o]
    BY <1>3, <1>4
  <2>2. Left(job', worker, o) = Left(job, worker, o)
    BY <2>1 DEF Left, Waiting
  <2>3. QED
    BY <1>2, <2>1, <2>2
<1>5. CASE o = r
  <2>1. Left(job', worker, o) = Ahead(job[o].attempts, FALSE)
    BY <1>3, <1>5 DEF Left, Waiting
  <2>2. Left(job, worker, o) = Ahead(job[o].attempts, Waiting(job, worker, o))
    BY DEF Left
  <2>3. Waiting(job, worker, o) \in BOOLEAN
    BY DEF Waiting
  <2>4. Ahead(job[o].attempts, FALSE) <= Ahead(job[o].attempts, Waiting(job, worker, o))
    BY <1>2, <2>3, AheadFacts
  <2>5. QED
    BY <1>3, <1>5, <2>1, <2>2, <2>4
<1>6. QED
  BY <1>4, <1>5

LEMMA Payment ==
    \A s, t, new, old, more, x, y \in Nat :
        t = s + more /\ new + more + x <= old + y => t + new + x <= s + old + y
OBVIOUS

(* A step of the running process starts a row only out of what the row had *)
(* ahead, or out of the operator's retry.                                  *)
LEMMA LeftStep ==
    ASSUME Good, [Next]_vars, restarts' = restarts, NEW r \in Row
    PROVE  /\ starts'[r] + Left(job', worker', r) + retries[r]
                <= starts[r] + Left(job, worker, r) + retries'[r]
           /\ retries'[r] >= retries[r]
<1>1. /\ job \in [Row -> Job] /\ worker \in Row \union {NoRow} /\ queue \in Seq(Row)
      /\ job' \in [Row -> Job]
      /\ retries[r] \in Nat /\ starts[r] \in Nat /\ starts'[r] \in Nat /\ retries'[r] \in Nat
      /\ restarts \in Nat
  BY GoodStep DEF Good, MemoryGood, MemoryTypes, GoodRows, GoodWorker, CountTypes
<1> DEFINE old == Left(job, worker, r)
           new == Left(job', worker', r)
           more == IF worker' = r /\ job'[r].attempts > job[r].attempts THEN 1 ELSE 0
           Paid == new + more + retries[r] <= old + retries'[r] /\ retries'[r] >= retries[r]
<1>2. old \in Nat /\ new \in Nat /\ job[r].attempts \in Nat
  BY <1>1, LeftFacts
<1>3. starts'[r] = starts[r] + more
  BY <1>1, CountStep DEF Counted
<1>4. more \in Nat
  OBVIOUS
<1>5. ASSUME new + more + retries[r] <= old + retries'[r]
      PROVE  starts'[r] + new + retries[r] <= starts[r] + old + retries'[r]
  <2> HIDE DEF old, new, more
  <2>1. QED
    BY <1>1, <1>2, <1>3, <1>4, <1>5, Payment
<1>6. ASSUME NEW j \in [Row -> Job], NEW w \in Row \union {NoRow}, Woken(j, w, job', worker'),
             Left(j, w, r) <= old, j[r].attempts = job[r].attempts, retries' = retries
      PROVE  Paid
  <2>1. new + more <= Left(j, w, r)
    BY <1>6, WokenPays
  <2>2. Left(j, w, r) \in Nat
    BY LeftFacts
  <2> HIDE DEF new, more, old
  <2>3. QED
    BY <1>1, <1>2, <1>4, <1>6, <2>1, <2>2
<1>7. ASSUME NEW outcome \in Outcomes, Finish(outcome)
      PROVE  Paid
  <2>1. /\ Answered(outcome) \in [Row -> Job] /\ NoRow \in Row \union {NoRow}
        /\ Woken(Answered(outcome), NoRow, job', worker')
        /\ Answered(outcome)[r].attempts = job[r].attempts
    BY <1>7, FinishFacts DEF GoodRows
  <2>2. Left(Answered(outcome), NoRow, r) <= old /\ retries' = retries
    BY <1>7, AnsweredCosts DEF Finish
  <2> HIDE DEF new, more, old
  <2>3. QED
    BY <1>6, <2>1, <2>2
<1>8. ASSUME NEW s \in Row, Enqueue(s)
      PROVE  Paid
  <2>1. /\ Submitted(s) \in [Row -> Job]
        /\ Woken(Submitted(s), worker, job', worker')
        /\ Submitted(s)[r].attempts = job[r].attempts
    BY <1>8, EnqueueFacts DEF GoodRows
  <2>2. Left(Submitted(s), worker, r) <= old /\ retries' = retries
    BY <1>8, SubmittedCosts DEF Enqueue
  <2> HIDE DEF new, more, old
  <2>3. QED
    BY <1>1, <1>6, <2>1, <2>2
<1>9. ASSUME NEW id, NEW others, RetryAll(id, others)
      PROVE  Paid
  <2>1. PICK first, rest, k : RetriedTo(first, rest, k)
    BY <1>9, RetryFacts
  <2> DEFINE j == Refreshed(job, first)
  <2>2. j \in [Row -> Job] /\ k \in [Row -> Job] /\ worker' \in Row \union {NoRow}
    BY <2>1, RetryGood DEF GoodRows, GoodWorker
  <2>3. /\ Left(j, worker, r) \in Nat
        /\ r \in first => Left(j, worker, r) <= old + 1
        /\ r \notin first => Left(j, worker, r) = old
        /\ r \in first => j[r].status = "queued"
        /\ j[r].attempts = job[r].attempts
    <3>1. /\ Left(j, worker, r) \in Nat
          /\ r \in first => Left(j, worker, r) <= Left(job, worker, r) + 1
      BY <1>1, RefreshedCosts
    <3>2. (r \notin first \/ job[r].status = "queued" \/ worker = r) =>
                Left(j, worker, r) = Left(job, worker, r)
      BY <1>1, RefreshedCosts
    <3>3. r \in first => j[r].status = "queued"
      BY <1>1, RefreshedCosts
    <3>4. j[r].attempts = job[r].attempts
      BY <1>1, RefreshedCosts
    <3>5. QED
      BY <3>1, <3>2, <3>3, <3>4
  <2>4. Woken(j, worker, k, worker') /\ job' = Refreshed(k, rest)
    BY <2>1 DEF RetriedTo
  <2>5. /\ Left(k, worker', r) + (IF worker' = r /\ k[r].attempts > j[r].attempts THEN 1 ELSE 0)
             <= Left(j, worker, r)
        /\ j[r].status = "queued" => k[r].status = "queued" \/ worker' = r
    <3> HIDE DEF j
    <3>1. j \in [Row -> Job] /\ worker \in Row \union {NoRow} /\ Woken(j, worker, k, worker')
      BY <1>1, <2>2, <2>4
    <3>2. QED
      BY <3>1, WokenPays
  <2>6. /\ r \in rest => new <= Left(k, worker', r) + 1
        /\ (r \notin rest \/ k[r].status = "queued" \/ worker' = r) => new = Left(k, worker', r)
        /\ job'[r].attempts = k[r].attempts
    BY <2>2, <2>4, RefreshedCosts
  <2>7. Left(k, worker', r) \in Nat
    BY <2>2, LeftFacts
  <2>8. more = IF worker' = r /\ k[r].attempts > j[r].attempts THEN 1 ELSE 0
    BY <2>3, <2>6
  <2>9. retries'[r] = IF r \in first \union rest THEN retries[r] + 1 ELSE retries[r]
    BY <2>1 DEF RetriedTo
  <2> DEFINE a == Left(j, worker, r)
             b == Left(k, worker', r)
  <2>10. /\ a \in Nat /\ b \in Nat /\ b + more <= a
         /\ IF r \in first THEN a <= old + 1 ELSE a = old
         /\ (r \in first \/ r \notin rest) => new = b
         /\ r \in rest => new <= b + 1
    <3>1. b + more <= a
      BY <2>5, <2>8
    <3> HIDE DEF a, b, more, new, old
    <3>2. (r \in first \/ r \notin rest) => new = b
      BY <2>3, <2>5, <2>6 DEF b
    <3>3. QED
      BY <2>3, <2>6, <2>7, <3>1, <3>2 DEF a, b
  <2>11. /\ r \in first => a <= old + 1 /\ new = b /\ retries'[r] = retries[r] + 1
         /\ r \notin first /\ r \in rest => a = old /\ new <= b + 1 /\ retries'[r] = retries[r] + 1
         /\ r \notin first /\ r \notin rest => a = old /\ new = b /\ retries'[r] = retries[r]
    <3> HIDE DEF a, b, more, new, old
    <3>1. QED
      BY <2>9, <2>10
  <2> HIDE DEF a, b, more, new, old
  <2>12. new + more <= old + 1 /\ (r \notin first \union rest => new + more <= old)
    BY <1>2, <1>4, <2>10, <2>11
  <2>13. QED
    BY <1>1, <1>2, <1>4, <2>11, <2>12
<1>10. ASSUME NEW id, Dismiss(id)
       PROVE  Paid
  <2>1. worker' = worker /\ retries' = retries
    BY <1>10 DEF Dismiss, history
  <2>2. Left(job', worker, r) <= old /\ job'[r].attempts = job[r].attempts
    BY <1>10, DismissCosts
  <2>3. new <= old /\ more = 0
    BY <1>2, <2>1, <2>2
  <2> HIDE DEF new, more, old
  <2>4. QED
    BY <1>1, <1>2, <2>1, <2>3
<1>11. ASSUME Purge \/ Save \/ Tick \/ UNCHANGED vars
       PROVE  Paid
  <2>1. worker' = worker /\ retries' = retries
    BY <1>11 DEF Purge, Save, Tick, vars, history
  <2>2. job' = job
    BY <1>11 DEF Purge, Save, Tick, vars
  <2>3. new <= old /\ more = 0
    BY <1>2, <2>1, <2>2
  <2> HIDE DEF new, more, old
  <2>4. QED
    BY <1>1, <1>2, <2>1, <2>3
<1>12. ~Restart
  BY <1>1 DEF Restart
<1>13. Paid
  <2> HIDE DEF Paid
  <2>1. QED
    BY <1>7, <1>8, <1>9, <1>10, <1>11, <1>12 DEF Next, Retry, RetryRetryable
<1>14. QED
  BY <1>5, <1>13

(* A restart gives every row its attempts anew, and starts one at most.    *)
LEMMA RestartPays ==
    ASSUME Good, Restart, NEW r \in Row
    PROVE  starts'[r] + Left(job', worker', r) <= starts[r] + MaxAttempts
<1>1. /\ starts \in [Row -> Nat] /\ starts[r] \in Nat /\ MaxAttempts \in Nat /\ r # NoRow
      /\ GoodRows(job') /\ GoodWorker(job', worker')
  BY GoodStep, LimitConstants DEF Good, MemoryGood, CountTypes, GoodRows, GoodWorker, Next
<1>2. PICK j : GoodRows(j) /\ Woken(j, NoRow, job', worker')
  BY RestartFacts
<1>3. j \in [Row -> Job] /\ NoRow \in Row \union {NoRow} /\ job' \in [Row -> Job]
  BY <1>1, <1>2 DEF GoodRows
<1>4. j[r].attempts \in Nat /\ Left(j, NoRow, r) \in Nat /\ Left(j, NoRow, r) <= MaxAttempts
  BY <1>3, LeftFacts, AheadFacts DEF Left
<1>5. Left(job', worker', r) + (IF worker' = r /\ job'[r].attempts > j[r].attempts THEN 1 ELSE 0)
         <= Left(j, NoRow, r)
  BY <1>2, <1>3, WokenPays
<1>6. worker' = r => job'[r].attempts > j[r].attempts
  <2>1. worker' = r => job' = [j EXCEPT ![r] = Taken(j[r])]
    BY <1>1, <1>2 DEF Woken
  <2>2. worker' = r => job'[r].attempts = j[r].attempts + 1
    BY <1>3, <2>1, TakenFacts
  <2>3. QED
    BY <1>4, <2>2
<1>7. starts'[r] = IF worker' = r THEN starts[r] + 1 ELSE starts[r]
  BY DEF Restart
<1>8. Left(job', worker', r) \in Nat
  BY <1>3, LeftFacts
<1>9. CASE worker' = r
  <2>1. Left(job', worker', r) + 1 <= Left(j, NoRow, r)
    BY <1>5, <1>6, <1>9
  <2>2. QED
    BY <1>1, <1>4, <1>7, <1>8, <1>9, <2>1
<1>10. CASE worker' # r
  <2>1. Left(job', worker', r) + 0 <= Left(j, NoRow, r)
    BY <1>5, <1>10
  <2>2. QED
    BY <1>1, <1>4, <1>7, <1>8, <1>10, <2>1
<1>11. QED
  BY <1>9, <1>10

LEMMA BudgetedStep ==
    ASSUME Good, Budgeted, [Next]_vars
    PROVE  Budgeted'
<1> SUFFICES ASSUME NEW r \in Row
             PROVE  starts'[r] + Left(job', worker', r) <= Budget(restarts') + retries'[r]
  BY DEF Budgeted, Left, Waiting
<1>1. /\ job \in [Row -> Job] /\ job' \in [Row -> Job]
      /\ retries[r] \in Nat /\ starts[r] \in Nat /\ starts'[r] \in Nat /\ retries'[r] \in Nat
      /\ restarts \in Nat /\ MaxAttempts \in Nat
  BY GoodStep, LimitConstants DEF Good, MemoryGood, GoodRows, CountTypes
<1>2. Left(job, worker, r) \in Nat /\ Left(job', worker', r) \in Nat
  BY <1>1, LeftFacts
<1>3. Budget(restarts) \in Nat
  BY <1>1, BudgetFacts
<1>4. starts[r] + Left(job, worker, r) <= Budget(restarts) + retries[r]
  BY DEF Budgeted
<1>5. CASE restarts' = restarts
  <2>1. starts'[r] + Left(job', worker', r) + retries[r]
          <= starts[r] + Left(job, worker, r) + retries'[r]
    BY <1>5, LeftStep
  <2>2. starts'[r] + Left(job', worker', r) <= Budget(restarts) + retries'[r]
    BY <1>1, <1>2, <1>3, <1>4, <2>1
  <2>3. QED
    BY <1>5, <2>2
<1>6. CASE Restart
  <2>1. starts'[r] + Left(job', worker', r) <= starts[r] + MaxAttempts
    BY <1>6, RestartPays
  <2>2. restarts' = restarts + 1 /\ retries'[r] = retries[r]
    BY <1>6 DEF Restart
  <2>3. Budget(restarts + 1) = Budget(restarts) + MaxAttempts
    BY <1>1, BudgetFacts
  <2>4. starts'[r] + Left(job', worker', r) <= Budget(restarts + 1) + retries[r]
    BY <1>1, <1>2, <1>3, <1>4, <2>1, <2>3
  <2>5. QED
    BY <2>2, <2>4
<1>7. QED
  BY <1>5, <1>6, CountStep

LEMMA BudgetedInit ==
    ASSUME Init
    PROVE  Budgeted
<1> SUFFICES ASSUME NEW r \in Row
             PROVE  starts[r] + Left(job, worker, r) <= Budget(restarts) + retries[r]
  BY DEF Budgeted
<1>1. job[r] = Blank("new") /\ starts[r] = 0 /\ retries[r] = 0 /\ restarts = 0
  BY DEF Init
<1>2. job[r].attempts = 0 /\ job[r].status = "new"
  BY <1>1, BlankFacts DEF Status
<1>3. Left(job, worker, r) = Ahead(0, FALSE)
  BY <1>2 DEF Left, Waiting
<1>4. Budget(0) = MaxAttempts /\ Ahead(0, FALSE) = MaxAttempts /\ MaxAttempts \in Nat
  BY LimitConstants DEF Budget, Ahead
<1>5. Left(job, worker, r) = MaxAttempts /\ Budget(restarts) = MaxAttempts
  BY <1>1, <1>3, <1>4
<1>6. QED
  BY <1>1, <1>4, <1>5

(* However the operator's retries, dismissals and the restarts of the      *)
(* process interleave with the worker, a row is started at most            *)
(* maxAttempts times per life of the process, and once more for each retry *)
(* of that row.                                                            *)
THEOREM AttemptsAreBounded == Spec => []AttemptsBounded
<1>1. Good /\ Budgeted => AttemptsBounded
  <2> SUFFICES ASSUME Good, Budgeted, NEW r \in Row
               PROVE  starts[r] <= Budget(restarts) + retries[r]
    BY DEF AttemptsBounded, Budget
  <2>1. /\ job \in [Row -> Job] /\ retries[r] \in Nat /\ starts[r] \in Nat /\ restarts \in Nat
    BY DEF Good, MemoryGood, GoodRows, CountTypes
  <2>2. Left(job, worker, r) \in Nat /\ Budget(restarts) \in Nat
    BY <2>1, LeftFacts, BudgetFacts
  <2>3. starts[r] + Left(job, worker, r) <= Budget(restarts) + retries[r]
    BY DEF Budgeted
  <2>4. QED
    BY <2>1, <2>2, <2>3
<1>2. QED
  BY <1>1, AlwaysGood, BudgetedInit, BudgetedStep, PTL DEF Spec

-----------------------------------------------------------------------------
(* How often a row succeeds.                                               *)

(* A row that was not executed to its end may still succeed once.          *)
Owed(j, w, r) == IF j[r].status \in {"new", "queued"} \/ w = r THEN 1 ELSE 0

Earned == \A r \in Row : successes[r] + Owed(job, worker, r) <= 1 + retries[r] + restarts

LEMMA WokenOwes ==
    ASSUME NEW j \in [Row -> Job], NEW w, NEW k, NEW x, Woken(j, w, k, x), NEW r \in Row
    PROVE  Owed(k, x, r) <= Owed(j, w, r)
<1>1. CASE k = j /\ x = w
  BY <1>1 DEF Owed
<1>2. CASE x \in Row /\ Due(j, x) /\ k = [j EXCEPT ![x] = Taken(j[x])]
  <2>1. r = x => j[r].status = "queued"
    BY <1>2 DEF Due
  <2>2. r # x => k[r] = j[r]
    BY <1>2
  <2>3. QED
    BY <2>1, <2>2 DEF Owed
<1>3. QED
  BY <1>1, <1>2 DEF Woken

(* A success uses up what the row was owed.                                *)
LEMMA FinishEarns ==
    ASSUME Good, NEW outcome \in Outcomes, Finish(outcome), NEW r \in Row
    PROVE  successes'[r] + Owed(job', worker', r) <= successes[r] + Owed(job, worker, r)
<1>1. /\ worker \in Row /\ r # NoRow /\ now \in Nat
      /\ job[worker] \in Job /\ job[worker].attempts >= 1
      /\ successes \in [Row -> Nat] /\ successes[r] \in Nat
  BY LimitConstants DEF Good, MemoryGood, GoodRows, GoodWorker, Finish, CountTypes
<1> DEFINE j == Answered(outcome)
<1>2. /\ j \in [Row -> Job] /\ Woken(j, NoRow, job', worker')
      /\ r # worker => j[r] = job[r]
      /\ j[worker] = Verdict(worker, outcome)
  BY FinishFacts DEF GoodRows
<1>3. outcome = "ok" => j[worker].status = "done"
  BY <1>1, <1>2, VerdictFacts
<1> HIDE DEF j
<1>4. Owed(job', worker', r) <= Owed(j, NoRow, r)
  BY <1>2, WokenOwes
<1>5. successes'[r] = IF outcome = "ok" /\ r = worker THEN successes[r] + 1 ELSE successes[r]
  BY <1>1 DEF Finish
<1>6. CASE r = worker
  <2>1. Owed(job, worker, r) = 1
    BY <1>6 DEF Owed
  <2>2. Owed(j, NoRow, r) \in {0, 1} /\ (outcome = "ok" => Owed(j, NoRow, r) = 0)
    BY <1>1, <1>3, <1>6 DEF Owed
  <2>3. Owed(job', worker', r) \in {0, 1}
    BY DEF Owed
  <2>4. QED
    BY <1>1, <1>4, <1>5, <1>6, <2>1, <2>2, <2>3
<1>7. CASE r # worker
  <2>1. Owed(j, NoRow, r) = Owed(job, worker, r)
    BY <1>1, <1>2, <1>7 DEF Owed
  <2>2. Owed(job', worker', r) \in {0, 1} /\ Owed(job, worker, r) \in {0, 1}
    BY DEF Owed
  <2>3. successes'[r] = successes[r] /\ Owed(job', worker', r) <= Owed(job, worker, r)
    BY <1>4, <1>5, <1>7, <2>1
  <2>4. QED
    BY <1>1, <2>2, <2>3
<1>8. QED
  BY <1>6, <1>7

(* Nothing else lets a row succeed, and only a retry or a restart makes    *)
(* it owed again.                                                          *)
LEMMA OwedStep ==
    ASSUME Good, [Next]_vars, NEW r \in Row, \A outcome \in Outcomes : ~Finish(outcome)
    PROVE  /\ successes' = successes
           /\ \/ /\ retries'[r] = retries[r] /\ restarts' = restarts
                 /\ Owed(job', worker', r) <= Owed(job, worker, r)
              \/ retries'[r] = retries[r] + 1 /\ restarts' = restarts
              \/ retries'[r] = retries[r] /\ restarts' = restarts + 1
<1>1. /\ job \in [Row -> Job] /\ worker \in Row \union {NoRow}
  BY DEF Good, MemoryGood, GoodRows, GoodWorker
<1>2. successes' = successes
  BY DEF Next, vars, history, Enqueue, Retry, RetryRetryable, RetryAll, Dismiss, Purge, Save,
         Restart, Tick
<1> DEFINE Kept == /\ retries'[r] = retries[r] /\ restarts' = restarts
                   /\ Owed(job', worker', r) <= Owed(job, worker, r)
           Granted == \/ Kept
                      \/ retries'[r] = retries[r] + 1 /\ restarts' = restarts
                      \/ retries'[r] = retries[r] /\ restarts' = restarts + 1
<1>3. ASSUME NEW s \in Row, Enqueue(s)
      PROVE  Granted
  <2>1. /\ Woken(Submitted(s), worker, job', worker') /\ Submitted(s) \in [Row -> Job]
        /\ r # s => Submitted(s)[r] = job[r]
        /\ job[s].status = "new"
    BY <1>3, EnqueueFacts DEF GoodRows, Enqueue
  <2>2. Owed(job', worker', r) <= Owed(Submitted(s), worker, r)
    BY <2>1, WokenOwes
  <2>3. Owed(Submitted(s), worker, r) <= Owed(job, worker, r)
    BY <2>1 DEF Owed
  <2>4. /\ Owed(job', worker', r) \in {0, 1} /\ Owed(job, worker, r) \in {0, 1}
        /\ Owed(Submitted(s), worker, r) \in {0, 1}
    BY DEF Owed
  <2>5. Owed(job', worker', r) <= Owed(job, worker, r)
    BY <2>2, <2>3, <2>4
  <2>6. QED
    BY <1>3, <2>5 DEF Enqueue
<1>4. ASSUME NEW id, NEW others, RetryAll(id, others)
      PROVE  Granted
  <2>1. PICK first, rest, k : RetriedTo(first, rest, k)
    BY <1>4, RetryFacts
  <2>2. restarts' = restarts
    BY <1>4 DEF RetryAll
  <2>3. retries'[r] = IF r \in first \union rest THEN retries[r] + 1 ELSE retries[r]
    BY <2>1 DEF RetriedTo
  <2>4. CASE r \in first \union rest
    BY <2>2, <2>3, <2>4
  <2>5. CASE r \notin first \union rest
    <3> DEFINE j == Refreshed(job, first)
    <3>0. j \in [Row -> Job] /\ Woken(j, worker, k, worker') /\ job' = Refreshed(k, rest)
      BY <2>1, RetryGood DEF RetriedTo, GoodRows
    <3>1. j[r] = job[r] /\ job'[r] = k[r]
      BY <2>5, <3>0 DEF Refreshed
    <3> HIDE DEF j
    <3>2. Owed(k, worker', r) <= Owed(j, worker, r)
      BY <3>0, WokenOwes
    <3>3. Owed(k, worker', r) = Owed(job', worker', r) /\ Owed(j, worker, r) = Owed(job, worker, r)
      BY <3>1 DEF Owed
    <3>4. QED
      BY <2>2, <2>3, <2>5, <3>2, <3>3
  <2>6. QED
    BY <2>4, <2>5
<1>5. ASSUME NEW id, Dismiss(id)
      PROVE  Granted
  <2>1. \E s \in Row : job'[s].status = "dismissed" /\ \A o \in Row \ {s} : job'[o] = job[o]
    BY <1>5, DismissFacts
  <2>2. UNCHANGED <<worker, retries, restarts>>
    BY <1>5 DEF Dismiss, history
  <2>3. Owed(job', worker', r) <= Owed(job, worker, r)
    BY <2>1, <2>2 DEF Owed
  <2>4. QED
    BY <2>2, <2>3
<1>6. ASSUME Purge \/ Save \/ Tick \/ UNCHANGED vars
      PROVE  Granted
  <2>1. UNCHANGED <<job, worker, retries, restarts>>
    BY <1>6 DEF Purge, Save, Tick, vars, history
  <2>2. Owed(job', worker', r) <= Owed(job, worker, r)
    BY <2>1 DEF Owed
  <2>3. QED
    BY <2>1, <2>2
<1>7. ASSUME Restart
      PROVE  Granted
  BY <1>7 DEF Restart
<1>8. Granted
  <2> HIDE DEF Granted
  <2>1. QED
    BY <1>3, <1>4, <1>5, <1>6, <1>7 DEF Next, Retry, RetryRetryable
<1>9. QED
  BY <1>2, <1>8

LEMMA EarnedStep ==
    ASSUME Good, Earned, [Next]_vars
    PROVE  Earned'
<1> SUFFICES ASSUME NEW r \in Row
             PROVE  successes'[r] + Owed(job', worker', r) <= 1 + retries'[r] + restarts'
  BY DEF Earned, Owed
<1>1. /\ retries[r] \in Nat /\ successes[r] \in Nat /\ successes'[r] \in Nat /\ retries'[r] \in Nat
      /\ restarts \in Nat /\ restarts' \in Nat
  BY GoodStep DEF Good, CountTypes
<1>2. Owed(job, worker, r) \in {0, 1} /\ Owed(job', worker', r) \in {0, 1}
  BY DEF Owed
<1>3. successes[r] + Owed(job, worker, r) <= 1 + retries[r] + restarts
  BY DEF Earned
<1>4. CASE \E outcome \in Outcomes : Finish(outcome)
  <2>1. successes'[r] + Owed(job', worker', r) <= successes[r] + Owed(job, worker, r)
    BY <1>4, FinishEarns
  <2>2. retries' = retries /\ restarts' = restarts
    BY <1>4 DEF Finish
  <2>3. successes'[r] + Owed(job', worker', r) <= 1 + retries[r] + restarts
    BY <1>1, <1>2, <1>3, <2>1
  <2>4. QED
    BY <2>2, <2>3
<1>5. CASE \A outcome \in Outcomes : ~Finish(outcome)
  <2>1. /\ successes' = successes
        /\ \/ /\ retries'[r] = retries[r] /\ restarts' = restarts
              /\ Owed(job', worker', r) <= Owed(job, worker, r)
           \/ retries'[r] = retries[r] + 1 /\ restarts' = restarts
           \/ retries'[r] = retries[r] /\ restarts' = restarts + 1
    BY <1>5, OwedStep
  <2>2. QED
    BY <1>1, <1>2, <1>3, <2>1
<1>6. QED
  BY <1>4, <1>5

(* A job that ended well is executed to a good end again only if the       *)
(* operator retried that very row, or the process restarted: a verdict     *)
(* that comes after a dismissal or a retry does not make it run again.     *)
THEOREM SuccessesAreAccounted == Spec => []SuccessesAccounted
<1>1. Init => Earned
  <2> SUFFICES ASSUME Init, NEW r \in Row
               PROVE  successes[r] + Owed(job, worker, r) <= 1 + retries[r] + restarts
    BY DEF Earned
  <2>1. successes[r] = 0 /\ retries[r] = 0 /\ restarts = 0
    BY DEF Init
  <2>2. Owed(job, worker, r) \in {0, 1}
    BY DEF Owed
  <2>3. QED
    BY <2>1, <2>2
<1>2. Good /\ Earned => SuccessesAccounted
  <2> SUFFICES ASSUME Good, Earned, NEW r \in Row
               PROVE  successes[r] <= 1 + retries[r] + restarts
    BY DEF SuccessesAccounted
  <2>1. successes[r] \in Nat /\ retries[r] \in Nat /\ restarts \in Nat
    BY DEF Good, CountTypes
  <2>2. Owed(job, worker, r) \in {0, 1}
    BY DEF Owed
  <2>3. successes[r] + Owed(job, worker, r) <= 1 + retries[r] + restarts
    BY DEF Earned
  <2>4. QED
    BY <2>1, <2>2, <2>3
<1>3. QED
  BY <1>1, <1>2, AlwaysGood, EarnedStep, PTL DEF Spec

-----------------------------------------------------------------------------
(* A backoff is waited for.                                                *)

(* The row waits for the backoff of its attempts, as the failure set it.   *)
ExactRow(row) ==
    row.status = "queued" /\ row.error # "null" =>
        row.nextAttemptAt >= row.lastErrorAt + Backoff(row.attempts)

ExactRows(j) == \A r \in Row : ExactRow(j[r])

Exact == restarts = 0 => ExactRows(job)

LEMMA WokenExact ==
    ASSUME NEW j \in [Row -> Job], ExactRows(j), NEW w, NEW k, NEW x, Woken(j, w, k, x)
    PROVE  ExactRows(k)
<1>1. CASE k = j
  BY <1>1
<1>2. CASE x \in Row /\ k = [j EXCEPT ![x] = Taken(j[x])]
  <2>1. ExactRow(k[x])
    BY <1>2, TakenFacts DEF ExactRow
  <2>2. \A r \in Row : r # x => k[r] = j[r]
    BY <1>2
  <2>3. QED
    BY <2>1, <2>2 DEF ExactRows
<1>3. QED
  BY <1>1, <1>2 DEF Woken

LEMMA RefreshedExact ==
    ASSUME NEW j \in [Row -> Job], ExactRows(j), NEW rows
    PROVE  ExactRows(Refreshed(j, rows))
<1> SUFFICES ASSUME NEW r \in Row
             PROVE  ExactRow(Refreshed(j, rows)[r])
  BY DEF ExactRows
<1>1. ExactRow(Fresh(j[r])) /\ ExactRow(j[r])
  BY FreshFacts DEF ExactRow, ExactRows
<1>2. Refreshed(j, rows)[r] = Fresh(j[r]) \/ Refreshed(j, rows)[r] = j[r]
  BY DEF Refreshed
<1>3. QED
  BY <1>1, <1>2

LEMMA AnsweredExact ==
    ASSUME Good, ExactRows(job), NEW outcome \in Outcomes, Finish(outcome)
    PROVE  ExactRows(Answered(outcome))
<1> SUFFICES ASSUME NEW r \in Row
             PROVE  ExactRow(Answered(outcome)[r])
  BY DEF ExactRows
<1>1. CASE r # worker
  BY <1>1, FinishFacts DEF ExactRows
<1>2. CASE r = worker
  <2> DEFINE v == Verdict(r, outcome)
  <2>1. now \in Nat /\ job[r] \in Job /\ job[r].attempts >= 1 /\ r # NoRow
    BY <1>2, LimitConstants DEF Good, MemoryGood, GoodRows, GoodWorker, CountTypes
  <2>2. Answered(outcome)[r] = v
    BY <1>2, FinishFacts
  <2>3. /\ v.attempts = job[r].attempts
        /\ v.status = "queued" => /\ v.lastErrorAt = now
                                  /\ v.nextAttemptAt = now + Backoff(job[r].attempts)
    BY <2>1, VerdictFacts
  <2>4. now + Backoff(job[r].attempts) \in Nat
    BY <2>1, RowOf, BackoffType
  <2> HIDE DEF v
  <2>5. QED
    BY <2>2, <2>3, <2>4 DEF ExactRow
<1>3. QED
  BY <1>1, <1>2

LEMMA SubmittedExact ==
    ASSUME Good, ExactRows(job), NEW r \in Row, Enqueue(r)
    PROVE  ExactRows(Submitted(r))
BY EnqueueFacts DEF ExactRows, ExactRow

LEMMA ExactStep ==
    ASSUME Good, Exact, [Next]_vars
    PROVE  Exact'
<1>1. job \in [Row -> Job] /\ restarts \in Nat
  BY DEF Good, MemoryGood, GoodRows, CountTypes
<1>2. CASE restarts' # restarts
  <2>1. restarts' # 0
    BY <1>1, <1>2, CountStep DEF Restart
  <2>2. QED
    BY <2>1 DEF Exact
<1>3. CASE restarts' = restarts
  <2> SUFFICES ASSUME restarts = 0
               PROVE  ExactRows(job')
    BY <1>3 DEF Exact, ExactRows, ExactRow
  <2>1. ExactRows(job)
    BY DEF Exact
  <2>2. ASSUME NEW outcome \in Outcomes, Finish(outcome)
        PROVE  ExactRows(job')
    BY <2>1, <2>2, FinishFacts, AnsweredExact, WokenExact DEF GoodRows
  <2>3. ASSUME NEW r \in Row, Enqueue(r)
        PROVE  ExactRows(job')
    BY <2>1, <2>3, EnqueueFacts, SubmittedExact, WokenExact DEF GoodRows
  <2>4. ASSUME NEW id, NEW others, RetryAll(id, others)
        PROVE  ExactRows(job')
    <3>1. PICK first, rest, k : RetriedTo(first, rest, k)
      BY <2>4, RetryFacts
    <3>2. Refreshed(job, first) \in [Row -> Job] /\ k \in [Row -> Job]
      BY <3>1, RetryGood DEF GoodRows
    <3>3. ExactRows(Refreshed(job, first))
      BY <1>1, <2>1, RefreshedExact
    <3>4. ExactRows(k)
      BY <3>1, <3>2, <3>3, WokenExact DEF RetriedTo
    <3>5. QED
      BY <3>1, <3>2, <3>4, RefreshedExact DEF RetriedTo
  <2>5. ASSUME NEW id, Dismiss(id)
        PROVE  ExactRows(job')
    BY <2>1, <2>5, DismissFacts DEF ExactRows, ExactRow
  <2>6. ASSUME Purge \/ Save \/ Tick \/ UNCHANGED vars
        PROVE  ExactRows(job')
    BY <2>1, <2>6 DEF Purge, Save, Tick, vars
  <2>7. ~Restart
    BY <1>1, <1>3 DEF Restart
  <2>8. QED
    BY <2>2, <2>3, <2>4, <2>5, <2>6, <2>7 DEF Next, Retry, RetryRetryable
<1>4. QED
  BY <1>2, <1>3

(* The worker takes a row whose error was kept when its backoff is over;   *)
(* exact says whether the row waits for the backoff of its attempts.       *)
LEMMA Waited ==
    ASSUME now \in Nat, NEW j, GoodRows(j), NEW w, NEW k, NEW r \in Row, Woken(j, w, k, r),
           k[r].attempts > j[r].attempts, k[r].error # "null",
           NEW exact \in BOOLEAN, exact => ExactRows(j)
    PROVE  now >= k[r].lastErrorAt + Backoff(IF exact THEN k[r].attempts - 1 ELSE 1)
<1>1. j \in [Row -> Job] /\ j[r] \in Job /\ RowSound(j[r]) /\ (exact => ExactRow(j[r]))
  BY DEF GoodRows, ExactRows
<1>2. /\ j[r].attempts \in Nat /\ j[r].nextAttemptAt \in Nat /\ j[r].lastErrorAt \in Nat
  BY <1>1, RowOf
<1>3. k # j
  BY <1>2
<1>4. Due(j, r) /\ k[r] = Taken(j[r])
  BY <1>1, <1>3 DEF Woken
<1>5. /\ k[r].error = j[r].error /\ k[r].lastErrorAt = j[r].lastErrorAt
      /\ k[r].attempts - 1 = j[r].attempts
  BY <1>1, <1>2, <1>4, TakenFacts
<1>6. /\ j[r].nextAttemptAt <= now /\ j[r].attempts >= 1
      /\ j[r].nextAttemptAt >= j[r].lastErrorAt + 1
      /\ exact => j[r].nextAttemptAt >= j[r].lastErrorAt + Backoff(j[r].attempts)
  BY <1>1, <1>4, <1>5 DEF Due, RowSound, ExactRow
<1>7. CASE exact
  <2>1. Backoff(j[r].attempts) \in Nat
    BY <1>2, <1>6, BackoffType
  <2>2. now >= j[r].lastErrorAt + Backoff(j[r].attempts)
    BY <1>2, <1>6, <1>7, <2>1
  <2>3. QED
    BY <1>5, <1>7, <2>2
<1>8. CASE ~exact
  <2>1. now >= j[r].lastErrorAt + 1
    BY <1>2, <1>6
  <2>2. QED
    BY <1>5, <1>8, <2>1, BackoffOfOne
<1>9. QED
  BY <1>7, <1>8

LEMMA WaitedStep ==
    ASSUME Good, Exact, [Next]_vars, NEW r \in Row,
           worker' = r, starts'[r] > starts[r], job'[r].error # "null"
    PROVE  now' >= job'[r].lastErrorAt
                     + Backoff(IF restarts' = 0 THEN job'[r].attempts - 1 ELSE 1)
<1>1. /\ job \in [Row -> Job] /\ restarts \in Nat /\ now \in Nat /\ starts[r] \in Nat
  BY DEF Good, MemoryGood, GoodRows, CountTypes
<1>2. restarts' = restarts => job'[r].attempts > job[r].attempts
  BY <1>1, CountStep DEF Counted
<1> DEFINE done == now' >= job'[r].lastErrorAt
                             + Backoff(IF restarts' = 0 THEN job'[r].attempts - 1 ELSE 1)
           first == restarts' = 0
<1>3. ASSUME NEW j, GoodRows(j), NEW w, Woken(j, w, job', r),
             job'[r].attempts > j[r].attempts, first => ExactRows(j), now' = now
      PROVE  done
  BY <1>1, <1>3, Waited
<1>4. ASSUME NEW outcome \in Outcomes, Finish(outcome)
      PROVE  done
  <2>1. restarts' = restarts /\ now' = now
    BY <1>4 DEF Finish
  <2>2. first => ExactRows(Answered(outcome))
    BY <1>4, <2>1, AnsweredExact DEF Exact
  <2>3. /\ GoodRows(Answered(outcome)) /\ Woken(Answered(outcome), NoRow, job', r)
        /\ Answered(outcome)[r].attempts = job[r].attempts
    BY <1>4, FinishFacts
  <2>4. QED
    BY <1>2, <1>3, <2>1, <2>2, <2>3
<1>5. ASSUME NEW s \in Row, Enqueue(s)
      PROVE  done
  <2>1. restarts' = restarts /\ now' = now
    BY <1>5 DEF Enqueue
  <2>2. first => ExactRows(Submitted(s))
    BY <1>5, <2>1, SubmittedExact DEF Exact
  <2>3. /\ GoodRows(Submitted(s)) /\ Woken(Submitted(s), worker, job', r)
        /\ Submitted(s)[r].attempts = job[r].attempts
    BY <1>5, EnqueueFacts
  <2>4. QED
    BY <1>2, <1>3, <2>1, <2>2, <2>3
<1>6. ASSUME NEW id, NEW others, RetryAll(id, others)
      PROVE  done
  <2>1. restarts' = restarts /\ now' = now
    BY <1>6 DEF RetryAll
  <2>2. PICK fst, rest, k : RetriedTo(fst, rest, k)
    BY <1>6, RetryFacts
  <2> DEFINE j == Refreshed(job, fst)
  <2>3. /\ GoodRows(j) /\ GoodRows(k) /\ Woken(j, worker, k, r) /\ job' = Refreshed(k, rest)
    BY <2>2, RetryGood DEF RetriedTo
  <2>4. j[r].attempts = job[r].attempts
    BY <1>1, FreshFacts DEF Refreshed
  <2>5. first => ExactRows(j)
    BY <1>1, <2>1, RefreshedExact DEF Exact
  <2>6. job'[r] = k[r]
    <3>1. k[r] \in Job
      BY <2>3 DEF GoodRows
    <3>2. job'[r] = k[r] \/ job'[r] = Fresh(k[r])
      BY <2>3 DEF Refreshed
    <3>3. QED
      BY <3>1, <3>2, FreshFacts
  <2> HIDE DEF j
  <2>7. now >= k[r].lastErrorAt + Backoff(IF first THEN k[r].attempts - 1 ELSE 1)
    <3>1. k[r].attempts > j[r].attempts /\ k[r].error # "null"
      BY <1>2, <2>1, <2>4, <2>6
    <3>2. QED
      BY <1>1, <2>3, <2>5, <3>1, Waited
  <2>8. QED
    BY <2>1, <2>6, <2>7
<1>7. ASSUME Restart
      PROVE  done
  <2>1. PICK j : GoodRows(j) /\ Woken(j, NoRow, job', r)
    BY <1>7, RestartFacts
  <2>2. restarts' # 0 /\ now' = now
    <3>1. restarts' = restarts + 1 /\ now' = now
      BY <1>7 DEF Restart
    <3>2. QED
      BY <1>1, <3>1
  <2>3. job'[r].attempts > j[r].attempts
    <3>1. job' = [j EXCEPT ![r] = Taken(j[r])] /\ j[r] \in Job /\ j \in [Row -> Job]
      BY <2>1, LimitConstants DEF Woken, GoodRows
    <3>2. job'[r].attempts = j[r].attempts + 1 /\ j[r].attempts \in Nat
      BY <3>1, TakenFacts, RowOf
    <3>3. QED
      BY <3>2
  <2>4. QED
    BY <1>3, <2>1, <2>2, <2>3
<1>8. ASSUME (\E id \in JobId : Dismiss(id)) \/ Purge \/ Save \/ Tick \/ UNCHANGED vars
      PROVE  FALSE
  <2>1. starts' = starts
    BY <1>8 DEF Dismiss, Purge, Save, Tick, vars, history
  <2>2. QED
    BY <1>1, <2>1
<1>9. QED
  BY <1>4, <1>5, <1>6, <1>7, <1>8 DEF Next, Retry, RetryRetryable

(* A row that failed is started again only when the backoff of its         *)
(* attempts is over, unless the operator's retry cleared the error.        *)
THEOREM BackoffsRespected == Spec => BackoffRespected
<1>1. Init => Exact
  <2> SUFFICES ASSUME Init, NEW r \in Row
               PROVE  ExactRow(job[r])
    BY DEF Exact, ExactRows
  <2>1. job[r] = Blank("new")
    BY DEF Init
  <2>2. job[r].error = "null"
    BY <2>1, BlankFacts DEF Status
  <2>3. QED
    BY <2>2 DEF ExactRow
<1> DEFINE Step == \A r \in Row : (worker' = r /\ starts'[r] > starts[r] /\ job'[r].error # "null")
                     => now' >= job'[r].lastErrorAt
                                  + Backoff(IF restarts' = 0 THEN job'[r].attempts - 1 ELSE 1)
<1>2. Good /\ Exact /\ [Next]_vars => Step
  BY WaitedStep
<1>3. BackoffRespected <=> [][Step]_vars
  BY DEF BackoffRespected
<1> HIDE DEF Step
<1>4. QED
  BY <1>1, <1>2, <1>3, AlwaysGood, ExactStep, PTL DEF Spec

-----------------------------------------------------------------------------
(* A dismissed row rests.                                                  *)

LEMMA WokenRests ==
    ASSUME NEW j \in [Row -> Job], NEW w, NEW k, NEW x, Woken(j, w, k, x), NEW r \in Row,
           j[r].status = "dismissed", w # r
    PROVE  k[r].status = "dismissed" /\ x # r
<1>1. CASE k = j /\ x = w
  BY <1>1
<1>2. CASE x \in Row /\ Due(j, x) /\ k = [j EXCEPT ![x] = Taken(j[x])]
  <2>1. x # r
    BY <1>2 DEF Due
  <2>2. k[r] = j[r]
    BY <1>2, <2>1
  <2>3. QED
    BY <2>1, <2>2
<1>3. QED
  BY <1>1, <1>2 DEF Woken

LEMMA RestsStep ==
    ASSUME Good, [Next]_vars, NEW r \in Row, job[r].status = "dismissed", worker # r,
           retries' = retries, restarts' = restarts
    PROVE  job'[r].status = "dismissed" /\ worker' # r
<1>1. retries \in [Row -> Nat] /\ restarts \in Nat /\ r # NoRow
  BY LimitConstants DEF Good, CountTypes
<1>2. ASSUME NEW outcome \in Outcomes, Finish(outcome)
      PROVE  job'[r].status = "dismissed" /\ worker' # r
  <2>1. /\ Answered(outcome) \in [Row -> Job] /\ Answered(outcome)[r] = job[r]
        /\ Woken(Answered(outcome), NoRow, job', worker')
    BY <1>2, FinishFacts DEF GoodRows
  <2>2. Answered(outcome)[r].status = "dismissed" /\ NoRow # r
    BY <1>1, <2>1
  <2>3. QED
    BY <2>1, <2>2, WokenRests
<1>3. ASSUME NEW s \in Row, Enqueue(s)
      PROVE  job'[r].status = "dismissed" /\ worker' # r
  <2>1. s # r
    BY <1>3 DEF Enqueue
  <2>2. /\ Submitted(s) \in [Row -> Job] /\ Submitted(s)[r] = job[r]
        /\ Woken(Submitted(s), worker, job', worker')
    BY <1>3, <2>1, EnqueueFacts DEF GoodRows
  <2>3. Submitted(s)[r].status = "dismissed"
    BY <2>2
  <2>4. QED
    BY <2>2, <2>3, WokenRests
<1>4. ASSUME NEW id, NEW others, RetryAll(id, others)
      PROVE  FALSE
  <2>1. PICK first, rest, k : RetriedTo(first, rest, k)
    BY <1>4, RetryFacts
  <2>2. PICK o \in Row : o \in first
    BY <2>1 DEF RetriedTo
  <2>3. retries'[o] = retries[o] + 1 /\ retries[o] \in Nat
    BY <1>1, <2>1, <2>2 DEF RetriedTo
  <2>4. retries'[o] = retries[o]
    OBVIOUS
  <2>5. QED
    BY <2>3, <2>4
<1>5. ASSUME NEW id, Dismiss(id)
      PROVE  job'[r].status = "dismissed" /\ worker' # r
  <2>1. \E s \in Row : job'[s].status = "dismissed" /\ \A o \in Row \ {s} : job'[o] = job[o]
    BY <1>5, DismissFacts
  <2>2. worker' = worker
    BY <1>5 DEF Dismiss
  <2>3. job'[r].status = "dismissed"
    BY <2>1
  <2>4. QED
    BY <2>2, <2>3
<1>6. ASSUME Purge \/ Save \/ Tick \/ UNCHANGED vars
      PROVE  job'[r].status = "dismissed" /\ worker' # r
  BY <1>6 DEF Purge, Save, Tick, vars
<1>7. ~Restart
  BY <1>1 DEF Restart
<1>8. QED
  BY <1>2, <1>3, <1>4, <1>5, <1>6, <1>7 DEF Next, Retry, RetryRetryable

(* A row the operator dismissed while it was not executed is neither       *)
(* executed nor revived by the worker, a submission, a purge or a late     *)
(* verdict of another row: only a retry or a restart changes it.           *)
THEOREM DismissedRowsRest == Spec => DismissedRests
<1> DEFINE Step == \A r \in Row :
              (/\ job[r].status = "dismissed" /\ worker # r
               /\ UNCHANGED <<retries, restarts>>)
              => job'[r].status = "dismissed" /\ worker' # r
<1>1. Good /\ [Next]_vars => Step
  BY RestsStep
<1>2. DismissedRests <=> [][Step]_vars
  BY DEF DismissedRests
<1> HIDE DEF Step
<1>3. QED
  BY <1>1, <1>2, AlwaysGood, PTL DEF Spec

=============================================================================
