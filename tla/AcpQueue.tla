------------------------------ MODULE AcpQueue ------------------------------
(***************************************************************************)
(* The queue of ACP jobs in apps/dashboard/server.mjs: ACP_ASYNC_JOBS, the *)
(* worker processAcpAsyncQueue, the operator's routes (retry, dismiss,     *)
(* purge) and the metrics file that carries the queue over a restart.      *)
(*                                                                         *)
(* A row is one object of ACP_ASYNC_JOBS.  The worker holds a reference to *)
(* the row it executes, whatever the queue does with that row meanwhile.   *)
(* executeAcpJob is the await of the worker; here it ends well, with an    *)
(* error isAcpRetryableError accepts, or with another error.               *)
(***************************************************************************)
EXTENDS Integers, Sequences, FiniteSetsExt

CONSTANTS
    Row,          (* the job objects; each is submitted at most once *)
    NoRow,        (* no row: the worker is not active *)
    JobId,        (* the jobId values *)
    JobOf,        (* the jobId of each row: clients choose it, it may repeat *)
    Lasting,      (* rows whose execution may never end: targetChain bsc *)
    MaxAttempts,  (* maxAttempts of every job *)
    QueueCap,     (* rows kept in ACP_ASYNC_JOBS (200 in the code) *)
    PurgeAge,     (* retention of dismissed rows, in ticks *)
    AutoPurge,    (* ACP_DISMISSED_PURGE_ENABLED *)
    MaxTime,      (* bound of the model on the clock *)
    MaxRetries,   (* bound of the model on the operator's retries *)
    MaxRestarts   (* bound of the model on process restarts *)

ASSUME QueueAssumption ==
    /\ NoRow \notin Row
    /\ JobOf \in [Row -> JobId]
    /\ Lasting \subseteq Row
    /\ MaxAttempts \in Nat \ {0}
    /\ QueueCap \in Nat \ {0}
    /\ PurgeAge \in Nat
    /\ AutoPurge \in BOOLEAN
    /\ MaxTime \in Nat /\ MaxRetries \in Nat /\ MaxRestarts \in Nat

VARIABLES
    queue,      (* ACP_ASYNC_JOBS, newest first *)
    job,        (* the fields of every row *)
    worker,     (* the row whose executeAcpJob is awaited, or NoRow *)
    disk,       (* acpAsyncJobs of the metrics file *)
    now,        (* Date.now() *)
    retries,    (* history: operator retries of each row *)
    starts,     (* history: executions started of each row *)
    successes,  (* history: executions of each row that ended well *)
    restarts    (* history: restarts of the process *)

history == <<retries, starts, successes, restarts>>
vars == <<queue, job, worker, disk, now, history>>

Status == {"new", "queued", "running", "done", "dead-letter", "dismissed", "gone"}
Error == {"null", "retryable", "fatal"}
Job == [status : Status, attempts : Nat, error : Error, nextAttemptAt : Nat,
        lastErrorAt : Nat, dismissedAt : Nat]

TypeOK ==
    /\ queue \in Seq(Row) /\ Len(queue) <= QueueCap
    /\ job \in [Row -> Job]
    /\ worker \in Row \union {NoRow}
    /\ disk.queue \in Seq(Row) /\ disk.job \in [Row -> Job]
    /\ now \in Nat \ {0}
    /\ retries \in [Row -> Nat] /\ starts \in [Row -> Nat] /\ successes \in [Row -> Nat]
    /\ restarts \in Nat

Blank(status) == [status |-> status, attempts |-> 0, error |-> "null",
                  nextAttemptAt |-> 0, lastErrorAt |-> 0, dismissedAt |-> 0]

Init ==
    /\ queue = <<>>
    /\ job = [r \in Row |-> Blank("new")]
    /\ worker = NoRow
    /\ disk = [queue |-> queue, job |-> job]
    /\ now = 1
    /\ retries = [r \in Row |-> 0]
    /\ starts = [r \in Row |-> 0]
    /\ successes = [r \in Row |-> 0]
    /\ restarts = 0
-----------------------------------------------------------------------------
(* The worker. *)

InQueue(r) == \E i \in 1..Len(queue) : queue[i] = r

(* computeAcpRetryBackoffMs, a tick for its second. *)
Backoff(attempts) ==
    LET capped == IF attempts < 6 THEN attempts ELSE 6 IN 2 ^ (capped - 1)

(* Faults: the backoff is not waited for; dismissed rows are taken. *)
DueAtOnce(j, r) == j[r].status = "queued"
DueThoughDismissed(j, r) ==
    j[r].status \in {"queued", "dismissed"} /\ j[r].nextAttemptAt <= now

(* A row the worker's find accepts. *)
Due(j, r) == j[r].status = "queued" /\ j[r].nextAttemptAt <= now

(* processAcpAsyncQueue up to its await: unless the worker is active, take *)
(* the first due row of the queue q.                                       *)
Taken(row) == [row EXCEPT !.status = "running", !.attempts = @ + 1]

Wake(q, j, w) ==
    LET due == {i \in 1..Len(q) : Due(j, q[i])}
        next == q[Min(due)]
    IN IF w # NoRow \/ due = {}
       THEN [job |-> j, worker |-> w]
       ELSE [job |-> [j EXCEPT ![next] = Taken(@)], worker |-> next]

Become(s) ==
    /\ job' = s.job
    /\ worker' = s.worker
    /\ starts' = [r \in Row |-> IF s.worker = r /\ s.job[r].attempts > job[r].attempts
                                THEN starts[r] + 1 ELSE starts[r]]

(* Faults: one attempt too few, a success that goes back to the queue; a   *)
(* failure that may be retried is retried at once and without end.         *)
VerdictUpTo(r, outcome, attempts, good) ==
    LET failed == [job[r] EXCEPT !.error = outcome, !.lastErrorAt = now] IN
    IF outcome = "ok"
    THEN [job[r] EXCEPT !.status = good, !.error = "null", !.nextAttemptAt = 0]
    ELSE IF outcome = "fatal" \/ job[r].attempts >= attempts
    THEN [failed EXCEPT !.status = "dead-letter", !.nextAttemptAt = 0]
    ELSE [failed EXCEPT !.status = "queued",
                        !.nextAttemptAt = now + Backoff(job[r].attempts)]

VerdictEarly(r, outcome) == VerdictUpTo(r, outcome, MaxAttempts - 1, "done")
VerdictRequeued(r, outcome) == VerdictUpTo(r, outcome, MaxAttempts, "queued")
VerdictUnlimited(r, outcome) ==
    IF outcome = "retryable"
    THEN [job[r] EXCEPT !.status = "queued", !.error = outcome, !.lastErrorAt = now]
    ELSE VerdictUpTo(r, outcome, MaxAttempts, "done")

(* The await ends.  The row gets its verdict, even if it was dismissed,    *)
(* retried or dropped meanwhile, and the worker takes the next due row.    *)
Verdict(r, outcome) ==
    LET failed == [job[r] EXCEPT !.error = outcome, !.lastErrorAt = now] IN
    IF outcome = "ok"
    THEN [job[r] EXCEPT !.status = "done", !.error = "null", !.nextAttemptAt = 0]
    ELSE IF outcome = "fatal" \/ job[r].attempts >= MaxAttempts
    THEN [failed EXCEPT !.status = "dead-letter", !.nextAttemptAt = 0]
    ELSE [failed EXCEPT !.status = "queued",
                        !.nextAttemptAt = now + Backoff(job[r].attempts)]

Finish(outcome) ==
    /\ worker # NoRow
    /\ Become(Wake(queue, [job EXCEPT ![worker] = Verdict(worker, outcome)], NoRow))
    /\ successes' = IF outcome = "ok" THEN [successes EXCEPT ![worker] = @ + 1] ELSE successes
    /\ UNCHANGED <<queue, disk, now, retries, restarts>>
-----------------------------------------------------------------------------
(* The routes. *)

(* job/submit: the new row goes first; what exceeds the cap is dropped,    *)
(* whatever its status.                                                    *)
Enqueue(r) ==
    /\ job[r].status = "new"
    /\ LET grown == <<r>> \o queue
           kept == IF Len(grown) > QueueCap THEN SubSeq(grown, 1, QueueCap) ELSE grown
       IN /\ queue' = kept
          /\ Become(Wake(kept, [job EXCEPT ![r] = Blank("queued")], worker))
    /\ UNCHANGED <<disk, now, retries, successes, restarts>>

(* getAcpAsyncJobById: the first row of the queue with the id. *)
Found(id) ==
    LET at == {i \in 1..Len(queue) : JobOf[queue[i]] = id}
    IN IF at = {} THEN {} ELSE {queue[Min(at)]}

Fresh(row) == [row EXCEPT !.status = "queued", !.error = "null", !.nextAttemptAt = 0]

(* Requeued whatever their status, even the row the worker executes. *)
Refreshed(j, rows) == [r \in Row |-> IF r \in rows THEN Fresh(j[r]) ELSE j[r]]

(* Fault: the worker is not woken. *)
RequeuedAsleep(rows) == [job |-> Refreshed(job, rows), worker |-> worker]

(* retryAcpAsyncJob requeues the row it finds and wakes the worker. *)
Requeued(rows) == Wake(queue, Refreshed(job, rows), worker)

(* One retry after another without an await: after the first the worker is *)
(* active, and wakes for none of the others.                               *)
RetryAll(id, others) ==
    LET first == Found(id)
        rest == UNION {Found(other) : other \in others}
        woken == Requeued(first)
    IN /\ first # {}
       /\ retries' = [r \in Row |-> IF r \in first \union rest THEN retries[r] + 1 ELSE retries[r]]
       /\ MapThenSumSet(LAMBDA r : retries'[r], Row) <= MaxRetries
       /\ Become([woken EXCEPT !.job = Refreshed(@, rest)])
       /\ UNCHANGED <<queue, disk, now, successes, restarts>>

Retry(id) == RetryAll(id, {})

(* A row may be found by the id of a later one that repeats it. *)
RetryRetryable ==
    LET rows == {i \in 1..Len(queue) : /\ job[queue[i]].status = "dead-letter"
                                       /\ job[queue[i]].error = "retryable"}
    IN /\ rows # {}
       /\ RetryAll(JobOf[queue[Min(rows)]], {JobOf[queue[i]] : i \in rows \ {Min(rows)}})

(* dismissAcpAsyncJob, whatever the status of the row. *)
Dismiss(id) ==
    /\ \E r \in Found(id) :
          job' = [job EXCEPT ![r] = [@ EXCEPT !.status = "dismissed", !.dismissedAt = now,
                                              !.nextAttemptAt = 0]]
    /\ UNCHANGED <<queue, worker, disk, now, history>>

(* purgeDismissedAcpJobs, called by its route and by its timer. *)
Expired(row) == row.status = "dismissed" /\ row.dismissedAt <= now - PurgeAge

Purged(q, j) ==
    LET kept[n \in 0..Len(q)] ==
            IF n = 0 THEN <<>>
            ELSE IF Expired(j[q[n]]) THEN kept[n - 1] ELSE Append(kept[n - 1], q[n])
    IN kept[Len(q)]

Purge ==
    /\ queue' = Purged(queue, job)
    /\ queue' # queue
    /\ UNCHANGED <<job, worker, disk, now, history>>
-----------------------------------------------------------------------------
(* The metrics file, the process and the clock. *)

(* Some saveMetricsToDisk, called at every change and never awaited, has   *)
(* written the queue.  Saves that no restart will read are left out.       *)
Save ==
    /\ restarts < MaxRestarts
    /\ disk' = [queue |-> queue, job |-> job]
    /\ disk' # disk
    /\ UNCHANGED <<queue, job, worker, now, history>>

(* The process dies and boots: loadMetricsFromDisk, processAcpAsyncQueue,  *)
(* setupDismissedPurgeScheduler.  Rows that are not in the file are gone.  *)
Restart ==
    /\ restarts < MaxRestarts
    /\ restarts' = restarts + 1
    /\ LET onDisk == {disk.queue[i] : i \in 1..Len(disk.queue)}
           Restored(r) ==
               IF r \notin onDisk
               THEN IF job[r].status = "new" THEN job[r] ELSE Blank("gone")
               ELSE IF disk.job[r].status = "running"
               THEN [disk.job[r] EXCEPT !.status = "queued"] ELSE disk.job[r]
           woken == Wake(disk.queue, [r \in Row |-> Restored(r)], NoRow)
       IN /\ job' = woken.job
          /\ worker' = woken.worker
          /\ starts' = [r \in Row |-> IF woken.worker = r THEN starts[r] + 1 ELSE starts[r]]
          /\ queue' = IF AutoPurge THEN Purged(disk.queue, woken.job) ELSE disk.queue
    /\ UNCHANGED <<disk, now, retries, successes>>

Tick ==
    /\ now < MaxTime
    /\ now' = now + 1
    /\ UNCHANGED <<queue, job, worker, disk, history>>

Outcomes == {"ok", "retryable", "fatal"}

Next ==
    \/ \E outcome \in Outcomes : Finish(outcome)
    \/ \E r \in Row : Enqueue(r)
    \/ \E id \in JobId : Retry(id) \/ Dismiss(id)
    \/ RetryRetryable
    \/ Purge
    \/ Save
    \/ Restart
    \/ Tick

Spec == Init /\ [][Next]_vars

(* The execution of a job on near ends: its commands are killed after 120  *)
(* s.  A job on bsc may wait for the receipt of its transaction for ever:  *)
(* tx.wait has no time-out, so nothing makes its end certain.  Time passes.*)
FinishCommands == worker \notin Lasting /\ \E outcome \in Outcomes : Finish(outcome)

FairSpec == Spec /\ WF_vars(FinishCommands) /\ WF_vars(Tick)
-----------------------------------------------------------------------------
(* Properties. *)

(* maxAttempts bounds the automatic attempts of a row: every further one   *)
(* is a retry the operator asked for, or follows a restart that lost count.*)
AttemptsBounded ==
    \A r \in Row : starts[r] <= MaxAttempts * (restarts + 1) + retries[r]

(* A job that ended well is not executed again behind the operator's back: *)
(* each further success follows a retry of that very row or a restart.     *)
SuccessesAccounted ==
    \A r \in Row : successes[r] <= 1 + retries[r] + restarts

(* A dead letter has used its attempts or failed in a way a retry cannot   *)
(* mend, as the dead-letter view classifies it.                            *)
DeadLetterJustified ==
    \A r \in Row : job[r].status = "dead-letter" =>
        \/ job[r].error = "fatal"
        \/ job[r].error = "retryable" /\ job[r].attempts >= MaxAttempts

(* The worker starts a row that failed before only once its backoff is     *)
(* over, unless the operator's retry cleared the error.  After a restart the *)
(* attempt that was cut off counts too: one tick is what is sure.          *)
BackoffRespected ==
    [][\A r \in Row : (worker' = r /\ starts'[r] > starts[r] /\ job'[r].error # "null")
         => now' >= job'[r].lastErrorAt
                      + Backoff(IF restarts' = 0 THEN job'[r].attempts - 1 ELSE 1)]_vars

(* A dismissed row that was not being executed leaves that state only by a *)
(* retry of the operator or with the process, and is not executed.         *)
DismissedRests ==
    [][\A r \in Row :
          (/\ job[r].status = "dismissed" /\ worker # r
           /\ UNCHANGED <<retries, restarts>>)
          => job'[r].status = "dismissed" /\ worker' # r]_vars

(* No wakeup is lost: unless the worker waits for ever for one receipt on  *)
(* bsc, a queued row that waits for no backoff does not stay so for ever.  *)
(* It is taken, or dropped by the cap, dismissed, lost with the process,   *)
(* or sent into a backoff by the failure of an execution that was under    *)
(* way when the operator retried it.  The queue is last in, first out:     *)
(* this needs that newer submissions come to an end.                       *)
Ready(r) == InQueue(r) /\ job[r].status = "queued" /\ job[r].nextAttemptAt = 0

StuckOn(r) == <>[](worker = r)

ReadyTaken ==
    \A r \in Row : (Ready(r) ~> ~Ready(r)) \/ \E l \in Lasting : StuckOn(l)

(* docs/near-dashboard.md promises retries after a backoff: a row whose    *)
(* backoff is over is taken, dismissed, dropped or lost in the end.        *)
BackoffRetried ==
    \A r \in Row : (InQueue(r) /\ Due(job, r)) ~> ~(InQueue(r) /\ Due(job, r))
=============================================================================
