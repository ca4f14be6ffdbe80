-------------------------- MODULE IngestionWorker --------------------------
(***************************************************************************)
(* The crawl path: publishers, the Redis stream with its retry set and     *)
(* dead-letter stream, the worker processes, the administrators' upload    *)
(* requests, and the crawl_jobs / source_snapshots rows they compete for.  *)
(*                                                                         *)
(* A session is a database transaction: one per delivery for a worker, one *)
(* per request for an upload.  PostgreSQL runs them READ COMMITTED, so a   *)
(* session reads only committed rows; SELECT ... FOR UPDATE waits for the  *)
(* writer of an existing row and an INSERT waits for the writer of an      *)
(* uncommitted row with the same unique key.  A failed flush leaves the    *)
(* SQLAlchemy session unusable, so that even the commit in the error       *)
(* handler fails, and the delivery stays pending.                          *)
(***************************************************************************)
EXTENDS CrawlJobLedger, FiniteSets

CONSTANTS
    Workers,      \* consumers of the Redis group
    Uploads,      \* API threads that may run a manual upload
    Messages,     \* stream entries and retry-set members alive at one time
    Served,       \* the jobs whose source each worker's registry lets it fetch
    Scheduled,    \* the jobs that are interval slots of the scheduler
    MaxFaults,    \* bound on crashes, lost connections and rollbacks
    MaxEnqueues,  \* bound on tasks published by the command line
    NoMessage,
    NoJob

ASSUME WorkerAssumption ==
    /\ Workers \cap Uploads = {}
    /\ NoMessage \notin Messages
    /\ NoJob \notin Jobs
    /\ Served \in [Workers -> SUBSET Jobs]
    /\ Scheduled \subseteq Jobs
    /\ MaxFaults \in Nat
    /\ MaxEnqueues \in Nat

Sessions == Workers \cup Uploads

VARIABLES
    msg,        \* every message: where it is, its job and its attempt number
    stale,      \* pending messages idle for longer than worker_stale_after_ms
    dlq,        \* dead-letter stream
    dedup,      \* scheduler slots whose deduplication key exists in Redis
    snapshots,  \* committed source_snapshots, each with its artifact and review
    phase,      \* what every session is doing
    held,       \* the delivery of every worker
    job,        \* the job of every session
    txRow,      \* the uncommitted image of the job row, NoRow without one
    reply,      \* what the session will tell the queue, or the client
    api,        \* the administrator's queue_crawl request for every job
    requested,  \* jobs for which a task has been published
    faults,
    enqueues

queueVars   == <<msg, stale, dlq, dedup>>
sessionVars == <<phase, held, job, txRow, reply>>
apiVars     == <<api, requested, enqueues>>
vars == <<row, snapshots, queueVars, sessionVars, apiVars, faults>>

MessageStates == {"free", "ready", "pending", "delayed"}

Phases == {"idle", "received", "inserting", "running", "storing",
           "committing", "replying"}

\* "failed" stands for the codes of errors that mark_failed made terminal.
DeadCodes == {"unroutable", "failed", "job_terminal", "ingestion_error"}
Replies   == DeadCodes \cup {"none", "ack", "retry", "retry_same"}

ApiStates == {"none", "prepared", "published"}

TypeOK ==
    /\ LedgerTypeOK
    /\ msg \in [Messages -> [state: MessageStates, job: Jobs \cup {NoJob}, attempt: Nat]]
    /\ stale \subseteq Messages
    /\ dlq \subseteq Jobs \X DeadCodes
    /\ dedup \subseteq Scheduled
    /\ snapshots \subseteq Sources \X Contents
    /\ phase \in [Sessions -> Phases]
    /\ held \in [Sessions -> Messages \cup {NoMessage}]
    /\ job \in [Sessions -> Jobs \cup {NoJob}]
    /\ txRow \in [Sessions -> Rows]
    /\ reply \in [Sessions -> Replies]
    /\ api \in [Jobs -> ApiStates]
    /\ requested \subseteq Jobs
    /\ faults \in Nat
    /\ enqueues \in Nat

Init ==
    /\ LedgerInit
    /\ msg = [m \in Messages |-> [state |-> "free", job |-> NoJob, attempt |-> 1]]
    /\ stale = {}
    /\ dlq = {}
    /\ dedup = {}
    /\ snapshots = {}
    /\ phase = [s \in Sessions |-> "idle"]
    /\ held = [s \in Sessions |-> NoMessage]
    /\ job = [s \in Sessions |-> NoJob]
    /\ txRow = [s \in Sessions |-> NoRow]
    /\ reply = [s \in Sessions |-> "none"]
    /\ api = [j \in Jobs |-> "none"]
    /\ requested = {}
    /\ faults = 0
    /\ enqueues = 0

-----------------------------------------------------------------------------
(***************************************************************************)
(* Redis.  Stream ids are unbounded: an id is used again here only when    *)
(* nothing can mention it any more, neither Redis nor a worker.            *)
(***************************************************************************)
Fresh(m) == msg[m].state = "free" /\ \A s \in Sessions : held[s] # m

\* Bound on the messages alive at one time: a request begins only if there are
\* ids for the requests already begun, for its own task and for one retry.
Room ==
    Cardinality({m \in Messages : Fresh(m)})
        > Cardinality({j \in Jobs : api[j] = "prepared"}) + 1

\* XADD of a task.
Publish(m, j) ==
    /\ Fresh(m)
    /\ msg' = [msg EXCEPT ![m] = [state |-> "ready", job |-> j, attempt |-> 1]]
    /\ requested' = requested \cup {j}

\* XACK by message id: it does not ask which consumer owns the entry.
Acked(m) ==
    IF m # NoMessage /\ msg[m].state = "pending"
    THEN [msg EXCEPT ![m].state = "free"]
    ELSE msg

\* ZADD of the retry and XACK of the delivery in one MULTI.
AckedAndDelayed(m, n, a) ==
    [Acked(m) EXCEPT ![n] = [state |-> "delayed", job |-> msg[m].job, attempt |-> a]]

\* The scheduler's atomic script: one task per source and interval slot.
PublishScheduled(j, m) ==
    /\ j \in Scheduled \ dedup
    /\ Room
    /\ Publish(m, j)
    /\ dedup' = dedup \cup {j}
    /\ UNCHANGED <<row, snapshots, stale, dlq, sessionVars, api, enqueues, faults>>

\* Mutant: the command takes the scheduler's deduplication key as well.
EnqueueTakesSlot(j, m) ==
    /\ enqueues < MaxEnqueues
    /\ Room
    /\ Publish(m, j)
    /\ dedup' = dedup \cup {j}
    /\ enqueues' = enqueues + 1
    /\ UNCHANGED <<row, snapshots, stale, dlq, sessionVars, api, faults>>

\* The enqueue command publishes without looking at the database.
EnqueueSource(j, m) ==
    /\ enqueues < MaxEnqueues
    /\ Room
    /\ Publish(m, j)
    /\ enqueues' = enqueues + 1
    /\ UNCHANGED <<row, snapshots, stale, dlq, dedup, sessionVars, api, faults>>

\* Time passes while a message is pending, whether or not its consumer lives.
GoStale(m) ==
    /\ msg[m].state = "pending"
    /\ m \notin stale
    /\ stale' = stale \cup {m}
    /\ UNCHANGED <<row, snapshots, msg, dlq, dedup, sessionVars, apiVars, faults>>

-----------------------------------------------------------------------------
(***************************************************************************)
(* Database locks.                                                         *)
(***************************************************************************)
Writing(s) == txRow[s] # NoRow

Writers(j) == {s \in Sessions : job[s] = j /\ Writing(s)}

\* Sessions that have inserted a snapshot of content c and not yet committed.
Recorders(src, c) ==
    {s \in Sessions : /\ Writing(s)
                      /\ phase[s] = "committing"
                      /\ SourceOf[job[s]] = src
                      /\ txRow[s].change = c}

\* The session ends without having committed anything.
Abandoned(s) ==
    /\ phase' = [phase EXCEPT ![s] = "idle"]
    /\ held' = [held EXCEPT ![s] = NoMessage]
    /\ job' = [job EXCEPT ![s] = NoJob]
    /\ txRow' = [txRow EXCEPT ![s] = NoRow]
    /\ reply' = [reply EXCEPT ![s] = "none"]

-----------------------------------------------------------------------------
(***************************************************************************)
(* run_once: promote due retries, then take a stale delivery or wait for a *)
(* new one.                                                                *)
(***************************************************************************)
PromoteDue(w) ==
    /\ phase[w] = "idle"
    /\ \E due \in (SUBSET {m \in Messages : msg[m].state = "delayed"}) \ {{}} :
          msg' = [m \in Messages |->
                     IF m \in due THEN [msg[m] EXCEPT !.state = "ready"] ELSE msg[m]]
    /\ UNCHANGED <<row, snapshots, stale, dlq, dedup, sessionVars, apiVars, faults>>

\* Mutant: a delivery this worker cannot route is left to the others.
HoldOrSkip(w, m) ==
    /\ IF msg[m].job \in Served[w]
       THEN /\ held' = [held EXCEPT ![w] = m]
            /\ job' = [job EXCEPT ![w] = msg[m].job]
            /\ phase' = [phase EXCEPT ![w] = "received"]
       ELSE UNCHANGED <<held, job, phase>>
    /\ UNCHANGED <<row, snapshots, dlq, dedup, txRow, reply, apiVars, faults>>

\* A task the registry of this worker does not let it fetch never reaches the
\* database: it goes to the dead-letter stream.
Hold(w, m) ==
    /\ held' = [held EXCEPT ![w] = m]
    /\ job' = [job EXCEPT ![w] = msg[m].job]
    /\ \/ /\ msg[m].job \in Served[w]
          /\ phase' = [phase EXCEPT ![w] = "received"]
          /\ UNCHANGED reply
       \/ /\ msg[m].job \notin Served[w]
          /\ phase' = [phase EXCEPT ![w] = "replying"]
          /\ reply' = [reply EXCEPT ![w] = "unroutable"]
    /\ UNCHANGED <<row, snapshots, dlq, dedup, txRow, apiVars, faults>>

ReclaimStale(w) ==
    /\ phase[w] = "idle"
    /\ \E m \in stale :
          /\ stale' = stale \ {m}
          /\ Hold(w, m)
    /\ UNCHANGED msg

\* The worker blocks here: entries may have gone stale since it looked for one.
Reserve(w) ==
    /\ phase[w] = "idle"
    /\ \E m \in Messages :
          /\ msg[m].state = "ready"
          /\ msg' = [msg EXCEPT ![m].state = "pending"]
          /\ Hold(w, m)
    /\ UNCHANGED stale

\* A manual upload names its job by the caller's idempotency key.
BeginUpload(u, j) ==
    /\ phase[u] = "idle"
    /\ phase' = [phase EXCEPT ![u] = "received"]
    /\ job' = [job EXCEPT ![u] = j]
    /\ UNCHANGED <<row, snapshots, queueVars, held, txRow, reply, apiVars, faults>>

-----------------------------------------------------------------------------
(***************************************************************************)
(* claim_job.                                                              *)
(***************************************************************************)
\* What claim_job answers when the row it has locked does not allow an attempt.
Refusal(status) ==
    CASE status = "succeeded"     -> "ack"
      [] status = "dead_lettered" -> "job_terminal"
      [] status = "running"       -> "retry_same"

\* The row of a claimed job: only a successful attempt records a change.
RunningRow(attempts) ==
    [status |-> "running", attempts |-> attempts, change |-> NoContent]

\* Mutant: SELECT without FOR UPDATE.
ClaimUnlocked(s) ==
    LET j == job[s] IN
    /\ phase[s] = "received"
    /\ row[j].status \in Attemptable \ {"absent"}
    /\ phase' = [phase EXCEPT ![s] = "running"]
    /\ txRow' = [txRow EXCEPT ![s] = RunningRow(row[j].attempts + 1)]
    /\ UNCHANGED <<row, snapshots, queueVars, held, job, reply, apiVars, faults>>

\* SELECT ... FOR UPDATE returned a row that may be attempted again.
ClaimAgain(s) ==
    LET j == job[s] IN
    /\ phase[s] = "received"
    /\ row[j].status \in Attemptable \ {"absent"}
    /\ Writers(j) = {}
    /\ phase' = [phase EXCEPT ![s] = "running"]
    /\ txRow' = [txRow EXCEPT ![s] = RunningRow(row[j].attempts + 1)]
    /\ UNCHANGED <<row, snapshots, queueVars, held, job, reply, apiVars, faults>>

\* It returned a finished job: replay it, or refuse.
ClaimRefused(s) ==
    LET j == job[s] IN
    /\ phase[s] = "received"
    /\ row[j].status \notin Attemptable
    /\ Writers(j) = {}
    /\ phase' = [phase EXCEPT ![s] = "committing"]
    /\ reply' = [reply EXCEPT ![s] = Refusal(row[j].status)]
    /\ UNCHANGED <<row, snapshots, queueVars, held, job, txRow, apiVars, faults>>

\* It returned nothing.  An uncommitted INSERT of the same key is not visible.
ClaimMissing(s) ==
    /\ phase[s] = "received"
    /\ row[job[s]].status = "absent"
    /\ phase' = [phase EXCEPT ![s] = "inserting"]
    /\ UNCHANGED <<row, snapshots, queueVars, held, job, txRow, reply, apiVars, faults>>

\* The INSERT waits for other writers of the unique key.
ClaimInsert(s) ==
    LET j == job[s] IN
    /\ phase[s] = "inserting"
    /\ row[j].status = "absent"
    /\ Writers(j) = {}
    /\ api[j] = "none"
    /\ phase' = [phase EXCEPT ![s] = "running"]
    /\ txRow' = [txRow EXCEPT ![s] = RunningRow(1)]
    /\ UNCHANGED <<row, snapshots, queueVars, held, job, reply, apiVars, faults>>

\* Another session committed the key first: unique violation.
ClaimConflict(s) ==
    /\ phase[s] = "inserting"
    /\ row[job[s]].status # "absent"
    /\ Abandoned(s)
    /\ UNCHANGED <<row, snapshots, queueVars, apiVars, faults>>

\* The claim raised something that is no IngestionError, such as a lock or
\* statement timeout.  The commit then commits nothing, and the attempt number
\* in the message decides, because the error does not say whether to retry.
ClaimError(w) ==
    /\ phase[w] = "received"
    /\ faults < MaxFaults
    /\ phase' = [phase EXCEPT ![w] = "committing"]
    /\ reply' = [reply EXCEPT ![w] =
                    IF msg[held[w]].attempt < MaxAttempts[job[w]]
                    THEN "retry" ELSE "ingestion_error"]
    /\ faults' = faults + 1
    /\ UNCHANGED <<row, snapshots, queueVars, held, job, txRow, apiVars>>

-----------------------------------------------------------------------------
(***************************************************************************)
(* The claimed operation: fetch or take the upload, compare, store, record.*)
(***************************************************************************)
\* Mutant: one attempt too many.
FailedStatusOffByOne(r, max, retryable) ==
    IF retryable /\ r.attempts <= max THEN "retry_scheduled" ELSE "dead_lettered"

\* mark_failed: the locked row decides whether another attempt is allowed.
FailedStatus(r, max, retryable) ==
    IF retryable /\ r.attempts < max THEN "retry_scheduled" ELSE "dead_lettered"

\* Mutant: the delivery's attempt number decides, not the job row.
FailsByDelivery(w, retryable) ==
    LET r == txRow[w] IN
    /\ phase[w] \in {"running", "storing"}
    /\ phase' = [phase EXCEPT ![w] = "committing"]
    /\ txRow' = [txRow EXCEPT ![w] =
                    [status |-> FailedStatus(r, MaxAttempts[job[w]], retryable),
                     attempts |-> r.attempts, change |-> NoContent]]
    /\ reply' = [reply EXCEPT ![w] =
                    IF retryable /\ msg[held[w]].attempt < MaxAttempts[job[w]]
                    THEN "retry" ELSE "failed"]
    /\ UNCHANGED <<row, snapshots, queueVars, held, job, apiVars, faults>>

OperationFails(w, retryable) ==
    LET r == txRow[w]
        status == FailedStatus(r, MaxAttempts[job[w]], retryable) IN
    /\ phase[w] \in {"running", "storing"}
    /\ phase' = [phase EXCEPT ![w] = "committing"]
    /\ txRow' = [txRow EXCEPT ![w] = [status |-> status,
                                      attempts |-> r.attempts,
                                      change |-> NoContent]]
    /\ reply' = [reply EXCEPT ![w] =
                    IF status = "retry_scheduled" THEN "retry" ELSE "failed"]
    /\ UNCHANGED <<row, snapshots, queueVars, held, job, apiVars, faults>>

\* In a request the error reaches the session dependency, which rolls back.
UploadFails(u) ==
    /\ phase[u] \in {"running", "storing"}
    /\ Abandoned(u)
    /\ UNCHANGED <<row, snapshots, queueVars, apiVars, faults>>

\* mark_succeeded.
Succeeded(s) ==
    /\ phase' = [phase EXCEPT ![s] = "committing"]
    /\ txRow' = [txRow EXCEPT ![s].status = "succeeded"]
    /\ reply' = [reply EXCEPT ![s] = "ack"]

\* HTTP 304, or a body whose digest a committed snapshot already has.
OperationUnchanged(s) ==
    /\ phase[s] = "running"
    /\ \E c \in Contents : <<SourceOf[job[s]], c>> \in snapshots
    /\ Succeeded(s)
    /\ UNCHANGED <<row, snapshots, queueVars, held, job, apiVars, faults>>

\* snapshot_by_sha256 found nothing: the evidence is written to the store.
OperationChanged(s, c) ==
    /\ phase[s] = "running"
    /\ <<SourceOf[job[s]], c>> \notin snapshots
    /\ phase' = [phase EXCEPT ![s] = "storing"]
    /\ txRow' = [txRow EXCEPT ![s].change = c]
    /\ UNCHANGED <<row, snapshots, queueVars, held, job, reply, apiVars, faults>>

\* Mutant: source_snapshots without its unique constraint.
RecordUnconstrained(s) ==
    /\ phase[s] = "storing"
    /\ Succeeded(s)
    /\ UNCHANGED <<row, snapshots, queueVars, held, job, apiVars, faults>>

\* record_snapshot, record_extraction_artifact and enqueue_review.
RecordSnapshot(s) ==
    LET src == SourceOf[job[s]] IN
    /\ phase[s] = "storing"
    /\ <<src, txRow[s].change>> \notin snapshots
    /\ Recorders(src, txRow[s].change) = {}
    /\ Succeeded(s)
    /\ UNCHANGED <<row, snapshots, queueVars, held, job, apiVars, faults>>

\* The unique constraint on (source, sha256) rejects the insert.
RecordConflict(s) ==
    /\ phase[s] = "storing"
    /\ <<SourceOf[job[s]], txRow[s].change>> \in snapshots
    /\ Abandoned(s)
    /\ UNCHANGED <<row, snapshots, queueVars, apiVars, faults>>

CommitTransaction(s) ==
    /\ phase[s] = "committing"
    /\ row' = IF Writing(s) THEN [row EXCEPT ![job[s]] = txRow[s]] ELSE row
    /\ snapshots' = IF txRow[s].change = NoContent THEN snapshots
                    ELSE snapshots \cup {<<SourceOf[job[s]], txRow[s].change>>}
    /\ txRow' = [txRow EXCEPT ![s] = NoRow]
    /\ phase' = [phase EXCEPT ![s] = "replying"]
    /\ UNCHANGED <<queueVars, held, job, reply, apiVars, faults>>

-----------------------------------------------------------------------------
(***************************************************************************)
(* After the commit: one Redis call, or the response to the client.        *)
(***************************************************************************)
\* Mutant: every delivery that was handled is acknowledged.
AcknowledgeAlways(s) ==
    /\ phase[s] = "replying"
    /\ msg' = Acked(held[s])
    /\ stale' = stale \ {held[s]}
    /\ Abandoned(s)
    /\ UNCHANGED <<row, snapshots, dlq, dedup, apiVars, faults>>

Acknowledge(s) ==
    /\ phase[s] = "replying"
    /\ reply[s] = "ack" \/ s \in Uploads
    /\ msg' = Acked(held[s])
    /\ stale' = stale \ {held[s]}
    /\ Abandoned(s)
    /\ UNCHANGED <<row, snapshots, dlq, dedup, apiVars, faults>>

\* IngestionTask.retry.
NextAttempt(m, increment) ==
    LET a == msg[m].attempt IN
    IF increment /\ a < MaxAttempts[msg[m].job] THEN a + 1 ELSE a

ScheduleRetry(w) ==
    /\ phase[w] = "replying"
    /\ reply[w] \in {"retry", "retry_same"}
    /\ \E n \in Messages :
          /\ Fresh(n)
          /\ msg' = AckedAndDelayed(held[w], n, NextAttempt(held[w], reply[w] = "retry"))
    /\ stale' = stale \ {held[w]}
    /\ Abandoned(w)
    /\ UNCHANGED <<row, snapshots, dlq, dedup, apiVars, faults>>

\* XADD to the dead-letter stream and XACK of the delivery in one MULTI.
DeadLetter(w) ==
    /\ phase[w] = "replying"
    /\ reply[w] \in DeadCodes
    /\ dlq' = dlq \cup {<<job[w], reply[w]>>}
    /\ msg' = Acked(held[w])
    /\ stale' = stale \ {held[w]}
    /\ Abandoned(w)
    /\ UNCHANGED <<row, snapshots, dedup, apiVars, faults>>

\* The process dies, the commit fails or the Redis call fails.  What was
\* committed stays; the delivery stays pending.
Interrupt(s) ==
    /\ phase[s] # "idle"
    /\ faults < MaxFaults
    /\ faults' = faults + 1
    /\ Abandoned(s)
    /\ UNCHANGED <<row, snapshots, queueVars, apiVars>>

-----------------------------------------------------------------------------
(***************************************************************************)
(* queue_crawl: the task is published inside the request's transaction.    *)
(***************************************************************************)
PrepareCrawl(j) ==
    /\ Room
    /\ api[j] = "none"
    /\ row[j].status = "absent"
    /\ Writers(j) = {}
    /\ api' = [api EXCEPT ![j] = "prepared"]
    /\ UNCHANGED <<row, snapshots, queueVars, sessionVars, requested, enqueues, faults>>

PublishCrawl(j, m) ==
    /\ api[j] = "prepared"
    /\ Publish(m, j)
    /\ api' = [api EXCEPT ![j] = "published"]
    /\ UNCHANGED <<row, snapshots, stale, dlq, dedup, sessionVars, enqueues, faults>>

\* Mutant: the row is committed first, the task published afterwards.
CommitBeforePublish(j) ==
    /\ api[j] \in {"prepared", "published"}
    /\ row' = [row EXCEPT ![j].status = "queued"]
    /\ api' = [api EXCEPT ![j] = "none"]
    /\ UNCHANGED <<snapshots, queueVars, sessionVars, requested, enqueues, faults>>

CommitCrawl(j) ==
    /\ api[j] = "published"
    /\ row' = [row EXCEPT ![j].status = "queued"]
    /\ api' = [api EXCEPT ![j] = "none"]
    /\ UNCHANGED <<snapshots, queueVars, sessionVars, requested, enqueues, faults>>

RollbackCrawl(j) ==
    /\ api[j] # "none"
    /\ faults < MaxFaults
    /\ faults' = faults + 1
    /\ api' = [api EXCEPT ![j] = "none"]
    /\ UNCHANGED <<row, snapshots, queueVars, sessionVars, requested, enqueues>>

-----------------------------------------------------------------------------
Claim(s) ==
    \/ ClaimAgain(s)
    \/ ClaimRefused(s)
    \/ ClaimMissing(s)
    \/ ClaimInsert(s)
    \/ ClaimConflict(s)

Operate(s) ==
    \/ OperationUnchanged(s)
    \/ \E c \in Contents : OperationChanged(s, c)
    \/ RecordSnapshot(s)
    \/ RecordConflict(s)
    \/ CommitTransaction(s)
    \/ Acknowledge(s)

WorkerOnly(w) ==
    \/ \E retryable \in BOOLEAN : OperationFails(w, retryable)
    \/ ScheduleRetry(w)
    \/ DeadLetter(w)

Poll(w) ==
    \/ PromoteDue(w)
    \/ ReclaimStale(w)
    \/ Reserve(w)

Request(j) ==
    \/ \E m \in Messages :
          \/ PublishScheduled(j, m)
          \/ EnqueueSource(j, m)
          \/ PublishCrawl(j, m)
    \/ PrepareCrawl(j)
    \/ CommitCrawl(j)
    \/ RollbackCrawl(j)

Next ==
    \/ \E s \in Sessions : Claim(s) \/ Operate(s) \/ Interrupt(s)
    \/ \E w \in Workers : Poll(w) \/ WorkerOnly(w) \/ ClaimError(w)
    \/ \E u \in Uploads : UploadFails(u) \/ \E j \in Jobs : BeginUpload(u, j)
    \/ \E j \in Jobs : Request(j)
    \/ \E m \in Messages : GoStale(m)

Spec == Init /\ [][Next]_vars

(***************************************************************************)
(* The workers loop for ever: every step a running process can take is     *)
(* eventually taken.  Fetches have timeouts, retries become due, pending   *)
(* messages age, and a request's thread finishes.  Nothing forces a fault, *)
(* a publication or an upload.                                             *)
(***************************************************************************)
Fairness ==
    /\ \A s \in Sessions : WF_vars(Claim(s)) /\ WF_vars(Operate(s))
    /\ \A w \in Workers : WF_vars(WorkerOnly(w))
    /\ \A u \in Uploads : WF_vars(UploadFails(u))
    /\ WF_vars(\E w \in Workers : PromoteDue(w))
    /\ WF_vars(\E w \in Workers : ReclaimStale(w))
    /\ WF_vars(\E w \in Workers : Reserve(w))
    /\ \A m \in Messages : WF_vars(GoStale(m))
    /\ \A j \in Jobs : WF_vars(\E m \in Messages : PublishCrawl(j, m))
    /\ \A j \in Jobs : WF_vars(CommitCrawl(j))

FairSpec == Spec /\ Fairness

-----------------------------------------------------------------------------
(* Properties.                                                             *)

\* A task for the job will still be handed to some worker.
Live(j) == \E m \in Messages : msg[m].state # "free" /\ msg[m].job = j

DeadLettered(j) == \E code \in DeadCodes : <<j, code>> \in dlq

\* A published task is never lost: at every moment, whatever has crashed or
\* been redelivered, it is in the stream, pending or waiting for its retry, or
\* it is in the dead-letter stream, or its job has succeeded.  (run_once
\* commits before it acknowledges; schedule_retry and dead_letter acknowledge
\* in the same MULTI.)
NoTaskLost ==
    \A j \in requested :
        Live(j) \/ DeadLettered(j) \/ row[j].status = "succeeded"

\* A job that the dashboard shows as waiting has a task that will run it, or a
\* dead letter that explains why it will not.  (queue_crawl publishes before
\* its row is committed; mark_failed commits before the retry is scheduled.)
NoStrandedJob ==
    \A j \in Jobs :
        row[j].status \in {"queued", "retry_scheduled"} => Live(j) \/ DeadLettered(j)

\* Two deliveries of one job, to a slow worker and to the one that reclaimed
\* the message, or an upload with the same key, never run it at the same time.
OneRunnerPerJob ==
    \A s, t \in Sessions :
        Writing(s) /\ Writing(t) /\ job[s] = job[t] => s = t

\* The dead-letter stream and PostgreSQL agree: a delivery dead-lettered for a
\* failed attempt, or for a terminal job, belongs to a dead-lettered job.
DeadLetterAgrees ==
    \A j \in Jobs :
        <<j, "failed">> \in dlq \/ <<j, "job_terminal">> \in dlq
            => row[j].status = "dead_lettered"

\* Every content that some job has recorded as changed has one snapshot with
\* one review item, made by exactly one job, however many sessions fetched it.
OneReviewPerChange ==
    /\ \A src \in Sources, c \in Contents :
          <<src, c>> \in snapshots <=> c \in Recorded(src)
    /\ \A i, j \in Jobs :
          /\ SourceOf[i] = SourceOf[j]
          /\ row[i].change = row[j].change
          /\ row[i].change # NoContent
          => i = j

\* The sessions together implement the ledger: every commit is one whole
\* attempt of one job, counted once, within its budget, from an open status.
ImplementsLedger == LedgerSpec

\* Every published task is eventually settled.
RequestsSettle ==
    \A j \in Jobs :
        j \in requested ~> DeadLettered(j) \/ row[j].status = "succeeded"

-----------------------------------------------------------------------------
(***************************************************************************)
(* The inductive invariant.  The properties above speak of committed rows  *)
(* and of Redis; what keeps them true is what the sessions hold between    *)
(* the two, so the invariant says what every phase of a session has read   *)
(* and will write.                                                         *)
(***************************************************************************)
\* "running" is never committed; every other status fixes what the row says.
RowOK(j) ==
    LET r == row[j] IN
    /\ r.status # "running"
    /\ r.status = "absent" => r = NoRow
    /\ r.status = "queued" => r.attempts = 0
    /\ r.status = "retry_scheduled" => r.attempts < MaxAttempts[j]
    /\ r.status \in {"queued", "retry_scheduled"} => j \in requested
    /\ r.status # "succeeded" => r.change = NoContent

MessageOK(m) ==
    /\ msg[m].state # "free" => msg[m].job \in requested
    /\ m \in stale => msg[m].state = "pending"

\* What each phase holds.
PhaseOK(s) ==
    /\ phase[s] = "idle" <=> job[s] = NoJob
    /\ s \in Uploads \/ phase[s] = "idle" => held[s] = NoMessage
    /\ phase[s] \notin {"committing", "replying"} <=> reply[s] = "none"
    /\ phase[s] \in {"running", "storing"} => txRow[s].status = "running"
    /\ phase[s] \in {"idle", "received", "inserting", "replying"} => txRow[s] = NoRow
    /\ phase[s] = "running" => txRow[s].change = NoContent
    /\ phase[s] = "storing" => txRow[s].change # NoContent

\* A busy worker holds a message of a published job.
DeliveryOK(w) ==
    phase[w] # "idle" =>
        /\ held[w] \in Messages
        /\ msg[held[w]].job = job[w]
        /\ job[w] \in requested

\* What a session that is about to commit will write, and what it will say.
OutcomeOK(s) ==
    LET r == txRow[s] IN
    phase[s] = "committing" /\ Writing(s) =>
        /\ \/ r.status = "succeeded" /\ reply[s] = "ack"
           \/ /\ r.status = "retry_scheduled"
              /\ reply[s] = "retry"
              /\ r.attempts < MaxAttempts[job[s]]
              /\ s \in Workers
           \/ r.status = "dead_lettered" /\ reply[s] = "failed"
        /\ r.status # "succeeded" => r.change = NoContent
        /\ r.status = "succeeded" /\ r.change = NoContent =>
              \E c \in Contents : <<SourceOf[job[s]], c>> \in snapshots
        /\ r.change # NoContent => <<SourceOf[job[s]], r.change>> \notin snapshots

\* What a session without a row of its own has read, or has committed.
AnswerOK(s) ==
    phase[s] \in {"committing", "replying"} /\ ~Writing(s) =>
        /\ reply[s] = "ack" => row[job[s]].status = "succeeded"
        /\ reply[s] \in {"failed", "job_terminal"} =>
              row[job[s]].status = "dead_lettered"

\* A writer continues the committed row by one attempt, and is alone.
WriterOK(s) ==
    Writing(s) =>
        /\ CanAttempt(job[s])
        /\ txRow[s].attempts = row[job[s]].attempts + 1

ApiOK(j) ==
    /\ api[j] # "none" => row[j].status = "absent" /\ Writers(j) = {}
    /\ api[j] = "published" => j \in requested

\* At most one uncommitted snapshot per source and content.
OneRecorder ==
    \A s, t \in Sessions :
        /\ phase[s] = "committing" /\ phase[t] = "committing"
        /\ SourceOf[job[s]] = SourceOf[job[t]]
        /\ txRow[s].change = txRow[t].change
        /\ txRow[s].change # NoContent
        => s = t

SessionOK(s) ==
    /\ PhaseOK(s)
    /\ OutcomeOK(s)
    /\ AnswerOK(s)
    /\ WriterOK(s)
    /\ s \in Workers => DeliveryOK(s)

\* The inductive invariant: every property and what the sessions hold.
WorkerInv ==
    /\ TypeOK
    /\ \A j \in Jobs : RowOK(j) /\ ApiOK(j)
    /\ \A m \in Messages : MessageOK(m)
    /\ \A s \in Sessions : SessionOK(s)
    /\ OneRecorder
    /\ OneRunnerPerJob
    /\ DeadLetterAgrees
    /\ OneReviewPerChange
    /\ NoTaskLost

=============================================================================
