------------------------------ MODULE IndexJobs ------------------------------
(***************************************************************************)
(* Re-indexing of published documents: a publisher queues an index job for *)
(* the current version of a document, a worker claims it, calls the        *)
(* embedding provider and stores one embedding per chunk and model.        *)
(*                                                                         *)
(* The repository flushes and leaves the commit to its caller.  A caller    *)
(* either commits once, after process, or also commits the claim before it *)
(* calls the provider; `caller` says which one this deployment is.  A       *)
(* request holds the document's row lock and is one action.  Knowledge      *)
(* changes meanwhile as module PublicationLedger says.                     *)
(***************************************************************************)
EXTENDS PublicationLedger, FiniteSets

CONSTANTS
    Workers,
    Keys,          \* idempotency keys
    Models,        \* embedding models
    MaxAttempts,   \* bound on a request's max_attempts
    MaxJobs,       \* bound on the jobs
    MaxFaults,     \* bound on crashes
    NoModel,
    NoJob

\* A document's versions have distinct numbers (KnowledgePublication!KeysUnique).
VersionIds == [document: Documents, number: 1..MaxNumber]

\* (version, key) is unique in knowledge.index_jobs.
Jobs == [version: VersionIds, key: Keys]

ASSUME IndexAssumption ==
    /\ MaxAttempts \in Nat \ {0}
    /\ MaxFaults \in Nat
    /\ NoModel \notin Models
    /\ NoJob \notin Jobs

VARIABLES
    caller,      \* "once" or "claims": commits after process, or after claim too
    lapsed,      \* versions whose effective period is over
    job,         \* the committed row of every job
    embeddings,  \* the (version, model) pairs whose chunks have embeddings
    step,        \* what every worker does next
    work,        \* the job it works on
    outcome,     \* the status that it has flushed
    dropped,     \* jobs of which an attempt ended without an outcome
    faults

worker == <<step, work, outcome>>
vars == <<ledger, caller, lapsed, job, embeddings, worker, dropped, faults>>

Open == {"queued", "retry_scheduled"}
Final == {"succeeded", "dead_lettered", "cancelled"}
JobStatuses == {"absent", "running"} \cup Open \cup Final

Rows == [status: JobStatuses, attempts: 0..MaxAttempts, budget: 0..MaxAttempts,
         model: Models \cup {NoModel}]

NoRow == [status |-> "absent", attempts |-> 0, budget |-> 0, model |-> NoModel]

TypeOK ==
    /\ LedgerTypeOK
    /\ caller \in {"once", "claims"}
    /\ lapsed \subseteq VersionIds
    /\ job \in [Jobs -> Rows]
    /\ embeddings \subseteq VersionIds \X Models
    /\ step \in [Workers -> {"idle", "embed", "insert", "commit"}]
    /\ work \in [Workers -> Jobs \cup {NoJob}]
    /\ outcome \in [Workers -> {"none", "retry_scheduled", "succeeded", "dead_lettered"}]
    /\ dropped \subseteq Jobs
    /\ faults \in 0..MaxFaults

Init ==
    /\ LedgerInit
    /\ caller \in {"once", "claims"}
    /\ lapsed = {}
    /\ job = [j \in Jobs |-> NoRow]
    /\ embeddings = {}
    /\ step = [w \in Workers |-> "idle"]
    /\ work = [w \in Workers |-> NoJob]
    /\ outcome = [w \in Workers |-> "none"]
    /\ dropped = {}
    /\ faults = 0

-----------------------------------------------------------------------------
\* _is_retrievable: published, current and within its effective period.
IsRetrievable(v) ==
    /\ document[v.document] = [status |-> "published", current |-> v.number]
    /\ v \notin lapsed

Vector(j) == <<j.version, job[j].model>>

Busy(w) == step[w] # "idle"

\* The claim is committed before the provider is called.
ClaimCommitted == caller = "claims"

\* The row of j is locked.  A committed claim holds no lock while it embeds.
Locked(j) ==
    \E w \in Workers :
        /\ work[w] = j
        /\ step[w] \in IF ClaimCommitted THEN {"insert", "commit"}
                                         ELSE {"embed", "insert", "commit"}

\* work.attempt_count: the claim adds one, committed or not.
AttemptOf(w) == job[work[w]].attempts + (IF ClaimCommitted THEN 0 ELSE 1)

-----------------------------------------------------------------------------
(***************************************************************************)
(* Requests and claims.                                                    *)
(***************************************************************************)
\* queue_reindex.  An exact replay answers with the job, one with another model
\* is a conflict; both leave the database as it is.
QueueReindex(j, m, budget) ==
    /\ IsRetrievable(j.version)
    /\ job[j].status = "absent"
    /\ Cardinality({i \in Jobs : job[i].status # "absent"}) < MaxJobs
    /\ job' = [job EXCEPT ![j] =
           [status |-> "queued", attempts |-> 0, budget |-> budget, model |-> m]]
    /\ UNCHANGED <<ledger, caller, lapsed, embeddings, worker, dropped, faults>>

Begin(w, j) ==
    /\ step' = [step EXCEPT ![w] = "embed"]
    /\ work' = [work EXCEPT ![w] = j]
    /\ outcome' = [outcome EXCEPT ![w] = "none"]

Claimed(j) ==
    IF ClaimCommitted
      THEN [job EXCEPT ![j].status = "running", ![j].attempts = @ + 1]
      ELSE job

\* Mutant: the job is read without FOR UPDATE.
ClaimUnlocked(w, j) ==
    /\ ~Busy(w)
    /\ job[j].status \in Open
    /\ IsRetrievable(j.version)
    /\ job' = Claimed(j)
    /\ Begin(w, j)
    /\ UNCHANGED <<ledger, caller, lapsed, embeddings, dropped, faults>>

\* claim, of a job that is due and whose version may still be retrieved.  (A
\* published version has chunks: its sections are not blank.)
Claim(w, j) ==
    /\ ~Busy(w)
    /\ ~Locked(j)
    /\ job[j].status \in Open
    /\ IsRetrievable(j.version)
    /\ job' = Claimed(j)
    /\ Begin(w, j)
    /\ UNCHANGED <<ledger, caller, lapsed, embeddings, dropped, faults>>

\* claim, of a job whose version has become ineligible.
CancelIneligible(w, j) ==
    /\ ~Busy(w)
    /\ ~Locked(j)
    /\ job[j].status \in Open
    /\ ~IsRetrievable(j.version)
    /\ job' = [job EXCEPT ![j].status = "cancelled"]
    /\ UNCHANGED <<ledger, caller, lapsed, embeddings, worker, dropped, faults>>

-----------------------------------------------------------------------------
(***************************************************************************)
(* process.                                                                *)
(***************************************************************************)
\* The outcome is flushed, under the row's lock.
Flush(w, status) ==
    /\ step' = [step EXCEPT ![w] = "commit"]
    /\ outcome' = [outcome EXCEPT ![w] = status]
    /\ UNCHANGED work

Ended(w) ==
    /\ step' = [step EXCEPT ![w] = "idle"]
    /\ work' = [work EXCEPT ![w] = NoJob]
    /\ outcome' = [outcome EXCEPT ![w] = "none"]

\* complete, after a valid batch: an existing embedding is updated in place.
Complete(w) ==
    /\ step[w] = "embed"
    /\ IF Vector(work[w]) \in embeddings
         THEN Flush(w, "succeeded")
         ELSE step' = [step EXCEPT ![w] = "insert"] /\ UNCHANGED <<work, outcome>>
    /\ UNCHANGED <<ledger, caller, lapsed, job, embeddings, dropped, faults>>

\* Another worker has inserted the same embeddings and not committed yet.
InsertHeld(w) ==
    \E x \in Workers \ {w} :
        /\ step[x] = "commit" /\ outcome[x] = "succeeded"
        /\ Vector(work[x]) = Vector(work[w])

\* The flush of complete.
InsertEmbeddings(w) ==
    /\ step[w] = "insert"
    /\ ~InsertHeld(w)
    /\ Vector(work[w]) \notin embeddings
    /\ Flush(w, "succeeded")
    /\ UNCHANGED <<ledger, caller, lapsed, job, embeddings, dropped, faults>>

\* The flush meets the unique key of the embeddings.  The session refuses what
\* fail then asks of it, so process raises and its caller rolls back.
Collide(w) ==
    /\ step[w] = "insert"
    /\ Vector(work[w]) \in embeddings
    /\ Ended(w)
    /\ dropped' = dropped \cup {work[w]}
    /\ UNCHANGED <<ledger, caller, lapsed, job, embeddings, faults>>

\* _retry_at, for an error that is retryable.
MayRetry(w) == AttemptOf(w) < job[work[w]].budget

\* Mutant: a permanent error ends the attempt without an outcome.
FailRetryableOnly(w, retryable) ==
    /\ step[w] = "embed"
    /\ IF retryable
         THEN Flush(w, IF MayRetry(w) THEN "retry_scheduled" ELSE "dead_lettered")
         ELSE Ended(w)
    /\ UNCHANGED <<ledger, caller, lapsed, job, embeddings, dropped, faults>>

\* fail, after an error of the provider or an invalid batch.
Fail(w, retryable) ==
    /\ step[w] = "embed"
    /\ Flush(w, IF retryable /\ MayRetry(w) THEN "retry_scheduled" ELSE "dead_lettered")
    /\ UNCHANGED <<ledger, caller, lapsed, job, embeddings, dropped, faults>>

\* Mutant: a success is recorded without the embeddings.
CommitStatusOnly(w) ==
    /\ step[w] = "commit"
    /\ job' = [job EXCEPT ![work[w]].status = outcome[w],
                          ![work[w]].attempts = AttemptOf(w)]
    /\ Ended(w)
    /\ UNCHANGED <<ledger, caller, lapsed, embeddings, dropped, faults>>

\* The caller commits.
Commit(w) ==
    /\ step[w] = "commit"
    /\ job' = [job EXCEPT ![work[w]].status = outcome[w],
                          ![work[w]].attempts = AttemptOf(w)]
    /\ embeddings' = embeddings \cup
           (IF outcome[w] = "succeeded" THEN {Vector(work[w])} ELSE {})
    /\ Ended(w)
    /\ UNCHANGED <<ledger, caller, lapsed, dropped, faults>>

\* The worker dies, or its connection is lost.
Crash(w) ==
    /\ Busy(w)
    /\ faults < MaxFaults
    /\ faults' = faults + 1
    /\ Ended(w)
    /\ dropped' = dropped \cup {work[w]}
    /\ UNCHANGED <<ledger, caller, lapsed, job, embeddings>>

-----------------------------------------------------------------------------
\* Meanwhile: knowledge is published and expired, and days pass.
KnowledgeStep ==
    /\ LedgerNext
    /\ UNCHANGED <<caller, lapsed, job, embeddings, worker, dropped, faults>>

Lapse(v) ==
    /\ lapsed' = lapsed \cup {v}
    /\ UNCHANGED <<ledger, caller, job, embeddings, worker, dropped, faults>>

Work(w) ==
    \/ \E j \in Jobs : Claim(w, j) \/ CancelIneligible(w, j)
    \/ Complete(w)
    \/ InsertEmbeddings(w)
    \/ Collide(w)
    \/ \E retryable \in BOOLEAN : Fail(w, retryable)
    \/ Commit(w)
    \/ Crash(w)

Next ==
    \/ \E j \in Jobs, m \in Models, budget \in 1..MaxAttempts : QueueReindex(j, m, budget)
    \/ \E w \in Workers : Work(w)
    \/ KnowledgeStep
    \/ \E v \in versions : Lapse([document |-> v.document, number |-> v.number])

Spec == Init /\ [][Next]_vars

-----------------------------------------------------------------------------
(* Properties.                                                             *)

\* No two workers process one job, whenever the caller commits the claim.
OneWorkerPerJob ==
    \A w, x \in Workers : Busy(w) /\ work[w] = work[x] => w = x

\* A job is only left running, with nobody at work on it, by a worker that died
\* or whose insert collided after its claim was committed; every other attempt
\* ends with an outcome, and a caller that commits once never leaves one.
StrandedOnlyIfDropped ==
    \A j \in Jobs :
        job[j].status = "running" /\ (\A w \in Workers : work[w] # j)
            => j \in dropped /\ ClaimCommitted

\* x is a version whose extraction a reviewer has approved, for good.
Reviewed(x) ==
    \E v \in versions : /\ v.document = x.document /\ v.number = x.number
                        /\ review[v.item].status = "approved"

\* Only what a reviewer has approved is ever embedded: between the review and the
\* embedding stand a publication, a request and a worker, none of which asks for
\* the review again, and each of which may be overtaken by the next version.
IndexedIsReviewed == \A e \in embeddings : Reviewed(e[1])

\* What every request has come to, in the terms of the ledger.
StateOf(status) ==
    CASE status \in Open -> "waiting"
      [] status = "running" -> "taken"
      [] status = "succeeded" -> "embedded"
      [] status = "dead_lettered" -> "dead"
      [] OTHER -> status

WantedBy(j) == IF job[j].status = "absent" THEN NoJob ELSE Vector(j)

Board == INSTANCE IndexLedger WITH
    Requests <- Jobs,
    Vectors <- VersionIds \X Models,
    MaxBudget <- MaxAttempts,
    NoVector <- NoJob,
    state <- [j \in Jobs |-> StateOf(job[j].status)],
    remaining <- [j \in Jobs |-> job[j].budget - job[j].attempts],
    wanted <- [j \in Jobs |-> WantedBy(j)],
    vectors <- embeddings

\* Whoever commits when, and whatever collides or crashes, the rows that others
\* see change as the ledger of index jobs allows.
ImplementsIndexLedger == Board!BoardSpec

-----------------------------------------------------------------------------
(* The inductive invariant.                                                *)

\* A job that waits has an attempt left, and runs in the open only when claims
\* are committed.
RowOK(j) ==
    /\ job[j].status = "absent" => job[j] = NoRow
    /\ job[j].status # "absent" => job[j].model \in Models
    /\ job[j].status \in Open => job[j].attempts < job[j].budget
    /\ job[j].status = "running" => ClaimCommitted

\* A worker's job stays claimed until its outcome is committed.
WorkerOK(w) ==
    /\ Busy(w) <=> work[w] # NoJob
    /\ Busy(w) /\ ClaimCommitted => job[work[w]].status = "running"
    /\ Busy(w) /\ ~ClaimCommitted => job[work[w]].status \in Open
    /\ step[w] = "commit" => outcome[w] # "none"
    /\ step[w] = "commit" /\ outcome[w] = "retry_scheduled" => MayRetry(w)

IndexInv ==
    /\ TypeOK
    /\ \A j \in Jobs : RowOK(j)
    /\ \A w \in Workers : WorkerOK(w)
    /\ OneWorkerPerJob
    /\ StrandedOnlyIfDropped

\* Every job is of a version that was reviewed.
ReviewedInv ==
    /\ LedgerInv
    /\ \A j \in Jobs : job[j].status # "absent" => Reviewed(j.version)
    /\ IndexedIsReviewed

=============================================================================
