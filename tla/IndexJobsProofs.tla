--------------------------- MODULE IndexJobsProofs ---------------------------
(***************************************************************************)
(* Proofs about IndexJobs, for any workers, documents, models and bounds,  *)
(* and for both ways a caller may commit: its invariants, and that it      *)
(* implements the ledger of index jobs.                                    *)
(***************************************************************************)
EXTENDS IndexJobs, PublicationLedgerProofs, Integers, TLAPS

LEMMA InitIndex == Init => IndexInv
<1> SUFFICES ASSUME Init PROVE IndexInv
    OBVIOUS
<1>1. NoRow \in Rows
    BY IndexAssumption DEF NoRow, Rows, JobStatuses
<1>2. TypeOK
    BY <1>1, LedgerAssumption, IndexAssumption
       DEF Init, LedgerInit, TypeOK, LedgerTypeOK, ReviewStatuses, DocumentStatuses
<1>3. \A j \in Jobs : RowOK(j)
    BY DEF Init, RowOK, NoRow, Open
<1>4. \A w \in Workers : WorkerOK(w)
    BY DEF Init, WorkerOK, Busy
<1>5. OneWorkerPerJob /\ StrandedOnlyIfDropped
    BY DEF Init, OneWorkerPerJob, StrandedOnlyIfDropped, Busy, NoRow
<1>6. QED
    BY <1>2, <1>3, <1>4, <1>5 DEF IndexInv

-----------------------------------------------------------------------------
\* A change of one row that no worker holds.
LEMMA FreeRowStep ==
    ASSUME IndexInv, NEW j \in Jobs, NEW r \in Rows, \A w \in Workers : work[w] # j,
           job' = [job EXCEPT ![j] = r],
           r.status # "running", RowOK(j)',
           UNCHANGED <<ledger, caller, lapsed, embeddings, worker, dropped, faults>>
    PROVE  IndexInv'
<1> USE DEF IndexInv, worker, ledger
<1>1. \A i \in Jobs \ {j} : job'[i] = job[i]
    BY DEF TypeOK
<1>2. TypeOK'
    BY DEF TypeOK, LedgerTypeOK
<1>3. \A i \in Jobs : RowOK(i)'
    BY <1>1 DEF RowOK, ClaimCommitted
<1>4. \A w \in Workers : WorkerOK(w)'
    <2> SUFFICES ASSUME NEW w \in Workers PROVE WorkerOK(w)'
        OBVIOUS
    <2>1. CASE work[w] = NoJob
        BY <2>1, IndexAssumption DEF WorkerOK, Busy, TypeOK
    <2>2. CASE work[w] # NoJob
        <3>1. job'[work[w]] = job[work[w]]
            BY <1>1, <2>2 DEF TypeOK
        <3>2. QED
            BY <2>2, <3>1 DEF WorkerOK, Busy, ClaimCommitted, MayRetry, AttemptOf
    <2>3. QED
        BY <2>1, <2>2
<1>5. OneWorkerPerJob'
    BY DEF OneWorkerPerJob, Busy
<1>6. StrandedOnlyIfDropped'
    BY <1>1 DEF StrandedOnlyIfDropped, ClaimCommitted, TypeOK
<1>7. QED
    BY <1>2, <1>3, <1>4, <1>5, <1>6

LEMMA QueueStep ==
    ASSUME IndexInv, NEW j \in Jobs, NEW m \in Models, NEW budget \in 1..MaxAttempts,
           QueueReindex(j, m, budget)
    PROVE  IndexInv'
<1> DEFINE r == [status |-> "queued", attempts |-> 0, budget |-> budget, model |-> m]
<1>1. r \in Rows /\ r.status # "running"
    BY IndexAssumption DEF Rows, JobStatuses, Open
<1>2. \A w \in Workers : work[w] # j
    BY IndexAssumption DEF QueueReindex, IndexInv, WorkerOK, Open, TypeOK
<1>3. job' = [job EXCEPT ![j] = r] /\ job'[j] = r
    BY DEF QueueReindex, IndexInv, TypeOK
<1>4. RowOK(j)'
    BY <1>3, IndexAssumption DEF RowOK, Open
<1>5. QED
    BY <1>1, <1>2, <1>3, <1>4, FreeRowStep DEF QueueReindex

\* Nobody is at work on a job that may be claimed.
LEMMA ClaimableIsFree ==
    ASSUME IndexInv, NEW j \in Jobs, job[j].status \in Open, ~Locked(j)
    PROVE  \A w \in Workers : work[w] # j
<1> SUFFICES ASSUME NEW w \in Workers, work[w] = j PROVE FALSE
    OBVIOUS
<1>1. Busy(w)
    BY IndexAssumption DEF IndexInv, WorkerOK
<1>2. CASE ClaimCommitted
    BY <1>1, <1>2 DEF IndexInv, WorkerOK, Open
<1>3. CASE ~ClaimCommitted
    BY <1>1, <1>3 DEF IndexInv, TypeOK, Locked, Busy
<1>4. QED
    BY <1>2, <1>3

LEMMA CancelStep ==
    ASSUME IndexInv, NEW w \in Workers, NEW j \in Jobs, CancelIneligible(w, j)
    PROVE  IndexInv'
<1> DEFINE r == [job[j] EXCEPT !.status = "cancelled"]
<1>1. job[j] \in Rows /\ job[j].status # "absent" /\ job[j].model \in Models
    BY DEF IndexInv, TypeOK, RowOK, CancelIneligible, Open
<1>2. r \in Rows /\ r.status = "cancelled" /\ r.model = job[j].model
    BY <1>1 DEF Rows, JobStatuses, Final
<1>3. job' = [job EXCEPT ![j] = r] /\ job'[j] = r
    BY DEF CancelIneligible, IndexInv, TypeOK
<1>4. RowOK(j)'
    BY <1>1, <1>2, <1>3 DEF RowOK, Open
<1>5. \A x \in Workers : work[x] # j
    BY ClaimableIsFree DEF CancelIneligible
<1>6. QED
    BY <1>2, <1>3, <1>4, <1>5, FreeRowStep DEF CancelIneligible

-----------------------------------------------------------------------------
LEMMA ClaimStep ==
    ASSUME IndexInv, NEW w \in Workers, NEW j \in Jobs, Claim(w, j)
    PROVE  IndexInv'
<1> USE DEF IndexInv
<1>1. \A x \in Workers : work[x] # j
    BY ClaimableIsFree DEF Claim
<1>2. /\ job[j] \in Rows /\ job[j].status \in Open /\ job[j].model \in Models
      /\ job[j].attempts < job[j].budget
    BY DEF TypeOK, RowOK, Claim, Open
<1>3. /\ job' \in [Jobs -> Rows]
      /\ \A i \in Jobs \ {j} : job'[i] = job[i]
      /\ ClaimCommitted => job'[j].status = "running"
      /\ ~ClaimCommitted => job'[j] = job[j]
      /\ job'[j].model = job[j].model
    BY <1>2 DEF Claim, Claimed, TypeOK, Rows, JobStatuses
<1>4. /\ step' \in [Workers -> {"idle", "embed", "insert", "commit"}]
      /\ work' \in [Workers -> Jobs \cup {NoJob}]
      /\ step'[w] = "embed" /\ work'[w] = j /\ outcome'[w] = "none"
      /\ \A x \in Workers \ {w} : step'[x] = step[x] /\ work'[x] = work[x] /\ outcome'[x] = outcome[x]
    BY DEF Claim, Begin, TypeOK
<1>5. TypeOK'
    BY <1>3, <1>4 DEF TypeOK, LedgerTypeOK, ledger, Claim, Begin
<1>6. \A i \in Jobs : RowOK(i)'
    <2>1. RowOK(j)'
        BY <1>2, <1>3 DEF RowOK, Open, Claim, ClaimCommitted
    <2>2. QED
        BY <1>3, <2>1 DEF RowOK, Claim, ClaimCommitted
<1>7. \A x \in Workers : WorkerOK(x)'
    <2>1. WorkerOK(w)'
        BY <1>2, <1>3, <1>4, IndexAssumption DEF WorkerOK, Busy, Claim, ClaimCommitted
    <2>2. ASSUME NEW x \in Workers \ {w} PROVE WorkerOK(x)'
        <3>1. work[x] # NoJob => job'[work[x]] = job[work[x]]
            BY <1>1, <1>3 DEF TypeOK
        <3>2. QED
            BY <1>4, <3>1 DEF WorkerOK, Busy, Claim, ClaimCommitted, MayRetry, AttemptOf
    <2>3. QED
        BY <2>1, <2>2
<1>8. OneWorkerPerJob'
    BY <1>1, <1>4 DEF OneWorkerPerJob, Busy
<1>9. StrandedOnlyIfDropped'
    <2>1. work[w] = NoJob
        BY DEF Claim, WorkerOK
    <2>2. \A i \in Jobs \ {j} : (\A x \in Workers : work'[x] # i) => \A x \in Workers : work[x] # i
        BY <1>4, <2>1, IndexAssumption
    <2>3. QED
        BY <1>3, <1>4, <2>2 DEF StrandedOnlyIfDropped, Claim, ClaimCommitted
<1>10. QED
    BY <1>5, <1>6, <1>7, <1>8, <1>9

\* A worker goes on with its job, and the rows stay.
LEMMA WorkOnStep ==
    ASSUME IndexInv, NEW w \in Workers, Busy(w), UNCHANGED <<work, job>>,
           NEW q \in {"insert", "commit"}, step' = [step EXCEPT ![w] = q],
           NEW o \in {"none", "retry_scheduled", "succeeded", "dead_lettered"},
           outcome' = [outcome EXCEPT ![w] = o],
           q = "commit" => o # "none" /\ (o = "retry_scheduled" => MayRetry(w)),
           UNCHANGED <<ledger, caller, lapsed, embeddings, dropped, faults>>
    PROVE  IndexInv'
<1> USE DEF IndexInv, ledger
<1>1. TypeOK'
    BY DEF TypeOK, LedgerTypeOK
<1>2. \A j \in Jobs : RowOK(j)'
    BY DEF RowOK, ClaimCommitted
<1>3. \A x \in Workers : WorkerOK(x)'
    BY DEF WorkerOK, TypeOK, Busy, ClaimCommitted, MayRetry, AttemptOf
<1>4. OneWorkerPerJob'
    BY DEF OneWorkerPerJob, Busy, TypeOK
<1>5. StrandedOnlyIfDropped'
    BY DEF StrandedOnlyIfDropped, ClaimCommitted
<1>6. QED
    BY <1>1, <1>2, <1>3, <1>4, <1>5

LEMMA ProcessStep ==
    ASSUME IndexInv, NEW w \in Workers,
           \/ Complete(w) \/ InsertEmbeddings(w)
           \/ \E retryable \in BOOLEAN : Fail(w, retryable)
    PROVE  IndexInv'
<1>1. CASE Complete(w)
    <2>1. CASE Vector(work[w]) \in embeddings
        BY <1>1, <2>1, WorkOnStep DEF Complete, Flush, Busy
    <2>2. CASE Vector(work[w]) \notin embeddings
        <3>1. /\ outcome[w] \in {"none", "retry_scheduled", "succeeded", "dead_lettered"}
              /\ outcome' = [outcome EXCEPT ![w] = outcome[w]]
            BY <1>1, <2>2 DEF Complete, IndexInv, TypeOK
        <3>2. QED
            BY <1>1, <2>2, <3>1, WorkOnStep DEF Complete, Busy
    <2>3. QED
        BY <2>1, <2>2
<1>2. CASE InsertEmbeddings(w)
    BY <1>2, WorkOnStep DEF InsertEmbeddings, Flush, Busy
<1>3. ASSUME NEW retryable \in BOOLEAN, Fail(w, retryable) PROVE IndexInv'
    BY <1>3, WorkOnStep DEF Fail, Flush, Busy
<1>4. QED
    BY <1>1, <1>2, <1>3

\* A worker ends without an outcome.
LEMMA DropStep ==
    ASSUME IndexInv, NEW w \in Workers, Collide(w) \/ Crash(w)
    PROVE  IndexInv'
<1> USE DEF IndexInv, ledger
<1>1. /\ Busy(w) /\ Ended(w) /\ work[w] \in Jobs /\ dropped' = dropped \cup {work[w]}
      /\ UNCHANGED <<ledger, caller, lapsed, job, embeddings>>
    BY DEF Collide, Crash, Busy, TypeOK, WorkerOK
<1>2. faults' \in 0..MaxFaults
    BY IndexAssumption DEF Collide, Crash, TypeOK
<1>3. TypeOK'
    BY <1>1, <1>2 DEF TypeOK, LedgerTypeOK, Ended
<1>4. \A j \in Jobs : RowOK(j)'
    BY <1>1 DEF RowOK, ClaimCommitted
<1>5. \A x \in Workers : WorkerOK(x)'
    BY <1>1 DEF Ended, WorkerOK, TypeOK, Busy, ClaimCommitted, MayRetry, AttemptOf
<1>6. OneWorkerPerJob'
    <2>1. /\ step'[w] = "idle" /\ work'[w] = NoJob
          /\ \A x \in Workers \ {w} : step'[x] = step[x] /\ work'[x] = work[x]
        BY <1>1 DEF Ended, TypeOK
    <2>2. QED
        BY <2>1 DEF OneWorkerPerJob, WorkerOK, Busy
<1>7. StrandedOnlyIfDropped'
    BY <1>1 DEF StrandedOnlyIfDropped, ClaimCommitted, Ended, TypeOK, RowOK
<1>8. QED
    BY <1>3, <1>4, <1>5, <1>6, <1>7

LEMMA CommitStep ==
    ASSUME IndexInv, NEW w \in Workers, Commit(w)
    PROVE  IndexInv'
<1> USE DEF IndexInv, ledger
<1>0. PICK j \in Jobs : j = work[w]
    BY DEF Commit, TypeOK, WorkerOK, Busy
<1>1. /\ job[j] \in Rows /\ job[j].status \in Open \cup {"running"}
      /\ job[j].model \in Models /\ outcome[w] \in {"retry_scheduled", "succeeded", "dead_lettered"}
      /\ Ended(w) /\ caller' = caller
    BY <1>0 DEF Commit, TypeOK, WorkerOK, Busy, RowOK, Open
<1>2. /\ AttemptOf(w) \in 0..MaxAttempts
      /\ outcome[w] = "retry_scheduled" => AttemptOf(w) < job[j].budget
    <2>1. /\ job[j].attempts \in 0..MaxAttempts /\ job[j].budget \in 0..MaxAttempts
          /\ ~ClaimCommitted => job[j].attempts < job[j].budget
        BY <1>0, <1>1 DEF Rows, RowOK, WorkerOK, Commit, Busy
    <2>2. QED
        BY <1>0, <2>1, IndexAssumption DEF AttemptOf, WorkerOK, Commit, MayRetry
<1>3. /\ job' \in [Jobs -> Rows]
      /\ \A i \in Jobs \ {j} : job'[i] = job[i]
      /\ job'[j].status = outcome[w] /\ job'[j].attempts = AttemptOf(w)
      /\ job'[j].budget = job[j].budget /\ job'[j].model = job[j].model
    BY <1>0, <1>1, <1>2 DEF Commit, TypeOK, Rows, JobStatuses, Open, Final
<1>4. /\ step'[w] = "idle" /\ work'[w] = NoJob /\ outcome'[w] = "none"
      /\ \A x \in Workers \ {w} : step'[x] = step[x] /\ work'[x] = work[x] /\ outcome'[x] = outcome[x]
    BY <1>1 DEF Ended, TypeOK
<1>5. \A x \in Workers \ {w} : work[x] # j
    BY <1>0, <1>1, IndexAssumption DEF OneWorkerPerJob, WorkerOK, Commit, Busy
<1>6. TypeOK'
    <2>1. embeddings' \subseteq VersionIds \X Models
        BY <1>0, <1>1 DEF Commit, Vector, Jobs, TypeOK
    <2>2. QED
        BY <1>1, <1>3, <2>1 DEF TypeOK, LedgerTypeOK, Ended, Commit
<1>7. \A i \in Jobs : RowOK(i)'
    <2>1. RowOK(j)'
        BY <1>1, <1>2, <1>3 DEF RowOK, Open
    <2>2. QED
        BY <1>1, <1>3, <2>1 DEF RowOK, ClaimCommitted
<1>8. \A x \in Workers : WorkerOK(x)'
    <2>1. WorkerOK(w)'
        BY <1>4 DEF WorkerOK, Busy
    <2>2. ASSUME NEW x \in Workers \ {w} PROVE WorkerOK(x)'
        <3>1. work[x] # NoJob => job'[work[x]] = job[work[x]]
            BY <1>3, <1>5 DEF TypeOK
        <3>2. QED
            BY <1>1, <1>4, <3>1 DEF WorkerOK, Busy, ClaimCommitted, MayRetry, AttemptOf
    <2>3. QED
        BY <2>1, <2>2
<1>9. OneWorkerPerJob'
    BY <1>4 DEF OneWorkerPerJob, WorkerOK, Busy
<1>10. StrandedOnlyIfDropped'
    BY <1>1, <1>3, <1>4 DEF StrandedOnlyIfDropped, Commit, ClaimCommitted
<1>11. QED
    BY <1>6, <1>7, <1>8, <1>9, <1>10

\* Knowledge changes, days pass, or nothing happens.
LEMMA MeanwhileStep ==
    ASSUME IndexInv,
           \/ KnowledgeStep
           \/ \E v \in versions : Lapse([document |-> v.document, number |-> v.number])
           \/ UNCHANGED vars
    PROVE  IndexInv'
<1>1. /\ UNCHANGED <<caller, job, embeddings, worker, dropped, faults>>
      /\ LedgerTypeOK' /\ lapsed' \subseteq VersionIds
    <2>1. LedgerTypeOK /\ lapsed \subseteq VersionIds
        BY DEF IndexInv, TypeOK
    <2>2. CASE KnowledgeStep
        BY <2>1, <2>2, KnowledgeTypes DEF KnowledgeStep
    <2>3. ASSUME NEW v \in versions, Lapse([document |-> v.document, number |-> v.number])
          PROVE  <1>1!1 /\ LedgerTypeOK' /\ lapsed' \subseteq VersionIds
        BY <2>1, <2>3 DEF Lapse, LedgerTypeOK, ledger, Candidates, VersionIds
    <2>4. CASE UNCHANGED vars
        BY <2>1, <2>4 DEF vars, ledger, LedgerTypeOK
    <2>5. QED
        BY <2>2, <2>3, <2>4
<1>2. QED
    BY <1>1 DEF worker, IndexInv, TypeOK, RowOK, WorkerOK, OneWorkerPerJob, StrandedOnlyIfDropped,
       Busy, ClaimCommitted, MayRetry, AttemptOf

LEMMA IndexNext == IndexInv /\ [Next]_vars => IndexInv'
<1> SUFFICES ASSUME IndexInv, [Next]_vars PROVE IndexInv'
    OBVIOUS
<1>1. ASSUME NEW w \in Workers, Work(w) PROVE IndexInv'
    BY <1>1, ClaimStep, CancelStep, ProcessStep, DropStep, CommitStep DEF Work
<1>2. QED
    BY <1>1, QueueStep, MeanwhileStep DEF Next

\* The invariant, for any workers, keys, models and bounds, and either caller.
THEOREM IndexInvariant == Spec => []IndexInv
BY InitIndex, IndexNext, PTL DEF Spec

\* Types of the rows, the embeddings and the workers.
THEOREM TypeCorrect == Spec => []TypeOK
<1>1. IndexInv => TypeOK
    BY DEF IndexInv
<1>2. QED
    BY <1>1, IndexInvariant, PTL

\* The row lock of claim keeps two workers from one job: by itself when the
\* caller commits once, and with the status running when it commits the claim.
THEOREM WorkersExclude == Spec => []OneWorkerPerJob
<1>1. IndexInv => OneWorkerPerJob
    BY DEF IndexInv
<1>2. QED
    BY <1>1, IndexInvariant, PTL

\* Whatever a worker does short of dying or colliding, it leaves its job with an
\* outcome.
THEOREM OnlyDroppedAreStranded == Spec => []StrandedOnlyIfDropped
<1>1. IndexInv => StrandedOnlyIfDropped
    BY DEF IndexInv
<1>2. QED
    BY <1>1, IndexInvariant, PTL

-----------------------------------------------------------------------------
\* What was reviewed stays so while knowledge changes.
LEMMA ReviewedStays ==
    ASSUME LedgerInv, [LedgerNext]_ledger, NEW x, Reviewed(x)
    PROVE  LedgerInv' /\ Reviewed(x)'
<1>1. CASE LedgerNext
    BY <1>1, KnowledgeStays DEF Reviewed
<1>2. CASE UNCHANGED ledger
    BY <1>2 DEF ledger, Reviewed, LedgerInv, LedgerTypeOK
<1>3. QED
    BY <1>1, <1>2

\* A step requests a job of a published version, or embeds the version of a job.
LEMMA ReviewedNext ==
    ASSUME IndexInv, ReviewedInv, [Next]_vars
    PROVE  ReviewedInv'
<1>1. [LedgerNext]_ledger
    BY DEF Next, QueueReindex, Work, Claim, CancelIneligible, Complete, InsertEmbeddings, Collide,
       Fail, Commit, Crash, KnowledgeStep, Lapse, vars
<1>2. LedgerInv'
    <2>1. CASE LedgerNext
        BY <2>1, KnowledgeStays DEF ReviewedInv
    <2>2. CASE UNCHANGED ledger
        BY <2>2 DEF ledger, ReviewedInv, LedgerInv, LedgerTypeOK
    <2>3. QED
        BY <1>1, <2>1, <2>2
<1>3. \A j \in Jobs : job'[j].status # "absent" => Reviewed(j.version)
    <2> SUFFICES ASSUME NEW j \in Jobs, job'[j].status # "absent", job[j].status = "absent"
                 PROVE  Reviewed(j.version)
        BY DEF ReviewedInv
    <2>1. ASSUME NEW i \in Jobs, NEW m \in Models, NEW budget \in 1..MaxAttempts,
                 QueueReindex(i, m, budget)
          PROVE  Reviewed(j.version)
        <3>1. i = j
            BY <2>1 DEF QueueReindex, IndexInv, TypeOK
        <3>2. /\ j.version.document \in Documents
              /\ document[j.version.document].status = "published"
              /\ document[j.version.document].current = j.version.number
            BY <2>1, <3>1 DEF QueueReindex, IsRetrievable, Jobs, VersionIds
        <3>3. QED
            BY <3>2 DEF ReviewedInv, LedgerInv, Reviewed
    <2>2. ASSUME NEW w \in Workers, Work(w)
          PROVE  FALSE
        BY <2>2 DEF Work, Claim, Claimed, CancelIneligible, Complete, InsertEmbeddings, Collide,
           Fail, Commit, Crash, IndexInv, TypeOK, WorkerOK, Busy, Open
    <2>3. QED
        BY <2>1, <2>2 DEF Next, KnowledgeStep, Lapse, vars
<1>4. \A e \in embeddings' : Reviewed(e[1])
    <2>1. CASE embeddings' = embeddings
        BY <2>1 DEF ReviewedInv, IndexedIsReviewed
    <2>2. ASSUME NEW w \in Workers, Commit(w)
          PROVE  \A e \in embeddings' : Reviewed(e[1])
        <3>1. work[w] \in Jobs /\ job[work[w]].status # "absent"
            BY <2>2 DEF Commit, IndexInv, TypeOK, WorkerOK, Busy, Open
        <3>2. Reviewed(work[w].version)
            BY <3>1 DEF ReviewedInv
        <3>3. QED
            BY <2>2, <3>2 DEF Commit, Vector, ReviewedInv, IndexedIsReviewed
    <2>3. QED
        BY <2>1, <2>2 DEF Next, QueueReindex, Work, Claim, CancelIneligible, Complete,
           InsertEmbeddings, Collide, Fail, Crash, KnowledgeStep, Lapse, vars
<1>5. QED
    BY <1>1, <1>2, <1>3, <1>4, ReviewedStays DEF ReviewedInv, IndexedIsReviewed

\* No request, retry or late worker embeds what no reviewer has approved.
THEOREM EmbeddingsAreReviewed == Spec => []IndexedIsReviewed
<1>1. Init => ReviewedInv
    BY KnowledgeStart DEF Init, ReviewedInv, IndexedIsReviewed, NoRow
<1>2. IndexInv /\ ReviewedInv /\ [Next]_vars => ReviewedInv'
    BY ReviewedNext
<1>3. ReviewedInv => IndexedIsReviewed
    BY DEF ReviewedInv
<1>4. QED
    BY <1>1, <1>2, <1>3, IndexInvariant, PTL DEF Spec

-----------------------------------------------------------------------------
(* The refinement.                                                         *)

LEMMA InitBoard == Init => Board!BoardInit
BY DEF Init, NoRow, Board!BoardInit, StateOf, WantedBy, Open

\* A step that changes one row changes one request of the ledger.
LEMMA OneRequest ==
    ASSUME TypeOK, NEW j \in Jobs, \A i \in Jobs \ {j} : job'[i] = job[i]
    PROVE  /\ [i \in Jobs |-> StateOf(job'[i].status)] =
                 [[i \in Jobs |-> StateOf(job[i].status)] EXCEPT ![j] = StateOf(job'[j].status)]
           /\ [i \in Jobs |-> job'[i].budget - job'[i].attempts] =
                 [[i \in Jobs |-> job[i].budget - job[i].attempts]
                     EXCEPT ![j] = job'[j].budget - job'[j].attempts]
           /\ [i \in Jobs |-> WantedBy(i)'] =
                 [[i \in Jobs |-> WantedBy(i)] EXCEPT ![j] = WantedBy(j)']
<1>1. \A i \in Jobs \ {j} : WantedBy(i)' = WantedBy(i)
    BY DEF WantedBy, Vector
<1>2. QED
    BY <1>1

LEMMA StatesMapped ==
    /\ \A s \in Open : StateOf(s) = "waiting"
    /\ StateOf("running") = "taken" /\ StateOf("succeeded") = "embedded"
    /\ StateOf("dead_lettered") = "dead" /\ StateOf("cancelled") = "cancelled"
    /\ StateOf("absent") = "absent"
BY DEF StateOf, Open

LEMMA QueueImplements ==
    ASSUME IndexInv, NEW j \in Jobs, NEW m \in Models, NEW budget \in 1..MaxAttempts,
           QueueReindex(j, m, budget)
    PROVE  Board!BoardNext
<1>1. /\ \A i \in Jobs \ {j} : job'[i] = job[i]
      /\ job[j].status = "absent"
      /\ job'[j] = [status |-> "queued", attempts |-> 0, budget |-> budget, model |-> m]
      /\ UNCHANGED embeddings
    BY DEF QueueReindex, IndexInv, TypeOK
<1>2. /\ StateOf(job[j].status) = "absent" /\ StateOf(job'[j].status) = "waiting"
      /\ job'[j].budget - job'[j].attempts = budget
    BY <1>1, StatesMapped DEF Open
<1>3. WantedBy(j)' = <<j.version, m>> /\ <<j.version, m>> \in VersionIds \X Models
    BY <1>1 DEF WantedBy, Vector, Jobs
<1>4. Board!Accept(j, budget, <<j.version, m>>)
    BY <1>1, <1>2, <1>3, OneRequest DEF IndexInv, Board!Accept
<1>5. QED
    BY <1>3, <1>4 DEF Board!BoardNext

LEMMA ClaimImplements ==
    ASSUME IndexInv, NEW w \in Workers, NEW j \in Jobs, Claim(w, j)
    PROVE  Board!BoardNext \/ UNCHANGED Board!board
<1>1. CASE ClaimCommitted
    <2>1. /\ \A i \in Jobs \ {j} : job'[i] = job[i]
          /\ job[j] \in Rows /\ job[j].status \in Open
          /\ job'[j] = [job[j] EXCEPT !.status = "running", !.attempts = @ + 1]
          /\ UNCHANGED embeddings
        BY <1>1 DEF Claim, Claimed, IndexInv, TypeOK
    <2>2. /\ StateOf(job[j].status) = "waiting" /\ StateOf(job'[j].status) = "taken"
          /\ job'[j].budget - job'[j].attempts = job[j].budget - job[j].attempts - 1
        BY <2>1, StatesMapped, IndexAssumption DEF Rows
    <2>3. WantedBy(j)' = WantedBy(j)
        BY <2>1 DEF WantedBy, Vector, Rows, Open
    <2>4. Board!Take(j)
        BY <2>1, <2>2, <2>3, OneRequest DEF IndexInv, Board!Take
    <2>5. QED
        BY <2>4 DEF Board!BoardNext
<1>2. CASE ~ClaimCommitted
    BY <1>2 DEF Claim, Claimed, Board!board, WantedBy, Vector
<1>3. QED
    BY <1>1, <1>2

LEMMA CancelImplements ==
    ASSUME IndexInv, NEW w \in Workers, NEW j \in Jobs, CancelIneligible(w, j)
    PROVE  Board!BoardNext
<1>1. /\ \A i \in Jobs \ {j} : job'[i] = job[i]
      /\ job[j] \in Rows /\ job[j].status \in Open
      /\ job'[j] = [job[j] EXCEPT !.status = "cancelled"]
      /\ UNCHANGED embeddings
    BY DEF CancelIneligible, IndexInv, TypeOK
<1>2. /\ StateOf(job[j].status) = "waiting" /\ StateOf(job'[j].status) = "cancelled"
      /\ job'[j].budget - job'[j].attempts = job[j].budget - job[j].attempts
      /\ WantedBy(j)' = WantedBy(j)
    BY <1>1, StatesMapped DEF WantedBy, Vector, Rows, Open
<1>3. Board!Cancel(j)
    BY <1>1, <1>2, OneRequest DEF IndexInv, Board!Cancel
<1>4. QED
    BY <1>3 DEF Board!BoardNext

LEMMA CommitImplements ==
    ASSUME IndexInv, NEW w \in Workers, Commit(w)
    PROVE  Board!BoardNext
<1>0. PICK j \in Jobs : j = work[w]
    BY DEF Commit, IndexInv, TypeOK, WorkerOK, Busy
<1>1. /\ \A i \in Jobs \ {j} : job'[i] = job[i]
      /\ job[j] \in Rows /\ job[j].status # "absent" /\ WorkerOK(w) /\ Busy(w)
      /\ job'[j] = [job[j] EXCEPT !.status = outcome[w], !.attempts = AttemptOf(w)]
      /\ outcome[w] \in {"retry_scheduled", "succeeded", "dead_lettered"}
      /\ step[w] = "commit"
      /\ MayRetry(w) <=> AttemptOf(w) < job[j].budget
      /\ embeddings' = embeddings \cup (IF outcome[w] = "succeeded" THEN {Vector(j)} ELSE {})
    BY <1>0 DEF Commit, IndexInv, TypeOK, WorkerOK, Busy, Open, MayRetry
<1>2. WantedBy(j)' = WantedBy(j) /\ WantedBy(j) = Vector(j)
    BY <1>1 DEF WantedBy, Vector, Rows
<1> DEFINE left == job[j].budget - AttemptOf(w)
<1>3. /\ job'[j].budget - job'[j].attempts = left
      /\ outcome[w] = "retry_scheduled" => left > 0
    <2>1. job[j].budget \in Int /\ job[j].attempts \in Int /\ AttemptOf(w) \in Int
        BY <1>0, <1>1, IndexAssumption DEF Rows, AttemptOf
    <2>2. job'[j].budget = job[j].budget /\ job'[j].attempts = AttemptOf(w)
        BY <1>1 DEF Rows
    <2>3. outcome[w] = "retry_scheduled" => AttemptOf(w) < job[j].budget
        BY <1>1 DEF WorkerOK
    <2>4. QED
        BY <2>1, <2>2, <2>3
<1>4. StateOf(job'[j].status) = CASE outcome[w] = "retry_scheduled" -> "waiting"
                                  [] outcome[w] = "succeeded" -> "embedded"
                                  [] OTHER -> "dead"
    BY <1>1, StatesMapped DEF Rows, Open
<1>5. Board!Conclude(j, left)
    BY <1>1, <1>2, <1>3, <1>4, OneRequest DEF IndexInv, Board!Conclude
<1>6. CASE ClaimCommitted
    <2>1. StateOf(job[j].status) = "taken"
        BY <1>0, <1>1, <1>6, StatesMapped DEF WorkerOK
    <2>2. left = job[j].budget - job[j].attempts
        <3>1. job[j].budget \in Int /\ job[j].attempts \in Int
            BY <1>1, IndexAssumption DEF Rows
        <3>2. QED
            BY <1>0, <1>6, <3>1 DEF AttemptOf
    <2>3. [i \in Jobs |-> job'[i].budget - job'[i].attempts] =
             [i \in Jobs |-> job[i].budget - job[i].attempts]
        BY <1>1, <1>3, <2>2
    <2>4. Board!Finish(j)
        BY <1>5, <2>1, <2>2, <2>3 DEF Board!Finish
    <2>5. QED
        BY <2>4 DEF Board!BoardNext
<1>7. CASE ~ClaimCommitted
    <2>1. StateOf(job[j].status) = "waiting" /\ left = job[j].budget - job[j].attempts - 1
        <3>1. job[j].budget \in Int /\ job[j].attempts \in Int
            BY <1>1, IndexAssumption DEF Rows
        <3>2. QED
            BY <1>0, <1>1, <1>7, <3>1, StatesMapped DEF WorkerOK, AttemptOf
    <2>2. Board!Attempt(j)
        BY <1>1, <1>3, <1>5, <2>1, OneRequest DEF IndexInv, Board!Attempt
    <2>3. QED
        BY <2>2 DEF Board!BoardNext
<1>8. QED
    BY <1>6, <1>7

\* Everything else leaves the rows and the embeddings as they are.
LEMMA OthersStutter ==
    ASSUME UNCHANGED <<job, embeddings>>
    PROVE  UNCHANGED Board!board
BY DEF Board!board, WantedBy, Vector

LEMMA StepImplements == IndexInv /\ [Next]_vars => [Board!BoardNext]_(Board!board)
<1> SUFFICES ASSUME IndexInv, [Next]_vars
             PROVE  Board!BoardNext \/ UNCHANGED Board!board
    OBVIOUS
<1>1. ASSUME NEW w \in Workers, Work(w)
      PROVE  Board!BoardNext \/ UNCHANGED Board!board
    <2>1. CASE \/ Complete(w) \/ InsertEmbeddings(w) \/ Collide(w) \/ Crash(w)
               \/ \E retryable \in BOOLEAN : Fail(w, retryable)
        BY <2>1, OthersStutter DEF Complete, InsertEmbeddings, Collide, Crash, Fail
    <2>2. QED
        BY <1>1, <2>1, ClaimImplements, CancelImplements, CommitImplements DEF Work
<1>2. CASE \/ KnowledgeStep
           \/ \E v \in versions : Lapse([document |-> v.document, number |-> v.number])
           \/ UNCHANGED vars
    BY <1>2, OthersStutter DEF KnowledgeStep, Lapse, vars
<1>3. QED
    BY <1>1, <1>2, QueueImplements DEF Next

\* Requests, claims, providers, collisions and crashes together implement the
\* ledger of index jobs, whichever way the caller commits.
THEOREM IndexRefinement == Spec => ImplementsIndexLedger
BY InitBoard, IndexInvariant, StepImplements, PTL
   DEF Spec, ImplementsIndexLedger, Board!BoardSpec

=============================================================================
