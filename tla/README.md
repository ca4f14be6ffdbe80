# Visa AI (Uzbekistan-OS): a TLA+ model of its evidence pipeline and assistant

This directory holds TLA+ specifications of the FastAPI backend under
`src/apps/api/app`, the TLC configurations that check them on small instances,
and TLAPS proofs that hold for every value of their constants. It follows the
pipeline's own promise: nothing reaches a reader or the assistant that was not
fetched from an allowed source, stored as evidence, reviewed, and published; and
the assistant accepts no claim that its evidence does not support. (Only claims
are validated: section 8 lists what else the model writes.)

Contents: [inventory](#1-inventory) · [how the modules divide the system](#2-modules-and-how-they-correspond-to-the-code) ·
[runs](#3-runs) · [bounds](#4-bounds) · [fairness](#5-fairness) ·
[proofs](#6-proofs) · [disagreements](#7-where-code-and-documents-disagree) ·
[what is left out](#8-abstractions-and-what-is-not-modelled) · [plan](#9-plan)

## 1. Inventory

```
 scheduler ─┐                        ┌─ S3 / local / database evidence store
 enqueue ───┼─► Redis stream ─► worker ┤
 queue_crawl┘   retry set, DLQ       └─ PostgreSQL: crawl_jobs, source_snapshots,
 upload (API thread) ────────────────►   extraction_artifacts, review_items
                                               │ claim, decide
                                               ▼
                              publication (document_versions, chunks) ◄─ index jobs
                                    │ cites              │ retrievable_chunks
                                    ▼                    ▼
                          editorial posts ─ rag_chunks ─► retrieval ─► assistant ─► model
                                                         ▲              ▲
 registry file ─ synchronize ─┐                          │              │ live pages
 administrators ──────────────┴─► sources, organizations ┴──────────────┘
```

Everything concurrent meets in PostgreSQL (READ COMMITTED, `SELECT ... FOR
UPDATE`, unique constraints) or in Redis (single commands, Lua scripts, MULTI).
There is no shared memory between actors.

| Component (under `apps/api/app`) | State it keeps | Operations | What is hard | What makes it correct |
| --- | --- | --- | --- | --- |
| Ingestion queue, `ingestion/queue.py` | stream entries and the group's pending list, retry sorted set, dead-letter stream, scheduler deduplication keys | publish, publish_scheduled, promote_due, reserve, reclaim_stale, acknowledge, schedule_retry, dead_letter | at-least-once delivery; a stale delivery handed to a second worker while the first one is merely slow | no published task is ever lost; the dead-letter stream agrees with the database |
| Worker loop, `ingestion/worker.py`, `worker.py` | one delivery and one database session at a time | run_once, _handle_failure, run_forever | a crash between the commit and the Redis call; two retry counters (delivery and row) | every task settles; a finished job is not run again |
| Ingestion service and repository, `ingestion/service.py`, `ingestion/repositories.py` | `crawl_jobs`, `source_snapshots`, `extraction_artifacts`, `review_items` | claim_job, execute/ingest, mark_succeeded, mark_failed, record_* | two sessions insert one unique key; a failed flush makes the session unusable | one attempt at a time, counted once, within its budget; a change is recorded and reviewed once |
| Administration, `ingestion/admin.py` | managed sources, queued jobs | queue_crawl, upload, source changes | the task is published before the row is committed | a job shown as waiting has a task behind it |
| Evidence store, `ingestion/stores.py` | objects under keys derived from the body's sha256 | put, get, exists for database, S3, local | check-then-write; object stores do not roll back | committed evidence can be read and has the recorded digest |
| Scheduler, `ingestion/scheduler.py` | none but the deduplication keys | publish_due | replicas publish one slot | one task per slot |
| Review queue, `ingestion/review.py` | `review_items` | claim, decide | claim and decision race, and race publication | only its reviewer decides, once |
| Knowledge publication, `knowledge/publication.py` | `documents`, `document_versions`, `publication_records`, chunks | publish | reads without a lock between two locks; inserts of one slug; retried requests | a version comes from an approved item and is newer than the current one |
| Document lifecycle, `knowledge/lifecycle.py` | lifecycle events, index jobs | expire_document, queue_reindex | expiration races a new version | status and events agree |
| Index jobs, `knowledge/indexing.py`, `knowledge/lifecycle.py` | index jobs, embeddings | queue_reindex, claim, complete, fail | the caller decides where to commit; a claimed job whose worker died; two inserts of one embedding | a job has one worker and its budget; success comes with the vectors |
| Editorial content, `content/editorial.py` | posts, revisions, citations, editorial chunks | create, update, submit, decide, publish | several people and revisions; cited knowledge changes meanwhile | what is shown is what was approved, and rests on published knowledge |
| Source registry, `ingestion/registry_sync.py`, `admin.py`, their repositories | organizations, sources, managed configurations | synchronise, create, update | replicas of different deployments synchronise; a synchronisation waits for an administrator's lock with an old snapshot | what is active is approved by one registry and can be served |
| Retrieval, `retrieval/` | none | official and editorial search, planning, evidence packs, live pages | several limits and filters in an order; eligibility is read when it is used, and used across network calls | only eligible evidence of the allowed tier, and never a corrected item beside its correction |
| Conversation state, `ai/state.py`, `ai/dialogue.py` | facts, conflicts, missing fields | apply, observe, correct, resolve | lists of updates in any order; observations that contradict each other | a fact is active, missing or contested, never two of these |
| Model gateway and orchestration, `ai/gateway.py`, `ai/orchestration.py`, `ai/answers.py` | one request's | invoke, answer, validate, repair | attempts, timeouts, malformed and unsupported answers | every accepted claim is quoted from the evidence |
| Assistant, `assistant/` | one request's | answer | the order of refusals and fallbacks | every question gets an answer or a refusal |
| Migrations, `alembic/versions` | constraints, a trigger on editorial revisions | — | the trigger writes the transitions down a second time | the trigger refuses nothing that the service accepts |
| HTTP routes | none of their own | one transaction for each request | — | in the models, as what ends a transaction |
| Identity, evaluations, adapters, web application | none of their own | token checks, scoring, parsing, pages | — | out of scope (section 8) |

`PROJECT.json` lists each component with its status, and every hazard with its
line and the property that covers it (or why none does).

## 2. Modules, and how they correspond to the code

Three components share one form: an *abstract ledger* says what the component
promises as indivisible steps, the *detailed module* has the sessions,
statements and locks, and a property `Implements...` says that the second
implements the first. For the crawl jobs and the publications the detailed
module EXTENDS its ledger and the mapping is the identity on the committed rows.
For the index jobs the ledger is another view of the rows, and the mapping is
written out: `Board == INSTANCE IndexLedger WITH state <- ..., remaining <-
...`. A *Proofs* module holds the theorems.

| Module | Models | Role |
| --- | --- | --- |
| `CrawlJobLedger` | what `crawl_jobs` promises: one step per attempt | abstract |
| `IngestionWorker` | queue, worker loop, claim/operate/settle, upload, queue_crawl, scheduler slots | detailed |
| `MCIngestionWorker` | instances: jobs, registries, symmetry | model checking |
| `EvidenceStore`, `MCEvidenceStore` | the three puts of one response body, then its rows | detailed |
| `PublicationLedger` | what review and publication promise | abstract |
| `KnowledgePublication`, `MCKnowledgePublication` | claim, decide, publish statement by statement, expire | detailed |
| `EditorialContent` | posts and revisions; composed with `PublicationLedger` as the knowledge it cites | composition |
| `EditorialPublication`, `MCEditorialPublication` | the same posts beside `KnowledgePublication`, statement by statement | composition |
| `IndexLedger` | what `index_jobs` and the embeddings promise | abstract |
| `IndexJobs`, `MCIndexJobs` | queue_reindex, claim, complete, fail; composed with `PublicationLedger` as the versions it indexes | detailed, composition |
| `SourceRegistry`, `MCSourceRegistry` | the synchronisation statement by statement, and the administrators' requests | detailed |
| `ConversationState` | `apply` of the conversation state, update by update | detailed |
| `AssistantAnswers`, `MCAssistantAnswers` | a question from the plan to the validated answer; EXTENDS `ConversationState` | composition |
| `*Proofs` | the inductive invariants and the theorems (`PublicationLedgerProofs`: the types and the approvals of the ledger that two modules compose with) | proofs |

**IngestionWorker.** A *session* is one database transaction: a worker's for
each delivery, an API thread's for each upload. `row` and `snapshots` are
committed state; `txRow[s]` is what the transaction of `s` has written and not
committed. The phases are the points where another actor can come between:

| phase | where the code is | leaves by |
| --- | --- | --- |
| `received` | the delivery is held, `claim_job` is about to SELECT ... FOR UPDATE | ClaimAgain, ClaimRefused, ClaimMissing, ClaimError |
| `inserting` | the SELECT found nothing, the INSERT is next | ClaimInsert, ClaimConflict |
| `running` | the claimed operation: fetch, compare | OperationUnchanged, OperationChanged, OperationFails / UploadFails |
| `storing` | `snapshot_by_sha256` found nothing; the rows are inserted next | RecordSnapshot, RecordConflict, OperationFails / UploadFails |
| `committing` | the outcome is flushed | CommitTransaction |
| `replying` | committed; the Redis call or the response is next | Acknowledge, ScheduleRetry, DeadLetter |

`Interrupt` leaves any phase: the process dies, the commit fails, or the Redis
call fails. A row lock is a guard: `Writers(j) = {}`. `ClaimMissing` has no such
guard because an uncommitted INSERT is invisible to a SELECT. `ClaimConflict`
and `RecordConflict` abandon the session without committing the failure: after
a failed flush SQLAlchemy refuses the commit in the error handler too, so the
delivery stays pending until another worker reclaims it. Workers have
registries (`Served`): a task whose source a worker does not know goes straight
to the dead-letter stream without touching the database.

**EvidenceStore.** `Missing`/`Present`/`Collision` are the look at a key,
`WriteRow`/`WriteObject` the write. The variable `store`, chosen once, is the
database store (its objects are rows of the attempt's own transaction, `mine`)
or an object store (S3, local: its objects stay whatever becomes of the
attempt). The raw
and normalized bytes follow from the body; the extraction artifact contains
the snapshot id the attempt has drawn, so any two attempts write different
artifact bytes under the same key.

**KnowledgePublication.** A publisher goes `lineage` (review item locked),
`lookup` (source checked, unlocked), `insert` or `commit` (document locked or
inserted). Claim, decide and expire touch only rows they hold locked, so each
is one action that waits for the lock.

**EditorialContent.** `get_for_update` locks the revision and its post,
`create_revision` the post, until the commit: one action per request. The
knowledge they cite is read without a lock, once per request, so a change
after that read commutes to after the request. It EXTENDS `PublicationLedger`
and takes its whole `LedgerNext` as its environment. `GuardAccepts` is the
trigger `guard_post_version_update` of migration 0010, written from the SQL and
apart from the actions: `UpdatesAccepted` compares the two.

**EditorialPublication.** EXTENDS `EditorialContent` and puts an instance of
`KnowledgePublication` in the place of that environment: a request about a post
may come between any two statements of a publication, and reads only what is
committed. The tables are shared (`review`, `versions`, `document`, `expired`,
`eligible`), the publishers' phases are its own two variables.
`ImplementsEditorial` says that the posts cannot tell the difference.

**IndexJobs.** The repository flushes and leaves the commit to its caller, and
no caller in the repository runs it as a process yet. The variable `caller` is
therefore both ways of calling it: `once` commits after `process`, `claims` also
commits the claim before it calls the provider. A worker goes `embed` (claimed,
the provider is called), `insert` (`complete` has found no embedding), `commit`
(the outcome is flushed). `Collide` is the unique key of the embeddings: the
flush fails, `fail` then meets a session that refuses it, and the error reaches
the caller. Versions are published, superseded and expired meanwhile by
`LedgerNext`, and `Lapse` ends an effective period.

**SourceRegistry.** A synchronisation is one transaction under an advisory lock.
Its phases are its statements: `sources` (organizations upserted),
`find_sources` and `deactivate_sources`, `find_organizations` and
`deactivate_organizations`, `commit`. Each of the two UPDATEs is two steps,
because PostgreSQL first finds the rows by the snapshot of the statement and
then waits for their locks: after the wait it evaluates the row's own columns
again, but not the subquery on the managed sources. `orgWrites` and
`sourceWrites` are what the transaction has written; `SourceSeen` and `OrgSeen`
are what it reads. An administrator's request goes `creating` (holds the
organization), or `editing` (holds the source) and `saving` (holds both); the
row locks are the guards on `HeldSources`, `HeldOrganizations` and the written
rows.

**ConversationState.** `apply` works on a copy, `draft`, one update at a time:
an observation, a correction, a removal, a required field. An observation that
contradicts an active fact makes the two a conflict; a correction settles it.
An update that no active message supports raises and leaves `memory` as it was.

**AssistantAnswers.** One action per step that another actor can come between:
`Ask` (delimiters, scope, plan), `Retrieve` (SQL filter, ranking, limit, plan
filter, corrections, limit, evidence pack), `ReadApproved`, `SearchWeb` and
`FetchPage` (the fallback to live pages), `Orchestrate` (language, conflicts and
missing fields, no evidence), then the attempts of the gateway: refused,
retryable failure, fatal failure or an answer. `ModelAnswers` takes *every*
answer of at most two claims, with unknown citations, inexact quotes, quotes of
stopwords and too little support, and `Accepted` is the validator with its one
extractive repair. `SwitchSource` is the registry, which activates and
deactivates sources between any two of these steps.

## 3. Runs

| Run | Configuration | Properties | Shows |
| --- | --- | --- | --- |
| `deliveries` | two workers, one job that both serve, two faults, an enqueue | NoTaskLost, OneRunnerPerJob, DeadLetterAgrees | redelivery to a second worker, duplicate publication and crashes at any point lose no task and overlap no attempt |
| `uploads` | a worker, an upload, two jobs of one source, queue_crawl | TypeOK, NoStrandedJob, OneReviewPerChange, ImplementsLedger | a change is recorded by exactly one job; waiting rows have a task; each commit is one attempt of the ledger |
| `settles` | a worker whose registry holds one of two jobs, one crash | RequestsSettle | every published task ends in success or in the dead-letter stream |
| `evidence` | three transactions of one body, database store or object store | SourceTextKept, ArtifactReadable, DatabaseReconciles, ObjectsImmutable | raw and normalized text survive every interleaving and rollback in both; with the database store the artifact does too, and a rolled back attempt leaves nothing behind |
| `evidence_leftover` | one transaction, object store | LeftoversReconcile (violated) | section 7 |
| `publication` | two reviewers, two publishers, three items of one document | EvidenceApproved, KeysUnique, ExpiryAgrees, VersionsGrow, WithdrawnStays, ImplementsPublication | the locks of publish are enough; a version that was superseded or expired never comes back |
| `editorial` | `EditorialPublication`: three revisions of a guide, author and admin, a reviewer and a publisher of the knowledge they cite, which also expires | PointerAgrees, ShownIsApproved, ShownIsGrounded, ShownIsReviewed, OneOpenRevision, PublicStays, UpdatesAccepted, BlockedStays, ImplementsEditorial | what is public is approved and grounded, stays public and moves forward; no two open revisions; an approval does not outlive the knowledge it rests on; the trigger never fires; the posts behave beside the real publication as beside its ledger |
| `editorial_served` | `EditorialPublication`: an article, two items, a publisher | ServedIsCurrent (violated) | section 7 |
| `index_jobs` | two workers, two jobs, one crash, both callers, versions that expire | OneWorkerPerJob, StrandedOnlyIfDropped, IndexedIsReviewed, ImplementsIndexLedger | every commit is one step of the ledger; only reviewed versions are embedded; only a worker that died or collided after its committed claim leaves a job running |
| `registry` | replicas of two deployments, two administrators, crashes | ActiveIsAuthorized, RegistrySourcesServable, OnlyDemotionUnverifies | what is active is what *one* registry approves, and can be served |
| `registry_managed` | two deployments that agree on the approved source, one administrator | ManagedExcluded (violated) | section 7 |
| `assistant` | questions of low and high risk, five chunks (one a correction, one without citation, one of another domain), four pages (one that gives instructions), sources switched | AnswersAreGrounded, CorrectionsWin, EvidenceAllowed, AppliedStatesValid, StepsRunOut, QuestionsAnswered | an accepted answer is grounded in allowed evidence, and every question ends, within a number of steps that the limits fix |

Every property has a mutant in `PROJECT.json`: a variant of one definition with
a plausible bug (a missing `FOR UPDATE`, an acknowledgement of every delivery,
an off-by-one in the budget, a pointer moved without retiring the old
revision), under which the same run must fail. The mutants stand beside what
they vary, with a comment that starts "Mutant".

`CHECK_DEADLOCK FALSE` stands in every configuration but `assistant`, because
the bounds make the instances stop: when no version number, attempt or message
is left, nothing more happens, which is no deadlock of the system.

Symmetry is used only in runs without liveness: over messages, contents, bodies,
sessions, reviewers, publishers, items, index workers and idempotency keys. In
`MCIngestionWorker` jobs and
workers are distinguished by `Served` and `Scheduled`, so they are not permuted.

## 4. Bounds

| Bound | Where | Why it is enough |
| --- | --- | --- |
| `Room` (`Messages`, 3) | messages alive at one time | stream ids are unbounded in Redis; a request begins only if an id is left for it and for one retry, so the bound never blocks a worker. Two live messages of one job give the duplicates, the third the retry |
| `MaxAttempts` = 2 | the row's budget | one retry and one exhaustion |
| `MaxFaults` ≤ 2 | crashes, lost connections, errors of the claim, rolled back requests | two workers can each fail once within one delivery. Runs with 0 still contain every conflict, failure of the operation and stale delivery: those are not faults |
| `MaxEnqueues` ≤ 1 | tasks from the command line | one duplicate of a scheduled task |
| `Contents`, one | bodies of a source | two jobs that fetch the *same* body are the hard case |
| `MaxAttempts` = 4 (evidence) | attempts at one body | three concurrent ones and one more after a rollback |
| `MaxNumber` 2 or 3 | version numbers | an older, a newer and one between |
| `MaxRevision` 2 or 3 | revisions of a post | two: a published revision and its successor. Three, where a second open revision beside the published one is the case in question. `editorial` has one item, one publisher, one version number and two bodies; that cited knowledge is superseded and not only expired is in `editorial_served`, that publishers race is in `publication`, and both are in the theorems |
| `MaxJobs` = 2, `MaxAttempts` = 2, `MaxFaults` = 1 (index) | index jobs, a request's budget, crashes | two jobs of one version and model are the collision; one retry and one exhaustion |
| registries | an old deployment with two approved sources, a new one that drops one and withdraws the approval of the other, a stable one for `registry_managed` | the four things that can happen to an entry: kept, dropped, withdrawn, listed again |
| `CandidateLimit` = 3, `RetrievalLimit` = 2, `MaxItems` = 2, `MaxCharacters` = 3, `MaxSources` = 3, `MaxAttempts` = 2 (assistant) | the limits of the pipeline | five chunks can match a general question: the candidate limit cuts two, the retrieval limit another, the characters a chunk that is too long beside any other; of three pages that fit one by one the pack takes two; the last attempt is not the first. If any one of what `EvidenceAllowed` names is no longer checked (citation, control pattern, body, either limit, applicability, the tier of a chunk or of a page; language and domain in both places that check them), TLC finds the property violated in this instance |
| two intents (assistant) | one of low risk, whose only domain is everyday living, and the general one, which is of high risk | the tiers and the domains of the plan differ |

The assistant's instance has one conversation field with two values, so that a
fact can be contradicted; the limits of the code (ten candidates and more) are
larger than any case that matters.

The theorems of section 6 have none of these restrictions: each bound is an
arbitrary constant there.

## 5. Fairness

Two runs need fairness. `assistant` assumes weak fairness of `Pipeline`, the
steps of a request: it runs in a thread of its own until it returns, and the
transports to the provider and to the web have timeouts. Nothing is assumed of
the model's answers, of the pages or of the sources. That the attempts are
counted is what makes the request end; its mutant resets the counter.

`settles` (`FairSpec` of `IngestionWorker`) assumes weak fairness of

- `Claim` and `Operate` of each session and `WorkerOnly` of each worker: a
  process that has a delivery goes on. Fetches, statements and Redis calls have
  timeouts, and `run_forever` catches every exception and loops again;
- `PromoteDue`, `ReclaimStale` and `Reserve`, each over all workers: every
  round of `run_once` promotes due retries, then reclaims, then reserves;
- `GoStale` of each message: idle time grows whatever the workers do;
- `UploadFails`, `PublishCrawl` and `CommitCrawl`: a thread that serves a
  request finishes it.

No fault, publication, upload or error is ever forced. Workers may crash
`MaxFaults` times; a worker that never comes back is not assumed away, but one
worker lives on after it. The property needs no assumption that attempts
succeed: a job that fails each time ends in the dead-letter stream.

## 6. Proofs

`tlapm` proves all of the following for arbitrary constants that satisfy the
named assumptions of the modules (`WorkerAssumption`, `StoreAssumption`,
`LedgerAssumption`, `PublicationAssumption`, `EditorialAssumption`,
`SystemAssumption`, `IndexAssumption`, `RegistryAssumption`,
`ConversationAssumption`, `AssistantAssumption`): sets are disjoint where they must be, the "no such
thing" values are outside, `SourceOf` and `MaxAttempts` are functions, and a
registry is what its validators accept. TLC evaluates each assumption in the
runs. No set is assumed finite but the chunks and the pages, of which the
assistant makes sequences and sums.

| Theorem | Statement |
| --- | --- |
| `WorkerInvariant` | `Spec => []WorkerInv` |
| `TypeCorrect`, `TasksAreKept`, `WaitingJobsAreBacked`, `RunnersExclude`, `DeadLettersAgree`, `ChangesAreReviewedOnce` | the invariants of `deliveries` and `uploads` |
| `Refinement` | `Spec => ImplementsLedger` |
| `StoreInvariant`, `SourceTextIsKept`, `ArtifactIsReadable`, `LeftoversAreReconciled`, `ObjectsAreImmutable` | evidence; all but the first two are about the database store |
| `PublicationInvariant`, `VersionsAreApproved`, `VersionKeysAreUnique`, `ExpirationsAgree` | the invariants of `publication` |
| `PublicationRefinement`, `VersionsNeverShrink`, `WithdrawnVersionsStay` | the ledger, and with it the two action properties |
| `EditorialInvariant`, `RevisionsAreSerial`, `PointersAgree`, `ShownIsWhatWasApproved`, `ShownRestsOnKnowledge`, `PublicPostsStay`, `TriggerNeverFires` | the properties of `editorial`, beside the ledger |
| `SystemRefinement` | `SystemSpec => ImplementsEditorial`: beside the real publication too |
| `ShownKnowledgeIsReviewed`, `BlockedRevisionsStay` | what the two services together promise |
| `IndexInvariant`, `TypeCorrect`, `WorkersExclude`, `OnlyDroppedAreStranded`, `EmbeddingsAreReviewed`, `IndexRefinement` | the properties of `index_jobs`, with the refinement |
| `RegistryInvariant`, `TypeCorrect`, `ActiveSourcesAreAuthorized`, `ActiveSourcesCanBeServed`, `OnlyDemotionTakesVerification` | the properties of `registry` |
| `AssistantInvariant`, `TypeCorrect`, `AcceptedAnswersAreGrounded`, `CorrectionsAlwaysWin`, `EvidenceAlwaysAllowed`, `UpdatesStayValid`, `RequestsRunOutOfSteps` | the invariants and the action property of `assistant` |

**The arguments.** Hardly any property is inductive by itself, since most relate
committed state to what transactions will commit.

- `WorkerInv` adds what each phase has read and will write. `WriterOK`: a
  session with an uncommitted row continues the committed one by one attempt.
  With `OneRunnerPerJob` (the row lock) this makes every commit one ledger
  step. `OutcomeOK` ties the uncommitted status to the reply, and `AnswerOK`
  carries it over the commit: a worker that will acknowledge has a succeeded
  row, one that will dead-letter a failure has a dead-lettered row. Hence
  `DeadLetterAgrees`, and `NoTaskLost` for the two Redis calls that remove the
  last live message. `OneRecorder` (the unique key of snapshots) gives
  `OneReviewPerChange`. `NoStrandedJob` follows from `NoTaskLost` and `RowOK`.
- `StoreInv`: `FixedBytes` (raw and normalized text have one possible value),
  `PutsDone` (an attempt that goes on can read what it has put), `MineOK` (two
  transactions never insert one key). Under the database store
  `ArtifactWithSnapshot` says that an artifact becomes visible exactly with its
  snapshot; from it follow the three theorems that object stores lack.
- `PublicationInv`: `PublisherOK` (the lineage lock: the item stays approved and
  unpublished) and `CommitterOK` (the document lock: the compared number is
  still the current one). `CurrentIsNewest` turns the comparison with one
  number into uniqueness over all versions, and makes `WithdrawnStays` follow: a
  publication moves its document's `current` to a number above every version's,
  so what was withdrawn is not what it makes current.
- `EditorialInv`: `RevisionOK` (from its approval on, a revision's content is
  the one decided on), `GroundedOK` (from its submission on, what it cites was
  published), `PostOK` (only the last revision can be open; a post that was never
  published has one revision and its status). `PointerAgrees` is part of it.
  For `TriggerNeverFires` each request is shown to be one of the trigger's
  successions, and to change nothing that the trigger freezes.
- `SystemRefinement`: a step of the real publication is a step of its ledger, the
  change of a source, or changes none of the shared tables; a request is the
  same action in both. The
  theorems of `KnowledgePublication` are cited through an instance of its proof
  module, `KP`, whose assumptions `KnowledgeAssumptions` proves from those of
  the composition, and `SystemIsKnowledge` shows that to the publication the
  requests are stuttering. `ShownKnowledgeIsReviewed` joins the two refinements:
  what is shown cites published versions (`ShownRestsOnKnowledge`), and these
  are of approved items (`VersionsAreApproved`). `BlockedRevisionsStay` uses
  `WithdrawnStep`, the step of `WithdrawnVersionsStay`, for the knowledge. For the
  revision it goes request by request: the content is frozen by the approval, and
  the only way out, `Publish`, asks that every cited version is current.
- `IndexInv`: `RowOK` (a job that waits has an attempt left) and `WorkerOK` (the
  row a worker has claimed stays as its claim left it, since the row is locked
  or running). They give each of the three disjuncts of an attempt in
  `IndexLedger`: one commit, or a first and a last one. `ReviewedInv` is a second
  invariant on top: every version has an approved item (`LedgerInv`, which the
  publication keeps), hence so has every requested job, hence every embedding.
- `RegistryInv`: `SyncAlone` (the advisory lock), `LocksApart` and `AdminsApart`
  (the row locks: no row is written by two transactions). `Settled` and
  `WriteOK` say what the statements so far have made of the rows that nobody
  manages, as the transaction sees them. `RegistrySourcesServable` needs that
  the organizations of the registry keep the registry's values until the
  commit, although administrators activate organizations meanwhile: an
  organization that an administrator may use is official or new, and then
  activating it writes what the registry wrote.
- `AnswersAreGrounded` follows from the validator alone, for every answer of the
  model and after the repair. `AppliedStatesValid` follows update by update,
  from the validity of the copy that `apply` works on.
- `AssistantInv` adds `RequestInv`: `RequestPhases` (what is empty and what is
  counted in each phase), `PagesApproved` (a hit and a fetched page are covered
  by a source the fallback read as approved, so that a source that is switched
  off meanwhile changes nothing of it) and `EvidenceInv` (from the retrieval to
  the outcome the pack keeps what `Retrieved` and `Build` give: `Packed`, cited
  items without control patterns or repeated bodies, within the limits, and
  `ChunkAllowed`, the plan's language, domains, applicability and tiers). The
  latter rests
  on what the recursive functions of the model compute. The induction theorems
  of the library cannot be instantiated, so `AssistantAnswersProofs` derives
  what it needs: a nonempty set of naturals has a least element, hence a set
  that holds 0 and every successor is all of them (`UpTo`), hence a recursion
  over `0..n` has a solution (`Recursion`), and each table the model chooses is
  one (`KeepTable`, `BuildTable`, `CharactersTable`). `KeepFacts`, `BuildFacts`
  and `CharactersAppend` then say what a filter keeps, what a pack may hold and
  that its characters are counted, for sequences of any length.

- `RequestsRunOutOfSteps` is the part of `QuestionsAnswered` that needs no
  fairness: the variant `StepsLeft`, made of the attempts, hits and phases that
  remain, decreases with every step of a request (`StepDown`, from `RequestInv`,
  which bounds the hits and the failed calls). With weak fairness of the steps
  it gives the liveness property, which TLC checks.

**Only model-checked:** the two liveness properties `RequestsSettle` and
`QuestionsAnswered` (fairness is beyond the prover), and the three violations,
which are counterexamples. Every other property of a passing run is a theorem. The
type invariants are parts of the inductive ones; only `uploads` also checks one.

## 7. Where code and documents disagree

Each is a run that TLC must find violated.

- `evidence_leftover`: the runbook calls an object left behind by a failed
  transaction "safe to reconcile". With an object store, the artifact of a
  rolled back attempt makes every later attempt of the same body end with
  `snapshot_collision`, which is not retryable.
- `editorial_served`: the repository's comment and ADR 0017 make the
  `retrievable_chunks` view the eligibility boundary. The editorial search does
  not consult it: a published article is still served after the knowledge it
  cites was expired or superseded.
- `registry_managed`: `docs/runbooks/admin-api.md:30` says that a
  synchronisation excludes managed organizations from deactivation. It finds the
  organizations without managed source, waits for the administrator who holds
  one of them to add its first managed source, and then deactivates it: the
  UPDATE's subquery is not evaluated again after the wait. The new source is
  active and is not served.

Other disagreements met while reading, which have no run because they restate
one line of code or are about no state:

- The ingestion runbook describes the status `running` of a crawl job as "one
  worker owns the current attempt". It is set and replaced inside one
  transaction, so no other session ever reads it, and the answer
  `job_in_progress` is unreachable.
- The same runbook prohibits different bytes under one key. `put` of the object
  stores looks and then writes, so two concurrent attempts both write; that is
  why `ObjectsImmutable` and `ArtifactReadable` are stated for the database
  store.
- `docs/runbooks/indexing.md:28` says that embeddings are upserted. Two workers
  that both find none both insert, and one of them fails (`Collide`).
- `docs/runbooks/ai-orchestration.md:26-27` says that one bad claim rejects the
  whole answer. Claims that are only unsupported are replaced by their quotes
  and validated again; `AnswersAreGrounded` holds for what is accepted.
- ADR 0024 (lines 20-21) has the user settle a contradicted fact. A third
  observation settles it too, since the contradicted fact is no longer active.
- An edit of the URL of a verified managed source always fails: it clears
  `last_verified_at` (`admin_repositories.py:259-262`), and the entry of an
  approved source must have one (`models.py:80-83`), so the answer raises and
  the request rolls back.
- A synchronisation upserts a managed source that its registry lists, and so
  undoes what an administrator changed; the runbook speaks of deactivation only.

## 8. Abstractions, and what is not modelled

Abstractions of the modelled parts:

- A job is a (source, idempotency key) pair, a body is a model value told apart
  by its digest, a version number stands for (major, minor, revision), and a
  post's body, title and metadata are one value.
- A task carries a `max_attempts` of its own. The publishers in the model give
  it the row's; where a request and a scheduled task of one key would disagree,
  the model is narrower than the code. `cancelled` is never written by the code
  and has no status here.
- An invalid payload and an unroutable task take the same path. XAUTOCLAIM may
  return any stale entry; its cursor order is not modelled.
- `XACK` checks no ownership: a slow worker may acknowledge the entry another
  worker has reclaimed, and does here.
- One `queue_crawl` request per job at a time; a second one waits for the unique
  key and then fails.
- A failed upload rolls back with its request. A replayed or conflicting
  `publish`, `claim` or `expire` changes nothing and is not a step.
- A PostgreSQL deadlock (a request on the prior revision beside a publication; an
  edit that waits for the organization a synchronisation has written, while that
  waits for the source) ends with a rollback of one side, which changes nothing.
- Posts are assumed to have a domain; one without it behaves like an article
  whose drafts never set the RAG flag.
  `effective_until`, `review_due_at`, authors, media and translation groups are
  left out: no property here depends on them.
- Retry times of index jobs are left out: a waiting job may be due at any time.
- Slugs, audit events and the listing of sources are left out. An entry of the
  registry that is not eligible stands for a draft.
- The text search may match any subset of what the SQL admits, in any ranking
  that puts corrections first; the assistant does not ask for the vector search.
  Prompts, settings, budgets and the absence of a route are one refusal of the
  gateway. A claim is told apart by what it cites, its kind of quote and its
  support. The sources of a page are those whose host name covers its host.
- Of an answer the model holds the claims, the facts named as used and the
  evidence named by the limitations. Its `summary`, the wording of its
  limitations and its `next_actions` are written by the language model too, and
  the validator does not compare them with the evidence: no property is about
  them. A claim cites one item, where the code allows eight, each of which must
  pass. `answer_without_sufficient_evidence` cannot arise, since the orchestrator
  stops before the model is asked.
- `assistant/service.py` passes no conversation state to the orchestrator. The
  branch of `Ask` with a state, the facts that `Resolve` adds to the plan and the
  clarifications are for other callers of the planner and the orchestrator, which
  so far are their tests. A contested value longer than 120 characters makes
  `ClarificationOption` (`answers.py:70`) raise out of the planner; that error is
  left out.
- An organization is one row. `website_url` has no unique constraint, so two
  administrators who create the first source of an organization at the same time
  may in fact insert two rows.
- A matched chunk is remembered (`matched`) as long as a chunk may be in the pack,
  for `CorrectionsWin`; the code keeps no such list.
- One user asks one question at a time: requests share no state but the sources,
  which change in any way between any two steps.
- `ai/context.py` (what of the conversation is put into the prompt) is not
  modelled.

Hazards that are known and have no property, because no document or test
promises anything of them: a task whose source the worker's registry does not
hold goes to the dead-letter stream (`worker.py:52-59`) although a replica with
another registry could have fetched it, and counts as settled in `RequestsSettle`
and as kept in `NoTaskLost`; the eligibility of a source is read without a lock
by publication and by retrieval and may be stale at the commit or while the
model writes; a database session is held during the fetch of live pages; the
limit of the search cuts before the filter of the plan; a claimed review item
can be released by nobody; the start of a replica fails while a managed source
has the URL of an entry of its registry. An approved revision whose knowledge
was superseded can be neither published nor reopened; that it stays so is
`BlockedStays`, but that somebody could discard it is promised nowhere.

Not modelled: adapters, extractors, normalizers, fetchers, chunking, ranking
(pure functions or one HTTP call, whose outcomes the models choose); identity
(stateless; roles are constants); evaluations (offline); the parsing and error
mapping of HTTP routes (their transactions are in the models); the web
application; the migrations but for the unique constraints, which are guards,
and the trigger. The expiry of a slot's deduplication key, after two intervals or
a day, whichever is longer (`scheduler.py:56`), is left out.

## 9. Plan

Done, in this order, because the pipeline depends on them in this order: the
crawl path and its ledger; the evidence store; review and publication; editorial
content over the publication ledger, and the trigger below it; index jobs over
the same ledger; the source registry; the conversation state and the assistant;
the safety properties of all of them as theorems; the composition of the posts
with the publication itself; a variant for the requests of the assistant.

Next:

1. The scheduler's slots: `publish_due` of several replicas at the boundary of
   an interval, with the expiry of the deduplication key.
2. `ConversationContext`: which messages of a conversation `ai/context.py` keeps
   within its budget, and that a fact's message is never cut from below it.
3. A composition of `EvidenceStore` with `KnowledgePublication`: what a reviewer
   loads is what is published.
4. The composition of `IndexJobs` with `KnowledgePublication`, as
   `EditorialPublication` does it for the posts.
5. The safety half of `RequestsSettle`: a variant for the tasks of the crawl
   path, which must count the deliveries that two workers share.
