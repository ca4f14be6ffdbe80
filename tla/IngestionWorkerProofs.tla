----------------------- MODULE IngestionWorkerProofs -----------------------
(***************************************************************************)
(* WorkerInv is inductive, and the sessions implement the ledger.          *)
(*                                                                         *)
(* Most steps are taken by one session.  SessionStep says once what such a *)
(* step must establish for WorkerInv to survive; each action then only     *)
(* shows that its own session is well-formed and alone on its job.         *)
(***************************************************************************)
EXTENDS IngestionWorker, TLAPS

\* Only session s changes what it holds.
OnlySession(s) ==
    \A t \in Sessions \ {s} :
        /\ phase'[t] = phase[t]
        /\ held'[t] = held[t]
        /\ job'[t] = job[t]
        /\ txRow'[t] = txRow[t]
        /\ reply'[t] = reply[t]

\* Nobody else has written, or is about to write, the row of s after the step.
Alone(s) ==
    txRow'[s] # NoRow =>
        /\ \A t \in Sessions \ {s} : Writing(t) => job[t] # job'[s]
        /\ api[job'[s]] = "none"

\* Nobody else has recorded the snapshot that s has recorded after the step.
AloneOnContent(s) ==
    phase'[s] = "committing" /\ txRow'[s].change # NoContent =>
        \A t \in Sessions \ {s} :
            phase[t] = "committing" =>
                \/ SourceOf[job[t]] # SourceOf[job'[s]]
                \/ txRow[t].change # txRow'[s].change

\* A step of one session that leaves the committed rows alone.
LEMMA SessionStep ==
    ASSUME WorkerInv, TypeOK', NEW s \in Sessions,
           OnlySession(s),
           UNCHANGED <<row, snapshots, api, requested>>,
           \A m \in Messages : MessageOK(m)',
           \A w \in Workers : held[w] \in Messages
                                 => msg'[held[w]].job = msg[held[w]].job,
           DeadLetterAgrees', NoTaskLost',
           SessionOK(s)',
           Alone(s), AloneOnContent(s)
    PROVE  WorkerInv'
<1>1. \A j \in Jobs : RowOK(j)'
    BY DEF WorkerInv, RowOK
<1>2. \A j \in Jobs : ApiOK(j)'
    <2>1. SUFFICES ASSUME NEW j \in Jobs PROVE ApiOK(j)'
        OBVIOUS
    <2>2. api[j] # "none" => Writers(j)' = {}
        BY DEF WorkerInv, ApiOK, Writers, Writing, OnlySession, Alone
    <2>3. QED
        BY <2>2 DEF WorkerInv, ApiOK
<1>3. ASSUME NEW t \in Sessions
      PROVE  SessionOK(t)'
    <2>1. CASE t = s
        BY <2>1
    <2>2. CASE t # s
        <3>1. /\ phase'[t] = phase[t] /\ held'[t] = held[t] /\ job'[t] = job[t]
              /\ txRow'[t] = txRow[t] /\ reply'[t] = reply[t]
            BY <2>2 DEF OnlySession
        <3>2. SessionOK(t)
            BY DEF WorkerInv
        <3>3. PhaseOK(t)' /\ OutcomeOK(t)' /\ AnswerOK(t)' /\ WriterOK(t)'
            BY <3>1, <3>2 DEF SessionOK, PhaseOK, OutcomeOK, AnswerOK, WriterOK,
                              Writing, CanAttempt
        <3>4. t \in Workers => DeliveryOK(t)'
            BY <3>1, <3>2 DEF SessionOK, DeliveryOK
        <3>5. QED
            BY <3>3, <3>4 DEF SessionOK
    <2>3. QED
        BY <2>1, <2>2
<1>4. OneRecorder'
    BY DEF WorkerInv, OneRecorder, OnlySession, AloneOnContent
<1>5. OneRunnerPerJob'
    BY DEF WorkerInv, OneRunnerPerJob, Writing, OnlySession, Alone
<1>6. OneReviewPerChange'
    BY DEF WorkerInv, OneReviewPerChange, Recorded
<1>7. QED
    BY <1>1, <1>2, <1>3, <1>4, <1>5, <1>6 DEF WorkerInv

\* A step of a publisher, of time or of the promotion script.
LEMMA QueueStep ==
    ASSUME WorkerInv, TypeOK',
           UNCHANGED <<row, snapshots, dlq, sessionVars>>,
           requested \subseteq requested',
           \A m \in Messages : MessageOK(m)',
           \A w \in Workers : held[w] \in Messages
                                 => msg'[held[w]].job = msg[held[w]].job,
           \A j \in Jobs : ApiOK(j)',
           NoTaskLost'
    PROVE  WorkerInv'
<1>1. \A j \in Jobs : RowOK(j)'
    BY DEF WorkerInv, RowOK
<1>2. ASSUME NEW t \in Sessions
      PROVE  SessionOK(t)'
    <2>1. SessionOK(t)
        BY DEF WorkerInv
    <2>2. PhaseOK(t)' /\ OutcomeOK(t)' /\ AnswerOK(t)' /\ WriterOK(t)'
        BY <2>1 DEF SessionOK, PhaseOK, OutcomeOK, AnswerOK, WriterOK, Writing,
                    CanAttempt, sessionVars
    <2>3. t \in Workers => DeliveryOK(t)'
        BY <2>1 DEF SessionOK, DeliveryOK, sessionVars
    <2>4. QED
        BY <2>2, <2>3 DEF SessionOK
<1>3. OneRecorder' /\ OneRunnerPerJob' /\ OneReviewPerChange' /\ DeadLetterAgrees'
    BY DEF WorkerInv, OneRecorder, OneRunnerPerJob, OneReviewPerChange,
           DeadLetterAgrees, Writing, Recorded, sessionVars
<1>4. QED
    BY <1>1, <1>2, <1>3 DEF WorkerInv

-----------------------------------------------------------------------------
LEMMA InitInv == Init => WorkerInv
<1> SUFFICES ASSUME Init PROVE WorkerInv
    OBVIOUS
<1> USE LedgerAssumption, WorkerAssumption DEF Init, LedgerInit, NoRow
<1>1. TypeOK
    BY DEF TypeOK, LedgerTypeOK, Rows, Statuses, MessageStates, Phases, Replies,
           ApiStates
<1>2. \A j \in Jobs : RowOK(j) /\ ApiOK(j)
    BY DEF RowOK, ApiOK
<1>3. \A m \in Messages : MessageOK(m)
    BY DEF MessageOK
<1>4. \A s \in Sessions : SessionOK(s)
    BY DEF SessionOK, PhaseOK, OutcomeOK, AnswerOK, WriterOK, DeliveryOK, Writing
<1>5. OneRecorder /\ OneRunnerPerJob /\ DeadLetterAgrees /\ NoTaskLost
    BY DEF OneRecorder, OneRunnerPerJob, DeadLetterAgrees, NoTaskLost, Writing
<1>6. OneReviewPerChange
    BY DEF OneReviewPerChange, Recorded
<1>7. QED
    BY <1>1, <1>2, <1>3, <1>4, <1>5, <1>6 DEF WorkerInv

-----------------------------------------------------------------------------
(* Publishers, time and promotion.                                         *)

LEMMA PublishScheduledStep ==
    ASSUME WorkerInv, NEW j \in Jobs, NEW m \in Messages, PublishScheduled(j, m)
    PROVE  WorkerInv'
<1> USE DEF PublishScheduled, Publish
<1>1. TypeOK'
    BY DEF WorkerInv, TypeOK, LedgerTypeOK, MessageStates, sessionVars
<1>2. \A n \in Messages : MessageOK(n)'
    BY DEF WorkerInv, MessageOK, TypeOK, Fresh
<1>3. \A w \in Workers : held[w] \in Messages => msg'[held[w]].job = msg[held[w]].job
    BY DEF WorkerInv, TypeOK, Fresh, Sessions
<1>4. \A i \in Jobs : ApiOK(i)'
    BY DEF WorkerInv, ApiOK, Writers, Writing, sessionVars
<1>5. NoTaskLost'
    BY DEF WorkerInv, TypeOK, NoTaskLost, Live, DeadLettered, Fresh
<1>6. QED
    BY <1>1, <1>2, <1>3, <1>4, <1>5, QueueStep

LEMMA EnqueueSourceStep ==
    ASSUME WorkerInv, NEW j \in Jobs, NEW m \in Messages, EnqueueSource(j, m)
    PROVE  WorkerInv'
<1> USE DEF EnqueueSource, Publish
<1>1. TypeOK'
    BY DEF WorkerInv, TypeOK, LedgerTypeOK, MessageStates, sessionVars
<1>2. \A n \in Messages : MessageOK(n)'
    BY DEF WorkerInv, MessageOK, TypeOK, Fresh
<1>3. \A w \in Workers : held[w] \in Messages => msg'[held[w]].job = msg[held[w]].job
    BY DEF WorkerInv, TypeOK, Fresh, Sessions
<1>4. \A i \in Jobs : ApiOK(i)'
    BY DEF WorkerInv, ApiOK, Writers, Writing, sessionVars
<1>5. NoTaskLost'
    BY DEF WorkerInv, TypeOK, NoTaskLost, Live, DeadLettered, Fresh
<1>6. QED
    BY <1>1, <1>2, <1>3, <1>4, <1>5, QueueStep

LEMMA PublishCrawlStep ==
    ASSUME WorkerInv, NEW j \in Jobs, NEW m \in Messages, PublishCrawl(j, m)
    PROVE  WorkerInv'
<1> USE DEF PublishCrawl, Publish
<1>1. TypeOK'
    BY DEF WorkerInv, TypeOK, LedgerTypeOK, MessageStates, ApiStates, sessionVars
<1>2. \A n \in Messages : MessageOK(n)'
    BY DEF WorkerInv, MessageOK, TypeOK, Fresh
<1>3. \A w \in Workers : held[w] \in Messages => msg'[held[w]].job = msg[held[w]].job
    BY DEF WorkerInv, TypeOK, Fresh, Sessions
<1>4. \A i \in Jobs : ApiOK(i)'
    BY DEF WorkerInv, TypeOK, ApiOK, Writers, Writing, sessionVars
<1>5. NoTaskLost'
    BY DEF WorkerInv, TypeOK, NoTaskLost, Live, DeadLettered, Fresh
<1>6. QED
    BY <1>1, <1>2, <1>3, <1>4, <1>5, QueueStep

LEMMA GoStaleStep ==
    ASSUME WorkerInv, NEW m \in Messages, GoStale(m)
    PROVE  WorkerInv'
<1> USE DEF GoStale
<1>1. TypeOK'
    BY DEF WorkerInv, TypeOK, LedgerTypeOK, sessionVars, apiVars
<1>2. \A n \in Messages : MessageOK(n)'
    BY DEF WorkerInv, MessageOK, apiVars
<1>3. \A i \in Jobs : ApiOK(i)'
    BY DEF WorkerInv, ApiOK, Writers, Writing, sessionVars, apiVars
<1>4. NoTaskLost'
    BY DEF WorkerInv, NoTaskLost, Live, DeadLettered, apiVars
<1>5. QED
    BY <1>1, <1>2, <1>3, <1>4, QueueStep DEF apiVars

LEMMA PromoteDueStep ==
    ASSUME WorkerInv, NEW w \in Workers, PromoteDue(w)
    PROVE  WorkerInv'
<1> USE DEF PromoteDue
<1>1. PICK due \in SUBSET {m \in Messages : msg[m].state = "delayed"} :
          msg' = [m \in Messages |->
                     IF m \in due THEN [msg[m] EXCEPT !.state = "ready"] ELSE msg[m]]
    OBVIOUS
<1>2. /\ msg' \in [Messages -> [state: MessageStates, job: Jobs \cup {NoJob}, attempt: Nat]]
      /\ \A m \in Messages : /\ msg'[m].job = msg[m].job
                             /\ msg'[m].state = "free" <=> msg[m].state = "free"
                             /\ msg[m].state = "pending" => msg'[m].state = "pending"
    <2>1. msg \in [Messages -> [state: MessageStates, job: Jobs \cup {NoJob}, attempt: Nat]]
        BY DEF WorkerInv, TypeOK
    <2>2. \A m \in Messages :
              /\ msg'[m] = IF m \in due THEN [msg[m] EXCEPT !.state = "ready"] ELSE msg[m]
              /\ m \in due => msg[m].state = "delayed"
        BY <1>1
    <2>3. \A m \in Messages :
              msg'[m] \in [state: MessageStates, job: Jobs \cup {NoJob}, attempt: Nat]
        BY <2>1, <2>2 DEF MessageStates
    <2>4. \A m \in Messages : /\ msg'[m].job = msg[m].job
                              /\ msg'[m].state = "free" <=> msg[m].state = "free"
                              /\ msg[m].state = "pending" => msg'[m].state = "pending"
        BY <2>1, <2>2
    <2>5. msg' = [m \in Messages |-> msg'[m]]
        BY <1>1
    <2>6. msg' \in [Messages -> [state: MessageStates, job: Jobs \cup {NoJob}, attempt: Nat]]
        BY <2>3, <2>5
    <2>7. QED
        BY <2>4, <2>6
<1>3. TypeOK'
    BY <1>2 DEF WorkerInv, TypeOK, LedgerTypeOK, sessionVars, apiVars
<1>4. \A n \in Messages : MessageOK(n)'
    BY <1>2 DEF WorkerInv, MessageOK, apiVars
<1>5. \A i \in Jobs : ApiOK(i)'
    BY DEF WorkerInv, ApiOK, Writers, Writing, sessionVars, apiVars
<1>6. NoTaskLost'
    BY <1>2 DEF WorkerInv, NoTaskLost, Live, DeadLettered, apiVars
<1>7. QED
    BY <1>2, <1>3, <1>4, <1>5, <1>6, QueueStep DEF apiVars

-----------------------------------------------------------------------------
(* Steps of one session that leave the queue alone.                        *)

\* SessionStep for the many steps that touch neither Redis nor committed rows.
LEMMA LocalStep ==
    ASSUME WorkerInv, NEW s \in Sessions,
           OnlySession(s),
           UNCHANGED <<row, snapshots, queueVars, apiVars>>,
           faults' \in Nat,
           phase' \in [Sessions -> Phases],
           held' \in [Sessions -> Messages \cup {NoMessage}],
           job' \in [Sessions -> Jobs \cup {NoJob}],
           txRow' \in [Sessions -> Rows],
           reply' \in [Sessions -> Replies],
           SessionOK(s)',
           Alone(s), AloneOnContent(s)
    PROVE  WorkerInv'
<1> USE DEF queueVars, apiVars
<1>1. TypeOK'
    BY DEF WorkerInv, TypeOK, LedgerTypeOK
<1>2. \A m \in Messages : MessageOK(m)'
    BY DEF WorkerInv, MessageOK
<1>3. DeadLetterAgrees' /\ NoTaskLost'
    BY DEF WorkerInv, DeadLetterAgrees, NoTaskLost, Live, DeadLettered
<1>4. QED
    BY <1>1, <1>2, <1>3, SessionStep

\* An abandoned session holds nothing, which is always well-formed.
LEMMA AbandonedOK ==
    ASSUME WorkerInv, NEW s \in Sessions, Abandoned(s)
    PROVE  /\ OnlySession(s)
           /\ phase' \in [Sessions -> Phases]
           /\ held' \in [Sessions -> Messages \cup {NoMessage}]
           /\ job' \in [Sessions -> Jobs \cup {NoJob}]
           /\ txRow' \in [Sessions -> Rows]
           /\ reply' \in [Sessions -> Replies]
           /\ SessionOK(s)'
           /\ Alone(s) /\ AloneOnContent(s)
<1> USE DEF Abandoned
<1>1. TypeOK
    BY DEF WorkerInv
<1>2. /\ phase'[s] = "idle" /\ held'[s] = NoMessage /\ job'[s] = NoJob
      /\ txRow'[s] = NoRow /\ reply'[s] = "none"
    BY <1>1 DEF TypeOK
<1>3. OnlySession(s) /\ Alone(s) /\ AloneOnContent(s)
    BY <1>1, <1>2 DEF OnlySession, Alone, AloneOnContent, TypeOK
<1>4. /\ phase' \in [Sessions -> Phases]
      /\ held' \in [Sessions -> Messages \cup {NoMessage}]
      /\ job' \in [Sessions -> Jobs \cup {NoJob}]
      /\ reply' \in [Sessions -> Replies]
    BY <1>1 DEF TypeOK, Phases, Replies
<1>5. txRow' \in [Sessions -> Rows]
    BY <1>1 DEF TypeOK, NoRow, Rows, Statuses
<1>6. SessionOK(s)'
    BY <1>2 DEF SessionOK, PhaseOK, OutcomeOK, AnswerOK, WriterOK, DeliveryOK, Writing
<1>7. QED
    BY <1>3, <1>4, <1>5, <1>6

\* Rollbacks: conflicts, failed uploads, crashes and lost connections.
LEMMA AbandonStep ==
    ASSUME WorkerInv, NEW s \in Sessions, Abandoned(s),
           UNCHANGED <<row, snapshots, queueVars, apiVars>>, faults' \in Nat
    PROVE  WorkerInv'
BY AbandonedOK, LocalStep

LEMMA ClaimConflictStep ==
    ASSUME WorkerInv, NEW s \in Sessions, ClaimConflict(s)
    PROVE  WorkerInv'
BY AbandonStep DEF ClaimConflict, WorkerInv, TypeOK

LEMMA RecordConflictStep ==
    ASSUME WorkerInv, NEW s \in Sessions, RecordConflict(s)
    PROVE  WorkerInv'
BY AbandonStep DEF RecordConflict, WorkerInv, TypeOK

LEMMA UploadFailsStep ==
    ASSUME WorkerInv, NEW u \in Uploads, UploadFails(u)
    PROVE  WorkerInv'
BY AbandonStep DEF UploadFails, WorkerInv, TypeOK, Sessions

LEMMA InterruptStep ==
    ASSUME WorkerInv, NEW s \in Sessions, Interrupt(s)
    PROVE  WorkerInv'
BY AbandonStep DEF Interrupt, WorkerInv, TypeOK

LEMMA BeginUploadStep ==
    ASSUME WorkerInv, NEW u \in Uploads, NEW j \in Jobs, BeginUpload(u, j)
    PROVE  WorkerInv'
<1> USE WorkerAssumption DEF BeginUpload, Sessions
<1>1. TypeOK /\ SessionOK(u)
    BY DEF WorkerInv
<1>2. phase'[u] = "received" /\ job'[u] = j /\ txRow'[u] = NoRow
    BY <1>1 DEF TypeOK, SessionOK, PhaseOK
<1>3. OnlySession(u) /\ Alone(u) /\ AloneOnContent(u)
    BY <1>1, <1>2 DEF OnlySession, Alone, AloneOnContent, TypeOK
<1>4. SessionOK(u)'
    BY <1>1, <1>2 DEF SessionOK, PhaseOK, OutcomeOK, AnswerOK, WriterOK, Writing
<1>5. phase' \in [Sessions -> Phases] /\ job' \in [Sessions -> Jobs \cup {NoJob}]
    BY <1>1 DEF TypeOK, Phases
<1>6. QED
    BY <1>1, <1>3, <1>4, <1>5, LocalStep DEF TypeOK

-----------------------------------------------------------------------------
(* Claiming and operating.                                                 *)

\* What is known of the session that acts.
LEMMA Acting ==
    ASSUME WorkerInv, NEW s \in Sessions, phase[s] # "idle"
    PROVE  /\ TypeOK /\ SessionOK(s)
           /\ job[s] \in Jobs
           /\ row[job[s]] \in Rows
           /\ SourceOf[job[s]] \in Sources
           /\ MaxAttempts[job[s]] \in Nat
BY LedgerAssumption DEF WorkerInv, TypeOK, LedgerTypeOK, SessionOK, PhaseOK

LEMMA RunningRowFacts ==
    ASSUME NEW a \in Nat
    PROVE  /\ RunningRow(a) \in Rows /\ RunningRow(a) # NoRow
           /\ RunningRow(a).status = "running"
           /\ RunningRow(a).attempts = a
           /\ RunningRow(a).change = NoContent
<1>1. /\ RunningRow(a).status = "running"
      /\ RunningRow(a).attempts = a
      /\ RunningRow(a).change = NoContent
    BY DEF RunningRow
<1>2. NoRow.status = "absent"
    BY DEF NoRow
<1>3. RunningRow(a) \in Rows
    BY DEF RunningRow, Rows, Statuses
<1>4. QED
    BY <1>1, <1>2, <1>3

\* Both claims start the next attempt of a job nobody else is writing.
LEMMA ClaimStep ==
    ASSUME WorkerInv, NEW s \in Sessions,
           phase[s] \in {"received", "inserting"},
           CanAttempt(job[s]),
           Writers(job[s]) = {}, api[job[s]] = "none",
           phase' = [phase EXCEPT ![s] = "running"],
           txRow' = [txRow EXCEPT ![s] = RunningRow(row[job[s]].attempts + 1)],
           UNCHANGED <<row, snapshots, queueVars, held, job, reply, apiVars, faults>>
    PROVE  WorkerInv'
<1> DEFINE j == job[s]
           r == RunningRow(row[j].attempts + 1)
<1>1. /\ TypeOK /\ SessionOK(s) /\ j \in Jobs /\ row[j].attempts + 1 \in Nat
    BY Acting DEF Rows
<1>2. /\ r \in Rows /\ r # NoRow
      /\ r.status = "running" /\ r.attempts = row[j].attempts + 1
      /\ r.change = NoContent
    BY <1>1, RunningRowFacts
<1>3. phase'[s] = "running" /\ txRow'[s] = r
    BY <1>1 DEF TypeOK
<1> HIDE DEF r
<1>4. OnlySession(s) /\ AloneOnContent(s)
    BY <1>1, <1>3 DEF OnlySession, AloneOnContent, TypeOK
<1>5. Alone(s)
    BY <1>1, <1>3 DEF Alone, Writers
<1>6. PhaseOK(s)' /\ WriterOK(s)' /\ OutcomeOK(s)' /\ AnswerOK(s)'
    BY <1>1, <1>2, <1>3 DEF SessionOK, PhaseOK, WriterOK, OutcomeOK, AnswerOK,
        CanAttempt, Writing
<1>7. s \in Workers => DeliveryOK(s)'
    BY <1>1, <1>3 DEF SessionOK, DeliveryOK, queueVars, apiVars
<1>8. phase' \in [Sessions -> Phases]
    BY <1>1 DEF TypeOK, Phases
<1>9. txRow' \in [Sessions -> Rows]
    BY <1>1, <1>2 DEF TypeOK, r
<1>10. SessionOK(s)'
    BY <1>6, <1>7 DEF SessionOK
<1>11. QED
    BY <1>1, <1>4, <1>5, <1>8, <1>9, <1>10, LocalStep DEF TypeOK

LEMMA ClaimAgainStep ==
    ASSUME WorkerInv, NEW s \in Sessions, ClaimAgain(s)
    PROVE  WorkerInv'
<1>1. /\ job[s] \in Jobs /\ RowOK(job[s]) /\ ApiOK(job[s])
      /\ row[job[s]].status \in {"queued", "retry_scheduled"}
    BY Acting DEF ClaimAgain, WorkerInv, Attemptable
<1>2. CanAttempt(job[s])
    BY <1>1, LedgerAssumption DEF CanAttempt, RowOK, Attemptable
<1>3. api[job[s]] = "none"
    BY <1>1 DEF ApiOK
<1>4. QED
    BY <1>2, <1>3, ClaimStep DEF ClaimAgain

LEMMA ClaimInsertStep ==
    ASSUME WorkerInv, NEW s \in Sessions, ClaimInsert(s)
    PROVE  WorkerInv'
<1>1. job[s] \in Jobs /\ row[job[s]] = NoRow
    BY Acting DEF ClaimInsert, WorkerInv, RowOK
<1>2. CanAttempt(job[s]) /\ row[job[s]].attempts + 1 = 1
    BY <1>1, LedgerAssumption DEF CanAttempt, Attemptable, NoRow
<1>3. QED
    BY <1>2, ClaimStep DEF ClaimInsert

LEMMA ClaimMissingStep ==
    ASSUME WorkerInv, NEW s \in Sessions, ClaimMissing(s)
    PROVE  WorkerInv'
<1>1. TypeOK /\ SessionOK(s) /\ txRow[s] = NoRow
    BY Acting DEF ClaimMissing, SessionOK, PhaseOK
<1>2. /\ phase'[s] = "inserting"
      /\ job' = job /\ held' = held /\ reply' = reply /\ txRow' = txRow
    BY <1>1 DEF ClaimMissing, TypeOK
<1>3. OnlySession(s) /\ Alone(s) /\ AloneOnContent(s)
    BY <1>1, <1>2 DEF ClaimMissing, OnlySession, Alone, AloneOnContent, TypeOK
<1>4. SessionOK(s)'
    BY <1>1, <1>2 DEF ClaimMissing, SessionOK, PhaseOK, WriterOK, OutcomeOK, AnswerOK,
        DeliveryOK, Writing, queueVars, apiVars
<1>5. phase' \in [Sessions -> Phases]
    BY <1>1 DEF ClaimMissing, TypeOK, Phases
<1>6. QED
    BY <1>1, <1>2, <1>3, <1>4, <1>5, LocalStep DEF ClaimMissing, TypeOK

LEMMA ClaimRefusedStep ==
    ASSUME WorkerInv, NEW s \in Sessions, ClaimRefused(s)
    PROVE  WorkerInv'
<1> DEFINE status == row[job[s]].status
<1>1. /\ TypeOK /\ SessionOK(s) /\ txRow[s] = NoRow
      /\ status \in {"succeeded", "dead_lettered"}
    BY Acting DEF ClaimRefused, SessionOK, PhaseOK, WorkerInv, RowOK, Rows, Statuses,
        Attemptable
<1>2. /\ status = "succeeded" => Refusal(status) = "ack"
      /\ status = "dead_lettered" => Refusal(status) = "job_terminal"
    BY DEF Refusal
<1>3. /\ phase'[s] = "committing" /\ reply'[s] = Refusal(status)
      /\ job' = job /\ held' = held /\ txRow' = txRow /\ row' = row
    BY <1>1 DEF ClaimRefused, TypeOK
<1>4. OnlySession(s) /\ Alone(s) /\ AloneOnContent(s)
    BY <1>1, <1>3 DEF ClaimRefused, OnlySession, Alone, AloneOnContent, TypeOK, NoRow
<1>5. SessionOK(s)'
    BY <1>1, <1>2, <1>3 DEF ClaimRefused, SessionOK, PhaseOK, WriterOK, OutcomeOK,
        AnswerOK, DeliveryOK, Writing, queueVars, apiVars
<1>6. phase' \in [Sessions -> Phases] /\ reply' \in [Sessions -> Replies]
    BY <1>1, <1>2 DEF ClaimRefused, TypeOK, Phases, Replies, DeadCodes
<1>7. QED
    BY <1>1, <1>3, <1>4, <1>5, <1>6, LocalStep DEF ClaimRefused, TypeOK

LEMMA ClaimErrorStep ==
    ASSUME WorkerInv, NEW w \in Workers, ClaimError(w)
    PROVE  WorkerInv'
<1> USE DEF Sessions
<1>1. TypeOK /\ SessionOK(w) /\ txRow[w] = NoRow
    BY Acting DEF ClaimError, SessionOK, PhaseOK
<1>2. /\ phase'[w] = "committing" /\ reply'[w] \in {"retry", "ingestion_error"}
      /\ job' = job /\ held' = held /\ txRow' = txRow /\ row' = row
    BY <1>1 DEF ClaimError, TypeOK
<1>3. OnlySession(w) /\ Alone(w) /\ AloneOnContent(w)
    BY <1>1, <1>2 DEF ClaimError, OnlySession, Alone, AloneOnContent, TypeOK, NoRow
<1>4. SessionOK(w)'
    BY <1>1, <1>2 DEF ClaimError, SessionOK, PhaseOK, WriterOK, OutcomeOK, AnswerOK,
        DeliveryOK, Writing, queueVars, apiVars
<1>5. phase' \in [Sessions -> Phases] /\ reply' \in [Sessions -> Replies]
    BY <1>1 DEF ClaimError, TypeOK, Phases, Replies, DeadCodes
<1>6. QED
    BY <1>1, <1>2, <1>3, <1>4, <1>5, LocalStep DEF ClaimError, TypeOK

-----------------------------------------------------------------------------
(* Finishing the operation: the writer keeps its attempt and its job.      *)

\* A session that runs an operation is the only writer of its job.
LEMMA WriterAlone ==
    ASSUME WorkerInv, NEW s \in Sessions, Writing(s)
    PROVE  /\ phase[s] # "idle"
           /\ \A t \in Sessions \ {s} : Writing(t) => job[t] # job[s]
           /\ api[job[s]] = "none"
<1>1. TypeOK /\ SessionOK(s) /\ phase[s] # "idle"
    BY DEF WorkerInv, SessionOK, PhaseOK, Writing
<1>2. \A t \in Sessions \ {s} : Writing(t) => job[t] # job[s]
    BY DEF WorkerInv, OneRunnerPerJob
<1>3. job[s] \in Jobs /\ ApiOK(job[s])
    BY <1>1, Acting DEF WorkerInv
<1>4. api[job[s]] = "none"
    BY <1>3 DEF ApiOK, Writers
<1>5. QED
    BY <1>1, <1>2, <1>4

LEMMA FinishStep ==
    ASSUME WorkerInv, NEW s \in Sessions, NEW p, NEW r \in Rows, NEW a \in Replies,
           phase[s] \in {"running", "storing"},
           p \in {"storing", "committing"},
           r.status # "absent",
           r.attempts = txRow[s].attempts,
           phase' = [phase EXCEPT ![s] = p],
           txRow' = [txRow EXCEPT ![s] = r],
           reply' = [reply EXCEPT ![s] = a],
           UNCHANGED <<row, snapshots, queueVars, held, job, apiVars, faults>>,
           PhaseOK(s)', OutcomeOK(s)', AloneOnContent(s)
    PROVE  WorkerInv'
<1>1. /\ TypeOK /\ SessionOK(s) /\ job[s] \in Jobs
      /\ txRow[s].status = "running"
    BY Acting DEF SessionOK, PhaseOK
<1>2. Writing(s)
    <2>1. NoRow.status = "absent"
        BY DEF NoRow
    <2>2. QED
        BY <1>1, <2>1 DEF Writing
<1>3. r # NoRow
    BY DEF NoRow
<1>4. phase'[s] = p /\ txRow'[s] = r /\ reply'[s] = a
    BY <1>1 DEF TypeOK
<1>5. OnlySession(s)
    BY <1>1 DEF OnlySession, TypeOK
<1>6. Alone(s)
    BY <1>2, WriterAlone DEF Alone, apiVars
<1>7. AnswerOK(s)' /\ WriterOK(s)'
    BY <1>1, <1>2, <1>3, <1>4 DEF SessionOK, AnswerOK, WriterOK, Writing, CanAttempt
<1>8. s \in Workers => DeliveryOK(s)'
    BY <1>1, <1>4 DEF SessionOK, DeliveryOK, queueVars, apiVars
<1>9. SessionOK(s)'
    BY <1>7, <1>8 DEF SessionOK
<1>10. /\ phase' \in [Sessions -> Phases] /\ txRow' \in [Sessions -> Rows]
       /\ reply' \in [Sessions -> Replies]
    BY <1>1 DEF TypeOK, Phases
<1>11. QED
    BY <1>1, <1>5, <1>6, <1>9, <1>10, LocalStep DEF TypeOK

LEMMA OperationFailsStep ==
    ASSUME WorkerInv, NEW w \in Workers, NEW retryable \in BOOLEAN,
           OperationFails(w, retryable)
    PROVE  WorkerInv'
<1> DEFINE status == FailedStatus(txRow[w], MaxAttempts[job[w]], retryable)
           r == [status |-> status, attempts |-> txRow[w].attempts,
                 change |-> NoContent]
           a == IF status = "retry_scheduled" THEN "retry" ELSE "failed"
<1>1. w \in Sessions /\ phase[w] \in {"running", "storing"}
    BY DEF OperationFails, Sessions
<1>2. TypeOK /\ SessionOK(w) /\ txRow[w] \in Rows
    BY <1>1, Acting DEF TypeOK
<1>3. /\ status \in {"retry_scheduled", "dead_lettered"}
      /\ status = "retry_scheduled" => txRow[w].attempts < MaxAttempts[job[w]]
    BY DEF FailedStatus
<1>4. r \in Rows
    BY <1>2, <1>3 DEF Rows, Statuses
<1>5. /\ r.status = status /\ r.attempts = txRow[w].attempts /\ r.change = NoContent
    OBVIOUS
<1>6. a \in Replies
    BY DEF Replies, DeadCodes
<1>7. /\ phase' = [phase EXCEPT ![w] = "committing"]
      /\ txRow' = [txRow EXCEPT ![w] = r]
      /\ reply' = [reply EXCEPT ![w] = a]
      /\ UNCHANGED <<row, snapshots, queueVars, held, job, apiVars, faults>>
    BY DEF OperationFails
<1>8. /\ a = "retry" <=> status = "retry_scheduled"
      /\ a = "failed" <=> status = "dead_lettered"
      /\ a # "none"
    BY <1>3
<1> HIDE DEF r, a, status
<1>9. phase'[w] = "committing" /\ txRow'[w] = r /\ reply'[w] = a
    BY <1>1, <1>2, <1>7 DEF TypeOK
<1>10. PhaseOK(w)'
    BY <1>1, <1>2, <1>7, <1>8, <1>9 DEF SessionOK, PhaseOK
<1>11. OutcomeOK(w)'
    BY <1>1, <1>3, <1>5, <1>7, <1>8, <1>9 DEF OutcomeOK
<1>12. AloneOnContent(w)
    BY <1>5, <1>9 DEF AloneOnContent
<1>13. r.status # "absent"
    BY <1>3, <1>5
<1>14. QED
    BY <1>1, <1>4, <1>5, <1>6, <1>7, <1>10, <1>11, <1>12, <1>13, FinishStep

LEMMA OperationUnchangedStep ==
    ASSUME WorkerInv, NEW s \in Sessions, OperationUnchanged(s)
    PROVE  WorkerInv'
<1> DEFINE r == [txRow[s] EXCEPT !.status = "succeeded"]
<1>1. /\ TypeOK /\ SessionOK(s) /\ txRow[s] \in Rows /\ txRow[s].change = NoContent
    BY Acting DEF OperationUnchanged, TypeOK, SessionOK, PhaseOK
<1>2. /\ r \in Rows /\ r.status = "succeeded" /\ r.attempts = txRow[s].attempts
      /\ r.change = NoContent
    BY <1>1 DEF Rows, Statuses
<1>3. /\ phase' = [phase EXCEPT ![s] = "committing"]
      /\ txRow' = [txRow EXCEPT ![s] = r]
      /\ reply' = [reply EXCEPT ![s] = "ack"]
      /\ UNCHANGED <<row, snapshots, queueVars, held, job, apiVars, faults>>
    BY DEF OperationUnchanged, Succeeded
<1> HIDE DEF r
<1>4. phase'[s] = "committing" /\ txRow'[s] = r /\ reply'[s] = "ack"
    BY <1>1, <1>3 DEF TypeOK
<1>5. PhaseOK(s)'
    BY <1>1, <1>3, <1>4 DEF OperationUnchanged, SessionOK, PhaseOK
<1>6. OutcomeOK(s)'
    BY <1>2, <1>3, <1>4 DEF OperationUnchanged, OutcomeOK
<1>7. AloneOnContent(s)
    BY <1>2, <1>4 DEF AloneOnContent
<1>8. QED
    BY <1>2, <1>3, <1>5, <1>6, <1>7, FinishStep DEF OperationUnchanged, Replies

LEMMA OperationChangedStep ==
    ASSUME WorkerInv, NEW s \in Sessions, NEW c \in Contents, OperationChanged(s, c)
    PROVE  WorkerInv'
<1> DEFINE r == [txRow[s] EXCEPT !.change = c]
<1>1. /\ TypeOK /\ SessionOK(s) /\ txRow[s] \in Rows
      /\ txRow[s].status = "running" /\ reply[s] = "none" /\ reply' = reply
    BY Acting DEF OperationChanged, TypeOK, SessionOK, PhaseOK
<1>2. /\ r \in Rows /\ r.status = "running" /\ r.attempts = txRow[s].attempts
      /\ r.change = c /\ c # NoContent
    BY <1>1, LedgerAssumption DEF Rows
<1>3. /\ phase' = [phase EXCEPT ![s] = "storing"]
      /\ txRow' = [txRow EXCEPT ![s] = r]
      /\ reply' = [reply EXCEPT ![s] = "none"]
      /\ UNCHANGED <<row, snapshots, queueVars, held, job, apiVars, faults>>
    <2>1. reply' = [reply EXCEPT ![s] = "none"]
        BY <1>1 DEF TypeOK
    <2>2. QED
        BY <2>1 DEF OperationChanged
<1> HIDE DEF r
<1>4. phase'[s] = "storing" /\ txRow'[s] = r
    BY <1>1, <1>3 DEF TypeOK
<1>5. PhaseOK(s)'
    BY <1>1, <1>2, <1>3, <1>4 DEF OperationChanged, SessionOK, PhaseOK
<1>6. OutcomeOK(s)' /\ AloneOnContent(s)
    BY <1>4 DEF OutcomeOK, AloneOnContent
<1>7. "none" \in Replies /\ r.status # "absent"
    BY <1>2 DEF Replies
<1>8. phase[s] \in {"running", "storing"}
    BY DEF OperationChanged
<1>9. QED
    BY <1>2, <1>3, <1>5, <1>6, <1>7, <1>8, FinishStep

LEMMA RecordSnapshotStep ==
    ASSUME WorkerInv, NEW s \in Sessions, RecordSnapshot(s)
    PROVE  WorkerInv'
<1> DEFINE r == [txRow[s] EXCEPT !.status = "succeeded"]
<1>1. /\ TypeOK /\ SessionOK(s) /\ txRow[s] \in Rows /\ txRow[s].change # NoContent
    BY Acting DEF RecordSnapshot, TypeOK, SessionOK, PhaseOK
<1>2. /\ r \in Rows /\ r.status = "succeeded" /\ r.attempts = txRow[s].attempts
      /\ r.change = txRow[s].change
    BY <1>1 DEF Rows, Statuses
<1>3. /\ phase' = [phase EXCEPT ![s] = "committing"]
      /\ txRow' = [txRow EXCEPT ![s] = r]
      /\ reply' = [reply EXCEPT ![s] = "ack"]
      /\ UNCHANGED <<row, snapshots, queueVars, held, job, apiVars, faults>>
    BY DEF RecordSnapshot, Succeeded
<1> HIDE DEF r
<1>4. phase'[s] = "committing" /\ txRow'[s] = r /\ reply'[s] = "ack"
    BY <1>1, <1>3 DEF TypeOK
<1>5. PhaseOK(s)'
    BY <1>1, <1>3, <1>4 DEF RecordSnapshot, SessionOK, PhaseOK
<1>6. OutcomeOK(s)'
    BY <1>1, <1>2, <1>3, <1>4 DEF RecordSnapshot, OutcomeOK
<1>7. AloneOnContent(s)
    <2> SUFFICES ASSUME NEW t \in Sessions \ {s}, phase[t] = "committing",
                        SourceOf[job[t]] = SourceOf[job[s]],
                        txRow[t].change = r.change
                 PROVE  FALSE
        BY <1>3, <1>4 DEF AloneOnContent
    <2>1. Writing(t)
        <3>1. NoRow.change = NoContent
            BY DEF NoRow
        <3>2. QED
            BY <1>1, <1>2, <3>1 DEF Writing
    <2>2. t \in Recorders(SourceOf[job[s]], txRow[s].change)
        BY <1>2, <2>1 DEF Recorders
    <2>3. QED
        BY <2>2 DEF RecordSnapshot
<1>8. QED
    BY <1>2, <1>3, <1>5, <1>6, <1>7, FinishStep DEF RecordSnapshot, Replies

-----------------------------------------------------------------------------
(* Taking a delivery, and answering it.                                    *)

LEMMA HoldOK ==
    ASSUME WorkerInv, NEW w \in Workers, NEW m \in Messages, phase[w] = "idle",
           msg[m].state # "free", Hold(w, m),
           \A n \in Messages : msg'[n].job = msg[n].job
    PROVE  /\ OnlySession(w)
           /\ phase' \in [Sessions -> Phases]
           /\ held' \in [Sessions -> Messages \cup {NoMessage}]
           /\ job' \in [Sessions -> Jobs \cup {NoJob}]
           /\ reply' \in [Sessions -> Replies]
           /\ SessionOK(w)'
           /\ Alone(w) /\ AloneOnContent(w)
<1> USE WorkerAssumption DEF Sessions
<1>1. /\ TypeOK /\ SessionOK(w) /\ txRow[w] = NoRow /\ reply[w] = "none"
      /\ msg[m].job \in requested /\ msg[m].job \in Jobs
    BY DEF WorkerInv, SessionOK, PhaseOK, MessageOK, TypeOK
<1>2. /\ held'[w] = m /\ job'[w] = msg[m].job /\ txRow' = txRow
      /\ requested' = requested /\ row' = row
      /\ \/ phase'[w] = "received" /\ reply'[w] = "none"
         \/ phase'[w] = "replying" /\ reply'[w] = "unroutable"
    BY <1>1 DEF Hold, TypeOK, apiVars
<1>3. OnlySession(w) /\ Alone(w) /\ AloneOnContent(w)
    BY <1>1, <1>2 DEF Hold, OnlySession, Alone, AloneOnContent, TypeOK
<1>4. /\ phase' \in [Sessions -> Phases]
      /\ held' \in [Sessions -> Messages \cup {NoMessage}]
      /\ job' \in [Sessions -> Jobs \cup {NoJob}]
      /\ reply' \in [Sessions -> Replies]
    BY <1>1 DEF Hold, TypeOK, Phases, Replies, DeadCodes
<1>5. SessionOK(w)'
    BY <1>1, <1>2 DEF SessionOK, PhaseOK, OutcomeOK, AnswerOK, WriterOK, DeliveryOK,
        Writing
<1>6. QED
    BY <1>3, <1>4, <1>5

LEMMA ReclaimStaleStep ==
    ASSUME WorkerInv, NEW w \in Workers, ReclaimStale(w)
    PROVE  WorkerInv'
<1>1. PICK m \in stale : stale' = stale \ {m} /\ Hold(w, m)
    BY DEF ReclaimStale
<1>2. /\ TypeOK /\ m \in Messages /\ msg[m].state = "pending" /\ msg' = msg
      /\ phase[w] = "idle"
    BY DEF WorkerInv, TypeOK, MessageOK, ReclaimStale
<1>3. /\ UNCHANGED <<row, snapshots, dlq, dedup, txRow, api, requested, enqueues, faults>>
    BY <1>1 DEF Hold, apiVars
<1>4. TypeOK'
    BY <1>1, <1>2, <1>3, HoldOK DEF TypeOK, LedgerTypeOK
<1>5. \A n \in Messages : MessageOK(n)'
    BY <1>1, <1>2, <1>3 DEF WorkerInv, MessageOK
<1>6. DeadLetterAgrees' /\ NoTaskLost'
    BY <1>2, <1>3 DEF WorkerInv, DeadLetterAgrees, NoTaskLost, Live, DeadLettered
<1>7. QED
    BY <1>1, <1>2, <1>3, <1>4, <1>5, <1>6, HoldOK, SessionStep DEF Sessions

LEMMA ReserveStep ==
    ASSUME WorkerInv, NEW w \in Workers, Reserve(w)
    PROVE  WorkerInv'
<1>1. PICK m \in Messages : /\ msg[m].state = "ready"
                            /\ msg' = [msg EXCEPT ![m].state = "pending"]
                            /\ Hold(w, m)
    BY DEF Reserve
<1>2. TypeOK /\ phase[w] = "idle" /\ stale' = stale
    BY DEF WorkerInv, Reserve
<1>3. /\ msg' \in [Messages -> [state: MessageStates, job: Jobs \cup {NoJob}, attempt: Nat]]
      /\ \A n \in Messages : /\ msg'[n].job = msg[n].job
                             /\ msg'[n].state = "free" <=> msg[n].state = "free"
                             /\ msg[n].state = "pending" => msg'[n].state = "pending"
    BY <1>1, <1>2 DEF TypeOK, MessageStates
<1>4. /\ UNCHANGED <<row, snapshots, dlq, dedup, txRow, api, requested, enqueues, faults>>
    BY <1>1 DEF Hold, apiVars
<1>5. TypeOK'
    BY <1>1, <1>2, <1>3, <1>4, HoldOK DEF TypeOK, LedgerTypeOK
<1>6. \A n \in Messages : MessageOK(n)'
    BY <1>2, <1>3, <1>4 DEF WorkerInv, MessageOK
<1>7. DeadLetterAgrees' /\ NoTaskLost'
    BY <1>3, <1>4 DEF WorkerInv, DeadLetterAgrees, NoTaskLost, Live, DeadLettered
<1>8. QED
    BY <1>1, <1>2, <1>3, <1>4, <1>5, <1>6, <1>7, HoldOK, SessionStep DEF Sessions

LEMMA AckedFacts ==
    ASSUME TypeOK, NEW m \in Messages \cup {NoMessage}
    PROVE  /\ Acked(m) \in [Messages -> [state: MessageStates,
                                         job: Jobs \cup {NoJob}, attempt: Nat]]
           /\ \A n \in Messages :
                 /\ Acked(m)[n].job = msg[n].job
                 /\ n # m => Acked(m)[n] = msg[n]
                 /\ Acked(m)[n].state = msg[n].state \/ Acked(m)[n].state = "free"
BY WorkerAssumption DEF TypeOK, Acked, MessageStates

LEMMA AcknowledgeStep ==
    ASSUME WorkerInv, NEW s \in Sessions, Acknowledge(s)
    PROVE  WorkerInv'
<1>1. /\ TypeOK /\ SessionOK(s) /\ held[s] \in Messages \cup {NoMessage}
      /\ phase[s] = "replying" /\ txRow[s] = NoRow
    BY Acting DEF Acknowledge, TypeOK, SessionOK, PhaseOK
<1>2. /\ msg' = Acked(held[s]) /\ stale' = stale \ {held[s]} /\ Abandoned(s)
      /\ UNCHANGED <<row, snapshots, dlq, dedup, api, requested, enqueues, faults>>
    BY DEF Acknowledge, apiVars
<1>3. TypeOK'
    BY <1>1, <1>2, AckedFacts, AbandonedOK DEF TypeOK, LedgerTypeOK
<1>4. \A n \in Messages : MessageOK(n)'
    BY <1>1, <1>2, AckedFacts DEF WorkerInv, MessageOK
<1>5. held[s] \in Messages => row[job[s]].status = "succeeded" /\ msg[held[s]].job = job[s]
    BY <1>1, WorkerAssumption DEF Acknowledge, SessionOK, PhaseOK, AnswerOK, DeliveryOK,
        Writing, Sessions
<1>6. NoTaskLost'
    <2> SUFFICES ASSUME NEW j \in requested, Live(j), ~Live(j)'
                 PROVE  row[j].status = "succeeded"
        BY <1>2 DEF WorkerInv, NoTaskLost, DeadLettered
    <2>1. PICK m \in Messages : msg[m].state # "free" /\ msg[m].job = j
        BY DEF Live
    <2>2. m = held[s]
        BY <1>1, <1>2, <2>1, AckedFacts DEF Live
    <2>3. QED
        BY <1>5, <2>1, <2>2
<1>7. DeadLetterAgrees'
    BY <1>2 DEF WorkerInv, DeadLetterAgrees
<1>8. \A w \in Workers : held[w] \in Messages => msg'[held[w]].job = msg[held[w]].job
    BY <1>1, <1>2, AckedFacts
<1>9. QED
    BY <1>2, <1>3, <1>4, <1>6, <1>7, <1>8, AbandonedOK, SessionStep

LEMMA ScheduleRetryStep ==
    ASSUME WorkerInv, NEW w \in Workers, ScheduleRetry(w)
    PROVE  WorkerInv'
<1> DEFINE m == held[w]
           a == NextAttempt(m, reply[w] = "retry")
<1>1. /\ TypeOK /\ SessionOK(w) /\ w \in Sessions /\ m \in Messages
      /\ phase[w] = "replying" /\ msg[m].job = job[w] /\ job[w] \in requested
      /\ job[w] \in Jobs
    BY Acting DEF ScheduleRetry, SessionOK, DeliveryOK, Sessions
<1>2. PICK n \in Messages : Fresh(n) /\ msg' = AckedAndDelayed(m, n, a)
    BY DEF ScheduleRetry
<1>3. a \in Nat
    BY <1>1 DEF NextAttempt, TypeOK
<1>4. /\ n # m /\ msg[n].state = "free"
      /\ \A v \in Workers : held[v] # n
    BY <1>1, <1>2 DEF Fresh, Sessions
<1> HIDE DEF a
<1>5. /\ msg' \in [Messages -> [state: MessageStates, job: Jobs \cup {NoJob}, attempt: Nat]]
      /\ msg'[n].state = "delayed" /\ msg'[n].job = job[w]
      /\ \A k \in Messages \ {n} :
            /\ msg'[k].job = msg[k].job
            /\ k # m => msg'[k] = msg[k]
            /\ msg'[k].state = msg[k].state \/ msg'[k].state = "free"
    BY <1>1, <1>2, <1>3, AckedFacts DEF AckedAndDelayed, MessageStates
<1>6. /\ stale' = stale \ {m} /\ Abandoned(w)
      /\ UNCHANGED <<row, snapshots, dlq, dedup, api, requested, enqueues, faults>>
    BY DEF ScheduleRetry, apiVars
<1>7. TypeOK'
    BY <1>1, <1>5, <1>6, AbandonedOK DEF TypeOK, LedgerTypeOK
<1>8. \A k \in Messages : MessageOK(k)'
    BY <1>1, <1>4, <1>5, <1>6 DEF WorkerInv, MessageOK
<1>9. NoTaskLost'
    <2> SUFFICES ASSUME NEW j \in requested, Live(j) PROVE Live(j)'
        BY <1>6 DEF WorkerInv, NoTaskLost, DeadLettered
    <2>1. PICK k \in Messages : msg[k].state # "free" /\ msg[k].job = j
        BY DEF Live
    <2>2. CASE k = m
        BY <1>1, <1>5, <2>1, <2>2 DEF Live
    <2>3. CASE k # m
        BY <1>4, <1>5, <2>1, <2>3 DEF Live
    <2>4. QED
        BY <2>2, <2>3
<1>10. DeadLetterAgrees'
    BY <1>6 DEF WorkerInv, DeadLetterAgrees
<1>11. \A v \in Workers : held[v] \in Messages => msg'[held[v]].job = msg[held[v]].job
    BY <1>4, <1>5
<1>12. QED
    BY <1>1, <1>6, <1>7, <1>8, <1>9, <1>10, <1>11, AbandonedOK, SessionStep

LEMMA DeadLetterStep ==
    ASSUME WorkerInv, NEW w \in Workers, DeadLetter(w)
    PROVE  WorkerInv'
<1> DEFINE m == held[w]
<1>1. /\ TypeOK /\ SessionOK(w) /\ w \in Sessions /\ m \in Messages
      /\ phase[w] = "replying" /\ msg[m].job = job[w] /\ job[w] \in requested
      /\ job[w] \in Jobs /\ txRow[w] = NoRow
    BY Acting DEF DeadLetter, SessionOK, PhaseOK, DeliveryOK, Sessions
<1>2. /\ msg' = Acked(m) /\ stale' = stale \ {m} /\ Abandoned(w)
      /\ dlq' = dlq \cup {<<job[w], reply[w]>>} /\ reply[w] \in DeadCodes
      /\ UNCHANGED <<row, snapshots, dedup, api, requested, enqueues, faults>>
    BY DEF DeadLetter, apiVars
<1>3. TypeOK'
    BY <1>1, <1>2, AckedFacts, AbandonedOK DEF TypeOK, LedgerTypeOK
<1>4. \A n \in Messages : MessageOK(n)'
    BY <1>1, <1>2, AckedFacts DEF WorkerInv, MessageOK
<1>5. DeadLetterAgrees'
    BY <1>1, <1>2 DEF WorkerInv, DeadLetterAgrees, SessionOK, AnswerOK, Writing
<1>6. NoTaskLost'
    <2> SUFFICES ASSUME NEW j \in requested, Live(j), ~Live(j)'
                 PROVE  DeadLettered(j)'
        BY <1>2 DEF WorkerInv, NoTaskLost, DeadLettered
    <2>1. PICK n \in Messages : msg[n].state # "free" /\ msg[n].job = j
        BY DEF Live
    <2>2. n = m
        BY <1>1, <1>2, <2>1, AckedFacts DEF Live
    <2>3. j = job[w]
        BY <1>1, <2>1, <2>2
    <2>4. QED
        BY <1>2, <2>3 DEF DeadLettered
<1>7. \A v \in Workers : held[v] \in Messages => msg'[held[v]].job = msg[held[v]].job
    BY <1>1, <1>2, AckedFacts
<1>8. QED
    BY <1>1, <1>2, <1>3, <1>4, <1>5, <1>6, <1>7, AbandonedOK, SessionStep

-----------------------------------------------------------------------------
(* Commits: the only steps that change committed rows.                     *)

\* What a worker's or an upload's commit makes of the row of its job.
LEMMA CommittedOutcome ==
    ASSUME WorkerInv, NEW s \in Sessions, CommitTransaction(s), Writing(s)
    PROVE  /\ TypeOK /\ SessionOK(s) /\ job[s] \in Jobs /\ txRow[s] \in Rows
           /\ row' = [row EXCEPT ![job[s]] = txRow[s]]
           /\ row[job[s]].change = NoContent
           /\ row[job[s]].status \in Attemptable
           /\ txRow[s].status \in {"succeeded", "retry_scheduled", "dead_lettered"}
           /\ txRow[s].status = "retry_scheduled" =>
                 /\ job[s] \in requested
                 /\ txRow[s].attempts < MaxAttempts[job[s]]
           /\ txRow[s].status # "succeeded" => txRow[s].change = NoContent
<1>1. /\ TypeOK /\ SessionOK(s) /\ job[s] \in Jobs /\ RowOK(job[s])
      /\ txRow[s] \in Rows /\ phase[s] = "committing"
    BY Acting DEF CommitTransaction, WorkerInv, TypeOK
<1>2. row[job[s]].status \in Attemptable
    BY <1>1 DEF SessionOK, WriterOK, CanAttempt
<1>3. row[job[s]].change = NoContent
    BY <1>1, <1>2 DEF RowOK, Attemptable
<1>4. s \in Workers => job[s] \in requested
    BY <1>1 DEF SessionOK, DeliveryOK
<1>5. /\ txRow[s].status \in {"succeeded", "retry_scheduled", "dead_lettered"}
      /\ txRow[s].status = "retry_scheduled" =>
            txRow[s].attempts < MaxAttempts[job[s]] /\ s \in Workers
      /\ txRow[s].status # "succeeded" => txRow[s].change = NoContent
    BY <1>1 DEF SessionOK, OutcomeOK
<1>6. row' = [row EXCEPT ![job[s]] = txRow[s]]
    BY DEF CommitTransaction
<1>7. QED
    BY <1>1, <1>2, <1>3, <1>4, <1>5, <1>6

LEMMA CommitReview ==
    ASSUME WorkerInv, NEW s \in Sessions, CommitTransaction(s), Writing(s)
    PROVE  OneReviewPerChange'
<1> DEFINE j == job[s]
           r == txRow[s]
<1>1. /\ TypeOK /\ j \in Jobs /\ r \in Rows /\ SessionOK(s)
      /\ row[j].change = NoContent
      /\ row'[j] = r
      /\ \A i \in Jobs \ {j} : row'[i] = row[i]
    BY CommittedOutcome DEF TypeOK, LedgerTypeOK
<1>2. /\ SourceOf[j] \in Sources
      /\ r.change # NoContent => r.change \in Contents
      /\ \A i \in Jobs : row[i].change \in Contents \cup {NoContent}
    BY <1>1, LedgerAssumption DEF TypeOK, LedgerTypeOK, Rows
<1>3. snapshots' = IF r.change = NoContent THEN snapshots
                   ELSE snapshots \cup {<<SourceOf[j], r.change>>}
    BY DEF CommitTransaction
<1>4. r.change # NoContent => <<SourceOf[j], r.change>> \notin snapshots
    BY <1>1 DEF CommitTransaction, SessionOK, OutcomeOK
<1>5. OneReviewPerChange
    BY DEF WorkerInv
<1> HIDE DEF j, r
<1>6. ASSUME NEW src \in Sources, NEW c \in Contents
      PROVE  <<src, c>> \in snapshots' <=> c \in Recorded(src)'
    <2>1. c # NoContent
        BY LedgerAssumption
    <2>2. c \in Recorded(src)' <=> c \in Recorded(src) \/ (src = SourceOf[j] /\ c = r.change)
        BY <1>1, <2>1 DEF Recorded
    <2>3. <<src, c>> \in snapshots'
             <=> <<src, c>> \in snapshots \/ (src = SourceOf[j] /\ c = r.change)
        BY <1>3, <2>1
    <2>4. QED
        BY <1>5, <2>2, <2>3 DEF OneReviewPerChange
<1>7. ASSUME NEW i \in Jobs \ {j}, SourceOf[i] = SourceOf[j],
             row[i].change = r.change, r.change # NoContent
      PROVE  FALSE
    <2>1. r.change \in Recorded(SourceOf[j])
        BY <1>7 DEF Recorded
    <2>2. QED
        BY <1>2, <1>4, <1>5, <1>7, <2>1 DEF OneReviewPerChange
<1>8. ASSUME NEW i \in Jobs, NEW k \in Jobs,
             SourceOf[i] = SourceOf[k],
             row'[i].change = row'[k].change,
             row'[i].change # NoContent
      PROVE  i = k
    <2>1. CASE i = j
        BY <1>1, <1>7, <1>8, <2>1
    <2>2. CASE k = j
        BY <1>1, <1>7, <1>8, <2>2
    <2>3. CASE i # j /\ k # j
        BY <1>1, <1>5, <1>8, <2>3 DEF OneReviewPerChange
    <2>4. QED
        BY <2>1, <2>2, <2>3
<1>9. QED
    BY <1>6, <1>8 DEF OneReviewPerChange

LEMMA CommitTransactionStep ==
    ASSUME WorkerInv, NEW s \in Sessions, CommitTransaction(s)
    PROVE  WorkerInv'
<1> DEFINE j == job[s]
           r == txRow[s]
<1>1. /\ TypeOK /\ SessionOK(s) /\ j \in Jobs /\ phase[s] = "committing"
    BY Acting DEF CommitTransaction
<1>2. /\ phase'[s] = "replying" /\ txRow'[s] = NoRow
      /\ OnlySession(s)
      /\ UNCHANGED <<queueVars, held, job, reply, apiVars, faults>>
      /\ phase' \in [Sessions -> Phases] /\ txRow' \in [Sessions -> Rows]
    BY <1>1 DEF CommitTransaction, TypeOK, OnlySession, Phases, Rows, NoRow, Statuses
<1>3. CASE ~Writing(s)
    <2>1. NoRow.change = NoContent
        BY DEF NoRow
    <2>2. row' = row /\ snapshots' = snapshots
        BY <1>3, <2>1 DEF CommitTransaction, Writing
    <2>3. Alone(s) /\ AloneOnContent(s)
        BY <1>2 DEF Alone, AloneOnContent
    <2>4. PhaseOK(s)' /\ OutcomeOK(s)' /\ AnswerOK(s)' /\ WriterOK(s)'
        BY <1>1, <1>2, <1>3, <2>2 DEF SessionOK, PhaseOK, OutcomeOK, AnswerOK, WriterOK,
            Writing
    <2>5. s \in Workers => DeliveryOK(s)'
        BY <1>1, <1>2 DEF SessionOK, DeliveryOK, queueVars, apiVars
    <2>6. SessionOK(s)'
        BY <2>4, <2>5 DEF SessionOK
    <2>7. QED
        BY <1>1, <1>2, <2>2, <2>3, <2>6, LocalStep DEF TypeOK
<1>4. CASE Writing(s)
    <2>1. /\ r \in Rows
          /\ row[j].status \in Attemptable
          /\ r.status \in {"succeeded", "retry_scheduled", "dead_lettered"}
          /\ r.status = "retry_scheduled" =>
                /\ j \in requested
                /\ r.attempts < MaxAttempts[j]
          /\ r.status # "succeeded" => r.change = NoContent
          /\ row' = [row EXCEPT ![j] = r]
        BY <1>4, CommittedOutcome
    <2>2. row' \in [Jobs -> Rows] /\ row'[j] = r /\ \A i \in Jobs \ {j} : row'[i] = row[i]
        BY <1>1, <2>1 DEF TypeOK, LedgerTypeOK
    <2>3. /\ snapshots' = IF r.change = NoContent THEN snapshots
                          ELSE snapshots \cup {<<SourceOf[j], r.change>>}
          /\ snapshots \subseteq snapshots' /\ snapshots' \subseteq Sources \X Contents
        BY <1>1, <2>1, LedgerAssumption DEF CommitTransaction, TypeOK, Rows
    <2>4. TypeOK'
        BY <1>1, <1>2, <2>2, <2>3 DEF TypeOK, LedgerTypeOK, queueVars, apiVars
    <2> HIDE DEF r, j
    <2>5. \A i \in Jobs : RowOK(i)'
        <3>1. ASSUME NEW i \in Jobs, i = j PROVE RowOK(i)'
            BY <1>2, <2>1, <2>2, <3>1 DEF RowOK, apiVars
        <3>2. ASSUME NEW i \in Jobs \ {j} PROVE RowOK(i)'
            BY <1>2, <2>2 DEF WorkerInv, RowOK, apiVars
        <3>3. QED
            BY <3>1, <3>2
    <2>6. \A i \in Jobs : ApiOK(i)'
        <3>1. \A i \in Jobs : Writers(i)' \subseteq Writers(i)
            BY <1>2 DEF OnlySession, Writers, Writing
        <3>2. api[j] = "none"
            BY <1>4, WriterAlone DEF j
        <3>3. QED
            BY <1>2, <2>2, <3>1, <3>2 DEF WorkerInv, ApiOK, apiVars
    <2>7. \A m \in Messages : MessageOK(m)'
        BY <1>2 DEF WorkerInv, MessageOK, queueVars, apiVars
    <2>8. SessionOK(s)'
        <3>1. PhaseOK(s)' /\ OutcomeOK(s)' /\ WriterOK(s)'
            BY <1>1, <1>2 DEF SessionOK, PhaseOK, OutcomeOK, WriterOK, Writing
        <3>2. AnswerOK(s)'
            BY <1>1, <1>2, <1>4, <2>2 DEF SessionOK, OutcomeOK, AnswerOK, Writing, j, r
        <3>3. s \in Workers => DeliveryOK(s)'
            BY <1>1, <1>2 DEF SessionOK, DeliveryOK, queueVars, apiVars
        <3>4. QED
            BY <3>1, <3>2, <3>3 DEF SessionOK
    <2>9. ASSUME NEW t \in Sessions \ {s} PROVE SessionOK(t)'
        <3>1. /\ phase'[t] = phase[t] /\ held'[t] = held[t] /\ job'[t] = job[t]
              /\ txRow'[t] = txRow[t] /\ reply'[t] = reply[t]
            BY <1>2 DEF OnlySession
        <3>2. SessionOK(t) /\ OneRecorder
            BY DEF WorkerInv
        <3>3. PhaseOK(t)' /\ (t \in Workers => DeliveryOK(t)')
            BY <1>2, <3>1, <3>2 DEF SessionOK, PhaseOK, DeliveryOK, queueVars, apiVars
        <3>4. job[t] # NoJob => job[t] \in Jobs
            BY <1>1 DEF TypeOK
        <3>5. WriterOK(t)'
            <4> SUFFICES ASSUME Writing(t) PROVE CanAttempt(job[t])'
                              /\ txRow[t].attempts = row'[job[t]].attempts + 1
                BY <3>1 DEF WriterOK, Writing
            <4>1. job[t] # j
                BY <1>4, WriterAlone DEF j
            <4>2. phase[t] # "idle"
                BY WriterAlone
            <4>3. job[t] \in Jobs
                BY <4>2, Acting
            <4>4. row'[job[t]] = row[job[t]]
                BY <2>2, <4>1, <4>3
            <4>5. QED
                BY <3>1, <3>2, <4>4 DEF SessionOK, WriterOK, CanAttempt
        <3>6. AnswerOK(t)'
            <4>1. CASE job[t] = j
                BY <2>1, <3>1, <3>2, <4>1 DEF SessionOK, AnswerOK, Writing, Attemptable
            <4>2. CASE job[t] # j /\ phase[t] # "idle"
                <5>1. job[t] \in Jobs
                    BY <4>2, Acting
                <5>2. QED
                    BY <2>2, <3>1, <3>2, <4>2, <5>1 DEF SessionOK, AnswerOK, Writing
            <4>3. CASE phase[t] = "idle"
                BY <3>1, <4>3 DEF AnswerOK
            <4>4. QED
                BY <4>1, <4>2, <4>3
        <3>7. OutcomeOK(t)'
            <4>1. phase[t] = "committing" /\ txRow[t].change # NoContent
                     => \/ SourceOf[job[t]] # SourceOf[j]
                        \/ txRow[t].change # r.change
                BY <1>1, <3>2 DEF OneRecorder, j, r
            <4>2. \A q \in Sources \X Contents :
                     q \in snapshots' <=> q \in snapshots
                        \/ (r.change # NoContent /\ q = <<SourceOf[j], r.change>>)
                BY <2>3
            <4>3. phase[t] = "committing" /\ txRow[t].change # NoContent
                     => <<SourceOf[job[t]], txRow[t].change>> \in Sources \X Contents
                BY <1>1, Acting DEF TypeOK, Rows
            <4>4. phase[t] = "committing" /\ Writing(t) /\ txRow[t].change # NoContent
                     => <<SourceOf[job[t]], txRow[t].change>> \notin snapshots'
                BY <3>2, <4>1, <4>2, <4>3 DEF SessionOK, OutcomeOK
            <4>5. QED
                BY <2>3, <3>1, <3>2, <4>4 DEF SessionOK, OutcomeOK, Writing
        <3>8. QED
            BY <3>3, <3>5, <3>6, <3>7 DEF SessionOK
    <2>10. OneRecorder' /\ OneRunnerPerJob'
        BY <1>2 DEF WorkerInv, OneRecorder, OneRunnerPerJob, OnlySession, Writing
    <2>11. DeadLetterAgrees' /\ NoTaskLost'
        <3>1. row[j].status \notin {"succeeded", "dead_lettered"}
            BY <2>1 DEF Attemptable
        <3>2. QED
            BY <1>2, <2>2, <3>1 DEF WorkerInv, DeadLetterAgrees, NoTaskLost, Live, DeadLettered, TypeOK,
                queueVars, apiVars
    <2>12. QED
        BY <1>4, <2>4, <2>5, <2>6, <2>7, <2>8, <2>9, <2>10, <2>11, CommitReview
        DEF WorkerInv
<1>5. QED
    BY <1>3, <1>4

-----------------------------------------------------------------------------
(* The administrator's request.                                            *)

\* A step of the request that changes neither the queue nor any session.
LEMMA ApiStep ==
    ASSUME WorkerInv, NEW j \in Jobs,
           UNCHANGED <<snapshots, queueVars, sessionVars, requested, enqueues>>,
           row' \in [Jobs -> Rows], api' \in [Jobs -> ApiStates], faults' \in Nat,
           \A i \in Jobs \ {j} : row'[i] = row[i] /\ api'[i] = api[i],
           row[j].status = "absent",
           row'[j] = row[j] \/ (Writers(j) = {} /\ row'[j].change = NoContent),
           RowOK(j)', ApiOK(j)'
    PROVE  WorkerInv'
<1>1. TypeOK
    BY DEF WorkerInv
<1>2. TypeOK'
    BY <1>1 DEF TypeOK, LedgerTypeOK, queueVars, sessionVars
<1>3. \A i \in Jobs : RowOK(i)' /\ ApiOK(i)'
    BY DEF WorkerInv, RowOK, ApiOK, Writers, Writing, sessionVars
<1>4. \A m \in Messages : MessageOK(m)'
    BY DEF WorkerInv, MessageOK, queueVars
<1>5. ASSUME NEW t \in Sessions PROVE SessionOK(t)'
    <2>1. SessionOK(t)
        BY DEF WorkerInv
    <2>2. PhaseOK(t)' /\ OutcomeOK(t)' /\ (t \in Workers => DeliveryOK(t)')
        BY <2>1 DEF SessionOK, PhaseOK, OutcomeOK, DeliveryOK, Writing, queueVars,
                    sessionVars
    <2>3. CASE phase[t] = "idle"
        BY <2>1, <2>2, <2>3 DEF SessionOK, PhaseOK, AnswerOK, WriterOK, Writing,
                                sessionVars
    <2>4. CASE phase[t] # "idle"
        <3>1. job[t] \in Jobs
            BY <2>4, Acting
        <3>2. AnswerOK(t)'
            BY <2>1, <3>1 DEF SessionOK, AnswerOK, Writing, sessionVars
        <3>3. Writing(t) => row'[job[t]] = row[job[t]]
            BY <3>1 DEF Writers
        <3>4. WriterOK(t)'
            BY <2>1, <3>3 DEF SessionOK, WriterOK, Writing, CanAttempt, sessionVars
        <3>5. QED
            BY <2>2, <3>2, <3>4 DEF SessionOK
    <2>5. QED
        BY <2>3, <2>4
<1>6. /\ OneRecorder' /\ OneRunnerPerJob'
      /\ DeadLetterAgrees' /\ NoTaskLost'
    <2>1. OneRecorder' /\ OneRunnerPerJob'
        BY DEF WorkerInv, OneRecorder, OneRunnerPerJob, Writing, sessionVars
    <2>2. \A i \in Jobs : row[i].status \in {"succeeded", "dead_lettered"} => row'[i] = row[i]
        OBVIOUS
    <2>3. DeadLetterAgrees'
        BY <2>2 DEF WorkerInv, DeadLetterAgrees, queueVars
    <2>4. NoTaskLost'
        BY <1>1, <2>2 DEF WorkerInv, TypeOK, NoTaskLost, Live, DeadLettered, queueVars
    <2>5. QED
        BY <2>1, <2>3, <2>4
<1>7. OneReviewPerChange'
    <2>1. row[j] = NoRow
        BY DEF WorkerInv, RowOK
    <2>2. NoRow.change = NoContent
        BY DEF NoRow
    <2>3. \A i \in Jobs : row'[i].change = row[i].change
        BY <2>1, <2>2
    <2>4. QED
        BY <2>3 DEF WorkerInv, OneReviewPerChange, Recorded
<1>8. QED
    BY <1>2, <1>3, <1>4, <1>5, <1>6, <1>7 DEF WorkerInv

LEMMA PrepareCrawlStep ==
    ASSUME WorkerInv, NEW j \in Jobs, PrepareCrawl(j)
    PROVE  WorkerInv'
<1>1. TypeOK /\ RowOK(j) /\ ApiOK(j)
    BY DEF WorkerInv
<1>2. RowOK(j)' /\ ApiOK(j)'
    BY <1>1 DEF PrepareCrawl, TypeOK, RowOK, ApiOK, Writers, Writing, sessionVars
<1>3. \A i \in Jobs \ {j} : row'[i] = row[i] /\ api'[i] = api[i]
    BY <1>1 DEF PrepareCrawl, TypeOK
<1>4. /\ row' \in [Jobs -> Rows] /\ row'[j] = row[j]
      /\ api' \in [Jobs -> ApiStates] /\ faults' \in Nat
    BY <1>1 DEF PrepareCrawl, TypeOK, LedgerTypeOK, ApiStates
<1>5. /\ UNCHANGED <<snapshots, queueVars, sessionVars, requested, enqueues>>
      /\ row[j].status = "absent"
    BY <1>2 DEF PrepareCrawl
<1>6. QED
    BY <1>2, <1>3, <1>4, <1>5, ApiStep

LEMMA RollbackCrawlStep ==
    ASSUME WorkerInv, NEW j \in Jobs, RollbackCrawl(j)
    PROVE  WorkerInv'
<1>1. TypeOK /\ RowOK(j) /\ ApiOK(j)
    BY DEF WorkerInv
<1>2. row[j].status = "absent" /\ RowOK(j)' /\ ApiOK(j)'
    BY <1>1 DEF RollbackCrawl, TypeOK, RowOK, ApiOK
<1>3. \A i \in Jobs \ {j} : row'[i] = row[i] /\ api'[i] = api[i]
    BY <1>1 DEF RollbackCrawl, TypeOK
<1>4. /\ row' \in [Jobs -> Rows] /\ row'[j] = row[j]
      /\ api' \in [Jobs -> ApiStates] /\ faults' \in Nat
    BY <1>1 DEF RollbackCrawl, TypeOK, LedgerTypeOK, ApiStates
<1>5. /\ UNCHANGED <<snapshots, queueVars, sessionVars, requested, enqueues>>
      /\ row[j].status = "absent"
    BY <1>2 DEF RollbackCrawl
<1>6. QED
    BY <1>2, <1>3, <1>4, <1>5, ApiStep

LEMMA CommitCrawlFacts ==
    ASSUME WorkerInv, NEW j \in Jobs, CommitCrawl(j)
    PROVE  /\ row[j] = NoRow /\ row' \in [Jobs -> Rows]
           /\ row'[j].status = "queued" /\ row'[j].attempts = 0
           /\ row'[j].change = NoContent
<1>1. TypeOK /\ row[j] = NoRow /\ row[j] \in Rows
    BY DEF WorkerInv, TypeOK, LedgerTypeOK, RowOK, ApiOK, CommitCrawl
<1>2. [row[j] EXCEPT !.status = "queued"] \in Rows
    BY <1>1 DEF Rows, Statuses
<1>3. row' \in [Jobs -> Rows]
    BY <1>1, <1>2 DEF CommitCrawl, TypeOK, LedgerTypeOK
<1>4. row'[j] = [row[j] EXCEPT !.status = "queued"]
    BY <1>1 DEF CommitCrawl, TypeOK, LedgerTypeOK
<1>5. NoRow.attempts = 0 /\ NoRow.change = NoContent
    BY DEF NoRow
<1>6. QED
    BY <1>1, <1>3, <1>4, <1>5 DEF Rows

LEMMA CommitCrawlStep ==
    ASSUME WorkerInv, NEW j \in Jobs, CommitCrawl(j)
    PROVE  WorkerInv'
<1>1. TypeOK /\ RowOK(j) /\ ApiOK(j)
    BY DEF WorkerInv
<1>2. row[j].status = "absent" /\ Writers(j) = {} /\ j \in requested
    BY <1>1 DEF CommitCrawl, ApiOK
<1>3. /\ row' \in [Jobs -> Rows] /\ row'[j].status = "queued"
      /\ row'[j].attempts = 0 /\ row'[j].change = NoContent
    BY CommitCrawlFacts
<1>4. api'[j] = "none" /\ \A i \in Jobs \ {j} : row'[i] = row[i] /\ api'[i] = api[i]
    BY <1>1 DEF CommitCrawl, TypeOK, LedgerTypeOK
<1>5. RowOK(j)' /\ ApiOK(j)'
    BY <1>2, <1>3, <1>4 DEF CommitCrawl, RowOK, ApiOK
<1>6. QED
    BY <1>1, <1>2, <1>3, <1>4, <1>5, ApiStep DEF CommitCrawl, TypeOK, ApiStates

-----------------------------------------------------------------------------
(* The theorems.                                                           *)

LEMMA Stutter == WorkerInv /\ UNCHANGED vars => WorkerInv'
<1> SUFFICES ASSUME WorkerInv, UNCHANGED vars PROVE WorkerInv'
    OBVIOUS
<1> USE DEF vars, queueVars, sessionVars, apiVars
<1>1. TypeOK'
    BY DEF WorkerInv, TypeOK, LedgerTypeOK
<1>2. \A m \in Messages : MessageOK(m)'
    BY DEF WorkerInv, MessageOK
<1>3. \A j \in Jobs : ApiOK(j)'
    BY DEF WorkerInv, ApiOK, Writers, Writing
<1>4. NoTaskLost'
    BY DEF WorkerInv, NoTaskLost, Live, DeadLettered
<1>5. QED
    BY <1>1, <1>2, <1>3, <1>4, QueueStep

LEMMA NextInv == WorkerInv /\ [Next]_vars => WorkerInv'
<1> SUFFICES ASSUME WorkerInv, Next PROVE WorkerInv'
    BY Stutter
<1>1. ASSUME NEW s \in Sessions, Claim(s) PROVE WorkerInv'
    BY <1>1, ClaimAgainStep, ClaimRefusedStep, ClaimMissingStep, ClaimInsertStep,
       ClaimConflictStep DEF Claim
<1>2. ASSUME NEW s \in Sessions, Operate(s) PROVE WorkerInv'
    BY <1>2, OperationUnchangedStep, OperationChangedStep, RecordSnapshotStep,
       RecordConflictStep, CommitTransactionStep, AcknowledgeStep DEF Operate
<1>3. ASSUME NEW w \in Workers, WorkerOnly(w) PROVE WorkerInv'
    BY <1>3, OperationFailsStep, ScheduleRetryStep, DeadLetterStep DEF WorkerOnly
<1>4. ASSUME NEW w \in Workers, Poll(w) PROVE WorkerInv'
    BY <1>4, PromoteDueStep, ReclaimStaleStep, ReserveStep DEF Poll
<1>5. ASSUME NEW j \in Jobs, Request(j) PROVE WorkerInv'
    BY <1>5, PublishScheduledStep, EnqueueSourceStep, PublishCrawlStep,
       PrepareCrawlStep, CommitCrawlStep, RollbackCrawlStep DEF Request
<1>6. QED
    BY <1>1, <1>2, <1>3, <1>4, <1>5, InterruptStep, ClaimErrorStep, UploadFailsStep,
       BeginUploadStep, GoStaleStep DEF Next

\* The inductive invariant holds in every reachable state, for any number of
\* jobs, workers, uploads, messages, attempts and faults.
THEOREM WorkerInvariant == Spec => []WorkerInv
<1>1. Init => WorkerInv
    BY InitInv
<1>2. WorkerInv /\ [Next]_vars => WorkerInv'
    BY NextInv
<1>3. QED
    BY <1>1, <1>2, PTL DEF Spec

\* Every variable keeps its type (the variables stand for queue.py's keys, the
\* rows of models/ingestion.py and the locals of worker.py).
THEOREM TypeCorrect == Spec => []TypeOK
<1>1. WorkerInv => TypeOK
    BY DEF WorkerInv
<1>2. QED
    BY <1>1, WorkerInvariant, PTL

\* run_once commits before it acknowledges, so no published task disappears
\* before it has succeeded or is in the dead-letter stream.
THEOREM TasksAreKept == Spec => []NoTaskLost
<1>1. WorkerInv => NoTaskLost
    BY DEF WorkerInv
<1>2. QED
    BY <1>1, WorkerInvariant, PTL

\* A row that waits for an attempt has a task or a dead letter: queue_crawl
\* publishes inside its transaction, and a retry replaces its delivery.
THEOREM WaitingJobsAreBacked == Spec => []NoStrandedJob
<1>1. WorkerInv => NoStrandedJob
    <2> SUFFICES ASSUME WorkerInv, NEW j \in Jobs,
                        row[j].status \in {"queued", "retry_scheduled"}
                 PROVE  Live(j) \/ DeadLettered(j)
        BY DEF NoStrandedJob
    <2>1. j \in requested
        BY DEF WorkerInv, RowOK
    <2>2. QED
        BY <2>1 DEF WorkerInv, NoTaskLost
<1>2. QED
    BY <1>1, WorkerInvariant, PTL

\* claim_job's lock and unique key admit one running attempt of a job.
THEOREM RunnersExclude == Spec => []OneRunnerPerJob
<1>1. WorkerInv => OneRunnerPerJob
    BY DEF WorkerInv
<1>2. QED
    BY <1>1, WorkerInvariant, PTL

\* _handle_failure dead-letters only what mark_failed has made terminal.
THEOREM DeadLettersAgree == Spec => []DeadLetterAgrees
<1>1. WorkerInv => DeadLetterAgrees
    BY DEF WorkerInv
<1>2. QED
    BY <1>1, WorkerInvariant, PTL

\* A changed content becomes one snapshot and one review item, by one job.
THEOREM ChangesAreReviewedOnce == Spec => []OneReviewPerChange
<1>1. WorkerInv => OneReviewPerChange
    BY DEF WorkerInv
<1>2. QED
    BY <1>1, WorkerInvariant, PTL

-----------------------------------------------------------------------------
(* Refinement.                                                             *)

LEMMA CommitImplements ==
    ASSUME WorkerInv, NEW s \in Sessions, CommitTransaction(s)
    PROVE  LedgerNext \/ row' = row
<1> DEFINE j == job[s]
           r == txRow[s]
<1>1. CASE ~Writing(s)
    BY <1>1 DEF CommitTransaction
<1>2. CASE Writing(s)
    <2>1. /\ TypeOK /\ SessionOK(s) /\ j \in Jobs /\ r \in Rows
          /\ row' = [row EXCEPT ![j] = r]
          /\ r.status \in {"succeeded", "retry_scheduled", "dead_lettered"}
          /\ r.status = "retry_scheduled" => r.attempts < MaxAttempts[j]
          /\ r.status # "succeeded" => r.change = NoContent
        BY <1>2, CommittedOutcome
    <2>2. CanAttempt(j) /\ r.attempts = row[j].attempts + 1
        BY <1>2, <2>1 DEF SessionOK, WriterOK
    <2>3. r = [status |-> r.status, attempts |-> row[j].attempts + 1, change |-> r.change]
        BY <2>1, <2>2 DEF Rows
    <2>4. /\ r.status = "succeeded" /\ r.change = NoContent =>
                \E c \in Contents : <<SourceOf[j], c>> \in snapshots
          /\ r.change # NoContent => <<SourceOf[j], r.change>> \notin snapshots
        BY <1>2, <2>1 DEF CommitTransaction, SessionOK, OutcomeOK
    <2>5. \A c \in Contents : <<SourceOf[j], c>> \in snapshots <=> c \in Recorded(SourceOf[j])
        BY <2>1, LedgerAssumption DEF WorkerInv, OneReviewPerChange
    <2> HIDE DEF r, j
    <2>6. CASE r.status = "succeeded" /\ r.change = NoContent
        <3>1. SucceedUnchanged(j)
            BY <2>1, <2>2, <2>3, <2>4, <2>5, <2>6 DEF SucceedUnchanged
        <3>2. QED
            BY <2>1, <3>1 DEF LedgerNext
    <2>7. CASE r.status = "succeeded" /\ r.change # NoContent
        <3>1. r.change \in Contents
            BY <2>1, <2>7 DEF Rows
        <3>2. SucceedChanged(j, r.change)
            BY <2>1, <2>2, <2>3, <2>4, <2>5, <2>7, <3>1 DEF SucceedChanged
        <3>3. QED
            BY <2>1, <3>1, <3>2 DEF LedgerNext
    <2>8. CASE r.status \in {"retry_scheduled", "dead_lettered"}
        <3>1. r.change = NoContent
            BY <2>1, <2>8
        <3>2. Fail(j)
            BY <2>1, <2>2, <2>3, <2>8, <3>1 DEF Fail
        <3>3. QED
            BY <2>1, <3>2 DEF LedgerNext
    <2>9. QED
        BY <2>1, <2>6, <2>7, <2>8
<1>3. QED
    BY <1>1, <1>2

\* Every other step of the system leaves the committed rows alone.
LEMMA StepImplements == WorkerInv /\ [Next]_vars => [LedgerNext]_row
<1> SUFFICES ASSUME WorkerInv, Next PROVE LedgerNext \/ row' = row
    BY DEF vars
<1>1. ASSUME NEW s \in Sessions, Claim(s) PROVE row' = row
    BY <1>1 DEF Claim, ClaimAgain, ClaimRefused, ClaimMissing, ClaimInsert, ClaimConflict
<1>2. ASSUME NEW s \in Sessions, Operate(s) PROVE LedgerNext \/ row' = row
    BY <1>2, CommitImplements DEF Operate, OperationUnchanged, OperationChanged,
       RecordSnapshot, RecordConflict, Acknowledge
<1>3. ASSUME NEW w \in Workers, WorkerOnly(w) PROVE row' = row
    BY <1>3 DEF WorkerOnly, OperationFails, ScheduleRetry, DeadLetter
<1>4. ASSUME NEW w \in Workers, Poll(w) PROVE row' = row
    BY <1>4 DEF Poll, PromoteDue, ReclaimStale, Reserve, Hold
<1>5. ASSUME NEW j \in Jobs, Request(j) PROVE LedgerNext \/ row' = row
    <2>1. CASE CommitCrawl(j)
        <3>1. Enqueue(j)
            BY <2>1, CommitCrawlFacts DEF Enqueue, CommitCrawl
        <3>2. QED
            BY <3>1 DEF LedgerNext
    <2>2. CASE ~CommitCrawl(j)
        BY <1>5, <2>2 DEF Request, PublishScheduled, EnqueueSource, PublishCrawl,
           PrepareCrawl, RollbackCrawl
    <2>3. QED
        BY <2>1, <2>2
<1>6. QED
    BY <1>1, <1>2, <1>3, <1>4, <1>5 DEF Next, Interrupt, ClaimError, UploadFails,
       BeginUpload, GoStale

\* Every behaviour of the workers, uploads and requests is a behaviour of the
\* ledger: crawl_jobs changes one whole attempt at a time, within its budget.
THEOREM Refinement == Spec => ImplementsLedger
<1>1. Init => LedgerInit
    BY DEF Init
<1>2. WorkerInv /\ [Next]_vars => [LedgerNext]_row
    BY StepImplements
<1>3. QED
    BY <1>1, <1>2, WorkerInvariant, PTL DEF Spec, ImplementsLedger, LedgerSpec

=============================================================================
