--------------------------- MODULE CrawlJobLedger ---------------------------
(***************************************************************************)
(* What ingestion.crawl_jobs promises to everyone who reads it.            *)
(*                                                                         *)
(* A crawl job is one logical fetch: a (source, idempotency key) pair.     *)
(* Seen from outside, the job is a row that changes in one indivisible     *)
(* step per attempt.  The workers, deliveries, locks and rollbacks behind  *)
(* such a step are in module IngestionWorker, which implements this one.   *)
(***************************************************************************)
EXTENDS Naturals

CONSTANTS
    Jobs,         \* (source_id, idempotency_key) pairs
    Sources,      \* registered sources
    SourceOf,     \* the source of every job
    Contents,     \* response bodies a source can return, told apart by sha256
    MaxAttempts,  \* crawl_jobs.max_attempts of every job
    NoContent     \* the outcome UNCHANGED, or no outcome yet

ASSUME LedgerAssumption ==
    /\ SourceOf \in [Jobs -> Sources]
    /\ MaxAttempts \in [Jobs -> Nat \ {0}]
    /\ NoContent \notin Contents

VARIABLE row      \* the committed row of every job

Statuses == {"absent", "queued", "running", "retry_scheduled",
             "succeeded", "dead_lettered"}

\* The statuses from which claim_job starts an attempt.
Attemptable == {"absent", "queued", "retry_scheduled"}

Rows == [status: Statuses, attempts: Nat, change: Contents \cup {NoContent}]

NoRow == [status |-> "absent", attempts |-> 0, change |-> NoContent]

LedgerTypeOK == row \in [Jobs -> Rows]

-----------------------------------------------------------------------------
\* The contents of source s that some job has turned into a snapshot.
Recorded(s) == {row[j].change : j \in {i \in Jobs : SourceOf[i] = s}} \ {NoContent}

LedgerInit == row = [j \in Jobs |-> NoRow]

\* An administrator's request stores the job before any worker sees it.
Enqueue(j) ==
    /\ row[j] = NoRow
    /\ row' = [row EXCEPT ![j].status = "queued"]

CanAttempt(j) ==
    /\ row[j].status \in Attemptable
    /\ row[j].attempts < MaxAttempts[j]

\* An attempt that found the source unchanged.
SucceedUnchanged(j) ==
    /\ CanAttempt(j)
    /\ Recorded(SourceOf[j]) # {}
    /\ row' = [row EXCEPT ![j] = [status |-> "succeeded",
                                  attempts |-> row[j].attempts + 1,
                                  change |-> NoContent]]

\* An attempt that stored a snapshot, its artifact and its review item.
SucceedChanged(j, c) ==
    /\ CanAttempt(j)
    /\ c \notin Recorded(SourceOf[j])
    /\ row' = [row EXCEPT ![j] = [status |-> "succeeded",
                                  attempts |-> row[j].attempts + 1,
                                  change |-> c]]

\* A failed attempt; another one follows only if the budget allows it.
Fail(j) ==
    /\ CanAttempt(j)
    /\ \E s \in {"retry_scheduled", "dead_lettered"} :
          /\ s = "retry_scheduled" => row[j].attempts + 1 < MaxAttempts[j]
          /\ row' = [row EXCEPT ![j] = [status |-> s,
                                        attempts |-> row[j].attempts + 1,
                                        change |-> NoContent]]

LedgerNext ==
    \E j \in Jobs :
        \/ Enqueue(j)
        \/ SucceedUnchanged(j)
        \/ \E c \in Contents : SucceedChanged(j, c)
        \/ Fail(j)

LedgerSpec == LedgerInit /\ [][LedgerNext]_row

=============================================================================
