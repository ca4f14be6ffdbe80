------------------------ MODULE KnowledgePublication ------------------------
(***************************************************************************)
(* From an extraction in the review queue to what retrieval may serve:     *)
(* reviewers claim and decide review items, publishers turn an approved    *)
(* item into the next version of a document, or expire the document.       *)
(*                                                                         *)
(* A publication is one database transaction of several statements.  It    *)
(* locks its review item, then reads the source without a lock, then locks *)
(* the document, all READ COMMITTED.  Every other operation reads and      *)
(* writes only rows that it has locked, so it is one action here, enabled  *)
(* while nobody else holds the lock.                                       *)
(***************************************************************************)
EXTENDS PublicationLedger

CONSTANTS
    Publishers,   \* transactions that may publish
    Sources,
    SourceOf,     \* the source of every item's snapshot
    NoCandidate

ASSUME PublicationAssumption ==
    /\ SourceOf \in [Items -> Sources]
    /\ NoCandidate \notin Candidates

VARIABLES
    eligible,   \* sources that are active, allowed and of an official organization
    step,       \* what every publisher does next
    candidate   \* the candidate it is publishing

publishing == <<step, candidate>>
vars == <<ledger, eligible, publishing>>

Steps == {"idle", "lineage", "lookup", "insert", "commit"}

TypeOK ==
    /\ LedgerTypeOK
    /\ eligible \subseteq Sources
    /\ step \in [Publishers -> Steps]
    /\ candidate \in [Publishers -> Candidates \cup {NoCandidate}]

Init ==
    /\ LedgerInit
    /\ eligible = Sources
    /\ step = [p \in Publishers |-> "idle"]
    /\ candidate = [p \in Publishers |-> NoCandidate]

-----------------------------------------------------------------------------
\* Publishers that hold the row lock of review item i, or would wait for it.
ItemHeld(i) == \E p \in Publishers : step[p] # "idle" /\ candidate[p].item = i

\* Publishers that hold the lock of document d, or have inserted it.
DocumentHeld(d) ==
    \E p \in Publishers : step[p] = "commit" /\ candidate[p].document = d

-----------------------------------------------------------------------------
(***************************************************************************)
(* Review.  Claiming one's own item again changes nothing.                 *)
(***************************************************************************)
Claim(r, i) ==
    /\ ~ItemHeld(i)
    /\ review[i].status = "pending"
    /\ review' = [review EXCEPT ![i] = [status |-> "in_review", by |-> r]]
    /\ UNCHANGED <<document, versions, expired, eligible, publishing>>

\* Mutant: a decision may be revised.
DecideAgain(r, i, verdict) ==
    /\ ~ItemHeld(i)
    /\ review[i].status # "pending"
    /\ review[i].by = r
    /\ review' = [review EXCEPT ![i].status = verdict]
    /\ UNCHANGED <<document, versions, expired, eligible, publishing>>

Decide(r, i, verdict) ==
    /\ ~ItemHeld(i)
    /\ review[i].status = "in_review"
    /\ review[i].by = r
    /\ review' = [review EXCEPT ![i].status = verdict]
    /\ UNCHANGED <<document, versions, expired, eligible, publishing>>

-----------------------------------------------------------------------------
(***************************************************************************)
(* publish.                                                                *)
(***************************************************************************)
\* Mutant: the review item is read without FOR UPDATE.
LockNothing(p, c) ==
    /\ step[p] = "idle"
    /\ review[c.item].status = "approved"
    /\ ~Published(c.item)
    /\ step' = [step EXCEPT ![p] = "lineage"]
    /\ candidate' = [candidate EXCEPT ![p] = c]
    /\ UNCHANGED <<ledger, eligible>>

\* Mutant: an item may be published while its reviewer has not decided.
LockClaimed(p, c) ==
    /\ step[p] = "idle"
    /\ ~ItemHeld(c.item)
    /\ review[c.item].status \in {"in_review", "approved"}
    /\ ~Published(c.item)
    /\ step' = [step EXCEPT ![p] = "lineage"]
    /\ candidate' = [candidate EXCEPT ![p] = c]
    /\ UNCHANGED <<ledger, eligible>>

\* lock_review_lineage.  An item that is already published answers with its
\* version or with a conflict; both leave the database as it is.
LockLineage(p, c) ==
    /\ step[p] = "idle"
    /\ ~ItemHeld(c.item)
    /\ review[c.item].status = "approved"
    /\ ~Published(c.item)
    /\ step' = [step EXCEPT ![p] = "lineage"]
    /\ candidate' = [candidate EXCEPT ![p] = c]
    /\ UNCHANGED <<ledger, eligible>>

\* _ensure_source_eligible reads the source and its organization unlocked.
CheckSource(p) ==
    /\ step[p] = "lineage"
    /\ SourceOf[candidate[p].item] \in eligible
    /\ step' = [step EXCEPT ![p] = "lookup"]
    /\ UNCHANGED <<ledger, eligible, candidate>>

\* Mutant: the document is read without FOR UPDATE.
LookDocumentUnlocked(p) ==
    LET d == candidate[p].document IN
    /\ step[p] = "lookup"
    /\ \/ /\ document[d].status = "absent"
          /\ step' = [step EXCEPT ![p] = "insert"]
       \/ /\ document[d].status # "absent"
          /\ candidate[p].number > document[d].current
          /\ step' = [step EXCEPT ![p] = "commit"]
    /\ UNCHANGED <<ledger, eligible, candidate>>

\* Mutant: the number of the current version may be taken again.
LookDocumentSame(p) ==
    LET d == candidate[p].document IN
    /\ step[p] = "lookup"
    /\ \/ /\ document[d].status = "absent"
          /\ step' = [step EXCEPT ![p] = "insert"]
       \/ /\ document[d].status # "absent"
          /\ ~DocumentHeld(d)
          /\ candidate[p].number >= document[d].current
          /\ step' = [step EXCEPT ![p] = "commit"]
    /\ UNCHANGED <<ledger, eligible, candidate>>

\* SELECT ... FOR UPDATE of the document, and the comparison of the numbers.
\* It does not see, and does not wait for, an uncommitted INSERT of the slug.
LookDocument(p) ==
    LET d == candidate[p].document IN
    /\ step[p] = "lookup"
    /\ \/ /\ document[d].status = "absent"
          /\ step' = [step EXCEPT ![p] = "insert"]
       \/ /\ document[d].status # "absent"
          /\ ~DocumentHeld(d)
          /\ candidate[p].number > document[d].current
          /\ step' = [step EXCEPT ![p] = "commit"]
    /\ UNCHANGED <<ledger, eligible, candidate>>

\* The INSERT of a new document waits for another INSERT of the slug; if that
\* one is committed, the unique violation ends this transaction (Rollback).
InsertDocument(p) ==
    LET d == candidate[p].document IN
    /\ step[p] = "insert"
    /\ ~DocumentHeld(d)
    /\ document[d].status = "absent"
    /\ step' = [step EXCEPT ![p] = "commit"]
    /\ UNCHANGED <<ledger, eligible, candidate>>

Finished(p) ==
    /\ step' = [step EXCEPT ![p] = "idle"]
    /\ candidate' = [candidate EXCEPT ![p] = NoCandidate]

\* Mutant: only a new document gets the status published.
CommitKeepsStatus(p) ==
    LET c == candidate[p] IN
    /\ step[p] = "commit"
    /\ versions' = versions \cup {c}
    /\ document' = [document EXCEPT ![c.document] =
           [status |-> IF @.status = "absent" THEN "published" ELSE @.status,
            current |-> c.number]]
    /\ Finished(p)
    /\ UNCHANGED <<review, expired, eligible>>

\* The version, its chunks, its source link, the publication record and the
\* document's pointer are committed together.
Commit(p) ==
    LET c == candidate[p] IN
    /\ step[p] = "commit"
    /\ versions' = versions \cup {c}
    /\ document' = [document EXCEPT ![c.document] =
                       [status |-> "published", current |-> c.number]]
    /\ Finished(p)
    /\ UNCHANGED <<review, expired, eligible>>

\* A PublicationError, a unique violation, a lost connection or a crash.
Rollback(p) ==
    /\ step[p] # "idle"
    /\ Finished(p)
    /\ UNCHANGED <<ledger, eligible>>

-----------------------------------------------------------------------------
(***************************************************************************)
(* What else changes what is served.                                       *)
(***************************************************************************)
\* Mutant: the event is recorded, the document keeps its status.
ExpireEventOnly(d) ==
    /\ ~DocumentHeld(d)
    /\ document[d].status = "published"
    /\ expired' = expired \cup {<<d, document[d].current>>}
    /\ UNCHANGED <<review, document, versions, eligible, publishing>>

\* expire_document.  An exact replay answers with the stored event.
Expire(d) ==
    /\ ~DocumentHeld(d)
    /\ document[d].status = "published"
    /\ expired' = expired \cup {<<d, document[d].current>>}
    /\ document' = [document EXCEPT ![d].status = "expired"]
    /\ UNCHANGED <<review, versions, eligible, publishing>>

\* update_managed_source, or the registry synchronisation: a source is
\* deactivated, or allowed again, while a publication is under way.
ChangeSource(s) ==
    /\ \/ eligible' = eligible \ {s}
       \/ eligible' = eligible \cup {s}
    /\ UNCHANGED <<ledger, publishing>>

Review ==
    \E r \in Reviewers, i \in Items :
        \/ Claim(r, i)
        \/ \E verdict \in {"approved", "rejected"} : Decide(r, i, verdict)

Publish(p) ==
    \/ \E c \in Candidates : LockLineage(p, c)
    \/ CheckSource(p)
    \/ LookDocument(p)
    \/ InsertDocument(p)
    \/ Commit(p)
    \/ Rollback(p)

Next ==
    \/ Review
    \/ \E p \in Publishers : Publish(p)
    \/ \E d \in Documents : Expire(d)
    \/ \E s \in Sources : ChangeSource(s)

Spec == Init /\ [][Next]_vars

-----------------------------------------------------------------------------
(* Properties.                                                             *)

\* Every version comes from an extraction that a reviewer has approved, and it
\* stays so: no later decision withdraws the approval under a version.
EvidenceApproved == \A v \in versions : review[v.item].status = "approved"

\* The checks made under the locks are enough: no publication ever meets the
\* unique constraints on publication_records.review_item_id and on a document's
\* version numbers.
KeysUnique ==
    \A v, w \in versions :
        \/ v.item = w.item
        \/ v.document = w.document /\ v.number = w.number
        => v = w

\* ADR 0017: expiration appends one event per version and the document's status
\* says so.  A document is expired exactly while its current version is.
ExpiryAgrees ==
    \A d \in Documents :
        document[d].status = "expired" <=> <<d, document[d].current>> \in expired

\* A document never goes back to an older version, whatever publishers race.
VersionsGrow ==
    [][\A d \in Documents : document'[d].current >= document[d].current]_vars

\* What was superseded or expired never becomes current again: publication and
\* expiration, in any order, only ever make a version current that is new.
WithdrawnStays ==
    [][\A v \in versions : IsCurrent(v)' => IsCurrent(v)]_vars

\* A publication is several statements, some of which read without a lock; it is
\* still one checked step of the ledger, as are claims, decisions, expirations.
ImplementsPublication == LedgerSpec

-----------------------------------------------------------------------------
(* The inductive invariant.                                                *)

\* A busy publisher holds an item that may be published, each its own.
PublisherOK(p) ==
    step[p] # "idle" =>
        /\ candidate[p] \in Candidates
        /\ review[candidate[p].item].status = "approved"
        /\ ~Published(candidate[p].item)
        /\ \A q \in Publishers \ {p} :
              step[q] # "idle" => candidate[q].item # candidate[p].item

\* One publisher at a time is about to commit a version of a document, and the
\* number it has compared is still the current one.
CommitterOK(p) ==
    step[p] = "commit" =>
        /\ candidate[p].number > document[candidate[p].document].current
        /\ \A q \in Publishers \ {p} :
              step[q] = "commit" => candidate[q].document # candidate[p].document

\* No version is newer than its document's current one.
CurrentIsNewest ==
    /\ \A v \in versions : v.number <= document[v.document].current
    /\ \A e \in expired : e[2] <= document[e[1]].current
    /\ \A d \in Documents : document[d].status = "absent" => document[d].current = 0

PublicationInv ==
    /\ TypeOK
    /\ \A p \in Publishers : PublisherOK(p) /\ CommitterOK(p)
    /\ CurrentIsNewest
    /\ EvidenceApproved
    /\ KeysUnique
    /\ ExpiryAgrees

=============================================================================
