------------------------- MODULE PublicationLedger -------------------------
(***************************************************************************)
(* What review and publication promise: every reviewer decision, every     *)
(* publication and every expiration is one indivisible step.               *)
(*                                                                         *)
(* The statements, locks and rollbacks behind a publication are in module  *)
(* KnowledgePublication, which implements this one.                        *)
(***************************************************************************)
EXTENDS Naturals

CONSTANTS
    Reviewers,
    Items,       \* review items, each of one extraction artifact
    Documents,   \* slugs
    MaxNumber,   \* bound on version numbers, which stand for (major, minor, revision)
    NoReviewer

ASSUME LedgerAssumption ==
    /\ NoReviewer \notin Reviewers
    /\ MaxNumber \in Nat

\* What a publisher submits: the item it is made from, the document, its number.
\* A committed version is the candidate it was made from.
Candidates == [item: Items, document: Documents, number: 1..MaxNumber]

VARIABLES
    review,     \* every review item
    document,   \* every document: its status and the number of its current version
    versions,   \* the versions, each with its publication record
    expired     \* the lifecycle events

ledger == <<review, document, versions, expired>>

ReviewStatuses == {"pending", "in_review", "approved", "rejected"}

DocumentStatuses == {"absent", "published", "expired"}

LedgerTypeOK ==
    /\ review \in [Items -> [status: ReviewStatuses, by: Reviewers \cup {NoReviewer}]]
    /\ document \in [Documents -> [status: DocumentStatuses, current: 0..MaxNumber]]
    /\ versions \subseteq Candidates
    /\ expired \subseteq Documents \X (0..MaxNumber)

LedgerInit ==
    /\ review = [i \in Items |-> [status |-> "pending", by |-> NoReviewer]]
    /\ document = [d \in Documents |-> [status |-> "absent", current |-> 0]]
    /\ versions = {}
    /\ expired = {}

Published(i) == \E v \in versions : v.item = i

\* v is the current version of its document, and the document is published.
IsCurrent(v) ==
    /\ v \in versions
    /\ document[v.document] = [status |-> "published", current |-> v.number]

-----------------------------------------------------------------------------
\* A reviewer takes a pending item.
LedgerClaim(r, i) ==
    /\ review[i].status = "pending"
    /\ review' = [review EXCEPT ![i] = [status |-> "in_review", by |-> r]]
    /\ UNCHANGED <<document, versions, expired>>

\* Its reviewer decides, once.
LedgerDecide(i, verdict) ==
    /\ review[i].status = "in_review"
    /\ review' = [review EXCEPT ![i].status = verdict]
    /\ UNCHANGED <<document, versions, expired>>

\* Mutant: the item need not be decided.
LedgerPublishClaimed(c) ==
    /\ review[c.item].status \in {"in_review", "approved"}
    /\ ~Published(c.item)
    /\ c.number > document[c.document].current
    /\ versions' = versions \cup {c}
    /\ document' = [document EXCEPT ![c.document] =
                       [status |-> "published", current |-> c.number]]
    /\ UNCHANGED <<review, expired>>

\* An approved item becomes the newest version of one document.
LedgerPublish(c) ==
    /\ review[c.item].status = "approved"
    /\ ~Published(c.item)
    /\ c.number > document[c.document].current
    /\ versions' = versions \cup {c}
    /\ document' = [document EXCEPT ![c.document] =
                       [status |-> "published", current |-> c.number]]
    /\ UNCHANGED <<review, expired>>

\* The current version is withdrawn.
LedgerExpire(d) ==
    /\ document[d].status = "published"
    /\ document' = [document EXCEPT ![d].status = "expired"]
    /\ expired' = expired \cup {<<d, document[d].current>>}
    /\ UNCHANGED <<review, versions>>

LedgerNext ==
    \/ \E i \in Items :
          \/ \E r \in Reviewers : LedgerClaim(r, i)
          \/ \E verdict \in {"approved", "rejected"} : LedgerDecide(i, verdict)
    \/ \E c \in Candidates : LedgerPublish(c)
    \/ \E d \in Documents : LedgerExpire(d)

LedgerSpec == LedgerInit /\ [][LedgerNext]_ledger

-----------------------------------------------------------------------------
(* The inductive invariant: what the modules that build on the ledger know.*)

LedgerInv ==
    /\ LedgerTypeOK
    /\ \A v \in versions : review[v.item].status = "approved"
    /\ \A d \in Documents : document[d].status # "absent" =>
          \E v \in versions : v.document = d /\ v.number = document[d].current

=============================================================================
