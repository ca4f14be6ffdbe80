--------------------- MODULE KnowledgePublicationProofs ---------------------
(***************************************************************************)
(* Proofs about KnowledgePublication, for any reviewers, publishers, items *)
(* and documents: its invariants, and that it implements the ledger.       *)
(***************************************************************************)
EXTENDS KnowledgePublication, TLAPS

\* The initial states satisfy the invariant.
LEMMA InitInv == Init => PublicationInv
<1> SUFFICES ASSUME Init PROVE PublicationInv
    OBVIOUS
<1> USE DEF Init, LedgerInit
<1>1. TypeOK
    BY LedgerAssumption, PublicationAssumption
       DEF TypeOK, LedgerTypeOK, Steps, ReviewStatuses, DocumentStatuses
<1>2. QED
    BY <1>1 DEF PublicationInv, PublisherOK, CommitterOK, CurrentIsNewest, EvidenceApproved,
        KeysUnique, ExpiryAgrees

LEMMA ClaimStep ==
    ASSUME PublicationInv, NEW r \in Reviewers, NEW i \in Items, Claim(r, i)
    PROVE  PublicationInv'
<1> USE DEF PublicationInv, Claim, publishing
<1>1. TypeOK'
    BY DEF TypeOK, LedgerTypeOK, ReviewStatuses
<1>2. \A k \in Items : review[k].status = "approved" => review'[k] = review[k]
    BY DEF TypeOK, LedgerTypeOK
<1>3. \A p \in Publishers : PublisherOK(p)' /\ CommitterOK(p)'
    BY <1>2 DEF PublisherOK, CommitterOK, Published, Candidates
<1>4. EvidenceApproved'
    BY <1>2 DEF EvidenceApproved, TypeOK, LedgerTypeOK, Candidates
<1>5. QED
    BY <1>1, <1>3, <1>4 DEF CurrentIsNewest, KeysUnique, ExpiryAgrees

LEMMA DecideStep ==
    ASSUME PublicationInv, NEW r \in Reviewers, NEW i \in Items,
           NEW verdict \in {"approved", "rejected"}, Decide(r, i, verdict)
    PROVE  PublicationInv'
<1> USE DEF PublicationInv, Decide, publishing
<1>1. TypeOK'
    BY DEF TypeOK, LedgerTypeOK, ReviewStatuses
<1>2. \A k \in Items : review[k].status = "approved" => review'[k] = review[k]
    BY DEF TypeOK, LedgerTypeOK
<1>3. \A p \in Publishers : PublisherOK(p)' /\ CommitterOK(p)'
    BY <1>2 DEF PublisherOK, CommitterOK, Published, Candidates
<1>4. EvidenceApproved'
    BY <1>2 DEF EvidenceApproved, TypeOK, LedgerTypeOK, Candidates
<1>5. QED
    BY <1>1, <1>3, <1>4 DEF CurrentIsNewest, KeysUnique, ExpiryAgrees

\* The steps of a publication that only take locks and read.
LEMMA ReadStep ==
    ASSUME PublicationInv, NEW p \in Publishers,
           \/ \E c \in Candidates : LockLineage(p, c)
           \/ CheckSource(p)
           \/ LookDocument(p)
           \/ InsertDocument(p)
    PROVE  PublicationInv'
<1> USE DEF PublicationInv, ledger
<1>1. UNCHANGED <<review, document, versions, expired, eligible>>
    BY DEF LockLineage, CheckSource, LookDocument, InsertDocument
<1>2. /\ step' \in [Publishers -> Steps]
      /\ candidate' \in [Publishers -> Candidates \cup {NoCandidate}]
      /\ \A q \in Publishers \ {p} : step'[q] = step[q] /\ candidate'[q] = candidate[q]
    BY DEF LockLineage, CheckSource, LookDocument, InsertDocument, TypeOK, Steps
<1>3. TypeOK'
    BY <1>1, <1>2 DEF TypeOK, LedgerTypeOK
<1>4. ASSUME NEW q \in Publishers
      PROVE  PublisherOK(q)' /\ CommitterOK(q)'
    <2>1. CASE \E c \in Candidates : LockLineage(p, c)
        BY <1>1, <1>2, <2>1 DEF LockLineage, ItemHeld, PublisherOK, CommitterOK, Published, TypeOK
    <2>2. CASE CheckSource(p)
        BY <1>1, <1>2, <2>2 DEF CheckSource, PublisherOK, CommitterOK, Published, TypeOK
    <2>3. CASE LookDocument(p)
        BY <1>1, <1>2, <2>3
           DEF LookDocument, DocumentHeld, PublisherOK, CommitterOK, Published, TypeOK
    <2>4. CASE InsertDocument(p)
        <3>1. /\ candidate[p] \in Candidates
              /\ document[candidate[p].document].current = 0
            BY <2>4 DEF InsertDocument, PublisherOK, CurrentIsNewest, Candidates
        <3>2. candidate[p].number > 0
            BY <3>1, LedgerAssumption DEF Candidates
        <3>3. QED
            BY <1>1, <1>2, <2>4, <3>1, <3>2
               DEF InsertDocument, DocumentHeld, PublisherOK, CommitterOK, Published, TypeOK
    <2>5. QED
        BY <2>1, <2>2, <2>3, <2>4
<1>5. QED
    BY <1>1, <1>3, <1>4 DEF CurrentIsNewest, EvidenceApproved, KeysUnique, ExpiryAgrees

LEMMA CommitStep ==
    ASSUME PublicationInv, NEW p \in Publishers, Commit(p)
    PROVE  PublicationInv'
<1> DEFINE c == candidate[p]
<1> USE DEF PublicationInv
<1>1. /\ c \in Candidates
      /\ c.item \in Items /\ c.document \in Documents /\ c.number \in 1..MaxNumber
      /\ review[c.item].status = "approved"
      /\ ~Published(c.item)
      /\ c.number > document[c.document].current
    BY DEF Commit, PublisherOK, CommitterOK, Candidates
<1>2. /\ versions' = versions \cup {c}
      /\ document' = [document EXCEPT ![c.document] =
                         [status |-> "published", current |-> c.number]]
      /\ UNCHANGED <<review, expired, eligible>>
      /\ step' = [step EXCEPT ![p] = "idle"]
      /\ candidate' = [candidate EXCEPT ![p] = NoCandidate]
    BY DEF Commit, Finished
<1> HIDE DEF c
<1>3. TypeOK'
    BY <1>1, <1>2, LedgerAssumption DEF TypeOK, LedgerTypeOK, DocumentStatuses, Steps
<1>4. /\ \A d \in Documents : document[d].current \in 0..MaxNumber
      /\ \A d \in Documents \ {c.document} : document'[d] = document[d]
      /\ document'[c.document].status = "published"
      /\ document'[c.document].current = c.number
      /\ \A v \in versions : v \in Candidates
    BY <1>1, <1>2 DEF TypeOK, LedgerTypeOK
<1>5. \A q \in Publishers : PublisherOK(q)' /\ CommitterOK(q)'
    <2> SUFFICES ASSUME NEW q \in Publishers
                 PROVE  PublisherOK(q)' /\ CommitterOK(q)'
        OBVIOUS
    <2>1. CASE q = p
        BY <1>2, <2>1 DEF PublisherOK, CommitterOK, TypeOK
    <2>2. CASE q # p /\ step[q] # "idle"
        <3>1. /\ candidate'[q] = candidate[q] /\ step'[q] = step[q]
              /\ candidate[q] \in Candidates
              /\ candidate[q].item # c.item
            BY <1>2, <2>2 DEF PublisherOK, TypeOK, Commit, c
        <3>2. PublisherOK(q)'
            BY <1>2, <2>2, <3>1 DEF PublisherOK, Published, TypeOK
        <3>3. step[q] = "commit" => candidate[q].document # c.document
            BY <2>2 DEF CommitterOK, Commit, c
        <3>4. CommitterOK(q)'
            BY <1>2, <1>4, <2>2, <3>1, <3>3 DEF CommitterOK, TypeOK, Candidates
        <3>5. QED
            BY <3>2, <3>4
    <2>3. CASE q # p /\ step[q] = "idle"
        BY <1>2, <2>3 DEF PublisherOK, CommitterOK, TypeOK
    <2>4. QED
        BY <2>1, <2>2, <2>3
<1>6. CurrentIsNewest'
    <2>1. \A d \in Documents : document'[d].current >= document[d].current
        BY <1>1, <1>4, LedgerAssumption
    <2>2. \A v \in versions' : v.number <= document'[v.document].current
        BY <1>1, <1>2, <1>4, <2>1, LedgerAssumption DEF CurrentIsNewest, Candidates
    <2>3. \A e \in expired' : e[2] <= document'[e[1]].current
        <3> SUFFICES ASSUME NEW e \in expired'
                     PROVE  e[2] <= document'[e[1]].current
            OBVIOUS
        <3>1. e[1] \in Documents /\ e[2] \in 0..MaxNumber
            BY <1>2 DEF TypeOK, LedgerTypeOK
        <3>2. e[2] <= document[e[1]].current
            BY <1>2 DEF CurrentIsNewest
        <3>3. document'[e[1]].current \in 0..MaxNumber
            BY <1>1, <1>4, <3>1, LedgerAssumption
        <3>4. QED
            BY <1>4, <2>1, <3>1, <3>2, <3>3, LedgerAssumption
    <2>4. QED
        BY <1>4, <2>2, <2>3 DEF CurrentIsNewest
<1>7. EvidenceApproved'
    BY <1>1, <1>2 DEF EvidenceApproved
<1>8. KeysUnique'
    <2>1. \A v \in versions : /\ v.item # c.item
                              /\ v.document = c.document => v.number # c.number
        BY <1>1, <1>4, LedgerAssumption DEF CurrentIsNewest, Published, Candidates
    <2>2. QED
        BY <1>2, <2>1 DEF KeysUnique
<1>9. ExpiryAgrees'
    <2>1. <<c.document, c.number>> \notin expired
        BY <1>1, <1>4, LedgerAssumption DEF CurrentIsNewest
    <2>2. QED
        BY <1>1, <1>2, <1>4, <2>1 DEF ExpiryAgrees
<1>10. QED
    BY <1>3, <1>5, <1>6, <1>7, <1>8, <1>9

LEMMA RollbackStep ==
    ASSUME PublicationInv, NEW p \in Publishers, Rollback(p)
    PROVE  PublicationInv'
<1> USE DEF PublicationInv, Rollback, Finished, ledger
<1>1. TypeOK'
    BY DEF TypeOK, LedgerTypeOK, Steps
<1>2. \A q \in Publishers : PublisherOK(q)' /\ CommitterOK(q)'
    BY DEF PublisherOK, CommitterOK, Published, TypeOK
<1>3. QED
    BY <1>1, <1>2 DEF CurrentIsNewest, EvidenceApproved, KeysUnique, ExpiryAgrees

LEMMA ExpireStep ==
    ASSUME PublicationInv, NEW d \in Documents, Expire(d)
    PROVE  PublicationInv'
<1> USE DEF PublicationInv, Expire, publishing
<1>1. TypeOK'
    BY LedgerAssumption DEF TypeOK, LedgerTypeOK, DocumentStatuses
<1>2. /\ \A e \in Documents : document'[e].current = document[e].current
      /\ \A e \in Documents \ {d} : document'[e] = document[e]
      /\ document'[d].status = "expired"
      /\ document[d].current \in 0..MaxNumber
    BY DEF TypeOK, LedgerTypeOK
<1>3. \A p \in Publishers : PublisherOK(p)' /\ CommitterOK(p)'
    BY <1>2 DEF PublisherOK, CommitterOK, Published, Candidates
<1>4. CurrentIsNewest'
    <2>1. \A v \in versions : v.document \in Documents
        BY DEF TypeOK, LedgerTypeOK, Candidates
    <2>2. \A e \in expired : e[1] \in Documents
        BY DEF TypeOK, LedgerTypeOK
    <2>3. QED
        BY <1>2, <2>1, <2>2, LedgerAssumption DEF CurrentIsNewest
<1>5. ExpiryAgrees'
    BY <1>2 DEF ExpiryAgrees
<1>6. QED
    BY <1>1, <1>3, <1>4, <1>5 DEF EvidenceApproved, KeysUnique

LEMMA NextInv == PublicationInv /\ [Next]_vars => PublicationInv'
<1> SUFFICES ASSUME PublicationInv, [Next]_vars PROVE PublicationInv'
    OBVIOUS
<1>1. CASE Review
    BY <1>1, ClaimStep, DecideStep DEF Review
<1>2. ASSUME NEW p \in Publishers, Publish(p) PROVE PublicationInv'
    BY <1>2, ReadStep, CommitStep, RollbackStep DEF Publish
<1>3. ASSUME NEW d \in Documents, Expire(d) PROVE PublicationInv'
    BY <1>3, ExpireStep
<1>4. CASE (\E s \in Sources : ChangeSource(s)) \/ UNCHANGED vars
    <2>1. /\ UNCHANGED <<review, document, versions, expired, step, candidate>>
          /\ eligible' \subseteq Sources
        BY <1>4 DEF ChangeSource, vars, ledger, publishing, PublicationInv, TypeOK
    <2>2. QED
        BY <2>1 DEF PublicationInv, TypeOK, LedgerTypeOK, PublisherOK, CommitterOK, Published,
            CurrentIsNewest, EvidenceApproved, KeysUnique, ExpiryAgrees
<1>5. QED
    BY <1>1, <1>2, <1>3, <1>4 DEF Next

\* The inductive invariant holds in every reachable state: what a publisher has
\* checked under its locks is still true when it commits.
THEOREM PublicationInvariant == Spec => []PublicationInv
<1>1. QED
    BY InitInv, NextInv, PTL DEF Spec

\* A version's extraction is approved and stays approved (Decide is final).
THEOREM VersionsAreApproved == Spec => []EvidenceApproved
<1>1. PublicationInv => EvidenceApproved
    BY DEF PublicationInv
<1>2. QED
    BY <1>1, PublicationInvariant, PTL

\* No two versions share a review item, or a number of one document.
THEOREM VersionKeysAreUnique == Spec => []KeysUnique
<1>1. PublicationInv => KeysUnique
    BY DEF PublicationInv
<1>2. QED
    BY <1>1, PublicationInvariant, PTL

\* The status of a document and its lifecycle events always agree.
THEOREM ExpirationsAgree == Spec => []ExpiryAgrees
<1>1. PublicationInv => ExpiryAgrees
    BY DEF PublicationInv
<1>2. QED
    BY <1>1, PublicationInvariant, PTL

\* Every step of the sessions is one step of the ledger, or none.
LEMMA StepImplements == PublicationInv /\ [Next]_vars => [LedgerNext]_ledger
<1> SUFFICES ASSUME PublicationInv, [Next]_vars PROVE [LedgerNext]_ledger
    OBVIOUS
<1>1. CASE Review
    BY <1>1 DEF Review, Claim, Decide, LedgerNext, LedgerClaim, LedgerDecide
<1>2. ASSUME NEW p \in Publishers, Commit(p) PROVE LedgerNext
    <2>1. candidate[p] \in Candidates /\ LedgerPublish(candidate[p])
        BY <1>2 DEF PublicationInv, PublisherOK, CommitterOK, Commit, LedgerPublish
    <2>2. QED
        BY <2>1 DEF LedgerNext
<1>3. ASSUME NEW d \in Documents, Expire(d) PROVE LedgerNext
    BY <1>3 DEF Expire, LedgerExpire, LedgerNext
<1>4. ASSUME NEW p \in Publishers, Publish(p), ~Commit(p) PROVE UNCHANGED ledger
    BY <1>4 DEF Publish, LockLineage, CheckSource, LookDocument, InsertDocument, Rollback, ledger
<1>5. CASE (\E s \in Sources : ChangeSource(s)) \/ UNCHANGED vars
    BY <1>5 DEF ChangeSource, vars, ledger
<1>6. QED
    BY <1>1, <1>2, <1>3, <1>4, <1>5 DEF Next

\* Review, publication and expiration, with their statements, locks and
\* rollbacks, implement the ledger in which each of them is one step.
THEOREM PublicationRefinement == Spec => ImplementsPublication
<1>1. Init => LedgerInit
    BY DEF Init
<1>2. QED
    BY <1>1, PublicationInvariant, StepImplements, PTL DEF Spec, ImplementsPublication, LedgerSpec

\* The current version of a document never gets older.
THEOREM VersionsNeverShrink == Spec => VersionsGrow
<1>1. PublicationInv /\ [Next]_vars
         => [\A d \in Documents : document'[d].current >= document[d].current]_vars
    <2> SUFFICES ASSUME PublicationInv, [Next]_vars, NEW d \in Documents
                 PROVE  document'[d].current >= document[d].current
        OBVIOUS
    <2>1. \A e \in Documents : document[e].current \in Nat
        BY LedgerAssumption DEF PublicationInv, TypeOK, LedgerTypeOK
    <2>2. CASE UNCHANGED document
        BY <2>1, <2>2
    <2>3. ASSUME NEW c \in Candidates, LedgerPublish(c)
          PROVE  document'[d].current >= document[d].current
        BY <2>1, <2>3, LedgerAssumption
           DEF LedgerPublish, Candidates, PublicationInv, TypeOK, LedgerTypeOK
    <2>4. ASSUME NEW e \in Documents, LedgerExpire(e)
          PROVE  document'[d].current >= document[d].current
        BY <2>1, <2>4 DEF LedgerExpire, PublicationInv, TypeOK, LedgerTypeOK
    <2>5. QED
        BY <2>2, <2>3, <2>4, StepImplements
           DEF LedgerNext, LedgerClaim, LedgerDecide, ledger
<1>2. QED
    BY <1>1, PublicationInvariant, PTL DEF Spec, VersionsGrow

\* A step makes no older version current: a publication is of a number above all
\* of its document's, and an expiration withdraws the current one.
LEMMA WithdrawnStep ==
    ASSUME PublicationInv, [Next]_vars, NEW v \in versions, IsCurrent(v)'
    PROVE  IsCurrent(v)
<1>1. /\ v.document \in Documents /\ v.number \in 1..MaxNumber
      /\ document \in [Documents -> [status: DocumentStatuses, current: 0..MaxNumber]]
      /\ v.number <= document[v.document].current
    BY DEF PublicationInv, TypeOK, LedgerTypeOK, Candidates, CurrentIsNewest
<1>2. CASE UNCHANGED document
    BY <1>2 DEF IsCurrent
<1>3. ASSUME NEW c \in Candidates, LedgerPublish(c)
      PROVE  IsCurrent(v)
    <2>1. v.document # c.document
        BY <1>1, <1>3, LedgerAssumption DEF LedgerPublish, IsCurrent, Candidates
    <2>2. QED
        BY <1>1, <1>3, <2>1 DEF LedgerPublish, IsCurrent
<1>4. ASSUME NEW d \in Documents, LedgerExpire(d)
      PROVE  IsCurrent(v)
    <2>1. v.document # d
        BY <1>1, <1>4 DEF LedgerExpire, IsCurrent
    <2>2. QED
        BY <1>1, <1>4, <2>1 DEF LedgerExpire, IsCurrent
<1>5. QED
    BY <1>2, <1>3, <1>4, StepImplements DEF LedgerNext, LedgerClaim, LedgerDecide, ledger

\* What was superseded or expired is withdrawn for good.
THEOREM WithdrawnVersionsStay == Spec => WithdrawnStays
<1>1. PublicationInv /\ [Next]_vars => [\A v \in versions : IsCurrent(v)' => IsCurrent(v)]_vars
    BY WithdrawnStep
<1>2. QED
    BY <1>1, PublicationInvariant, PTL DEF Spec, WithdrawnStays, IsCurrent

=============================================================================
