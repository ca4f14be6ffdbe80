----------------------- MODULE PublicationLedgerProofs -----------------------
(* Facts about the publication ledger that its users rest on.              *)
EXTENDS PublicationLedger, TLAPS

\* The ledger keeps its types, and its versions are never withdrawn.
LEMMA KnowledgeTypes ==
    ASSUME LedgerTypeOK, LedgerNext
    PROVE  LedgerTypeOK' /\ versions \subseteq versions'
<1>1. ASSUME NEW i \in Items, NEW r \in Reviewers, LedgerClaim(r, i)
      PROVE  LedgerTypeOK' /\ versions \subseteq versions'
    BY <1>1 DEF LedgerClaim, LedgerTypeOK, ReviewStatuses
<1>2. ASSUME NEW i \in Items, NEW verdict \in {"approved", "rejected"}, LedgerDecide(i, verdict)
      PROVE  LedgerTypeOK' /\ versions \subseteq versions'
    BY <1>2 DEF LedgerDecide, LedgerTypeOK, ReviewStatuses
<1>3. ASSUME NEW c \in Candidates, LedgerPublish(c)
      PROVE  LedgerTypeOK' /\ versions \subseteq versions'
    BY <1>3, LedgerAssumption DEF LedgerPublish, LedgerTypeOK, DocumentStatuses, Candidates
<1>4. ASSUME NEW d \in Documents, LedgerExpire(d)
      PROVE  LedgerTypeOK' /\ versions \subseteq versions'
    BY <1>4 DEF LedgerExpire, LedgerTypeOK, DocumentStatuses
<1>5. QED
    BY <1>1, <1>2, <1>3, <1>4 DEF LedgerNext

\* The versions of the ledger are approved, the current ones exist, and neither an
\* approval nor a version is ever taken back.
LEMMA KnowledgeStart == LedgerInit => LedgerInv
<1>1. QED
    BY LedgerAssumption DEF LedgerInit, LedgerInv, LedgerTypeOK, ReviewStatuses, DocumentStatuses

LEMMA KnowledgeStays ==
    ASSUME LedgerInv, LedgerNext
    PROVE  /\ LedgerInv'
           /\ versions \subseteq versions'
           /\ \A v \in versions : review'[v.item].status = "approved"
<1>1. LedgerTypeOK /\ LedgerTypeOK' /\ versions \subseteq versions' /\ versions \subseteq Candidates
    BY KnowledgeTypes DEF LedgerInv, LedgerTypeOK
<1>2. \A v \in versions : review[v.item].status = "approved" /\ v.item \in Items
    BY <1>1 DEF LedgerInv, Candidates
<1>3. ASSUME UNCHANGED <<document, versions>>,
             NEW i \in Items, review[i].status # "approved",
             \A k \in Items \ {i} : review'[k] = review[k]
      PROVE  LedgerInv' /\ \A v \in versions : review'[v.item].status = "approved"
    BY <1>1, <1>2, <1>3 DEF LedgerInv
<1>4. ASSUME NEW i \in Items, NEW r \in Reviewers, LedgerClaim(r, i)
      PROVE  LedgerInv' /\ \A v \in versions : review'[v.item].status = "approved"
    BY <1>1, <1>3, <1>4 DEF LedgerClaim, LedgerTypeOK
<1>5. ASSUME NEW i \in Items, NEW verdict \in {"approved", "rejected"}, LedgerDecide(i, verdict)
      PROVE  LedgerInv' /\ \A v \in versions : review'[v.item].status = "approved"
    BY <1>1, <1>3, <1>5 DEF LedgerDecide, LedgerTypeOK
<1>6. ASSUME NEW c \in Candidates, LedgerPublish(c)
      PROVE  LedgerInv' /\ \A v \in versions : review'[v.item].status = "approved"
    <2>1. /\ document'[c.document].current = c.number
          /\ \A d \in Documents \ {c.document} : document'[d] = document[d]
          /\ versions' = versions \cup {c} /\ review' = review
        BY <1>1, <1>6 DEF LedgerPublish, LedgerTypeOK, Candidates
    <2>2. QED
        BY <1>1, <1>2, <1>6, <2>1 DEF LedgerPublish, LedgerInv
<1>7. ASSUME NEW d \in Documents, LedgerExpire(d)
      PROVE  LedgerInv' /\ \A v \in versions : review'[v.item].status = "approved"
    <2>1. /\ document'[d].current = document[d].current /\ document[d].status = "published"
          /\ \A e \in Documents \ {d} : document'[e] = document[e]
          /\ versions' = versions /\ review' = review
        BY <1>1, <1>7 DEF LedgerExpire, LedgerTypeOK
    <2>2. QED
        BY <1>1, <1>2, <2>1 DEF LedgerInv
<1>8. QED
    BY <1>1, <1>4, <1>5, <1>6, <1>7 DEF LedgerNext

=============================================================================
