----------------------- MODULE EditorialContentProofs -----------------------
(***************************************************************************)
(* Proofs about EditorialContent, for any staff, posts, contents and        *)
(* knowledge: its invariants, and that what is public stays so.  At the end *)
(* the posts are put beside the real publication: EditorialPublication      *)
(* implements EditorialContent, and so inherits all of it.                  *)
(***************************************************************************)
EXTENDS EditorialPublication, PublicationLedgerProofs, SequenceTheorems, TLAPS

\* All that the invariant says about one post.
PostInv(p) ==
    /\ post[p].status = "published" <=> post[p].published # 0
    /\ \A r \in DOMAIN revisions[p] :
          /\ revisions[p][r].status = "published" <=> r = post[p].published
          /\ RevisionOK(p, r)
          /\ GroundedOK(p, r)
    /\ PostOK(p)

\* The invariant is type correctness and the invariant of every post.
LEMMA InvByPost == EditorialInv <=> TypeOK /\ \A p \in Posts : PostInv(p)
<1>1. QED
    BY DEF EditorialInv, PostInv, PointerAgrees

\* Types of what the actions look at.
LEMMA Types ==
    ASSUME TypeOK, NEW p \in Posts
    PROVE  /\ post[p] \in [status: RevisionStatuses \cup {"absent"}, published: Nat]
           /\ revisions[p] \in Seq(Revisions)
           /\ Len(revisions[p]) \in Nat
           /\ DOMAIN revisions[p] = 1..Len(revisions[p])
           /\ \A r \in DOMAIN revisions[p] : revisions[p][r] \in Revisions
<1>1. QED
    BY DEF TypeOK

\* A request replaces one revision of a post, and the row of that post.
LEMMA Replaced ==
    ASSUME TypeOK, NEW p \in Posts, NEW r \in DOMAIN revisions[p], NEW x \in Revisions,
           revisions' = [revisions EXCEPT ![p] = [revisions[p] EXCEPT ![r] = x]]
    PROVE  /\ revisions' \in [Posts -> Seq(Revisions)]
           /\ \A q \in Posts \ {p} : revisions'[q] = revisions[q]
           /\ Len(revisions'[p]) = Len(revisions[p])
           /\ DOMAIN revisions'[p] = DOMAIN revisions[p]
           /\ revisions'[p][r] = x
           /\ \A n \in DOMAIN revisions[p] \ {r} : revisions'[p][n] = revisions[p][n]
           /\ revisions[p] # <<>> /\ revisions'[p] # <<>>
<1>1. [revisions[p] EXCEPT ![r] = x] \in Seq(Revisions)
    BY Types
<1>2. revisions'[p] = [revisions[p] EXCEPT ![r] = x]
    BY DEF TypeOK
<1>3. Len([revisions[p] EXCEPT ![r] = x]) = Len(revisions[p])
    BY Types
<1>4. QED
    BY <1>1, <1>2, <1>3, Types DEF TypeOK

\* A change of its status leaves the rest of a revision as it is.
LEMMA StatusOnly ==
    ASSUME NEW x \in Revisions, NEW status
    PROVE  LET y == [x EXCEPT !.status = status] IN
           /\ y.status = status
           /\ y.content = x.content /\ y.decided = x.decided
           /\ y.reviewer = x.reviewer /\ y.creator = x.creator
<1>1. QED
    BY DEF Revisions

\* A post that a step leaves alone keeps its invariant while knowledge grows.
LEMMA Frame ==
    ASSUME NEW p \in Posts, PostInv(p), versions \subseteq versions',
           post'[p] = post[p], revisions'[p] = revisions[p]
    PROVE  PostInv(p)'
<1>1. QED
    BY DEF PostInv, RevisionOK, GroundedOK, PostOK

\* A step of one request: it concerns one post, and the knowledge stays.
LEMMA OnePost ==
    ASSUME EditorialInv, TypeOK', NEW p \in Posts, PostInv(p)', UNCHANGED versions,
           \A q \in Posts \ {p} : post'[q] = post[q] /\ revisions'[q] = revisions[q]
    PROVE  EditorialInv'
<1>1. \A q \in Posts : PostInv(q)'
    BY InvByPost, Frame
<1>2. QED
    BY <1>1 DEF EditorialInv, PostInv, PointerAgrees

-----------------------------------------------------------------------------
LEMMA InitInv == Init => EditorialInv
<1> SUFFICES ASSUME Init PROVE EditorialInv
    OBVIOUS
<1>1. TypeOK
    BY LedgerAssumption, EditorialAssumption
       DEF Init, LedgerInit, TypeOK, LedgerTypeOK, ReviewStatuses, DocumentStatuses
<1>2. QED
    BY <1>1 DEF Init, EditorialInv, PointerAgrees, PostOK

LEMMA CreatePostStep ==
    ASSUME EditorialInv, NEW s \in Staff, NEW p \in Posts, NEW c \in Contents, CreatePost(s, p, c)
    PROVE  EditorialInv'
<1> USE DEF CreatePost, ledger
<1>1. NewRevision(s, c) \in Revisions
    BY DEF NewRevision, Revisions, RevisionStatuses
<1>2. TypeOK'
    BY <1>1, EditorialAssumption
       DEF EditorialInv, TypeOK, LedgerTypeOK, RevisionStatuses
<1>3. /\ post'[p] = [status |-> "draft", published |-> 0]
      /\ revisions'[p] = <<NewRevision(s, c)>>
      /\ \A q \in Posts \ {p} : post'[q] = post[q] /\ revisions'[q] = revisions[q]
    BY DEF EditorialInv, TypeOK
<1>4. PostInv(p)'
    BY <1>3 DEF PostInv, RevisionOK, GroundedOK, PostOK, NewRevision
<1>5. QED
    BY <1>2, <1>3, <1>4, OnePost

LEMMA CreateRevisionStep ==
    ASSUME EditorialInv, NEW s \in Staff, NEW p \in Posts, NEW c \in Contents,
           CreateRevision(s, p, c)
    PROVE  EditorialInv'
<1> DEFINE x == NewRevision(s, c)
           k == Len(revisions[p])
<1> USE DEF CreateRevision, ledger
<1>1. x \in Revisions
    BY DEF NewRevision, Revisions, RevisionStatuses
<1>2. /\ TypeOK /\ PostInv(p)
      /\ k \in Nat /\ DOMAIN revisions[p] = 1..k
    BY InvByPost, Types
<1>3. /\ revisions'[p] = Append(revisions[p], x)
      /\ post'[p] = post[p]
      /\ \A q \in Posts \ {p} : post'[q] = post[q] /\ revisions'[q] = revisions[q]
    BY <1>2 DEF TypeOK
<1>4. /\ Len(revisions'[p]) = k + 1
      /\ DOMAIN revisions'[p] = 1..(k + 1)
      /\ revisions'[p][k + 1] = x
      /\ \A n \in 1..k : revisions'[p][n] = revisions[p][n]
      /\ revisions'[p] \in Seq(Revisions)
    BY <1>1, <1>2, <1>3, Types
<1>5. TypeOK'
    BY <1>1, <1>2, <1>4 DEF TypeOK, LedgerTypeOK
<1>6. /\ x.status = "draft"
      /\ post[p].published \in 1..k
      /\ \A r \in 1..k : revisions[p][r].status \in {"published", "stale"}
    <2>1. x.status = "draft"
        BY DEF NewRevision
    <2>2. post[p].published \in 1..k
        BY <1>2 DEF PostInv, PostOK
    <2>3. \A r \in 1..k : revisions[p][r].status \in RevisionStatuses
        BY <1>2, Types DEF Revisions
    <2>4. \A r \in 1..k : revisions[p][r].status \in {"published", "stale"}
        BY <1>2, <2>3 DEF RevisionStatuses
    <2>5. QED
        BY <2>1, <2>2, <2>4
<1> HIDE DEF x
<1>7. PostInv(p)'
    <2>1. \A r \in 1..k : (RevisionOK(p, r) /\ GroundedOK(p, r))'
        BY <1>2, <1>4 DEF PostInv, RevisionOK, GroundedOK
    <2>2. \A r \in {k + 1} : (RevisionOK(p, r) /\ GroundedOK(p, r))'
        BY <1>4, <1>6 DEF RevisionOK, GroundedOK
    <2>3. \A r \in 1..(k + 1) : r \in 1..k \/ r = k + 1
        BY <1>2
    <2>4. \A r \in DOMAIN revisions'[p] :
              /\ revisions'[p][r].status = "published" <=> r = post'[p].published
              /\ (RevisionOK(p, r) /\ GroundedOK(p, r))'
        BY <1>2, <1>3, <1>4, <1>6, <2>1, <2>2, <2>3 DEF PostInv
    <2>5. PostOK(p)'
        BY <1>2, <1>3, <1>4, <1>6, <2>3 DEF PostInv, PostOK
    <2>6. QED
        BY <1>2, <1>3, <2>4, <2>5 DEF PostInv
<1>8. QED
    BY <1>3, <1>5, <1>7, OnePost

-----------------------------------------------------------------------------
\* What is left to show of a step that replaces revision r of post p by x.
LEMMA ReplaceStep ==
    ASSUME EditorialInv, NEW p \in Posts, NEW r \in DOMAIN revisions[p], NEW x \in Revisions,
           revisions[p][r].status \in {"draft", "in_review"},
           x.status \in {"draft", "in_review", "approved"},
           revisions' = [revisions EXCEPT ![p] = [revisions[p] EXCEPT ![r] = x]],
           \/ post' = Saved(p, x.status)
           \/ UNCHANGED post /\ x.status = revisions[p][r].status,
           UNCHANGED <<ledger, eligible>>,
           RevisionOK(p, r)', GroundedOK(p, r)'
    PROVE  EditorialInv'
<1>1. /\ TypeOK /\ PostInv(p)
      /\ post[p] \in [status: RevisionStatuses \cup {"absent"}, published: Nat]
      /\ Len(revisions[p]) \in Nat
      /\ DOMAIN revisions[p] = 1..Len(revisions[p])
      /\ revisions[p][r] \in Revisions
    BY InvByPost, Types
<1>2. /\ revisions' \in [Posts -> Seq(Revisions)]
      /\ \A q \in Posts \ {p} : revisions'[q] = revisions[q]
      /\ Len(revisions'[p]) = Len(revisions[p])
      /\ DOMAIN revisions'[p] = DOMAIN revisions[p]
      /\ revisions'[p][r] = x
      /\ \A n \in DOMAIN revisions[p] \ {r} : revisions'[p][n] = revisions[p][n]
      /\ revisions[p] # <<>> /\ revisions'[p] # <<>>
    BY <1>1, Replaced
<1>3. /\ post' \in [Posts -> [status: RevisionStatuses \cup {"absent"}, published: Nat]]
      /\ \A q \in Posts \ {p} : post'[q] = post[q]
      /\ post'[p].published = post[p].published
      /\ post[p].published # 0 => post'[p].status = post[p].status
      /\ post[p].published = 0 =>
            \/ post'[p].status = x.status
            \/ post'[p].status = post[p].status /\ x.status = revisions[p][r].status
    <2>1. CASE UNCHANGED post /\ x.status = revisions[p][r].status
        BY <1>1, <2>1 DEF TypeOK
    <2>2. CASE post' = Saved(p, x.status)
        <3>1. post' = [post EXCEPT ![p] = [post[p] EXCEPT !.status =
                  IF post[p].published = 0 THEN x.status ELSE post[p].status]]
            BY <1>1, <2>2 DEF Saved, TypeOK
        <3>2. x.status \in RevisionStatuses
            BY DEF Revisions
        <3>3. QED
            BY <1>1, <3>1, <3>2 DEF TypeOK
    <2>3. QED
        BY <2>1, <2>2
<1>4. TypeOK'
    BY <1>1, <1>2, <1>3 DEF TypeOK, LedgerTypeOK, ledger
<1>5. \A n \in DOMAIN revisions'[p] : (RevisionOK(p, n) /\ GroundedOK(p, n))'
    <2>1. \A n \in DOMAIN revisions[p] \ {r} : (RevisionOK(p, n) /\ GroundedOK(p, n))'
        BY <1>1, <1>2 DEF PostInv, RevisionOK, GroundedOK, ledger
    <2>2. QED
        BY <1>2, <2>1
<1>6. \A n \in DOMAIN revisions'[p] :
          revisions'[p][n].status = "published" <=> n = post'[p].published
    BY <1>1, <1>2, <1>3 DEF PostInv
<1>7. post'[p].status = "published" <=> post'[p].published # 0
    BY <1>1, <1>3 DEF PostInv
<1>8. PostOK(p)'
    <2>1. r = Len(revisions[p])
        BY <1>1 DEF PostInv, PostOK
    <2>2. CASE post[p].published = 0
        BY <1>1, <1>2, <1>3, <2>1, <2>2 DEF PostInv, PostOK
    <2>3. CASE post[p].published # 0
        BY <1>1, <1>2, <1>3, <2>1, <2>3 DEF PostInv, PostOK
    <2>4. QED
        BY <2>2, <2>3
<1>9. PostInv(p)'
    BY <1>5, <1>6, <1>7, <1>8 DEF PostInv
<1>10. QED
    BY <1>2, <1>3, <1>4, <1>9, OnePost DEF ledger

LEMMA UpdateDraftStep ==
    ASSUME EditorialInv, NEW p \in Posts, NEW r \in DOMAIN revisions[p], NEW c \in Contents,
           UpdateDraft(p, r, c)
    PROVE  EditorialInv'
<1> DEFINE x == [revisions[p][r] EXCEPT !.content = c]
<1>1. revisions[p][r] \in Revisions /\ TypeOK
    BY Types DEF EditorialInv
<1>2. /\ x \in Revisions /\ x.status = "draft" /\ revisions[p][r].status = "draft"
      /\ revisions' = [revisions EXCEPT ![p] = [revisions[p] EXCEPT ![r] = x]]
      /\ UNCHANGED <<ledger, post, eligible>>
    BY <1>1 DEF UpdateDraft, Revisions
<1> HIDE DEF x
<1>3. revisions'[p][r] = x
    BY <1>1, <1>2, Replaced
<1>4. RevisionOK(p, r)' /\ GroundedOK(p, r)'
    BY <1>2, <1>3 DEF RevisionOK, GroundedOK
<1>5. QED
    BY <1>2, <1>4, ReplaceStep

LEMMA SubmitStep ==
    ASSUME EditorialInv, NEW p \in Posts, NEW r \in DOMAIN revisions[p], Submit(p, r)
    PROVE  EditorialInv'
<1> DEFINE x == [revisions[p][r] EXCEPT !.status = "in_review"]
<1>1. revisions[p][r] \in Revisions /\ TypeOK
    BY Types DEF EditorialInv
<1>2. /\ x \in Revisions /\ x.status = "in_review" /\ revisions[p][r].status = "draft"
      /\ x.content = revisions[p][r].content
      /\ revisions' = [revisions EXCEPT ![p] = [revisions[p] EXCEPT ![r] = x]]
      /\ post' = Saved(p, x.status)
      /\ UNCHANGED <<ledger, eligible>>
    BY <1>1 DEF Submit, Revisions, RevisionStatuses
<1>3. /\ \A v \in x.content.cites : v \in versions
      /\ p \in Guides \/ x.content.rag => x.content.cites # {}
    BY <1>2 DEF Submit, SourcesAccepted, LinkCounts, IsCurrent
<1> HIDE DEF x
<1>4. revisions'[p][r] = x
    BY <1>1, <1>2, Replaced
<1>5. RevisionOK(p, r)' /\ GroundedOK(p, r)'
    BY <1>2, <1>3, <1>4 DEF RevisionOK, GroundedOK, ledger
<1>6. QED
    BY <1>2, <1>5, ReplaceStep

LEMMA DecideStep ==
    ASSUME EditorialInv, NEW s \in Staff, NEW p \in Posts, NEW r \in DOMAIN revisions[p],
           NEW status \in {"approved", "draft"}, Decide(s, p, r, status)
    PROVE  EditorialInv'
<1> DEFINE x == [revisions[p][r] EXCEPT !.status = status, !.reviewer = s,
                                        !.decided = revisions[p][r].content]
<1>1. revisions[p][r] \in Revisions /\ TypeOK /\ PostInv(p)
    BY Types, InvByPost
<1>2. /\ x \in Revisions /\ x.status = status /\ revisions[p][r].status = "in_review"
      /\ x.content = revisions[p][r].content /\ x.decided = x.content
      /\ x.reviewer = s /\ (x.reviewer # x.creator \/ x.reviewer \in Admins)
      /\ revisions' = [revisions EXCEPT ![p] = [revisions[p] EXCEPT ![r] = x]]
      /\ post' = Saved(p, x.status)
      /\ UNCHANGED <<ledger, eligible>>
    BY <1>1 DEF Decide, Revisions, RevisionStatuses
<1> HIDE DEF x
<1>3. revisions'[p][r] = x
    BY <1>1, <1>2, Replaced
<1>4. GroundedOK(p, r)
    BY <1>1 DEF PostInv
<1>5. RevisionOK(p, r)' /\ GroundedOK(p, r)'
    BY <1>2, <1>3, <1>4 DEF RevisionOK, GroundedOK, ledger
<1>6. QED
    BY <1>2, <1>5, ReplaceStep

LEMMA PublishStep ==
    ASSUME EditorialInv, NEW p \in Posts, NEW r \in DOMAIN revisions[p], Publish(p, r)
    PROVE  EditorialInv'
<1> DEFINE k == Len(revisions[p])
<1>1. /\ TypeOK /\ PostInv(p)
      /\ post[p].published \in Nat
      /\ k \in Nat /\ DOMAIN revisions[p] = 1..k
      /\ \A n \in 1..k : revisions[p][n] \in Revisions
    BY InvByPost, Types
<1>2. /\ revisions[p][r].status = "approved" /\ r \in 1..k
      /\ r # post[p].published
      /\ UNCHANGED <<review, document, versions, expired, eligible>>
    BY <1>1 DEF Publish, PostInv, ledger
<1>3. revisions'[p] = [n \in 1..k |->
           CASE n = r -> [revisions[p][n] EXCEPT !.status = "published"]
             [] n = post[p].published -> [revisions[p][n] EXCEPT !.status = "stale"]
             [] OTHER -> revisions[p][n]]
    BY <1>1 DEF Publish, TypeOK
<1>4. /\ DOMAIN revisions'[p] = 1..k
      /\ revisions'[p][r] = [revisions[p][r] EXCEPT !.status = "published"]
      /\ \A n \in 1..k : n # r /\ n = post[p].published =>
            revisions'[p][n] = [revisions[p][n] EXCEPT !.status = "stale"]
      /\ \A n \in 1..k : n # r /\ n # post[p].published =>
            revisions'[p][n] = revisions[p][n]
    BY <1>2, <1>3
<1>5. \A n \in 1..k : revisions'[p][n] \in Revisions
    <2> SUFFICES ASSUME NEW n \in 1..k PROVE revisions'[p][n] \in Revisions
        OBVIOUS
    <2>1. revisions[p][n] \in Revisions
        BY <1>1
    <2>2. \A y \in Revisions, t \in RevisionStatuses : [y EXCEPT !.status = t] \in Revisions
        BY DEF Revisions
    <2>3. "published" \in RevisionStatuses /\ "stale" \in RevisionStatuses
        BY DEF RevisionStatuses
    <2>4. \/ revisions'[p][n] = [revisions[p][n] EXCEPT !.status = "published"]
          \/ revisions'[p][n] = [revisions[p][n] EXCEPT !.status = "stale"]
          \/ revisions'[p][n] = revisions[p][n]
        BY <1>4
    <2>5. QED
        BY <2>1, <2>2, <2>3, <2>4
<1>6. revisions'[p] \in Seq(Revisions) /\ Len(revisions'[p]) = k /\ revisions'[p] # <<>>
    <2>1. revisions'[p] \in [1..k -> Revisions]
        BY <1>3, <1>4, <1>5
    <2>2. revisions'[p] \in Seq(Revisions)
        BY <1>1, <2>1, SeqDef
    <2>3. QED
        BY <1>1, <1>2, <2>1, <2>2
<1>7. /\ post'[p] = [status |-> "published", published |-> r]
      /\ \A q \in Posts \ {p} : post'[q] = post[q] /\ revisions'[q] = revisions[q]
    BY <1>1 DEF Publish, TypeOK
<1>8. TypeOK'
    <2>1. post' \in [Posts -> [status: RevisionStatuses \cup {"absent"}, published: Nat]]
        BY <1>1, <1>2 DEF Publish, TypeOK, RevisionStatuses
    <2>2. revisions' \in [Posts -> Seq(Revisions)]
        BY <1>1, <1>6, <1>7 DEF Publish, TypeOK
    <2>3. QED
        BY <1>1, <1>2, <2>1, <2>2 DEF TypeOK, LedgerTypeOK
<1> DEFINE Kept(n) ==
        /\ revisions'[p][n].status = "published" <=> n = r
        /\ \/ revisions'[p][n].status \in {"published", "stale"}
           \/ revisions'[p][n] = revisions[p][n]
        /\ revisions'[p][n].content = revisions[p][n].content
        /\ revisions'[p][n].decided = revisions[p][n].decided
        /\ revisions'[p][n].reviewer = revisions[p][n].reviewer
        /\ revisions'[p][n].creator = revisions[p][n].creator
<1>9. \A n \in 1..k : Kept(n)
    <2> SUFFICES ASSUME NEW n \in 1..k PROVE Kept(n)
        OBVIOUS
    <2>1. revisions[p][n] \in Revisions
        BY <1>1
    <2>2. revisions[p][n].status = "published" <=> n = post[p].published
        BY <1>1 DEF PostInv
    <2>3. CASE n = r
        <3>1. revisions'[p][r] = [revisions[p][r] EXCEPT !.status = "published"]
            BY <1>4, <2>3
        <3>2. QED
            BY <2>1, <2>3, <3>1, StatusOnly
    <2>4. CASE n # r /\ n = post[p].published
        <3>1. revisions'[p][n] = [revisions[p][n] EXCEPT !.status = "stale"]
            BY <1>4, <2>4
        <3>2. QED
            BY <2>1, <2>4, <3>1, StatusOnly
    <2>5. CASE n # r /\ n # post[p].published
        BY <1>4, <2>1, <2>2, <2>5 DEF Revisions
    <2>6. QED
        BY <2>3, <2>4, <2>5
<1>10. \A n \in 1..k :
           \/ revisions[p][n].status \in {"approved", "published"}
           \/ revisions'[p][n] = revisions[p][n]
    BY <1>1, <1>2, <1>4 DEF PostInv
<1>11. \A n \in DOMAIN revisions'[p] : (RevisionOK(p, n) /\ GroundedOK(p, n))'
    BY <1>1, <1>2, <1>4, <1>9, <1>10 DEF PostInv, RevisionOK, GroundedOK
<1>12. PostOK(p)'
    <2>1. \A n \in 1..k : n < k => revisions[p][n].status \in {"published", "stale"}
        BY <1>1 DEF PostInv, PostOK
    <2>2. \A n \in 1..k : n < k => revisions'[p][n].status \in {"published", "stale"}
        BY <1>9, <2>1
    <2>3. QED
        BY <1>2, <1>4, <1>6, <1>7, <2>2 DEF PostOK
<1>13. PostInv(p)'
    BY <1>1, <1>2, <1>4, <1>7, <1>9, <1>11, <1>12 DEF PostInv
<1>14. QED
    BY <1>2, <1>7, <1>8, <1>13, OnePost

-----------------------------------------------------------------------------
LEMMA EnvironmentStep ==
    ASSUME EditorialInv,
           KnowledgeStep \/ (\E s \in Sources : ChangeSource(s)) \/ UNCHANGED vars
    PROVE  EditorialInv'
<1>1. /\ UNCHANGED editorial /\ eligible' \subseteq Sources
      /\ LedgerTypeOK' /\ versions \subseteq versions'
    <2>1. LedgerTypeOK /\ eligible \subseteq Sources
        BY DEF EditorialInv, TypeOK
    <2>2. CASE KnowledgeStep
        BY <2>1, <2>2, KnowledgeTypes DEF KnowledgeStep
    <2>3. CASE (\E s \in Sources : ChangeSource(s)) \/ UNCHANGED vars
        BY <2>1, <2>3 DEF ChangeSource, vars, ledger, LedgerTypeOK
    <2>4. QED
        BY <2>2, <2>3
<1>2. TypeOK'
    BY <1>1 DEF EditorialInv, TypeOK, editorial
<1>3. \A p \in Posts : PostInv(p)'
    BY <1>1, InvByPost, Frame DEF editorial
<1>4. QED
    BY <1>2, <1>3 DEF EditorialInv, PostInv, PointerAgrees

LEMMA NextInv == EditorialInv /\ [Next]_vars => EditorialInv'
<1> SUFFICES ASSUME EditorialInv, [Next]_vars PROVE EditorialInv'
    OBVIOUS
<1>1. ASSUME NEW p \in Posts, Request(p) PROVE EditorialInv'
    BY <1>1, CreatePostStep, CreateRevisionStep, UpdateDraftStep, SubmitStep, DecideStep, PublishStep
       DEF Request
<1>2. QED
    BY <1>1, EnvironmentStep DEF Next

\* The inductive invariant holds in every reachable state.
THEOREM EditorialInvariant == Spec => []EditorialInv
<1>1. QED
    BY InitInv, NextInv, PTL DEF Spec

\* Of a post, only the newest revision can still be on its way.
THEOREM RevisionsAreSerial == Spec => []OneOpenRevision
<1>1. EditorialInv => OneOpenRevision
    <2> SUFFICES ASSUME EditorialInv, NEW p \in Posts,
                        NEW r \in DOMAIN revisions[p], NEW n \in DOMAIN revisions[p],
                        revisions[p][r].status \in {"draft", "in_review", "approved"},
                        revisions[p][n].status \in {"draft", "in_review", "approved"}
                 PROVE  r = n
        BY DEF OneOpenRevision
    <2>1. TypeOK /\ PostOK(p)
        BY DEF EditorialInv
    <2>2. QED
        BY <2>1, Types DEF PostOK
<1>2. QED
    BY <1>1, EditorialInvariant, PTL

\* The post, its pointer and its revisions tell the same story.
THEOREM PointersAgree == Spec => []PointerAgrees
<1>1. EditorialInv => PointerAgrees
    BY DEF EditorialInv
<1>2. QED
    BY <1>1, EditorialInvariant, PTL

\* What is shown was approved as it is, by somebody who may approve it.
THEOREM ShownIsWhatWasApproved == Spec => []ShownIsApproved
<1>1. EditorialInv => ShownIsApproved
    BY DEF EditorialInv, ShownIsApproved, Shown, PostOK, RevisionOK
<1>2. QED
    BY <1>1, EditorialInvariant, PTL

\* Shown guides, and posts for the assistant, rest on reviewed publications.
THEOREM ShownRestsOnKnowledge == Spec => []ShownIsGrounded
<1>1. EditorialInv => ShownIsGrounded
    <2> SUFFICES ASSUME EditorialInv, NEW p \in Posts, Shown(p)
                 PROVE  LET c == revisions[p][post[p].published].content IN
                        p \in Guides \/ c.rag => c.cites # {} /\ c.cites \subseteq versions
        BY DEF ShownIsGrounded
    <2>1. post[p].published \in DOMAIN revisions[p]
        BY DEF EditorialInv, PostOK, Shown
    <2>2. GroundedOK(p, post[p].published)
        BY <2>1 DEF EditorialInv
    <2>3. QED
        BY <2>2 DEF GroundedOK, Shown
<1>2. QED
    BY <1>1, EditorialInvariant, PTL

\* A request concerns one post.  It leaves the published revision of that post
\* alone, or publishes a newer one.
LEMMA RequestEffect ==
    ASSUME EditorialInv, NEW p \in Posts, Request(p)
    PROVE  /\ \A q \in Posts \ {p} : post'[q] = post[q] /\ revisions'[q] = revisions[q]
           /\ post[p].published # 0 =>
                 \/ /\ post'[p].published = post[p].published
                    /\ revisions'[p][post[p].published] = revisions[p][post[p].published]
                 \/ post'[p].published > post[p].published
<1> DEFINE n == post[p].published
<1>1. /\ TypeOK /\ PostInv(p)
      /\ n \in Nat
      /\ Len(revisions[p]) \in Nat /\ DOMAIN revisions[p] = 1..Len(revisions[p])
      /\ revisions[p] \in Seq(Revisions)
    BY InvByPost, Types
<1>2. /\ post \in [Posts -> [status: RevisionStatuses \cup {"absent"}, published: Nat]]
      /\ revisions \in [Posts -> Seq(Revisions)]
      /\ n # 0 => n \in DOMAIN revisions[p] /\ revisions[p][n].status = "published"
    BY <1>1 DEF TypeOK, PostInv, PostOK
<1> HIDE DEF n
<1>3. ASSUME NEW s \in Staff, NEW c \in Contents, CreatePost(s, p, c)
      PROVE  /\ \A q \in Posts \ {p} : post'[q] = post[q] /\ revisions'[q] = revisions[q]
             /\ n = 0
    BY <1>1, <1>2, <1>3 DEF CreatePost, PostInv, n
<1>4. ASSUME NEW s \in Staff, NEW c \in Contents, CreateRevision(s, p, c)
      PROVE  /\ \A q \in Posts \ {p} : post'[q] = post[q] /\ revisions'[q] = revisions[q]
             /\ post'[p] = post[p]
             /\ n # 0 => revisions'[p][n] = revisions[p][n]
    BY <1>1, <1>2, <1>4 DEF CreateRevision
<1>5. ASSUME NEW r \in DOMAIN revisions[p], NEW x,
             revisions[p][r].status # "published",
             revisions' = [revisions EXCEPT ![p] = [revisions[p] EXCEPT ![r] = x]]
      PROVE  /\ \A q \in Posts \ {p} : revisions'[q] = revisions[q]
             /\ n # 0 => revisions'[p][n] = revisions[p][n]
    BY <1>1, <1>2, <1>5
<1>6. ASSUME NEW status, post' = Saved(p, status)
      PROVE  /\ \A q \in Posts \ {p} : post'[q] = post[q]
             /\ post'[p].published = n
    BY <1>2, <1>6 DEF Saved, n
<1>7. ASSUME NEW r \in DOMAIN revisions[p], NEW c \in Contents, UpdateDraft(p, r, c)
      PROVE  /\ \A q \in Posts \ {p} : post'[q] = post[q] /\ revisions'[q] = revisions[q]
             /\ post'[p] = post[p]
             /\ n # 0 => revisions'[p][n] = revisions[p][n]
    BY <1>2, <1>5, <1>7 DEF UpdateDraft
<1>8. ASSUME NEW r \in DOMAIN revisions[p], Submit(p, r)
      PROVE  /\ \A q \in Posts \ {p} : post'[q] = post[q] /\ revisions'[q] = revisions[q]
             /\ post'[p].published = n
             /\ n # 0 => revisions'[p][n] = revisions[p][n]
    BY <1>2, <1>5, <1>6, <1>8 DEF Submit
<1>9. ASSUME NEW r \in DOMAIN revisions[p], NEW s \in Staff, NEW status \in {"approved", "draft"},
             Decide(s, p, r, status)
      PROVE  /\ \A q \in Posts \ {p} : post'[q] = post[q] /\ revisions'[q] = revisions[q]
             /\ post'[p].published = n
             /\ n # 0 => revisions'[p][n] = revisions[p][n]
    BY <1>2, <1>5, <1>6, <1>9 DEF Decide
<1>10. ASSUME NEW r \in DOMAIN revisions[p], Publish(p, r)
       PROVE  /\ \A q \in Posts \ {p} : post'[q] = post[q] /\ revisions'[q] = revisions[q]
              /\ n # 0 => post'[p].published > n
    <2>1. /\ \A q \in Posts \ {p} : post'[q] = post[q] /\ revisions'[q] = revisions[q]
          /\ post'[p].published = r
          /\ revisions[p][r].status = "approved"
        BY <1>2, <1>10 DEF Publish
    <2>2. r = Len(revisions[p])
        BY <1>1, <2>1 DEF PostInv, PostOK
    <2>3. n # 0 => n \in 1..Len(revisions[p]) /\ n # r
        BY <1>1, <1>2, <2>1
    <2>4. QED
        BY <1>1, <2>1, <2>2, <2>3
<1>11. QED
    BY <1>3, <1>4, <1>7, <1>8, <1>9, <1>10 DEF Request, n

\* A public post stays public, moves only forward and is not edited in place.
THEOREM PublicPostsStay == Spec => PublicStays
<1> DEFINE Moved(p) ==
        \/ /\ post'[p].published = post[p].published
           /\ revisions'[p][post[p].published] = revisions[p][post[p].published]
        \/ post'[p].published > post[p].published
<1>1. ASSUME EditorialInv, [Next]_vars, NEW p \in Posts, Shown(p)
      PROVE  Moved(p)
    <2>1. CASE UNCHANGED editorial
        BY <2>1 DEF editorial
    <2>2. ASSUME NEW q \in Posts, Request(q) PROVE Moved(p)
        BY <1>1, <2>2, RequestEffect DEF Shown
    <2>3. QED
        BY <1>1, <2>1, <2>2 DEF Next, KnowledgeStep, ChangeSource, vars, editorial
<1>2. ASSUME EditorialInv, EditorialInv', [Next]_vars, NEW p \in Posts, Shown(p)
      PROVE  /\ Shown(p)'
             /\ post'[p].published >= post[p].published
             /\ post'[p].published = post[p].published =>
                   revisions'[p][post[p].published] = revisions[p][post[p].published]
    <2>1. /\ Moved(p)
          /\ post[p].published \in Nat \ {0}
          /\ post'[p].published \in Nat
        BY <1>1, <1>2 DEF EditorialInv, TypeOK, Shown
    <2>2. post'[p].published # 0 /\ post'[p].published >= post[p].published
        BY <2>1
    <2>3. Shown(p)'
        BY <1>2, <2>2 DEF EditorialInv, PointerAgrees, PostOK, Shown
    <2>4. QED
        BY <2>1, <2>2, <2>3
<1>3. EditorialInv /\ EditorialInv' /\ [Next]_vars =>
          [\A p \in Posts : Shown(p) =>
             /\ Shown(p)'
             /\ post'[p].published >= post[p].published
             /\ post'[p].published = post[p].published =>
                   revisions'[p][post[p].published] = revisions[p][post[p].published]]_vars
    BY <1>2
<1>4. QED
    BY <1>3, EditorialInvariant, PTL DEF Spec, PublicStays

\* Every request of a post leaves its revisions as the trigger allows.
LEMMA RequestAccepted ==
    ASSUME EditorialInv, NEW p \in Posts, Request(p), NEW n \in DOMAIN revisions[p]
    PROVE  GuardAccepts(revisions[p][n], revisions'[p][n])
<1>1. /\ TypeOK /\ PostInv(p)
      /\ revisions \in [Posts -> Seq(Revisions)]
      /\ revisions[p] \in Seq(Revisions)
      /\ Len(revisions[p]) \in Nat /\ DOMAIN revisions[p] = 1..Len(revisions[p])
      /\ \A r \in DOMAIN revisions[p] : revisions[p][r] \in Revisions
      /\ \A s \in Staff, c \in Contents : NewRevision(s, c) \in Revisions
    BY InvByPost, Types DEF TypeOK, NewRevision, Revisions, RevisionStatuses
<1>2. ASSUME revisions'[p][n] = revisions[p][n]
      PROVE  GuardAccepts(revisions[p][n], revisions'[p][n])
    BY <1>2 DEF GuardAccepts, Successors
<1>3. ASSUME NEW s \in Staff, NEW c \in Contents, CreatePost(s, p, c)
      PROVE  FALSE
    BY <1>1, <1>3 DEF CreatePost, PostInv, PostOK
<1>4. ASSUME NEW s \in Staff, NEW c \in Contents, CreateRevision(s, p, c)
      PROVE  revisions'[p][n] = revisions[p][n]
    BY <1>1, <1>4 DEF CreateRevision
<1>5. ASSUME NEW r \in DOMAIN revisions[p], NEW c \in Contents, UpdateDraft(p, r, c)
      PROVE  GuardAccepts(revisions[p][n], revisions'[p][n])
    <2>1. /\ n # r => revisions'[p][n] = revisions[p][n]
          /\ revisions'[p][r] = [revisions[p][r] EXCEPT !.content = c]
        BY <1>1, <1>5 DEF UpdateDraft
    <2>2. revisions'[p][r].status = "draft" /\ revisions[p][r].status = "draft"
        BY <1>1, <1>5, <2>1 DEF UpdateDraft, Revisions
    <2>3. QED
        BY <1>2, <2>1, <2>2 DEF GuardAccepts, Successors
<1>6. ASSUME NEW r \in DOMAIN revisions[p], Submit(p, r)
      PROVE  GuardAccepts(revisions[p][n], revisions'[p][n])
    <2>1. /\ n # r => revisions'[p][n] = revisions[p][n]
          /\ revisions'[p][r] = [revisions[p][r] EXCEPT !.status = "in_review"]
        BY <1>1, <1>6 DEF Submit
    <2>2. revisions'[p][r].status = "in_review" /\ revisions[p][r].status = "draft"
        BY <1>1, <1>6, <2>1 DEF Submit, Revisions
    <2>3. QED
        BY <1>2, <2>1, <2>2 DEF GuardAccepts, Successors
<1>7. ASSUME NEW r \in DOMAIN revisions[p], NEW s \in Staff,
             NEW status \in {"approved", "draft"}, Decide(s, p, r, status)
      PROVE  GuardAccepts(revisions[p][n], revisions'[p][n])
    <2>1. /\ n # r => revisions'[p][n] = revisions[p][n]
          /\ revisions'[p][r].status = status
          /\ revisions'[p][r].content = revisions[p][r].content
          /\ revisions[p][r].status = "in_review"
        BY <1>1, <1>7 DEF Decide, Revisions
    <2>2. QED
        BY <1>2, <2>1 DEF GuardAccepts, Successors
<1>8. ASSUME NEW r \in DOMAIN revisions[p], Publish(p, r)
      PROVE  GuardAccepts(revisions[p][n], revisions'[p][n])
    <2>1. /\ revisions[p][r].status = "approved"
          /\ revisions[p][n].status = "published" <=> n = post[p].published
        BY <1>1, <1>8 DEF Publish, PostInv
    <2>2. revisions'[p] = [k \in DOMAIN revisions[p] |->
              CASE k = r -> [revisions[p][k] EXCEPT !.status = "published"]
                [] k = post[p].published -> [revisions[p][k] EXCEPT !.status = "stale"]
                [] OTHER -> revisions[p][k]]
        BY <1>1, <1>8 DEF Publish
    <2>3. CASE n = r
        <3>1. revisions'[p][n] = [revisions[p][n] EXCEPT !.status = "published"]
            BY <2>1, <2>2, <2>3
        <3>2. QED
            BY <1>1, <2>1, <2>3, <3>1, StatusOnly DEF GuardAccepts, Successors
    <2>4. CASE n # r /\ n = post[p].published
        <3>1. revisions'[p][n] = [revisions[p][n] EXCEPT !.status = "stale"]
            BY <2>2, <2>4
        <3>2. QED
            BY <1>1, <2>1, <2>4, <3>1, StatusOnly DEF GuardAccepts, Successors
    <2>5. CASE n # r /\ n # post[p].published
        BY <1>2, <2>2, <2>5
    <2>6. QED
        BY <2>3, <2>4, <2>5
<1>9. QED
    BY <1>2, <1>3, <1>4, <1>5, <1>6, <1>7, <1>8 DEF Request

\* No request sends an update that the trigger of the database would refuse.
THEOREM TriggerNeverFires == Spec => UpdatesAccepted
<1>1. ASSUME EditorialInv, [Next]_vars, NEW p \in Posts, NEW n \in DOMAIN revisions[p]
      PROVE  GuardAccepts(revisions[p][n], revisions'[p][n])
    <2>1. ASSUME revisions'[p] = revisions[p]
          PROVE  GuardAccepts(revisions[p][n], revisions'[p][n])
        BY <2>1 DEF GuardAccepts, Successors
    <2>2. CASE UNCHANGED editorial
        BY <2>1, <2>2 DEF editorial
    <2>3. ASSUME NEW q \in Posts, Request(q)
          PROVE  GuardAccepts(revisions[p][n], revisions'[p][n])
        BY <1>1, <2>1, <2>3, RequestAccepted, RequestEffect
    <2>4. QED
        BY <1>1, <2>2, <2>3 DEF Next, KnowledgeStep, ChangeSource, vars, editorial
<1>2. EditorialInv /\ [Next]_vars =>
          [\A p \in Posts : \A r \in DOMAIN revisions[p] :
             GuardAccepts(revisions[p][r], revisions'[p][r])]_vars
    BY <1>1
<1>3. QED
    BY <1>2, EditorialInvariant, PTL DEF Spec, UpdatesAccepted, GuardAccepts

-----------------------------------------------------------------------------
(***************************************************************************)
(* The posts beside the real publication.  What is proved of the latter is  *)
(* proved in its own module, for constants that satisfy its assumptions.    *)
(***************************************************************************)
KP == INSTANCE KnowledgePublicationProofs

LEMMA KnowledgeAssumptions == KP!LedgerAssumption /\ KP!PublicationAssumption
<1>1. QED
    BY LedgerAssumption, EditorialAssumption, SystemAssumption
       DEF KP!LedgerAssumption, KP!PublicationAssumption, KP!Candidates, Candidates

\* Knowledge and KP are instances of one module.
LEMMA SameInit == Knowledge!Init => KP!Init
<1>1. QED
    BY DEF Knowledge!Init, KP!Init, Knowledge!LedgerInit, KP!LedgerInit

LEMMA SameNext == Knowledge!Next => KP!Next
<1> USE DEF Knowledge!ledger, KP!ledger, Knowledge!publishing, KP!publishing
<1>1. Knowledge!Review => KP!Review
    BY DEF Knowledge!Review, KP!Review, Knowledge!Claim, KP!Claim, Knowledge!Decide, KP!Decide,
        Knowledge!ItemHeld, KP!ItemHeld
<1>2. \A p \in Publishers : Knowledge!Publish(p) => KP!Publish(p)
    BY DEF Knowledge!Publish, KP!Publish, Knowledge!ItemHeld, KP!ItemHeld,
        Knowledge!DocumentHeld, KP!DocumentHeld, Knowledge!Candidates, KP!Candidates,
        Knowledge!Published, KP!Published, Knowledge!LockLineage, KP!LockLineage,
        Knowledge!CheckSource, KP!CheckSource, Knowledge!LookDocument, KP!LookDocument,
        Knowledge!InsertDocument, KP!InsertDocument, Knowledge!Commit, KP!Commit,
        Knowledge!Rollback, KP!Rollback, Knowledge!Finished, KP!Finished
<1>3. \A d \in Documents : Knowledge!Expire(d) => KP!Expire(d)
    BY DEF Knowledge!Expire, KP!Expire, Knowledge!DocumentHeld, KP!DocumentHeld
<1>4. \A s \in Sources : Knowledge!ChangeSource(s) => KP!ChangeSource(s)
    BY DEF Knowledge!ChangeSource, KP!ChangeSource
<1>5. QED
    BY <1>1, <1>2, <1>3, <1>4 DEF Knowledge!Next, KP!Next

\* A request about a post leaves alone all that the publication knows.
LEMMA SystemIsKnowledge == [SystemNext]_systemVars => [KP!Next]_(KP!vars)
<1> SUFFICES ASSUME [SystemNext]_systemVars PROVE [KP!Next]_(KP!vars)
    OBVIOUS
<1>1. CASE Knowledge!Next
    BY <1>1, SameNext
<1>2. ASSUME NEW p \in Posts, Request(p), UNCHANGED publishing
      PROVE  UNCHANGED KP!vars
    BY <1>2 DEF Request, CreatePost, CreateRevision, UpdateDraft, Submit, Decide, Publish,
        KP!vars, KP!ledger, KP!publishing, ledger, publishing
<1>3. CASE UNCHANGED systemVars
    BY <1>3 DEF systemVars, vars, ledger, publishing, KP!vars, KP!ledger, KP!publishing
<1>4. QED
    BY <1>1, <1>2, <1>3 DEF SystemNext

\* The invariant of the publication survives the requests about posts.
LEMMA SystemKnowledge == SystemSpec => []KP!PublicationInv
<1>1. SystemInit => KP!PublicationInv
    BY KnowledgeAssumptions, SameInit, KP!InitInv DEF SystemInit
<1>2. KP!PublicationInv /\ [SystemNext]_systemVars => KP!PublicationInv'
    BY KnowledgeAssumptions, SystemIsKnowledge, KP!NextInv
<1>3. QED
    BY <1>1, <1>2, PTL DEF SystemSpec

\* A statement of a publication is a step of the ledger, a change of a source,
\* or no step at all for the posts.
LEMMA SystemStep == KP!PublicationInv /\ [SystemNext]_systemVars => [Next]_vars
<1> SUFFICES ASSUME KP!PublicationInv, [SystemNext]_systemVars PROVE [Next]_vars
    OBVIOUS
<1>1. CASE Knowledge!Next /\ UNCHANGED editorial
    <2>1. [KP!LedgerNext]_(KP!ledger)
        BY SystemIsKnowledge, KnowledgeAssumptions, KP!StepImplements
    <2>2. (\E s \in Sources : ChangeSource(s)) \/ UNCHANGED eligible
        BY <1>1 DEF Knowledge!Next, Knowledge!Review, Knowledge!Claim, Knowledge!Decide,
            Knowledge!Publish, Knowledge!LockLineage, Knowledge!CheckSource,
            Knowledge!LookDocument, Knowledge!InsertDocument, Knowledge!Commit,
            Knowledge!Rollback, Knowledge!Expire, Knowledge!ChangeSource, ChangeSource,
            ledger, Knowledge!ledger
    <2>3. KP!LedgerNext => LedgerNext
        BY DEF KP!LedgerNext, LedgerNext, KP!LedgerClaim, LedgerClaim, KP!LedgerDecide,
            LedgerDecide, KP!LedgerPublish, LedgerPublish, KP!LedgerExpire, LedgerExpire,
            KP!Candidates, Candidates, KP!Published, Published
    <2>4. QED
        BY <1>1, <2>1, <2>2, <2>3 DEF Next, KnowledgeStep, vars, editorial, ledger, KP!ledger
<1>2. ASSUME NEW p \in Posts, Request(p) PROVE Next
    BY <1>2 DEF Next
<1>3. CASE UNCHANGED systemVars
    BY <1>3 DEF systemVars
<1>4. QED
    BY <1>1, <1>2, <1>3 DEF SystemNext

\* Posts beside the real publication behave as posts beside its ledger: every
\* theorem about EditorialContent holds of the two services together.
THEOREM SystemRefinement == SystemSpec => ImplementsEditorial
<1>1. SystemInit => Init
    BY DEF SystemInit
<1>2. QED
    BY <1>1, SystemStep, SystemKnowledge, PTL DEF SystemSpec, ImplementsEditorial, Spec

\* What readers and the assistant are shown cites approved extractions only.
THEOREM ShownKnowledgeIsReviewed == SystemSpec => []ShownIsReviewed
<1>1. SystemSpec => []EditorialInv
    BY SystemRefinement, EditorialInvariant, PTL DEF ImplementsEditorial
<1>2. EditorialInv /\ KP!PublicationInv => ShownIsReviewed
    <2> SUFFICES ASSUME EditorialInv, KP!PublicationInv, NEW p \in Posts, Shown(p),
                        NEW v \in revisions[p][post[p].published].content.cites
                 PROVE  review[v.item].status = "approved"
        BY DEF ShownIsReviewed
    <2>1. post[p].published \in DOMAIN revisions[p]
        BY DEF EditorialInv, PostOK, Shown
    <2>2. GroundedOK(p, post[p].published)
        BY <2>1 DEF EditorialInv
    <2>3. v \in versions
        BY <2>2 DEF GroundedOK, Shown
    <2>4. QED
        BY <2>3 DEF KP!PublicationInv, KP!EvidenceApproved
<1>3. QED
    BY <1>1, <1>2, SystemKnowledge, PTL

\* No request changes a blocked revision: it is neither a draft nor in review, and
\* publish looks at its sources again.
LEMMA BlockedAlone ==
    ASSUME EditorialInv, NEW p \in Posts, NEW r \in DOMAIN revisions[p], Blocked(p, r),
           NEW q \in Posts, Request(q)
    PROVE  revisions'[p][r] = revisions[p][r] /\ r \in DOMAIN revisions'[p]
<1>1. /\ revisions \in [Posts -> Seq(Revisions)]
      /\ revisions[p] \in Seq(Revisions)
      /\ Len(revisions[p]) \in Nat /\ DOMAIN revisions[p] = 1..Len(revisions[p])
      /\ revisions[p][r].status = "approved"
      /\ r # post[p].published
      /\ post[p].status # "absent"
    BY Types DEF EditorialInv, TypeOK, PointerAgrees, PostOK, Blocked
<1>2. CASE q # p
    BY <1>1, <1>2, RequestEffect
<1>3. ASSUME q = p, NEW s \in Staff, NEW c \in Contents, CreatePost(s, p, c)
      PROVE  FALSE
    BY <1>1, <1>3 DEF CreatePost
<1>4. ASSUME q = p, NEW s \in Staff, NEW c \in Contents, CreateRevision(s, p, c)
      PROVE  revisions'[p][r] = revisions[p][r] /\ r \in DOMAIN revisions'[p]
    <2>1. revisions'[p] = Append(revisions[p], NewRevision(s, c))
        BY <1>1, <1>4 DEF CreateRevision
    <2>2. NewRevision(s, c) \in Revisions
        BY DEF NewRevision, Revisions, RevisionStatuses
    <2>3. QED
        BY <1>1, <2>1, <2>2
<1>5. ASSUME NEW n \in DOMAIN revisions[p], NEW x, revisions[p][n].status # "approved",
             revisions' = [revisions EXCEPT ![p] = [revisions[p] EXCEPT ![n] = x]]
      PROVE  revisions'[p][r] = revisions[p][r] /\ r \in DOMAIN revisions'[p]
    BY <1>1, <1>5
<1>6. ASSUME q = p, NEW n \in DOMAIN revisions[p],
             \/ \E c \in Contents : UpdateDraft(p, n, c)
             \/ Submit(p, n)
             \/ \E s \in Staff, status \in {"approved", "draft"} : Decide(s, p, n, status)
      PROVE  revisions'[p][r] = revisions[p][r] /\ r \in DOMAIN revisions'[p]
    <2>1. revisions[p][n].status # "approved"
        BY <1>6 DEF UpdateDraft, Submit, Decide
    <2>2. ASSUME NEW c \in Contents, UpdateDraft(p, n, c)
          PROVE  revisions' = [revisions EXCEPT ![p] = [revisions[p] EXCEPT ![n] =
                                   [revisions[p][n] EXCEPT !.content = c]]]
        BY <1>1, <2>2 DEF UpdateDraft
    <2>3. ASSUME Submit(p, n)
          PROVE  revisions' = [revisions EXCEPT ![p] = [revisions[p] EXCEPT ![n] =
                                   [revisions[p][n] EXCEPT !.status = "in_review"]]]
        BY <1>1, <2>3 DEF Submit
    <2>4. ASSUME NEW s \in Staff, NEW status \in {"approved", "draft"}, Decide(s, p, n, status)
          PROVE  revisions' = [revisions EXCEPT ![p] = [revisions[p] EXCEPT ![n] =
                                   [revisions[p][n] EXCEPT !.status = status, !.reviewer = s,
                                        !.decided = revisions[p][n].content]]]
        BY <1>1, <2>4 DEF Decide
    <2>5. QED
        BY <1>5, <1>6, <2>1, <2>2, <2>3, <2>4
<1>7. ASSUME q = p, NEW n \in DOMAIN revisions[p], Publish(p, n)
      PROVE  revisions'[p][r] = revisions[p][r] /\ r \in DOMAIN revisions'[p]
    <2>1. r # n
        BY <1>7 DEF Blocked, Publish, SourcesAccepted, LinkCounts
    <2>2. revisions'[p] = [k \in DOMAIN revisions[p] |->
              CASE k = n -> [revisions[p][k] EXCEPT !.status = "published"]
                [] k = post[p].published -> [revisions[p][k] EXCEPT !.status = "stale"]
                [] OTHER -> revisions[p][k]]
        BY <1>1, <1>7 DEF Publish
    <2>3. QED
        BY <1>1, <2>1, <2>2
<1>8. QED
    BY <1>2, <1>3, <1>4, <1>6, <1>7 DEF Request

\* No request about another revision, no publication and no expiration of anything
\* releases a revision whose knowledge is withdrawn.
THEOREM BlockedRevisionsStay == SystemSpec => BlockedStays
<1>1. SystemSpec => []EditorialInv
    BY SystemRefinement, EditorialInvariant, PTL DEF ImplementsEditorial
<1>2. ASSUME EditorialInv, KP!PublicationInv, [SystemNext]_systemVars,
             NEW p \in Posts, NEW r \in DOMAIN revisions[p], Blocked(p, r)
      PROVE  Blocked(p, r)'
    <2>1. PICK v \in revisions[p][r].content.cites : ~IsCurrent(v)
        BY <1>2 DEF Blocked
    <2>2. revisions[p][r].status = "approved"
        BY <1>2 DEF Blocked
    <2>3. v \in versions
        BY <1>2, <2>2 DEF EditorialInv, GroundedOK
    <2>4. CASE Knowledge!Next /\ UNCHANGED editorial
        <3>1. ~IsCurrent(v)'
            <4>1. KP!IsCurrent(v)' => KP!IsCurrent(v)
                BY <1>2, <2>3, SystemIsKnowledge, KnowledgeAssumptions, KP!WithdrawnStep
            <4>2. QED
                BY <2>1, <4>1 DEF IsCurrent, KP!IsCurrent
        <3>2. QED
            BY <2>1, <2>2, <2>4, <3>1 DEF Blocked, editorial
    <2>5. ASSUME NEW q \in Posts, Request(q) PROVE Blocked(p, r)'
        <3>1. revisions'[p][r] = revisions[p][r] /\ r \in DOMAIN revisions'[p]
            BY <1>2, <2>5, BlockedAlone
        <3>2. UNCHANGED <<versions, document>>
            BY <2>5 DEF Request, CreatePost, CreateRevision, UpdateDraft, Submit, Decide, Publish,
                ledger
        <3>3. QED
            BY <2>1, <2>2, <3>1, <3>2 DEF Blocked, IsCurrent
    <2>6. CASE UNCHANGED systemVars
        BY <1>2, <2>6 DEF Blocked, IsCurrent, systemVars, vars, ledger, editorial
    <2>7. QED
        BY <1>2, <2>4, <2>5, <2>6 DEF SystemNext
<1>3. EditorialInv /\ KP!PublicationInv /\ [SystemNext]_systemVars
        => [\A p \in Posts : \A r \in DOMAIN revisions[p] :
               Blocked(p, r) => Blocked(p, r)']_systemVars
    BY <1>2
<1>4. QED
    BY <1>1, <1>3, SystemKnowledge, PTL DEF SystemSpec, BlockedStays, Blocked

=============================================================================
