-------------------------- MODULE EditorialContent --------------------------
(***************************************************************************)
(* Editorial posts and their revisions: authors draft and submit, reviewers *)
(* decide, publishers publish, and retrieval serves the published revision. *)
(* Posts cite published knowledge, which changes meanwhile as module        *)
(* PublicationLedger says.                                                  *)
(*                                                                         *)
(* get_for_update locks the revision and its post, create_revision locks    *)
(* the post, and both hold the lock until they commit: no other request     *)
(* sees a part of a request, and each is one action here.  The knowledge it *)
(* cites is read unlocked, once; a change of it after that read is a change *)
(* after the action.                                                       *)
(***************************************************************************)
EXTENDS PublicationLedger, Sequences

CONSTANTS
    Staff,
    Admins,        \* the staff with the admin role
    Posts,         \* slugs, of posts with a domain
    Guides,        \* the posts of content type guide
    Bodies,        \* everything a draft holds but its sources and the RAG flag
    MaxRevision,   \* bound on the revisions of a post
    Sources,
    SourceOf,      \* the source of every item's snapshot
    SourceOnly,    \* a reference to a source without a document version
    NoOne

ASSUME EditorialAssumption ==
    /\ Admins \subseteq Staff
    /\ NoOne \notin Staff
    /\ Guides \subseteq Posts
    /\ MaxRevision \in Nat \ {0}
    /\ SourceOf \in [Items -> Sources]
    /\ SourceOnly \notin Candidates

VARIABLES
    post,       \* every post: its status and its published revision, 0 for none
    revisions,  \* every post's revisions, by version number
    eligible    \* sources that are active, allowed and of an official organization

editorial == <<post, revisions>>
vars == <<ledger, editorial, eligible>>

RevisionStatuses == {"draft", "in_review", "approved", "published", "stale"}

Contents == [body: Bodies, cites: SUBSET (Candidates \cup {SourceOnly}), rag: BOOLEAN]

\* "decided" is the content that the reviewer decided on; the row keeps no copy.
Revisions == [status: RevisionStatuses, content: Contents, creator: Staff,
              reviewer: Staff \cup {NoOne}, decided: Contents]

TypeOK ==
    /\ LedgerTypeOK
    /\ post \in [Posts -> [status: RevisionStatuses \cup {"absent"}, published: Nat]]
    /\ revisions \in [Posts -> Seq(Revisions)]
    /\ eligible \subseteq Sources

Init ==
    /\ LedgerInit
    /\ post = [p \in Posts |-> [status |-> "absent", published |-> 0]]
    /\ revisions = [p \in Posts |-> <<>>]
    /\ eligible = Sources

-----------------------------------------------------------------------------
\* _validate_source_references and _validate_rag_eligibility of a new draft.
DraftAccepted(c) ==
    /\ \A v \in c.cites : v = SourceOnly \/ IsCurrent(v)
    /\ c.rag => c.cites # {}

\* _source_link_counts: a reference without a version is never counted.
LinkCounts(v) == v # SourceOnly /\ IsCurrent(v) /\ SourceOf[v.item] \in eligible

\* Mutant: sources_are_eligible does not look at the number of sources.
SourcesAcceptedIfAny(p, c) == \A v \in c.cites : LinkCounts(v)

\* What submit and publish require of a revision's sources.
SourcesAccepted(p, c) ==
    /\ \A v \in c.cites : LinkCounts(v)
    /\ p \in Guides \/ c.rag => c.cites # {}

NewRevision(s, c) ==
    [status |-> "draft", content |-> c, creator |-> s, reviewer |-> NoOne, decided |-> c]

\* Mutant: save writes the status of the post, published or not.
SavedAlways(p, status) == [post EXCEPT ![p].status = status]

\* save: a post that was never published has the status of its revision.
Saved(p, status) ==
    [post EXCEPT ![p].status = IF post[p].published = 0 THEN status ELSE @]

-----------------------------------------------------------------------------
(***************************************************************************)
(* The requests.  r is the number of a revision of post p.                 *)
(***************************************************************************)
CreatePost(s, p, c) ==
    /\ post[p].status = "absent"
    /\ DraftAccepted(c)
    /\ p \in Guides => c.cites # {}
    /\ post' = [post EXCEPT ![p] = [status |-> "draft", published |-> 0]]
    /\ revisions' = [revisions EXCEPT ![p] = <<NewRevision(s, c)>>]
    /\ UNCHANGED <<ledger, eligible>>

\* Mutant: an approved revision does not count as open.
CreateBesideApproved(s, p, c) ==
    /\ post[p].status = "published" /\ post[p].published # 0
    /\ \A r \in DOMAIN revisions[p] : revisions[p][r].status \notin {"draft", "in_review"}
    /\ Len(revisions[p]) < MaxRevision
    /\ DraftAccepted(c)
    /\ revisions' = [revisions EXCEPT ![p] = Append(@, NewRevision(s, c))]
    /\ UNCHANGED <<ledger, post, eligible>>

CreateRevision(s, p, c) ==
    /\ post[p].status = "published" /\ post[p].published # 0
    /\ \A r \in DOMAIN revisions[p] :
          revisions[p][r].status \notin {"draft", "in_review", "approved"}
    /\ Len(revisions[p]) < MaxRevision
    /\ DraftAccepted(c)
    /\ revisions' = [revisions EXCEPT ![p] = Append(@, NewRevision(s, c))]
    /\ UNCHANGED <<ledger, post, eligible>>

\* Mutant: only revisions that are or were published are closed to edits.
UpdateApproved(p, r, c) ==
    /\ revisions[p][r].status \in {"draft", "in_review", "approved"}
    /\ DraftAccepted(c)
    /\ revisions' = [revisions EXCEPT ![p][r].content = c]
    /\ UNCHANGED <<ledger, post, eligible>>

\* update_draft, by any author: the creator stays.
UpdateDraft(p, r, c) ==
    /\ revisions[p][r].status = "draft"
    /\ DraftAccepted(c)
    /\ revisions' = [revisions EXCEPT ![p][r].content = c]
    /\ UNCHANGED <<ledger, post, eligible>>

Submit(p, r) ==
    /\ revisions[p][r].status = "draft"
    /\ SourcesAccepted(p, revisions[p][r].content)
    /\ revisions' = [revisions EXCEPT ![p][r].status = "in_review"]
    /\ post' = Saved(p, "in_review")
    /\ UNCHANGED <<ledger, eligible>>

\* decide, with status "approved", or "draft" when changes are requested.
Decide(s, p, r, status) ==
    /\ revisions[p][r].status = "in_review"
    /\ s # revisions[p][r].creator \/ s \in Admins
    /\ revisions' = [revisions EXCEPT ![p][r].status = status,
                                      ![p][r].reviewer = s,
                                      ![p][r].decided = revisions[p][r].content]
    /\ post' = Saved(p, status)
    /\ UNCHANGED <<ledger, eligible>>

\* Mutant: the revision published before keeps its status.
PublishBeside(p, r) ==
    /\ revisions[p][r].status = "approved"
    /\ SourcesAccepted(p, revisions[p][r].content)
    /\ revisions' = [revisions EXCEPT ![p][r].status = "published"]
    /\ post' = [post EXCEPT ![p] = [status |-> "published", published |-> r]]
    /\ UNCHANGED <<ledger, eligible>>

\* Mutant: publish relies on the sources that were checked at the submission.
PublishUnchecked(p, r) ==
    /\ revisions[p][r].status = "approved"
    /\ revisions' = [revisions EXCEPT ![p] = [n \in DOMAIN @ |->
           CASE n = r -> [@[n] EXCEPT !.status = "published"]
             [] n = post[p].published -> [@[n] EXCEPT !.status = "stale"]
             [] OTHER -> @[n]]]
    /\ post' = [post EXCEPT ![p] = [status |-> "published", published |-> r]]
    /\ UNCHANGED <<ledger, eligible>>

Publish(p, r) ==
    /\ revisions[p][r].status = "approved"
    /\ SourcesAccepted(p, revisions[p][r].content)
    /\ revisions' = [revisions EXCEPT ![p] = [n \in DOMAIN @ |->
           CASE n = r -> [@[n] EXCEPT !.status = "published"]
             [] n = post[p].published -> [@[n] EXCEPT !.status = "stale"]
             [] OTHER -> @[n]]]
    /\ post' = [post EXCEPT ![p] = [status |-> "published", published |-> r]]
    /\ UNCHANGED <<ledger, eligible>>

\* The statuses that the trigger guard_post_version_update lets a status become.
Successors(status) ==
    {status} \cup CASE status = "draft" -> {"in_review"}
                    [] status = "in_review" -> {"draft", "approved"}
                    [] status = "approved" -> {"draft", "published"}
                    [] status = "published" -> {"stale", "archived"}
                    [] status = "stale" -> {"archived"}
                    [] OTHER -> {}

\* The trigger accepts an update of a row: from x to y.  The body stands for the
\* columns that are frozen outside a draft, from the title to the author and the
\* checksum; the citations are rows of another table.
GuardAccepts(x, y) ==
    /\ y.status \in Successors(x.status)
    /\ x.status # "draft" => y.content.body = x.content.body

\* Meanwhile: knowledge is reviewed, published and expired, sources change.
KnowledgeStep == LedgerNext /\ UNCHANGED <<editorial, eligible>>

ChangeSource(s) ==
    /\ \/ eligible' = eligible \ {s}
       \/ eligible' = eligible \cup {s}
    /\ UNCHANGED <<ledger, editorial>>

Request(p) ==
    \/ \E s \in Staff, c \in Contents : CreatePost(s, p, c) \/ CreateRevision(s, p, c)
    \/ \E r \in DOMAIN revisions[p] :
          \/ \E c \in Contents : UpdateDraft(p, r, c)
          \/ Submit(p, r)
          \/ \E s \in Staff, status \in {"approved", "draft"} : Decide(s, p, r, status)
          \/ Publish(p, r)

Next ==
    \/ \E p \in Posts : Request(p)
    \/ KnowledgeStep
    \/ \E s \in Sources : ChangeSource(s)

Spec == Init /\ [][Next]_vars

-----------------------------------------------------------------------------
(* What the public pages and retrieval show.                               *)

\* The revision that list_published_posts and get_published_post show.
Shown(p) ==
    LET n == post[p].published IN
    post[p].status = "published" /\ n # 0 /\ revisions[p][n].status = "published"

\* The lexical search over editorial chunks also asks for the RAG flag and for
\* sources that are all eligible.  (A reference without a version has a source.)
Served(p) ==
    LET c == revisions[p][post[p].published].content IN
    /\ Shown(p)
    /\ c.rag /\ c.cites # {}
    /\ \A v \in c.cites : v = SourceOnly \/ SourceOf[v.item] \in eligible

-----------------------------------------------------------------------------
(* Properties.                                                             *)

\* A post never has two revisions on their way to publication, so that no
\* publication overtakes another one.
OneOpenRevision ==
    \A p \in Posts : \A r, n \in DOMAIN revisions[p] :
        /\ revisions[p][r].status \in {"draft", "in_review", "approved"}
        /\ revisions[p][n].status \in {"draft", "in_review", "approved"}
        => r = n

\* The post's status, its pointer and the status of its revisions agree: a post
\* is published exactly while it points to its one published revision.
PointerAgrees ==
    \A p \in Posts :
        /\ post[p].status = "published" <=> post[p].published # 0
        /\ \A r \in DOMAIN revisions[p] :
              revisions[p][r].status = "published" <=> r = post[p].published

\* What is shown is what a reviewer approved, word for word and source for
\* source, and that reviewer is not the one who created it, or is an admin.
ShownIsApproved ==
    \A p \in Posts : Shown(p) =>
        LET r == revisions[p][post[p].published] IN
        /\ r.content = r.decided
        /\ r.reviewer \in Staff
        /\ r.reviewer # r.creator \/ r.reviewer \in Admins

\* A guide that is shown and a post that is served to the assistant rest on at
\* least one reviewed publication; none of their references is without one.
ShownIsGrounded ==
    \A p \in Posts :
        LET c == revisions[p][post[p].published].content IN
        Shown(p) /\ (p \in Guides \/ c.rag) => c.cites # {} /\ c.cites \subseteq versions

\* Once a post is public it stays so, it only moves on to newer revisions, and a
\* shown revision is not changed: readers never see a draft or a gap.
PublicStays ==
    [][\A p \in Posts : Shown(p) =>
         /\ Shown(p)'
         /\ post'[p].published >= post[p].published
         /\ post'[p].published = post[p].published =>
               revisions'[p][post[p].published] = revisions[p][post[p].published]]_vars

\* The service and the trigger of migration 0010 are two accounts of one life
\* cycle: no request ever sends an update that the trigger would refuse, so that
\* none of them ends in a database error.
UpdatesAccepted ==
    [][\A p \in Posts : \A r \in DOMAIN revisions[p] :
          GuardAccepts(revisions[p][r], revisions'[p][r])]_vars

\* retrieval/repositories.py:271: "Query only the retrieval-eligibility view and
\* currently supported sources."  Nothing served cites knowledge that is not
\* current.
ServedIsCurrent ==
    \A p \in Posts : Served(p) =>
        \A v \in revisions[p][post[p].published].content.cites : IsCurrent(v)

-----------------------------------------------------------------------------
(* The inductive invariant.                                                *)

\* What a revision's status says about it.
RevisionOK(p, r) ==
    LET x == revisions[p][r] IN
    x.status \in {"approved", "published", "stale"} =>
        /\ x.content = x.decided
        /\ x.reviewer \in Staff
        /\ x.reviewer # x.creator \/ x.reviewer \in Admins

\* From its submission on, a revision cites what it needs and what was published.
GroundedOK(p, r) ==
    LET x == revisions[p][r] IN
    x.status # "draft" =>
        /\ x.content.cites \subseteq versions
        /\ p \in Guides \/ x.content.rag => x.content.cites # {}

PostOK(p) ==
    /\ post[p].published \in DOMAIN revisions[p] \cup {0}
    /\ post[p].status = "absent" <=> revisions[p] = <<>>
    /\ post[p].status # "published" /\ revisions[p] # <<>> =>
          /\ Len(revisions[p]) = 1
          /\ post[p].status = revisions[p][1].status
    /\ \A r \in DOMAIN revisions[p] :
          r < Len(revisions[p]) => revisions[p][r].status \in {"published", "stale"}

EditorialInv ==
    /\ TypeOK
    /\ PointerAgrees
    /\ \A p \in Posts :
          /\ PostOK(p)
          /\ \A r \in DOMAIN revisions[p] : RevisionOK(p, r) /\ GroundedOK(p, r)

=============================================================================
