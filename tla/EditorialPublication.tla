------------------------ MODULE EditorialPublication ------------------------
(***************************************************************************)
(* The editorial posts beside the publication that really runs: module     *)
(* KnowledgePublication, with its sessions, statements and locks, in the   *)
(* place of the ledger that EditorialContent takes as its environment.     *)
(* Both services share the tables of the documents and of the sources.     *)
(***************************************************************************)
EXTENDS EditorialContent

CONSTANTS
    Publishers,   \* transactions that may publish knowledge
    NoCandidate

ASSUME SystemAssumption == NoCandidate \notin Candidates

VARIABLES
    step,       \* what every publisher does next
    candidate   \* the candidate it is publishing

Knowledge == INSTANCE KnowledgePublication

publishing == <<step, candidate>>
systemVars == <<vars, publishing>>

SystemInit == Init /\ Knowledge!Init

\* A request about a post may come between any two statements of a publication.
SystemNext ==
    \/ Knowledge!Next /\ UNCHANGED editorial
    \/ \E p \in Posts : Request(p) /\ UNCHANGED publishing

SystemSpec == SystemInit /\ [][SystemNext]_systemVars

-----------------------------------------------------------------------------
(* Properties.                                                             *)

\* What EditorialContent says of posts beside the ledger is true of posts beside
\* the real publication, with its unlocked reads, its waits and its rollbacks.
ImplementsEditorial == Spec

\* An approved revision that cites what was superseded or expired.
Blocked(p, r) ==
    /\ r \in DOMAIN revisions[p]
    /\ revisions[p][r].status = "approved"
    /\ \E v \in revisions[p][r].content.cites : ~IsCurrent(v)

\* An approval does not outlive the knowledge it was given for: from the step that
\* withdraws a cited version the revision is never published, however long it
\* waits and whatever is published meanwhile.  (Nor can it be reopened.)
BlockedStays ==
    [][\A p \in Posts : \A r \in DOMAIN revisions[p] :
          Blocked(p, r) => Blocked(p, r)']_systemVars

\* A post that is shown cites only versions of extractions that a reviewer has
\* approved, and whose approval still stands: two services and their two reviews
\* agree although neither asks the other.
ShownIsReviewed ==
    \A p \in Posts : Shown(p) =>
        \A v \in revisions[p][post[p].published].content.cites :
            review[v.item].status = "approved"

=============================================================================
