---------------------------- MODULE IndexLedger ----------------------------
(***************************************************************************)
(* What knowledge.index_jobs promises of every re-index request, whoever   *)
(* runs it and however often that worker fails: a request has a budget of  *)
(* attempts, each attempt is counted, a request waits only while it has an *)
(* attempt left, it ends once, and it ends as embedded only together with  *)
(* its vectors, which stay.                                                *)
(*                                                                         *)
(* Locks, sessions and workers are in module IndexJobs.                    *)
(***************************************************************************)
EXTENDS Naturals

CONSTANTS
    Requests,
    Vectors,      \* what a request may ask for
    MaxBudget,
    NoVector

VARIABLES
    state,        \* what every request has come to
    remaining,    \* attempts it has left
    wanted,       \* the vectors it asks for
    vectors       \* the vectors that are stored

board == <<state, remaining, wanted, vectors>>

States == {"absent", "waiting", "taken", "embedded", "dead", "cancelled"}

BoardInit ==
    /\ state = [q \in Requests |-> "absent"]
    /\ remaining = [q \in Requests |-> 0]
    /\ wanted = [q \in Requests |-> NoVector]
    /\ vectors = {}

Accept(q, budget, v) ==
    /\ state[q] = "absent"
    /\ state' = [state EXCEPT ![q] = "waiting"]
    /\ remaining' = [remaining EXCEPT ![q] = budget]
    /\ wanted' = [wanted EXCEPT ![q] = v]
    /\ UNCHANGED vectors

\* What becomes of q at the end of an attempt that leaves it `left` attempts.
Conclude(q, left) ==
    /\ \/ /\ left > 0
          /\ state' = [state EXCEPT ![q] = "waiting"]
          /\ UNCHANGED vectors
       \/ /\ state' = [state EXCEPT ![q] = "dead"]
          /\ UNCHANGED vectors
       \/ /\ state' = [state EXCEPT ![q] = "embedded"]
          /\ vectors' = vectors \cup {wanted[q]}
    /\ UNCHANGED wanted

\* An attempt, in one commit.
Attempt(q) ==
    /\ state[q] = "waiting"
    /\ remaining' = [remaining EXCEPT ![q] = @ - 1]
    /\ Conclude(q, remaining[q] - 1)

\* An attempt, in two commits: an attempt that has begun counts.
Take(q) ==
    /\ state[q] = "waiting"
    /\ state' = [state EXCEPT ![q] = "taken"]
    /\ remaining' = [remaining EXCEPT ![q] = @ - 1]
    /\ UNCHANGED <<wanted, vectors>>

Finish(q) ==
    /\ state[q] = "taken"
    /\ Conclude(q, remaining[q])
    /\ UNCHANGED remaining

\* Its document has become ineligible before an attempt began.
Cancel(q) ==
    /\ state[q] = "waiting"
    /\ state' = [state EXCEPT ![q] = "cancelled"]
    /\ UNCHANGED <<remaining, wanted, vectors>>

BoardNext ==
    \E q \in Requests :
        \/ \E budget \in 1..MaxBudget, v \in Vectors : Accept(q, budget, v)
        \/ Attempt(q)
        \/ Take(q)
        \/ Finish(q)
        \/ Cancel(q)

BoardSpec == BoardInit /\ [][BoardNext]_board

=============================================================================
