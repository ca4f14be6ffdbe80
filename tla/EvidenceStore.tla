--------------------------- MODULE EvidenceStore ---------------------------
(***************************************************************************)
(* The evidence of one response body: three objects under keys derived     *)
(* from its sha256, written before the rows that refer to them.            *)
(*                                                                         *)
(* Every ingestion attempt of the body puts the raw response, the          *)
(* extraction artifact and the normalized text, in this order, and then    *)
(* records the snapshot.  put is a look at the key and then a write.  An   *)
(* object store keeps what was written whatever becomes of the attempt;    *)
(* the database store writes in the attempt's own transaction.  The raw    *)
(* and normalized bytes follow from the body; the artifact also contains   *)
(* the snapshot id the attempt has drawn, so its bytes differ between any  *)
(* two attempts.                                                           *)
(***************************************************************************)
EXTENDS Naturals

CONSTANTS
    Sessions,      \* transactions that may ingest the body
    MaxAttempts    \* bound on the attempts, over all jobs that fetch the body

ASSUME StoreAssumption == MaxAttempts \in Nat

VARIABLES
    store,      \* what the process was configured with
    object,     \* what everyone reads under each key; 0 for no object
    snapshot,   \* the attempt whose snapshot is committed, 0 for none
    step,       \* what each session does next
    key,        \* the key it is putting
    id,         \* the snapshot id its attempt has drawn
    mine,       \* the objects its open transaction has inserted
    attempts,
    collided    \* attempts that ended with snapshot_collision

vars == <<store, object, snapshot, step, key, id, mine, attempts, collided>>

\* SqlAlchemySnapshotStore, not S3SnapshotStore or LocalSnapshotStore.
Transactional == store = "database"

Keys == {"raw", "artifact", "normalized"}

Steps == {"idle", "look", "write", "record", "commit"}

\* The bytes attempt n puts under key k: 1 stands for those the body fixes.
Bytes(k, n) == IF k = "artifact" THEN n ELSE 1

After == [raw |-> "artifact", artifact |-> "normalized"]

TypeOK ==
    /\ store \in {"database", "objects"}
    /\ object \in [Keys -> Nat]
    /\ snapshot \in Nat
    /\ step \in [Sessions -> Steps]
    /\ key \in [Sessions -> Keys]
    /\ id \in [Sessions -> Nat]
    /\ mine \in [Sessions -> SUBSET Keys]
    /\ attempts \in Nat
    /\ collided \subseteq Nat

Init ==
    /\ store \in {"database", "objects"}
    /\ object = [k \in Keys |-> 0]
    /\ snapshot = 0
    /\ step = [s \in Sessions |-> "idle"]
    /\ key = [s \in Sessions |-> "raw"]
    /\ id = [s \in Sessions |-> 0]
    /\ mine = [s \in Sessions |-> {}]
    /\ attempts = 0
    /\ collided = {}

-----------------------------------------------------------------------------
\* snapshot_by_sha256 found nothing: the attempt draws its snapshot id.
Begin(s) ==
    /\ step[s] = "idle"
    /\ snapshot = 0
    /\ attempts < MaxAttempts
    /\ attempts' = attempts + 1
    /\ id' = [id EXCEPT ![s] = attempts + 1]
    /\ step' = [step EXCEPT ![s] = "look"]
    /\ key' = [key EXCEPT ![s] = "raw"]
    /\ UNCHANGED <<store, object, snapshot, mine, collided>>

\* The put of this key is done: go on with the next one, then with the rows.
Advance(s) ==
    IF key[s] = "normalized"
    THEN /\ step' = [step EXCEPT ![s] = "record"]
         /\ UNCHANGED key
    ELSE /\ step' = [step EXCEPT ![s] = "look"]
         /\ key' = [key EXCEPT ![s] = After[key[s]]]

\* head_object, session.get or exists: nothing is there.
Missing(s) ==
    /\ step[s] = "look"
    /\ object[key[s]] = 0
    /\ step' = [step EXCEPT ![s] = "write"]
    /\ UNCHANGED <<store, object, snapshot, key, id, mine, attempts, collided>>

\* The same bytes are there already.
Present(s) ==
    /\ step[s] = "look"
    /\ object[key[s]] = Bytes(key[s], id[s])
    /\ Advance(s)
    /\ UNCHANGED <<store, object, snapshot, id, mine, attempts, collided>>

\* What is visible once the transaction of s is committed.
Visible(s) ==
    [k \in Keys |-> IF k \in mine[s] THEN Bytes(k, id[s]) ELSE object[k]]

Finished(s) ==
    /\ step' = [step EXCEPT ![s] = "idle"]
    /\ mine' = [mine EXCEPT ![s] = {}]

\* Other bytes are there: the job is dead-lettered, and that is committed
\* together with the objects this transaction has inserted.
Collision(s) ==
    /\ step[s] = "look"
    /\ object[key[s]] \notin {0, Bytes(key[s], id[s])}
    /\ collided' = collided \cup {id[s]}
    /\ object' = Visible(s)
    /\ Finished(s)
    /\ UNCHANGED <<store, snapshot, key, id, attempts>>

\* Mutant: the object is stored in a transaction of its own.
WriteAutonomous(s) ==
    /\ step[s] = "write"
    /\ object' = [object EXCEPT ![key[s]] = Bytes(key[s], id[s])]
    /\ Advance(s)
    /\ UNCHANGED <<store, snapshot, id, mine, attempts, collided>>

\* An INSERT: it waits for another transaction that inserts the same key.
WriteRow(s) ==
    /\ step[s] = "write"
    /\ Transactional
    /\ \A t \in Sessions \ {s} : key[s] \notin mine[t]
    /\ object[key[s]] = 0
    /\ mine' = [mine EXCEPT ![s] = @ \cup {key[s]}]
    /\ Advance(s)
    /\ UNCHANGED <<store, object, snapshot, id, attempts, collided>>

\* put_object, or replace of the temporary file: it does not look again.
WriteObject(s) ==
    /\ step[s] = "write"
    /\ ~Transactional
    /\ object' = [object EXCEPT ![key[s]] = Bytes(key[s], id[s])]
    /\ Advance(s)
    /\ UNCHANGED <<store, snapshot, id, mine, attempts, collided>>

\* Mutant: the rows are inserted before the last object is put.
RecordEarly(s) ==
    /\ step[s] \in {"record", "look"}
    /\ snapshot = 0
    /\ \A t \in Sessions : step[t] # "commit"
    /\ step' = [step EXCEPT ![s] = "commit"]
    /\ UNCHANGED <<store, object, snapshot, key, id, mine, attempts, collided>>

\* The rows of the snapshot, its artifact and its review item are inserted;
\* (source, sha256) is unique.
Record(s) ==
    /\ step[s] = "record"
    /\ snapshot = 0
    /\ \A t \in Sessions : step[t] # "commit"
    /\ step' = [step EXCEPT ![s] = "commit"]
    /\ UNCHANGED <<store, object, snapshot, key, id, mine, attempts, collided>>

Commit(s) ==
    /\ step[s] = "commit"
    /\ snapshot' = id[s]
    /\ object' = Visible(s)
    /\ Finished(s)
    /\ UNCHANGED <<store, key, id, attempts, collided>>

\* A unique violation, a lost connection or a crash: the transaction is rolled
\* back, and a store that is not part of it keeps its objects.
Rollback(s) ==
    /\ step[s] # "idle"
    /\ Finished(s)
    /\ UNCHANGED <<store, object, snapshot, key, id, attempts, collided>>

Next ==
    \E s \in Sessions :
        \/ Begin(s)
        \/ Missing(s) \/ Present(s) \/ Collision(s)
        \/ WriteRow(s) \/ WriteObject(s)
        \/ Record(s) \/ Commit(s) \/ Rollback(s)

Spec == Init /\ [][Next]_vars

-----------------------------------------------------------------------------
(* Properties.                                                             *)

\* A committed snapshot always has its raw response and its normalized text,
\* with the digests its rows record: _snapshot_response puts them first, and
\* no later attempt replaces them with other bytes.
SourceTextKept ==
    snapshot # 0 => object["raw"] = 1 /\ object["normalized"] = 1

\* With the database store a reviewer can load the artifact of every committed
\* snapshot: the bytes under its key have the digest the row records
\* (_load_artifact).
ArtifactReadable == Transactional /\ snapshot # 0 => object["artifact"] = snapshot

\* docs/runbooks/ingestion.md: writing different bytes to the same key is
\* prohibited.  The database store keeps to it whatever attempts run beside or
\* after each other.
ObjectsImmutable ==
    [][Transactional => \A k \in Keys : object[k] # 0 => object'[k] = object[k]]_vars

\* docs/runbooks/ingestion.md: an object left behind by a failed transaction is
\* safe to reconcile.  An attempt collides only with evidence that has been
\* committed while it ran, never with what a failed attempt has left.
LeftoversReconcile == collided # {} => snapshot # 0

\* With the database store that is so.
DatabaseReconciles == Transactional => LeftoversReconcile

-----------------------------------------------------------------------------
(* The inductive invariant.                                                *)

\* The body fixes these bytes, so any attempt writes the same ones.
FixedBytes == \A k \in Keys \ {"artifact"} : object[k] \in {0, 1}

Before(k) == {q \in Keys : \/ q = "raw" /\ k # "raw"
                           \/ q = "artifact" /\ k = "normalized"}

\* The keys whose put the attempt of s has finished.
Done(s) ==
    {q \in Keys : \/ step[s] \in {"record", "commit"}
                  \/ step[s] \in {"look", "write"} /\ q \in Before(key[s])}

\* A finished put can be read, by everyone or by the attempt itself.
PutsDone ==
    \A s \in Sessions : \A k \in Done(s) :
        \/ k \in mine[s]
        \/ object[k] = 1 /\ k # "artifact"
        \/ object[k] # 0 /\ k = "artifact"

\* Only a transactional store has objects that are not yet visible, each
\* inserted by one transaction under a key nobody has committed.
MineOK ==
    \A s \in Sessions :
        /\ mine[s] \subseteq Done(s)
        /\ \A k \in mine[s] : Transactional /\ object[k] = 0
        /\ \A t \in Sessions \ {s} : mine[s] \cap mine[t] = {}

\* An attempt has an id, and one at a time has inserted the rows.
AttemptOK ==
    \A s \in Sessions :
        /\ step[s] # "idle" => id[s] # 0
        /\ step[s] = "commit" =>
              /\ snapshot = 0
              /\ \A t \in Sessions \ {s} : step[t] # "commit"

\* With a transactional store the artifact appears with its snapshot.
ArtifactWithSnapshot == Transactional => object["artifact"] = snapshot

StoreInv ==
    /\ TypeOK
    /\ FixedBytes
    /\ PutsDone
    /\ MineOK
    /\ AttemptOK
    /\ ArtifactWithSnapshot
    /\ SourceTextKept
    /\ DatabaseReconciles

=============================================================================
