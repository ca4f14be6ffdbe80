------------------------ MODULE EvidenceStoreProofs ------------------------
(***************************************************************************)
(* StoreInv is inductive for any number of sessions and either store.      *)
(***************************************************************************)
EXTENDS EvidenceStore, TLAPS

LEMMA InitStore == Init => StoreInv
BY StoreAssumption DEF Init, StoreInv, TypeOK, FixedBytes, PutsDone, MineOK, AttemptOK,
   ArtifactWithSnapshot, SourceTextKept, LeftoversReconcile, DatabaseReconciles, Transactional,
   Done, Keys, Steps

LEMMA BeginStep ==
    ASSUME StoreInv, NEW s \in Sessions, Begin(s)
    PROVE  StoreInv'
<1> USE DEF StoreInv, Begin
<1>1. TypeOK'
    BY DEF TypeOK, Steps, Keys
<1>2. \A t \in Sessions : Done(t)' = IF t = s THEN {} ELSE Done(t)
    BY DEF TypeOK, Done, Before, Keys
<1>3. Done(s) = {}
    BY DEF TypeOK, Done
<1>4. PutsDone' /\ MineOK'
    BY <1>2, <1>3 DEF PutsDone, MineOK, Transactional
<1>5. AttemptOK'
    BY DEF AttemptOK, TypeOK
<1>6. QED
    BY <1>1, <1>4, <1>5 DEF FixedBytes, ArtifactWithSnapshot, SourceTextKept,
        LeftoversReconcile, DatabaseReconciles, Transactional

-----------------------------------------------------------------------------
\* A finished put extends what the attempt has done, and nothing else changes.
LEMMA AdvanceFacts ==
    ASSUME TypeOK, NEW s \in Sessions, step[s] \in {"look", "write"}, Advance(s)
    PROVE  /\ step' \in [Sessions -> Steps] /\ key' \in [Sessions -> Keys]
           /\ step'[s] \notin {"idle", "commit"}
           /\ \A t \in Sessions \ {s} : step'[t] = step[t] /\ key'[t] = key[t]
           /\ Done(s)' = Done(s) \cup {key[s]}
           /\ \A t \in Sessions \ {s} : Done(t)' = Done(t)
<1>1. CASE key[s] = "normalized"
    <2>1. step'[s] = "record" /\ key' = key
        BY <1>1 DEF Advance, TypeOK
    <2>2. /\ step' \in [Sessions -> Steps]
          /\ \A t \in Sessions \ {s} : step'[t] = step[t]
        BY <1>1 DEF Advance, TypeOK, Steps
    <2>3. QED
        BY <1>1, <2>1, <2>2 DEF TypeOK, Done, Before, Keys
<1>2. CASE key[s] = "raw"
    <2>1. step'[s] = "look" /\ key'[s] = "artifact"
        BY <1>2 DEF Advance, After, TypeOK
    <2>2. /\ step' \in [Sessions -> Steps] /\ key' \in [Sessions -> Keys]
          /\ \A t \in Sessions \ {s} : step'[t] = step[t] /\ key'[t] = key[t]
        BY <1>2 DEF Advance, After, TypeOK, Steps, Keys
    <2>3. QED
        BY <1>2, <2>1, <2>2 DEF TypeOK, Done, Before, Keys
<1>3. CASE key[s] = "artifact"
    <2>1. step'[s] = "look" /\ key'[s] = "normalized"
        BY <1>3 DEF Advance, After, TypeOK
    <2>2. /\ step' \in [Sessions -> Steps] /\ key' \in [Sessions -> Keys]
          /\ \A t \in Sessions \ {s} : step'[t] = step[t] /\ key'[t] = key[t]
        BY <1>3 DEF Advance, After, TypeOK, Steps, Keys
    <2>3. QED
        BY <1>3, <2>1, <2>2 DEF TypeOK, Done, Before, Keys
<1>4. QED
    BY <1>1, <1>2, <1>3 DEF TypeOK, Keys

\* A session that has finished holds nothing.
LEMMA FinishedFacts ==
    ASSUME TypeOK, NEW s \in Sessions, Finished(s), key' = key
    PROVE  /\ step' \in [Sessions -> Steps] /\ mine' \in [Sessions -> SUBSET Keys]
           /\ step'[s] = "idle" /\ mine'[s] = {} /\ Done(s)' = {}
           /\ \A t \in Sessions \ {s} :
                 step'[t] = step[t] /\ mine'[t] = mine[t] /\ Done(t)' = Done(t)
BY DEF TypeOK, Finished, Steps, Done

LEMMA MissingStep ==
    ASSUME StoreInv, NEW s \in Sessions, Missing(s)
    PROVE  StoreInv'
<1> USE DEF StoreInv, Missing
<1>1. TypeOK'
    BY DEF TypeOK, Steps
<1>2. \A t \in Sessions : Done(t)' = Done(t)
    BY DEF TypeOK, Done
<1>3. PutsDone' /\ MineOK'
    BY <1>2 DEF PutsDone, MineOK, Transactional
<1>4. AttemptOK'
    BY DEF AttemptOK, TypeOK
<1>5. QED
    BY <1>1, <1>3, <1>4 DEF FixedBytes, ArtifactWithSnapshot, SourceTextKept,
        LeftoversReconcile, DatabaseReconciles, Transactional

LEMMA PresentStep ==
    ASSUME StoreInv, NEW s \in Sessions, Present(s)
    PROVE  StoreInv'
<1> USE DEF StoreInv
<1>1. TypeOK'
    BY AdvanceFacts DEF Present, TypeOK
<1>2. AttemptOK'
    BY AdvanceFacts DEF Present, AttemptOK
<1>3. MineOK'
    <2>1. \A t \in Sessions : Done(t) \subseteq Done(t)'
        BY AdvanceFacts DEF Present
    <2>2. QED
        BY <2>1 DEF Present, MineOK, Transactional
<1>4. key[s] \in Keys /\ id[s] # 0
    BY DEF TypeOK, Present, AttemptOK
<1>5. /\ key[s] # "artifact" => object[key[s]] = 1
      /\ key[s] = "artifact" => object[key[s]] # 0
    BY <1>4 DEF Present, Bytes
<1>6. PutsDone'
    BY <1>5, AdvanceFacts DEF Present, PutsDone
<1>7. QED
    BY <1>1, <1>2, <1>3, <1>6 DEF Present, FixedBytes, ArtifactWithSnapshot, SourceTextKept,
        LeftoversReconcile, DatabaseReconciles, Transactional

LEMMA WriteRowStep ==
    ASSUME StoreInv, NEW s \in Sessions, WriteRow(s)
    PROVE  StoreInv'
<1> USE DEF StoreInv
<1>1. key[s] \in Keys /\ mine'[s] = mine[s] \cup {key[s]}
    BY DEF WriteRow, TypeOK
<1>2. TypeOK'
    BY <1>1, AdvanceFacts DEF WriteRow, TypeOK
<1>3. AttemptOK'
    BY AdvanceFacts DEF WriteRow, AttemptOK
<1>4. \A t \in Sessions \ {s} : mine'[t] = mine[t]
    BY DEF WriteRow, TypeOK
<1>5. MineOK'
    BY <1>1, <1>4, AdvanceFacts DEF WriteRow, MineOK, Transactional
<1>6. PutsDone'
    BY <1>1, <1>4, AdvanceFacts DEF WriteRow, PutsDone
<1>7. QED
    BY <1>2, <1>3, <1>5, <1>6 DEF WriteRow, FixedBytes, ArtifactWithSnapshot, SourceTextKept,
        LeftoversReconcile, DatabaseReconciles, Transactional

LEMMA WriteObjectStep ==
    ASSUME StoreInv, NEW s \in Sessions, WriteObject(s)
    PROVE  StoreInv'
<1> USE DEF StoreInv
<1>1. /\ key[s] \in Keys /\ id[s] \in Nat /\ id[s] # 0 /\ ~Transactional
      /\ object'[key[s]] = Bytes(key[s], id[s])
      /\ \A k \in Keys \ {key[s]} : object'[k] = object[k]
    BY DEF WriteObject, TypeOK, AttemptOK
<1>2. Bytes(key[s], id[s]) \in Nat
    BY <1>1 DEF Bytes
<1>3. TypeOK'
    BY <1>1, <1>2, AdvanceFacts DEF WriteObject, TypeOK
<1>4. AttemptOK'
    BY AdvanceFacts DEF WriteObject, AttemptOK
<1>5. MineOK'
    <2>1. \A t \in Sessions : mine[t] = {}
        BY <1>1 DEF MineOK, Transactional, TypeOK
    <2>2. QED
        BY <2>1 DEF WriteObject, MineOK, Transactional
<1>6. /\ key[s] = "artifact" => object'["artifact"] # 0
      /\ key[s] # "artifact" => object'[key[s]] = 1
    BY <1>1 DEF Bytes
<1>7. PutsDone'
    <2> SUFFICES ASSUME NEW t \in Sessions, NEW k \in Done(t)'
                 PROVE  \/ k \in mine[t]
                        \/ object'[k] = 1 /\ k # "artifact"
                        \/ object'[k] # 0 /\ k = "artifact"
        BY DEF PutsDone, WriteObject
    <2>1. k \in Keys
        BY DEF Done
    <2>2. CASE k = key[s]
        BY <1>6, <2>2
    <2>3. CASE k # key[s]
        <3>1. k \in Done(t)
            BY <2>3, AdvanceFacts DEF WriteObject
        <3>2. QED
            BY <1>1, <2>1, <2>3, <3>1 DEF PutsDone
    <2>4. QED
        BY <2>2, <2>3
<1>8. FixedBytes'
    BY <1>1, <1>6 DEF FixedBytes
<1>9. SourceTextKept'
    <2>1. "raw" \in Keys /\ "normalized" \in Keys
        BY DEF Keys
    <2>2. QED
        BY <1>1, <1>6, <2>1 DEF SourceTextKept, WriteObject
<1>10. QED
    BY <1>1, <1>3, <1>4, <1>5, <1>7, <1>8, <1>9 DEF WriteObject, ArtifactWithSnapshot,
        DatabaseReconciles, Transactional

LEMMA RecordStep ==
    ASSUME StoreInv, NEW s \in Sessions, Record(s)
    PROVE  StoreInv'
<1> USE DEF StoreInv, Record
<1>1. TypeOK'
    BY DEF TypeOK, Steps
<1>2. \A t \in Sessions : Done(t)' = Done(t)
    BY DEF TypeOK, Done
<1>3. PutsDone' /\ MineOK'
    BY <1>2 DEF PutsDone, MineOK, Transactional
<1>4. AttemptOK'
    BY DEF AttemptOK, TypeOK
<1>5. QED
    BY <1>1, <1>3, <1>4 DEF FixedBytes, ArtifactWithSnapshot, SourceTextKept,
        LeftoversReconcile, DatabaseReconciles, Transactional

\* Committing the objects of s: what was visible stays, what it put appears.
LEMMA VisibleFacts ==
    ASSUME StoreInv, NEW s \in Sessions, object' = Visible(s)
    PROVE  /\ object' \in [Keys -> Nat]
           /\ \A k \in Keys :
                 /\ object[k] # 0 => object'[k] = object[k]
                 /\ k \in mine[s] => object'[k] = Bytes(k, id[s])
                 /\ k \notin mine[s] => object'[k] = object[k]
           /\ FixedBytes'
<1>1. \A k \in Keys : Bytes(k, id[s]) \in Nat
    BY DEF Bytes, StoreInv, TypeOK
<1>2. /\ object' \in [Keys -> Nat]
      /\ \A k \in Keys :
                 /\ k \in mine[s] => object'[k] = Bytes(k, id[s])
                 /\ k \notin mine[s] => object'[k] = object[k]
    BY <1>1 DEF Visible, StoreInv, TypeOK
<1>3. \A k \in Keys : object[k] # 0 => object'[k] = object[k]
    BY <1>2 DEF StoreInv, MineOK, Transactional
<1>4. FixedBytes'
    BY <1>2 DEF StoreInv, FixedBytes, Bytes
<1>5. QED
    BY <1>2, <1>3, <1>4

\* The other attempts are not disturbed when s commits its objects and ends.
LEMMA OthersKept ==
    ASSUME StoreInv, NEW s \in Sessions, Finished(s), key' = key, store' = store,
           object' = Visible(s)
    PROVE  PutsDone' /\ MineOK'
<1>1. PutsDone'
    <2> SUFFICES ASSUME NEW t \in Sessions, NEW k \in Done(t)'
                 PROVE  \/ k \in mine'[t]
                        \/ object'[k] = 1 /\ k # "artifact"
                        \/ object'[k] # 0 /\ k = "artifact"
        BY DEF PutsDone
    <2>1. t # s /\ k \in Done(t) /\ mine'[t] = mine[t] /\ k \in Keys
        BY FinishedFacts DEF StoreInv, Done
    <2>2. \/ k \in mine[t]
          \/ object[k] = 1 /\ k # "artifact"
          \/ object[k] # 0 /\ k = "artifact"
        BY <2>1 DEF StoreInv, PutsDone
    <2>3. QED
        BY <2>1, <2>2, VisibleFacts
<1>2. MineOK'
    <2> SUFFICES ASSUME NEW t \in Sessions
                 PROVE  /\ mine'[t] \subseteq Done(t)'
                        /\ \A k \in mine'[t] : Transactional /\ object'[k] = 0
                        /\ \A u \in Sessions \ {t} : mine'[t] \cap mine'[u] = {}
        BY DEF MineOK, Transactional
    <2>1. CASE t = s
        BY <2>1, FinishedFacts DEF StoreInv
    <2>2. CASE t # s
        <3>1. mine'[t] = mine[t] /\ Done(t)' = Done(t)
            BY <2>2, FinishedFacts DEF StoreInv
        <3>2. \A u \in Sessions : mine'[u] \subseteq mine[u]
            BY FinishedFacts DEF StoreInv
        <3>3. \A k \in mine[t] : Transactional /\ object[k] = 0 /\ k \notin mine[s] /\ k \in Keys
            BY <2>2 DEF StoreInv, MineOK, Transactional, Done
        <3>4. \A k \in mine[t] : object'[k] = 0
            BY <3>3, VisibleFacts
        <3>5. QED
            BY <3>1, <3>2, <3>3, <3>4 DEF StoreInv, MineOK, Transactional
    <2>3. QED
        BY <2>1, <2>2
<1>3. QED
    BY <1>1, <1>2

LEMMA CollisionStep ==
    ASSUME StoreInv, NEW s \in Sessions, Collision(s)
    PROVE  StoreInv'
<1> USE DEF StoreInv
<1>1. /\ Finished(s) /\ key' = key /\ store' = store /\ object' = Visible(s) /\ snapshot' = snapshot
      /\ step[s] = "look" /\ key[s] \in Keys /\ id[s] \in Nat
      /\ object[key[s]] \notin {0, Bytes(key[s], id[s])}
    BY DEF Collision, TypeOK
<1>2. TypeOK'
    BY <1>1, FinishedFacts, VisibleFacts DEF Collision, TypeOK
<1>3. AttemptOK'
    BY <1>1, FinishedFacts DEF Collision, AttemptOK
<1>4. key[s] = "artifact" /\ object["artifact"] # 0
    BY <1>1 DEF FixedBytes, Bytes
<1>5. object'["artifact"] = object["artifact"]
    BY <1>1, <1>4, VisibleFacts
<1>6. ArtifactWithSnapshot' /\ DatabaseReconciles'
    BY <1>1, <1>4, <1>5 DEF ArtifactWithSnapshot, LeftoversReconcile,
        DatabaseReconciles, Transactional
<1>7. SourceTextKept'
    BY <1>1, VisibleFacts DEF SourceTextKept, Keys
<1>8. QED
    BY <1>1, <1>2, <1>3, <1>6, <1>7, OthersKept, VisibleFacts

LEMMA CommitStep ==
    ASSUME StoreInv, NEW s \in Sessions, Commit(s)
    PROVE  StoreInv'
<1> USE DEF StoreInv
<1>1. /\ Finished(s) /\ key' = key /\ store' = store /\ object' = Visible(s) /\ snapshot' = id[s]
      /\ step[s] = "commit" /\ snapshot = 0 /\ id[s] \in Nat /\ id[s] # 0
      /\ UNCHANGED <<id, attempts, collided>>
    BY DEF Commit, TypeOK, AttemptOK
<1>2. TypeOK'
    BY <1>1, FinishedFacts, VisibleFacts DEF TypeOK
<1>3. AttemptOK'
    BY <1>1, FinishedFacts DEF AttemptOK
<1>4. Done(s) = Keys
    BY <1>1 DEF Done
<1>5. \A k \in Keys \ {"artifact"} : object'[k] = 1
    <2> SUFFICES ASSUME NEW k \in Keys \ {"artifact"} PROVE object'[k] = 1
        OBVIOUS
    <2>1. CASE k \in mine[s]
        BY <1>1, <2>1, VisibleFacts DEF Bytes
    <2>2. CASE k \notin mine[s]
        BY <1>1, <1>4, <2>2, VisibleFacts DEF PutsDone
    <2>3. QED
        BY <2>1, <2>2
<1>6. SourceTextKept'
    BY <1>5 DEF SourceTextKept, Keys
<1>7. ArtifactWithSnapshot'
    <2> SUFFICES ASSUME Transactional PROVE object'["artifact"] = id[s]
        BY <1>1 DEF ArtifactWithSnapshot, Transactional
    <2>1. object["artifact"] = 0 /\ "artifact" \in Keys
        BY <1>1 DEF ArtifactWithSnapshot, Keys
    <2>2. "artifact" \in mine[s]
        BY <1>4, <2>1 DEF PutsDone
    <2>3. QED
        BY <1>1, <2>1, <2>2, VisibleFacts DEF Bytes
<1>8. DatabaseReconciles'
    BY <1>1 DEF LeftoversReconcile, DatabaseReconciles, Transactional
<1>9. QED
    BY <1>1, <1>2, <1>3, <1>6, <1>7, <1>8, OthersKept, VisibleFacts

LEMMA RollbackStep ==
    ASSUME StoreInv, NEW s \in Sessions, Rollback(s)
    PROVE  StoreInv'
<1> USE DEF StoreInv
<1>1. TypeOK'
    BY FinishedFacts DEF Rollback, TypeOK
<1>2. AttemptOK'
    BY FinishedFacts DEF Rollback, AttemptOK
<1>3. PutsDone' /\ MineOK'
    BY FinishedFacts DEF Rollback, PutsDone, MineOK, Transactional
<1>4. QED
    BY <1>1, <1>2, <1>3 DEF Rollback, FixedBytes, ArtifactWithSnapshot, SourceTextKept,
        LeftoversReconcile, DatabaseReconciles, Transactional

-----------------------------------------------------------------------------
LEMMA StoreNext == StoreInv /\ [Next]_vars => StoreInv'
<1>1. ASSUME StoreInv, UNCHANGED vars PROVE StoreInv'
    BY <1>1 DEF vars, StoreInv, TypeOK, FixedBytes, PutsDone, MineOK, AttemptOK, Done,
       ArtifactWithSnapshot, SourceTextKept, LeftoversReconcile, DatabaseReconciles, Transactional
<1>2. QED
    BY <1>1, BeginStep, MissingStep, PresentStep, CollisionStep, WriteRowStep, WriteObjectStep,
       RecordStep, CommitStep, RollbackStep DEF Next

\* The invariant, for any number of sessions and attempts and either store.
THEOREM StoreInvariant == Spec => []StoreInv
BY InitStore, StoreNext, PTL DEF Spec

\* Whatever fails, and whichever store is configured, a committed snapshot has
\* its raw response and normalized text (_snapshot_response puts them first).
THEOREM SourceTextIsKept == Spec => []SourceTextKept
<1>1. StoreInv => SourceTextKept
    BY DEF StoreInv
<1>2. QED
    BY <1>1, StoreInvariant, PTL

\* With SqlAlchemySnapshotStore every committed artifact can be reviewed.
THEOREM ArtifactIsReadable == Spec => []ArtifactReadable
<1>1. StoreInv => ArtifactReadable
    BY DEF StoreInv, ArtifactWithSnapshot, ArtifactReadable
<1>2. QED
    BY <1>1, StoreInvariant, PTL

\* With SqlAlchemySnapshotStore a failed attempt leaves nothing that a later
\* one could collide with.
THEOREM LeftoversAreReconciled == Spec => []DatabaseReconciles
<1>1. StoreInv => DatabaseReconciles
    BY DEF StoreInv
<1>2. QED
    BY <1>1, StoreInvariant, PTL

\* With SqlAlchemySnapshotStore no object is ever replaced by other bytes.
THEOREM ObjectsAreImmutable == Spec => ObjectsImmutable
<1> DEFINE Kept == Transactional => \A k \in Keys : object[k] # 0 => object'[k] = object[k]
<1>1. StoreInv /\ [Next]_vars => [Kept]_vars
    <2> SUFFICES ASSUME StoreInv, Next, Transactional
                 PROVE  \A k \in Keys : object[k] # 0 => object'[k] = object[k]
        OBVIOUS
    <2>1. PICK s \in Sessions :
              \/ object' = object
              \/ object' = Visible(s)
        BY DEF Next, Begin, Missing, Present, Collision, WriteRow, WriteObject, Record,
           Commit, Rollback
    <2>2. QED
        BY <2>1, VisibleFacts
<1>2. QED
    BY <1>1, StoreInvariant, PTL DEF Spec, ObjectsImmutable

=============================================================================
