------------------------ MODULE SourceRegistryProofs ------------------------
(***************************************************************************)
(* Proofs about SourceRegistry, for any registries, replicas and            *)
(* administrators: whatever the interleaving, the sources that nobody       *)
(* manages are those of one registry and can be served.                     *)
(***************************************************************************)
EXTENDS SourceRegistry, TLAPS

-----------------------------------------------------------------------------
(* The registries.                                                         *)

LEMMA RegistryTypes ==
    ASSUME NEW y \in Replicas
    PROVE  RegistryOf[y] \in Registries /\ IsRegistry(RegistryOf[y])
<1>1. QED
    BY RegistryAssumption

\* The rows that a registry asks for.
LEMMA RowTypes ==
    ASSUME NEW reg, IsRegistry(reg)
    PROVE  /\ DOMAIN reg \subseteq Sources \ ManagedIds
           /\ RegistryOrgs(reg) \subseteq Organizations
           /\ \A o \in Organizations : OrgRowOf(reg, o) \in OrgRows
           /\ \A s \in DOMAIN reg :
                 /\ reg[s].org \in RegistryOrgs(reg)
                 /\ OrgRowOf(reg, reg[s].org) =
                       [official |-> reg[s].official, active |-> reg[s].official]
                 /\ RowOf(reg[s]) \in SourceRows
                 /\ RowOf(reg[s]).org = reg[s].org
                 /\ RowOf(reg[s]).verified = reg[s].eligible
                 /\ RowOf(reg[s]).active => reg[s].eligible /\ reg[s].official
<1>1. /\ DOMAIN reg \subseteq Sources \ ManagedIds
      /\ \A s \in DOMAIN reg :
            /\ reg[s] \in Entries
            /\ \A t \in DOMAIN reg : reg[s].org = reg[t].org => reg[s].official = reg[t].official
    BY DEF IsRegistry
<1>2. \A o \in Organizations : OrgRowOf(reg, o) \in OrgRows
    BY DEF OrgRowOf, OrgRows
<1>3. ASSUME NEW s \in DOMAIN reg
      PROVE  /\ reg[s].org \in Organizations
             /\ reg[s].org \in RegistryOrgs(reg)
             /\ RowOf(reg[s]) \in SourceRows
             /\ RowOf(reg[s]).org = reg[s].org
             /\ RowOf(reg[s]).verified = reg[s].eligible
             /\ RowOf(reg[s]).active => reg[s].eligible /\ reg[s].official
    BY <1>1, <1>3 DEF Entries, RowOf, SourceRows, RegistryOrgs
<1>4. ASSUME NEW s \in DOMAIN reg
      PROVE  OrgRowOf(reg, reg[s].org) =
                 [official |-> reg[s].official, active |-> reg[s].official]
    <2>1. (\A t \in DOMAIN reg : reg[t].org = reg[s].org => reg[t].official) = reg[s].official
        BY <1>1, <1>4 DEF Entries
    <2>2. QED
        BY <2>1 DEF OrgRowOf
<1>5. RegistryOrgs(reg) \subseteq Organizations
    BY <1>3 DEF RegistryOrgs
<1>6. QED
    BY <1>1, <1>2, <1>3, <1>4, <1>5

\* The values that stand for nothing are no rows.
LEMMA NoRows ==
    /\ NoRow \notin OrgRows /\ NoRow \notin SourceRows /\ NoRow # Unwritten
    /\ Unwritten \notin OrgRows /\ Unwritten \notin SourceRows
<1>1. QED
    BY RegistryAssumption

-----------------------------------------------------------------------------
(* Synchronisations.                                                       *)

\* What the type invariant says about replica y, in the form the steps use.
LEMMA SyncTypes ==
    ASSUME TypeOK, NEW y \in Replicas
    PROVE  /\ \A s \in Sources : /\ source[s] \in SourceRows \cup {NoRow}
                                 /\ sourceWrites[y][s] \in SourceRows \cup {Unwritten}
                                 /\ SourceSeen(y, s) \in SourceRows \cup {NoRow}
           /\ \A o \in Organizations : /\ organization[o] \in OrgRows \cup {NoRow}
                                       /\ orgWrites[y][o] \in OrgRows \cup {Unwritten}
                                       /\ OrgSeen(y, o) \in OrgRows \cup {NoRow}
           /\ found[y] \subseteq Sources \cup Organizations
           /\ phase[y] \in Phases
<1>1. QED
    BY DEF TypeOK, SourceSeen, OrgSeen

\* While y synchronises, no other replica has written anything.
LEMMA OnlyWriter ==
    ASSUME RegistryInv, NEW y \in Replicas, \A z \in Replicas \ {y} : phase[z] = "idle"
    PROVE  /\ WrittenSources = {s \in Sources : sourceWrites[y][s] # Unwritten}
           /\ WrittenOrganizations = {o \in Organizations : orgWrites[y][o] # Unwritten}
<1>1. \A z \in Replicas \ {y} : /\ orgWrites[z] = NoOrgWrites
                                /\ sourceWrites[z] = NoSourceWrites
    BY DEF RegistryInv, SyncOK
<1>2. QED
    BY <1>1 DEF WrittenSources, WrittenOrganizations, NoOrgWrites, NoSourceWrites

\* A replica that does nothing has nothing to say.
LEMMA IdleOK ==
    ASSUME NEW z \in Replicas, phase[z] = "idle",
           orgWrites[z] = NoOrgWrites, sourceWrites[z] = NoSourceWrites
    PROVE  SyncOK(z)
<1>1. QED
    BY DEF SyncOK, Settled, WriteOK, NoSourceWrites

\* A step of y that leaves rows and requests alone preserves the invariant, if it
\* preserves what is said about y and takes no row that a request holds.
LEMMA SyncFrame ==
    ASSUME RegistryInv, TypeOK', NEW y \in Replicas,
           \A z \in Replicas \ {y} : phase[z] = "idle",
           \A z \in Replicas \ {y} : /\ phase'[z] = phase[z]
                                     /\ orgWrites'[z] = orgWrites[z]
                                     /\ sourceWrites'[z] = sourceWrites[z],
           UNCHANGED <<rows, admin>>,
           SyncOK(y)',
           \A s \in HeldSources : s \in Sources => sourceWrites'[y][s] = Unwritten,
           \A o \in HeldOrganizations : o \in Organizations => orgWrites'[y][o] = Unwritten
    PROVE  RegistryInv'
<1>1. \A z \in Replicas \ {y} : /\ orgWrites[z] = NoOrgWrites
                                /\ sourceWrites[z] = NoSourceWrites
    BY DEF RegistryInv, SyncOK
<1>2. ASSUME NEW z \in Replicas PROVE SyncOK(z)'
    <2>1. CASE z = y
        BY <2>1
    <2>2. CASE z # y
        <3>1. /\ phase'[z] = "idle"
              /\ orgWrites'[z] = NoOrgWrites' /\ sourceWrites'[z] = NoSourceWrites'
            BY <1>1, <2>2 DEF NoOrgWrites, NoSourceWrites
        <3>2. QED
            BY <3>1 DEF SyncOK, Settled, WriteOK, NoSourceWrites
    <2>3. QED
        BY <2>1, <2>2
<1>3. SyncAlone'
    BY DEF SyncAlone
<1>4. (\A a \in Admins : AdminOK(a))' /\ AdminsApart'
    BY DEF RegistryInv, AdminOK, AdminsApart, OrgUsable, rows, admin
<1>5. HeldSources' = HeldSources /\ HeldOrganizations' = HeldOrganizations
    BY DEF HeldSources, HeldOrganizations, admin
<1>6. LocksApart'
    <2>1. \A s \in WrittenSources' : s \in Sources /\ sourceWrites'[y][s] # Unwritten
        BY <1>1 DEF WrittenSources, NoSourceWrites
    <2>2. \A o \in WrittenOrganizations' : o \in Organizations /\ orgWrites'[y][o] # Unwritten
        BY <1>1 DEF WrittenOrganizations, NoOrgWrites
    <2>3. QED
        BY <1>5, <2>1, <2>2 DEF LocksApart
<1>7. ActiveIsAuthorized' /\ RegistrySourcesServable'
    BY DEF RegistryInv, ActiveIsAuthorized, RegistrySourcesServable, rows
<1>8. QED
    BY <1>2, <1>3, <1>4, <1>6, <1>7 DEF RegistryInv

\* Start: every organization of the registry is seen as the registry has it.
LEMMA StartStep ==
    ASSUME RegistryInv, NEW y \in Replicas, Start(y)
    PROVE  RegistryInv'
<1> DEFINE reg == RegistryOf[y]
           writes == OrgUpserts(reg)
<1>1. /\ TypeOK /\ SyncOK(y) /\ IsRegistry(reg)
      /\ \A z \in Replicas : phase[z] = "idle"
      /\ \A o \in HeldOrganizations : writes[o] = Unwritten
      /\ phase' = [phase EXCEPT ![y] = "sources"]
      /\ orgWrites' = [orgWrites EXCEPT ![y] = writes]
      /\ UNCHANGED <<rows, sourceWrites, found, admin>>
    BY RegistryTypes DEF RegistryInv, Start, Upsert
<1>2. writes \in [Organizations -> OrgRows \cup {Unwritten}]
    BY <1>1, RowTypes DEF OrgUpserts
<1>3. TypeOK'
    BY <1>1, <1>2 DEF TypeOK, Phases, rows, admin
<1>4. /\ phase'[y] = "sources" /\ orgWrites'[y] = writes
      /\ sourceWrites'[y] = NoSourceWrites
      /\ \A z \in Replicas \ {y} : /\ phase'[z] = phase[z]
                                   /\ orgWrites'[z] = orgWrites[z]
                                   /\ sourceWrites'[z] = sourceWrites[z]
    BY <1>1 DEF TypeOK, SyncOK
<1>5. \A o \in RegistryOrgs(reg) : OrgSeen(y, o)' = OrgRowOf(reg, o)
    <2> SUFFICES ASSUME NEW o \in RegistryOrgs(reg) PROVE OrgSeen(y, o)' = OrgRowOf(reg, o)
        OBVIOUS
    <2>1. o \in Organizations /\ OrgRowOf(reg, o) # Unwritten
        BY <1>1, RowTypes, NoRows
    <2>2. writes[o] = IF organization[o] # OrgRowOf(reg, o) THEN OrgRowOf(reg, o) ELSE Unwritten
        BY <2>1 DEF OrgUpserts
    <2>3. organization'[o] = organization[o]
        BY <1>1 DEF rows
    <2>4. QED
        BY <1>4, <2>1, <2>2, <2>3 DEF OrgSeen
<1>6. SyncOK(y)'
    BY <1>4, <1>5 DEF SyncOK, Settled, WriteOK, NoSourceWrites
<1>7. \A s \in HeldSources : s \in Sources => sourceWrites'[y][s] = Unwritten
    BY <1>4 DEF NoSourceWrites
<1> HIDE DEF writes
<1>8. QED
    BY <1>1, <1>3, <1>4, <1>6, <1>7, SyncFrame

LEMMA UpsertSourcesStep ==
    ASSUME RegistryInv, NEW y \in Replicas, UpsertSources(y)
    PROVE  RegistryInv'
<1> DEFINE reg == RegistryOf[y]
           writes == SourceUpserts(reg)
<1>1. /\ TypeOK /\ SyncOK(y) /\ IsRegistry(reg)
      /\ phase[y] = "sources"
      /\ \A z \in Replicas \ {y} : phase[z] = "idle"
      /\ \A s \in HeldSources : writes[s] = Unwritten
      /\ phase' = [phase EXCEPT ![y] = "find_sources"]
      /\ sourceWrites' = [sourceWrites EXCEPT ![y] = writes]
      /\ UNCHANGED <<rows, orgWrites, found, admin>>
    BY RegistryTypes DEF RegistryInv, UpsertSources, SyncAlone
<1>2. writes \in [Sources -> SourceRows \cup {Unwritten}]
    BY <1>1, RowTypes DEF SourceUpserts
<1>3. TypeOK'
    BY <1>1, <1>2 DEF TypeOK, Phases, rows, admin
<1>4. /\ phase'[y] = "find_sources" /\ orgWrites'[y] = orgWrites[y]
      /\ sourceWrites'[y] = writes
      /\ \A z \in Replicas \ {y} : /\ phase'[z] = phase[z]
                                   /\ orgWrites'[z] = orgWrites[z]
                                   /\ sourceWrites'[z] = sourceWrites[z]
    BY <1>1 DEF TypeOK
<1>5. ASSUME NEW s \in DOMAIN reg
      PROVE  SourceSeen(y, s)' = RowOf(reg[s])
    <2>1. s \in Sources /\ RowOf(reg[s]) # Unwritten
        <3>1. IsRegistry(reg)
            BY <1>1
        <3>2. s \in Sources /\ RowOf(reg[s]) \in SourceRows
            BY <3>1, RowTypes
        <3>3. QED
            BY <3>2, NoRows
    <2>2. writes[s] = IF source[s] # RowOf(reg[s]) THEN RowOf(reg[s]) ELSE Unwritten
        BY <2>1 DEF SourceUpserts
    <2>3. source'[s] = source[s]
        BY <1>1 DEF rows
    <2>4. QED
        BY <1>4, <2>1, <2>2, <2>3 DEF SourceSeen
<1>6. \A s \in Sources : writes[s] # Unwritten => s \in DOMAIN reg /\ writes[s] = RowOf(reg[s])
    BY DEF SourceUpserts
<1>7. \A o \in RegistryOrgs(reg) : OrgSeen(y, o)' = OrgRowOf(reg, o)
    BY <1>1, <1>4 DEF SyncOK, OrgSeen, rows
<1> HIDE DEF writes
<1>8. SyncOK(y)'
    BY <1>4, <1>5, <1>6, <1>7 DEF SyncOK, Settled, WriteOK
<1>9. \A o \in HeldOrganizations : o \in Organizations => orgWrites'[y][o] = Unwritten
    BY <1>1, <1>4, OnlyWriter DEF RegistryInv, LocksApart
<1>10. QED
    BY <1>1, <1>3, <1>4, <1>8, <1>9, SyncFrame

LEMMA FindSourcesStep ==
    ASSUME RegistryInv, NEW y \in Replicas, FindSources(y)
    PROVE  RegistryInv'
<1> DEFINE reg == RegistryOf[y]
           hits == {s \in Sources \ (managed \cup DOMAIN reg) : source[s] # NoRow /\ source[s].active}
<1>1. /\ TypeOK /\ SyncOK(y) /\ phase[y] = "find_sources"
      /\ \A z \in Replicas \ {y} : phase[z] = "idle"
      /\ found' = [found EXCEPT ![y] = hits]
      /\ phase' = [phase EXCEPT ![y] = "deactivate_sources"]
      /\ UNCHANGED <<rows, orgWrites, sourceWrites, admin>>
    BY DEF RegistryInv, FindSources, SyncAlone
<1>2. TypeOK'
    BY <1>1 DEF TypeOK, Phases, rows, admin
<1>3. /\ phase'[y] = "deactivate_sources" /\ found'[y] = hits
      /\ \A z \in Replicas \ {y} : phase'[z] = phase[z]
    BY <1>1 DEF TypeOK
<1>4. /\ \A s \in DOMAIN reg \ managed : SourceSeen(y, s)' = RowOf(reg[s])
      /\ \A o \in RegistryOrgs(reg) : OrgSeen(y, o)' = OrgRowOf(reg, o)
    BY <1>1 DEF SyncOK, Settled, Phases, SourceSeen, OrgSeen, rows
<1>5. \A s \in Sources \ (managed \cup DOMAIN reg) :
          source[s] # NoRow /\ source[s].active => s \in hits
    OBVIOUS
<1>6. WriteOK(y, reg)'
    BY <1>1 DEF SyncOK, WriteOK, rows
<1>7. hits \subseteq {s \in Sources \ DOMAIN reg : source[s] # NoRow}
    OBVIOUS
<1>8. UNCHANGED <<managed, source>>
    BY <1>1 DEF rows
<1> HIDE DEF hits
<1>9. SyncOK(y)'
    BY <1>3, <1>4, <1>5, <1>6, <1>7, <1>8 DEF SyncOK, Settled
<1>10. /\ \A s \in HeldSources : s \in Sources => sourceWrites'[y][s] = Unwritten
       /\ \A o \in HeldOrganizations : o \in Organizations => orgWrites'[y][o] = Unwritten
    BY <1>1, OnlyWriter DEF RegistryInv, LocksApart
<1>11. QED
    BY <1>1, <1>2, <1>3, <1>9, <1>10, SyncFrame

LEMMA DeactivateSourcesStep ==
    ASSUME RegistryInv, NEW y \in Replicas, DeactivateSources(y)
    PROVE  RegistryInv'
<1> DEFINE reg == RegistryOf[y]
           writes == [s \in Sources |->
               IF s \in found[y] /\ source[s].active THEN [source[s] EXCEPT !.active = FALSE]
                                                     ELSE sourceWrites[y][s]]
<1>1. /\ TypeOK /\ SyncOK(y) /\ phase[y] = "deactivate_sources"
      /\ \A z \in Replicas \ {y} : phase[z] = "idle"
      /\ found[y] \cap (HeldSources \cup WrittenSources) = {}
      /\ sourceWrites' = [sourceWrites EXCEPT ![y] = writes]
      /\ phase' = [phase EXCEPT ![y] = "find_organizations"]
      /\ found' = [found EXCEPT ![y] = {}]
      /\ UNCHANGED <<rows, orgWrites, admin>>
    BY DEF RegistryInv, DeactivateSources, SyncAlone
<1>2. ASSUME NEW s \in Sources, s \in found[y]
      PROVE  /\ s \notin DOMAIN reg /\ source[s] \in SourceRows
             /\ sourceWrites[y][s] = Unwritten
    BY <1>1, <1>2, OnlyWriter, SyncTypes DEF SyncOK
<1>3. ASSUME NEW x \in SourceRows
      PROVE  /\ [x EXCEPT !.active = FALSE] \in SourceRows
             /\ [x EXCEPT !.active = FALSE].active = FALSE
    BY DEF SourceRows
<1>4. ASSUME NEW s \in Sources PROVE writes[s] \in SourceRows \cup {Unwritten}
    BY <1>1, <1>2, <1>3, SyncTypes
<1>5. TypeOK'
    <2>1. writes \in [Sources -> SourceRows \cup {Unwritten}]
        BY <1>4
    <2>2. QED
        BY <1>1, <2>1 DEF TypeOK, Phases, rows, admin
<1>6. /\ phase'[y] = "find_organizations" /\ sourceWrites'[y] = writes
      /\ orgWrites'[y] = orgWrites[y]
      /\ \A z \in Replicas \ {y} : /\ phase'[z] = phase[z]
                                   /\ orgWrites'[z] = orgWrites[z]
                                   /\ sourceWrites'[z] = sourceWrites[z]
      /\ UNCHANGED <<managed, source, organization>>
    BY <1>1 DEF TypeOK, rows
<1>7. ASSUME NEW s \in Sources, s \notin found[y] \/ ~source[s].active
      PROVE  writes[s] = sourceWrites[y][s]
    BY <1>7
<1>8. ASSUME NEW s \in Sources, s \in found[y], source[s].active
      PROVE  writes[s] = [source[s] EXCEPT !.active = FALSE]
    BY <1>8
<1> HIDE DEF writes
<1>9. \A s \in DOMAIN reg \ managed : SourceSeen(y, s)' = RowOf(reg[s])
    <2> SUFFICES ASSUME NEW s \in DOMAIN reg \ managed PROVE SourceSeen(y, s)' = RowOf(reg[s])
        OBVIOUS
    <2>1. s \in Sources
        BY RegistryTypes, RowTypes
    <2>2. sourceWrites'[y][s] = sourceWrites[y][s]
        BY <1>2, <1>6, <1>7, <2>1
    <2>3. SourceSeen(y, s) = RowOf(reg[s])
        BY <1>1 DEF SyncOK, Settled, Phases
    <2>4. QED
        BY <1>6, <2>2, <2>3 DEF SourceSeen
<1>10. ASSUME NEW s \in Sources \ (managed \cup DOMAIN reg), SourceSeen(y, s)' # NoRow
       PROVE  ~SourceSeen(y, s)'.active
    <2>1. CASE s \in found[y] /\ source[s].active
        <3>1. sourceWrites'[y][s] = [source[s] EXCEPT !.active = FALSE]
            BY <1>6, <1>8, <2>1
        <3>2. /\ [source[s] EXCEPT !.active = FALSE] # Unwritten
              /\ [source[s] EXCEPT !.active = FALSE].active = FALSE
            BY <1>2, <1>3, <2>1, NoRows
        <3>3. QED
            BY <3>1, <3>2 DEF SourceSeen
    <2>2. CASE ~(s \in found[y] /\ source[s].active)
        <3>1. sourceWrites'[y][s] = sourceWrites[y][s] /\ source'[s] = source[s]
            BY <1>6, <1>7, <2>2
        <3>2. CASE sourceWrites[y][s] = Unwritten
            BY <1>1, <1>10, <2>2, <3>1, <3>2 DEF SyncOK, Settled, SourceSeen
        <3>3. CASE sourceWrites[y][s] # Unwritten
            <4>1. source[s] # NoRow /\ sourceWrites[y][s] = [source[s] EXCEPT !.active = FALSE]
                BY <1>1, <1>10, <3>3 DEF SyncOK, WriteOK
            <4>2. source[s] \in SourceRows
                BY <1>1, <4>1, SyncTypes
            <4>3. QED
                BY <1>3, <3>1, <3>3, <4>1, <4>2 DEF SourceSeen
        <3>4. QED
            BY <3>2, <3>3
    <2>3. QED
        BY <2>1, <2>2
<1>11. WriteOK(y, reg)'
    <2> SUFFICES ASSUME NEW s \in Sources, writes[s] # Unwritten
                 PROVE  \/ s \in DOMAIN reg /\ writes[s] = RowOf(reg[s])
                        \/ /\ s \notin DOMAIN reg /\ source[s] # NoRow
                           /\ writes[s] = [source[s] EXCEPT !.active = FALSE]
        BY <1>6 DEF WriteOK
    <2>1. CASE s \in found[y] /\ source[s].active
        BY <1>2, <1>8, <2>1, NoRows
    <2>2. CASE ~(s \in found[y] /\ source[s].active)
        BY <1>1, <1>7, <2>2 DEF SyncOK, WriteOK
    <2>3. QED
        BY <2>1, <2>2
<1>12. \A o \in RegistryOrgs(reg) : OrgSeen(y, o)' = OrgRowOf(reg, o)
    BY <1>1, <1>6 DEF SyncOK, OrgSeen
<1>13. SyncOK(y)'
    BY <1>6, <1>9, <1>10, <1>11, <1>12 DEF SyncOK, Settled
<1>14. /\ \A s \in HeldSources : s \in Sources => sourceWrites'[y][s] = Unwritten
       /\ \A o \in HeldOrganizations : o \in Organizations => orgWrites'[y][o] = Unwritten
    BY <1>1, <1>6, <1>7, OnlyWriter DEF RegistryInv, LocksApart
<1>15. QED
    BY <1>1, <1>5, <1>6, <1>13, <1>14, SyncFrame

LEMMA FindOrganizationsStep ==
    ASSUME RegistryInv, NEW y \in Replicas, FindOrganizations(y)
    PROVE  RegistryInv'
<1> DEFINE reg == RegistryOf[y]
           hits == {o \in Organizations \ RegistryOrgs(reg) :
                       /\ organization[o] # NoRow /\ organization[o].active
                       /\ \A s \in managed : SourceSeen(y, s).org # o}
<1>1. /\ TypeOK /\ SyncOK(y) /\ phase[y] = "find_organizations"
      /\ \A z \in Replicas \ {y} : phase[z] = "idle"
      /\ found' = [found EXCEPT ![y] = hits]
      /\ phase' = [phase EXCEPT ![y] = "deactivate_organizations"]
      /\ UNCHANGED <<rows, orgWrites, sourceWrites, admin>>
    BY DEF RegistryInv, FindOrganizations, SyncAlone
<1>2. hits \subseteq {o \in Organizations \ RegistryOrgs(reg) : organization[o] # NoRow}
    OBVIOUS
<1> HIDE DEF hits
<1>3. TypeOK'
    BY <1>1, <1>2 DEF TypeOK, Phases, rows, admin
<1>4. /\ phase'[y] = "deactivate_organizations" /\ found'[y] = hits
      /\ \A z \in Replicas \ {y} : phase'[z] = phase[z]
      /\ UNCHANGED <<managed, source, organization>>
    BY <1>1 DEF TypeOK, rows
<1>5. SyncOK(y)'
    BY <1>1, <1>2, <1>4 DEF SyncOK, Settled, WriteOK, Phases, SourceSeen, OrgSeen
<1>6. /\ \A s \in HeldSources : s \in Sources => sourceWrites'[y][s] = Unwritten
      /\ \A o \in HeldOrganizations : o \in Organizations => orgWrites'[y][o] = Unwritten
    BY <1>1, OnlyWriter DEF RegistryInv, LocksApart
<1>7. QED
    BY <1>1, <1>3, <1>4, <1>5, <1>6, SyncFrame

LEMMA DeactivateOrganizationsStep ==
    ASSUME RegistryInv, NEW y \in Replicas, DeactivateOrganizations(y)
    PROVE  RegistryInv'
<1> DEFINE reg == RegistryOf[y]
           writes == [o \in Organizations |->
               IF o \in found[y] /\ organization[o].active
                 THEN [organization[o] EXCEPT !.active = FALSE] ELSE orgWrites[y][o]]
<1>1. /\ TypeOK /\ SyncOK(y) /\ phase[y] = "deactivate_organizations"
      /\ \A z \in Replicas \ {y} : phase[z] = "idle"
      /\ found[y] \cap (HeldOrganizations \cup WrittenOrganizations) = {}
      /\ orgWrites' = [orgWrites EXCEPT ![y] = writes]
      /\ phase' = [phase EXCEPT ![y] = "commit"]
      /\ found' = [found EXCEPT ![y] = {}]
      /\ UNCHANGED <<rows, sourceWrites, admin>>
    BY DEF RegistryInv, DeactivateOrganizations, SyncAlone
<1>2. ASSUME NEW o \in Organizations PROVE writes[o] \in OrgRows \cup {Unwritten}
    <2>1. CASE o \in found[y]
        <3>1. organization[o] \in OrgRows
            BY <1>1, <2>1, SyncTypes DEF SyncOK
        <3>2. [organization[o] EXCEPT !.active = FALSE] \in OrgRows
            BY <3>1 DEF OrgRows
        <3>3. QED
            BY <1>1, <3>2, SyncTypes
    <2>2. CASE o \notin found[y]
        BY <1>1, <2>2, SyncTypes
    <2>3. QED
        BY <2>1, <2>2
<1>3. TypeOK'
    <2>1. writes \in [Organizations -> OrgRows \cup {Unwritten}]
        BY <1>2
    <2>2. QED
        BY <1>1, <2>1 DEF TypeOK, Phases, rows, admin
<1>4. \A o \in Organizations : o \notin found[y] => writes[o] = orgWrites[y][o]
    OBVIOUS
<1> HIDE DEF writes
<1>5. /\ phase'[y] = "commit" /\ orgWrites'[y] = writes /\ sourceWrites'[y] = sourceWrites[y]
      /\ \A z \in Replicas \ {y} : /\ phase'[z] = phase[z]
                                   /\ orgWrites'[z] = orgWrites[z]
                                   /\ sourceWrites'[z] = sourceWrites[z]
      /\ UNCHANGED <<managed, source, organization>>
    BY <1>1 DEF TypeOK, rows
<1>6. \A o \in RegistryOrgs(reg) : OrgSeen(y, o)' = OrgRowOf(reg, o)
    <2> SUFFICES ASSUME NEW o \in RegistryOrgs(reg) PROVE OrgSeen(y, o)' = OrgRowOf(reg, o)
        OBVIOUS
    <2>1. o \in Organizations /\ o \notin found[y]
        BY <1>1, RegistryTypes, RowTypes DEF SyncOK
    <2>2. QED
        BY <1>1, <1>4, <1>5, <2>1 DEF SyncOK, OrgSeen
<1>7. SyncOK(y)'
    BY <1>1, <1>5, <1>6 DEF SyncOK, Settled, WriteOK, Phases, SourceSeen
<1>8. /\ \A s \in HeldSources : s \in Sources => sourceWrites'[y][s] = Unwritten
      /\ \A o \in HeldOrganizations : o \in Organizations => orgWrites'[y][o] = Unwritten
    BY <1>1, <1>4, <1>5, OnlyWriter DEF RegistryInv, LocksApart
<1>9. QED
    BY <1>1, <1>3, <1>5, <1>7, <1>8, SyncFrame

\* After the end of a synchronisation no replica has written anything.
LEMMA Ended ==
    ASSUME RegistryInv, NEW y \in Replicas, phase[y] # "idle", EndSync(y)
    PROVE  /\ \A z \in Replicas : phase'[z] = "idle" /\ SyncOK(z)'
           /\ SyncAlone'
           /\ WrittenSources' = {} /\ WrittenOrganizations' = {}
           /\ phase' \in [Replicas -> Phases]
           /\ orgWrites' \in [Replicas -> [Organizations -> OrgRows \cup {Unwritten}]]
           /\ sourceWrites' \in [Replicas -> [Sources -> SourceRows \cup {Unwritten}]]
           /\ found' \in [Replicas -> SUBSET (Sources \cup Organizations)]
<1>1. /\ TypeOK
      /\ \A z \in Replicas \ {y} : /\ phase[z] = "idle"
                                   /\ orgWrites[z] = NoOrgWrites
                                   /\ sourceWrites[z] = NoSourceWrites
    BY DEF RegistryInv, SyncOK, SyncAlone
<1>2. /\ phase' \in [Replicas -> Phases]
      /\ orgWrites' \in [Replicas -> [Organizations -> OrgRows \cup {Unwritten}]]
      /\ sourceWrites' \in [Replicas -> [Sources -> SourceRows \cup {Unwritten}]]
      /\ found' \in [Replicas -> SUBSET (Sources \cup Organizations)]
    BY <1>1 DEF EndSync, TypeOK, Phases, NoOrgWrites, NoSourceWrites
<1>3. \A z \in Replicas : /\ phase'[z] = "idle"
                           /\ orgWrites'[z] = NoOrgWrites
                           /\ sourceWrites'[z] = NoSourceWrites
    BY <1>1 DEF EndSync, TypeOK
<1>4. \A z \in Replicas : SyncOK(z)'
    BY <1>3 DEF SyncOK, Settled, WriteOK, NoOrgWrites, NoSourceWrites
<1>5. WrittenSources' = {} /\ WrittenOrganizations' = {}
    BY <1>3 DEF WrittenSources, WrittenOrganizations, NoOrgWrites, NoSourceWrites
<1>6. QED
    BY <1>2, <1>3, <1>4, <1>5 DEF SyncAlone

LEMMA RollbackSyncStep ==
    ASSUME RegistryInv, NEW y \in Replicas, RollbackSync(y)
    PROVE  RegistryInv'
<1>1. phase[y] # "idle" /\ EndSync(y) /\ UNCHANGED <<rows, admin>>
    BY DEF RollbackSync
<1>2. TypeOK'
    BY <1>1, Ended DEF RegistryInv, TypeOK, rows, admin
<1>3. (\A a \in Admins : AdminOK(a))' /\ AdminsApart'
    BY <1>1 DEF RegistryInv, AdminOK, AdminsApart, OrgUsable, rows, admin
<1>4. LocksApart' /\ SyncAlone' /\ \A z \in Replicas : SyncOK(z)'
    BY <1>1, Ended DEF LocksApart
<1>5. ActiveIsAuthorized' /\ RegistrySourcesServable'
    BY <1>1 DEF RegistryInv, ActiveIsAuthorized, RegistrySourcesServable, rows
<1>6. QED
    BY <1>2, <1>3, <1>4, <1>5 DEF RegistryInv

\* A source that a request creates is written by no synchronisation.
LEMMA CreatedUnwritten ==
    ASSUME RegistryInv, NEW y \in Replicas, NEW a \in Admins, request[a] = "creating"
    PROVE  /\ edit[a].source \in Sources
           /\ sourceWrites[y][edit[a].source] = Unwritten
<1>1. edit[a].source \in ManagedIds /\ edit[a].source \in Sources
      /\ source[edit[a].source] = NoRow
    BY DEF RegistryInv, AdminOK, Edits
<1>2. edit[a].source \notin DOMAIN RegistryOf[y]
    BY <1>1, RegistryTypes, RowTypes
<1>3. QED
    BY <1>1, <1>2 DEF RegistryInv, SyncOK, WriteOK

\* The row that a request has locked is written by no synchronisation.
LEMMA HeldUnwritten ==
    ASSUME RegistryInv, NEW y \in Replicas, NEW a \in Admins
    PROVE  /\ request[a] \in {"editing", "saving"} =>
                 edit[a].source \in Sources /\ sourceWrites[y][edit[a].source] = Unwritten
           /\ request[a] \in {"creating", "saving"} =>
                 edit[a].org \in Organizations /\ orgWrites[y][edit[a].org] = Unwritten
<1>1. request[a] # "idle" => edit[a].source \in Sources /\ edit[a].org \in Organizations
    BY DEF RegistryInv, AdminOK, Edits
<1>2. /\ request[a] \in {"editing", "saving"} => edit[a].source \in HeldSources
      /\ request[a] \in {"creating", "saving"} => edit[a].org \in HeldOrganizations
    BY DEF HeldSources, HeldOrganizations
<1>3. QED
    BY <1>1, <1>2 DEF RegistryInv, LocksApart, WrittenSources, WrittenOrganizations

LEMMA CommitSyncStep ==
    ASSUME RegistryInv, NEW y \in Replicas, CommitSync(y)
    PROVE  RegistryInv'
<1> DEFINE reg == RegistryOf[y]
<1>1. /\ TypeOK /\ SyncOK(y) /\ phase[y] = "commit"
      /\ \A o \in Organizations : organization'[o] = OrgSeen(y, o)
      /\ \A s \in Sources : source'[s] = SourceSeen(y, s)
      /\ synced' = reg
      /\ EndSync(y)
      /\ UNCHANGED <<managed, admin>>
    BY DEF RegistryInv, CommitSync
<1>2. IsRegistry(reg) /\ reg \in Registries
    BY RegistryTypes
<1>3. TypeOK'
    <2>1. /\ organization' \in [Organizations -> OrgRows \cup {NoRow}]
          /\ source' \in [Sources -> SourceRows \cup {NoRow}]
        BY <1>1, SyncTypes DEF CommitSync
    <2>2. QED
        BY <1>1, <1>2, <2>1, Ended DEF TypeOK, admin
<1>4. ASSUME NEW a \in Admins PROVE AdminOK(a)'
    <2>1. request'[a] = request[a] /\ edit'[a] = edit[a] /\ AdminOK(a)
        BY <1>1 DEF admin, RegistryInv
    <2>2. CASE request[a] = "creating"
        <3>1. source'[edit[a].source] = source[edit[a].source]
            BY <1>1, <2>2, CreatedUnwritten DEF SourceSeen
        <3>2. organization'[edit[a].org] = organization[edit[a].org]
            BY <1>1, <2>2, HeldUnwritten DEF OrgSeen
        <3>3. QED
            BY <2>1, <3>1, <3>2 DEF AdminOK, OrgUsable
    <2>3. CASE request[a] \in {"editing", "saving"}
        <3>1. source'[edit[a].source] = source[edit[a].source]
            BY <1>1, <2>3, HeldUnwritten DEF SourceSeen
        <3>2. request[a] = "saving" => organization'[edit[a].org] = organization[edit[a].org]
            BY <1>1, HeldUnwritten DEF OrgSeen
        <3>3. QED
            BY <2>1, <2>3, <3>1, <3>2 DEF AdminOK, OrgUsable
    <2>4. CASE request[a] = "idle"
        BY <2>1, <2>4 DEF AdminOK
    <2>5. QED
        BY <1>1, <2>2, <2>3, <2>4 DEF TypeOK
<1>5. AdminsApart'
    BY <1>1 DEF RegistryInv, AdminsApart, admin
<1>6. LocksApart' /\ SyncAlone' /\ \A z \in Replicas : SyncOK(z)'
    BY <1>1, Ended DEF LocksApart
<1>7. ASSUME NEW s \in Sources \ managed, source'[s] # NoRow, source'[s].active
      PROVE  /\ s \in DOMAIN reg /\ reg[s].eligible
             /\ organization'[source'[s].org] = [official |-> TRUE, active |-> TRUE]
    <2>1. /\ Settled(y, reg) /\ source'[s] = SourceSeen(y, s)
          /\ \A o \in RegistryOrgs(reg) : OrgSeen(y, o) = OrgRowOf(reg, o)
        BY <1>1, <1>7 DEF SyncOK
    <2>2. s \in DOMAIN reg /\ source'[s] = RowOf(reg[s])
        BY <1>1, <1>7, <2>1 DEF Settled, Phases
    <2>3. /\ reg[s].org \in RegistryOrgs(reg) /\ reg[s].org \in Organizations
          /\ OrgRowOf(reg, reg[s].org) = [official |-> reg[s].official, active |-> reg[s].official]
          /\ RowOf(reg[s]).org = reg[s].org
          /\ RowOf(reg[s]).active => reg[s].eligible /\ reg[s].official
        BY <1>2, <2>2, RowTypes
    <2>4. reg[s].official \in BOOLEAN
        BY <1>2, <2>2 DEF IsRegistry, Entries
    <2>5. reg[s].eligible /\ reg[s].official = TRUE
        BY <1>7, <2>2, <2>3, <2>4
    <2>6. organization'[reg[s].org] = [official |-> TRUE, active |-> TRUE]
        BY <1>1, <2>1, <2>3, <2>5
    <2>7. QED
        BY <2>2, <2>3, <2>5, <2>6
<1>8. ActiveIsAuthorized' /\ RegistrySourcesServable'
    BY <1>1, <1>7 DEF ActiveIsAuthorized, RegistrySourcesServable
<1>9. QED
    BY <1>3, <1>4, <1>5, <1>6, <1>8 DEF RegistryInv

-----------------------------------------------------------------------------
(* Administrators.                                                         *)

\* A step of a request that changes no row preserves what is said of the others.
LEMMA AdminFrame ==
    ASSUME RegistryInv, UNCHANGED <<rows, sync>>,
           TypeOK', \A a \in Admins : AdminOK(a)', AdminsApart', LocksApart'
    PROVE  RegistryInv'
<1>1. ASSUME NEW y \in Replicas PROVE SyncOK(y)'
    BY DEF RegistryInv, SyncOK, Settled, WriteOK, SourceSeen, OrgSeen, rows, sync
<1>2. SyncAlone' /\ ActiveIsAuthorized' /\ RegistrySourcesServable'
    BY DEF RegistryInv, SyncAlone, ActiveIsAuthorized, RegistrySourcesServable, rows, sync
<1>3. QED
    BY <1>1, <1>2 DEF RegistryInv

LEMMA WrittenUnchanged ==
    ASSUME UNCHANGED sync
    PROVE  WrittenSources' = WrittenSources /\ WrittenOrganizations' = WrittenOrganizations
<1>1. QED
    BY DEF WrittenSources, WrittenOrganizations, sync

LEMMA BeginCreateStep ==
    ASSUME RegistryInv, NEW a \in Admins, NEW e \in Edits, BeginCreate(a, e)
    PROVE  RegistryInv'
<1>1. /\ TypeOK /\ request[a] = "idle"
      /\ e.source \in ManagedIds /\ source[e.source] = NoRow /\ OrgUsable(e.org)
      /\ \A b \in Admins : request[b] # "idle" => edit[b].source # e.source
      /\ e.org \notin HeldOrganizations \cup WrittenOrganizations
      /\ request' = [request EXCEPT ![a] = "creating"]
      /\ edit' = [edit EXCEPT ![a] = e]
      /\ UNCHANGED <<rows, sync>>
    BY DEF RegistryInv, BeginCreate
<1>2. /\ request'[a] = "creating" /\ edit'[a] = e
      /\ \A b \in Admins \ {a} : request'[b] = request[b] /\ edit'[b] = edit[b]
      /\ UNCHANGED <<source, organization>>
    BY <1>1 DEF TypeOK, rows
<1>3. TypeOK'
    BY <1>1 DEF TypeOK, rows, sync
<1>4. \A b \in Admins : AdminOK(b)'
    BY <1>1, <1>2 DEF RegistryInv, AdminOK, OrgUsable
<1>5. \A b \in Admins : request[b] \in {"creating", "saving"} => edit[b].org # e.org
    BY <1>1 DEF HeldOrganizations
<1>6. AdminsApart'
    <2> SUFFICES ASSUME NEW b \in Admins, NEW c \in Admins, b # c,
                        request'[b] # "idle", request'[c] # "idle"
                 PROVE  /\ edit'[b].source # edit'[c].source
                        /\ request'[b] # "editing" /\ request'[c] # "editing" =>
                              edit'[b].org # edit'[c].org
        BY DEF AdminsApart
    <2>1. CASE b # a /\ c # a
        BY <1>2, <2>1 DEF RegistryInv, AdminsApart
    <2>2. CASE b = a \/ c = a
        BY <1>1, <1>2, <1>5, <2>2 DEF TypeOK
    <2>3. QED
        BY <2>1, <2>2
<1>7. /\ HeldSources' \subseteq HeldSources
      /\ HeldOrganizations' \subseteq HeldOrganizations \cup {e.org}
    BY <1>2 DEF HeldSources, HeldOrganizations
<1>8. LocksApart'
    BY <1>1, <1>7, WrittenUnchanged DEF RegistryInv, LocksApart
<1>9. QED
    BY <1>1, <1>3, <1>4, <1>6, <1>8, AdminFrame

LEMMA BeginEditStep ==
    ASSUME RegistryInv, NEW a \in Admins, NEW e \in Edits, BeginEdit(a, e)
    PROVE  RegistryInv'
<1>1. /\ TypeOK /\ request[a] = "idle"
      /\ source[e.source] # NoRow
      /\ e.source \notin HeldSources \cup WrittenSources
      /\ request' = [request EXCEPT ![a] = "editing"]
      /\ edit' = [edit EXCEPT ![a] = e]
      /\ UNCHANGED <<rows, sync>>
    BY DEF RegistryInv, BeginEdit
<1>2. /\ request'[a] = "editing" /\ edit'[a] = e
      /\ \A b \in Admins \ {a} : request'[b] = request[b] /\ edit'[b] = edit[b]
      /\ UNCHANGED <<source, organization>>
    BY <1>1 DEF TypeOK, rows
<1>3. TypeOK'
    BY <1>1 DEF TypeOK, rows, sync
<1>4. \A b \in Admins : AdminOK(b)'
    BY <1>1, <1>2 DEF RegistryInv, AdminOK, OrgUsable
<1>5. ASSUME NEW b \in Admins, request[b] # "idle" PROVE edit[b].source # e.source
    <2>1. CASE request[b] = "creating"
        BY <1>1, <2>1 DEF RegistryInv, AdminOK
    <2>2. CASE request[b] \in {"editing", "saving"}
        BY <1>1, <2>2 DEF HeldSources
    <2>3. QED
        BY <1>1, <1>5, <2>1, <2>2 DEF TypeOK
<1>6. AdminsApart'
    BY <1>1, <1>2, <1>5 DEF RegistryInv, AdminsApart
<1>7. /\ HeldSources' \subseteq HeldSources \cup {e.source}
      /\ HeldOrganizations' \subseteq HeldOrganizations
    BY <1>2 DEF HeldSources, HeldOrganizations
<1>8. LocksApart'
    BY <1>1, <1>7, WrittenUnchanged DEF RegistryInv, LocksApart
<1>9. QED
    BY <1>1, <1>3, <1>4, <1>6, <1>8, AdminFrame

LEMMA LockOrganizationStep ==
    ASSUME RegistryInv, NEW a \in Admins, LockOrganization(a)
    PROVE  RegistryInv'
<1>1. /\ TypeOK /\ request[a] = "editing" /\ OrgUsable(edit[a].org)
      /\ edit[a].org \notin HeldOrganizations \cup WrittenOrganizations
      /\ request' = [request EXCEPT ![a] = "saving"]
      /\ UNCHANGED <<rows, sync, edit>>
    BY DEF RegistryInv, LockOrganization
<1>2. /\ request'[a] = "saving"
      /\ \A b \in Admins \ {a} : request'[b] = request[b]
      /\ UNCHANGED <<edit, source, organization>>
    BY <1>1 DEF TypeOK, rows
<1>3. TypeOK'
    BY <1>1 DEF TypeOK, rows, sync
<1>4. \A b \in Admins : AdminOK(b)'
    BY <1>1, <1>2 DEF RegistryInv, AdminOK, OrgUsable
<1>5. \A b \in Admins : request[b] \in {"creating", "saving"} => edit[b].org # edit[a].org
    BY <1>1 DEF HeldOrganizations
<1>6. AdminsApart'
    BY <1>1, <1>2, <1>5 DEF RegistryInv, AdminsApart, TypeOK
<1>7. /\ HeldSources' \subseteq HeldSources
      /\ HeldOrganizations' \subseteq HeldOrganizations \cup {edit[a].org}
    BY <1>1, <1>2 DEF HeldSources, HeldOrganizations
<1>8. LocksApart'
    BY <1>1, <1>7, WrittenUnchanged DEF RegistryInv, LocksApart
<1>9. QED
    BY <1>1, <1>3, <1>4, <1>6, <1>8, AdminFrame

\* The end of a request releases what it held.
LEMMA RequestEnds ==
    ASSUME RegistryInv, NEW a \in Admins, EndRequest(a), UNCHANGED sync
    PROVE  /\ request'[a] = "idle"
           /\ \A b \in Admins \ {a} : request'[b] = request[b] /\ edit'[b] = edit[b]
           /\ request' \in [Admins -> {"idle", "creating", "editing", "saving"}]
           /\ edit' \in [Admins -> Edits \cup {NoOne}]
           /\ AdminsApart' /\ LocksApart'
<1>1. /\ request'[a] = "idle"
      /\ \A b \in Admins \ {a} : request'[b] = request[b] /\ edit'[b] = edit[b]
      /\ request' \in [Admins -> {"idle", "creating", "editing", "saving"}]
      /\ edit' \in [Admins -> Edits \cup {NoOne}]
    BY DEF RegistryInv, TypeOK, EndRequest
<1>2. AdminsApart'
    BY <1>1 DEF RegistryInv, AdminsApart
<1>3. HeldSources' \subseteq HeldSources /\ HeldOrganizations' \subseteq HeldOrganizations
    BY <1>1 DEF HeldSources, HeldOrganizations
<1>4. LocksApart'
    BY <1>3, WrittenUnchanged DEF RegistryInv, LocksApart
<1>5. QED
    BY <1>1, <1>2, <1>4

LEMMA RollbackRequestStep ==
    ASSUME RegistryInv, NEW a \in Admins, RollbackRequest(a)
    PROVE  RegistryInv'
<1>1. EndRequest(a) /\ UNCHANGED <<rows, sync>>
    BY DEF RollbackRequest
<1>2. TypeOK'
    BY <1>1, RequestEnds DEF RegistryInv, TypeOK, rows, sync
<1>3. \A b \in Admins : AdminOK(b)'
    BY <1>1, RequestEnds DEF RegistryInv, AdminOK, OrgUsable, rows
<1>4. QED
    BY <1>1, <1>2, <1>3, RequestEnds, AdminFrame

\* A request stores its source and activates its organization.
LEMMA StoreStep ==
    ASSUME RegistryInv, NEW a \in Admins, request[a] \in {"creating", "saving"},
           NEW url \in Urls, NEW isVerified \in BOOLEAN, Store(a, url, isVerified)
    PROVE  RegistryInv'
<1> DEFINE s0 == edit[a].source
           o0 == edit[a].org
           row == [org |-> o0, url |-> url, active |-> edit[a].active, verified |-> isVerified]
           on == [official |-> TRUE, active |-> TRUE]
<1>1. /\ TypeOK /\ edit[a] \in Edits /\ s0 \in Sources /\ o0 \in Organizations
      /\ OrgUsable(o0)
    BY DEF RegistryInv, AdminOK, Edits
<1>2. /\ source' = [source EXCEPT ![s0] = row]
      /\ organization' = [organization EXCEPT ![o0] = on]
      /\ managed' = managed \cup {s0}
      /\ EndRequest(a)
      /\ UNCHANGED <<synced, sync>>
    BY DEF Store
<1>3. row \in SourceRows /\ on \in OrgRows
    BY <1>1 DEF SourceRows, OrgRows, Edits
<1>4. TypeOK'
    <2>1. /\ source' \in [Sources -> SourceRows \cup {NoRow}]
          /\ organization' \in [Organizations -> OrgRows \cup {NoRow}]
          /\ managed' \subseteq Sources
        BY <1>1, <1>2, <1>3 DEF TypeOK
    <2>2. QED
        BY <1>1, <1>2, <2>1, RequestEnds DEF TypeOK, sync
<1>5. /\ source'[s0] = row /\ source'[s0] # NoRow
      /\ \A s \in Sources \ {s0} : source'[s] = source[s]
      /\ organization'[o0] = on
      /\ \A o \in Organizations \ {o0} : organization'[o] = organization[o]
      /\ UNCHANGED <<phase, orgWrites, sourceWrites, found>>
    BY <1>1, <1>2, <1>3, NoRows DEF TypeOK, sync
<1> HIDE DEF row, s0, o0
<1>6. ASSUME NEW y \in Replicas
      PROVE  sourceWrites[y][s0] = Unwritten /\ orgWrites[y][o0] = Unwritten
    BY CreatedUnwritten, HeldUnwritten DEF s0, o0
<1>7. ASSUME NEW y \in Replicas PROVE SyncOK(y)'
    <2> DEFINE reg == RegistryOf[y]
    <2>1. SyncOK(y)
        BY DEF RegistryInv
    <2>2. ASSUME NEW o \in RegistryOrgs(reg), phase[y] # "idle"
          PROVE  OrgSeen(y, o)' = OrgRowOf(reg, o)
        <3>1. o \in Organizations /\ OrgRowOf(reg, o) # NoRow /\ OrgSeen(y, o) = OrgRowOf(reg, o)
            BY <2>1, <2>2, RegistryTypes, RowTypes, NoRows DEF SyncOK
        <3>2. CASE o = o0
            <4>1. organization[o0] = OrgRowOf(reg, o0)
                BY <1>6, <3>1, <3>2 DEF OrgSeen
            <4>2. organization[o0].official
                BY <1>1, <3>1, <3>2, <4>1 DEF OrgUsable
            <4>3. OrgRowOf(reg, o0) = on
                <5>1. OrgRowOf(reg, o0).official
                    BY <4>1, <4>2
                <5>2. QED
                    BY <5>1 DEF OrgRowOf
            <4>4. QED
                BY <1>5, <1>6, <3>2, <4>3 DEF OrgSeen
        <3>3. CASE o # o0
            BY <1>5, <3>1, <3>3 DEF OrgSeen
        <3>4. QED
            BY <3>2, <3>3
    <2>3. Settled(y, reg)'
        <3>1. \A s \in Sources \ {s0} : SourceSeen(y, s)' = SourceSeen(y, s)
            BY <1>5 DEF SourceSeen
        <3>2. DOMAIN reg \subseteq Sources
            BY RegistryTypes, RowTypes
        <3>3. QED
            BY <1>2, <1>5, <2>1, <3>1, <3>2 DEF SyncOK, Settled
    <2>4. WriteOK(y, reg)'
        BY <1>5, <1>6, <2>1 DEF SyncOK, WriteOK
    <2>5. /\ phase[y] = "deactivate_sources" =>
                found[y] \subseteq {s \in Sources \ DOMAIN reg : source'[s] # NoRow}
          /\ phase[y] = "deactivate_organizations" =>
                found[y] \subseteq {o \in Organizations \ RegistryOrgs(reg) : organization'[o] # NoRow}
        BY <1>3, <1>5, <2>1, NoRows DEF SyncOK
    <2>6. phase[y] = "idle" => orgWrites[y] = NoOrgWrites /\ sourceWrites[y] = NoSourceWrites
        BY <2>1 DEF SyncOK
    <2>7. QED
        BY <1>5, <2>2, <2>3, <2>4, <2>5, <2>6 DEF SyncOK, NoOrgWrites, NoSourceWrites
<1>8. ASSUME NEW b \in Admins PROVE AdminOK(b)'
    <2>1. CASE b = a
        BY <1>2, <2>1, RequestEnds DEF AdminOK
    <2>2. CASE b # a
        <3>1. request'[b] = request[b] /\ edit'[b] = edit[b] /\ AdminOK(b)
            BY <1>2, <2>2, RequestEnds DEF RegistryInv
        <3>2. request[b] # "idle" => edit[b].source \in Sources \ {s0}
            BY <2>2, <3>1 DEF RegistryInv, AdminsApart, AdminOK, Edits, s0
        <3>3. request[b] # "idle" /\ OrgUsable(edit[b].org) => OrgUsable(edit[b].org)'
            BY <1>5, <3>1 DEF OrgUsable, AdminOK, Edits
        <3>4. QED
            BY <1>5, <3>1, <3>2, <3>3 DEF AdminOK
    <2>3. QED
        BY <2>1, <2>2
<1>9. SyncAlone'
    BY <1>5 DEF RegistryInv, SyncAlone
<1>10. ActiveIsAuthorized'
    BY <1>2, <1>5 DEF RegistryInv, ActiveIsAuthorized
<1>11. RegistrySourcesServable'
    <2> SUFFICES ASSUME NEW s \in Sources \ managed', source'[s] # NoRow, source'[s].active
                 PROVE  organization'[source'[s].org] = on
        BY DEF RegistrySourcesServable
    <2>1. s # s0 /\ s \notin managed /\ source'[s] = source[s]
        BY <1>2, <1>5
    <2>2. organization[source[s].org] = on
        BY <2>1 DEF RegistryInv, RegistrySourcesServable
    <2>3. source[s].org \in Organizations
        BY <1>1, <2>1 DEF TypeOK, SourceRows
    <2>4. QED
        BY <1>5, <2>1, <2>2, <2>3
<1>12. QED
    BY <1>2, <1>4, <1>7, <1>8, <1>9, <1>10, <1>11, RequestEnds DEF RegistryInv

-----------------------------------------------------------------------------
(* The invariant and the properties.                                       *)

\* Every step of a synchronisation preserves the invariant.
LEMMA SynchronizeStep ==
    ASSUME RegistryInv, NEW y \in Replicas, Synchronize(y)
    PROVE  RegistryInv'
<1>1. CASE Start(y)
    BY <1>1, StartStep
<1>2. CASE UpsertSources(y)
    BY <1>2, UpsertSourcesStep
<1>3. CASE FindSources(y)
    BY <1>3, FindSourcesStep
<1>4. CASE DeactivateSources(y)
    BY <1>4, DeactivateSourcesStep
<1>5. CASE FindOrganizations(y)
    BY <1>5, FindOrganizationsStep
<1>6. CASE DeactivateOrganizations(y)
    BY <1>6, DeactivateOrganizationsStep
<1>7. CASE CommitSync(y)
    BY <1>7, CommitSyncStep
<1>8. CASE RollbackSync(y)
    BY <1>8, RollbackSyncStep
<1>9. QED
    BY <1>1, <1>2, <1>3, <1>4, <1>5, <1>6, <1>7, <1>8 DEF Synchronize

\* Every step of a request preserves the invariant.
LEMMA AdministerStep ==
    ASSUME RegistryInv, NEW a \in Admins, Administer(a)
    PROVE  RegistryInv'
<1>1. request[a] # "idle" => edit[a].url \in Urls
    BY DEF RegistryInv, AdminOK, Edits
<1>2. CASE \E e \in Edits : BeginCreate(a, e) \/ BeginEdit(a, e)
    BY <1>2, BeginCreateStep, BeginEditStep
<1>3. CASE LockOrganization(a)
    BY <1>3, LockOrganizationStep
<1>4. CASE SaveCreated(a)
    <2>1. request[a] = "creating" /\ Store(a, edit[a].url, TRUE)
        BY <1>4 DEF SaveCreated
    <2>2. QED
        BY <1>1, <2>1, StoreStep
<1>5. CASE SaveEdited(a)
    <2>1. request[a] = "saving" /\ Store(a, edit[a].url, TRUE)
        BY <1>5 DEF SaveEdited
    <2>2. QED
        BY <1>1, <2>1, StoreStep
<1>6. CASE RollbackRequest(a)
    BY <1>6, RollbackRequestStep
<1>7. QED
    BY <1>2, <1>3, <1>4, <1>5, <1>6 DEF Administer

LEMMA StutterStep ==
    ASSUME RegistryInv, UNCHANGED vars
    PROVE  RegistryInv'
<1>1. UNCHANGED <<rows, sync>> /\ UNCHANGED <<request, edit>>
    BY DEF vars, admin
<1>2. TypeOK'
    BY <1>1 DEF RegistryInv, TypeOK, rows, sync
<1>3. (\A a \in Admins : AdminOK(a)') /\ AdminsApart'
    BY <1>1 DEF RegistryInv, AdminOK, AdminsApart, OrgUsable, rows
<1>4. LocksApart'
    BY <1>1, WrittenUnchanged DEF RegistryInv, LocksApart, HeldSources, HeldOrganizations
<1>5. QED
    BY <1>1, <1>2, <1>3, <1>4, AdminFrame

LEMMA InitInv == Init => RegistryInv
<1> SUFFICES ASSUME Init PROVE RegistryInv
    OBVIOUS
<1>1. TypeOK
    BY DEF Init, TypeOK, Phases, NoOrgWrites, NoSourceWrites
<1>2. \A y \in Replicas : SyncOK(y)
    BY IdleOK DEF Init
<1>3. /\ \A a \in Admins : AdminOK(a)
      /\ SyncAlone /\ AdminsApart
    BY DEF Init, AdminOK, SyncAlone, AdminsApart
<1>4. LocksApart
    BY DEF Init, LocksApart, WrittenSources, WrittenOrganizations, NoOrgWrites, NoSourceWrites
<1>5. ActiveIsAuthorized /\ RegistrySourcesServable
    BY DEF Init, ActiveIsAuthorized, RegistrySourcesServable
<1>6. QED
    BY <1>1, <1>2, <1>3, <1>4, <1>5 DEF RegistryInv

LEMMA NextInv == RegistryInv /\ [Next]_vars => RegistryInv'
<1>1. QED
    BY SynchronizeStep, AdministerStep, StutterStep DEF Next

\* The inductive invariant: one synchronisation at a time, row locks that keep
\* requests and synchronisations apart, and what each of them has written so far.
THEOREM RegistryInvariant == Spec => []RegistryInv
<1>1. QED
    BY InitInv, NextInv, PTL DEF Spec

\* Rows, writes and requests keep their types.
THEOREM TypeCorrect == Spec => []TypeOK
<1>1. RegistryInv => TypeOK
    BY DEF RegistryInv
<1>2. QED
    BY <1>1, RegistryInvariant, PTL

\* synchronize leaves active, of what nobody manages, what its registry approves,
\* whatever replicas and administrators do meanwhile.
THEOREM ActiveSourcesAreAuthorized == Spec => []ActiveIsAuthorized
<1>1. RegistryInv => ActiveIsAuthorized
    BY DEF RegistryInv
<1>2. QED
    BY <1>1, RegistryInvariant, PTL

\* No active source that nobody manages hides behind an inactive organization.
THEOREM ActiveSourcesCanBeServed == Spec => []RegistrySourcesServable
<1>1. RegistryInv => RegistrySourcesServable
    BY DEF RegistryInv
<1>2. QED
    BY <1>1, RegistryInvariant, PTL

\* Of all steps only the commit of a synchronisation takes a source's verification.
LEMMA OnlyCommitsUnverify ==
    ASSUME RegistryInv, [Next]_vars, NEW s \in managed,
           source[s].verified, ~source'[s].verified
    PROVE  \E y \in Replicas : CommitSync(y)
<1>1. TypeOK
    BY DEF RegistryInv
<1>2. source' # source
    OBVIOUS
<1>3. ASSUME NEW a \in Admins, Administer(a) PROVE FALSE
    <2>1. SaveCreated(a) \/ SaveEdited(a)
        BY <1>2, <1>3 DEF Administer, BeginCreate, BeginEdit, LockOrganization,
                          RollbackRequest, rows
    <2>2. /\ source' = [source EXCEPT ![edit[a].source] =
                [org |-> edit[a].org, url |-> edit[a].url, active |-> edit[a].active,
                 verified |-> TRUE]]
        BY <2>1 DEF SaveCreated, SaveEdited, Store
    <2>3. source'[s].verified
        BY <1>1, <2>2 DEF TypeOK
    <2>4. QED
        BY <2>3
<1>4. ASSUME NEW y \in Replicas, Synchronize(y) PROVE CommitSync(y)
    BY <1>2, <1>4 DEF Synchronize, Start, Upsert, UpsertSources, FindSources,
                      DeactivateSources, FindOrganizations, DeactivateOrganizations,
                      RollbackSync, rows
<1>5. QED
    BY <1>2, <1>3, <1>4 DEF Next, vars, rows

\* A managed source loses its verification to a registry that lists it as not
\* eligible, and to nothing else.
THEOREM OnlyDemotionTakesVerification == Spec => OnlyDemotionUnverifies
<1>1. ASSUME RegistryInv, [Next]_vars, NEW s \in managed,
             source[s].verified, ~source'[s].verified
      PROVE  \E y \in Replicas :
                 /\ phase[y] = "commit"
                 /\ s \in DOMAIN RegistryOf[y] /\ ~RegistryOf[y][s].eligible
    <2>1. PICK y \in Replicas : CommitSync(y)
        BY <1>1, OnlyCommitsUnverify
    <2>2. /\ phase[y] = "commit" /\ s \in Sources /\ source'[s] = SourceSeen(y, s)
          /\ WriteOK(y, RegistryOf[y]) /\ TypeOK
        BY <1>1, <2>1 DEF CommitSync, RegistryInv, SyncOK, TypeOK
    <2>3. source'[s] # source[s]
        BY <1>1
    <2>4. sourceWrites[y][s] # Unwritten /\ source'[s] = sourceWrites[y][s]
        BY <2>2, <2>3 DEF SourceSeen
    <2>5. CASE s \in DOMAIN RegistryOf[y] /\ sourceWrites[y][s] = RowOf(RegistryOf[y][s])
        <3>1. RowOf(RegistryOf[y][s]).verified = RegistryOf[y][s].eligible
            BY <2>5, RegistryTypes, RowTypes
        <3>2. QED
            BY <1>1, <2>2, <2>4, <2>5, <3>1
    <2>6. CASE /\ source[s] # NoRow
               /\ sourceWrites[y][s] = [source[s] EXCEPT !.active = FALSE]
        <3>1. source[s] \in SourceRows
            BY <2>2, <2>6 DEF TypeOK
        <3>2. sourceWrites[y][s].verified = source[s].verified
            BY <2>6, <3>1 DEF SourceRows
        <3>3. QED
            BY <1>1, <2>4, <3>2
    <2>7. QED
        BY <2>2, <2>4, <2>5, <2>6 DEF WriteOK
<1>2. RegistryInv /\ [Next]_vars =>
          [\A s \in managed :
              source[s].verified /\ ~source'[s].verified =>
                  \E y \in Replicas :
                      /\ phase[y] = "commit"
                      /\ s \in DOMAIN RegistryOf[y] /\ ~RegistryOf[y][s].eligible]_vars
    BY <1>1
<1>3. QED
    BY <1>2, RegistryInvariant, PTL DEF Spec, OnlyDemotionUnverifies

=============================================================================
