--------------------------- MODULE SourceRegistry ---------------------------
(***************************************************************************)
(* The sources and their organizations: replicas synchronise the registry  *)
(* file they were deployed with, each time they start, and administrators  *)
(* create and edit managed sources meanwhile.                              *)
(*                                                                         *)
(* Every synchronisation and every request is one READ COMMITTED            *)
(* transaction of several statements.  A synchronisation keeps its writes   *)
(* in orgWrites and sourceWrites until it commits.  Its two UPDATEs that    *)
(* deactivate rows first find them and then wait for their row locks.       *)
(***************************************************************************)
EXTENDS Naturals

CONSTANTS
    Sources, Organizations, Urls,
    Replicas,      \* processes that synchronise: workers, scheduler, sync-registry
    Admins,        \* requests of administrators
    Registries,    \* the registry files that were ever deployed
    RegistryOf,    \* the registry of every replica
    ApiRegistry,   \* the registry of the API
    ManagedIds,    \* ids that create_managed_source draws
    NoRow, Unwritten, NoOne

\* production_eligible of an entry requires an approval, with its review
\* timestamp, and an official organization.  An entry that is not eligible
\* stands for a draft without review timestamp.
Entries == [org: Organizations, url: Urls, eligible: BOOLEAN, official: BOOLEAN]

\* SourceRegistry's validators: urls are unique, organizations consistent.
IsRegistry(reg) ==
    /\ DOMAIN reg \subseteq Sources \ ManagedIds
    /\ \A s \in DOMAIN reg :
          /\ reg[s] \in Entries
          /\ reg[s].eligible => reg[s].official
          /\ \A t \in DOMAIN reg :
                /\ reg[s].url = reg[t].url => s = t
                /\ reg[s].org = reg[t].org => reg[s].official = reg[t].official

OrgRows == [official: BOOLEAN, active: BOOLEAN]
SourceRows == [org: Organizations, url: Urls, active: BOOLEAN, verified: BOOLEAN]

ASSUME RegistryAssumption ==
    /\ ManagedIds \subseteq Sources
    /\ \A reg \in Registries : IsRegistry(reg)
    /\ RegistryOf \in [Replicas -> Registries]
    /\ ApiRegistry \in Registries
    /\ NoRow \notin OrgRows \cup SourceRows
    /\ Unwritten \notin OrgRows \cup SourceRows \cup {NoRow}

VARIABLES
    organization,   \* the rows of knowledge.source_organizations
    source,         \* the rows of knowledge.sources
    managed,        \* sources with a managed_source_configs row
    synced,         \* the registry that was synchronised last
    phase,          \* where every replica's synchronisation is
    orgWrites, sourceWrites,   \* what it has written
    found,          \* the rows its current statement has found
    request,        \* where every administrator's request is
    edit            \* what it writes

rows == <<organization, source, managed, synced>>
sync == <<phase, orgWrites, sourceWrites, found>>
admin == <<request, edit>>
vars == <<rows, sync, admin>>

Phases == {"idle", "sources", "find_sources", "deactivate_sources",
           "find_organizations", "deactivate_organizations", "commit"}

Edits == [source: Sources, org: Organizations, url: Urls, active: BOOLEAN]

NoOrgWrites == [o \in Organizations |-> Unwritten]
NoSourceWrites == [s \in Sources |-> Unwritten]

TypeOK ==
    /\ organization \in [Organizations -> OrgRows \cup {NoRow}]
    /\ source \in [Sources -> SourceRows \cup {NoRow}]
    /\ managed \subseteq Sources
    /\ synced \in Registries \cup {<<>>}
    /\ phase \in [Replicas -> Phases]
    /\ orgWrites \in [Replicas -> [Organizations -> OrgRows \cup {Unwritten}]]
    /\ sourceWrites \in [Replicas -> [Sources -> SourceRows \cup {Unwritten}]]
    /\ found \in [Replicas -> SUBSET (Sources \cup Organizations)]
    /\ request \in [Admins -> {"idle", "creating", "editing", "saving"}]
    /\ edit \in [Admins -> Edits \cup {NoOne}]

Init ==
    /\ organization = [o \in Organizations |-> NoRow]
    /\ source = [s \in Sources |-> NoRow]
    /\ managed = {}
    /\ synced = <<>>
    /\ phase = [y \in Replicas |-> "idle"]
    /\ orgWrites = [y \in Replicas |-> NoOrgWrites]
    /\ sourceWrites = [y \in Replicas |-> NoSourceWrites]
    /\ found = [y \in Replicas |-> {}]
    /\ request = [a \in Admins |-> "idle"]
    /\ edit = [a \in Admins |-> NoOne]

-----------------------------------------------------------------------------
(***************************************************************************)
(* Locks and visibility.                                                   *)
(***************************************************************************)
\* Rows that an administrator's request holds.
HeldSources ==
    {edit[a].source : a \in {b \in Admins : request[b] \in {"editing", "saving"}}}
HeldOrganizations ==
    {edit[a].org : a \in {b \in Admins : request[b] \in {"creating", "saving"}}}

\* Rows that a synchronisation has written.
WrittenSources == {s \in Sources : \E y \in Replicas : sourceWrites[y][s] # Unwritten}
WrittenOrganizations ==
    {o \in Organizations : \E y \in Replicas : orgWrites[y][o] # Unwritten}

\* What a statement of replica y sees: its own writes over the committed rows.
SourceSeen(y, s) == IF sourceWrites[y][s] = Unwritten THEN source[s] ELSE sourceWrites[y][s]

OrgSeen(y, o) == IF orgWrites[y][o] = Unwritten THEN organization[o] ELSE orgWrites[y][o]

UrlFree(u, s) == \A t \in Sources \ {s} : source[t] # NoRow => source[t].url # u

RegistryOrgs(reg) == {reg[s].org : s \in DOMAIN reg}

-----------------------------------------------------------------------------
(***************************************************************************)
(* synchronize, by replica y.                                              *)
(***************************************************************************)
\* Only an official organization is active.
OrgRowOf(reg, o) ==
    LET official == \A s \in DOMAIN reg : reg[s].org = o => reg[s].official
    IN [official |-> official, active |-> official]

\* Mutant: an organization that is listed again is not activated again.
OrgUpsertsOnce(reg) ==
    [o \in Organizations |->
        IF o \in RegistryOrgs(reg) /\ organization[o] = NoRow THEN OrgRowOf(reg, o)
                                                             ELSE Unwritten]

\* A row that already has the values of the registry is neither written nor locked.
OrgUpserts(reg) ==
    [o \in Organizations |->
        IF o \in RegistryOrgs(reg) /\ organization[o] # OrgRowOf(reg, o)
          THEN OrgRowOf(reg, o)
          ELSE Unwritten]

Upsert(y) ==
    LET writes == OrgUpserts(RegistryOf[y]) IN
    /\ phase[y] = "idle"
    /\ \A o \in HeldOrganizations : writes[o] = Unwritten
    /\ phase' = [phase EXCEPT ![y] = "sources"]
    /\ orgWrites' = [orgWrites EXCEPT ![y] = writes]
    /\ UNCHANGED <<rows, sourceWrites, found, admin>>

\* Mutant: no advisory lock is taken.
StartUnlocked(y) ==
    /\ \A o \in WrittenOrganizations : OrgUpserts(RegistryOf[y])[o] = Unwritten
    /\ Upsert(y)

\* acquire_sync_lock, then upsert_organization of every organization.
Start(y) ==
    /\ \A z \in Replicas : phase[z] = "idle"
    /\ Upsert(y)

\* Mutant: what the registry lists is active, eligible or not.
RowOfAnyEntry(entry) ==
    [org |-> entry.org, url |-> entry.url, active |-> TRUE, verified |-> entry.eligible]

RowOf(entry) ==
    [org |-> entry.org, url |-> entry.url,
     active |-> entry.eligible /\ entry.official, verified |-> entry.eligible]

SourceUpserts(reg) ==
    [s \in Sources |->
        IF s \in DOMAIN reg /\ source[s] # RowOf(reg[s]) THEN RowOf(reg[s]) ELSE Unwritten]

\* upsert_source of every source, unless one's url belongs to another row.
UpsertSources(y) ==
    LET reg == RegistryOf[y]
        writes == SourceUpserts(reg)
    IN /\ phase[y] = "sources"
       /\ \A s \in HeldSources : writes[s] = Unwritten
       /\ \A s \in DOMAIN reg : UrlFree(reg[s].url, s)
       /\ phase' = [phase EXCEPT ![y] = "find_sources"]
       /\ sourceWrites' = [sourceWrites EXCEPT ![y] = writes]
       /\ UNCHANGED <<rows, orgWrites, found, admin>>

\* deactivate_sources_except finds the active rows that nobody lists or manages.
FindSources(y) ==
    /\ phase[y] = "find_sources"
    /\ found' = [found EXCEPT ![y] =
           {s \in Sources \ (managed \cup DOMAIN RegistryOf[y]) :
                source[s] # NoRow /\ source[s].active}]
    /\ phase' = [phase EXCEPT ![y] = "deactivate_sources"]
    /\ UNCHANGED <<rows, orgWrites, sourceWrites, admin>>

\* It deactivates them as it gets their locks: rows changed meanwhile are read
\* again, the rows of other tables are not.
DeactivateSources(y) ==
    /\ phase[y] = "deactivate_sources"
    /\ found[y] \cap (HeldSources \cup WrittenSources) = {}
    /\ sourceWrites' = [sourceWrites EXCEPT ![y] = [s \in Sources |->
           IF s \in found[y] /\ source[s].active THEN [source[s] EXCEPT !.active = FALSE]
                                                 ELSE sourceWrites[y][s]]]
    /\ phase' = [phase EXCEPT ![y] = "find_organizations"]
    /\ found' = [found EXCEPT ![y] = {}]
    /\ UNCHANGED <<rows, orgWrites, admin>>

\* deactivate_organizations_except: those without a managed source.
FindOrganizations(y) ==
    /\ phase[y] = "find_organizations"
    /\ found' = [found EXCEPT ![y] =
           {o \in Organizations \ RegistryOrgs(RegistryOf[y]) :
                /\ organization[o] # NoRow /\ organization[o].active
                /\ \A s \in managed : SourceSeen(y, s).org # o}]
    /\ phase' = [phase EXCEPT ![y] = "deactivate_organizations"]
    /\ UNCHANGED <<rows, orgWrites, sourceWrites, admin>>

DeactivateOrganizations(y) ==
    /\ phase[y] = "deactivate_organizations"
    /\ found[y] \cap (HeldOrganizations \cup WrittenOrganizations) = {}
    /\ orgWrites' = [orgWrites EXCEPT ![y] = [o \in Organizations |->
           IF o \in found[y] /\ organization[o].active
             THEN [organization[o] EXCEPT !.active = FALSE]
             ELSE orgWrites[y][o]]]
    /\ phase' = [phase EXCEPT ![y] = "commit"]
    /\ found' = [found EXCEPT ![y] = {}]
    /\ UNCHANGED <<rows, sourceWrites, admin>>

EndSync(y) ==
    /\ phase' = [phase EXCEPT ![y] = "idle"]
    /\ orgWrites' = [orgWrites EXCEPT ![y] = NoOrgWrites]
    /\ sourceWrites' = [sourceWrites EXCEPT ![y] = NoSourceWrites]
    /\ found' = [found EXCEPT ![y] = {}]

\* session.commit in synchronize_registry.  An INSERT whose url another
\* transaction has committed meanwhile has failed.
CommitSync(y) ==
    /\ phase[y] = "commit"
    /\ \A s \in DOMAIN RegistryOf[y] : UrlFree(RegistryOf[y][s].url, s)
    /\ organization' = [o \in Organizations |-> OrgSeen(y, o)]
    /\ source' = [s \in Sources |-> SourceSeen(y, s)]
    /\ synced' = RegistryOf[y]
    /\ EndSync(y)
    /\ UNCHANGED <<managed, admin>>

\* A RegistrySyncError, a deadlock that PostgreSQL resolves, or a crash.
RollbackSync(y) ==
    /\ phase[y] # "idle"
    /\ EndSync(y)
    /\ UNCHANGED <<rows, admin>>

-----------------------------------------------------------------------------
(***************************************************************************)
(* The administrators.                                                     *)
(***************************************************************************)
\* managed_sources builds an entry of every managed row; one that an approved
\* entry may not be makes it raise, and with it every request but a creation.
Loadable ==
    \A s \in managed : source[s].verified /\ organization[source[s].org].official

OrgUsable(o) == organization[o] # NoRow => organization[o].official

\* create_managed_source up to the lock of the organization.  A replay of the
\* idempotency key answers with the source and changes nothing.
BeginCreate(a, e) ==
    /\ request[a] = "idle"
    /\ e.source \in ManagedIds /\ e.active
    /\ source[e.source] = NoRow
    /\ \A b \in Admins : request[b] # "idle" => edit[b].source # e.source
    /\ UrlFree(e.url, e.source)
    /\ e.org \notin HeldOrganizations \cup WrittenOrganizations
    /\ OrgUsable(e.org)
    /\ request' = [request EXCEPT ![a] = "creating"]
    /\ edit' = [edit EXCEPT ![a] = e]
    /\ UNCHANGED <<rows, sync>>

\* update_managed_source up to the lock of the source.  The request may name the
\* source's own url only: a new one clears last_verified_at, and the entry that
\* the request then answers with is refused, which rolls it back.  The same
\* refusal meets a configuration of an entry that is not eligible.
BeginEdit(a, e) ==
    LET s == e.source IN
    /\ request[a] = "idle"
    /\ Loadable
    /\ s \in managed \/ (s \in DOMAIN ApiRegistry /\ ApiRegistry[s].eligible)
    /\ source[s] # NoRow
    /\ s \notin HeldSources \cup WrittenSources
    /\ e.url = source[s].url /\ source[s].verified
    /\ request' = [request EXCEPT ![a] = "editing"]
    /\ edit' = [edit EXCEPT ![a] = e]
    /\ UNCHANGED <<rows, sync>>

\* Its SELECT ... FOR UPDATE of the organization.
LockOrganization(a) ==
    /\ request[a] = "editing"
    /\ edit[a].org \notin HeldOrganizations \cup WrittenOrganizations
    /\ OrgUsable(edit[a].org)
    /\ request' = [request EXCEPT ![a] = "saving"]
    /\ UNCHANGED <<rows, sync, edit>>

EndRequest(a) ==
    /\ request' = [request EXCEPT ![a] = "idle"]
    /\ edit' = [edit EXCEPT ![a] = NoOne]

\* The rows, the configuration and the audit event are committed together.
Store(a, url, isVerified) ==
    /\ UrlFree(url, edit[a].source)
    /\ source' = [source EXCEPT ![edit[a].source] =
           [org |-> edit[a].org, url |-> url, active |-> edit[a].active,
            verified |-> isVerified]]
    /\ organization' = [organization EXCEPT ![edit[a].org] =
           [official |-> TRUE, active |-> TRUE]]
    /\ managed' = managed \cup {edit[a].source}
    /\ EndRequest(a)
    /\ UNCHANGED <<synced, sync>>

SaveCreated(a) ==
    /\ request[a] = "creating"
    /\ Store(a, edit[a].url, TRUE)

\* Mutant: a request of any url is stored, without its verification.
SaveUnverified(a) ==
    /\ request[a] = "saving"
    /\ \E u \in Urls : Store(a, u, u = edit[a].url)

SaveEdited(a) ==
    /\ request[a] = "saving"
    /\ Store(a, edit[a].url, TRUE)

\* An AdminIngestionError, a unique violation, a deadlock or a crash.
RollbackRequest(a) ==
    /\ request[a] # "idle"
    /\ EndRequest(a)
    /\ UNCHANGED <<rows, sync>>

Synchronize(y) ==
    \/ Start(y)
    \/ UpsertSources(y)
    \/ FindSources(y)
    \/ DeactivateSources(y)
    \/ FindOrganizations(y)
    \/ DeactivateOrganizations(y)
    \/ CommitSync(y)
    \/ RollbackSync(y)

Administer(a) ==
    \/ \E e \in Edits : BeginCreate(a, e) \/ BeginEdit(a, e)
    \/ LockOrganization(a)
    \/ SaveCreated(a)
    \/ SaveEdited(a)
    \/ RollbackRequest(a)

Next ==
    \/ \E y \in Replicas : Synchronize(y)
    \/ \E a \in Admins : Administer(a)

Spec == Init /\ [][Next]_vars

-----------------------------------------------------------------------------
(* Properties.                                                             *)

\* Replicas of different deployments synchronise different registries, in any
\* order: what is active without being managed is what the last of them allows,
\* never a mixture of two.
ActiveIsAuthorized ==
    \A s \in Sources \ managed :
        source[s] # NoRow /\ source[s].active =>
            s \in DOMAIN synced /\ synced[s].eligible

\* An active source that is not managed has an organization that is active and
\* official, so that the retrieval queries, which ask for both, can serve it.
RegistrySourcesServable ==
    \A s \in Sources \ managed :
        source[s] # NoRow /\ source[s].active =>
            organization[source[s].org] = [official |-> TRUE, active |-> TRUE]

\* "Metadata editing must never make website evidence look fresher than it is":
\* nor unusable.  A managed source only loses its verification, and with it the
\* administrators their requests, to a registry that lists it as not eligible.
OnlyDemotionUnverifies ==
    [][\A s \in managed :
          source[s].verified /\ ~source'[s].verified =>
              \E y \in Replicas :
                  /\ phase[y] = "commit"
                  /\ s \in DOMAIN RegistryOf[y] /\ ~RegistryOf[y][s].eligible]_vars

\* docs/runbooks/admin-api.md:30: "Registry synchronization excludes managed source
\* and organization rows from deactivation."  The commit of a synchronisation
\* deactivates no managed source that it does not list, nor its organization.
ManagedExcluded ==
    [][\A y \in Replicas : phase[y] = "commit" /\ phase'[y] = "idle" =>
          \A s \in managed \ DOMAIN RegistryOf[y] :
              /\ source[s].active => source'[s].active
              /\ organization[source[s].org].active =>
                    organization'[source[s].org].active]_vars

-----------------------------------------------------------------------------
(* The inductive invariant.                                                *)

\* What a synchronisation of reg leaves of the sources that nobody manages.
Settled(y, reg) ==
    /\ phase[y] \in Phases \ {"idle", "sources"} =>
          \A s \in DOMAIN reg \ managed : SourceSeen(y, s) = RowOf(reg[s])
    /\ phase[y] = "deactivate_sources" =>
          \A s \in Sources \ (managed \cup DOMAIN reg) :
              source[s] # NoRow /\ source[s].active => s \in found[y]
    /\ phase[y] \in {"find_organizations", "deactivate_organizations", "commit"} =>
          \A s \in Sources \ (managed \cup DOMAIN reg) :
              SourceSeen(y, s) # NoRow => ~SourceSeen(y, s).active

\* A written source has the values of the registry, or is its row deactivated.
WriteOK(y, reg) ==
    \A s \in Sources : sourceWrites[y][s] # Unwritten =>
        \/ s \in DOMAIN reg /\ sourceWrites[y][s] = RowOf(reg[s])
        \/ /\ s \notin DOMAIN reg
           /\ source[s] # NoRow
           /\ sourceWrites[y][s] = [source[s] EXCEPT !.active = FALSE]

SyncOK(y) ==
    LET reg == RegistryOf[y] IN
    /\ phase[y] = "idle" => orgWrites[y] = NoOrgWrites /\ sourceWrites[y] = NoSourceWrites
    /\ phase[y] # "idle" => \A o \in RegistryOrgs(reg) : OrgSeen(y, o) = OrgRowOf(reg, o)
    /\ phase[y] = "deactivate_sources" =>
          found[y] \subseteq {s \in Sources \ DOMAIN reg : source[s] # NoRow}
    /\ phase[y] = "deactivate_organizations" =>
          found[y] \subseteq {o \in Organizations \ RegistryOrgs(reg) : organization[o] # NoRow}
    /\ Settled(y, reg)
    /\ WriteOK(y, reg)

\* The advisory lock.
SyncAlone == \A y, z \in Replicas : phase[y] # "idle" /\ phase[z] # "idle" => y = z

AdminOK(a) ==
    /\ request[a] # "idle" => edit[a] \in Edits
    /\ request[a] = "creating" =>
          edit[a].source \in ManagedIds /\ source[edit[a].source] = NoRow
    /\ request[a] \in {"editing", "saving"} => source[edit[a].source] # NoRow
    /\ request[a] \in {"creating", "saving"} => OrgUsable(edit[a].org)

\* The row locks.
AdminsApart ==
    \A a, b \in Admins : a # b /\ request[a] # "idle" /\ request[b] # "idle" =>
        /\ edit[a].source # edit[b].source
        /\ request[a] # "editing" /\ request[b] # "editing" => edit[a].org # edit[b].org

LocksApart ==
    /\ HeldSources \cap WrittenSources = {}
    /\ HeldOrganizations \cap WrittenOrganizations = {}

RegistryInv ==
    /\ TypeOK
    /\ \A y \in Replicas : SyncOK(y)
    /\ \A a \in Admins : AdminOK(a)
    /\ SyncAlone /\ AdminsApart /\ LocksApart
    /\ ActiveIsAuthorized
    /\ RegistrySourcesServable

=============================================================================
