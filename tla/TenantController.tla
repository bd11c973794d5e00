--------------------------- MODULE TenantController ---------------------------
(***************************************************************************)
(* The Tenant controller of provider-orgmapper: the external client of     *)
(* internal/controller/tenant/tenant.go driven by the managed reconciler   *)
(* of crossplane-runtime, with the Kubernetes API server that stores the   *)
(* Tenants, the informer cache the provider reads, and the SSO settings of *)
(* the one Grafana instance every Tenant is published to.                  *)
(*                                                                         *)
(* Every read and write of shared state is an action of its own, so the    *)
(* reconciles of different Tenants interleave between them; what a method  *)
(* does on its own copy of the object in between is part of the action.    *)
(*                                                                         *)
(* A definition whose name starts with Faulty is no part of the model: it  *)
(* is what the definition after it would be with a plausible mistake in    *)
(* the code, and some property must then fail.                             *)
(***************************************************************************)
EXTENDS OrgMapping, Naturals, Sequences, FiniteSets

CONSTANTS
    Tenants,    \* UIDs of Tenant objects; a UID is never used twice
    Specs,      \* the spec.forProvider values users write
    Settings,   \* values of the SSO settings other than orgMapping
    None,       \* no object, no status, no other settings
    MaxConcurrentReconciles,
    Events,     \* which environment events happen, besides creation
    MaxOps,     \* bound on the number of environment events
    MaxLag      \* bound on the number of writes that are not in the cache yet

EventNames ==
    {"edit", "revert", "delete", "abort", "restart", "outage", "drift",
     "settings"}

ASSUME ControllerAssumption ==
    /\ Specs \subseteq TenantParameters
    /\ None \notin TenantParameters
    /\ None \notin Settings
    /\ MaxConcurrentReconciles \in Nat \ {0}
    /\ Events \subseteq EventNames
    /\ MaxOps \in Nat
    /\ MaxLag \in Nat \ {0}

VARIABLES
    log,        \* states of the API server from the cached one to the latest
    born,       \* the UIDs given out so far
    job,        \* job[t]: the reconcile of t in progress, if any
    sso,        \* Grafana's generic_oauth SSO settings
    grafanaUp,  \* Grafana answers
    ops         \* environment events so far

vars == <<log, born, job, sso, grafanaUp, ops>>

-------------------------------------------------------------------------------
(* State *)

\* What the API server keeps of a Tenant. "named": the external-name
\* annotation is set.
Objects ==
    [generation: Nat, deleting: BOOLEAN, finalizer: BOOLEAN, named: BOOLEAN,
     spec: Specs, status: Specs \cup {None}, ready: BOOLEAN]

ASSUME NoneAssumption == None \notin Objects

NewTenant(s) ==
    [generation |-> 1, deleting |-> FALSE, finalizer |-> FALSE, named |-> FALSE,
     spec |-> s, status |-> None, ready |-> FALSE]

Stores == [Tenants -> Objects \cup {None}]

\* The informer cache is the oldest state of the log, the API server the last.
Cached == log[1]
Stored == log[Len(log)]

Steps == {"idle", "drift", "finalizer", "list", "get", "put", "persist", "release"}

\* cr: the object as last read or written, which an update must still find.
\* want, settings: the results of the List and of the GET of this sync.
\* synced: this reconcile's PUT succeeded. The settings are dropped after it.
Jobs ==
    [step: Steps, op: {"none", "update", "delete"},
     cr: Objects \cup {None}, want: SUBSET Entries,
     settings: Settings \cup {None}, synced: BOOLEAN]

Idle ==
    [step |-> "idle", op |-> "none", cr |-> None, want |-> {},
     settings |-> None, synced |-> FALSE]

SSOSettings ==
    [configured: BOOLEAN, settings: Settings \cup {None}, orgMapping: SUBSET Entries]

\* A reconcile in progress has an object; one that syncs has an operation, which
\* says how it goes on after the sync.
JobsWellFormed ==
    \A t \in Tenants :
        /\ job[t].step # "idle" => job[t].cr \in Objects
        /\ job[t].step \in {"finalizer", "list", "get", "put"} => job[t].op # "none"

TypeOK ==
    /\ log \in Seq(Stores) \ {<<>>}
    /\ born \in SUBSET Tenants
    /\ job \in [Tenants -> Jobs]
    /\ JobsWellFormed
    /\ sso \in SSOSettings
    /\ grafanaUp \in BOOLEAN
    /\ ops \in 0..MaxOps

Init ==
    /\ log = <<[t \in Tenants |-> None]>>
    /\ born = {}
    /\ job = [t \in Tenants |-> Idle]
    /\ sso \in {s \in SSOSettings : s.orgMapping = {} /\ (s.configured <=> s.settings # None)}
    /\ grafanaUp = TRUE
    /\ ops = 0

-------------------------------------------------------------------------------
(* The API server *)

\* A write that changes nothing makes no event and no new state. The cache
\* lags by at most MaxLag writes: a further one waits until it caught up.
Commit(t, object) ==
    \/ Stored[t] = object /\ UNCHANGED log
    \/ /\ Stored[t] # object
       /\ Len(log) <= MaxLag
       /\ log' = Append(log, [Stored EXCEPT ![t] = object])

\* An informer event reaches the cache.
Deliver ==
    /\ Len(log) > 1
    /\ log' = Tail(log)
    /\ UNCHANGED <<born, job, sso, grafanaUp, ops>>

-------------------------------------------------------------------------------
(* Users, the administrator of Grafana, and failures *)

Occurs == ops < MaxOps /\ ops' = ops + 1

UserActs == Occurs /\ UNCHANGED <<job, sso, grafanaUp>>

CreateTenant(t, s) ==
    /\ UserActs
    /\ t \notin born
    /\ born' = born \cup {t}
    /\ Commit(t, NewTenant(s))

\* No validation forbids an edit of tenantId, or one back to the spec that the
\* status still shows ("revert").
EditTenant(t, s) ==
    /\ UserActs
    /\ "edit" \in Events
    /\ Stored[t] # None
    /\ s # Stored[t].spec
    /\ s = Stored[t].status => "revert" \in Events
    /\ Commit(t, [Stored[t] EXCEPT !.spec = s, !.generation = @ + 1])
    /\ UNCHANGED born

\* The API server only marks an object that has a finalizer; one no reconcile
\* has adopted yet ("abort") is gone at once.
DeleteTenant(t) ==
    /\ UserActs
    /\ "delete" \in Events
    /\ Stored[t] # None
    /\ ~Stored[t].deleting
    /\ ~Stored[t].finalizer => "abort" \in Events
    /\ Commit(t, IF Stored[t].finalizer
                 THEN [Stored[t] EXCEPT !.deleting = TRUE] ELSE None)
    /\ UNCHANGED born

\* The provider stops, loses its reconciles and comes back with a fresh cache.
Restart ==
    /\ Occurs
    /\ "restart" \in Events
    /\ job' = [t \in Tenants |-> Idle]
    /\ log' = <<Stored>>
    /\ UNCHANGED <<born, sso, grafanaUp>>

GrafanaFails ==
    /\ Occurs
    /\ "outage" \in Events
    /\ grafanaUp
    /\ grafanaUp' = FALSE
    /\ UNCHANGED <<log, born, job, sso>>

GrafanaRecovers ==
    /\ ~grafanaUp
    /\ grafanaUp' = TRUE
    /\ UNCHANGED <<log, born, job, sso, ops>>

\* Someone empties the mapping by hand.
MappingDrifts ==
    /\ Occurs
    /\ "drift" \in Events
    /\ sso.orgMapping # {}
    /\ sso' = [sso EXCEPT !.orgMapping = {}]
    /\ UNCHANGED <<log, born, job, grafanaUp>>

\* The administrator of Grafana saves other keys of the same settings.
AdminConfigures(v) ==
    /\ Occurs
    /\ "settings" \in Events
    /\ v # sso.settings
    /\ sso' = [sso EXCEPT !.configured = TRUE, !.settings = v]
    /\ UNCHANGED <<log, born, job, grafanaUp>>

-------------------------------------------------------------------------------
(* The reconcile of one Tenant *)

HasGroups(params) == \E role \in Roles : GroupsOf(params, role) # {}

\* One field is forgotten.
FaultyIsUpToDate(cr) ==
    cr.status # None /\ [cr.status EXCEPT !.editorGroups = cr.spec.editorGroups] = cr.spec

\* The fields of a spec and of a status are compared one by one.
isUpToDate(cr) == cr.status = cr.spec

Active == {t \in Tenants : job[t].step # "idle"}

\* Before it updates anything the runtime makes sure of its finalizer.
FirstStep(cr) == IF cr.finalizer THEN "list" ELSE "finalizer"

\* What Observe, before it asks Grafana, makes of an object. Its first check, of
\* a missing external name, never fires: the runtime has set the name. So no
\* object is ever reported for Create, nor, deleted ones being reported as gone,
\* for Delete, and neither they nor validateUniqueTenantID are in the model.
Observe(cr) ==
    LET begin(op, step) == [Idle EXCEPT !.cr = cr, !.op = op, !.step = step]
    IN  CASE cr.deleting -> begin("delete", "list")
          [] ~cr.deleting /\ isUpToDate(cr) ->
               begin("none", IF HasGroups(cr.spec) THEN "drift" ELSE "persist")
          [] ~cr.deleting /\ ~isUpToDate(cr) -> begin("update", FirstStep(cr))

\* The runtime takes t from its queue.
Starts(t) ==
    /\ job[t].step = "idle"
    /\ Cardinality(Active) < MaxConcurrentReconciles
    /\ Cached[t] # None
    /\ UNCHANGED <<born, sso, grafanaUp, ops>>

Reconcile(t) ==
    /\ Starts(t)
    /\ Cached[t].named
    /\ job' = [job EXCEPT ![t] = Observe(Cached[t])]
    /\ UNCHANGED log

\* Setup passes no initializer, so the runtime's default one is in force: it
\* names an object after itself before Observe. A stale copy is a conflict.
InitializeName(t) ==
    /\ Starts(t)
    /\ ~Cached[t].named
    /\ Stored[t] = Cached[t]
    /\ LET cr == [Cached[t] EXCEPT !.named = TRUE]
       IN  Commit(t, cr) /\ job' = [job EXCEPT ![t] = Observe(cr)]

At(t, step) == job[t].step = step /\ UNCHANGED <<born, ops>>

Goto(t, step) == job' = [job EXCEPT ![t].step = step]

\* An update of the object this reconcile read: a conflict ends the reconcile.
Update(t, object, step) ==
    /\ UNCHANGED <<sso, grafanaUp>>
    /\ IF Stored[t] = job[t].cr
       THEN /\ Commit(t, object)
            /\ job' = [job EXCEPT ![t].cr = object, ![t].step = step]
       ELSE /\ UNCHANGED log
            /\ job' = [job EXCEPT ![t] = Idle]

AddFinalizer(t) ==
    /\ At(t, "finalizer")
    /\ Update(t, [job[t].cr EXCEPT !.finalizer = TRUE], "list")

\* Settings that do not exist are no drift.
FaultyIsGrafanaDrifted(cr) ==
    sso.configured /\ ~OrgMappingContains(sso.orgMapping, cr.spec.orgId)

\* This tenant's org is nowhere in Grafana's mapping.
isGrafanaDrifted(cr) ==
    ~sso.configured \/ ~OrgMappingContains(sso.orgMapping, cr.spec.orgId)

\* Observe repairs the drift itself and does not report it.
FaultyCheckDrift(t) ==
    /\ At(t, "drift")
    /\ Goto(t, IF grafanaUp /\ isGrafanaDrifted(job[t].cr) THEN "list" ELSE "persist")
    /\ UNCHANGED <<log, sso, grafanaUp>>

\* A failed GET counts as no drift.
CheckDrift(t) ==
    /\ At(t, "drift")
    /\ IF grafanaUp /\ isGrafanaDrifted(job[t].cr)
       THEN job' = [job EXCEPT ![t].op = "update", ![t].step = FirstStep(job[t].cr)]
       ELSE Goto(t, "persist")
    /\ UNCHANGED <<log, sso, grafanaUp>>

-------------------------------------------------------------------------------
(* syncGrafanaOrgMapping: list the Tenants, read the settings, write them *)

\* Of the other Tenants only those that are Ready are listed.
FaultyListTenants(t) ==
    /\ At(t, "list")
    /\ LET listed == {u \in Tenants : Cached[u] # None /\ (u = t \/ Cached[u].ready)}
           mapped == IF job[t].op = "delete" THEN listed \ {t} ELSE listed
       IN  job' = [job EXCEPT ![t].want = BuildOrgMapping({Cached[u].spec : u \in mapped}),
                              ![t].step = "get"]
    /\ UNCHANGED <<log, sso, grafanaUp>>

ListTenants(t) ==
    /\ At(t, "list")
    /\ LET listed == {u \in Tenants : Cached[u] # None}
           mapped == IF job[t].op = "delete" THEN listed \ {t} ELSE listed
       IN  job' = [job EXCEPT ![t].want = BuildOrgMapping({Cached[u].spec : u \in mapped}),
                              ![t].step = "get"]
    /\ UNCHANGED <<log, sso, grafanaUp>>

\* Settings that do not exist yet are read as no settings.
getOrInitSettings(t) ==
    /\ At(t, "get")
    /\ grafanaUp
    /\ job' = [job EXCEPT ![t].settings = sso.settings, ![t].step = "put"]
    /\ UNCHANGED <<log, sso, grafanaUp>>

AfterSync(op) ==
    CASE op = "update" -> "persist" [] op = "delete" -> "release"

\* Only the mapping is sent.
FaultyWritten(t) ==
    [configured |-> TRUE, settings |-> None, orgMapping |-> job[t].want]

Written(t) ==
    [configured |-> TRUE, settings |-> job[t].settings, orgMapping |-> job[t].want]

SyncOrgMapping(t) ==
    /\ At(t, "put")
    /\ grafanaUp
    /\ sso' = Written(t)
    /\ job' = [job EXCEPT ![t].synced = TRUE, ![t].settings = None,
                           ![t].step = AfterSync(job[t].op)]
    /\ UNCHANGED <<log, grafanaUp>>

\* Every method returns the error of its sync, which ends the reconcile.
FaultySyncFails(t) ==
    /\ job[t].step \in {"get", "put"}
    /\ ~grafanaUp
    /\ job' = [job EXCEPT ![t] = Idle]
    /\ UNCHANGED <<log, born, sso, grafanaUp, ops>>

\* Update and Observe log the failure of a GET or PUT and go on.
SyncFails(t) ==
    /\ job[t].step \in {"get", "put"}
    /\ ~grafanaUp
    /\ job' = [job EXCEPT ![t].settings = None, ![t].step = AfterSync(job[t].op)]
    /\ UNCHANGED <<log, born, sso, grafanaUp, ops>>

\* Grafana goes down after it applied the PUT: the provider sees a failure.
ResponseLost(t) ==
    /\ job[t].step = "put"
    /\ grafanaUp
    /\ Occurs
    /\ "outage" \in Events
    /\ sso' = Written(t)
    /\ grafanaUp' = FALSE
    /\ job' = [job EXCEPT ![t].settings = None, ![t].step = AfterSync(job[t].op)]
    /\ UNCHANGED <<log, born>>

-------------------------------------------------------------------------------
(* The end of a reconcile *)

\* The status in memory: Observe marks an up-to-date object Available, Update
\* copies the spec into the status.
syncStatus(cr, op) ==
    [cr EXCEPT !.ready = @ \/ isUpToDate(cr),
               !.status = IF op = "update" THEN cr.spec ELSE @]

\* The status is patched onto whatever object is stored.
FaultyPersistStatus(t) ==
    /\ At(t, "persist")
    /\ job' = [job EXCEPT ![t] = Idle]
    /\ LET new == syncStatus(job[t].cr, job[t].op)
       IN  IF Stored[t] # None
           THEN Commit(t, [Stored[t] EXCEPT !.status = new.status, !.ready = new.ready])
           ELSE UNCHANGED log
    /\ UNCHANGED <<sso, grafanaUp>>

PersistStatus(t) ==
    /\ At(t, "persist")
    /\ job' = [job EXCEPT ![t] = Idle]
    /\ IF Stored[t] = job[t].cr THEN Commit(t, syncStatus(job[t].cr, job[t].op))
       ELSE UNCHANGED log
    /\ UNCHANGED <<sso, grafanaUp>>

\* Removing the finalizer of a deleted object removes the object.
RemoveFinalizer(t) ==
    /\ At(t, "release")
    /\ job' = [job EXCEPT ![t] = Idle]
    /\ IF Stored[t] = job[t].cr THEN Commit(t, None) ELSE UNCHANGED log
    /\ UNCHANGED <<sso, grafanaUp>>

-------------------------------------------------------------------------------
(* Specification *)

\* The steps that no one but the provider decides on.
JobStep(t) ==
    \/ CheckDrift(t) \/ AddFinalizer(t)
    \/ ListTenants(t) \/ getOrInitSettings(t) \/ SyncOrgMapping(t) \/ SyncFails(t)
    \/ PersistStatus(t) \/ RemoveFinalizer(t)

Starting(t) == Reconcile(t) \/ InitializeName(t)

Environment ==
    \/ \E t \in Tenants, s \in Specs : CreateTenant(t, s) \/ EditTenant(t, s)
    \/ \E t \in Tenants : DeleteTenant(t) \/ ResponseLost(t)
    \/ \E v \in Settings : AdminConfigures(v)
    \/ Restart \/ GrafanaFails \/ GrafanaRecovers \/ MappingDrifts

Next == Environment \/ Deliver \/ \E t \in Tenants : Starting(t) \/ JobStep(t)

Spec == Init /\ [][Next]_vars

\* Every Tenant is polled again and again and waits its turn in a queue; a
\* started reconcile goes on; the watch delivers. Grafana need not recover.
Fairness ==
    /\ WF_vars(Deliver)
    /\ \A t \in Tenants : SF_vars(Starting(t)) /\ WF_vars(JobStep(t))

FairSpec == Spec /\ Fairness
RecoveringSpec == FairSpec /\ WF_vars(GrafanaRecovers)

-------------------------------------------------------------------------------
(* Safety *)

Live(t) == Stored[t] # None /\ ~Stored[t].deleting

\* TenantID's comment: it is the unique identifier of a tenant. No two Tenants
\* that are Ready have the same one.
UniqueTenantIDs ==
    \A t, u \in Tenants :
        t # u /\ Live(t) /\ Stored[t].ready /\ Live(u) /\ Stored[u].ready
        => Stored[t].spec.tenantId # Stored[u].spec.tenantId

\* A status that changes is a copy of the spec stored at that moment, never of
\* one the user has replaced since the reconcile read it; and if the sync of
\* that reconcile succeeded, the mapping it wrote had the entries of that spec.
AcknowledgedSpecWasListed ==
    [][\A t \in Tenants :
        Stored[t] # None /\ Stored'[t] # None /\ Stored'[t].status # Stored[t].status =>
            /\ Stored'[t].status = Stored'[t].spec
            /\ job[t].synced => EntriesOf(Stored'[t].spec) \subseteq job[t].want]_vars

\* A Tenant turns Ready only while its status is a copy of its stored spec,
\* whatever users wrote between the read of the object and that write.
ReadyMeansObserved ==
    [][\A t \in Tenants :
        Stored[t] # None /\ Stored'[t] # None /\ Stored'[t].ready /\ ~Stored[t].ready =>
            Stored'[t].status = Stored'[t].spec]_vars

\* The provider, which writes the settings as a whole, changes none of the
\* keys that are not its own.
SettingsPreserved == [][job' # job => sso'.settings = sso.settings]_vars

\* What a Tenant's status acknowledges is in Grafana's mapping.
AcknowledgedGrantsPresent ==
    \A t \in Tenants :
        Live(t) /\ Stored[t].status = Stored[t].spec
            => EntriesOf(Stored[t].spec) \subseteq sso.orgMapping

\* Create's comment: a Tenant is registered in org_mapping before it is Ready,
\* which Update, the operation that runs in Create's place, does not see to.
RegisteredBeforeReady ==
    [][\A t \in Tenants :
        Stored[t] # None /\ Stored'[t] # None /\ Stored'[t].ready /\ ~Stored[t].ready =>
            EntriesOf(Stored'[t].spec) \subseteq sso.orgMapping]_vars

-------------------------------------------------------------------------------
(* What the controller promises: the registry it implements *)

\* The abstract state of the Tenants: what is stored of them, without the
\* runtime's own marks and without caches, reconciles and Grafana.
Registered(object) ==
    IF object = None THEN None
    ELSE [spec |-> object.spec, named |-> object.named, acknowledged |-> object.status,
          ready |-> object.ready, deleting |-> object.deleting]

ASSUME RecordsAssumption ==
    None \notin [spec: Specs, named: BOOLEAN, acknowledged: Specs \cup {None},
                 ready: BOOLEAN, deleting: BOOLEAN]

Registry == INSTANCE TenantRegistry
                WITH registry <- [t \in Tenants |-> Registered(Stored[t])]

\* Whatever the lag of the cache and the order of reconciles, restarts and
\* edits, each step is one of the registry or changes nothing of it.
ImplementsRegistry == Registry!Spec

-------------------------------------------------------------------------------
(* Liveness *)

\* Grafana's state never keeps a Tenant from becoming Ready with its spec in
\* its status, even if Grafana stays down for ever.
StatusConverges ==
    <>[](\A t \in Tenants : Live(t) =>
            Stored[t].status = Stored[t].spec /\ Stored[t].ready)

\* A deleted Tenant goes away, even if Grafana stays down for ever.
DeletionCompletes ==
    \A t \in Tenants :
        (Stored[t] # None /\ Stored[t].deleting) ~> (Stored[t] = None)

\* Once the environment is quiet every Tenant with groups has an entry of its
\* org in the mapping and keeps one, whatever was lost before: edits by hand,
\* failed syncs, an edit undone before it was acknowledged, or the late PUT of
\* another reconcile. If a group of someone else ends in the org, it may not.
OrgsConverge ==
    <>[](\A t \in Tenants : Live(t) /\ HasGroups(Stored[t].spec) =>
            HasEntry(sso.orgMapping, Stored[t].spec.orgId))

\* Once the environment is quiet every entry of every Tenant is in the mapping.
GrantsConverge ==
    <>[](\A t \in Tenants : Live(t) => EntriesOf(Stored[t].spec) \subseteq sso.orgMapping)

\* Observe's comment: a Tenant being deleted is removed from the mapping. Once
\* the environment is quiet none of its entries is left that no Tenant has.
DeletedEntriesVanish ==
    \A t \in Tenants, s \in Specs :
        [](Stored[t] # None /\ Stored[t].deleting /\ Stored[t].spec = s =>
            <>[](EntriesOf(s) \cap sso.orgMapping \subseteq
                    BuildOrgMapping({Stored[u].spec : u \in {v \in Tenants : Stored[v] # None}})))
===============================================================================
