--------------------------- MODULE ProviderConfigs ---------------------------
(***************************************************************************)
(* The ProviderConfigs that Tenants connect through: the connector of      *)
(* internal/controller/tenant/tenant.go, which records a usage and reads   *)
(* the config, the two controllers of internal/controller/config/config.go,*)
(* which keep a config in use from going away, and the start and stop of   *)
(* the process they all run in.                                            *)
(*                                                                         *)
(* What a Tenant's reconcile does with its client is in TenantController;  *)
(* here it is cut down to whether a Grafana has the Tenants' mapping.      *)
(*                                                                         *)
(* A definition whose name starts with Faulty is no part of the model: it  *)
(* is the definition after it with a plausible mistake.                    *)
(***************************************************************************)
EXTENDS GrafanaClient, FiniteSets

CONSTANTS
    Tenants,    \* UIDs of Tenant objects; a UID is never used twice
    Configs,    \* kinds and names of the configs users create
    Refs,       \* the providerConfigRefs users write
    Contents,   \* URLs and credentials of configs
    OrgOf,      \* the org of each Tenant
    Grouped,    \* the Tenants that have groups, and so entries in a mapping
    None,       \* no object, no client
    Events,     \* which environment events happen, besides creation
    MaxOps,     \* bound on the number of environment events
    MaxLag      \* bound on the number of writes that a cache does not have yet

ConfigKinds == {"ProviderConfig", "ClusterProviderConfig"}

EventNames == {"retarget", "edit", "delete tenant", "delete config", "restart"}

ASSUME ConfigsAssumption ==
    /\ \A c \in Configs : c.kind \in ConfigKinds
    /\ Grouped \subseteq Tenants
    /\ Events \subseteq EventNames
    /\ MaxOps \in Nat
    /\ MaxLag \in Nat \ {0}

VARIABLES
    log,        \* of each kind, the states from the cached one to the latest
    born,       \* the UIDs of Tenants given out so far
    job,        \* job[t]: the reconcile of Tenant t in progress, if any
    configJob,  \* configJob[c]: the reconcile of config c in progress, if any
    queue,      \* the configs that wait for a reconcile
    running,    \* the process runs
    published,  \* published[g]: the Tenants in the mapping of Grafana g
    heldBy,     \* history: whose known use a config had when it was deleted
    ops         \* environment events so far

vars == <<log, born, job, configJob, queue, running, published, heldBy, ops>>

-------------------------------------------------------------------------------
(* State *)

\* "acknowledged": the status is a copy of the spec. An edit of the spec's other
\* fields, which TenantController is about, is not in this module.
TenantObjects ==
    [ref: Refs, deleting: BOOLEAN, finalizer: BOOLEAN, acknowledged: BOOLEAN]

\* "uid" tells a config from an earlier one of the same name.
ConfigObjects ==
    [uid: Nat, content: Contents, deleting: BOOLEAN, finalizer: BOOLEAN]

\* The usage that a Tenant owns holds the reference it was tracked with.
StoresOf ==
    [tenants |-> [Tenants -> TenantObjects \cup {None}],
     configs |-> [Configs -> ConfigObjects \cup {None}],
     usages  |-> [Tenants -> Refs \cup {None}]]

ObjectKinds == {"tenants", "configs", "usages"}

\* Each kind has an informer cache of its own: the oldest state of its log.
Cached(kind) == log[kind][1]
Stored(kind) == log[kind][Len(log[kind])]

Usable(content) == content.creds.present /\ content.url.parses

ClientOf(content) == NewClient(content.url, content.creds)

Clients == {ClientOf(content) : content \in {k \in Contents : Usable(k)}}

ASSUME NoneAssumption ==
    /\ None \notin TenantObjects
    /\ None \notin ConfigObjects
    /\ None \notin Clients

GrafanaOf(client) == <<client.origin, client.basePath>>

Grafanas == {GrafanaOf(client) : client \in Clients}

Jobs ==
    [step: {"idle", "track", "connect", "serve"}, cr: TenantObjects \cup {None},
     client: Clients \cup {None}]

Idle == [step |-> "idle", cr |-> None, client |-> None]

ConfigJobs ==
    [step: {"idle", "list", "adopt", "release"}, cr: ConfigObjects \cup {None}]

ConfigIdle == [step |-> "idle", cr |-> None]

TypeOK ==
    /\ DOMAIN log = ObjectKinds
    /\ \A kind \in ObjectKinds : log[kind] \in Seq(StoresOf[kind]) \ {<<>>}
    /\ born \in SUBSET Tenants
    /\ job \in [Tenants -> Jobs]
    /\ \A t \in Tenants : job[t].step # "idle" => job[t].cr # None
    /\ \A t \in Tenants : job[t].step = "serve" => job[t].client # None
    /\ configJob \in [Configs -> ConfigJobs]
    /\ \A c \in Configs : configJob[c].step # "idle" => configJob[c].cr # None
    /\ queue \in SUBSET Configs
    /\ running \in BOOLEAN
    /\ published \in [Grafanas -> SUBSET Tenants]
    /\ heldBy \in [Configs -> SUBSET Tenants]
    /\ ops \in 0..MaxOps

Init ==
    /\ log = [tenants |-> <<[t \in Tenants |-> None]>>,
              configs |-> <<[c \in Configs |-> None]>>,
              usages  |-> <<[t \in Tenants |-> None]>>]
    /\ born = {}
    /\ job = [t \in Tenants |-> Idle]
    /\ configJob = [c \in Configs |-> ConfigIdle]
    /\ queue = {}
    /\ running = TRUE
    /\ published = [g \in Grafanas |-> {}]
    /\ heldBy = [c \in Configs |-> {}]
    /\ ops = 0

-------------------------------------------------------------------------------
(* References and usages *)

\* extractConfig: which config a reference names, if any.
Names(ref, c) ==
    /\ ref.name = c.name
    /\ ref.kind = c.kind \/ (ref.kind = "" /\ c.kind = "ProviderConfig")

\* The kind of the usages that Connect's tracker writes.
TrackedUsage == "ProviderConfigUsage"

\* Both controllers are set up with the same kinds.
FaultyUsageKind(c) == "ClusterProviderConfigUsage"

\* The kind of the usages that the controller of a config lists and watches.
UsageKind(c) ==
    IF c.kind = "ProviderConfig" THEN "ProviderConfigUsage"
    ELSE "ClusterProviderConfigUsage"

Counts(ref, c) == Names(ref, c) /\ UsageKind(c) = TrackedUsage

\* t uses c, going by a state of the usages.
Uses(usages, t, c) == usages[t] # None /\ Names(usages[t], c)

\* EnqueueRequestForProviderConfig is left out.
FaultyWatching(usage) == {}

\* An event of a usage wakes the controllers that watch its kind.
Watching(usage) ==
    IF usage = None THEN {}
    ELSE {c \in Configs : c.name = usage.name /\ UsageKind(c) = TrackedUsage}

-------------------------------------------------------------------------------
(* The API server *)

\* A cache lags by at most MaxLag writes: a further one waits until it caught
\* up. There is no cache while the process does not run.
Commit(kind, key, object) ==
    LET new == [Stored(kind) EXCEPT ![key] = object]
    IN  \/ Stored(kind)[key] = object /\ UNCHANGED log
        \/ /\ Stored(kind)[key] # object
           /\ running
           /\ Len(log[kind]) <= MaxLag
           /\ log' = [log EXCEPT ![kind] = Append(@, new)]
        \/ /\ Stored(kind)[key] # object
           /\ ~running
           /\ log' = [log EXCEPT ![kind] = <<new>>]

\* A use that is established is one the cache has and no write on its way ends.
Established(t, c) ==
    \A i \in DOMAIN log.usages : Uses(log.usages[i], t, c)

\* A usage that goes, or names another config, holds this one no longer.
Unhold(t, usage) ==
    heldBy' = [c \in Configs |->
                 {u \in heldBy[c] : u = t => usage # None /\ Names(usage, c)}]

Changed(old, new) == {key \in DOMAIN old : old[key] # new[key]}

\* A watch event reaches the cache, and the handlers of the controllers.
Deliver(kind) ==
    /\ running
    /\ Len(log[kind]) > 1
    /\ log' = [log EXCEPT ![kind] = Tail(@)]
    /\ LET old == log[kind][1]
           new == log[kind][2]
       IN  queue' = queue \cup
             CASE kind = "tenants" -> {}
               [] kind = "configs" -> Changed(old, new)
               [] kind = "usages"  ->
                    UNION {Watching(old[t]) \cup Watching(new[t]) : t \in Changed(old, new)}
    /\ UNCHANGED <<born, job, configJob, running, published, heldBy, ops>>

\* Kubernetes collects a usage whose owner is gone.
CollectUsage(t) ==
    /\ Stored("usages")[t] # None
    /\ Stored("tenants")[t] = None
    /\ Commit("usages", t, None)
    /\ Unhold(t, None)
    /\ UNCHANGED <<born, job, configJob, queue, running, published, ops>>

-------------------------------------------------------------------------------
(* Users *)

Occurs == ops < MaxOps /\ ops' = ops + 1

UserActs == Occurs /\ UNCHANGED <<job, configJob, queue, running, published>>

CreateTenant(t, ref) ==
    /\ UserActs
    /\ t \notin born
    /\ born' = born \cup {t}
    /\ Commit("tenants", t, [ref |-> ref, deleting |-> FALSE, finalizer |-> FALSE,
                             acknowledged |-> FALSE])
    /\ UNCHANGED heldBy

RetargetTenant(t, ref) ==
    /\ UserActs
    /\ "retarget" \in Events
    /\ Stored("tenants")[t] # None
    /\ ref # Stored("tenants")[t].ref
    /\ Commit("tenants", t, [Stored("tenants")[t] EXCEPT !.ref = ref])
    /\ UNCHANGED <<born, heldBy>>

\* An object without a finalizer is gone at once.
DeleteTenant(t) ==
    /\ UserActs
    /\ "delete tenant" \in Events
    /\ Stored("tenants")[t] # None
    /\ ~Stored("tenants")[t].deleting
    /\ Commit("tenants", t, IF Stored("tenants")[t].finalizer
                            THEN [Stored("tenants")[t] EXCEPT !.deleting = TRUE]
                            ELSE None)
    /\ UNCHANGED <<born, heldBy>>

CreateConfig(c, content) ==
    /\ UserActs
    /\ Stored("configs")[c] = None
    /\ Commit("configs", c, [uid |-> ops, content |-> content, deleting |-> FALSE,
                             finalizer |-> FALSE])
    /\ UNCHANGED <<born, heldBy>>

EditConfig(c, content) ==
    /\ UserActs
    /\ "edit" \in Events
    /\ Stored("configs")[c] # None
    /\ content # Stored("configs")[c].content
    /\ Commit("configs", c, [Stored("configs")[c] EXCEPT !.content = content])
    /\ UNCHANGED <<born, heldBy>>

DeleteConfig(c) ==
    /\ UserActs
    /\ "delete config" \in Events
    /\ Stored("configs")[c] # None
    /\ ~Stored("configs")[c].deleting
    /\ IF Stored("configs")[c].finalizer
       THEN /\ Commit("configs", c, [Stored("configs")[c] EXCEPT !.deleting = TRUE])
            /\ heldBy' = [heldBy EXCEPT ![c] = {t \in Tenants : Established(t, c)}]
       ELSE /\ Commit("configs", c, None)
            /\ UNCHANGED heldBy
    /\ UNCHANGED born

-------------------------------------------------------------------------------
(* The process *)

\* The process stops, with every reconcile and every queue.
Stop ==
    /\ Occurs
    /\ "restart" \in Events
    /\ running
    /\ running' = FALSE
    /\ job' = [t \in Tenants |-> Idle]
    /\ configJob' = [c \in Configs |-> ConfigIdle]
    /\ queue' = {}
    /\ log' = [kind \in ObjectKinds |-> <<Stored(kind)>>]
    /\ UNCHANGED <<born, published, heldBy>>

\* Setup registers all controllers or the process exits. Their caches start
\* from the API server, and every config is reconciled.
Start ==
    /\ ~running
    /\ running' = TRUE
    /\ queue' = {c \in Configs : Stored("configs")[c] # None}
    /\ UNCHANGED <<log, born, job, configJob, published, heldBy, ops>>

-------------------------------------------------------------------------------
(* The reconcile of a Tenant: Connect, then what needs the client *)

\* The runtime takes t from its queue, to which every poll adds it again.
Reconcile(t) ==
    /\ running
    /\ job[t].step = "idle"
    /\ Cached("tenants")[t] # None
    /\ job' = [job EXCEPT ![t] = [step |-> "track", cr |-> Cached("tenants")[t],
                                  client |-> None]]
    /\ UNCHANGED <<log, born, configJob, queue, running, published, heldBy, ops>>

At(t, step) ==
    /\ job[t].step = step
    /\ UNCHANGED <<born, configJob, queue, running, ops>>

\* An error, or the end of the reconcile.
End(t) == job' = [job EXCEPT ![t] = Idle]

\* Connect tracks the usage first, whatever it may find of the config. The
\* tracker compares with the cached usage and creates or updates the stored
\* one; that the cached one is not the latest is an error.
Track(t) ==
    /\ At(t, "track")
    /\ \/ /\ Cached("usages")[t] = job[t].cr.ref
          /\ job' = [job EXCEPT ![t].step = "connect"]
          /\ UNCHANGED <<log, heldBy>>
       \/ /\ Cached("usages")[t] # job[t].cr.ref
          /\ Stored("usages")[t] = Cached("usages")[t]
          /\ Commit("usages", t, job[t].cr.ref)
          /\ Unhold(t, job[t].cr.ref)
          /\ job' = [job EXCEPT ![t].step = "connect"]
       \/ /\ Cached("usages")[t] # job[t].cr.ref
          /\ Stored("usages")[t] # Cached("usages")[t]
          /\ End(t)
          /\ UNCHANGED <<log, heldBy>>
    /\ UNCHANGED published

\* An error of extractConfig is logged and does not end the reconcile.
FaultyCarelessConnect(t) ==
    /\ At(t, "connect")
    /\ job' = [job EXCEPT ![t].step = "serve"]
    /\ UNCHANGED <<log, published, heldBy>>

\* A config that is being deleted is refused.
FaultyConnect(t) ==
    /\ At(t, "connect")
    /\ LET found == {c \in Configs : /\ Names(job[t].cr.ref, c)
                                     /\ Cached("configs")[c] # None
                                     /\ ~Cached("configs")[c].deleting
                                     /\ Usable(Cached("configs")[c].content)}
       IN  IF found = {} THEN End(t)
           ELSE \E c \in found :
                job' = [job EXCEPT ![t].step = "serve",
                                   ![t].client = ClientOf(Cached("configs")[c].content)]
    /\ UNCHANGED <<log, published, heldBy>>

\* extractConfig and NewClient. A reference of an unsupported kind, a config
\* that is not there, credentials that are missing or a URL that does not parse
\* end the reconcile, that of a deleted Tenant too.
Connect(t) ==
    /\ At(t, "connect")
    /\ LET found == {c \in Configs : /\ Names(job[t].cr.ref, c)
                                     /\ Cached("configs")[c] # None
                                     /\ Usable(Cached("configs")[c].content)}
       IN  IF found = {} THEN End(t)
           ELSE \E c \in found :
                job' = [job EXCEPT ![t].step = "serve",
                                   ![t].client = ClientOf(Cached("configs")[c].content)]
    /\ UNCHANGED <<log, published, heldBy>>

\* Every Tenant is listed, whatever config it refers to.
Listed == {t \in Tenants : Cached("tenants")[t] # None}

\* The runtime adds its finalizer before it changes anything elsewhere.
Adopt(t) ==
    /\ At(t, "serve")
    /\ ~job[t].cr.deleting
    /\ ~job[t].cr.finalizer
    /\ LET cr == [job[t].cr EXCEPT !.finalizer = TRUE]
       IN  IF Stored("tenants")[t] = job[t].cr
           THEN /\ Commit("tenants", t, cr)
                /\ job' = [job EXCEPT ![t].cr = cr]
           ELSE End(t) /\ UNCHANGED log
    /\ UNCHANGED <<published, heldBy>>

\* The mapping of g has an entry of the org of t, whoever's entry it is.
OrgListed(t, g) == \E u \in published[g] \cap Grouped : OrgOf[u] = OrgOf[t]

\* Any Grafana that has the org will do.
FaultyDrifted(t, g) == t \in Grouped /\ \A h \in Grafanas : ~OrgListed(t, h)

\* A Tenant without groups is never drift.
Drifted(t, g) == t \in Grouped /\ ~OrgListed(t, g)

\* Update syncs a Tenant that is not up to date, one that is only if the drift
\* check misses it; the status is written unless the object changed meanwhile.
Publish(t) ==
    /\ At(t, "serve")
    /\ ~job[t].cr.deleting
    /\ job[t].cr.finalizer
    /\ LET g == GrafanaOf(job[t].client)
       IN  published' = IF ~job[t].cr.acknowledged \/ Drifted(t, g)
                        THEN [published EXCEPT ![g] = Listed] ELSE published
    /\ IF Stored("tenants")[t] = job[t].cr
       THEN Commit("tenants", t, [job[t].cr EXCEPT !.acknowledged = TRUE])
       ELSE UNCHANGED log
    /\ End(t)
    /\ UNCHANGED heldBy

\* Observe takes a deleted Tenant out of the mapping, and the runtime removes
\* the finalizer and with it the object.
Release(t) ==
    /\ At(t, "serve")
    /\ job[t].cr.deleting
    /\ published' = [published EXCEPT ![GrafanaOf(job[t].client)] = Listed \ {t}]
    /\ IF Stored("tenants")[t] = job[t].cr THEN Commit("tenants", t, None)
       ELSE UNCHANGED log
    /\ End(t)
    /\ UNCHANGED heldBy

-------------------------------------------------------------------------------
(* The reconcile of a config *)

ReconcileConfig(c) ==
    /\ running
    /\ c \in queue
    /\ configJob[c].step = "idle"
    /\ queue' = queue \ {c}
    /\ configJob' = IF Cached("configs")[c] = None THEN configJob
                    ELSE [configJob EXCEPT ![c] = [step |-> "list",
                                                   cr |-> Cached("configs")[c]]]
    /\ UNCHANGED <<log, born, job, running, published, heldBy, ops>>

ConfigAt(c, step) ==
    /\ configJob[c].step = step
    /\ UNCHANGED <<born, job, running, published, heldBy, ops>>

EndConfig(c) == configJob' = [configJob EXCEPT ![c] = ConfigIdle]

\* The usages in the cache that the controller of c counts.
Users(c) ==
    {t \in Tenants : Cached("usages")[t] # None /\ Counts(Cached("usages")[t], c)}

\* A deleted config waits for its users, of whom the watch tells; one that is
\* not deleted gets the finalizer it may not have yet.
ListUsages(c) ==
    /\ ConfigAt(c, "list")
    /\ LET cr == configJob[c].cr
           goto(step) == configJob' = [configJob EXCEPT ![c].step = step]
       IN  \/ cr.deleting /\ Users(c) = {} /\ goto("release")
           \/ cr.deleting /\ Users(c) # {} /\ EndConfig(c)
           \/ ~cr.deleting /\ ~cr.finalizer /\ goto("adopt")
           \/ ~cr.deleting /\ cr.finalizer /\ EndConfig(c)
    /\ UNCHANGED <<log, queue>>

\* A conflict puts the config back into the queue.
UpdateConfig(c, object) ==
    /\ IF Stored("configs")[c] = configJob[c].cr
       THEN Commit("configs", c, object) /\ UNCHANGED queue
       ELSE queue' = queue \cup {c} /\ UNCHANGED log
    /\ EndConfig(c)

AdoptConfig(c) ==
    /\ ConfigAt(c, "adopt")
    /\ UpdateConfig(c, [configJob[c].cr EXCEPT !.finalizer = TRUE])

ReleaseConfig(c) ==
    /\ ConfigAt(c, "release")
    /\ UpdateConfig(c, None)

-------------------------------------------------------------------------------
(* Specification *)

Environment ==
    \/ \E t \in Tenants, ref \in Refs : CreateTenant(t, ref) \/ RetargetTenant(t, ref)
    \/ \E t \in Tenants : DeleteTenant(t)
    \/ \E c \in Configs, k \in Contents : CreateConfig(c, k) \/ EditConfig(c, k)
    \/ \E c \in Configs : DeleteConfig(c)
    \/ Stop

JobStep(t) == Track(t) \/ Connect(t) \/ Adopt(t) \/ Publish(t) \/ Release(t)

ConfigStep(c) ==
    ReconcileConfig(c) \/ ListUsages(c) \/ AdoptConfig(c) \/ ReleaseConfig(c)

Next ==
    \/ Environment \/ Start
    \/ \E kind \in ObjectKinds : Deliver(kind)
    \/ \E t \in Tenants : CollectUsage(t) \/ Reconcile(t) \/ JobStep(t)
    \/ \E c \in Configs : ConfigStep(c)

Spec == Init /\ [][Next]_vars

\* The process is started again, its goroutines go on and its watches deliver;
\* a polled Tenant waits its turn; Kubernetes collects what has no owner.
Fairness ==
    /\ WF_vars(Start)
    /\ \A kind \in ObjectKinds : WF_vars(Deliver(kind))
    /\ \A t \in Tenants :
         SF_vars(Reconcile(t)) /\ WF_vars(JobStep(t)) /\ WF_vars(CollectUsage(t))
    /\ \A c \in Configs : WF_vars(ConfigStep(c))

FairSpec == Spec /\ Fairness

-------------------------------------------------------------------------------
(* Safety *)

\* A config whose use by a Tenant was known when its deletion was requested
\* stays until that Tenant is gone or uses another one, whatever the lag of the
\* caches, the reconciles in progress and restarts: Connect of that Tenant,
\* which the removal of its own finalizer needs, goes on working.
UsageProtects ==
    [][\A c \in Configs : heldBy[c] # {} => Stored("configs")'[c] # None]_vars

-------------------------------------------------------------------------------
(* Why a known use protects: the inductive invariant *)

\* The states of one kind that someone may still see: cached or on their way.
Copies(kind) == {log[kind][i] : i \in DOMAIN log[kind]}

\* Who holds a config uses it in every state of the usages still to be seen.
HoldersUse ==
    \A c \in Configs : \A t \in heldBy[c] : \A usages \in Copies("usages") : Uses(usages, t, c)

\* Only a config that is there and is being deleted is held.
HeldIsDeleted == \A c \in Configs : heldBy[c] # {} =>
    Stored("configs")[c] # None /\ Stored("configs")[c].deleting

\* The copies of a config that its cache and its reconcile have.
Seen(c) == {configs[c] : configs \in Copies("configs")} \cup {configJob[c].cr}

\* A uid is used once.
UidsAreOld == \A c \in Configs : \A seen \in Seen(c) : seen # None => seen.uid < ops

\* A deletion is never taken back.
DeletionIsFinal ==
    \A c \in Configs : \A seen \in Seen(c) :
        /\ seen # None /\ Stored("configs")[c] # None
        /\ seen.uid = Stored("configs")[c].uid /\ seen.deleting
        => Stored("configs")[c].deleting

\* A reconcile that is about to release a config found no use of it, and none
\* that was known when the deletion was requested can have been missed.
ReleasedIsFree ==
    \A c \in Configs : configJob[c].step = "release" =>
        /\ configJob[c].cr.deleting
        /\ Stored("configs")[c] # None /\ Stored("configs")[c].uid = configJob[c].cr.uid
           => heldBy[c] = {}

\* The inductive invariant of UsageProtects, for namespaced configs.
ProtectionInv ==
    /\ TypeOK
    /\ HoldersUse
    /\ HeldIsDeleted
    /\ UidsAreOld
    /\ DeletionIsFinal
    /\ ReleasedIsFree

-------------------------------------------------------------------------------
(* Why no deletion is forgotten *)

\* A config is reconciled only when an event or a conflict has put it into the
\* queue. One whose deletion its cache knows of is in the queue, is being
\* reconciled or has a user in the cache, whose event will wake it: no event gets
\* lost between a list of the usages and the end of that reconcile, in a restart
\* or by an edit.
WaitingIsWatched ==
    \A c \in Configs :
        LET cached == Cached("configs")[c]
            stored == Stored("configs")[c]
        IN  /\ running
            /\ stored # None /\ cached # None
            /\ cached.uid = stored.uid /\ cached.deleting
            => c \in queue \/ configJob[c].step # "idle" \/ Users(c) # {}

\* A reconcile works on what the cache has, or the config waits for the next one.
JobsAreFresh ==
    \A c \in Configs : configJob[c].step # "idle" =>
        /\ running
        /\ c \in queue \/ configJob[c].cr = Cached("configs")[c]
        /\ configJob[c].step = "adopt" => ~configJob[c].cr.deleting

-------------------------------------------------------------------------------
(* Liveness *)

Deleted(kind, key) == Stored(kind)[key] # None /\ Stored(kind)[key].deleting

\* A deleted config does not stay for ever when no usage refers to it: the
\* event of the last usage is not lost between a list and the next reconcile.
NoConfigForgotten ==
    \A c \in Configs :
        ~<>[](Deleted("configs", c) /\ \A t \in Tenants : ~Uses(Stored("usages"), t, c))

\* The config a Tenant refers to is there and a client can be made of it.
Connectable(t) ==
    \E c \in Configs :
        /\ Names(Stored("tenants")[t].ref, c)
        /\ Stored("configs")[c] # None
        /\ Usable(Stored("configs")[c].content)

\* A deleted Tenant whose config is there goes away, also when the config is
\* being deleted itself: neither waits for the other for ever.
NoTenantStuck ==
    \A t \in Tenants : ~<>[](Deleted("tenants", t) /\ Connectable(t))

\* Once the environment is quiet, the Grafana that the config of a Tenant with
\* groups names has an entry of its org, also when it is another one than before.
\* It need not be an entry of this Tenant: the drift check does not look further.
PublishedWhereConfigured ==
    <>[](\A t \in Grouped :
           Stored("tenants")[t] # None /\ ~Stored("tenants")[t].deleting =>
             \A c \in Configs :
                /\ Names(Stored("tenants")[t].ref, c)
                /\ Stored("configs")[c] # None
                /\ Usable(Stored("configs")[c].content)
                => OrgListed(t, GrafanaOf(ClientOf(Stored("configs")[c].content))))
===============================================================================
