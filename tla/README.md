# TLA+ models of provider-orgmapper

provider-orgmapper is a Crossplane provider with one managed resource, the
`Tenant`. A Tenant names a tenant id, an organisation (`orgId`), three lists of
OIDC groups (viewers, editors, admins), administrators and retention times. The
provider keeps no infrastructure of its own: it copies the spec of each Tenant
into its status and publishes the groups of all Tenants to one Grafana, as the
`org_mapping` value of Grafana's `generic_oauth` SSO settings, so that Grafana
can put a user into the right organisation with the right role at login.

This directory holds the TLA+ models of that program, the TLC configurations
that check them and the proofs that TLAPS checks.

## 1. Inventory

| Component | Source | State | Operations | Interacts with |
|---|---|---|---|---|
| Tenant controller (external client) | `internal/controller/tenant/tenant.go` | none of its own: the Tenant object in the API server (spec, status, conditions, external-name annotation, finalizer), read through an informer cache | `Observe`, `Create`, `Update`, `Delete`, `validateUniqueTenantID`, `isGrafanaDrifted`, `syncGrafanaOrgMapping`, `syncStatus`, `isUpToDate` | called by crossplane-runtime's managed reconciler, up to ten Tenants at once, which never gets to `Create` and `Delete` (below); lists all Tenants from the cache; calls the SSO client |
| Grafana SSO synchronisation | `internal/grafana/sso.go` | Grafana's `generic_oauth` settings: `orgMapping` and every other key | `SyncOrgMapping` (GET, change, PUT of the whole), `getOrInitSettings`, `BuildOrgMapping`, `OrgMappingContains`, `escapeColon` | shared by the reconciles of all Tenants, and by whoever administers Grafana |
| Org resolution | `internal/grafana/resolve.go` | none (pure) | `ResolveOrgIDs`, `globMatch`, `splitUnescapedColon` | reads the text `BuildOrgMapping` writes; no controller calls it yet |
| Grafana HTTP client | `internal/grafana/client.go` | none | `NewClient`, `basePath` | called by the connector |
| Connector and credentials | `tenant.go` 101-176 | none; reads the ProviderConfig and its secret | `Connect`, `extractConfig` | tracks usage of the ProviderConfig |
| ProviderConfig controllers | `internal/controller/config/config.go` | ProviderConfig, ClusterProviderConfig and their usages | crossplane-runtime's `providerconfig` reconciler | the connector's usages keep a ProviderConfig from being deleted |
| Provider process | `cmd/provider/main.go` | flags | start, stop | one process, `max-reconcile-rate` (10) reconciles at once, a poll of every resource each minute |
| API types | `apis/**` | - | validation rules of the CRDs | everything |
| Generated code | `apis/**/zz_generated*` | - | deep copies, accessors | - |

### What is hard about it

* **A shared read-modify-write.** Every Tenant's reconcile lists all Tenants,
  reads the settings, replaces `orgMapping` and writes the whole back. Ten of
  them may overlap, and Grafana offers no version check.
* **A cache that lags.** Observe and the listing read an informer cache; writes
  go to the API server and conflict when the copy is old.
* **Two systems, no transaction.** The status is in Kubernetes, the
  mapping in Grafana. A sync may fail, or succeed with its answer lost, after
  the status was changed in memory and before it is stored.
* **Best effort.** Update and the deletion flow swallow a failed sync. What is
  lost can only come back through the drift check of a later poll, and that
  check asks only for the org.
* **The managed reconciler's protocol.** `Setup` passes no initializer, so the
  runtime's default one gives every object an external name before Observe sees
  it. Observe takes a name for existence: no Tenant is ever reported for Create,
  and its check of `tenantId` never runs. Update does the work of Create, and
  deletion happens in Observe.
* **Users.** Specs change, also their tenant id and back again, between any two
  steps of a reconcile.

### What makes each component correct

* Tenant controller: a status only acknowledges a spec that is stored and, if
  the sync succeeded, was sent; Ready means the spec was observed; a Tenant goes
  only after its deletion was requested; Tenants become Ready and deleted ones
  go away whatever Grafana does. The documents also promise that tenant ids are
  unique and that a Ready Tenant is registered in Grafana, which the code does
  not keep (section 4).
* SSO synchronisation: other settings survive; in the end the mapping has every
  entry of every Tenant and none that no Tenant has.
* Org resolution: what `BuildOrgMapping` writes, `ResolveOrgIDs` reads back: a
  user gets the orgs of the groups that match a claim and no other.
* ProviderConfigs: one that a Tenant uses is not deleted under it.

## 2. Plan

| # | Module | Contents | State |
|---|---|---|---|
| 1 | `OrgMapping` | the mapping as a set of entries; building and searching it | done |
| 2 | `TenantController` | the controller, the reconciler that drives it, API server, cache, Grafana; extends 1 | done |
| 3 | `MCTenantController` | instances of 2 | done |
| 4 | `TenantController_proofs` | type correctness | done |
| 5 | `OrgMappingText`, `MCOrgMappingText` | the text of the mapping: escaping, building, the text search, splitting, glob matching and resolution, against module 1 and reference definitions over bounded inputs | done |
| 6 | `TenantRegistry` | the abstract promise of the controller; `TenantController` instantiates it under a refinement mapping | done |
| 7 | `TenantRegistry_proofs` | the step simulation of 6 | done |
| 8 | `TenantStatus_proofs` | what a status acknowledges and what Ready means, from an invariant on versions of an object | done |
| 9 | `GrafanaClient` | `NewClient` and `basePath`, operators | done |
| 10 | `ProviderConfigs`, `MCProviderConfigs` | Connect, usage tracking, the two config controllers, start and stop of the process; extends 9 | done |
| 11 | `ProviderConfigs_proofs` | type correctness, that a known use protects a config, and that no deletion is forgotten | done |
| 12 | `TenantSync_proofs` | the other settings of Grafana, with any number of workers | done |
| 13 | `SequenceLemmas` | induction over numbers without an operator as parameter; functions defined by recursion and `FlattenSeq` | done |
| 14 | `OrgMappingText_proofs` | the properties of 5, and that the search of the text is the search of entries in 1, for lists of any length and any readable names; extends 13 | done |
| 15 | `GrafanaClient_proofs` | the normal form of `basePath` for every path; extends 13 | done |

Proofs are worth it where the bounds of TLC hide the question: any number of
Tenants, of reconciles at once, of restarts, any lag of the caches, names of any
length. Liveness and fairness stay with TLC.

## 3. The model

### `OrgMapping`

`EntriesOf(p)` is what one Tenant contributes, `BuildOrgMapping` the union over
the listed Tenants, `OrgMappingContains` the drift test: any entry of the org,
and any entry whose group ends in a colon and the org, because the code searches
the text for `:orgId:`. Which groups end so is the constant `Lookalikes`.
The text `group:orgId:role,...` is a set of entries, so order, repetition and
escaping are not in this module. `OrgMappingText` is about them, and
`OrgMappingText_proofs` shows that the two searches find the same. `policy`
stands for administrators and retention, which are compared and acknowledged
and never sent to Grafana.

### `TenantController`

| State | Stands for |
|---|---|
| `log` | the states of the API server that the cache has not caught up with: `Cached == log[1]` is what the informer cache holds, `Stored`, the last one, is what the API server holds. A write appends, `Deliver` drops the first. |
| `job[t]` | the reconcile of `t` in progress: where it is, the operation it performs, the object it read, the mapping it built and the settings it read |
| `sso` | Grafana's settings: whether they exist, the other keys (one value), and the mapping |
| `grafanaUp` | whether Grafana answers |
| `born` | the UIDs given out, so that a new Tenant of an old name is a new object |
| `ops` | number of environment events, bounded by `MaxOps` |

Each read or write of shared state is one action; a method's work on its own
copy belongs to the action before or after it.

| Action | Code |
|---|---|
| `Reconcile` | Connect, and Observe up to its call of Grafana |
| `InitializeName` | the runtime's default initializer, which names an object after itself before Observe sees it, and goes on to Observe |
| `CheckDrift` | the rest of Observe: `isGrafanaDrifted`, its swallowed error, Available |
| `AddFinalizer` | the runtime's write before it calls Update |
| `ListTenants` | the List of `syncGrafanaOrgMapping` and `BuildOrgMapping`; the Tenant being deleted is left out |
| `getOrInitSettings`, `SyncOrgMapping` | the GET and the PUT; a missing resource is read as no settings |
| `SyncFails`, `ResponseLost` | either fails, and a PUT that was applied although its answer was lost |
| `PersistStatus` | the runtime writes the status that Update (`syncStatus`) and Observe (Available) left in memory |
| `RemoveFinalizer` | after Observe reported a deleted Tenant as gone |
| `CreateTenant`, `EditTenant`, `DeleteTenant`, `MappingDrifts`, `AdminConfigures`, `GrafanaFails`, `GrafanaRecovers`, `Restart` | users, the administrator of Grafana, failures |

Observe reports every deleted Tenant as not existing, so the runtime never calls
`Delete`; the deletion flow runs through `Observe`, as in the code. As every
Tenant has a name when Observe sees it, `Create` and `validateUniqueTenantID` are
not called either. None of the three has an action.

crossplane-runtime, controller-runtime, the API server and Grafana's API are not
in the repository. They are modelled from how the code uses them and marked
external in `PROJECT.json`; the default initializer, which `Setup` leaves in
force, is one of these.

### `OrgMappingText`

The same mapping as text. `escapeColon`, `BuildOrgMapping`, `OrgMappingContains`,
`splitUnescapedColon`, `globMatch` and `ResolveOrgIDs` are the functions of
`sso.go` and `resolve.go` on sequences of characters; `strings.Split`, `Join`,
`Contains` and `TrimSpace` are external. The two that scan a text character by
character are recursive functions: `read[i]` is what `splitUnescapedColon` has
after `i` characters, `from[n]` where the last `n` characters of a pattern match
up to the end. The one variable is the list of Tenants that a sync found;
`ListTenant` and `GiveRole` build every list within the bounds. The module
instantiates `OrgMapping` and says that

* the text is a faithful encoding of its entries (`EntriesSurvive`), which is
  what lets `TenantController` work with entries;
* resolution through it is right (`ResolvesGrants`, against `Matches`, a
  definition of glob patterns that does not scan);
* the drift check never misses an org that has an entry (`NeverMissesAnOrg`);
* it finds an org only if it has an entry (`FindsOnlyItsEntries`): what a comment
  in the code says, and not what the code does;
* what it finds is what `OrgMapping` says it finds (`SearchIsAbstract`, a theorem
  rather than a run): the orgs with an entry and those that the name of some
  group ends in after a colon, and nothing else.

`ReadableNames` is the condition for the first two and the last: a group has no
comma, does not begin with a space or end in a backslash; an orgId has no comma,
no colon and no backslash at its end. `BuildOrgMapping` escapes none of these,
and an entry of another name is read as a different one, or skipped. The names
in the instance satisfy it, which `MCOrgMappingText` asserts.

### `TenantRegistry`

What a user of Tenants may rely on, with no finalizer, no conditions, no cache
and no reconcile: one record for each Tenant, changed by `Register`, `Edit`,
`Name`, `Acknowledge`, `BecomeReady`, `RequestDeletion` and `Retire`. Its guards
are the promise: what is acknowledged is the spec of that moment, of a Tenant
that has its name and is not being deleted; only a Tenant whose spec is
acknowledged becomes Ready; one that was ever acknowledged goes only after its
deletion was requested.

`TenantController` refines it by `registry[t] = Registered(Stored[t])`: the spec
in the status is the acknowledgement, the conditions Ready, the deletion
timestamp the request. `ImplementsRegistry` is `Registry!Spec`. The registry
promises no unique tenant ids, which the program does not have (`MCDuplicate`),
and says nothing of Grafana, of which the code promises only its best effort.

### `GrafanaClient`

`basePath` (slashes trimmed at the end, `/api` added when it is not there), the
choice between basic authentication and a token, and `NewClient`. A path is the
sequence of its slashes and names; credentials are a text, of which the constant
`Decodes` says which ones are JSON and what their fields are.

### `ProviderConfigs`

The objects around a Tenant's connection and the three controllers that touch
them.

| State | Stands for |
|---|---|
| `log[kind]` | as `log` above, for Tenants (with `acknowledged`: the status is a copy of the spec), configs and usages, each with an informer cache of its own |
| `job[t]` | the reconcile of Tenant `t`: the Tenant it read and, once connected, its client |
| `configJob[c]` | the reconcile of config `c` by its controller |
| `queue` | the configs that wait for a reconcile |
| `running` | whether the process runs |
| `published[g]` | the Tenants whose entries are in the mapping of Grafana `g`; a Grafana is the origin and base path of a client |
| `heldBy[c]` | history: the Tenants whose use of `c` was known when its deletion was requested, and has not ended since |
| `born`, `ops` | as above |

| Action | Code |
|---|---|
| `Track` | the first half of Connect: the tracker's usage is created or updated, whatever becomes of the config |
| `Connect` | `extractConfig` (kind, existence, credentials) and `NewClient`; an error ends the reconcile |
| `Adopt`, `Publish`, `Release` | what TenantController has in detail: the finalizer, a sync, and the deletion flow, each with the client that Connect made, though the config may have changed |
| `ReconcileConfig`, `ListUsages`, `AdoptConfig`, `ReleaseConfig` | the runtime's `providerconfig` reconciler, of which `config.go` makes one for each kind of config: a config not deleted gets the finalizer, a deleted one that nobody uses loses it |
| `Deliver` | a watch event; one of a config or of a usage puts the config into `queue`, as the `Watches` of `config.go` say |
| `CollectUsage` | Kubernetes collects the usage of a Tenant that is gone |
| `Stop`, `Start` | the process ends, with its reconciles, queues and caches, and begins again with a list of everything |
| `CreateTenant`, `RetargetTenant`, `DeleteTenant`, `CreateConfig`, `EditConfig`, `DeleteConfig` | users |

The constants `OrgOf` and `Grouped` say of each Tenant which org it is of and
whether it has groups. `Drifted` is `isGrafanaDrifted`: it asks whether the
mapping of the client's Grafana lists the org, through whichever Tenant
(`OrgListed`), and never finds drift in a Tenant without groups. `Publish` syncs
a Tenant that is not acknowledged (Update) or whose org is missing. A change of
`providerConfigRef` is no change of `spec.forProvider`, so it leaves
`acknowledged` alone, and the drift check is all that sees it.

Which usages a controller counts is `UsageKind`, which one the connector writes
is `TrackedUsage`; that they differ for a `ClusterProviderConfig` is the finding
of `MCCluster`. A usage is counted for the config its reference names, a
reference without a kind for the namespaced one.

### What is abstracted

* A write conflicts when the stored object is no longer the one read. The model
  compares values, which include the generation, rather than resource versions.
* A write of the API server that fails for another reason ends the reconcile,
  as `Restart` ends all of them; it has no action of its own. The List from the
  cache does not fail.
* A `Restart` takes with it the PUTs in flight.
* `LastUpdated`, the wording of conditions, events and logs are left out. Lists
  of groups are sets: `slicesEqual` also tells an order apart, which causes an
  extra update and no other difference.
* A `Settings` value stands for everything in the settings but `orgMapping`.
  Settings that are not a map, which the drift check takes for drift and a sync
  for an error, are not modelled: Grafana's API returns a map.
* One replica: leader election is off by default and not modelled.
* One Grafana in `TenantController`: every Tenant uses the same ProviderConfig,
  and Connect succeeds. In `ProviderConfigs` there are several, and a sync is one
  step: the listing, which the code does not filter by config, published to the
  Grafana of the client.
* In `ProviderConfigs` the Secret is folded into the config that names it, the
  namespace of a config and of its Tenants is left out, and so is the count of
  users that the config's controller writes into `status.users`.
* Tenants of different namespaces are not told apart, as in the code: its List
  has no namespace and it compares UIDs.
* Text: one character stands for the name of a role, and `ResolveOrgIDs`' sorted
  list without duplicates is a set.

### Fairness

`Fairness` is weak fairness of `Deliver` (a watch delivers) and of each
`JobStep(t)` (a goroutine goes on; each call has an answer or a timeout), and
strong fairness of `Starting(t)`: every Tenant is polled each minute and waits in
a first-in-first-out queue for a worker, so one that can start again and again
does start. Nothing is assumed of users or of Grafana; only `RecoveringSpec`
adds that an outage ends.

`ProviderConfigs` has the same: weak fairness of `Start` (Kubernetes starts a
stopped process again), of `Deliver`, of each `JobStep(t)` and `ConfigStep(c)`,
and of `CollectUsage(t)` (the garbage collector); strong fairness of
`Reconcile(t)`, by the poll. A config is not polled: it is reconciled only when
an event or a conflict has put it into `queue`, and `WaitingIsWatched` and
`NoConfigForgotten` are about that.

## 4. What the runs check

The runs of the controller are in `MCTenantController`, those of the text in
`MCOrgMappingText`, those of the configs in `MCProviderConfigs`. `CHECK_DEADLOCK
FALSE` everywhere: once no object is left and the events are used up, nothing
happens any more, and a list of Tenants stops growing at its bounds; both are
right.

| Run | Bounds | Result |
|---|---|---|
| `MCSafety` | 2 Tenants, 2 workers, edits also undone, deletions also of objects not adopted yet, restarts, outages; 4 events, lag 1 | `TypeOK`; `AcknowledgedSpecWasListed`, `ReadyMeansObserved`: a status only ever acknowledges the spec that is stored, and if the sync succeeded the mapping it sent had that spec; `ImplementsRegistry`: the controller implements `TenantRegistry`; `SettingsPreserved` |
| `MCSerial` | 2 Tenants, one worker, Grafana up, edits and deletions; 4 events, lag 2 | `AcknowledgedGrantsPresent`, `GrantsConverge`: without overlap and outages the mapping is what it should be |
| `MCOutage` | 2 Tenants, one worker, Grafana may stay down; 4 events | `StatusConverges`, `DeletionCompletes`: Grafana never blocks a Tenant |
| `MCDrift` | 2 Tenants that edits move between two orgs, 2 workers, edits undone, outages that end, a mapping emptied by hand, other settings saved; 3 events | `OrgsConverge`: the drift check brings every org back |
| `MCText` | lists of 2 Tenants with 2 groups; names of up to two characters of `a : \ *` and some longer ones, among them names that end in an org after a colon; two orgs one of which is a prefix of the other, 10 claims | `EntriesSurvive`, `ResolvesGrants`, `NeverMissesAnOrg` hold |
| `MCConfigs` | 1 Tenant, a config and a reference of a kind the connector refuses, 2 Grafanas, edits, retargets, deletions, restarts; 4 events, lag 1 | `UsageProtects` and its inductive invariant: a known use keeps the config; `WaitingIsWatched`: a config that the cache shows as being deleted is queued, being reconciled or has a user whose end will wake it; `NoConfigForgotten`, `NoTenantStuck`: a config without users and a Tenant with a config go away once deleted, and neither waits for the other for ever; `PublishedWhereConfigured`: in the end the Grafana the config names lists the Tenant's org |

and the disagreements between code and documents, each a run whose property TLC
finds violated:

| Run | Property | What happens |
|---|---|---|
| `MCDuplicate` | `UniqueTenantIDs` | two Tenants created with one `tenantId` both become Ready: every object is named before Observe, so the check in Create is never reached, and Update checks nothing |
| `MCUnregistered` | `RegisteredBeforeReady` | the sync of a new Tenant's Update fails and is logged, the status is written, and the next Observe makes the Tenant Ready with nothing in Grafana |
| `MCRace` | `GrantsConverge` | the late PUT of another reconcile removes a new group; nothing repairs it |
| `MCResurrected` | `DeletedEntriesVanish` | of two Tenants deleted one after the other, the sync of the second writes the entries of the first again |
| `MCLookalike` | `FindsOnlyItsEntries` | the group `:1` of org 11, written `\:1:11:Viewer`, passes for an entry of org 1, and the loss of org 1's own entries would be no drift |
| `MCCluster` | `UsageProtects` | the connector writes a `ProviderConfigUsage` for a `ClusterProviderConfig` too, whose controller counts `ClusterProviderConfigUsage`: the config goes away under the Tenant |

Where a property holds, these limits of the code are limits of what it says:

* `SettingsPreserved` is checked without changes by the administrator: one
  between a sync's GET and its PUT is undone, which TLC shows at once when
  `"settings"` is added to the events of `MCSafety`.
* `GrantsConverge` is checked without edits that are undone: with `"revert"`
  among the events of `MCSerial`, an edit that was published and then undone
  before its status was written leaves Grafana with the groups of the undone
  spec, and Observe takes the Tenant for up to date.
* `OrgsConverge` speaks of orgs and not of groups: the drift check is content
  with any entry of the org, so a group that is missing is not drift. It holds
  where no group ends in a colon and an orgId (`NoLookalikes`): with one, the
  entry of another org hides the drift, as `MCLookalike` shows of the search.
* `PublishedWhereConfigured` speaks of orgs for the same reason. When `t1` and
  `t2` are of one org and `t2` is retargeted to a Grafana that was last written
  before `t2` was there, and which lists `t1`, Observe finds `t2` up to date and
  the drift check finds the org: the groups of `t2` need not get there. The run
  has one Tenant, as a second one multiplies its states beyond what TLC checks
  with fairness, and the property does not claim more than the org.

A run that holds and a run that fails may differ in the instance alone, and then
the pair says what the property depends on: `MCSerial` against `MCRace` (one
worker), `MCConfigs` against `MCCluster` (the kind of the config).

`UsageProtects` speaks of uses that were known when the deletion was requested:
the usage had reached the cache of the config's controller, and the config had
the controller's finalizer. Before that, a config may go although a Tenant is
about to use it; the Tenant then waits until the config is created again.

`MCProviderConfigs` also has TLC evaluate the pure functions, as assumptions:
`basePath` over every path of up to five parts (`BasePathIsNormal`), the cases of
the code's own test (`BasePathCases`), the choice of credentials (`ClientCases`)
and the default kind of a reference (`ReferenceCases`).

Why the bounds are enough: the interferences are between two reconciles, or one
reconcile and its user, so two Tenants have them all; with two specs of one
Tenant there is an edit that matters; four events let both Tenants be created
and two things go wrong (in `MCDrift` three: one Tenant and two of them, or two
Tenants and one); a cache one write behind gives stale reads, and two, in
`MCSerial`, let both the acknowledgement of a spec and a later edit of it be
unseen. In `MCConfigs` one Tenant and one config have every interleaving of a
usage with the count that may miss it; the four events let both be created, the
config be deleted and one thing happen in between, and the refused reference is
one the Tenant may leave the config for. Every run reaches every step it is
about: the mutants in `PROJECT.json`, one for each property, change one
definition as a plausible mistake in the code would, and TLC then finds that
property violated.

## 5. What is proved

All for every set of Tenants, specs, settings, configs and references, any
number of workers, events and restarts, and any lag of the caches.

### `TenantController_proofs`

* `TypeCorrectness`: `Spec => []TypeOK`. That an update writes a well-typed
  object depends on the job having one, and that a sync knows how to go on
  depends on its operation; `JobsWellFormed`, a part of `TypeOK`, says both.

### `TenantRegistry_proofs`

* `RegistryIsImplemented`: `Spec => ImplementsRegistry`. Every action either
  changes one stored Tenant, and then its record as an action of the registry
  does, or leaves all records as they are. `RegistryInv` says what the guards of
  the registry need. A reconcile that may write a status has an object that was
  named and not being deleted when it was read, and its write of that very object
  succeeds only if it is still the stored one (`JobsKnow`). That an acknowledged
  Tenant is never simply gone rests on the finalizer: the API server removes an
  object without one at once, so the invariant says that an object with a status
  has it, and that no stale copy, in the cache or in a reconcile, has one that
  the object has not (`Finalized`).

### `TenantStatus_proofs`

* `StatusesAreListed`: `Spec => AcknowledgedSpecWasListed`, and
  `ReadyIsObserved`: `Spec => ReadyMeansObserved`, without assumptions on the
  events. An object goes through cache, reconcile and a status write, each with
  its own copy; `StatusInv` says that copies of one version are one spec
  (`VersionsGrow`, `JobsAreBehind`), that what a sync lists is at least as late
  as what its reconcile read (`SyncedIsLate`) and hence, if it is the version
  that is stored in the end, has that spec (`ListedOwnSpec`).

### `TenantSync_proofs`

* `OtherSettingsAreKept`: `Spec => SettingsPreserved`, assuming no `"settings"`
  among the events, for any number of workers: a job about to PUT holds the
  settings that Grafana has, and no PUT of another job changes them.

### `ProviderConfigs_proofs`

* `ConfigsTyped`: `Spec => []TypeOK`.
* `ProtectionHolds`: `Spec => []ProtectionInv`, and from it `KnownUsesProtect`:
  `Spec => UsageProtects`, assuming that every config is a `ProviderConfig`
  (`MCCluster` shows that this is needed). A release is decided on a cached list
  and done later, so the invariant has to say why no use is missed: a holder's
  usage is in every copy that the cache has or will get (`HoldersUse`), only a
  config that is being deleted is held (`HeldIsDeleted`), the deletion a
  reconcile read is the stored config's own and final (`UidsAreOld`,
  `DeletionIsFinal`); hence a reconcile about to release found nobody, and nobody
  can come to hold the config after its deletion (`ReleasedIsFree`).
* `DeletionsAreNeverForgotten`: `Spec => []WaitingIsWatched`, without assumptions,
  for both kinds of configs. It is the safety half of `NoConfigForgotten`: no
  interleaving of the usages' events with the list of a reconcile, its conflict
  or a restart leaves a deleted config with nothing that would look at it again.
  `WakeupInv` adds what makes it inductive. UIDs in use have been given out
  (`UidsGivenOut`), so a config that is created anew is not the one that waits;
  and a reconcile works on the config that the cache has, or the config is back in
  the queue (`JobsAreFresh`), so that one that ends because it counted a user
  leaves either that user's usage in the cache or an entry in the queue.

### `SequenceLemmas`

What the proofs about texts need and the libraries do not have: least and
greatest members of sets of numbers, induction up to a bound (on a set of
numbers rather than a predicate, so that no operator is a parameter), the
existence of a function defined by recursion, and what `FlattenSeq` of the
community modules gives: its length, its range, and where the elements of the
n-th sequence are.

### `OrgMappingText_proofs`

For lists of any length, and names of any length over any characters:

* `OrgIsNeverMissed`: `Spec => []NeverMissesAnOrg`, assuming only that no orgId has
  a comma (`NoCommaInOrgIds`). A group may have commas that cut its entry in
  pieces: the last piece still has the org (`LastPart`), and trimming it does
  not take the org away (`TrimmedKeeps`).
* `EntriesAlwaysSurvive`: `Spec => []EntriesSurvive`, assuming `ReadableNames`.
  Splitting at the commas undoes the join (`SplitJoin`); an entry has no comma and
  nothing to trim (`EntryIsPlain`); and `splitUnescapedColon` gives its three
  fields (`EntryIsReadBack`), by induction along the escaped name: `pos[k]` is
  where the k-th character of the name ends in it (`EscapedPositions`), and up
  to there the reader has read the first k characters and ended no field
  (`ReadEscaped`).
* `GrantsAlwaysResolved`: `Spec => []ResolvesGrants`, assuming `ReadableNames`. What
  is new is `GlobMatchMatches`: the scan from the end of the pattern agrees with
  `Matches`, the existence of a cut of the text into what each character of the
  pattern stands for (`CutOneMore` extends a cut by one character).
* `SearchIsModelled`: `Spec => []SearchIsAbstract`, assuming `ReadableNames`.
  `OrgInEntry` goes through the places where `:orgId:` can begin in an entry: in
  the escaped group every colon comes after a backslash (`ColonsAreEscaped`), so
  the search can only end at the separator, and then the group ends in
  the org (`EscapedEnd`); at the separator itself it finds the entry's org.

### `GrafanaClient_proofs`

* `BasePathIsReached`: for a path of any length `basePath` ends in the API, is its
  own normal form, and does not depend on a slash at the end. `MCProviderConfigs`
  evaluates the same for short paths.

### Assumptions, and what is only model-checked

The assumptions on constants are `ControllerAssumption`, `NoneAssumption` (one in
each module), `RecordsAssumption`, `ConfigsAssumption`, `DecodesAssumption` and
`TextAssumption`: the shape of the parameters, and that `None` is no object. TLC
evaluates them on every run. `ReadableNames` and `NoCommaInOrgIds` are not among
them: they are hypotheses of the theorems that need them, because the code
accepts names that do not satisfy them.

Every invariant and every action property that a passing run checks is a
theorem, but for `AcknowledgedGrantsPresent`, which needs one worker and a
Grafana that stays up and is checked on its run. Only model-checked are also the
liveness properties (`GrantsConverge`, `StatusConverges`, `DeletionCompletes`,
`OrgsConverge`, `NoConfigForgotten`, `NoTenantStuck`, `PublishedWhereConfigured`),
as the prover handles neither fairness nor `ENABLED`; the choice of credentials
and the default kind of a reference are evaluated on their cases.

## 6. What is not modelled

* `Create`, `validateUniqueTenantID` and `Delete` of the Tenant controller: the
  program never calls them. `Create` would be reached if `Setup` passed an empty
  list of initializers (`managed.WithInitializers()`), and the models would then
  need its steps again.
* Characters of several bytes: `globMatch` works on bytes (`resolve.go` 66), so
  that `?`, which its comment says stands for one character, stands for one byte.
  The model's characters are bytes.
* Generated code and registration: deep copies and accessors have no behaviour
  of their own where every value is a copy.
* Leader election and several replicas: off by default. Flags, logging, metrics,
  change logs and management policies of the process.
* `status.users` of a config, which nothing in the program reads.
* The validation rules of the CRDs: the specs in the instances satisfy them.
