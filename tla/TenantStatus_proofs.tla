-------------------------- MODULE TenantStatus_proofs --------------------------
(***************************************************************************)
(* What a status may say: the action properties AcknowledgedSpecWasListed  *)
(* and ReadyMeansObserved of TenantController, for every set of Tenants    *)
(* and specs, every number of workers, every lag of the cache and every    *)
(* edit.                                                                   *)
(***************************************************************************)
EXTENDS TenantController_proofs

\* b may be a later state of the object a.
Later(a, b) ==
    b # None => /\ a.generation <= b.generation
                /\ a.generation = b.generation => a.spec = b.spec

SameVersion(a, b) == a.generation = b.generation /\ a.spec = b.spec

\* An object that was seen and is gone does not come back.
NoReturn ==
    \A t \in Tenants, i, j \in DOMAIN log :
        i <= j /\ log[i][t] # None /\ Stored[t] # None => log[j][t] # None

\* A spec never changes without its generation.
VersionsGrow ==
    \A t \in Tenants, i, j \in DOMAIN log :
        i <= j /\ log[i][t] # None => Later(log[i][t], log[j][t])

\* The object of a reconcile comes from the cache: no state the cache may still
\* get to is older.
JobsAreBehind ==
    \A t \in Tenants, i \in DOMAIN log : job[t].step # "idle" =>
        /\ Later(job[t].cr, log[i][t])
        /\ Stored[t] # None => log[i][t] # None

\* The list of this sync is made.
Sent(j) == j.step \in {"get", "put"} \/ j.synced

SyncedIsLate ==
    \A t \in Tenants : job[t].synced => job[t].step \in {"persist", "release"}

\* A sync that listed a newer spec of its own Tenant belongs to a reconcile
\* whose object is stale.
ListedOwnSpec ==
    \A t \in Tenants :
        /\ Sent(job[t]) /\ job[t].op # "delete"
        /\ Stored[t] # None /\ Stored[t].generation = job[t].cr.generation
        => EntriesOf(job[t].cr.spec) \subseteq job[t].want

StatusInv ==
    /\ TypeOK
    /\ SeenAreBorn
    /\ NoReturn
    /\ VersionsGrow
    /\ JobsAreBehind
    /\ SyncedIsLate
    /\ ListedOwnSpec

-------------------------------------------------------------------------------
(* What a step may do to one Tenant's object and job *)

Continues(old, new) == new.want = old.want /\ new.cr = old.cr

\* The list has the spec of the cache.
Lists(old, new, cached) ==
    /\ old.step # "idle" /\ new.cr = old.cr
    /\ cached # None => EntriesOf(cached.spec) \subseteq new.want

\* What a write says of the status.
Truthful(old, j, object) ==
    /\ object.status # old.status =>
         /\ object.status = object.spec
         /\ j.synced => old = j.cr /\ object.spec = j.cr.spec /\ j.op # "delete"
    /\ object.ready /\ ~old.ready => object.status = object.spec

StatusStep(t, new, object) ==
    /\ new \in Jobs
    /\ object \in Objects \cup {None}
    /\ job' = [job EXCEPT ![t] = new]
    /\ Commit(t, object)
    /\ born' = born
    /\ object # None =>
         Stored[t] # None /\ Later(Stored[t], object) /\ Truthful(Stored[t], job[t], object)
    /\ new.step # "idle" =>
         \/ job[t].step # "idle" /\ SameVersion(new.cr, job[t].cr)
         \/ Cached[t] # None /\ SameVersion(new.cr, Cached[t])
    /\ new.synced => new.step \in {"persist", "release"}
    /\ Sent(new) /\ new.op # "delete" =>
         \/ Sent(job[t]) /\ job[t].op # "delete" /\ Continues(job[t], new)
         \/ Lists(job[t], new, Cached[t])

LEMMA StatusStepLog ==
    ASSUME TypeOK, NEW t \in Tenants, NEW new, NEW object, StatusStep(t, new, object)
    PROVE  /\ \A i \in DOMAIN log' :
                \/ i \in DOMAIN log /\ log'[i] = log[i]
                \/ log'[i] = Stored' /\ \A j \in DOMAIN log : j <= i
           /\ DOMAIN log' \subseteq Nat
           /\ Stored'[t] = object
           /\ \A u \in Tenants \ {t} : Stored'[u] = Stored[u]
           /\ job'[t] = new
           /\ \A u \in Tenants \ {t} : job'[u] = job[u]
<1>1. /\ job'[t] = new
      /\ \A u \in Tenants \ {t} : job'[u] = job[u]
  BY DEF StatusStep, TypeOK
<1>2. DOMAIN log \subseteq Nat /\ \A j \in DOMAIN log : j <= Len(log)
  BY LogFacts
<1>3. CASE Stored[t] = object /\ UNCHANGED log
  BY <1>1, <1>2, <1>3 DEF Stored
<1>4. CASE log' = Append(log, [Stored EXCEPT ![t] = object])
  <2>1. object \in Objects \cup {None}
    BY DEF StatusStep
  <2>2. /\ DOMAIN log' = 1..(Len(log) + 1)
        /\ Len(log') = Len(log) + 1
        /\ \A i \in DOMAIN log : log'[i] = log[i]
        /\ \A i \in DOMAIN log' : i \in DOMAIN log \/ i = Len(log')
        /\ log'[Len(log')] = Stored'
        /\ Stored'[t] = object
        /\ \A u \in Tenants \ {t} : Stored'[u] = Stored[u]
    BY <1>4, <2>1, WriteFacts
  <2>3. \A j \in DOMAIN log : j <= Len(log')
    BY <1>2, <2>2, LogFacts
  <2>4. DOMAIN log' \subseteq Nat
    BY <2>2, LogFacts
  <2> QED
    BY <1>1, <2>2, <2>3, <2>4
<1> QED
  BY <1>3, <1>4 DEF StatusStep, Commit

\* Copies in the log are None or have a generation.
LEMMA LogTyped ==
    ASSUME TypeOK
    PROVE  \A i \in DOMAIN log, t \in Tenants :
             log[i][t] # None => log[i][t] \in Objects /\ log[i][t].generation \in Nat
<1>1. log \in Seq(Stores)
  BY DEF TypeOK
<1>2. \A i \in DOMAIN log : log[i] \in Stores
  BY <1>1, ElementOfSeq, LogFacts
<1> QED
  BY <1>2 DEF Stores, Objects

LEMMA StatusStepInv ==
    ASSUME StatusInv, TypeOK', NEW t \in Tenants, NEW new, NEW object,
           StatusStep(t, new, object)
    PROVE  StatusInv'
<1>1. /\ TypeOK /\ SeenAreBorn /\ NoReturn /\ VersionsGrow /\ JobsAreBehind
      /\ SyncedIsLate /\ ListedOwnSpec
  BY DEF StatusInv
<1>2. /\ \A i \in DOMAIN log' :
           \/ i \in DOMAIN log /\ log'[i] = log[i]
           \/ log'[i] = Stored' /\ \A j \in DOMAIN log : j <= i
      /\ DOMAIN log' \subseteq Nat
      /\ Stored'[t] = object
      /\ \A u \in Tenants \ {t} : Stored'[u] = Stored[u]
      /\ job'[t] = new
      /\ \A u \in Tenants \ {t} : job'[u] = job[u]
  BY <1>1, StatusStepLog
<1>3. /\ 1 \in DOMAIN log
      /\ Len(log) \in DOMAIN log
      /\ Cached = log[1]
      /\ Stored = log[Len(log)]
      /\ \A i \in DOMAIN log : i \in Nat /\ 1 <= i /\ i <= Len(log)
  BY <1>1, LogFacts
<1>4. \A i \in DOMAIN log, u \in Tenants : log[i][u] # None => log[i][u].generation \in Nat
  BY <1>1, LogTyped
<1>5. object # None => /\ Stored[t] # None /\ Later(Stored[t], object)
                       /\ object.generation \in Nat
  BY DEF StatusStep, Objects
<1>6. \A u \in Tenants : /\ Stored'[u] # None => Stored[u] # None
                         /\ Stored[u] # None => Later(Stored[u], Stored'[u])
                         /\ Stored'[u] # None => Stored'[u].generation \in Nat
  BY <1>2, <1>3, <1>4, <1>5 DEF Later
\* A copy that precedes Stored precedes Stored'.
<1>7. \A u \in Tenants, i \in DOMAIN log : log[i][u] # None => Later(log[i][u], Stored'[u])
  <2> SUFFICES ASSUME NEW u \in Tenants, NEW i \in DOMAIN log, log[i][u] # None,
                      Stored'[u] # None
               PROVE  Later(log[i][u], Stored'[u])
    BY DEF Later
  <2>1. Later(log[i][u], Stored[u]) /\ Stored[u] # None /\ Later(Stored[u], Stored'[u])
    BY <1>1, <1>3, <1>6 DEF VersionsGrow
  <2>2. /\ log[i][u].generation \in Nat /\ Stored[u].generation \in Nat
        /\ Stored'[u].generation \in Nat
    BY <1>3, <1>4, <1>6, <2>1
  <2> QED
    BY <2>1, <2>2 DEF Later
<1>8. SeenAreBorn'
  <2>1. born' = born /\ (new.step # "idle" => job[t].step # "idle" \/ Cached[t] # None)
    BY DEF StatusStep
  <2> SUFFICES ASSUME NEW u \in Tenants,
                      job'[u].step # "idle" \/ \E i \in DOMAIN log' : log'[i][u] # None
               PROVE  job[u].step # "idle" \/ \E i \in DOMAIN log : log[i][u] # None
    BY <1>1, <2>1 DEF SeenAreBorn
  <2>2. ASSUME NEW i \in DOMAIN log', log'[i][u] # None
        PROVE  \E j \in DOMAIN log : log[j][u] # None
    BY <1>2, <1>3, <1>6, <2>2
  <2> QED
    BY <1>2, <1>3, <2>1, <2>2
<1>9. NoReturn'
  <2> SUFFICES ASSUME NEW u \in Tenants, NEW i \in DOMAIN log', NEW j \in DOMAIN log',
                      i <= j, log'[i][u] # None, Stored'[u] # None
               PROVE  log'[j][u] # None
    BY DEF NoReturn
  <2>1. CASE log'[j] = Stored'
    BY <2>1
  <2>2. CASE j \in DOMAIN log /\ log'[j] = log[j] /\ i \in DOMAIN log /\ log'[i] = log[i]
    BY <1>1, <1>6, <2>2 DEF NoReturn
  <2>3. CASE /\ j \in DOMAIN log /\ log'[j] = log[j]
             /\ log'[i] = Stored' /\ \A k \in DOMAIN log : k <= i
    <3>1. i = j
      BY <1>2, <2>3
    <3> QED
      BY <3>1
  <2> QED
    BY <1>2, <2>1, <2>2, <2>3
<1>10. VersionsGrow'
  <2> SUFFICES ASSUME NEW u \in Tenants, NEW i \in DOMAIN log', NEW j \in DOMAIN log',
                      i <= j, log'[i][u] # None
               PROVE  Later(log'[i][u], log'[j][u])
    BY DEF VersionsGrow, Later
  <2>1. CASE i \in DOMAIN log /\ log'[i] = log[i] /\ log'[j] = Stored'
    BY <1>7, <2>1
  <2>2. CASE j \in DOMAIN log /\ log'[j] = log[j] /\ i \in DOMAIN log /\ log'[i] = log[i]
    BY <1>1, <2>2 DEF VersionsGrow
  <2>3. CASE /\ j \in DOMAIN log /\ log'[j] = log[j]
             /\ log'[i] = Stored' /\ \A k \in DOMAIN log : k <= i
    <3>1. i = j
      BY <1>2, <2>3
    <3> QED
      BY <1>6, <2>3, <3>1 DEF Later
  <2>4. CASE log'[i] = Stored' /\ log'[j] = Stored'
    BY <1>6, <2>4 DEF Later
  <2> QED
    BY <1>2, <2>1, <2>2, <2>3, <2>4
\* The same for the object of a reconcile.
<1>11. ASSUME NEW u \in Tenants, job'[u].step # "idle"
       PROVE  /\ \A i \in DOMAIN log : Later(job'[u].cr, log[i][u])
              /\ \A i \in DOMAIN log : Stored[u] # None => log[i][u] # None
              /\ job'[u].cr.generation \in Nat
  <2>1. job'[u].cr.generation \in Nat
    BY <1>11 DEF TypeOK, JobsWellFormed, Objects
  <2>2. CASE job[u].step # "idle" /\ SameVersion(job'[u].cr, job[u].cr)
    BY <1>1, <2>1, <2>2 DEF JobsAreBehind, Later, SameVersion
  <2>3. CASE Cached[u] # None /\ SameVersion(job'[u].cr, Cached[u])
    BY <1>1, <1>3, <2>1, <2>3 DEF VersionsGrow, NoReturn, Later, SameVersion
  <2>4. CASE job'[u] = job[u]
    BY <1>1, <1>11, <2>1, <2>4 DEF JobsAreBehind
  <2> QED
    BY <1>2, <1>11, <2>2, <2>3, <2>4 DEF StatusStep
<1>12. ASSUME NEW u \in Tenants, job'[u].step # "idle"
       PROVE  Later(job'[u].cr, Stored'[u])
  <2>1. /\ Later(job'[u].cr, Stored[u]) /\ job'[u].cr.generation \in Nat
        /\ Stored[u] # None => Stored[u].generation \in Nat
    BY <1>3, <1>4, <1>11, <1>12
  <2> QED
    BY <1>6, <2>1 DEF Later
<1>13. JobsAreBehind'
  <2> SUFFICES ASSUME NEW u \in Tenants, NEW i \in DOMAIN log', job'[u].step # "idle"
               PROVE  /\ Later(job'[u].cr, log'[i][u])
                      /\ Stored'[u] # None => log'[i][u] # None
    BY DEF JobsAreBehind, Later
  <2> QED
    BY <1>2, <1>6, <1>11, <1>12
<1>14. SyncedIsLate'
  BY <1>1, <1>2 DEF SyncedIsLate, StatusStep
<1>15. ListedOwnSpec'
  <2> SUFFICES ASSUME NEW u \in Tenants, Sent(job'[u]), job'[u].op # "delete",
                      Stored'[u] # None, Stored'[u].generation = job'[u].cr.generation
               PROVE  EntriesOf(job'[u].cr.spec) \subseteq job'[u].want
    BY DEF ListedOwnSpec, Sent
  <2>1. job'[u].step # "idle"
    BY <1>14 DEF Sent, SyncedIsLate
  \* Nobody has written a newer spec.
  <2>2. Stored[u] # None /\ Stored[u].generation = job'[u].cr.generation
    <3>1. /\ Stored[u] # None /\ Later(Stored[u], Stored'[u]) /\ Later(job'[u].cr, Stored[u])
          /\ Stored[u].generation \in Nat /\ job'[u].cr.generation \in Nat
      BY <1>3, <1>4, <1>6, <1>11, <2>1
    <3> QED
      BY <1>6, <3>1 DEF Later
  <2>3. CASE Sent(job[u]) /\ job[u].op # "delete" /\ Continues(job[u], job'[u])
    BY <1>1, <2>2, <2>3 DEF ListedOwnSpec, Continues
  <2>4. CASE Lists(job[u], job'[u], Cached[u])
    <3>1. /\ Cached[u] # None /\ Later(job'[u].cr, Cached[u])
          /\ Later(Cached[u], Stored[u])
          /\ Cached[u].generation \in Nat /\ job'[u].cr.generation \in Nat
      BY <1>1, <1>3, <1>4, <1>11, <2>1, <2>2 DEF VersionsGrow
    <3>2. Cached[u].generation = job'[u].cr.generation
      BY <2>2, <3>1 DEF Later
    <3>3. Cached[u].spec = job'[u].cr.spec
      BY <3>1, <3>2 DEF Later
    <3> QED
      BY <2>4, <3>1, <3>3 DEF Lists
  <2>5. CASE u # t
    BY <1>2, <2>3, <2>5 DEF Continues
  <2>6. CASE u = t
    <3>1. \/ Sent(job[t]) /\ job[t].op # "delete" /\ Continues(job[t], new)
          \/ Lists(job[t], new, Cached[t])
      BY <1>2, <2>6 DEF StatusStep
    <3> QED
      BY <1>2, <2>3, <2>4, <2>6, <3>1
  <2> QED
    BY <2>5, <2>6
<1> QED
  BY <1>8, <1>9, <1>10, <1>13, <1>14, <1>15 DEF StatusInv

\* What every step says of statuses.
Acknowledges ==
    \A t \in Tenants : Stored[t] # None /\ Stored'[t] # None =>
        /\ Stored'[t].status # Stored[t].status =>
             /\ Stored'[t].status = Stored'[t].spec
             /\ job[t].synced => EntriesOf(Stored'[t].spec) \subseteq job[t].want
        /\ Stored'[t].ready /\ ~Stored[t].ready => Stored'[t].status = Stored'[t].spec

LEMMA StatusStepAcknowledges ==
    ASSUME StatusInv, NEW t \in Tenants, NEW new, NEW object, StatusStep(t, new, object)
    PROVE  Acknowledges
<1>1. TypeOK /\ ListedOwnSpec
  BY DEF StatusInv
<1>2. Stored'[t] = object /\ \A u \in Tenants \ {t} : Stored'[u] = Stored[u]
  BY <1>1, StatusStepLog
<1>3. ASSUME object # None
      PROVE  /\ object.status # Stored[t].status =>
                  /\ object.status = object.spec
                  /\ job[t].synced => EntriesOf(object.spec) \subseteq job[t].want
             /\ object.ready /\ ~Stored[t].ready => object.status = object.spec
  <2>1. Stored[t] # None /\ Truthful(Stored[t], job[t], object)
    BY <1>3 DEF StatusStep
  <2>2. ASSUME object.status # Stored[t].status, job[t].synced
        PROVE  EntriesOf(object.spec) \subseteq job[t].want
    BY <1>1, <2>1, <2>2 DEF Truthful, ListedOwnSpec, Sent
  <2> QED
    BY <2>1, <2>2 DEF Truthful
<1> QED
  BY <1>2, <1>3 DEF Acknowledges

-------------------------------------------------------------------------------
(* Every action is such a step *)

LEMMA NoneAtIdle == ~Sent(Idle) /\ ~Idle.synced /\ Idle.step = "idle"
BY DEF Idle, Sent

\* Every reconcile starts with the cached object or with its name added to it.
LEMMA StartingIsStatusStep ==
    ASSUME StatusInv, NEW t \in Tenants, Starting(t)
    PROVE  \E new, object : StatusStep(t, new, object)
<1>1. TypeOK /\ Stored[t] \in Objects \cup {None}
  BY StoresInLog DEF StatusInv, Stores
<1>2. Cached[t] \in Objects /\ Cached[t] # None /\ born' = born
  BY <1>1, StoresInLog DEF Starting, Reconcile, InitializeName, Starts, Stores
<1>3. ASSUME NEW cr \in Objects
      PROVE  /\ Observe(cr) \in Jobs /\ Observe(cr).cr = cr
             /\ ~Sent(Observe(cr)) /\ ~Observe(cr).synced
  <2>1. Observe(cr) \in Jobs /\ Observe(cr).cr = cr
    BY ObserveType
  <2>2. cr.deleting \in BOOLEAN
    BY DEF Objects
  <2>3. \/ cr.deleting
        \/ ~cr.deleting /\ isUpToDate(cr)
        \/ ~cr.deleting /\ ~isUpToDate(cr)
    BY <2>2
  <2>4. Observe(cr).synced = FALSE /\ Observe(cr).step \notin {"get", "put"}
    BY <2>2, <2>3 DEF Observe, Idle, FirstStep
  <2> QED
    BY <2>1, <2>4 DEF Sent
<1>4. CASE Reconcile(t)
  <2>1. Stored[t] # None => Stored[t].generation \in Nat
    BY <1>1 DEF Objects
  <2>2. StatusStep(t, Observe(Cached[t]), Stored[t])
    BY <1>1, <1>2, <1>3, <1>4, <2>1
    DEF Reconcile, StatusStep, Commit, Later, Truthful, SameVersion
  <2> QED
    BY <2>2
<1>5. CASE InitializeName(t)
  <2> DEFINE cr == [Cached[t] EXCEPT !.named = TRUE]
  <2>1. /\ cr \in Objects /\ cr.spec = Cached[t].spec /\ cr.generation = Cached[t].generation
        /\ cr.status = Cached[t].status /\ cr.ready = Cached[t].ready
        /\ cr.generation \in Nat
    BY <1>2 DEF Objects
  <2>2. Commit(t, cr) /\ job' = [job EXCEPT ![t] = Observe(cr)] /\ Stored[t] = Cached[t]
    BY <1>5 DEF InitializeName
  <2> HIDE DEF cr
  <2>3. StatusStep(t, Observe(cr), cr)
    BY <1>1, <1>2, <1>3, <2>1, <2>2 DEF StatusStep, Later, Truthful, SameVersion
  <2> QED
    BY <2>3
<1> QED
  BY <1>4, <1>5 DEF Starting

\* A step that ends the reconcile, whatever it writes.
LEMMA EndIsStatusStep ==
    ASSUME StatusInv, NEW t \in Tenants, NEW object \in Objects \cup {None},
           job' = [job EXCEPT ![t] = Idle], Commit(t, object), born' = born,
           object # None =>
             /\ Stored[t] # None
             /\ SameVersion(Stored[t], object)
             /\ Truthful(Stored[t], job[t], object)
    PROVE  StatusStep(t, Idle, object)
<1>1. object # None => object.generation \in Nat
  BY DEF Objects
<1> QED
  BY <1>1, IdleType, NoneAtIdle DEF StatusStep, Later, SameVersion

\* A step that writes nothing and goes on with the same object.
LEMMA GoingOnIsStatusStep ==
    ASSUME StatusInv, NEW t \in Tenants, NEW new \in Jobs,
           job' = [job EXCEPT ![t] = new], UNCHANGED log, born' = born,
           job[t].step # "idle", new.cr = job[t].cr,
           new.synced => new.step \in {"persist", "release"},
           Sent(new) /\ new.op # "delete" =>
             \/ Sent(job[t]) /\ job[t].op # "delete" /\ new.want = job[t].want
             \/ Cached[t] # None => EntriesOf(Cached[t].spec) \subseteq new.want
    PROVE  StatusStep(t, new, Stored[t])
<1>1. Stored[t] \in Objects \cup {None}
  BY StoresInLog DEF Stores, StatusInv
<1>2. Stored[t] # None => Later(Stored[t], Stored[t]) /\ Truthful(Stored[t], job[t], Stored[t])
  BY <1>1 DEF Later, Truthful, Objects
<1> QED
  BY <1>1, <1>2 DEF StatusStep, Commit, SameVersion, Continues, Lists

\* An update of the runtime's own mark.
LEMMA UpdateIsStatusStep ==
    ASSUME StatusInv, NEW t \in Tenants, NEW object \in Objects, NEW step \in Steps,
           Update(t, object, step), born' = born, job[t].step = "finalizer",
           step \notin {"get", "put"}, SameVersion(job[t].cr, object),
           object.status = job[t].cr.status, object.ready = job[t].cr.ready
    PROVE  \E new, changed : StatusStep(t, new, changed)
<1>1. job[t] \in Jobs /\ job[t].cr \in Objects /\ ~job[t].synced
  BY DEF StatusInv, TypeOK, JobsWellFormed, SyncedIsLate
<1>2. CASE Stored[t] = job[t].cr
  <2> DEFINE new == [job[t] EXCEPT !.cr = object, !.step = step]
  <2>1. new \in Jobs /\ new.cr = object /\ ~new.synced /\ ~Sent(new)
    BY <1>1 DEF Jobs, Sent
  <2>2. job' = [job EXCEPT ![t] = new] /\ Commit(t, object)
    BY <1>2 DEF Update
  <2>3. Stored[t] # None /\ Later(Stored[t], object) /\ Truthful(Stored[t], job[t], object)
    BY <1>1, <1>2, NoneAssumption DEF Later, SameVersion, Truthful, Objects
  <2> HIDE DEF new
  <2>4. StatusStep(t, new, object)
    BY <1>1, <2>1, <2>2, <2>3 DEF StatusStep, SameVersion
  <2> QED
    BY <2>4
<1>3. CASE Stored[t] # job[t].cr
  <2>1. Stored[t] \in Objects \cup {None}
    BY StoresInLog DEF Stores, StatusInv
  <2>2. StatusStep(t, Idle, Stored[t])
    BY <1>3, <2>1, EndIsStatusStep DEF Update, Commit, SameVersion, Truthful
  <2> QED
    BY <2>2
<1> QED
  BY <1>2, <1>3

\* The steps before the list.
LEMMA EarlyStepIsStatusStep ==
    ASSUME StatusInv, NEW t \in Tenants, AddFinalizer(t) \/ CheckDrift(t)
    PROVE  \E new, object : StatusStep(t, new, object)
<1>1. /\ job[t].step \in {"finalizer", "drift"} /\ born' = born
      /\ job[t] \in Jobs /\ job[t].cr \in Objects /\ ~job[t].synced
      /\ job \in [Tenants -> Jobs]
  BY DEF AddFinalizer, CheckDrift, At, StatusInv, TypeOK, JobsWellFormed, SyncedIsLate
<1>2. CASE AddFinalizer(t)
  <2> DEFINE cr == [job[t].cr EXCEPT !.finalizer = TRUE]
  <2>1. /\ cr \in Objects /\ SameVersion(job[t].cr, cr)
        /\ cr.status = job[t].cr.status /\ cr.ready = job[t].cr.ready
    BY <1>1 DEF Objects, SameVersion
  <2>2. Update(t, cr, "list") /\ job[t].step = "finalizer" /\ "list" \in Steps
    BY <1>2 DEF AddFinalizer, At, Steps
  <2> HIDE DEF cr
  <2> QED
    BY <1>1, <2>1, <2>2, UpdateIsStatusStep
<1>3. CASE CheckDrift(t)
  <2>1. PICK op \in {job[t].op, "update"}, step \in {"list", "persist", "finalizer"} :
          job' = [job EXCEPT ![t] = [job[t] EXCEPT !.op = op, !.step = step]]
    <3>1. CASE Goto(t, "persist")
      <4>1. [job[t] EXCEPT !.step = "persist"] = [job[t] EXCEPT !.op = job[t].op, !.step = "persist"]
        BY <1>1 DEF Jobs
      <4> QED
        BY <3>1, <4>1 DEF Goto
    <3>2. CASE job' = [job EXCEPT ![t].op = "update", ![t].step = FirstStep(job[t].cr)]
      BY <3>2 DEF FirstStep
    <3> QED
      BY <1>3, <3>1, <3>2 DEF CheckDrift
  <2> DEFINE new == [job[t] EXCEPT !.op = op, !.step = step]
  <2>2. new \in Jobs /\ new.cr = job[t].cr /\ ~new.synced /\ ~Sent(new)
    BY <1>1, <2>1 DEF Jobs, Steps, Sent
  <2>3. job' = [job EXCEPT ![t] = new] /\ UNCHANGED log
    BY <1>3, <2>1 DEF CheckDrift
  <2> HIDE DEF new
  <2>4. StatusStep(t, new, Stored[t])
    BY <1>1, <2>2, <2>3, GoingOnIsStatusStep
  <2> QED
    BY <2>4
<1> QED
  BY <1>2, <1>3

\* The list, from which the Tenant of this reconcile is not missing, and the
\* two calls of Grafana.
LEMMA SyncStepIsStatusStep ==
    ASSUME StatusInv, NEW t \in Tenants,
           \/ ListTenants(t) \/ getOrInitSettings(t) \/ SyncOrgMapping(t)
           \/ SyncFails(t) \/ ResponseLost(t)
    PROVE  \E new, object : StatusStep(t, new, object)
<1>1. /\ job[t].step \in {"list", "get", "put"} /\ UNCHANGED <<log, born>>
      /\ job[t] \in Jobs /\ job[t].cr \in Objects /\ job[t].op # "none" /\ ~job[t].synced
      /\ job \in [Tenants -> Jobs]
  BY DEF ListTenants, getOrInitSettings, SyncOrgMapping, SyncFails, ResponseLost, At,
         StatusInv, TypeOK, JobsWellFormed, SyncedIsLate
<1>2. CASE ListTenants(t)
  <2> DEFINE listed == {u \in Tenants : Cached[u] # None}
             mapped == IF job[t].op = "delete" THEN listed \ {t} ELSE listed
             want == BuildOrgMapping({Cached[u].spec : u \in mapped})
             new == [job[t] EXCEPT !.want = want, !.step = "get"]
  <2>1. job' = [job EXCEPT ![t] = new] /\ want \in SUBSET Entries
    BY <1>2, BuildOrgMappingType DEF ListTenants
  <2>2. job[t].op # "delete" /\ Cached[t] # None => EntriesOf(Cached[t].spec) \subseteq want
    BY DEF BuildOrgMapping
  <2> HIDE DEF want
  <2>3. /\ new \in Jobs /\ new.cr = job[t].cr /\ ~new.synced /\ new.want = want
        /\ new.op = job[t].op
    BY <1>1, <2>1 DEF Jobs, Steps
  <2> HIDE DEF new
  <2>4. StatusStep(t, new, Stored[t])
    BY <1>1, <2>1, <2>2, <2>3, GoingOnIsStatusStep
  <2> QED
    BY <2>4
<1>3. CASE getOrInitSettings(t)
  <2> DEFINE new == [job[t] EXCEPT !.settings = sso.settings, !.step = "put"]
  <2>1. sso.settings \in Settings \cup {None}
    BY DEF StatusInv, TypeOK, SSOSettings
  <2>2. /\ new \in Jobs /\ new.cr = job[t].cr /\ new.want = job[t].want
        /\ ~new.synced /\ new.op = job[t].op
    BY <1>1, <2>1 DEF Jobs, Steps
  <2>3. job' = [job EXCEPT ![t] = new] /\ Sent(job[t])
    BY <1>3 DEF getOrInitSettings, At, Sent
  <2> HIDE DEF new
  <2>4. StatusStep(t, new, Stored[t])
    BY <1>1, <2>2, <2>3, GoingOnIsStatusStep
  <2> QED
    BY <2>4
<1>4. ASSUME NEW done \in BOOLEAN, job[t].step \in {"get", "put"},
             job' = [job EXCEPT ![t] = [job[t] EXCEPT !.synced = done, !.settings = None,
                                                      !.step = AfterSync(job[t].op)]]
      PROVE  \E new, object : StatusStep(t, new, object)
  <2> DEFINE new == [job[t] EXCEPT !.synced = done, !.settings = None,
                                   !.step = AfterSync(job[t].op)]
  <2>1. AfterSync(job[t].op) \in {"persist", "release"}
    BY <1>1 DEF AfterSync, Jobs
  <2>2. /\ new \in Jobs /\ new.cr = job[t].cr /\ new.want = job[t].want
        /\ new.step \in {"persist", "release"} /\ new.op = job[t].op
    BY <1>1, <1>4, <2>1 DEF Jobs, Steps
  <2>3. Sent(job[t]) /\ job' = [job EXCEPT ![t] = new]
    BY <1>4 DEF Sent
  <2> HIDE DEF new
  <2>4. StatusStep(t, new, Stored[t])
    BY <1>1, <2>2, <2>3, GoingOnIsStatusStep
  <2> QED
    BY <2>4
<1>5. CASE SyncOrgMapping(t)
  BY <1>4, <1>5 DEF SyncOrgMapping, At
<1>6. job[t].synced \in BOOLEAN /\ job[t] = [job[t] EXCEPT !.synced = job[t].synced]
  BY <1>1 DEF Jobs
<1>7. CASE SyncFails(t)
  BY <1>4, <1>6, <1>7 DEF SyncFails
<1>8. CASE ResponseLost(t)
  BY <1>4, <1>6, <1>8 DEF ResponseLost
<1> QED
  BY <1>2, <1>3, <1>5, <1>7, <1>8

\* The writes that end a reconcile.
LEMMA LastStepIsStatusStep ==
    ASSUME StatusInv, NEW t \in Tenants,
           PersistStatus(t) \/ RemoveFinalizer(t)
    PROVE  \E new, object : StatusStep(t, new, object)
<1>1. /\ job[t] \in Jobs /\ job[t].cr \in Objects /\ job[t].cr # None
      /\ born' = born /\ job' = [job EXCEPT ![t] = Idle]
  BY NoneAssumption DEF PersistStatus, RemoveFinalizer, At,
         StatusInv, TypeOK, JobsWellFormed
<1>2. Stored[t] \in Objects \cup {None}
  BY StoresInLog DEF Stores, StatusInv
<1>3. ASSUME UNCHANGED log PROVE \E new, object : StatusStep(t, new, object)
  <2>1. StatusStep(t, Idle, Stored[t])
    BY <1>1, <1>2, <1>3, EndIsStatusStep DEF Commit, SameVersion, Truthful
  <2> QED
    BY <2>1
<1>6. CASE PersistStatus(t)
  <2>1. CASE Stored[t] # job[t].cr
    BY <1>3, <1>6, <2>1 DEF PersistStatus
  <2>2. CASE Stored[t] = job[t].cr
    <3> DEFINE cr == job[t].cr
               object == syncStatus(cr, job[t].op)
               ready == cr.ready \/ isUpToDate(cr)
               status == IF job[t].op = "update" THEN cr.spec ELSE cr.status
    <3>1. Commit(t, object)
      BY <1>6, <2>2 DEF PersistStatus
    <3>2. /\ ready \in BOOLEAN /\ status \in Specs \cup {None}
          /\ status # cr.status => status = cr.spec /\ job[t].op = "update"
          /\ ready /\ ~cr.ready => status = cr.spec
      BY <1>1 DEF isUpToDate, Objects
    <3>3. object = [cr EXCEPT !.ready = ready, !.status = status]
      BY DEF syncStatus
    <3> HIDE DEF object, ready, status
    <3>4. /\ object \in Objects /\ SameVersion(cr, object)
          /\ object.status = status /\ object.ready = ready
      BY <1>1, <3>2, <3>3 DEF Objects, SameVersion
    <3>5. Truthful(Stored[t], job[t], object)
      BY <2>2, <3>2, <3>4 DEF Truthful, SameVersion
    <3>6. StatusStep(t, Idle, object)
      BY <1>1, <2>2, <3>1, <3>4, <3>5, EndIsStatusStep
    <3> QED
      BY <3>6
  <2> QED
    BY <2>1, <2>2
<1>7. CASE RemoveFinalizer(t)
  <2>1. CASE Stored[t] # job[t].cr
    BY <1>3, <1>7, <2>1 DEF RemoveFinalizer
  <2>2. CASE Stored[t] = job[t].cr
    <3>1. StatusStep(t, Idle, None)
      BY <1>1, <1>7, <2>2, EndIsStatusStep DEF RemoveFinalizer
    <3> QED
      BY <3>1
  <2> QED
    BY <2>1, <2>2
<1> QED
  BY <1>6, <1>7

\* Users change a spec with its generation, and no status.
LEMMA UserIsStatusStep ==
    ASSUME StatusInv, NEW t \in Tenants,
           (\E s \in Specs : EditTenant(t, s)) \/ DeleteTenant(t)
    PROVE  \E new, object : StatusStep(t, new, object)
<1>1. /\ Stored[t] \in Objects /\ Stored[t] # None /\ job[t] \in Jobs
      /\ job' = [job EXCEPT ![t] = job[t]] /\ born' = born
  BY StoresInLog DEF Stores, StatusInv, TypeOK, EditTenant, DeleteTenant, UserActs
<1>2. ASSUME NEW object \in Objects \cup {None}, Commit(t, object),
             object # None => /\ Later(Stored[t], object)
                              /\ object.status = Stored[t].status
                              /\ object.ready = Stored[t].ready
      PROVE  \E new, changed : StatusStep(t, new, changed)
  <2>1. job[t].synced => job[t].step \in {"persist", "release"}
    BY DEF StatusInv, SyncedIsLate
  <2>2. StatusStep(t, job[t], object)
    BY <1>1, <1>2, <2>1 DEF StatusStep, Truthful, SameVersion, Continues
  <2> QED
    BY <2>2
<1>3. CASE \E s \in Specs : EditTenant(t, s)
  <2>1. PICK s \in Specs : EditTenant(t, s)
    BY <1>3
  <2> DEFINE generation == Stored[t].generation + 1
             object == [Stored[t] EXCEPT !.spec = s, !.generation = generation]
  <2>2. Stored[t].generation \in Nat
    BY <1>1 DEF Objects
  <2>3. generation \in Nat /\ generation > Stored[t].generation
    BY <2>2
  <2>4. Commit(t, object)
    BY <2>1 DEF EditTenant
  <2> HIDE DEF generation
  <2>5. /\ object \in Objects /\ object.generation = generation
        /\ object.status = Stored[t].status /\ object.ready = Stored[t].ready
    BY <1>1, <2>3 DEF Objects
  <2> HIDE DEF object
  <2>6. Later(Stored[t], object)
    BY <2>2, <2>3, <2>5 DEF Later
  <2> QED
    BY <1>2, <2>4, <2>5, <2>6
<1>4. CASE DeleteTenant(t)
  <2>1. CASE Stored[t].finalizer
    <3> DEFINE object == [Stored[t] EXCEPT !.deleting = TRUE]
    <3>1. /\ object \in Objects /\ SameVersion(Stored[t], object)
          /\ object.status = Stored[t].status /\ object.ready = Stored[t].ready
          /\ object.generation \in Nat
      BY <1>1 DEF Objects, SameVersion
    <3>2. Commit(t, object)
      BY <1>4, <2>1 DEF DeleteTenant
    <3> HIDE DEF object
    <3> QED
      BY <1>2, <3>1, <3>2 DEF Later, SameVersion
  <2>2. CASE ~Stored[t].finalizer
    BY <1>2, <1>4, <2>2 DEF DeleteTenant
  <2> QED
    BY <2>1, <2>2
<1> QED
  BY <1>3, <1>4

-------------------------------------------------------------------------------
(* Every step *)

LEMMA CreateTenantStatus ==
    ASSUME StatusInv, TypeOK', NEW t \in Tenants, NEW s \in Specs, CreateTenant(t, s)
    PROVE  StatusInv' /\ Acknowledges
<1>1. /\ TypeOK /\ SeenAreBorn /\ NoReturn /\ VersionsGrow /\ JobsAreBehind
      /\ SyncedIsLate /\ ListedOwnSpec
  BY DEF StatusInv
<1> DEFINE object == NewTenant(s)
<1>2. object \in Objects /\ object.generation \in Nat
  BY DEF NewTenant, Objects
<1>3. object # None /\ t \notin born /\ born' = born \cup {t} /\ job' = job /\ Commit(t, object)
  BY <1>2, NoneAssumption DEF CreateTenant, UserActs
<1> HIDE DEF object
<1>4. job[t].step = "idle" /\ \A i \in DOMAIN log : log[i][t] = None
  BY <1>1, <1>3 DEF SeenAreBorn
<1>5. Stored[t] = None
  BY <1>1, <1>4, LogFacts
<1>6. log' = Append(log, [Stored EXCEPT ![t] = object])
  BY <1>3, <1>5 DEF Commit
<1>7. /\ Len(log') = Len(log) + 1
      /\ DOMAIN log' = 1..(Len(log) + 1)
      /\ \A i \in DOMAIN log : log'[i] = log[i]
      /\ \A i \in DOMAIN log' : i \in DOMAIN log \/ i = Len(log')
      /\ log'[Len(log')] = Stored'
      /\ Stored'[t] = object
      /\ \A u \in Tenants \ {t} : Stored'[u] = Stored[u]
  BY <1>1, <1>2, <1>6, WriteFacts
<1>8. /\ \A i \in DOMAIN log : i \in Nat /\ i <= Len(log) /\ i < Len(log')
      /\ Len(log) \in DOMAIN log /\ Stored = log[Len(log)]
  BY <1>1, <1>7, LogFacts
<1>9. SeenAreBorn'
  <2>1. \A u \in Tenants \ {t} :
          (\E i \in DOMAIN log' : log'[i][u] # None) => \E i \in DOMAIN log : log[i][u] # None
    BY <1>7, <1>8
  <2> QED
    BY <1>1, <1>3, <2>1 DEF SeenAreBorn
<1>10. ASSUME NEW u \in Tenants, NEW i \in DOMAIN log', NEW j \in DOMAIN log',
              i <= j, log'[i][u] # None
       PROVE  /\ Later(log'[i][u], log'[j][u])
              /\ Stored'[u] # None => log'[j][u] # None
  <2>1. CASE u = t
    <3>1. i = Len(log') /\ j = Len(log')
      BY <1>4, <1>7, <1>8, <1>10, <2>1
    <3> QED
      BY <1>2, <1>3, <1>7, <2>1, <3>1 DEF Later
  <2>2. CASE u # t
    <3>1. PICK k \in DOMAIN log, m \in DOMAIN log :
            k <= m /\ log'[i][u] = log[k][u] /\ log'[j][u] = log[m][u]
      <4>1. CASE j \in DOMAIN log
        <5>1. i \in DOMAIN log
          BY <1>7, <1>8, <1>10, <4>1
        <5> QED
          BY <1>7, <1>10, <4>1, <5>1
      <4>2. CASE j = Len(log') /\ i \in DOMAIN log
        BY <1>7, <1>8, <2>2, <4>2
      <4>3. CASE j = Len(log') /\ i = Len(log')
        BY <1>7, <1>8, <2>2, <4>3
      <4> QED
        BY <1>7, <4>1, <4>2, <4>3
    <3> QED
      BY <1>1, <1>7, <1>10, <2>2, <3>1 DEF VersionsGrow, NoReturn
  <2> QED
    BY <2>1, <2>2
<1>11. NoReturn' /\ VersionsGrow'
  BY <1>10 DEF NoReturn, VersionsGrow, Later
<1>12. JobsAreBehind'
  <2> SUFFICES ASSUME NEW u \in Tenants, NEW i \in DOMAIN log', job'[u].step # "idle"
               PROVE  /\ Later(job'[u].cr, log'[i][u])
                      /\ Stored'[u] # None => log'[i][u] # None
    BY DEF JobsAreBehind, Later
  <2>1. u # t
    BY <1>3, <1>4
  <2>2. \E k \in DOMAIN log : log'[i][u] = log[k][u]
    BY <1>7, <1>8, <2>1
  <2> QED
    BY <1>1, <1>3, <1>7, <2>1, <2>2 DEF JobsAreBehind
<1>13. SyncedIsLate'
  BY <1>1, <1>3 DEF SyncedIsLate
<1>14. ListedOwnSpec'
  <2>1. ~Sent(job[t])
    BY <1>1, <1>4 DEF Sent, SyncedIsLate
  <2> QED
    BY <1>1, <1>3, <1>7, <2>1 DEF ListedOwnSpec, Sent
<1>15. Acknowledges
  BY <1>5, <1>7 DEF Acknowledges
<1> QED
  BY <1>9, <1>11, <1>12, <1>13, <1>14, <1>15 DEF StatusInv

\* Nobody writes a Tenant, and the cache may only get on.
LEMMA StoreStaysStatus ==
    ASSUME StatusInv, TypeOK', Stored' = Stored, born' = born,
           \A i, j \in DOMAIN log' : \E k, m \in DOMAIN log :
               log'[i] = log[k] /\ log'[j] = log[m] /\ (i <= j => k <= m),
           \A t \in Tenants : job'[t] = job[t] \/ job'[t] = Idle
    PROVE  StatusInv' /\ Acknowledges
<1>1. /\ TypeOK /\ SeenAreBorn /\ NoReturn /\ VersionsGrow /\ JobsAreBehind
      /\ SyncedIsLate /\ ListedOwnSpec
  BY DEF StatusInv
<1>2. SeenAreBorn'
  BY <1>1, NoneAtIdle DEF SeenAreBorn
<1>3. NoReturn'
  BY <1>1 DEF NoReturn
<1>4. VersionsGrow'
  <2> SUFFICES ASSUME NEW u \in Tenants, NEW i \in DOMAIN log', NEW j \in DOMAIN log',
                      i <= j, log'[i][u] # None
               PROVE  Later(log'[i][u], log'[j][u])
    BY DEF VersionsGrow, Later
  <2> QED
    BY <1>1 DEF VersionsGrow
<1>5. JobsAreBehind'
  <2> SUFFICES ASSUME NEW u \in Tenants, NEW i \in DOMAIN log', job'[u].step # "idle"
               PROVE  /\ Later(job'[u].cr, log'[i][u])
                      /\ Stored'[u] # None => log'[i][u] # None
    BY DEF JobsAreBehind, Later
  <2> QED
    BY <1>1, NoneAtIdle DEF JobsAreBehind
<1>6. SyncedIsLate'
  BY <1>1, NoneAtIdle DEF SyncedIsLate
<1>7. ListedOwnSpec'
  <2> SUFFICES ASSUME NEW u \in Tenants, Sent(job'[u]), job'[u].op # "delete",
                      Stored'[u] # None, Stored'[u].generation = job'[u].cr.generation
               PROVE  EntriesOf(job'[u].cr.spec) \subseteq job'[u].want
    BY DEF ListedOwnSpec, Sent
  <2>1. job'[u] = job[u]
    BY NoneAtIdle
  <2> QED
    BY <1>1, <2>1 DEF ListedOwnSpec
<1>8. Acknowledges
  BY DEF Acknowledges
<1> QED
  BY <1>2, <1>3, <1>4, <1>5, <1>6, <1>7, <1>8 DEF StatusInv

LEMMA InitStatus == Init => StatusInv
<1> SUFFICES ASSUME Init PROVE StatusInv
  OBVIOUS
<1>1. DOMAIN log = {1} /\ Len(log) = 1 /\ \A t \in Tenants : log[1][t] = None
  BY DEF Init
<1>2. \A t \in Tenants : job[t] = Idle /\ Stored[t] = None
  BY <1>1 DEF Init, Stored
<1> QED
  BY <1>1, <1>2, InitTyped, NoneAtIdle
  DEF StatusInv, SeenAreBorn, NoReturn, VersionsGrow, JobsAreBehind, SyncedIsLate,
      ListedOwnSpec

LEMMA NextStatus ==
    ASSUME StatusInv, [Next]_vars
    PROVE  StatusInv' /\ Acknowledges
<1>1. TypeOK' /\ TypeOK
  BY NextKeepsTypes DEF StatusInv
<1>2. CASE UNCHANGED <<log, born, job>>
  BY <1>1, <1>2, StoreStaysStatus DEF Stored
<1>3. ASSUME NEW t \in Tenants, \E new, object : StatusStep(t, new, object)
      PROVE  StatusInv' /\ Acknowledges
  BY <1>1, <1>3, StatusStepInv, StatusStepAcknowledges
<1>4. CASE Environment
  <2>1. ASSUME NEW t \in Tenants, NEW s \in Specs, CreateTenant(t, s)
        PROVE  StatusInv' /\ Acknowledges
    BY <1>1, <2>1, CreateTenantStatus
  <2>2. ASSUME NEW t \in Tenants, (\E s \in Specs : EditTenant(t, s)) \/ DeleteTenant(t)
        PROVE  StatusInv' /\ Acknowledges
    BY <1>3, <2>2, UserIsStatusStep
  <2>3. ASSUME NEW t \in Tenants, ResponseLost(t) PROVE StatusInv' /\ Acknowledges
    BY <1>3, <2>3, SyncStepIsStatusStep
  <2>4. CASE Restart
    <3>1. DOMAIN log' = {1} /\ log'[1] = Stored /\ Stored' = Stored
      BY <1>1, <2>4, RestartFacts DEF Restart
    <3>2. Stored = log[Len(log)] /\ Len(log) \in DOMAIN log
      BY <1>1, LogFacts
    <3>3. born' = born /\ \A t \in Tenants : job'[t] = Idle
      BY <2>4 DEF Restart
    <3>4. Len(log) <= Len(log)
      BY <1>1, LogFacts
    <3>5. \A i, j \in DOMAIN log' : \E k, m \in DOMAIN log :
               log'[i] = log[k] /\ log'[j] = log[m] /\ (i <= j => k <= m)
      BY <3>1, <3>2, <3>4
    <3> QED
      BY <1>1, <3>1, <3>3, <3>5, StoreStaysStatus
  <2>5. CASE \/ GrafanaFails \/ GrafanaRecovers \/ MappingDrifts
             \/ \E v \in Settings : AdminConfigures(v)
    BY <1>2, <2>5 DEF GrafanaFails, GrafanaRecovers, MappingDrifts, AdminConfigures
  <2> QED
    BY <1>4, <2>1, <2>2, <2>3, <2>4, <2>5 DEF Environment
<1>5. CASE Deliver
  <2>1. /\ \A i \in DOMAIN log' : i \in Nat /\ i + 1 \in DOMAIN log /\ log'[i] = log[i + 1]
        /\ Stored' = Stored
    BY <1>1, <1>5, DeliverFacts
  <2>2. \A i, j \in DOMAIN log' : i <= j => i + 1 <= j + 1
    BY <2>1
  <2>3. \A i, j \in DOMAIN log' : \E k, m \in DOMAIN log :
             log'[i] = log[k] /\ log'[j] = log[m] /\ (i <= j => k <= m)
    BY <2>1, <2>2
  <2>4. UNCHANGED <<born, job>>
    BY <1>5 DEF Deliver
  <2> QED
    BY <1>1, <2>1, <2>3, <2>4, StoreStaysStatus
<1>6. ASSUME NEW t \in Tenants, Starting(t) PROVE StatusInv' /\ Acknowledges
  BY <1>3, <1>6, StartingIsStatusStep
<1>7. ASSUME NEW t \in Tenants, JobStep(t) PROVE StatusInv' /\ Acknowledges
  BY <1>3, <1>7, EarlyStepIsStatusStep, SyncStepIsStatusStep, LastStepIsStatusStep DEF JobStep
<1> QED
  BY <1>2, <1>4, <1>5, <1>6, <1>7 DEF Next, vars

\* However stale the cache, whatever users write in the meantime and whichever
\* calls of Grafana fail: Update and Observe make a status say only what
\* the stored spec says at that moment, and if the sync of that reconcile
\* succeeded the mapping it wrote had the entries of that very spec.
THEOREM StatusesAreListed == Spec => AcknowledgedSpecWasListed
<1>1. StatusInv /\ [Next]_vars => StatusInv' /\ Acknowledges
  BY NextStatus
<1>2. Acknowledges =>
        \A t \in Tenants :
          Stored[t] # None /\ Stored'[t] # None /\ Stored'[t].status # Stored[t].status =>
            /\ Stored'[t].status = Stored'[t].spec
            /\ job[t].synced => EntriesOf(Stored'[t].spec) \subseteq job[t].want
  BY DEF Acknowledges
<1> QED
  BY <1>1, <1>2, InitStatus, PTL DEF Spec, AcknowledgedSpecWasListed

\* Under the same circumstances a Tenant turns Ready only with a status that is
\* a copy of its stored spec.
THEOREM ReadyIsObserved == Spec => ReadyMeansObserved
<1>1. StatusInv /\ [Next]_vars => StatusInv' /\ Acknowledges
  BY NextStatus
<1>2. Acknowledges =>
        \A t \in Tenants :
          Stored[t] # None /\ Stored'[t] # None /\ Stored'[t].ready /\ ~Stored[t].ready =>
            Stored'[t].status = Stored'[t].spec
  BY DEF Acknowledges
<1> QED
  BY <1>1, <1>2, InitStatus, PTL DEF Spec, ReadyMeansObserved
===============================================================================
