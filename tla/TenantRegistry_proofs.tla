------------------------ MODULE TenantRegistry_proofs -------------------------
(***************************************************************************)
(* TenantController implements TenantRegistry, for every set of Tenants    *)
(* and specs, every number of workers and every lag of the cache.          *)
(***************************************************************************)
EXTENDS TenantController_proofs

-------------------------------------------------------------------------------
(* What a reconcile knows of the object it works on *)

Knows(j) == j.step # "idle" =>
    /\ j.op = "update" \/ j.step \in {"drift", "persist"} => j.cr.named /\ ~j.cr.deleting
    /\ j.op = "update" /\ j.step # "finalizer" => j.cr.finalizer
    /\ j.op = "delete" \/ j.step = "release" => j.cr.deleting

JobsKnow == \A t \in Tenants : Knows(job[t])

\* Only an object that the runtime has adopted gets a status, and it keeps the
\* finalizer as long as it is there: no copy has one that the object has not.
Finalized ==
    \A t \in Tenants : Stored[t] # None =>
        /\ Stored[t].status # None => Stored[t].finalizer
        /\ job[t].step # "idle" /\ job[t].cr.finalizer => Stored[t].finalizer
        /\ \A i \in DOMAIN log : log[i][t] # None /\ log[i][t].finalizer => Stored[t].finalizer

RegistryInv == TypeOK /\ SeenAreBorn /\ JobsKnow /\ Finalized

\* Observe, which works on objects that have their name, begins with a job that
\* knows its object.
LEMMA ObserveKnows ==
    ASSUME NEW cr \in Objects, cr.named
    PROVE  Knows(Observe(cr))
<1>1. cr.deleting \in BOOLEAN /\ cr.finalizer \in BOOLEAN
  BY DEF Objects
<1>2. CASE cr.deleting
  BY <1>2 DEF Observe, Idle, Knows
<1>3. CASE ~cr.deleting /\ isUpToDate(cr)
  BY <1>3 DEF Observe, Idle, Knows
<1>4. CASE ~cr.deleting /\ ~isUpToDate(cr)
  BY <1>1, <1>4 DEF Observe, Idle, Knows, FirstStep
<1> QED
  BY <1>1, <1>2, <1>3, <1>4

\* The steps between the reads and writes of shared state, none of which
\* changes the object that the reconcile has.
LEMMA SilentStepKnows ==
    ASSUME TypeOK, JobsKnow, NEW t \in Tenants,
           \/ CheckDrift(t) \/ ListTenants(t)
           \/ getOrInitSettings(t) \/ SyncOrgMapping(t) \/ SyncFails(t) \/ ResponseLost(t)
    PROVE  /\ Knows(job'[t]) /\ job[t].step # "idle"
           /\ job'[t].cr = job[t].cr
           /\ \A u \in Tenants \ {t} : job'[u] = job[u]
           /\ UNCHANGED <<log, born>>
<1>1. job \in [Tenants -> Jobs] /\ job[t] \in Jobs /\ Knows(job[t])
  BY DEF TypeOK, JobsKnow
<1>3. CASE CheckDrift(t)
  <2>1. job[t].step = "drift" /\ job[t].cr.named /\ ~job[t].cr.deleting
    BY <1>1, <1>3 DEF CheckDrift, At, Knows
  <2>2. CASE job' = [job EXCEPT ![t].step = "persist"]
    BY <1>1, <1>3, <2>1, <2>2 DEF CheckDrift, At, Knows, Jobs
  <2>3. CASE job' = [job EXCEPT ![t].op = "update", ![t].step = FirstStep(job[t].cr)]
    BY <1>1, <1>3, <2>1, <2>3 DEF CheckDrift, At, Knows, Jobs, FirstStep
  <2> QED
    BY <1>3, <2>2, <2>3 DEF CheckDrift, Goto
<1>4. CASE ListTenants(t)
  <2>1. PICK want \in SUBSET Entries : job' = [job EXCEPT ![t].want = want, ![t].step = "get"]
    BY <1>4, BuildOrgMappingType DEF ListTenants
  <2> QED
    BY <1>1, <1>4, <2>1 DEF ListTenants, At, Knows, Jobs
<1>5. CASE getOrInitSettings(t)
  BY <1>1, <1>5 DEF getOrInitSettings, At, Knows, Jobs
<1>6. ASSUME job[t].step \in {"get", "put"},
             NEW done \in BOOLEAN,
             job' = [job EXCEPT ![t] = [job[t] EXCEPT !.synced = done, !.settings = None,
                                                      !.step = AfterSync(job[t].op)]]
      PROVE  /\ Knows(job'[t])
             /\ job'[t].cr = job[t].cr
             /\ \A u \in Tenants \ {t} : job'[u] = job[u]
  <2>1. job[t].op \in {"update", "delete"}
    BY <1>1, <1>6 DEF TypeOK, JobsWellFormed, Jobs
  <2>2. /\ job'[t].op = job[t].op /\ job'[t].cr = job[t].cr
        /\ job'[t].step = AfterSync(job[t].op)
        /\ \A u \in Tenants \ {t} : job'[u] = job[u]
    BY <1>1, <1>6 DEF Jobs
  <2> QED
    BY <1>1, <1>6, <2>1, <2>2 DEF Knows, AfterSync
<1>7. job[t].synced \in BOOLEAN /\ job[t] = [job[t] EXCEPT !.synced = job[t].synced]
  BY <1>1 DEF Jobs
<1>8. CASE SyncOrgMapping(t)
  BY <1>1, <1>6, <1>8 DEF SyncOrgMapping, At
<1>9. CASE SyncFails(t)
  BY <1>1, <1>6, <1>7, <1>9 DEF SyncFails
<1>10. CASE ResponseLost(t)
  BY <1>1, <1>6, <1>7, <1>10 DEF ResponseLost
<1> QED
  BY <1>3, <1>4, <1>5, <1>8, <1>9, <1>10

\* A write of t's object, seen from the finalizers.
Adopted(t, object) ==
    /\ object \in Objects \cup {None}
    /\ Commit(t, object)
    /\ object # None =>
         /\ Stored[t] # None
         /\ object.status # None => object.finalizer
         /\ Stored[t].finalizer => object.finalizer

\* The reconcile of t gets no object but from the cache, and none with a
\* finalizer but from the cache, from itself, or with its own write.
OwnsFinalizer(t, object) ==
    /\ \A u \in Tenants \ {t} : job'[u] = job[u]
    /\ job'[t].step # "idle" => job[t].step # "idle" \/ Cached[t] # None
    /\ job'[t].step # "idle" /\ job'[t].cr.finalizer =>
         \/ job[t].step # "idle" /\ job[t].cr.finalizer
         \/ Cached[t] # None /\ Cached[t].finalizer
         \/ object # None => object.finalizer

LEMMA AdoptedFinalized ==
    ASSUME TypeOK, SeenAreBorn, Finalized, NEW t \in Tenants, NEW object,
           Adopted(t, object), OwnsFinalizer(t, object), born' = born
    PROVE  Finalized' /\ SeenAreBorn'
<1>1. /\ Stored'[t] = object
      /\ \A u \in Tenants \ {t} : Stored'[u] = Stored[u]
      /\ \A i \in DOMAIN log' : (i \in DOMAIN log /\ log'[i] = log[i]) \/ log'[i] = Stored'
  <2>1. CASE Stored[t] = object /\ UNCHANGED log
    BY <2>1 DEF Stored
  <2>2. CASE log' = Append(log, [Stored EXCEPT ![t] = object])
    BY <2>2, WriteFacts DEF Adopted
  <2> QED
    BY <2>1, <2>2 DEF Adopted, Commit
<1>2. Cached = log[1] /\ 1 \in DOMAIN log /\ Stored = log[Len(log)] /\ Len(log) \in DOMAIN log
  BY LogFacts
<1>5. SeenAreBorn'
  <2>1. Stored'[t] # None => Stored[t] # None
    BY <1>1 DEF Adopted
  <2>2. \A u \in Tenants : Stored'[u] # None => Stored[u] # None
    BY <1>1, <2>1
  <2> SUFFICES ASSUME NEW u \in Tenants,
                      job'[u].step # "idle" \/ \E i \in DOMAIN log' : log'[i][u] # None
               PROVE  job[u].step # "idle" \/ \E i \in DOMAIN log : log[i][u] # None
    BY DEF SeenAreBorn
  <2>3. ASSUME NEW i \in DOMAIN log', log'[i][u] # None
        PROVE  \E k \in DOMAIN log : log[k][u] # None
    BY <1>1, <1>2, <2>2, <2>3
  <2> QED
    BY <1>2, <2>3 DEF OwnsFinalizer
<1> SUFFICES ASSUME NEW u \in Tenants, Stored'[u] # None
             PROVE  /\ Stored'[u].status # None => Stored'[u].finalizer
                    /\ job'[u].step # "idle" /\ job'[u].cr.finalizer => Stored'[u].finalizer
                    /\ \A i \in DOMAIN log' :
                         log'[i][u] # None /\ log'[i][u].finalizer => Stored'[u].finalizer
  BY <1>5 DEF Finalized
<1>3. CASE u = t
  <2>1. /\ Stored[t] # None
        /\ object.status # None => object.finalizer
        /\ Stored[t].finalizer => object.finalizer
    BY <1>1, <1>3 DEF Adopted
  <2> QED
    BY <1>1, <1>2, <1>3, <2>1 DEF Finalized, OwnsFinalizer
<1>4. CASE u # t
  BY <1>1, <1>4 DEF Finalized, OwnsFinalizer
<1> QED
  BY <1>3, <1>4

-------------------------------------------------------------------------------
(* What each step is to the registry *)

Mapped == [t \in Tenants |-> Registered(Stored[t])]

RegistryStep == Registry!Next \/ UNCHANGED <<Mapped, born>>

LEMMA RegisteredFacts ==
    ASSUME NEW object \in Objects
    PROVE  /\ object # None
           /\ Registered(object) # None
           /\ Registered(object).spec = object.spec
           /\ Registered(object).named = object.named
           /\ Registered(object).acknowledged = object.status
           /\ Registered(object).ready = object.ready
           /\ Registered(object).deleting = object.deleting
<1>1. object # None
  BY NoneAssumption
<1>2. Registered(object) \in [spec: Specs, named: BOOLEAN, acknowledged: Specs \cup {None},
                              ready: BOOLEAN, deleting: BOOLEAN]
  BY <1>1 DEF Registered, Objects
<1> QED
  BY <1>1, <1>2, RecordsAssumption DEF Registered

Records ==
    [spec: Specs, named: BOOLEAN, acknowledged: Specs \cup {None}, ready: BOOLEAN,
     deleting: BOOLEAN]

LEMMA SameFields ==
    ASSUME NEW x \in Records, NEW y \in Records,
           x.spec = y.spec, x.named = y.named, x.acknowledged = y.acknowledged,
           x.ready = y.ready, x.deleting = y.deleting
    PROVE  x = y
BY DEF Records

\* The record of an object is known by its fields.
LEMMA RecordIs ==
    ASSUME NEW object \in Objects, NEW new \in Records,
           new.spec = object.spec, new.named = object.named,
           new.acknowledged = object.status, new.ready = object.ready,
           new.deleting = object.deleting
    PROVE  Registered(object) = new
<1>1. Registered(object) \in Records
  BY NoneAssumption DEF Registered, Records, Objects
<1> QED
  BY <1>1, RegisteredFacts, SameFields

LEMMA MappedWrite ==
    ASSUME TypeOK, NEW t \in Tenants, NEW object \in Objects \cup {None}, Commit(t, object)
    PROVE  Mapped' = [Mapped EXCEPT ![t] = Registered(object)]
<1>1. Stored' = [Stored EXCEPT ![t] = object]
  <2>1. CASE Stored[t] = object /\ UNCHANGED log
    <3>1. Stored' = Stored /\ Stored \in Stores
      BY <2>1, StoresInLog DEF Stored
    <3> QED
      BY <2>1, <3>1 DEF Stores
  <2>2. CASE log' = Append(log, [Stored EXCEPT ![t] = object])
    BY <2>2, WriteFacts
  <2> QED
    BY <2>1, <2>2 DEF Commit
<1>2. Stored \in [Tenants -> Objects \cup {None}]
  BY StoresInLog DEF Stores
<1>3. \A u \in Tenants : Stored'[u] = IF u = t THEN object ELSE Stored[u]
  BY <1>1, <1>2
<1>4. Mapped' = [u \in Tenants |-> Registered(Stored'[u])]
  BY DEF Mapped, Registered
<1>5. \A u \in Tenants : Registered(Stored'[u]) = IF u = t THEN Registered(object) ELSE Mapped[u]
  BY <1>3 DEF Mapped
<1> QED
  BY <1>4, <1>5 DEF Mapped

LEMMA SameRecord ==
    ASSUME TypeOK, NEW t \in Tenants, NEW object \in Objects \cup {None}, Commit(t, object),
           Registered(object) = Registered(Stored[t]), born' = born
    PROVE  RegistryStep
<1>1. Mapped' = [Mapped EXCEPT ![t] = Mapped[t]]
  BY MappedWrite DEF Mapped
<1>2. Mapped' = Mapped
  BY <1>1 DEF Mapped
<1> QED
  BY <1>2 DEF RegistryStep

\* A step of the reconcile of t or of its user that keeps the invariant and is
\* one of the registry.
Good(t) ==
    /\ Knows(job'[t])
    /\ \A u \in Tenants \ {t} : job'[u] = job[u]
    /\ \E object : Adopted(t, object) /\ OwnsFinalizer(t, object)
    /\ born' = born
    /\ RegistryStep

\* Nothing is written, and the object stays or comes from the cache.
LEMMA ReadingIsGood ==
    ASSUME RegistryInv, NEW t \in Tenants, Knows(job'[t]), UNCHANGED <<log, born>>,
           \A u \in Tenants \ {t} : job'[u] = job[u],
           job'[t].step # "idle" =>
             \/ job[t].step # "idle" /\ job'[t].cr = job[t].cr
             \/ Cached[t] # None /\ job'[t].cr = Cached[t]
    PROVE  Good(t)
<1>1. TypeOK /\ Stored[t] \in Objects \cup {None}
  BY StoresInLog DEF RegistryInv, Stores
<1>2. Commit(t, Stored[t])
  BY DEF Commit
<1>3. Adopted(t, Stored[t]) /\ OwnsFinalizer(t, Stored[t])
  BY <1>1, <1>2 DEF Adopted, OwnsFinalizer, RegistryInv, Finalized
<1>4. RegistryStep
  BY <1>1, <1>2, SameRecord
<1> QED
  BY <1>3, <1>4 DEF Good

\* The end of a reconcile, with a write.
LEMMA EndIsGood ==
    ASSUME RegistryInv, NEW t \in Tenants, NEW object, Adopted(t, object), RegistryStep,
           job' = [job EXCEPT ![t] = Idle], born' = born
    PROVE  Good(t)
<1>1. job'[t] = Idle /\ \A u \in Tenants \ {t} : job'[u] = job[u]
  BY DEF RegistryInv, TypeOK
<1>2. Idle.step = "idle"
  BY DEF Idle
<1> QED
  BY <1>1, <1>2 DEF Good, Knows, OwnsFinalizer

LEMMA UpdateIsGood ==
    ASSUME RegistryInv, NEW t \in Tenants, NEW object \in Objects, NEW step,
           Update(t, object, step), born' = born, job[t].step # "idle",
           Registered(object) = Registered(job[t].cr),
           job[t].cr.finalizer => object.finalizer,
           Knows([job[t] EXCEPT !.cr = object, !.step = step])
    PROVE  Good(t)
<1>1. /\ TypeOK /\ job \in [Tenants -> Jobs] /\ job[t] \in Jobs
      /\ job[t].cr \in Objects /\ job[t].cr # None
  BY NoneAssumption DEF RegistryInv, TypeOK, JobsWellFormed
<1>2. CASE Stored[t] = job[t].cr
  <2> DEFINE new == [job[t] EXCEPT !.cr = object, !.step = step]
  <2>1. Commit(t, object) /\ job' = [job EXCEPT ![t] = new]
    BY <1>1, <1>2 DEF Update
  <2>2. /\ job'[t] = new /\ new.cr = object
        /\ \A u \in Tenants \ {t} : job'[u] = job[u]
    BY <1>1, <2>1 DEF Jobs
  <2> HIDE DEF new
  <2>3. object.status = Stored[t].status
    BY <1>1, <1>2, RegisteredFacts
  <2>4. Adopted(t, object) /\ OwnsFinalizer(t, object)
    BY <1>1, <1>2, <2>1, <2>2, <2>3 DEF Adopted, OwnsFinalizer, RegistryInv, Finalized
  <2>5. RegistryStep
    BY <1>1, <1>2, <2>1, SameRecord
  <2> QED
    BY <2>2, <2>4, <2>5 DEF Good, new
<1>3. CASE Stored[t] # job[t].cr
  <2>1. job'[t] = Idle /\ UNCHANGED log /\ \A u \in Tenants \ {t} : job'[u] = job[u]
    BY <1>1, <1>3 DEF Update
  <2>2. Knows(Idle) /\ Idle.step = "idle"
    BY DEF Knows, Idle
  <2> QED
    BY <2>1, <2>2, ReadingIsGood
<1> QED
  BY <1>2, <1>3

\* The finalizer is none of the registry.
LEMMA AddFinalizerIsGood ==
    ASSUME RegistryInv, NEW t \in Tenants, AddFinalizer(t)
    PROVE  Good(t)
<1>1. /\ job[t] \in Jobs /\ job[t].cr \in Objects /\ job[t].step # "idle" /\ born' = born
      /\ Knows(job[t])
  BY DEF RegistryInv, TypeOK, JobsWellFormed, JobsKnow, AddFinalizer, At
<1> DEFINE cr == [job[t].cr EXCEPT !.finalizer = TRUE]
<1>2. /\ cr \in Objects /\ cr.finalizer
      /\ cr.named = job[t].cr.named /\ cr.deleting = job[t].cr.deleting
  BY <1>1 DEF Objects
<1>3. Registered(cr) = Registered(job[t].cr)
  BY <1>1, <1>2, NoneAssumption DEF Registered, Objects
<1>4. Update(t, cr, "list")
  BY DEF AddFinalizer
<1> HIDE DEF cr
<1>5. Knows([job[t] EXCEPT !.cr = cr, !.step = "list"])
  BY <1>1, <1>2 DEF Knows, Jobs
<1> QED
  BY <1>1, <1>2, <1>3, <1>4, <1>5, UpdateIsGood

\* The runtime writes the name only on the object it read.
LEMMA InitializeNameIsGood ==
    ASSUME RegistryInv, NEW t \in Tenants, InitializeName(t)
    PROVE  Good(t)
<1> DEFINE old == Stored[t]
           cr == [old EXCEPT !.named = TRUE]
<1>1. /\ TypeOK /\ old \in Objects /\ old # None /\ Cached[t] = old /\ born' = born
  BY StoresInLog DEF RegistryInv, InitializeName, Starts, Stores
<1>2. Commit(t, cr) /\ job' = [job EXCEPT ![t] = Observe(cr)]
  BY <1>1 DEF InitializeName
<1>3. /\ cr \in Objects /\ cr.named = TRUE /\ cr.spec = old.spec
      /\ cr.status = old.status /\ cr.ready = old.ready
      /\ cr.deleting = old.deleting /\ cr.finalizer = old.finalizer
  BY <1>1 DEF Objects
<1> HIDE DEF cr
<1>4. Knows(Observe(cr)) /\ Observe(cr).cr = cr
  BY <1>3, ObserveKnows, ObserveType
<1>5. job'[t] = Observe(cr) /\ \A u \in Tenants \ {t} : job'[u] = job[u]
  BY <1>1, <1>2 DEF TypeOK
<1>6. Adopted(t, cr)
  BY <1>1, <1>2, <1>3 DEF Adopted, RegistryInv, Finalized
<1>7. OwnsFinalizer(t, cr)
  BY <1>1, <1>3, <1>4, <1>5 DEF OwnsFinalizer
<1> DEFINE record == Registered(old)
           new == [record EXCEPT !.named = TRUE]
<1>8. record \in Records /\ record # None
  BY <1>1, NoneAssumption, RegisteredFacts DEF Registered, Records, Objects
<1>9. /\ new \in Records /\ new.named = TRUE /\ new.spec = record.spec
      /\ new.acknowledged = record.acknowledged /\ new.ready = record.ready
      /\ new.deleting = record.deleting
  BY <1>8 DEF Records
<1> HIDE DEF new
<1>10. Registered(cr) = new
  <2>1. /\ record.spec = cr.spec /\ record.acknowledged = cr.status
        /\ record.ready = cr.ready /\ record.deleting = cr.deleting
    BY <1>1, <1>3, RegisteredFacts
  <2> HIDE DEF record
  <2>2. /\ new.spec = cr.spec /\ new.acknowledged = cr.status /\ new.ready = cr.ready
        /\ new.named = cr.named /\ new.deleting = cr.deleting
    BY <1>3, <1>9, <2>1
  <2> QED
    BY <1>3, <1>9, <2>2, RecordIs
<1>11. Mapped[t] = record /\ Mapped' = [Mapped EXCEPT ![t] = new]
  BY <1>1, <1>2, <1>3, <1>10, MappedWrite DEF Mapped
<1> HIDE DEF record
<1>12. Registry!Name(t)
  BY <1>1, <1>11 DEF Registry!Name, Registry!Change, Mapped, new
<1>13. RegistryStep
  BY <1>8, <1>11, <1>12 DEF RegistryStep, Registry!Next, Mapped
<1> QED
  BY <1>1, <1>4, <1>5, <1>6, <1>7, <1>13 DEF Good

\* A status is written on the object that was observed: it acknowledges its
\* spec, or makes it Ready.
LEMMA PersistStatusIsGood ==
    ASSUME RegistryInv, NEW t \in Tenants, PersistStatus(t)
    PROVE  Good(t)
<1> DEFINE old == Stored[t]
           cr == job[t].cr
           op == job[t].op
<1>1. /\ TypeOK /\ old \in Objects \cup {None} /\ cr \in Objects /\ cr # None
      /\ cr.named /\ ~cr.deleting /\ (op = "update" => cr.finalizer)
      /\ job' = [job EXCEPT ![t] = Idle] /\ born' = born
  BY StoresInLog, NoneAssumption
     DEF RegistryInv, TypeOK, JobsWellFormed, JobsKnow, Knows, PersistStatus, At, Stores
<1>2. CASE old # cr
  <2>1. Commit(t, old)
    BY <1>1, <1>2 DEF PersistStatus, Commit
  <2>2. Adopted(t, old) /\ RegistryStep
    BY <1>1, <2>1, SameRecord DEF Adopted, RegistryInv, Finalized
  <2> QED
    BY <1>1, <2>2, EndIsGood
<1>3. CASE old = cr
  <2> DEFINE object == syncStatus(cr, op)
             ready == cr.ready \/ isUpToDate(cr)
             status == IF op = "update" THEN cr.spec ELSE cr.status
  <2>1. Commit(t, object)
    BY <1>3 DEF PersistStatus
  <2>2. ready \in BOOLEAN /\ status \in Specs \cup {None}
    BY <1>1 DEF isUpToDate, Objects
  <2>3. object = [cr EXCEPT !.ready = ready, !.status = status]
    BY DEF syncStatus
  <2> HIDE DEF object, ready, status
  <2>4. /\ object \in Objects /\ object.finalizer = cr.finalizer /\ object.named = cr.named
        /\ object.spec = cr.spec /\ object.deleting = cr.deleting
        /\ object.ready = ready /\ object.status = status
    BY <1>1, <2>2, <2>3 DEF Objects
  <2>5. Adopted(t, object)
    <3>1. status # None => cr.finalizer
      BY <1>1, <1>3 DEF status, RegistryInv, Finalized
    <3> QED
      BY <1>1, <1>3, <2>1, <2>4, <3>1 DEF Adopted
  <2> DEFINE record == Registered(cr)
  <2>6. /\ record \in Records /\ record # None /\ Registered(object) \in Records
        /\ record.named /\ ~record.deleting
        /\ record.spec = cr.spec /\ record.acknowledged = cr.status /\ record.ready = cr.ready
    BY <1>1, <2>4, NoneAssumption, RegisteredFacts DEF Registered, Records, Objects
  <2>7. Mapped[t] = record /\ Mapped' = [Mapped EXCEPT ![t] = Registered(object)]
    BY <1>1, <1>3, <2>1, <2>4, MappedWrite DEF Mapped
  <2>8. CASE isUpToDate(cr)
    <3>1. ready = TRUE /\ status = cr.status /\ cr.status = cr.spec
      BY <2>8 DEF ready, status, isUpToDate
    <3> DEFINE new == [record EXCEPT !.ready = TRUE]
    <3>2. /\ new \in Records /\ new.ready = TRUE /\ new.spec = record.spec
          /\ new.named = record.named /\ new.acknowledged = record.acknowledged
          /\ new.deleting = record.deleting
      BY <2>6 DEF Records
    <3> HIDE DEF new
    <3>3. Registered(object) = new
      <4>1. /\ new.spec = object.spec /\ new.acknowledged = object.status
            /\ new.ready = object.ready
        BY <2>4, <2>6, <3>1, <3>2
      <4>2. new.named = object.named /\ new.deleting = object.deleting
        BY <1>1, <2>4, <2>6, <3>2, RegisteredFacts
      <4> QED
        BY <2>4, <3>2, <4>1, <4>2, RecordIs
    <3> HIDE DEF record
    <3>4. Registry!BecomeReady(t)
      BY <1>1, <2>6, <2>7, <3>1, <3>3 DEF Registry!BecomeReady, Registry!Change, Mapped, new
    <3>5. RegistryStep
      BY <2>6, <2>7, <3>4 DEF RegistryStep, Registry!Next, Mapped
    <3> QED
      BY <1>1, <2>5, <3>5, EndIsGood
  <2>9. CASE ~isUpToDate(cr) /\ op = "update"
    <3>1. ready = cr.ready /\ status = cr.spec
      <4>1. cr.ready \in BOOLEAN
        BY <1>1 DEF Objects
      <4> QED
        BY <2>9, <4>1 DEF ready, status
    <3> DEFINE new == [record EXCEPT !.acknowledged = record.spec]
    <3>2. /\ new \in Records /\ new.ready = record.ready /\ new.spec = record.spec
          /\ new.named = record.named /\ new.acknowledged = record.spec
          /\ new.deleting = record.deleting
      BY <2>6 DEF Records
    <3> HIDE DEF new
    <3>3. Registered(object) = new
      <4>1. /\ new.spec = object.spec /\ new.acknowledged = object.status
            /\ new.ready = object.ready
        BY <2>4, <2>6, <3>1, <3>2
      <4>2. new.named = object.named /\ new.deleting = object.deleting
        BY <1>1, <2>4, <2>6, <3>2, RegisteredFacts
      <4> QED
        BY <2>4, <3>2, <4>1, <4>2, RecordIs
    <3> HIDE DEF record
    <3>4. Registry!Acknowledge(t)
      BY <1>1, <2>6, <2>7, <3>1, <3>3 DEF Registry!Acknowledge, Registry!Change, Mapped, new
    <3>5. RegistryStep
      BY <2>6, <2>7, <3>4 DEF RegistryStep, Registry!Next, Mapped
    <3> QED
      BY <1>1, <2>5, <3>5, EndIsGood
  <2>10. CASE ~isUpToDate(cr) /\ op # "update"
    <3>1. ready = cr.ready /\ status = cr.status
      <4>1. cr.ready \in BOOLEAN
        BY <1>1 DEF Objects
      <4> QED
        BY <2>10, <4>1 DEF ready, status
    <3>2. Registered(object) = Registered(old)
      <4>1. old.spec = object.spec /\ old.status = object.status /\ old.ready = object.ready
        BY <1>3, <2>4, <3>1
      <4>2. old.named = object.named /\ old.deleting = object.deleting
        BY <1>3, <2>4
      <4>3. record.spec = object.spec /\ record.acknowledged = object.status
            /\ record.ready = object.ready /\ record.named = object.named
            /\ record.deleting = object.deleting
        BY <1>1, <1>3, <4>1, <4>2, RegisteredFacts
      <4>4. Registered(object) = record
        BY <2>4, <2>6, <4>3, RecordIs
      <4> QED
        BY <1>3, <4>4
    <3>3. RegistryStep
      BY <1>1, <2>1, <2>4, <3>2, SameRecord
    <3> QED
      BY <1>1, <2>5, <3>3, EndIsGood
  <2> QED
    BY <2>8, <2>9, <2>10
<1> QED
  BY <1>2, <1>3

\* An object that goes is one whose deletion was requested.
LEMMA RemoveFinalizerIsGood ==
    ASSUME RegistryInv, NEW t \in Tenants, RemoveFinalizer(t)
    PROVE  Good(t)
<1> DEFINE old == Stored[t]
           cr == job[t].cr
<1>1. /\ TypeOK /\ old \in Objects \cup {None} /\ cr \in Objects /\ cr # None /\ cr.deleting
      /\ job' = [job EXCEPT ![t] = Idle] /\ born' = born
  BY StoresInLog, NoneAssumption
     DEF RegistryInv, TypeOK, JobsWellFormed, JobsKnow, Knows, RemoveFinalizer, At, Stores
<1>2. CASE old # cr
  <2>1. Commit(t, old)
    BY <1>1, <1>2 DEF RemoveFinalizer, Commit
  <2>2. Adopted(t, old) /\ RegistryStep
    BY <1>1, <2>1, SameRecord DEF Adopted, RegistryInv, Finalized
  <2> QED
    BY <1>1, <2>2, EndIsGood
<1>3. CASE old = cr
  <2>1. Commit(t, None) /\ Adopted(t, None)
    BY <1>3 DEF RemoveFinalizer, Adopted
  <2>2. Mapped[t] # None /\ Mapped[t].deleting /\ Mapped' = [Mapped EXCEPT ![t] = None]
    BY <1>1, <1>3, <2>1, MappedWrite, RegisteredFacts DEF Mapped, Registered
  <2>3. Registry!Retire(t)
    BY <1>1, <2>2 DEF Registry!Retire, Registry!Change, Mapped
  <2>4. RegistryStep
    BY <2>2, <2>3 DEF RegistryStep, Registry!Next, Mapped
  <2> QED
    BY <1>1, <2>1, <2>4, EndIsGood
<1> QED
  BY <1>2, <1>3

LEMMA ReconcileIsGood ==
    ASSUME RegistryInv, NEW t \in Tenants, Reconcile(t)
    PROVE  Good(t)
<1>1. /\ TypeOK /\ job'[t] = Observe(Cached[t]) /\ UNCHANGED <<log, born>>
      /\ Cached[t] # None /\ Cached[t].named
      /\ \A u \in Tenants \ {t} : job'[u] = job[u]
  BY DEF RegistryInv, Reconcile, Starts, TypeOK
<1>2. Cached[t] \in Objects
  BY <1>1, StoresInLog DEF Stores
<1>3. Knows(job'[t]) /\ job'[t].cr = Cached[t]
  BY <1>1, <1>2, ObserveKnows, ObserveType
<1> QED
  BY <1>1, <1>3, ReadingIsGood

LEMMA JobStepIsGood ==
    ASSUME RegistryInv, NEW t \in Tenants, JobStep(t) \/ ResponseLost(t)
    PROVE  Good(t)
<1>1. TypeOK /\ JobsKnow
  BY DEF RegistryInv
<1>2. CASE \/ CheckDrift(t) \/ ListTenants(t)
           \/ getOrInitSettings(t) \/ SyncOrgMapping(t) \/ SyncFails(t) \/ ResponseLost(t)
  BY <1>1, <1>2, SilentStepKnows, ReadingIsGood
<1> QED
  BY <1>2, AddFinalizerIsGood, PersistStatusIsGood, RemoveFinalizerIsGood DEF JobStep

-------------------------------------------------------------------------------
(* Users *)

\* An edit or a deletion of a Tenant does not touch its reconcile.
LEMMA UserIsGood ==
    ASSUME RegistryInv, NEW t \in Tenants, NEW object, Adopted(t, object), RegistryStep,
           job' = job, born' = born
    PROVE  Good(t)
BY DEF Good, OwnsFinalizer, RegistryInv, JobsKnow

LEMMA EditIsGood ==
    ASSUME RegistryInv, NEW t \in Tenants, NEW s \in Specs,
           EditTenant(t, s)
    PROVE  Good(t)
<1> DEFINE old == Stored[t]
           generation == old.generation + 1
           object == [old EXCEPT !.spec = s, !.generation = generation]
<1>1. /\ TypeOK /\ old \in Objects /\ old # None /\ job' = job /\ born' = born
      /\ Commit(t, object)
  BY StoresInLog DEF RegistryInv, EditTenant, UserActs, Stores
<1>2. generation \in Nat
  <2>1. old.generation \in Nat
    BY <1>1 DEF Objects
  <2> QED
    BY <2>1
<1> HIDE DEF generation
<1>3. /\ object \in Objects /\ object.spec = s
      /\ object.named = old.named /\ object.finalizer = old.finalizer
      /\ object.status = old.status /\ object.ready = old.ready
      /\ object.deleting = old.deleting
  BY <1>1, <1>2 DEF Objects
<1> HIDE DEF object
<1>4. Adopted(t, object)
  BY <1>1, <1>3 DEF Adopted, RegistryInv, Finalized
<1> DEFINE record == Registered(old)
           new == [record EXCEPT !.spec = s]
<1>5. record \in Records /\ Registered(object) \in Records /\ record # None
  BY <1>1, <1>3, NoneAssumption, RegisteredFacts DEF Registered, Records, Objects
<1>6. /\ new \in Records /\ new.ready = record.ready /\ new.spec = s
      /\ new.named = record.named /\ new.acknowledged = record.acknowledged
      /\ new.deleting = record.deleting
  BY <1>5 DEF Records
<1> HIDE DEF new
<1>7. Registered(object) = new
  BY <1>1, <1>3, <1>5, <1>6, RegisteredFacts, SameFields
<1>8. Mapped' = [Mapped EXCEPT ![t] = new]
  BY <1>1, <1>3, <1>7, MappedWrite
<1>9. Mapped[t] = record /\ record.spec = old.spec
  BY <1>1, RegisteredFacts DEF Mapped
<1> HIDE DEF record
<1>10. Registry!Edit(t, s)
  BY <1>1, <1>8, <1>9 DEF Registry!Edit, Registry!Change, Mapped, new
<1>11. RegistryStep
  BY <1>5, <1>9, <1>10 DEF RegistryStep, Registry!Next, Mapped
<1> QED
  BY <1>1, <1>4, <1>11, UserIsGood

LEMMA DeleteIsGood ==
    ASSUME RegistryInv, NEW t \in Tenants, DeleteTenant(t)
    PROVE  Good(t)
<1> DEFINE old == Stored[t]
<1>1. TypeOK /\ old \in Objects /\ old # None /\ job' = job /\ born' = born
  BY StoresInLog DEF RegistryInv, DeleteTenant, UserActs, Stores
<1>2. Mapped[t] = Registered(old) /\ Mapped[t] # None
  BY <1>1, RegisteredFacts DEF Mapped
<1>3. CASE old.finalizer
  <2> DEFINE object == [old EXCEPT !.deleting = TRUE]
  <2>1. Commit(t, object)
    BY <1>3 DEF DeleteTenant
  <2>2. /\ object \in Objects /\ object.spec = old.spec
        /\ object.named = old.named /\ object.finalizer = old.finalizer
        /\ object.status = old.status /\ object.ready = old.ready
        /\ object.deleting = TRUE
    BY <1>1 DEF Objects
  <2> HIDE DEF object
  <2>3. Adopted(t, object)
    BY <1>1, <1>3, <2>1, <2>2 DEF Adopted
  <2> DEFINE record == Registered(old)
             new == [record EXCEPT !.deleting = TRUE]
  <2>4. record \in Records /\ Registered(object) \in Records
    BY <1>1, <2>2, NoneAssumption DEF Registered, Records, Objects
  <2>5. /\ new \in Records /\ new.ready = record.ready /\ new.spec = record.spec
        /\ new.named = record.named /\ new.acknowledged = record.acknowledged
        /\ new.deleting = TRUE
    BY <2>4 DEF Records
  <2> HIDE DEF new
  <2>6. Registered(object) = new
    <3>1. /\ new.spec = object.spec /\ new.acknowledged = object.status
          /\ new.ready = object.ready /\ new.named = object.named
      BY <1>1, <2>2, <2>5, RegisteredFacts
    <3> QED
      BY <2>2, <2>5, <3>1, RecordIs
  <2>7. Mapped' = [Mapped EXCEPT ![t] = new]
    BY <1>1, <2>1, <2>2, <2>6, MappedWrite
  <2> HIDE DEF record
  <2>8. Registry!RequestDeletion(t)
    BY <1>1, <1>2, <2>7 DEF Registry!RequestDeletion, Registry!Change, Mapped, new, record
  <2>9. RegistryStep
    BY <1>2, <2>8 DEF RegistryStep, Registry!Next, Mapped
  <2> QED
    BY <1>1, <2>3, <2>9, UserIsGood
<1>4. CASE ~old.finalizer
  <2>1. Commit(t, None) /\ Adopted(t, None)
    BY <1>4 DEF DeleteTenant, Adopted
  <2>2. Mapped[t].acknowledged = None /\ Mapped' = [Mapped EXCEPT ![t] = None]
    BY <1>1, <1>2, <1>4, <2>1, MappedWrite, RegisteredFacts
       DEF RegistryInv, Finalized, Registered
  <2>3. Registry!Retire(t)
    BY <1>1, <2>2 DEF Registry!Retire, Registry!Change, Mapped
  <2>4. RegistryStep
    BY <1>2, <2>3 DEF RegistryStep, Registry!Next, Mapped
  <2> QED
    BY <1>1, <2>1, <2>4, UserIsGood
<1> QED
  BY <1>3, <1>4

-------------------------------------------------------------------------------
(* Every step *)

\* A new object has no name and no finalizer yet, and nobody has seen it.
LEMMA CreateTenantRegisters ==
    ASSUME RegistryInv, NEW t \in Tenants, NEW s \in Specs, CreateTenant(t, s)
    PROVE  SeenAreBorn' /\ JobsKnow' /\ Finalized' /\ RegistryStep
<1> DEFINE object == NewTenant(s)
<1>1. /\ object \in Objects /\ ~object.named /\ ~object.finalizer
      /\ object.spec = s /\ object.status = None /\ object.ready = FALSE
      /\ object.deleting = FALSE /\ object.named = FALSE
  BY DEF NewTenant, Objects
<1>2. object # None /\ TypeOK /\ Finalized
  BY <1>1, NoneAssumption DEF RegistryInv
<1>3. t \notin born /\ born' = born \cup {t} /\ job' = job /\ Commit(t, object)
  BY DEF CreateTenant, UserActs
<1>4. job[t].step = "idle" /\ \A i \in DOMAIN log : log[i][t] = None
  BY <1>3 DEF RegistryInv, SeenAreBorn
<1>5. Stored[t] = None
  BY <1>2, <1>4, LogFacts
<1>6. log' = Append(log, [Stored EXCEPT ![t] = object])
  BY <1>2, <1>3, <1>5 DEF Commit
<1> DEFINE new == [spec |-> s, named |-> FALSE, acknowledged |-> None,
                   ready |-> FALSE, deleting |-> FALSE]
<1> HIDE DEF object
<1>7. JobsKnow'
  BY <1>3 DEF JobsKnow, RegistryInv, Knows
<1>12. /\ \A i \in DOMAIN log : log'[i] = log[i]
       /\ \A i \in DOMAIN log' : i \in DOMAIN log \/ log'[i] = Stored'
       /\ Stored'[t] = object
       /\ \A u \in Tenants \ {t} : Stored'[u] = Stored[u]
  BY <1>1, <1>2, <1>6, WriteFacts
<1>13. SeenAreBorn'
  <2> SUFFICES ASSUME NEW u \in Tenants \ {t},
                      job'[u].step # "idle" \/ \E i \in DOMAIN log' : log'[i][u] # None
               PROVE  job[u].step # "idle" \/ \E i \in DOMAIN log : log[i][u] # None
    BY <1>3 DEF SeenAreBorn, RegistryInv
  <2>1. Stored = log[Len(log)] /\ Len(log) \in DOMAIN log
    BY <1>2, LogFacts
  <2> QED
    BY <1>3, <1>12, <2>1
<1>8. Finalized'
  <2> SUFFICES ASSUME NEW u \in Tenants, Stored'[u] # None
               PROVE  /\ Stored'[u].status # None => Stored'[u].finalizer
                      /\ job'[u].step # "idle" /\ job'[u].cr.finalizer => Stored'[u].finalizer
                      /\ \A i \in DOMAIN log' :
                           log'[i][u] # None /\ log'[i][u].finalizer => Stored'[u].finalizer
    BY DEF Finalized
  <2>2. CASE u = t
    BY <1>1, <1>3, <1>4, <1>12, <2>2
  <2>3. CASE u # t
    BY <1>2, <1>3, <1>12, <2>3 DEF Finalized
  <2> QED
    BY <2>2, <2>3
<1>9. new \in Records /\ Registered(object) = new
  <2>1. new \in Records
    BY DEF Records
  <2>2. /\ new.spec = s /\ new.named = FALSE /\ new.acknowledged = None
        /\ new.ready = FALSE /\ new.deleting = FALSE
    OBVIOUS
  <2> HIDE DEF new
  <2> QED
    BY <1>1, <2>1, <2>2, RecordIs
<1>10. Mapped' = [Mapped EXCEPT ![t] = new]
  BY <1>1, <1>2, <1>3, <1>9, MappedWrite
<1>11. Registry!Register(t, s)
  BY <1>3, <1>10 DEF Registry!Register, Mapped
<1> QED
  BY <1>7, <1>8, <1>11, <1>13 DEF RegistryStep, Registry!Next

\* What happens to the cache, the provider or Grafana is none of the registry.
LEMMA StoreStaysInRegistry ==
    ASSUME RegistryInv, Stored' = Stored, born' = born,
           \A i \in DOMAIN log' : \E k \in DOMAIN log : log'[i] = log[k],
           \A t \in Tenants : job'[t] = job[t] \/ job'[t] = Idle
    PROVE  SeenAreBorn' /\ JobsKnow' /\ Finalized' /\ RegistryStep
<1>1. Idle.step = "idle"
  BY DEF Idle
<1>2. JobsKnow'
  BY <1>1 DEF JobsKnow, RegistryInv, Knows
<1>3. Finalized'
  BY <1>1 DEF Finalized, RegistryInv
<1>4. Mapped' = Mapped
  BY DEF Mapped, Registered
<1>5. SeenAreBorn'
  BY <1>1 DEF SeenAreBorn, RegistryInv
<1> QED
  BY <1>2, <1>3, <1>4, <1>5 DEF RegistryStep

LEMMA GoodSteps ==
    ASSUME RegistryInv, NEW t \in Tenants, Good(t)
    PROVE  SeenAreBorn' /\ JobsKnow' /\ Finalized' /\ RegistryStep
<1>1. TypeOK /\ SeenAreBorn /\ Finalized /\ JobsKnow
  BY DEF RegistryInv
<1>2. PICK object : Adopted(t, object) /\ OwnsFinalizer(t, object)
  BY DEF Good
<1>3. Finalized' /\ SeenAreBorn'
  BY <1>1, <1>2, AdoptedFinalized DEF Good
<1>4. JobsKnow'
  BY <1>1 DEF Good, JobsKnow, Knows
<1> QED
  BY <1>3, <1>4 DEF Good

LEMMA NextRegistry ==
    ASSUME RegistryInv, [Next]_vars
    PROVE  RegistryInv' /\ RegistryStep
<1>1. TypeOK' /\ TypeOK
  BY NextKeepsTypes DEF RegistryInv
<1>2. CASE UNCHANGED <<log, born, job>>
  <2>1. Stored' = Stored /\ \A i \in DOMAIN log' : \E k \in DOMAIN log : log'[i] = log[k]
    BY <1>2 DEF Stored
  <2> QED
    BY <1>1, <1>2, <2>1, StoreStaysInRegistry DEF RegistryInv
<1>3. ASSUME NEW t \in Tenants, Good(t) PROVE RegistryInv' /\ RegistryStep
  BY <1>1, <1>3, GoodSteps DEF RegistryInv
<1>4. CASE Environment
  <2>1. ASSUME NEW t \in Tenants, NEW s \in Specs, CreateTenant(t, s)
        PROVE  RegistryInv' /\ RegistryStep
    BY <1>1, <2>1, CreateTenantRegisters DEF RegistryInv
  <2>2. ASSUME NEW t \in Tenants, NEW s \in Specs, EditTenant(t, s)
        PROVE  RegistryInv' /\ RegistryStep
    BY <1>3, <2>2, EditIsGood
  <2>3. ASSUME NEW t \in Tenants, DeleteTenant(t) PROVE RegistryInv' /\ RegistryStep
    BY <1>3, <2>3, DeleteIsGood
  <2>4. ASSUME NEW t \in Tenants, ResponseLost(t) PROVE RegistryInv' /\ RegistryStep
    BY <1>3, <2>4, JobStepIsGood
  <2>5. CASE Restart
    <3>1. DOMAIN log' = {1} /\ log'[1] = Stored /\ Stored' = Stored
      BY <1>1, <2>5, RestartFacts DEF Restart
    <3>2. Stored = log[Len(log)] /\ Len(log) \in DOMAIN log
      BY <1>1, LogFacts
    <3>3. born' = born /\ \A t \in Tenants : job'[t] = Idle
      BY <2>5 DEF Restart
    <3> QED
      BY <1>1, <3>1, <3>2, <3>3, StoreStaysInRegistry DEF RegistryInv
  <2>6. CASE \/ GrafanaFails \/ GrafanaRecovers \/ MappingDrifts
             \/ \E v \in Settings : AdminConfigures(v)
    BY <1>2, <2>6 DEF GrafanaFails, GrafanaRecovers, MappingDrifts, AdminConfigures
  <2> QED
    BY <1>4, <2>1, <2>2, <2>3, <2>4, <2>5, <2>6 DEF Environment
<1>5. CASE Deliver
  <2>1. Stored' = Stored /\ \A i \in DOMAIN log' : \E k \in DOMAIN log : log'[i] = log[k]
    BY <1>1, <1>5, DeliverFacts
  <2>2. UNCHANGED <<born, job>>
    BY <1>5 DEF Deliver
  <2> QED
    BY <1>1, <2>1, <2>2, StoreStaysInRegistry DEF RegistryInv
<1>6. ASSUME NEW t \in Tenants, Starting(t) PROVE RegistryInv' /\ RegistryStep
  BY <1>3, <1>6, ReconcileIsGood, InitializeNameIsGood DEF Starting
<1>7. ASSUME NEW t \in Tenants, JobStep(t) PROVE RegistryInv' /\ RegistryStep
  BY <1>3, <1>7, JobStepIsGood
<1> QED
  BY <1>2, <1>4, <1>5, <1>6, <1>7 DEF Next, vars

LEMMA InitRegistry == Init => RegistryInv /\ Registry!Init
<1> SUFFICES ASSUME Init PROVE RegistryInv /\ Registry!Init
  OBVIOUS
<1>1. \A t \in Tenants : Stored[t] = None /\ job[t].step = "idle"
  BY DEF Init, Stored, Idle
<1>2. TypeOK /\ SeenAreBorn
  <2>1. \A i \in DOMAIN log, t \in Tenants : log[i][t] = None
    BY DEF Init
  <2> QED
    BY <1>1, <2>1, InitTyped DEF SeenAreBorn
<1>3. JobsKnow /\ Finalized
  BY <1>1 DEF JobsKnow, Knows, Finalized
<1>4. Mapped = [t \in Tenants |-> None]
  BY <1>1 DEF Mapped, Registered
<1> QED
  BY <1>2, <1>3, <1>4 DEF RegistryInv, Registry!Init, Init, Mapped

\* Everything that Observe, Update, the runtime and the users do to the stored
\* Tenants, through a stale cache, conflicts and restarts at any time, is a
\* behaviour of the registry: each status the spec of that moment, of a Tenant
\* that nobody deletes, and no acknowledged Tenant gone unasked.
THEOREM RegistryIsImplemented == Spec => ImplementsRegistry
<1>1. RegistryInv /\ [Next]_vars => RegistryInv' /\ RegistryStep
  BY NextRegistry
<1>2. RegistryStep => [Registry!Next]_(Registry!vars)
  BY DEF RegistryStep, Registry!vars, Mapped
<1>3. Spec => Registry!Init /\ [][Registry!Next]_(Registry!vars)
  BY <1>1, <1>2, InitRegistry, PTL DEF Spec
<1> QED
  BY <1>3 DEF ImplementsRegistry, Registry!Spec
===============================================================================
