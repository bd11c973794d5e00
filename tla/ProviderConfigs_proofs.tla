------------------------ MODULE ProviderConfigs_proofs ------------------------
(***************************************************************************)
(* Theorems about ProviderConfigs for every set of Tenants, configs and    *)
(* references, every lag of the caches and every number of events.         *)
(***************************************************************************)
EXTENDS ProviderConfigs, SequenceTheorems, TLAPS

LEMMA Singleton ==
    ASSUME NEW S, NEW e \in S
    PROVE  /\ <<e>> \in Seq(S) \ {<<>>}
           /\ <<e>>[Len(<<e>>)] = e
           /\ \A i \in DOMAIN <<e>> : <<e>>[i] = e
OBVIOUS

LEMMA TailOfLonger ==
    ASSUME NEW S, NEW seq \in Seq(S), Len(seq) > 1
    PROVE  /\ Tail(seq) \in Seq(S) \ {<<>>}
           /\ Len(Tail(seq)) = Len(seq) - 1
           /\ DOMAIN Tail(seq) = 1..(Len(seq) - 1)
           /\ \A i \in 1..(Len(seq) - 1) : Tail(seq)[i] = seq[i + 1]
<1>1. seq # <<>> /\ Len(seq) \in Nat
  BY EmptySeq
<1>2. /\ Tail(seq) \in Seq(S)
      /\ Len(Tail(seq)) = Len(seq) - 1
      /\ \A i \in 1..(Len(seq) - 1) : Tail(seq)[i] = seq[i + 1]
  BY <1>1, HeadTailProperties
<1> DEFINE rest == Tail(seq)
<1> HIDE DEF rest
<1>3. Len(rest) # 0 /\ Len(<<>>) = 0
  BY <1>1, <1>2, EmptySeq DEF rest
<1>4. rest # <<>>
  BY <1>3
<1> QED
  BY <1>1, <1>2, <1>4 DEF rest

LogOK ==
    /\ DOMAIN log = ObjectKinds
    /\ \A kind \in ObjectKinds : log[kind] \in Seq(StoresOf[kind]) \ {<<>>}

StoreKeys(kind) == IF kind = "configs" THEN Configs ELSE Tenants

StoredObjects(kind) ==
    CASE kind = "tenants" -> TenantObjects \cup {None}
      [] kind = "configs" -> ConfigObjects \cup {None}
      [] kind = "usages" -> Refs \cup {None}

LEMMA StoresOfKinds ==
    ASSUME NEW kind \in ObjectKinds
    PROVE  StoresOf[kind] = [StoreKeys(kind) -> StoredObjects(kind)]
<1>1. CASE kind = "tenants"
  BY <1>1 DEF StoresOf, StoreKeys, StoredObjects
<1>2. CASE kind = "configs"
  BY <1>2 DEF StoresOf, StoreKeys, StoredObjects
<1>3. CASE kind = "usages"
  BY <1>3 DEF StoresOf, StoreKeys, StoredObjects
<1> QED
  BY <1>1, <1>2, <1>3 DEF ObjectKinds

\* The cached and the stored state of a kind, and all between, are stores.
LEMMA StoresInLog ==
    ASSUME LogOK, NEW kind \in ObjectKinds
    PROVE  /\ Len(log[kind]) \in Nat \ {0}
           /\ DOMAIN log[kind] = 1..Len(log[kind])
           /\ \A i \in DOMAIN log[kind] : log[kind][i] \in StoresOf[kind]
           /\ Cached(kind) \in StoresOf[kind]
           /\ Stored(kind) \in StoresOf[kind]
<1>1. log[kind] \in Seq(StoresOf[kind]) /\ log[kind] # <<>>
  BY DEF LogOK
<1>2. Len(log[kind]) \in Nat \ {0}
  BY <1>1, EmptySeq
<1> QED
  BY <1>1, <1>2 DEF Cached, Stored

\* A write of one object of one kind: the other kinds stay, the object is the
\* only change of the stored state, and nothing else can be seen that could
\* not be seen before.
LEMMA CommitFacts ==
    ASSUME LogOK, NEW kind \in ObjectKinds, NEW key \in StoreKeys(kind),
           NEW object \in StoredObjects(kind), Commit(kind, key, object)
    PROVE  /\ LogOK'
           /\ \A other \in ObjectKinds \ {kind} : log'[other] = log[other]
           /\ Stored(kind)' = [Stored(kind) EXCEPT ![key] = object]
           /\ Copies(kind)' \subseteq Copies(kind) \cup {[Stored(kind) EXCEPT ![key] = object]}
<1> DEFINE new == [Stored(kind) EXCEPT ![key] = object]
<1>1. /\ log[kind] \in Seq(StoresOf[kind]) /\ Len(log[kind]) \in Nat \ {0}
      /\ DOMAIN log = ObjectKinds
      /\ DOMAIN log[kind] = 1..Len(log[kind])
  BY StoresInLog DEF LogOK
<1>2. Stored(kind) \in [StoreKeys(kind) -> StoredObjects(kind)] /\ new \in StoresOf[kind]
  BY StoresInLog, StoresOfKinds
<1>3. CASE Stored(kind)[key] = object /\ UNCHANGED log
  <2>1. new = Stored(kind)
    BY <1>2, <1>3
  <2> QED
    BY <1>3, <2>1 DEF LogOK, Stored, Copies
<1>4. CASE log' = [log EXCEPT ![kind] = Append(@, new)]
  <2>1. log'[kind] = Append(log[kind], new) /\ DOMAIN log' = ObjectKinds
    BY <1>1, <1>4
  <2>2. \A other \in ObjectKinds \ {kind} : log'[other] = log[other]
    BY <1>1, <1>4
  <2> HIDE DEF new
  <2>3. /\ log'[kind] \in Seq(StoresOf[kind]) /\ log'[kind] # <<>>
        /\ Len(log'[kind]) = Len(log[kind]) + 1
        /\ log'[kind][Len(log'[kind])] = new
        /\ \A i \in DOMAIN log'[kind] :
             \/ i \in DOMAIN log[kind] /\ log'[kind][i] = log[kind][i]
             \/ log'[kind][i] = new
    BY <1>1, <1>2, <2>1
  <2>4. Copies(kind)' \subseteq Copies(kind) \cup {new}
    BY <2>3 DEF Copies
  <2> QED
    BY <2>1, <2>2, <2>3, <2>4 DEF LogOK, Stored, new
<1>5. CASE log' = [log EXCEPT ![kind] = <<new>>]
  <2>1. log'[kind] = <<new>> /\ DOMAIN log' = ObjectKinds
    BY <1>1, <1>5
  <2>2. \A other \in ObjectKinds \ {kind} : log'[other] = log[other]
    BY <1>1, <1>5
  <2> HIDE DEF new
  <2>3. /\ <<new>> \in Seq(StoresOf[kind]) \ {<<>>}
        /\ <<new>>[Len(<<new>>)] = new
        /\ \A i \in DOMAIN <<new>> : <<new>>[i] = new
    <3>1. new \in StoresOf[kind]
      BY <1>2
    <3> QED
      BY <3>1, Singleton
  <2> QED
    BY <2>1, <2>2, <2>3, SMTT(30) DEF LogOK, Stored, Copies, new
<1> QED
  BY <1>3, <1>4, <1>5 DEF Commit

\* The cache moves on by one write: what is stored stays, and nothing can be
\* seen that could not be seen before.
LEMMA DeliverFacts ==
    ASSUME LogOK, NEW kind \in ObjectKinds, Len(log[kind]) > 1,
           log' = [log EXCEPT ![kind] = Tail(@)]
    PROVE  /\ LogOK'
           /\ \A k \in ObjectKinds : Stored(k)' = Stored(k) /\ Copies(k)' \subseteq Copies(k)
<1>1. /\ log[kind] \in Seq(StoresOf[kind]) /\ Len(log[kind]) \in Nat
      /\ DOMAIN log = ObjectKinds /\ DOMAIN log[kind] = 1..Len(log[kind])
  BY StoresInLog DEF LogOK
<1>2. log'[kind] = Tail(log[kind]) /\ DOMAIN log' = ObjectKinds
  BY <1>1
<1>3. \A k \in ObjectKinds \ {kind} : log'[k] = log[k]
  BY <1>1
<1>4. /\ Tail(log[kind]) \in Seq(StoresOf[kind]) \ {<<>>}
      /\ Len(Tail(log[kind])) = Len(log[kind]) - 1
      /\ DOMAIN Tail(log[kind]) = 1..(Len(log[kind]) - 1)
      /\ \A i \in 1..(Len(log[kind]) - 1) : Tail(log[kind])[i] = log[kind][i + 1]
  BY <1>1, TailOfLonger
<1>6. Stored(kind)' = Stored(kind)
  BY <1>1, <1>2, <1>4 DEF Stored
<1>7. Copies(kind)' \subseteq Copies(kind)
  <2> SUFFICES ASSUME NEW i \in DOMAIN log'[kind] PROVE log'[kind][i] \in Copies(kind)
    BY DEF Copies
  <2>1. i \in 1..(Len(log[kind]) - 1)
    BY <1>2, <1>4
  <2> QED
    BY <1>1, <1>2, <1>4, <2>1 DEF Copies
<1> QED
  BY <1>2, <1>3, <1>4, <1>6, <1>7 DEF LogOK, Stored, Copies

\* A stop leaves of every kind what is stored.
LEMMA StopFacts ==
    ASSUME LogOK, log' = [kind \in ObjectKinds |-> <<Stored(kind)>>]
    PROVE  /\ LogOK'
           /\ \A k \in ObjectKinds : Stored(k)' = Stored(k) /\ Copies(k)' \subseteq Copies(k)
<1> SUFFICES ASSUME NEW k \in ObjectKinds
             PROVE  /\ log'[k] \in Seq(StoresOf[k]) \ {<<>>}
                    /\ Stored(k)' = Stored(k) /\ Copies(k)' \subseteq Copies(k)
  BY DEF LogOK
<1>1. log'[k] = <<Stored(k)>> /\ Stored(k) \in StoresOf[k]
  BY StoresInLog
<1>2. Stored(k) \in Copies(k)
  BY StoresInLog DEF Stored, Copies
<1>3. /\ log'[k] \in Seq(StoresOf[k]) \ {<<>>}
      /\ log'[k][Len(log'[k])] = Stored(k)
      /\ \A i \in DOMAIN log'[k] : log'[k][i] = Stored(k)
  BY <1>1, Singleton
<1> QED
  BY <1>2, <1>3 DEF Stored, Copies

-------------------------------------------------------------------------------
(* Type correctness *)

LEMMA LogTyped == TypeOK => LogOK
BY DEF TypeOK, LogOK

\* What is cached and stored of each kind.
LEMMA ObjectTypes ==
    ASSUME TypeOK
    PROVE  /\ Cached("tenants") \in [Tenants -> TenantObjects \cup {None}]
           /\ Stored("tenants") \in [Tenants -> TenantObjects \cup {None}]
           /\ Cached("configs") \in [Configs -> ConfigObjects \cup {None}]
           /\ Stored("configs") \in [Configs -> ConfigObjects \cup {None}]
           /\ Cached("usages") \in [Tenants -> Refs \cup {None}]
           /\ Stored("usages") \in [Tenants -> Refs \cup {None}]
BY LogTyped, StoresInLog, StoresOfKinds DEF ObjectKinds, StoreKeys, StoredObjects

\* A write keeps the type of the log.
LEMMA TenantCommit ==
    ASSUME TypeOK, NEW t \in Tenants, NEW object \in TenantObjects \cup {None},
           Commit("tenants", t, object)
    PROVE  LogOK'
BY LogTyped, CommitFacts DEF ObjectKinds, StoreKeys, StoredObjects

LEMMA ConfigCommit ==
    ASSUME TypeOK, NEW c \in Configs, NEW object \in ConfigObjects \cup {None},
           Commit("configs", c, object)
    PROVE  LogOK'
BY LogTyped, CommitFacts DEF ObjectKinds, StoreKeys, StoredObjects

LEMMA UsageCommit ==
    ASSUME TypeOK, NEW t \in Tenants, NEW usage \in Refs \cup {None},
           Commit("usages", t, usage)
    PROVE  LogOK'
BY LogTyped, CommitFacts DEF ObjectKinds, StoreKeys, StoredObjects

LEMMA InitTyped == Init => TypeOK
<1> SUFFICES ASSUME Init PROVE TypeOK
  OBVIOUS
<1>1. LogOK
  BY DEF Init, LogOK, ObjectKinds, StoresOf
<1>2. job \in [Tenants -> Jobs] /\ configJob \in [Configs -> ConfigJobs]
  BY DEF Init, Idle, Jobs, ConfigIdle, ConfigJobs
<1>3. /\ \A t \in Tenants : job[t].step = "idle"
      /\ \A c \in Configs : configJob[c].step = "idle"
  BY DEF Init, Idle, ConfigIdle
<1>4. /\ born \in SUBSET Tenants
      /\ queue \in SUBSET Configs
      /\ running \in BOOLEAN
      /\ published \in [Grafanas -> SUBSET Tenants]
      /\ heldBy \in [Configs -> SUBSET Tenants]
      /\ ops \in 0..MaxOps
  BY ConfigsAssumption DEF Init
<1> QED
  BY <1>1, <1>2, <1>3, <1>4 DEF TypeOK, LogOK

\* What users do changes the log, one step of time at most, and whose deletion
\* found which known uses.
LEMMA UserTyped ==
    ASSUME TypeOK, UserActs, LogOK', born' \in SUBSET Tenants,
           heldBy' \in [Configs -> SUBSET Tenants]
    PROVE  TypeOK'
<1>1. ops' \in 0..MaxOps
  BY ConfigsAssumption DEF TypeOK, UserActs, Occurs
<1> QED
  BY <1>1 DEF TypeOK, LogOK, UserActs

LEMMA EnvironmentTyped == TypeOK /\ Environment => TypeOK'
<1> SUFFICES ASSUME TypeOK, Environment PROVE TypeOK'
  OBVIOUS
<1> USE ObjectTypes
<1>1. ASSUME NEW t \in Tenants, NEW ref \in Refs, CreateTenant(t, ref) PROVE TypeOK'
  <2>1. [ref |-> ref, deleting |-> FALSE, finalizer |-> FALSE, acknowledged |-> FALSE]
        \in TenantObjects
    BY DEF TenantObjects
  <2> QED
    BY <1>1, <2>1, TenantCommit, UserTyped DEF CreateTenant, TypeOK
<1>2. ASSUME NEW t \in Tenants, NEW ref \in Refs, RetargetTenant(t, ref) PROVE TypeOK'
  <2>1. [Stored("tenants")[t] EXCEPT !.ref = ref] \in TenantObjects
    BY <1>2 DEF RetargetTenant, TenantObjects
  <2> QED
    BY <1>2, <2>1, TenantCommit, UserTyped DEF RetargetTenant, TypeOK
<1>3. ASSUME NEW t \in Tenants, DeleteTenant(t) PROVE TypeOK'
  <2>1. [Stored("tenants")[t] EXCEPT !.deleting = TRUE] \in TenantObjects
    BY <1>3 DEF DeleteTenant, TenantObjects
  <2> QED
    BY <1>3, <2>1, TenantCommit, UserTyped DEF DeleteTenant, TypeOK
<1>4. ASSUME NEW c \in Configs, NEW k \in Contents, CreateConfig(c, k) PROVE TypeOK'
  <2>1. [uid |-> ops, content |-> k, deleting |-> FALSE, finalizer |-> FALSE] \in ConfigObjects
    BY DEF ConfigObjects, TypeOK
  <2> QED
    BY <1>4, <2>1, ConfigCommit, UserTyped DEF CreateConfig, TypeOK
<1>5. ASSUME NEW c \in Configs, NEW k \in Contents, EditConfig(c, k) PROVE TypeOK'
  <2>1. [Stored("configs")[c] EXCEPT !.content = k] \in ConfigObjects
    BY <1>5 DEF EditConfig, ConfigObjects
  <2> QED
    BY <1>5, <2>1, ConfigCommit, UserTyped DEF EditConfig, TypeOK
<1>6. ASSUME NEW c \in Configs, DeleteConfig(c) PROVE TypeOK'
  <2>1. [Stored("configs")[c] EXCEPT !.deleting = TRUE] \in ConfigObjects
    BY <1>6 DEF DeleteConfig, ConfigObjects
  <2>2. heldBy' \in [Configs -> SUBSET Tenants]
    <3>1. heldBy \in [Configs -> SUBSET Tenants]
      BY DEF TypeOK
    <3>2. {t \in Tenants : Established(t, c)} \in SUBSET Tenants
      OBVIOUS
    <3>3. CASE Stored("configs")[c].finalizer
      BY <1>6, <3>1, <3>2, <3>3 DEF DeleteConfig
    <3>4. CASE ~Stored("configs")[c].finalizer
      BY <1>6, <3>1, <3>4 DEF DeleteConfig
    <3> QED
      BY <3>3, <3>4
  <2>3. LogOK'
    BY <1>6, <2>1, ConfigCommit DEF DeleteConfig
  <2> QED
    BY <1>6, <2>2, <2>3, UserTyped DEF DeleteConfig, TypeOK
<1>7. CASE Stop
  <2>1. LogOK'
    BY <1>7, LogTyped, StopFacts DEF Stop
  <2>2. ops' \in 0..MaxOps
    BY <1>7, ConfigsAssumption DEF TypeOK, Stop, Occurs
  <2>3. job' \in [Tenants -> Jobs] /\ configJob' \in [Configs -> ConfigJobs]
    BY <1>7 DEF Stop, Idle, Jobs, ConfigIdle, ConfigJobs
  <2> QED
    BY <1>7, <2>1, <2>2, <2>3 DEF TypeOK, LogOK, Stop, Idle, ConfigIdle
<1> QED
  BY <1>1, <1>2, <1>3, <1>4, <1>5, <1>6, <1>7 DEF Environment

\* A client made of a content is one of Clients, and of a Grafana of Grafanas.
LEMMA ClientTypes ==
    /\ \A content \in Contents : Usable(content) => ClientOf(content) \in Clients
    /\ \A client \in Clients : GrafanaOf(client) \in Grafanas
BY DEF Clients, Grafanas

\* A step of a Tenant's reconcile changes its job, the log, a mapping and who
\* holds what.
LEMMA JobTyped ==
    ASSUME TypeOK, NEW t \in Tenants, NEW new \in Jobs,
           new.step # "idle" => new.cr # None,
           new.step = "serve" => new.client # None,
           job' = [job EXCEPT ![t] = new],
           LogOK', published' \in [Grafanas -> SUBSET Tenants],
           heldBy' \in [Configs -> SUBSET Tenants],
           UNCHANGED <<born, configJob, queue, running, ops>>
    PROVE  TypeOK'
BY DEF TypeOK, LogOK

LEMMA UnholdTyped ==
    ASSUME TypeOK, NEW t, NEW usage, Unhold(t, usage)
    PROVE  heldBy' \in [Configs -> SUBSET Tenants]
BY DEF TypeOK, Unhold

\* The status that ends a reconcile is written on the object it worked on.
LEMMA PublishWrites ==
    ASSUME NEW t \in Tenants, Publish(t),
           job[t].step # "idle" => job[t].cr \in TenantObjects
    PROVE  \/ UNCHANGED log
           \/ \E object \in TenantObjects : Commit("tenants", t, object)
<1>1. [job[t].cr EXCEPT !.acknowledged = TRUE] \in TenantObjects
  BY DEF Publish, At, TenantObjects
<1> QED
  BY <1>1 DEF Publish

LEMMA TenantStepsTyped ==
    ASSUME TypeOK, NEW t \in Tenants, CollectUsage(t) \/ Reconcile(t) \/ JobStep(t)
    PROVE  TypeOK'
<1>1. CASE CollectUsage(t)
  <2>1. LogOK'
    BY <1>1, UsageCommit DEF CollectUsage
  <2> QED
    BY <1>1, <2>1, UnholdTyped DEF CollectUsage, TypeOK, LogOK
<1>2. CASE Reconcile(t)
  <2> DEFINE new == [step |-> "track", cr |-> Cached("tenants")[t], client |-> None]
  <2>1. new \in Jobs
    BY ObjectTypes DEF Jobs
  <2>2. new.cr # None /\ new.step = "track" /\ job' = [job EXCEPT ![t] = new]
    BY <1>2 DEF Reconcile
  <2>3. LogOK'
    BY <1>2, LogTyped DEF Reconcile, LogOK
  <2> HIDE DEF new
  <2> QED
    BY <1>2, <2>1, <2>2, <2>3, JobTyped DEF Reconcile, TypeOK
<1> DEFINE cr == job[t].cr
<1>3. /\ job[t] \in Jobs /\ job \in [Tenants -> Jobs]
      /\ job[t].step # "idle" => cr \in TenantObjects
      /\ job[t].step = "serve" => job[t].client \in Clients
  BY DEF TypeOK, Jobs
<1>4. Idle \in Jobs /\ Idle.step = "idle"
  BY DEF Idle, Jobs
<1>5. LogOK /\ (UNCHANGED log => LogOK')
  BY LogTyped DEF LogOK
<1>6. /\ published \in [Grafanas -> SUBSET Tenants]
      /\ heldBy \in [Configs -> SUBSET Tenants]
  BY DEF TypeOK
<1>7. CASE Track(t)
  <2>1. cr \in TenantObjects /\ cr.ref \in Refs
    BY <1>3, <1>7 DEF Track, At, TenantObjects
  <2>2. /\ [job[t] EXCEPT !.step = "connect"] \in Jobs
        /\ [job[t] EXCEPT !.step = "connect"].cr # None
        /\ [job[t] EXCEPT !.step = "connect"].step = "connect"
    BY <1>3, <2>1, NoneAssumption DEF Jobs
  <2>3. LogOK' /\ heldBy' \in [Configs -> SUBSET Tenants]
    BY <1>5, <1>6, <1>7, <2>1, UsageCommit, UnholdTyped DEF Track
  <2>4. \/ job' = [job EXCEPT ![t] = [job[t] EXCEPT !.step = "connect"]]
        \/ job' = [job EXCEPT ![t] = Idle]
    BY <1>3, <1>7 DEF Track, End
  <2> QED
    BY <1>4, <1>6, <1>7, <2>2, <2>3, <2>4, JobTyped DEF Track, At
<1>8. CASE Connect(t)
  <2>1. CASE End(t)
    BY <1>4, <1>5, <1>6, <1>8, <2>1, JobTyped DEF Connect, At, End
  <2>2. CASE \E client \in Clients :
               job' = [job EXCEPT ![t].step = "serve", ![t].client = client]
    <3>1. PICK client \in Clients :
            job' = [job EXCEPT ![t].step = "serve", ![t].client = client]
      BY <2>2
    <3> DEFINE new == [job[t] EXCEPT !.step = "serve", !.client = client]
    <3>2. job' = [job EXCEPT ![t] = new]
      BY <1>3, <3>1
    <3>3. new \in Jobs /\ new.cr # None /\ new.client # None
      BY <1>3, <1>8, NoneAssumption DEF Jobs, Connect, At
    <3> HIDE DEF new
    <3> QED
      BY <1>5, <1>6, <1>8, <3>2, <3>3, JobTyped DEF Connect, At
  <2>3. ASSUME NEW c \in Configs, Cached("configs")[c] # None,
               Usable(Cached("configs")[c].content)
        PROVE  ClientOf(Cached("configs")[c].content) \in Clients
    <3>1. Cached("configs")[c].content \in Contents
      BY <2>3, ObjectTypes DEF ConfigObjects
    <3> QED
      BY <2>3, <3>1, ClientTypes
  <2> QED
    BY <1>8, <2>1, <2>2, <2>3 DEF Connect
<1>9. CASE Adopt(t)
  <2> DEFINE adopted == [cr EXCEPT !.finalizer = TRUE]
             new == [job[t] EXCEPT !.cr = adopted]
  <2>1. adopted \in TenantObjects
    BY <1>3, <1>9 DEF Adopt, At, TenantObjects
  <2>2. /\ new \in Jobs /\ new.cr # None
        /\ new.step = "serve" /\ new.client # None
    BY <1>3, <1>9, <2>1, NoneAssumption DEF Adopt, At, Jobs
  <2>3. LogOK'
    BY <1>5, <1>9, <2>1, TenantCommit DEF Adopt
  <2>4. job' = [job EXCEPT ![t] = new] \/ job' = [job EXCEPT ![t] = Idle]
    BY <1>3, <1>9 DEF Adopt, End
  <2> HIDE DEF new
  <2>5. heldBy' \in [Configs -> SUBSET Tenants] /\ published' \in [Grafanas -> SUBSET Tenants]
    BY <1>6, <1>9 DEF Adopt
  <2>6. UNCHANGED <<born, configJob, queue, running, ops>>
    BY <1>9 DEF Adopt, At
  <2>7. CASE job' = [job EXCEPT ![t] = new]
    BY <2>2, <2>3, <2>5, <2>6, <2>7, JobTyped
  <2>8. CASE job' = [job EXCEPT ![t] = Idle]
    BY <1>4, <2>3, <2>5, <2>6, <2>8, JobTyped
  <2> QED
    BY <2>4, <2>7, <2>8
<1>10. Listed \in SUBSET Tenants
  BY DEF Listed
<1>11. CASE Publish(t)
  <2>1. published' \in [Grafanas -> SUBSET Tenants]
    BY <1>6, <1>10, <1>11 DEF Publish
  <2>2. LogOK'
    BY <1>3, <1>5, <1>11, PublishWrites, TenantCommit
  <2> QED
    BY <1>4, <1>6, <1>11, <2>1, <2>2, JobTyped DEF Publish, At, End
<1>12. CASE Release(t)
  <2>1. published' \in [Grafanas -> SUBSET Tenants]
    BY <1>6, <1>10, <1>12 DEF Release
  <2>2. LogOK'
    BY <1>5, <1>12, TenantCommit DEF Release
  <2> QED
    BY <1>4, <1>6, <1>12, <2>1, <2>2, JobTyped DEF Release, At, End
<1> QED
  BY <1>1, <1>2, <1>7, <1>8, <1>9, <1>11, <1>12 DEF JobStep

LEMMA ConfigStepTyped ==
    ASSUME TypeOK, NEW c \in Configs, ConfigStep(c)
    PROVE  TypeOK'
<1> DEFINE cr == configJob[c].cr
<1>1. /\ configJob[c] \in ConfigJobs /\ configJob \in [Configs -> ConfigJobs]
      /\ configJob[c].step # "idle" => cr \in ConfigObjects
  BY DEF TypeOK, ConfigJobs
<1>2. ConfigIdle \in ConfigJobs /\ ConfigIdle.step = "idle"
  BY DEF ConfigIdle, ConfigJobs
<1>3. LogOK /\ (UNCHANGED log => LogOK')
  BY LogTyped DEF LogOK
<1>4. ASSUME NEW new \in ConfigJobs, new.step # "idle" => new.cr # None,
             configJob' = [configJob EXCEPT ![c] = new],
             LogOK', queue' \in SUBSET Configs,
             UNCHANGED <<born, job, running, published, heldBy, ops>>
      PROVE  TypeOK'
  BY <1>4 DEF TypeOK, LogOK
<1>5. queue \in SUBSET Configs
  BY DEF TypeOK
<1>6. CASE ReconcileConfig(c)
  <2> DEFINE new == [step |-> "list", cr |-> Cached("configs")[c]]
  <2>1. CASE Cached("configs")[c] = None
    BY <1>3, <1>6, <2>1 DEF ReconcileConfig, TypeOK, LogOK
  <2>2. CASE Cached("configs")[c] # None
    <3>1. new \in ConfigJobs /\ new.cr # None /\ configJob' = [configJob EXCEPT ![c] = new]
      BY <1>6, <2>2, ObjectTypes DEF ReconcileConfig, ConfigJobs
    <3> HIDE DEF new
    <3> QED
      BY <1>3, <1>4, <1>5, <1>6, <3>1 DEF ReconcileConfig
  <2> QED
    BY <2>1, <2>2
<1>7. CASE ListUsages(c)
  <2>1. ASSUME NEW step \in {"adopt", "release"},
               configJob' = [configJob EXCEPT ![c].step = step]
        PROVE  TypeOK'
    <3> DEFINE new == [configJob[c] EXCEPT !.step = step]
    <3>1. new \in ConfigJobs /\ new.cr # None
      BY <1>1, <1>7, NoneAssumption DEF ConfigJobs, ListUsages, ConfigAt
    <3>2. configJob' = [configJob EXCEPT ![c] = new]
      BY <1>1, <2>1
    <3> HIDE DEF new
    <3> QED
      BY <1>3, <1>4, <1>5, <1>7, <3>1, <3>2 DEF ListUsages, ConfigAt
  <2>2. CASE EndConfig(c)
    BY <1>2, <1>3, <1>4, <1>5, <1>7, <2>2 DEF ListUsages, ConfigAt, EndConfig
  <2> QED
    BY <1>7, <2>1, <2>2 DEF ListUsages
<1>8. ASSUME NEW object \in ConfigObjects \cup {None}, UpdateConfig(c, object),
             UNCHANGED <<born, job, running, published, heldBy, ops>>
      PROVE  TypeOK'
  <2>1. LogOK' /\ queue' \in SUBSET Configs
    BY <1>3, <1>5, <1>8, ConfigCommit DEF UpdateConfig
  <2> QED
    BY <1>2, <1>4, <1>8, <2>1 DEF UpdateConfig, EndConfig
<1>9. CASE AdoptConfig(c)
  <2>1. [cr EXCEPT !.finalizer = TRUE] \in ConfigObjects
    BY <1>1, <1>9 DEF AdoptConfig, ConfigAt, ConfigObjects
  <2> QED
    BY <1>8, <1>9, <2>1 DEF AdoptConfig, ConfigAt
<1>10. CASE ReleaseConfig(c)
  BY <1>8, <1>10 DEF ReleaseConfig, ConfigAt
<1> QED
  BY <1>6, <1>7, <1>9, <1>10 DEF ConfigStep

LEMMA NextTyped == TypeOK /\ [Next]_vars => TypeOK'
<1> SUFFICES ASSUME TypeOK, [Next]_vars PROVE TypeOK'
  OBVIOUS
<1>1. CASE Start
  BY <1>1 DEF Start, TypeOK
<1>2. ASSUME NEW kind \in ObjectKinds, Deliver(kind) PROVE TypeOK'
  <2>1. LogOK'
    BY <1>2, LogTyped, DeliverFacts DEF Deliver
  <2>2. queue' \in SUBSET Configs
    <3>1. kind = "configs" => Changed(log[kind][1], log[kind][2]) \subseteq Configs
      <4>1. kind = "configs" => Cached("configs") \in [Configs -> ConfigObjects \cup {None}]
        BY ObjectTypes
      <4> QED
        BY <4>1 DEF Cached, Changed
    <3>2. \A usage : Watching(usage) \subseteq Configs
      BY DEF Watching
    <3>3. queue \in SUBSET Configs
      BY DEF TypeOK
    <3> QED
      BY <1>2, <3>1, <3>2, <3>3 DEF Deliver, ObjectKinds
  <2> QED
    BY <1>2, <2>1, <2>2 DEF Deliver, TypeOK, LogOK
<1>3. CASE UNCHANGED vars
  BY <1>3 DEF vars, TypeOK
<1> QED
  BY <1>1, <1>2, <1>3, EnvironmentTyped, TenantStepsTyped, ConfigStepTyped DEF Next

\* Every variable keeps its type; no reconcile goes on without an object, none
\* publishes without a client.
THEOREM ConfigsTyped == Spec => []TypeOK
BY InitTyped, NextTyped, PTL DEF Spec

-------------------------------------------------------------------------------
(* A known use protects *)

ConfigFacts == HeldIsDeleted /\ UidsAreOld /\ DeletionIsFinal /\ ReleasedIsFree

\* The next state of a reconcile is the present one, or lets go of it, or its
\* release was found to be free.
Justified(c) ==
    \/ configJob'[c] = configJob[c]
    \/ /\ configJob'[c].cr \in Seen(c) \cup {None}
       /\ configJob'[c].step = "release" =>
            /\ configJob'[c].cr.deleting
            /\ Stored("configs")'[c] # None
               /\ Stored("configs")'[c].uid = configJob'[c].cr.uid => heldBy'[c] = {}

LEMMA StoredIsSeen ==
    ASSUME TypeOK
    PROVE  /\ \A kind \in ObjectKinds : Stored(kind) \in Copies(kind) /\ Cached(kind) \in Copies(kind)
           /\ \A c \in Configs : Stored("configs")[c] \in Seen(c) /\ Cached("configs")[c] \in Seen(c)
<1>1. \A kind \in ObjectKinds : Stored(kind) \in Copies(kind) /\ Cached(kind) \in Copies(kind)
  BY LogTyped, StoresInLog DEF Stored, Cached, Copies
<1> QED
  BY <1>1 DEF ObjectKinds, Seen

\* A use goes on, or its Tenant no longer holds the config.
LEMMA HoldersUseWritten ==
    ASSUME TypeOK, HoldersUse, NEW t \in Tenants, NEW usage \in Refs \cup {None},
           Commit("usages", t, usage), Unhold(t, usage)
    PROVE  HoldersUse'
<1> DEFINE new == [Stored("usages") EXCEPT ![t] = usage]
<1>1. Copies("usages")' \subseteq Copies("usages") \cup {new}
  BY LogTyped, CommitFacts DEF ObjectKinds, StoreKeys, StoredObjects
<1>2. Stored("usages") \in [Tenants -> Refs \cup {None}] /\ Stored("usages") \in Copies("usages")
  BY ObjectTypes, StoredIsSeen DEF ObjectKinds
<1> SUFFICES ASSUME NEW c \in Configs, NEW u \in heldBy'[c], NEW usages \in Copies("usages")'
             PROVE  Uses(usages, u, c)
  BY DEF HoldersUse
<1>3. u \in heldBy[c] /\ (u = t => usage # None /\ Names(usage, c)) /\ u \in Tenants
  BY DEF Unhold, TypeOK
<1>4. CASE usages \in Copies("usages")
  BY <1>3, <1>4 DEF HoldersUse
<1>5. CASE usages = new
  <2>1. CASE u = t
    BY <1>2, <1>3, <1>5, <2>1 DEF Uses
  <2>2. CASE u # t
    BY <1>2, <1>3, <1>5, <2>2 DEF Uses, HoldersUse
  <2> QED
    BY <2>1, <2>2
<1> QED
  BY <1>1, <1>4, <1>5

\* Reading, and writing other kinds, keeps what is known of the configs.
LEMMA ConfigsStay ==
    ASSUME TypeOK, ConfigFacts,
           Stored("configs")' = Stored("configs"),
           Copies("configs")' \subseteq Copies("configs"),
           ops' \in Nat, ops <= ops',
           \A c \in Configs : heldBy'[c] \subseteq heldBy[c] /\ Justified(c)
    PROVE  ConfigFacts'
<1>1. \A c \in Configs : Seen(c)' \subseteq Seen(c) \cup {None}
  BY DEF Seen, Justified
<1>2. HeldIsDeleted'
  BY DEF ConfigFacts, HeldIsDeleted
<1>3. UidsAreOld'
  <2> SUFFICES ASSUME NEW c \in Configs, NEW seen \in Seen(c), seen # None
               PROVE  seen.uid < ops'
    BY <1>1 DEF UidsAreOld
  <2>1. seen.uid < ops /\ seen \in ConfigObjects
    <3>1. \A configs \in Copies("configs") : configs[c] \in ConfigObjects \cup {None}
      BY LogTyped, StoresInLog, StoresOfKinds
         DEF Copies, ObjectKinds, StoreKeys, StoredObjects
    <3> QED
      BY <3>1 DEF ConfigFacts, UidsAreOld, Seen, TypeOK, ConfigJobs
  <2> QED
    BY <2>1 DEF ConfigObjects, TypeOK
<1>4. DeletionIsFinal'
  BY <1>1 DEF ConfigFacts, DeletionIsFinal
<1>5. ReleasedIsFree'
  BY DEF ConfigFacts, ReleasedIsFree, Justified
<1> QED
  BY <1>2, <1>3, <1>4, <1>5 DEF ConfigFacts

\* A write of a config: what has to be known of the object that is written.
LEMMA ConfigWritten ==
    ASSUME TypeOK, ConfigFacts, NEW c \in Configs, NEW object \in ConfigObjects \cup {None},
           Commit("configs", c, object),
           ops' \in Nat, ops <= ops',
           configJob' = configJob \/ configJob' = [configJob EXCEPT ![c] = ConfigIdle],
           \A d \in Configs \ {c} : heldBy'[d] = heldBy[d],
           heldBy'[c] # {} => object # None /\ object.deleting,
           object # None => /\ object.uid < ops'
                            /\ \A seen \in Seen(c) :
                                  seen # None /\ seen.uid = object.uid /\ seen.deleting
                                  => object.deleting,
           /\ configJob' = configJob /\ configJob[c].step = "release"
           /\ object # None /\ object.uid = configJob[c].cr.uid
           => heldBy'[c] = {}
    PROVE  ConfigFacts'
<1> DEFINE new == [Stored("configs") EXCEPT ![c] = object]
<1>1. Copies("configs")' \subseteq Copies("configs") \cup {new} /\ Stored("configs")' = new
  BY LogTyped, CommitFacts DEF ObjectKinds, StoreKeys, StoredObjects
<1>2. /\ Stored("configs") \in [Configs -> ConfigObjects \cup {None}]
      /\ configJob \in [Configs -> ConfigJobs]
  BY ObjectTypes DEF TypeOK
<1>3. new[c] = object /\ \A d \in Configs \ {c} : new[d] = Stored("configs")[d]
  BY <1>2
<1>4. /\ \A d \in Configs \ {c} : configJob'[d] = configJob[d]
      /\ configJob' = configJob \/ configJob'[c] = ConfigIdle
  BY <1>2
<1>5. ConfigIdle.cr = None /\ ConfigIdle.step = "idle"
  BY DEF ConfigIdle
<1> HIDE DEF new
<1>6. /\ \A d \in Configs \ {c} : Seen(d)' \subseteq Seen(d)
      /\ Seen(c)' \subseteq Seen(c) \cup {object, None}
  <2>1. \A d \in Configs \ {c} : new[d] \in {configs[d] : configs \in Copies("configs")}
    BY <1>3, StoredIsSeen DEF ObjectKinds
  <2>2. \A d \in Configs \ {c} : Seen(d)' \subseteq Seen(d)
    BY <1>1, <1>4, <2>1 DEF Seen
  <2>3. Seen(c)' \subseteq Seen(c) \cup {object, None}
    BY <1>1, <1>3, <1>4, <1>5 DEF Seen
  <2> QED
    BY <2>2, <2>3
<1>7. HeldIsDeleted'
  BY <1>1, <1>3 DEF ConfigFacts, HeldIsDeleted
<1>8. UidsAreOld'
  <2> SUFFICES ASSUME NEW d \in Configs, NEW seen \in Seen(d)', seen # None
               PROVE  seen.uid < ops'
    BY DEF UidsAreOld
  <2>1. CASE seen = object /\ d = c
    BY <2>1
  <2>2. CASE seen \in Seen(d)
    <3>1. seen.uid < ops /\ seen \in ConfigObjects
      <4>1. \A configs \in Copies("configs") : configs[d] \in ConfigObjects \cup {None}
        BY LogTyped, StoresInLog, StoresOfKinds
           DEF Copies, ObjectKinds, StoreKeys, StoredObjects
      <4> QED
        BY <2>2, <4>1 DEF ConfigFacts, UidsAreOld, Seen, TypeOK, ConfigJobs
    <3> QED
      BY <3>1 DEF ConfigObjects, TypeOK
  <2> QED
    BY <1>6, <2>1, <2>2
<1>9. DeletionIsFinal'
  <2> SUFFICES ASSUME NEW d \in Configs, NEW seen \in Seen(d)',
                      seen # None, Stored("configs")'[d] # None,
                      seen.uid = Stored("configs")'[d].uid, seen.deleting
               PROVE  Stored("configs")'[d].deleting
    BY DEF DeletionIsFinal
  <2>1. CASE d = c
    BY <1>1, <1>3, <1>6, <2>1
  <2>2. CASE d # c
    BY <1>1, <1>3, <1>6, <2>2 DEF ConfigFacts, DeletionIsFinal
  <2> QED
    BY <2>1, <2>2
<1>10. ReleasedIsFree'
  <2> SUFFICES ASSUME NEW d \in Configs, configJob'[d].step = "release"
               PROVE  /\ configJob'[d].cr.deleting
                      /\ Stored("configs")'[d] # None
                         /\ Stored("configs")'[d].uid = configJob'[d].cr.uid
                         => heldBy'[d] = {}
    BY DEF ReleasedIsFree
  <2>1. CASE d = c
    BY <1>1, <1>3, <1>4, <1>5, <2>1 DEF ConfigFacts, ReleasedIsFree
  <2>2. CASE d # c
    BY <1>1, <1>3, <1>4, <2>2 DEF ConfigFacts, ReleasedIsFree
  <2> QED
    BY <2>1, <2>2
<1> QED
  BY <1>7, <1>8, <1>9, <1>10 DEF ConfigFacts

Protected == TypeOK /\ HoldersUse /\ ConfigFacts

\* Only configs with the kind of usage that Connect tracks.
Namespaced == \A c \in Configs : c.kind = "ProviderConfig"

LEMMA InitProtected == Init => HoldersUse /\ ConfigFacts
<1> SUFFICES ASSUME Init PROVE HoldersUse /\ ConfigFacts
  OBVIOUS
<1>1. \A c \in Configs : heldBy[c] = {} /\ configJob[c] = ConfigIdle
  BY DEF Init
<1>2. \A configs \in Copies("configs"), c \in Configs : configs[c] = None
  BY DEF Init, Copies
<1>3. \A c \in Configs : Seen(c) \subseteq {None}
  BY <1>1, <1>2 DEF Seen, ConfigIdle
<1>4. HoldersUse /\ HeldIsDeleted
  BY <1>1 DEF HoldersUse, HeldIsDeleted
<1>5. UidsAreOld /\ DeletionIsFinal
  BY <1>3 DEF UidsAreOld, DeletionIsFinal
<1>6. ReleasedIsFree
  BY <1>1 DEF ReleasedIsFree, ConfigIdle
<1> QED
  BY <1>4, <1>5, <1>6 DEF ConfigFacts

\* Steps that write neither usages nor configs.
LEMMA UntouchedProtected ==
    ASSUME Protected,
           log'["usages"] = log["usages"], log'["configs"] = log["configs"],
           heldBy' = heldBy, configJob' = configJob,
           ops' \in Nat, ops <= ops'
    PROVE  HoldersUse' /\ ConfigFacts'
<1>1. /\ Copies("usages")' = Copies("usages") /\ Copies("configs")' = Copies("configs")
      /\ Stored("configs")' = Stored("configs")
  BY DEF Copies, Stored
<1>2. HoldersUse'
  BY <1>1 DEF Protected, HoldersUse
<1>3. ConfigFacts'
  BY <1>1, ConfigsStay DEF Protected, Justified
<1> QED
  BY <1>2, <1>3

\* A step that shows nothing new and starts no release.
LEMMA SeenProtected ==
    ASSUME Protected,
           \A k \in ObjectKinds : Stored(k)' = Stored(k) /\ Copies(k)' \subseteq Copies(k),
           heldBy' = heldBy, \A c \in Configs : Justified(c),
           ops' \in Nat, ops <= ops'
    PROVE  HoldersUse' /\ ConfigFacts'
<1>1. HoldersUse'
  BY DEF Protected, HoldersUse, ObjectKinds
<1>2. ConfigFacts'
  BY ConfigsStay DEF Protected, ObjectKinds
<1> QED
  BY <1>1, <1>2

\* A write of a usage that no longer counts for whom it was taken from.
LEMMA UsageProtected ==
    ASSUME Protected, NEW t \in Tenants, NEW usage \in Refs \cup {None},
           Commit("usages", t, usage), Unhold(t, usage),
           configJob' = configJob, ops' = ops
    PROVE  HoldersUse' /\ ConfigFacts'
<1>1. HoldersUse'
  BY HoldersUseWritten DEF Protected
<1>2. log'["configs"] = log["configs"]
  BY LogTyped, CommitFacts DEF Protected, ObjectKinds, StoreKeys, StoredObjects
<1>3. Stored("configs")' = Stored("configs") /\ Copies("configs")' = Copies("configs")
  BY <1>2 DEF Stored, Copies
<1>4. \A c \in Configs : heldBy'[c] \subseteq heldBy[c]
  BY DEF Unhold
<1>5. ops \in Nat
  BY ConfigsAssumption DEF Protected, TypeOK
<1> QED
  BY <1>1, <1>3, <1>4, <1>5, ConfigsStay DEF Protected, Justified

\* A write of a config leaves the usages alone.
LEMMA ConfigLeavesUsages ==
    ASSUME Protected, NEW c \in Configs, NEW object \in ConfigObjects \cup {None},
           Commit("configs", c, object)
    PROVE  Copies("usages")' = Copies("usages")
<1>1. log'["usages"] = log["usages"]
  BY LogTyped, CommitFacts DEF Protected, ObjectKinds, StoreKeys, StoredObjects
<1> QED
  BY <1>1 DEF Copies

LEMMA TenantLeavesOthers ==
    ASSUME Protected, NEW t \in Tenants, NEW object \in TenantObjects \cup {None},
           Commit("tenants", t, object)
    PROVE  log'["usages"] = log["usages"] /\ log'["configs"] = log["configs"]
BY LogTyped, CommitFacts DEF Protected, ObjectKinds, StoreKeys, StoredObjects

LEMMA EnvironmentProtected == Protected /\ Environment => HoldersUse' /\ ConfigFacts'
<1> SUFFICES ASSUME Protected, Environment PROVE HoldersUse' /\ ConfigFacts'
  OBVIOUS
<1> DEFINE stored == Stored("configs")
<1>1. /\ ops \in Nat
      /\ Occurs => ops' \in Nat /\ ops < ops' /\ ops <= ops'
  BY ConfigsAssumption DEF Protected, TypeOK, Occurs
<1>2. /\ stored \in [Configs -> ConfigObjects \cup {None}]
      /\ Stored("tenants") \in [Tenants -> TenantObjects \cup {None}]
      /\ heldBy \in [Configs -> SUBSET Tenants]
  BY ObjectTypes DEF Protected, TypeOK
<1>3. ASSUME NEW t \in Tenants, NEW object \in TenantObjects \cup {None}, UserActs,
             Commit("tenants", t, object), UNCHANGED heldBy
      PROVE  HoldersUse' /\ ConfigFacts'
  BY <1>1, <1>3, TenantLeavesOthers, UntouchedProtected DEF UserActs
<1>4. ASSUME NEW t \in Tenants, NEW ref \in Refs, CreateTenant(t, ref)
      PROVE  HoldersUse' /\ ConfigFacts'
  BY <1>3, <1>4 DEF CreateTenant, TenantObjects
<1>5. ASSUME NEW t \in Tenants, NEW ref \in Refs, RetargetTenant(t, ref)
      PROVE  HoldersUse' /\ ConfigFacts'
  <2>1. [Stored("tenants")[t] EXCEPT !.ref = ref] \in TenantObjects
    BY <1>2, <1>5 DEF RetargetTenant, TenantObjects
  <2> QED
    BY <1>3, <1>5, <2>1 DEF RetargetTenant
<1>6. ASSUME NEW t \in Tenants, DeleteTenant(t) PROVE HoldersUse' /\ ConfigFacts'
  <2>1. [Stored("tenants")[t] EXCEPT !.deleting = TRUE] \in TenantObjects
    BY <1>2, <1>6 DEF DeleteTenant, TenantObjects
  <2> QED
    BY <1>3, <1>6, <2>1 DEF DeleteTenant
<1>7. ASSUME NEW c \in Configs, NEW k \in Contents, CreateConfig(c, k)
      PROVE  HoldersUse' /\ ConfigFacts'
  <2> DEFINE object == [uid |-> ops, content |-> k, deleting |-> FALSE, finalizer |-> FALSE]
  <2>1. object \in ConfigObjects /\ object # None /\ object.uid = ops
    <3>1. object \in ConfigObjects
      BY <1>1 DEF ConfigObjects
    <3> QED
      BY <3>1, NoneAssumption
  <2>2. \A seen \in Seen(c) : seen # None => seen.uid # object.uid
    <3>1. \A seen \in Seen(c) : seen # None => seen.uid < ops
      BY DEF Protected, ConfigFacts, UidsAreOld
    <3> QED
      BY <1>1, <2>1, <3>1
  <2>3. heldBy[c] = {}
    BY <1>7 DEF CreateConfig, Protected, ConfigFacts, HeldIsDeleted
  <2>4. configJob[c].step = "release" => configJob[c].cr # None /\ configJob[c].cr \in Seen(c)
    BY DEF Protected, TypeOK, Seen
  <2>5. /\ Commit("configs", c, object) /\ configJob' = configJob /\ heldBy' = heldBy
        /\ ops' \in Nat /\ ops < ops' /\ ops <= ops'
    BY <1>1, <1>7 DEF CreateConfig, UserActs
  <2> HIDE DEF object
  <2>6. ConfigFacts'
    BY <2>1, <2>2, <2>3, <2>4, <2>5, ConfigWritten DEF Protected
  <2> QED
    BY <2>1, <2>5, <2>6, ConfigLeavesUsages DEF Protected, HoldersUse
<1>8. ASSUME NEW c \in Configs, NEW k \in Contents, EditConfig(c, k)
      PROVE  HoldersUse' /\ ConfigFacts'
  <2> DEFINE object == [stored[c] EXCEPT !.content = k]
  <2>1. /\ object \in ConfigObjects /\ object # None /\ stored[c] # None
        /\ object.uid = stored[c].uid /\ object.deleting = stored[c].deleting
    BY <1>2, <1>8, NoneAssumption DEF EditConfig, ConfigObjects
  <2>2. stored[c] \in Seen(c)
    BY StoredIsSeen DEF Protected
  <2>3. /\ Commit("configs", c, object) /\ configJob' = configJob /\ heldBy' = heldBy
        /\ ops' \in Nat /\ ops < ops' /\ ops <= ops'
    BY <1>1, <1>8 DEF EditConfig, UserActs
  <2>4. object.uid < ops'
    <3>1. object.uid < ops /\ object.uid \in Nat
      BY <2>1, <2>2 DEF Protected, ConfigFacts, UidsAreOld, ConfigObjects
    <3> QED
      BY <1>1, <2>3, <3>1
  <2>5. \A seen \in Seen(c) : seen # None /\ seen.uid = object.uid /\ seen.deleting => object.deleting
    BY <2>1 DEF Protected, ConfigFacts, DeletionIsFinal
  <2>6. heldBy[c] # {} => object.deleting
    BY <2>1 DEF Protected, ConfigFacts, HeldIsDeleted
  <2>7. configJob[c].step = "release" /\ object.uid = configJob[c].cr.uid => heldBy[c] = {}
    BY <2>1 DEF Protected, ConfigFacts, ReleasedIsFree
  <2> HIDE DEF object
  <2>8. ConfigFacts'
    BY <2>1, <2>3, <2>4, <2>5, <2>6, <2>7, ConfigWritten DEF Protected
  <2> QED
    BY <2>1, <2>3, <2>8, ConfigLeavesUsages DEF Protected, HoldersUse
<1>9. ASSUME NEW c \in Configs, DeleteConfig(c) PROVE HoldersUse' /\ ConfigFacts'
  <2>1. stored[c] # None /\ stored[c] \in ConfigObjects /\ ~stored[c].deleting /\ stored[c] \in Seen(c)
    BY <1>2, <1>9, StoredIsSeen DEF DeleteConfig, Protected
  <2>2. configJob' = configJob /\ ops' \in Nat /\ ops < ops' /\ ops <= ops'
    BY <1>1, <1>9 DEF DeleteConfig, UserActs
  <2>3. heldBy[c] = {}
    BY <2>1 DEF Protected, ConfigFacts, HeldIsDeleted
  <2>4. CASE stored[c].finalizer
    <3> DEFINE object == [stored[c] EXCEPT !.deleting = TRUE]
    <3>1. /\ object \in ConfigObjects /\ object # None
          /\ object.uid = stored[c].uid /\ object.deleting
      BY <2>1, NoneAssumption DEF ConfigObjects
    <3>2. /\ Commit("configs", c, object)
          /\ heldBy' = [heldBy EXCEPT ![c] = {t \in Tenants : Established(t, c)}]
      BY <1>9, <2>4 DEF DeleteConfig
    <3>3. object.uid < ops'
      <4>1. object.uid < ops /\ object.uid \in Nat
        BY <2>1, <3>1 DEF Protected, ConfigFacts, UidsAreOld, ConfigObjects
      <4> QED
        BY <1>1, <2>2, <4>1
    <3>4. configJob[c].step = "release" => object.uid # configJob[c].cr.uid
      <4> SUFFICES ASSUME configJob[c].step = "release", object.uid = configJob[c].cr.uid
                   PROVE  FALSE
        OBVIOUS
      <4>1. configJob[c].cr # None /\ configJob[c].cr.deleting /\ configJob[c].cr \in Seen(c)
        BY DEF Protected, TypeOK, ConfigFacts, ReleasedIsFree, Seen
      <4> QED
        BY <2>1, <3>1, <4>1 DEF Protected, ConfigFacts, DeletionIsFinal
    <3>5. \A d \in Configs \ {c} : heldBy'[d] = heldBy[d]
      BY <1>2, <3>2
    <3> HIDE DEF object
    <3>6. ConfigFacts'
      BY <2>2, <3>1, <3>2, <3>3, <3>4, <3>5, ConfigWritten DEF Protected
    <3>7. \A d \in Configs : \A t \in heldBy'[d] : t \in heldBy[d] \/ Established(t, d)
      BY <1>2, <3>2
    <3>8. HoldersUse'
      <4>1. Copies("usages")' = Copies("usages")
        BY <3>1, <3>2, ConfigLeavesUsages
      <4>2. \A t, d : Established(t, d) => \A usages \in Copies("usages") : Uses(usages, t, d)
        BY DEF Established, Copies
      <4> QED
        BY <3>7, <4>1, <4>2 DEF Protected, HoldersUse
    <3> QED
      BY <3>6, <3>8
  <2>5. CASE ~stored[c].finalizer
    <3>1. Commit("configs", c, None) /\ heldBy' = heldBy
      BY <1>9, <2>5 DEF DeleteConfig
    <3>2. ConfigFacts'
      BY <2>2, <2>3, <3>1, ConfigWritten DEF Protected
    <3> QED
      BY <3>1, <3>2, ConfigLeavesUsages DEF Protected, HoldersUse
  <2> QED
    BY <2>4, <2>5
<1>10. CASE Stop
  <2>1. \A k \in ObjectKinds : Stored(k)' = Stored(k) /\ Copies(k)' \subseteq Copies(k)
    BY <1>10, LogTyped, StopFacts DEF Stop, Protected
  <2>2. \A c \in Configs : Justified(c)
    BY <1>10 DEF Stop, Justified, ConfigIdle
  <2> QED
    BY <1>1, <1>10, <2>1, <2>2, SeenProtected DEF Stop
<1> QED
  BY <1>4, <1>5, <1>6, <1>7, <1>8, <1>9, <1>10 DEF Environment

LEMMA TenantStepsProtected ==
    ASSUME Protected, NEW t \in Tenants, CollectUsage(t) \/ Reconcile(t) \/ JobStep(t)
    PROVE  HoldersUse' /\ ConfigFacts'
<1>1. /\ ops \in Nat /\ ops <= ops
      /\ job[t].step # "idle" => job[t].cr \in TenantObjects
  BY ConfigsAssumption DEF Protected, TypeOK, Jobs
<1>2. ASSUME UNCHANGED <<log, configJob, heldBy, ops>>
      PROVE  HoldersUse' /\ ConfigFacts'
  BY <1>1, <1>2, UntouchedProtected
<1>3. ASSUME NEW object \in TenantObjects \cup {None}, Commit("tenants", t, object),
             UNCHANGED <<configJob, heldBy, ops>>
      PROVE  HoldersUse' /\ ConfigFacts'
  BY <1>1, <1>3, TenantLeavesOthers, UntouchedProtected
<1>4. CASE CollectUsage(t)
  BY <1>4, UsageProtected DEF CollectUsage
<1>5. CASE Track(t)
  <2>1. job[t].cr.ref \in Refs
    BY <1>1, <1>5 DEF Track, At, TenantObjects
  <2> QED
    BY <1>2, <1>5, <2>1, UsageProtected DEF Track, At
<1>6. CASE Adopt(t)
  <2>1. [job[t].cr EXCEPT !.finalizer = TRUE] \in TenantObjects
    BY <1>1, <1>6 DEF Adopt, At, TenantObjects
  <2> QED
    BY <1>2, <1>3, <1>6, <2>1 DEF Adopt, At
<1>7. CASE Release(t)
  BY <1>2, <1>3, <1>7 DEF Release, At
<1>8. CASE Publish(t)
  <2>1. UNCHANGED <<configJob, heldBy, ops>>
    BY <1>8 DEF Publish, At
  <2> QED
    BY <1>1, <1>2, <1>3, <1>8, <2>1, PublishWrites
<1>9. CASE Reconcile(t) \/ Connect(t)
  BY <1>2, <1>9 DEF Reconcile, Connect, At
<1> QED
  BY <1>4, <1>5, <1>6, <1>7, <1>8, <1>9 DEF JobStep

\* A reconcile that finds no use in the cache has missed none: a holder uses
\* the config in every state the cache may have.
LEMMA UsersAreFound ==
    ASSUME Namespaced, Protected, NEW c \in Configs, Users(c) = {}
    PROVE  heldBy[c] = {}
<1> SUFFICES ASSUME NEW t \in heldBy[c] PROVE t \in Users(c)
  OBVIOUS
<1>1. t \in Tenants
  BY DEF Protected, TypeOK
<1>2. Uses(Cached("usages"), t, c)
  BY StoredIsSeen DEF Protected, HoldersUse, ObjectKinds
<1>3. UsageKind(c) = TrackedUsage
  BY DEF Namespaced, UsageKind, TrackedUsage
<1> QED
  BY <1>1, <1>2, <1>3 DEF Users, Counts, Uses

LEMMA ConfigStepProtected ==
    ASSUME Namespaced, Protected, NEW c \in Configs, ConfigStep(c)
    PROVE  HoldersUse' /\ ConfigFacts'
<1> DEFINE cr == configJob[c].cr
<1>1. /\ ops \in Nat /\ ops <= ops
      /\ configJob \in [Configs -> ConfigJobs]
      /\ configJob[c].step # "idle" => cr \in ConfigObjects
  BY ConfigsAssumption DEF Protected, TypeOK, ConfigJobs
<1>2. ASSUME UNCHANGED <<log, heldBy, ops>>, \A d \in Configs : Justified(d)
      PROVE  HoldersUse' /\ ConfigFacts'
  BY <1>1, <1>2, SeenProtected DEF Stored, Copies
<1>3. ConfigIdle.cr = None /\ ConfigIdle.step = "idle"
  BY DEF ConfigIdle
<1>4. \A step : [configJob[c] EXCEPT !.step = step].cr = cr
  BY <1>1 DEF ConfigJobs
<1>5. CASE ReconcileConfig(c)
  <2>1. \A d \in Configs : Justified(d)
    <3>1. Cached("configs")[c] \in Seen(c)
      BY StoredIsSeen DEF Protected
    <3> QED
      BY <1>1, <1>5, <3>1 DEF ReconcileConfig, Justified
  <2> QED
    BY <1>2, <1>5, <2>1 DEF ReconcileConfig
<1>6. CASE ListUsages(c)
  <2>1. CASE /\ cr.deleting /\ Users(c) = {}
             /\ configJob' = [configJob EXCEPT ![c].step = "release"]
    <3>1. heldBy'[c] = {}
      BY <1>6, <2>1, UsersAreFound DEF ListUsages, ConfigAt
    <3>2. configJob'[c].cr = cr /\ \A d \in Configs \ {c} : configJob'[d] = configJob[d]
      BY <1>1, <2>1 DEF ConfigJobs
    <3> QED
      BY <1>2, <1>6, <2>1, <3>1, <3>2 DEF ListUsages, ConfigAt, Justified, Seen
  <2>2. CASE configJob' = [configJob EXCEPT ![c].step = "adopt"]
    <3>1. /\ configJob'[c].cr = cr /\ configJob'[c].step = "adopt"
          /\ \A d \in Configs \ {c} : configJob'[d] = configJob[d]
      BY <1>1, <2>2 DEF ConfigJobs
    <3> QED
      BY <1>2, <1>6, <3>1 DEF ListUsages, ConfigAt, Justified, Seen
  <2>3. CASE EndConfig(c)
    BY <1>1, <1>2, <1>3, <1>6, <2>3 DEF ListUsages, ConfigAt, EndConfig, Justified
  <2> QED
    BY <1>6, <2>1, <2>2, <2>3 DEF ListUsages
<1>7. ASSUME NEW object \in ConfigObjects \cup {None}, UpdateConfig(c, object),
             UNCHANGED <<heldBy, ops>>, cr \in ConfigObjects,
             object = None => heldBy[c] = {} \/ Stored("configs")[c] # cr,
             object # None => object.uid = cr.uid /\ object.deleting = cr.deleting
      PROVE  HoldersUse' /\ ConfigFacts'
  <2>1. CASE Stored("configs")[c] = cr
    <3>1. Commit("configs", c, object) /\ configJob' = [configJob EXCEPT ![c] = ConfigIdle]
      BY <1>7, <2>1 DEF UpdateConfig, EndConfig
    <3>2. heldBy[c] # {} => object # None /\ object.deleting
      BY <1>7, <2>1 DEF Protected, ConfigFacts, HeldIsDeleted
    <3>3. object # None =>
            /\ object.uid < ops
            /\ \A seen \in Seen(c) :
                  seen # None /\ seen.uid = object.uid /\ seen.deleting => object.deleting
      <4>1. cr \in Seen(c) /\ cr # None
        BY <1>7, NoneAssumption DEF Seen
      <4> QED
        BY <1>7, <2>1, <4>1 DEF Protected, ConfigFacts, UidsAreOld, DeletionIsFinal
    <3>4. configJob' = configJob => configJob[c].step # "release"
      BY <1>1, <1>3, <3>1
    <3>5. ConfigFacts'
      BY <1>1, <1>7, <3>1, <3>2, <3>3, <3>4, ConfigWritten DEF Protected
    <3> QED
      BY <1>7, <3>1, <3>5, ConfigLeavesUsages DEF Protected, HoldersUse
  <2>2. CASE Stored("configs")[c] # cr
    BY <1>1, <1>2, <1>3, <1>7, <2>2 DEF UpdateConfig, EndConfig, Justified
  <2> QED
    BY <2>1, <2>2
<1>8. CASE AdoptConfig(c)
  <2>1. /\ [cr EXCEPT !.finalizer = TRUE] \in ConfigObjects
        /\ [cr EXCEPT !.finalizer = TRUE].uid = cr.uid
        /\ [cr EXCEPT !.finalizer = TRUE].deleting = cr.deleting
        /\ cr \in ConfigObjects
    BY <1>1, <1>8 DEF AdoptConfig, ConfigAt, ConfigObjects
  <2>2. [cr EXCEPT !.finalizer = TRUE] # None
    BY <2>1, NoneAssumption
  <2> QED
    BY <1>7, <1>8, <2>1, <2>2 DEF AdoptConfig, ConfigAt
<1>9. CASE ReleaseConfig(c)
  <2>1. cr \in ConfigObjects /\ cr # None
    BY <1>1, <1>9, NoneAssumption DEF ReleaseConfig, ConfigAt
  <2>2. Stored("configs")[c] = cr => heldBy[c] = {}
    BY <1>9, <2>1 DEF ReleaseConfig, ConfigAt, Protected, ConfigFacts, ReleasedIsFree
  <2> QED
    BY <1>7, <1>9, <2>1, <2>2 DEF ReleaseConfig, ConfigAt
<1> QED
  BY <1>5, <1>6, <1>8, <1>9 DEF ConfigStep

LEMMA NextProtected ==
    ASSUME Namespaced, ProtectionInv, [Next]_vars
    PROVE  ProtectionInv'
<1>1. Protected
  BY DEF ProtectionInv, Protected, ConfigFacts
<1>2. ops \in Nat /\ ops <= ops
  BY <1>1, ConfigsAssumption DEF Protected, TypeOK
<1>3. ASSUME UNCHANGED <<log, heldBy, configJob, ops>> PROVE HoldersUse' /\ ConfigFacts'
  BY <1>1, <1>2, <1>3, UntouchedProtected
<1>4. ASSUME NEW kind \in ObjectKinds, Deliver(kind) PROVE HoldersUse' /\ ConfigFacts'
  <2>1. \A k \in ObjectKinds : Stored(k)' = Stored(k) /\ Copies(k)' \subseteq Copies(k)
    BY <1>1, <1>4, LogTyped, DeliverFacts DEF Deliver, Protected
  <2> QED
    BY <1>1, <1>2, <1>4, <2>1, SeenProtected DEF Deliver, Justified
<1>5. HoldersUse' /\ ConfigFacts'
  BY <1>1, <1>3, <1>4, EnvironmentProtected, TenantStepsProtected, ConfigStepProtected
     DEF Next, vars, Start
<1>6. TypeOK'
  BY NextTyped DEF ProtectionInv
<1> QED
  BY <1>5, <1>6 DEF ProtectionInv, ConfigFacts

\* Why that is so: in every state of the protocol who holds a config uses it in
\* all that the caches may still show, and a release in progress missed no one.
THEOREM ProtectionHolds == ASSUME Namespaced PROVE Spec => []ProtectionInv
<1>1. Init => ProtectionInv
  BY InitTyped, InitProtected DEF ProtectionInv, ConfigFacts
<1>2. ProtectionInv /\ [Next]_vars => ProtectionInv'
  BY NextProtected
<1> QED
  BY <1>1, <1>2, PTL DEF Spec

\* What is held is not taken away: only a reconcile that found no use, or a
\* user who deletes a config that nothing holds yet, removes one.
LEMMA StepProtects ==
    ASSUME ProtectionInv, [Next]_vars, NEW c \in Configs, heldBy[c] # {}
    PROVE  Stored("configs")'[c] # None
<1>1. /\ Protected /\ LogOK
      /\ Stored("configs")[c] # None /\ Stored("configs")[c].deleting
  BY LogTyped DEF ProtectionInv, Protected, ConfigFacts, HeldIsDeleted
<1> DEFINE stored == Stored("configs")
<1>2. stored \in [Configs -> ConfigObjects \cup {None}]
  BY <1>1, ObjectTypes DEF Protected
<1>3. ASSUME log'["configs"] = log["configs"] PROVE stored'[c] # None
  BY <1>1, <1>3 DEF Stored
<1>4. ASSUME NEW d \in Configs, NEW object \in ConfigObjects \cup {None},
             Commit("configs", d, object), d = c => object # None
      PROVE  stored'[c] # None
  <2>1. stored' = [stored EXCEPT ![d] = object]
    BY <1>1, <1>4, CommitFacts DEF ObjectKinds, StoreKeys, StoredObjects
  <2> QED
    BY <1>1, <1>2, <1>4, <2>1
<1>5. ASSUME NEW t \in Tenants, NEW object \in TenantObjects \cup {None},
             Commit("tenants", t, object)
      PROVE  stored'[c] # None
  BY <1>1, <1>3, <1>5, TenantLeavesOthers
<1>6. ASSUME NEW t \in Tenants, NEW usage \in Refs \cup {None}, Commit("usages", t, usage)
      PROVE  stored'[c] # None
  <2>1. log'["configs"] = log["configs"]
    BY <1>1, <1>6, CommitFacts DEF ObjectKinds, StoreKeys, StoredObjects
  <2> QED
    BY <1>3, <2>1
<1>7. CASE Environment
  <2>1. ASSUME NEW t \in Tenants, NEW ref \in Refs, CreateTenant(t, ref) \/ RetargetTenant(t, ref)
        PROVE  stored'[c] # None
    <3>1. \A object \in TenantObjects : [object EXCEPT !.ref = ref] \in TenantObjects
      BY DEF TenantObjects
    <3>2. Stored("tenants")[t] \in TenantObjects \cup {None}
      BY <1>1, ObjectTypes DEF Protected
    <3>3. [ref |-> ref, deleting |-> FALSE, finalizer |-> FALSE, acknowledged |-> FALSE]
        \in TenantObjects
      BY DEF TenantObjects
    <3> QED
      BY <1>5, <2>1, <3>1, <3>2, <3>3 DEF CreateTenant, RetargetTenant
  <2>2. ASSUME NEW t \in Tenants, DeleteTenant(t) PROVE stored'[c] # None
    <3>1. Stored("tenants")[t] \in TenantObjects
      BY <1>1, <2>2, ObjectTypes DEF Protected, DeleteTenant
    <3>2. [Stored("tenants")[t] EXCEPT !.deleting = TRUE] \in TenantObjects
      BY <3>1 DEF TenantObjects
    <3> QED
      BY <1>5, <2>2, <3>2 DEF DeleteTenant
  <2>3. ASSUME NEW d \in Configs, NEW k \in Contents, CreateConfig(d, k) PROVE stored'[c] # None
    <3>1. [uid |-> ops, content |-> k, deleting |-> FALSE, finalizer |-> FALSE] \in ConfigObjects
      BY <1>1 DEF ConfigObjects, Protected, TypeOK
    <3> QED
      BY <1>4, <2>3, <3>1, NoneAssumption DEF CreateConfig
  <2>4. ASSUME NEW d \in Configs, NEW k \in Contents, EditConfig(d, k) PROVE stored'[c] # None
    <3>1. [stored[d] EXCEPT !.content = k] \in ConfigObjects
      BY <1>2, <2>4 DEF EditConfig, ConfigObjects
    <3> QED
      BY <1>4, <2>4, <3>1, NoneAssumption DEF EditConfig
  <2>5. ASSUME NEW d \in Configs, DeleteConfig(d) PROVE stored'[c] # None
    <3>1. [stored[d] EXCEPT !.deleting = TRUE] \in ConfigObjects /\ d # c
      BY <1>1, <1>2, <2>5 DEF DeleteConfig, ConfigObjects
    <3> QED
      BY <1>4, <2>5, <3>1 DEF DeleteConfig
  <2>6. CASE Stop
    BY <1>1, <2>6, StopFacts DEF Stop, ObjectKinds
  <2> QED
    BY <1>7, <2>1, <2>2, <2>3, <2>4, <2>5, <2>6 DEF Environment
<1>8. ASSUME NEW kind \in ObjectKinds, Deliver(kind) PROVE stored'[c] # None
  BY <1>1, <1>8, DeliverFacts DEF Deliver, ObjectKinds
<1>9. ASSUME NEW t \in Tenants, CollectUsage(t) \/ Reconcile(t) \/ JobStep(t)
      PROVE  stored'[c] # None
  <2>1. job[t].step # "idle" => job[t].cr \in TenantObjects
    BY <1>1 DEF Protected, TypeOK, Jobs
  <2>2. CASE Track(t)
    <3>1. job[t].cr.ref \in Refs
      BY <2>1, <2>2 DEF Track, At, TenantObjects
    <3> QED
      BY <1>3, <1>6, <2>2, <3>1 DEF Track
  <2>3. CASE Adopt(t)
    <3>1. [job[t].cr EXCEPT !.finalizer = TRUE] \in TenantObjects
      BY <2>1, <2>3 DEF Adopt, At, TenantObjects
    <3> QED
      BY <1>3, <1>5, <2>3, <3>1 DEF Adopt
  <2>4. CASE Release(t)
    BY <1>3, <1>5, <2>4 DEF Release
  <2>5. CASE CollectUsage(t)
    BY <1>6, <2>5 DEF CollectUsage
  <2>6. CASE Publish(t)
    BY <1>3, <1>5, <2>1, <2>6, PublishWrites
  <2>7. CASE Reconcile(t) \/ Connect(t)
    BY <1>3, <2>7 DEF Reconcile, Connect
  <2> QED
    BY <1>9, <2>2, <2>3, <2>4, <2>5, <2>6, <2>7 DEF JobStep
<1>10. ASSUME NEW d \in Configs, ConfigStep(d) PROVE stored'[c] # None
  <2>1. configJob[d].step # "idle" => configJob[d].cr \in ConfigObjects
    BY <1>1 DEF Protected, TypeOK, ConfigJobs
  <2>2. CASE AdoptConfig(d)
    <3>1. [configJob[d].cr EXCEPT !.finalizer = TRUE] \in ConfigObjects
      BY <2>1, <2>2 DEF AdoptConfig, ConfigAt, ConfigObjects
    <3> QED
      BY <1>3, <1>4, <2>2, <3>1, NoneAssumption DEF AdoptConfig, UpdateConfig
  <2>3. CASE ReleaseConfig(d)
    <3>1. stored[d] = configJob[d].cr => d # c
      BY <1>1, <2>3 DEF ReleaseConfig, ConfigAt, Protected, ConfigFacts, ReleasedIsFree
    <3> QED
      BY <1>3, <1>4, <2>3, <3>1 DEF ReleaseConfig, UpdateConfig
  <2>4. CASE ReconcileConfig(d) \/ ListUsages(d)
    BY <1>3, <2>4 DEF ReconcileConfig, ListUsages
  <2> QED
    BY <1>10, <2>2, <2>3, <2>4 DEF ConfigStep
<1>11. CASE Start \/ UNCHANGED vars
  BY <1>3, <1>11 DEF Start, vars
<1> QED
  BY <1>7, <1>8, <1>9, <1>10, <1>11 DEF Next

\* A namespaced config whose use by a Tenant was known when its deletion was
\* requested stays while that Tenant is there and refers to it.
THEOREM KnownUsesProtect == ASSUME Namespaced PROVE Spec => UsageProtects
<1>1. ProtectionInv /\ [Next]_vars
      => [\A c \in Configs : heldBy[c] # {} => Stored("configs")'[c] # None]_vars
  BY StepProtects
<1>2. Spec => []ProtectionInv
  BY ProtectionHolds
<1> QED
  BY <1>1, <1>2, PTL DEF Spec, UsageProtects

-------------------------------------------------------------------------------
(* No deletion is forgotten *)

\* No copy of a config has a uid that is still to be given out.
UidsGivenOut ==
    \A c \in Configs : \A configs \in Copies("configs") : configs[c] # None => configs[c].uid < ops

WakeupInv == TypeOK /\ UidsGivenOut /\ JobsAreFresh /\ WaitingIsWatched

\* While the process runs, what is written is not yet in the cache.
LEMMA CommitKeepsCache ==
    ASSUME LogOK, running, NEW kind \in ObjectKinds, NEW key \in StoreKeys(kind),
           NEW object \in StoredObjects(kind), Commit(kind, key, object)
    PROVE  \A k \in ObjectKinds : Cached(k)' = Cached(k)
<1> DEFINE new == [Stored(kind) EXCEPT ![key] = object]
<1>1. /\ log[kind] \in Seq(StoresOf[kind]) /\ Len(log[kind]) \in Nat \ {0}
      /\ DOMAIN log = ObjectKinds
  BY StoresInLog DEF LogOK
<1>2. new \in StoresOf[kind]
  BY StoresInLog, StoresOfKinds
<1>3. CASE log' = [log EXCEPT ![kind] = Append(@, new)]
  <2>1. log'[kind] = Append(log[kind], new) /\ \A k \in ObjectKinds \ {kind} : log'[k] = log[k]
    BY <1>1, <1>3
  <2> HIDE DEF new
  <2>2. Append(log[kind], new)[1] = log[kind][1]
    BY <1>1, <1>2
  <2> QED
    BY <2>1, <2>2 DEF Cached
<1>4. CASE UNCHANGED log
  BY <1>4 DEF Cached
<1> QED
  BY <1>3, <1>4 DEF Commit

\* A delivery moves one cache on.
LEMMA DeliverMoves ==
    ASSUME LogOK, NEW kind \in ObjectKinds, Len(log[kind]) > 1,
           log' = [log EXCEPT ![kind] = Tail(@)]
    PROVE  /\ Cached(kind)' = log[kind][2]
           /\ \A k \in ObjectKinds \ {kind} : Cached(k)' = Cached(k)
<1>1. /\ log[kind] \in Seq(StoresOf[kind]) /\ Len(log[kind]) \in Nat
      /\ DOMAIN log = ObjectKinds
  BY StoresInLog DEF LogOK
<1>2. log'[kind] = Tail(log[kind]) /\ \A k \in ObjectKinds \ {kind} : log'[k] = log[k]
  BY <1>1
<1>3. Tail(log[kind])[1] = log[kind][2]
  BY <1>1, TailOfLonger
<1> QED
  BY <1>2, <1>3 DEF Cached

\* What is known of uids survives everything that shows no new copy.
LEMMA UidsStay ==
    ASSUME TypeOK, UidsGivenOut, Copies("configs")' \subseteq Copies("configs"),
           ops' \in Nat, ops <= ops'
    PROVE  UidsGivenOut'
<1> SUFFICES ASSUME NEW c \in Configs, NEW configs \in Copies("configs"), configs[c] # None
             PROVE  configs[c].uid < ops'
  BY DEF UidsGivenOut
<1>1. configs[c] \in ConfigObjects
  BY LogTyped, StoresInLog, StoresOfKinds DEF Copies, ObjectKinds, StoreKeys, StoredObjects
<1>2. configs[c].uid < ops
  BY DEF UidsGivenOut
<1> QED
  BY <1>1, <1>2, ConfigsAssumption DEF ConfigObjects, TypeOK

\* A config that is written has the uid it had, or a new one.
LEMMA UidsWritten ==
    ASSUME TypeOK, UidsGivenOut, NEW c \in Configs, NEW object \in ConfigObjects \cup {None},
           Commit("configs", c, object), ops' \in Nat, ops <= ops',
           object # None => object.uid < ops'
    PROVE  UidsGivenOut'
<1> DEFINE new == [Stored("configs") EXCEPT ![c] = object]
<1>1. Copies("configs")' \subseteq Copies("configs") \cup {new}
  BY LogTyped, CommitFacts DEF ObjectKinds, StoreKeys, StoredObjects
<1>2. /\ Stored("configs") \in [Configs -> ConfigObjects \cup {None}]
      /\ Stored("configs") \in Copies("configs")
  BY ObjectTypes, StoredIsSeen DEF ObjectKinds
<1>3. ASSUME NEW d \in Configs, NEW configs \in Copies("configs"), configs[d] # None
      PROVE  configs[d].uid < ops'
  <2>1. configs[d] \in ConfigObjects
    BY <1>3, LogTyped, StoresInLog, StoresOfKinds DEF Copies, ObjectKinds, StoreKeys, StoredObjects
  <2>2. configs[d].uid < ops
    BY <1>3 DEF UidsGivenOut
  <2> QED
    BY <2>1, <2>2, ConfigsAssumption DEF ConfigObjects, TypeOK
<1>4. ASSUME NEW d \in Configs, new[d] # None PROVE new[d].uid < ops'
  BY <1>2, <1>3, <1>4
<1> QED
  BY <1>1, <1>3, <1>4 DEF UidsGivenOut

\* The configs that somebody has to wake.
Waiting(c) ==
    /\ running
    /\ Stored("configs")[c] # None /\ Cached("configs")[c] # None
    /\ Cached("configs")[c].uid = Stored("configs")[c].uid
    /\ Cached("configs")[c].deleting

\* What users, Tenants' reconciles and the garbage collector do makes no config
\* wait that did not wait before, and takes no user from the cache.
LEMMA OthersWrite ==
    ASSUME WakeupInv, UNCHANGED <<queue, configJob, running>>,
           running => /\ Cached("configs")' = Cached("configs")
                      /\ Cached("usages")' = Cached("usages")
                      /\ \A c \in Configs : Waiting(c)' => Waiting(c)
    PROVE  JobsAreFresh' /\ WaitingIsWatched'
<1>1. CASE running
  BY <1>1 DEF WakeupInv, JobsAreFresh, WaitingIsWatched, Waiting, Users
<1>2. CASE ~running
  BY <1>2 DEF WakeupInv, JobsAreFresh, WaitingIsWatched
<1> QED
  BY <1>1, <1>2

\* A write of a Tenant or of a usage.
LEMMA OthersCommit ==
    ASSUME WakeupInv, NEW kind \in {"tenants", "usages"}, NEW t \in Tenants,
           NEW object \in StoredObjects(kind), Commit(kind, t, object),
           UNCHANGED <<queue, configJob, running>>, ops' \in Nat, ops <= ops'
    PROVE  UidsGivenOut' /\ JobsAreFresh' /\ WaitingIsWatched'
<1>1. LogOK /\ kind \in ObjectKinds /\ t \in StoreKeys(kind) /\ "configs" \in ObjectKinds \ {kind}
  BY LogTyped DEF WakeupInv, ObjectKinds, StoreKeys
<1>2. log'["configs"] = log["configs"]
  BY <1>1, CommitFacts
<1>3. running => Cached("configs")' = Cached("configs") /\ Cached("usages")' = Cached("usages")
  BY <1>1, CommitKeepsCache DEF ObjectKinds
<1>4. Stored("configs")' = Stored("configs") /\ Copies("configs")' = Copies("configs")
  BY <1>2 DEF Stored, Copies
<1>5. UidsGivenOut'
  BY <1>4, UidsStay DEF WakeupInv
<1>6. running => \A c \in Configs : Waiting(c)' => Waiting(c)
  BY <1>3, <1>4 DEF Waiting
<1> QED
  BY <1>3, <1>5, <1>6, OthersWrite

\* Steps that write nothing.
LEMMA NothingWritten ==
    ASSUME WakeupInv, UNCHANGED <<log, queue, configJob, running, ops>>
    PROVE  UidsGivenOut' /\ JobsAreFresh' /\ WaitingIsWatched'
BY DEF WakeupInv, UidsGivenOut, JobsAreFresh, WaitingIsWatched, Cached, Stored, Copies, Users

\* A user's write of a config.
LEMMA ConfigUserWrites ==
    ASSUME WakeupInv, NEW c \in Configs, NEW object \in ConfigObjects \cup {None},
           Commit("configs", c, object),
           UNCHANGED <<queue, configJob, running>>, ops' \in Nat, ops < ops',
           object # None => \/ object.uid = ops
                            \/ /\ Stored("configs")[c] # None
                               /\ object.uid = Stored("configs")[c].uid
    PROVE  UidsGivenOut' /\ JobsAreFresh' /\ WaitingIsWatched'
<1>1. LogOK /\ TypeOK /\ UidsGivenOut
  BY LogTyped DEF WakeupInv
<1>2. ops \in Nat
  BY <1>1, ConfigsAssumption DEF TypeOK
<1>3. Stored("configs")' = [Stored("configs") EXCEPT ![c] = object]
  BY <1>1, CommitFacts DEF ObjectKinds, StoreKeys, StoredObjects
<1>4. running => Cached("configs")' = Cached("configs") /\ Cached("usages")' = Cached("usages")
  BY <1>1, CommitKeepsCache DEF ObjectKinds, StoreKeys, StoredObjects
<1>5. /\ Stored("configs") \in [Configs -> ConfigObjects \cup {None}]
      /\ Stored("configs") \in Copies("configs") /\ Cached("configs") \in Copies("configs")
  BY <1>1, ObjectTypes, StoredIsSeen DEF ObjectKinds
<1>6. object # None => object.uid < ops'
  <2>1. Stored("configs")[c] # None => /\ Stored("configs")[c].uid < ops
                                      /\ Stored("configs")[c].uid \in Nat
    BY <1>1, <1>5 DEF UidsGivenOut, ConfigObjects
  <2> QED
    BY <1>2, <2>1
<1>7. UidsGivenOut'
  BY <1>1, <1>2, <1>6, UidsWritten
<1>8. ASSUME running, NEW d \in Configs, Waiting(d)' PROVE Waiting(d)
  <2>1. CASE d # c
    BY <1>3, <1>4, <1>5, <1>8, <2>1 DEF Waiting
  <2>2. CASE d = c
    <3>1. /\ Cached("configs")[c] # None /\ Cached("configs")[c].deleting
          /\ object # None /\ Cached("configs")[c].uid = object.uid
      BY <1>3, <1>4, <1>5, <1>8, <2>2 DEF Waiting
    <3>2. Cached("configs")[c].uid < ops
      BY <1>1, <1>5, <3>1 DEF UidsGivenOut
    <3>3. object.uid # ops
      BY <1>2, <3>1, <3>2
    <3> QED
      BY <1>8, <2>2, <3>1, <3>3 DEF Waiting
  <2> QED
    BY <2>1, <2>2
<1> QED
  BY <1>4, <1>7, <1>8, OthersWrite

LEMMA EnvironmentWakes ==
    WakeupInv /\ Environment => UidsGivenOut' /\ JobsAreFresh' /\ WaitingIsWatched'
<1> SUFFICES ASSUME WakeupInv, Environment
             PROVE  UidsGivenOut' /\ JobsAreFresh' /\ WaitingIsWatched'
  OBVIOUS
<1>1. TypeOK /\ LogOK /\ ops \in Nat
  BY LogTyped, ConfigsAssumption DEF WakeupInv, TypeOK
<1>2. /\ Stored("tenants") \in [Tenants -> TenantObjects \cup {None}]
      /\ Stored("configs") \in [Configs -> ConfigObjects \cup {None}]
  BY <1>1, ObjectTypes
<1>3. ASSUME NEW t \in Tenants, NEW object \in TenantObjects \cup {None},
             Commit("tenants", t, object), UserActs
      PROVE  UidsGivenOut' /\ JobsAreFresh' /\ WaitingIsWatched'
  <2>1. ops' \in Nat /\ ops <= ops' /\ UNCHANGED <<queue, configJob, running>>
    BY <1>1, <1>3 DEF UserActs, Occurs
  <2>2. object \in StoredObjects("tenants")
    BY DEF StoredObjects
  <2> QED
    BY <1>3, <2>1, <2>2, OthersCommit
<1>4. ASSUME NEW c \in Configs, NEW object \in ConfigObjects \cup {None},
             Commit("configs", c, object), UserActs,
             object # None => \/ object.uid = ops
                              \/ /\ Stored("configs")[c] # None
                                 /\ object.uid = Stored("configs")[c].uid
      PROVE  UidsGivenOut' /\ JobsAreFresh' /\ WaitingIsWatched'
  <2>1. ops' \in Nat /\ ops < ops' /\ UNCHANGED <<queue, configJob, running>>
    BY <1>1, <1>4 DEF UserActs, Occurs
  <2> QED
    BY <1>4, <2>1, ConfigUserWrites
<1>5. ASSUME NEW t \in Tenants, NEW ref \in Refs, CreateTenant(t, ref) \/ RetargetTenant(t, ref)
      PROVE  UidsGivenOut' /\ JobsAreFresh' /\ WaitingIsWatched'
  <2>1. \A object \in TenantObjects : [object EXCEPT !.ref = ref] \in TenantObjects
    BY DEF TenantObjects
  <2>2. [ref |-> ref, deleting |-> FALSE, finalizer |-> FALSE, acknowledged |-> FALSE]
        \in TenantObjects
    BY DEF TenantObjects
  <2> QED
    BY <1>2, <1>3, <1>5, <2>1, <2>2 DEF CreateTenant, RetargetTenant
<1>6. ASSUME NEW t \in Tenants, DeleteTenant(t)
      PROVE  UidsGivenOut' /\ JobsAreFresh' /\ WaitingIsWatched'
  <2>1. Stored("tenants")[t] \in TenantObjects
    BY <1>2, <1>6 DEF DeleteTenant
  <2>2. [Stored("tenants")[t] EXCEPT !.deleting = TRUE] \in TenantObjects
    BY <2>1 DEF TenantObjects
  <2> QED
    BY <1>3, <1>6, <2>2 DEF DeleteTenant
<1>7. ASSUME NEW c \in Configs, NEW k \in Contents, CreateConfig(c, k)
      PROVE  UidsGivenOut' /\ JobsAreFresh' /\ WaitingIsWatched'
  <2> DEFINE object == [uid |-> ops, content |-> k, deleting |-> FALSE, finalizer |-> FALSE]
  <2>1. object \in ConfigObjects /\ object.uid = ops
    BY <1>1 DEF ConfigObjects
  <2> HIDE DEF object
  <2>2. Commit("configs", c, object) /\ UserActs
    BY <1>7 DEF CreateConfig, object
  <2> QED
    BY <1>4, <2>1, <2>2
<1>8. ASSUME NEW c \in Configs, Stored("configs")[c] # None, UserActs,
             NEW object \in ConfigObjects, Commit("configs", c, object),
             object.uid = Stored("configs")[c].uid
      PROVE  UidsGivenOut' /\ JobsAreFresh' /\ WaitingIsWatched'
  BY <1>4, <1>8
<1>9. ASSUME NEW c \in Configs, NEW k \in Contents, EditConfig(c, k)
      PROVE  UidsGivenOut' /\ JobsAreFresh' /\ WaitingIsWatched'
  <2> DEFINE object == [Stored("configs")[c] EXCEPT !.content = k]
  <2>1. Stored("configs")[c] \in ConfigObjects /\ Stored("configs")[c] # None
    BY <1>2, <1>9 DEF EditConfig
  <2>2. object \in ConfigObjects /\ object.uid = Stored("configs")[c].uid
    BY <2>1 DEF ConfigObjects
  <2> HIDE DEF object
  <2>3. Commit("configs", c, object) /\ UserActs
    BY <1>9 DEF EditConfig, object
  <2> QED
    BY <1>8, <2>1, <2>2, <2>3
<1>10. ASSUME NEW c \in Configs, DeleteConfig(c)
       PROVE  UidsGivenOut' /\ JobsAreFresh' /\ WaitingIsWatched'
  <2> DEFINE object == [Stored("configs")[c] EXCEPT !.deleting = TRUE]
  <2>1. Stored("configs")[c] \in ConfigObjects /\ Stored("configs")[c] # None
    BY <1>2, <1>10 DEF DeleteConfig
  <2>2. object \in ConfigObjects /\ object.uid = Stored("configs")[c].uid
    BY <2>1 DEF ConfigObjects
  <2> HIDE DEF object
  <2>3. (Commit("configs", c, object) \/ Commit("configs", c, None)) /\ UserActs
    BY <1>10 DEF DeleteConfig, object
  <2> QED
    BY <1>4, <1>8, <2>1, <2>2, <2>3
<1>11. CASE Stop
  <2>1. Copies("configs")' \subseteq Copies("configs")
    BY <1>1, <1>11, StopFacts DEF Stop, ObjectKinds
  <2>2. ops' \in Nat /\ ops <= ops'
    BY <1>1, <1>11 DEF Stop, Occurs
  <2>3. UidsGivenOut'
    BY <2>1, <2>2, UidsStay DEF WakeupInv
  <2>4. ~running' /\ \A c \in Configs : configJob'[c].step = "idle"
    BY <1>11 DEF Stop, ConfigIdle
  <2> QED
    BY <2>3, <2>4 DEF JobsAreFresh, WaitingIsWatched
<1> QED
  BY <1>5, <1>6, <1>7, <1>9, <1>10, <1>11 DEF Environment

LEMMA TenantStepsWake ==
    ASSUME WakeupInv, NEW t \in Tenants, CollectUsage(t) \/ Reconcile(t) \/ JobStep(t)
    PROVE  UidsGivenOut' /\ JobsAreFresh' /\ WaitingIsWatched'
<1>1. /\ ops \in Nat /\ ops <= ops
      /\ job[t].step # "idle" => job[t].cr \in TenantObjects
  BY ConfigsAssumption DEF WakeupInv, TypeOK, Jobs
<1>2. ASSUME NEW kind \in {"tenants", "usages"}, NEW object \in StoredObjects(kind),
             Commit(kind, t, object), UNCHANGED <<queue, configJob, running, ops>>
      PROVE  UidsGivenOut' /\ JobsAreFresh' /\ WaitingIsWatched'
  BY <1>1, <1>2, OthersCommit
<1>3. ASSUME UNCHANGED <<log, queue, configJob, running, ops>>
      PROVE  UidsGivenOut' /\ JobsAreFresh' /\ WaitingIsWatched'
  BY <1>3, NothingWritten
<1>4. CASE CollectUsage(t)
  BY <1>2, <1>4 DEF CollectUsage, StoredObjects
<1>5. CASE Track(t)
  <2>1. job[t].cr.ref \in StoredObjects("usages")
    BY <1>1, <1>5 DEF Track, At, TenantObjects, StoredObjects
  <2> QED
    BY <1>2, <1>3, <1>5, <2>1 DEF Track, At
<1>6. CASE Adopt(t)
  <2>1. [job[t].cr EXCEPT !.finalizer = TRUE] \in StoredObjects("tenants")
    BY <1>1, <1>6 DEF Adopt, At, TenantObjects, StoredObjects
  <2> QED
    BY <1>2, <1>3, <1>6, <2>1 DEF Adopt, At
<1>7. CASE Release(t)
  <2>1. None \in StoredObjects("tenants")
    BY DEF StoredObjects
  <2> QED
    BY <1>2, <1>3, <1>7, <2>1 DEF Release, At
<1>8. CASE Publish(t)
  <2>1. UNCHANGED <<queue, configJob, running, ops>>
    BY <1>8 DEF Publish, At
  <2>2. TenantObjects \subseteq StoredObjects("tenants")
    BY DEF StoredObjects
  <2> QED
    BY <1>1, <1>2, <1>3, <1>8, <2>1, <2>2, PublishWrites
<1>9. CASE Reconcile(t) \/ Connect(t)
  BY <1>3, <1>9 DEF Reconcile, Connect, At
<1> QED
  BY <1>4, <1>5, <1>6, <1>7, <1>8, <1>9 DEF JobStep

\* A usage that leaves the cache, or names another config there, wakes the
\* config it was counted for, and so does every change of the config.
LEMMA DeliveryWakes ==
    ASSUME WakeupInv, NEW kind \in ObjectKinds, Deliver(kind)
    PROVE  UidsGivenOut' /\ JobsAreFresh' /\ WaitingIsWatched'
<1>1. TypeOK /\ LogOK /\ ops \in Nat /\ ops <= ops
  BY LogTyped, ConfigsAssumption DEF WakeupInv, TypeOK
<1>2. /\ running /\ Len(log[kind]) > 1 /\ log' = [log EXCEPT ![kind] = Tail(@)]
      /\ UNCHANGED <<configJob, running, ops>>
  BY DEF Deliver
<1>3. /\ \A k \in ObjectKinds : Stored(k)' = Stored(k) /\ Copies(k)' \subseteq Copies(k)
      /\ Cached(kind)' = log[kind][2]
      /\ \A k \in ObjectKinds \ {kind} : Cached(k)' = Cached(k)
  BY <1>1, <1>2, DeliverFacts, DeliverMoves
<1>4. UidsGivenOut'
  BY <1>1, <1>2, <1>3, UidsStay DEF WakeupInv, ObjectKinds
<1>5. /\ Cached("configs") \in [Configs -> ConfigObjects \cup {None}]
      /\ Cached("usages") \in [Tenants -> Refs \cup {None}]
  BY <1>1, ObjectTypes
<1>6. queue \subseteq queue'
  BY DEF Deliver
<1>7. \A c \in Configs : c \notin queue' => Cached("configs")'[c] = Cached("configs")[c]
  <2>1. CASE kind = "configs"
    <3>1. Changed(log["configs"][1], log["configs"][2]) \subseteq queue'
      BY <2>1 DEF Deliver
    <3> QED
      BY <1>3, <1>5, <2>1, <3>1 DEF Changed, Cached
  <2>2. CASE kind # "configs"
    BY <1>3, <2>2 DEF ObjectKinds
  <2> QED
    BY <2>1, <2>2
<1>8. ASSUME NEW c \in Configs, c \notin queue', Users(c) # {} PROVE Users(c)' # {}
  <2>1. CASE kind = "usages"
    <3>1. PICK t \in Tenants : Cached("usages")[t] # None /\ Counts(Cached("usages")[t], c)
      BY <1>8 DEF Users
    <3>2. c \in Watching(Cached("usages")[t])
      BY <3>1 DEF Watching, Counts, Names
    <3>3. ASSUME t \in Changed(log["usages"][1], log["usages"][2]) PROVE c \in queue'
      BY <2>1, <3>2, <3>3 DEF Deliver, Cached
    <3>4. Cached("usages")'[t] = Cached("usages")[t]
      BY <1>3, <1>5, <1>8, <2>1, <3>3 DEF Changed, Cached
    <3> QED
      BY <3>1, <3>4 DEF Users
  <2>2. CASE kind # "usages"
    BY <1>3, <1>8, <2>2 DEF Users, ObjectKinds
  <2> QED
    BY <2>1, <2>2
<1>9. JobsAreFresh'
  BY <1>2, <1>6, <1>7 DEF WakeupInv, JobsAreFresh
<1>10. WaitingIsWatched'
  <2> SUFFICES ASSUME NEW c \in Configs, Waiting(c)', c \notin queue',
                      configJob'[c].step = "idle"
               PROVE  Users(c)' # {}
    BY DEF WaitingIsWatched, Waiting
  <2>1. Waiting(c) /\ c \notin queue /\ configJob[c].step = "idle"
    BY <1>2, <1>3, <1>6, <1>7 DEF Waiting, ObjectKinds
  <2>2. Users(c) # {}
    BY <2>1 DEF WakeupInv, WaitingIsWatched, Waiting
  <2> QED
    BY <1>8, <2>2
<1> QED
  BY <1>4, <1>9, <1>10

\* A reconcile ends only when it found a user in the cache, took the finalizer
\* away, or put the config back into the queue.
LEMMA ConfigStepWakes ==
    ASSUME WakeupInv, NEW c \in Configs, ConfigStep(c)
    PROVE  UidsGivenOut' /\ JobsAreFresh' /\ WaitingIsWatched'
<1> DEFINE cr == configJob[c].cr
<1>1. TypeOK /\ LogOK /\ UidsGivenOut /\ ops \in Nat /\ ops <= ops
  BY LogTyped, ConfigsAssumption DEF WakeupInv, TypeOK
<1>2. /\ configJob \in [Configs -> ConfigJobs]
      /\ configJob[c].step # "idle" => cr \in ConfigObjects /\ cr # None
      /\ Stored("configs") \in [Configs -> ConfigObjects \cup {None}]
      /\ Stored("configs") \in Copies("configs")
  BY <1>1, ObjectTypes, StoredIsSeen DEF TypeOK, ConfigJobs, ObjectKinds
<1>3. ConfigIdle.step = "idle"
  BY DEF ConfigIdle
<1>4. ASSUME NEW new, configJob' = [configJob EXCEPT ![c] = new],
             UNCHANGED <<log, running, ops>>,
             \A d \in Configs \ {c} : d \in queue => d \in queue',
             new.step # "idle" => /\ running
                                  /\ c \in queue' \/ new.cr = Cached("configs")[c]
                                  /\ new.step = "adopt" => ~new.cr.deleting,
             new.step = "idle" /\ Waiting(c) => c \in queue' \/ Users(c) # {}
      PROVE  UidsGivenOut' /\ JobsAreFresh' /\ WaitingIsWatched'
  <2>1. /\ configJob'[c] = new /\ \A d \in Configs \ {c} : configJob'[d] = configJob[d]
        /\ \A k : Cached(k)' = Cached(k) /\ Stored(k)' = Stored(k) /\ Copies(k)' = Copies(k)
        /\ \A d : Users(d)' = Users(d) /\ (Waiting(d)' <=> Waiting(d))
    BY <1>2, <1>4 DEF Cached, Stored, Copies, Users, Waiting
  <2>2. UidsGivenOut'
    BY <1>1, <1>4, <2>1 DEF UidsGivenOut
  <2>3. JobsAreFresh'
    BY <1>4, <2>1 DEF WakeupInv, JobsAreFresh
  <2>4. ASSUME NEW d \in Configs, Waiting(d)
        PROVE  d \in queue' \/ configJob'[d].step # "idle" \/ Users(d) # {}
    BY <1>4, <2>1, <2>4 DEF WakeupInv, WaitingIsWatched, Waiting
  <2>5. WaitingIsWatched'
    BY <2>1, <2>4 DEF WaitingIsWatched, Waiting
  <2> QED
    BY <2>2, <2>3, <2>5
<1>5. CASE ReconcileConfig(c)
  <2> DEFINE new == [step |-> "list", cr |-> Cached("configs")[c]]
  <2>1. CASE Cached("configs")[c] = None
    <3>1. configJob' = [configJob EXCEPT ![c] = configJob[c]] /\ configJob[c].step = "idle"
      BY <1>2, <1>5, <2>1 DEF ReconcileConfig
    <3> QED
      BY <1>4, <1>5, <2>1, <3>1 DEF ReconcileConfig, Waiting
  <2>2. CASE Cached("configs")[c] # None
    <3>1. configJob' = [configJob EXCEPT ![c] = new] /\ new.step = "list" /\ new.cr = Cached("configs")[c]
      BY <1>5, <2>2 DEF ReconcileConfig
    <3> HIDE DEF new
    <3> QED
      BY <1>4, <1>5, <3>1 DEF ReconcileConfig
  <2> QED
    BY <2>1, <2>2
<1>6. configJob[c].step # "idle" => running /\ (c \in queue \/ cr = Cached("configs")[c])
  BY DEF WakeupInv, JobsAreFresh
<1>7. CASE ListUsages(c)
  <2>0. configJob[c].step = "list" /\ UNCHANGED <<log, queue, running, ops>>
    BY <1>7 DEF ListUsages, ConfigAt
  <2>1. ASSUME NEW step \in {"adopt", "release"}, step = "adopt" => ~cr.deleting,
               configJob' = [configJob EXCEPT ![c].step = step]
        PROVE  UidsGivenOut' /\ JobsAreFresh' /\ WaitingIsWatched'
    <3> DEFINE new == [configJob[c] EXCEPT !.step = step]
    <3>1. new.step = step /\ new.cr = cr /\ configJob' = [configJob EXCEPT ![c] = new]
      BY <1>2, <2>1 DEF ConfigJobs
    <3> HIDE DEF new
    <3> QED
      BY <1>4, <1>6, <2>0, <2>1, <3>1
  <2>2. CASE EndConfig(c) /\ (~cr.deleting \/ Users(c) # {})
    <3>1. configJob' = [configJob EXCEPT ![c] = ConfigIdle]
      BY <2>2 DEF EndConfig
    <3>2. Waiting(c) => c \in queue \/ Users(c) # {}
      BY <1>6, <2>0, <2>2 DEF Waiting
    <3> QED
      BY <1>3, <1>4, <2>0, <3>1, <3>2
  <2> QED
    BY <1>7, <2>1, <2>2 DEF ListUsages
<1>8. ASSUME NEW object \in ConfigObjects \cup {None}, UpdateConfig(c, object),
             configJob[c].step # "idle", UNCHANGED <<running, ops>>,
             object # None => object.uid = cr.uid /\ ~cr.deleting
      PROVE  UidsGivenOut' /\ JobsAreFresh' /\ WaitingIsWatched'
  <2>1. configJob' = [configJob EXCEPT ![c] = ConfigIdle]
    BY <1>8 DEF UpdateConfig, EndConfig
  <2>2. CASE Stored("configs")[c] # cr
    BY <1>3, <1>4, <1>8, <2>1, <2>2 DEF UpdateConfig
  <2>3. CASE Stored("configs")[c] = cr
    <3>1. Commit("configs", c, object) /\ queue' = queue
      BY <1>8, <2>3 DEF UpdateConfig
    <3>2. /\ Stored("configs")' = [Stored("configs") EXCEPT ![c] = object]
          /\ Cached("configs")' = Cached("configs") /\ Cached("usages")' = Cached("usages")
      BY <1>1, <1>6, <1>8, <3>1, CommitFacts, CommitKeepsCache
         DEF ObjectKinds, StoreKeys, StoredObjects
    <3>3. object # None => object.uid < ops
      BY <1>1, <1>2, <1>8, <2>3 DEF UidsGivenOut
    <3>4. UidsGivenOut'
      BY <1>1, <1>8, <3>1, <3>3, UidsWritten
    <3>5. \A d \in Configs \ {c} : Waiting(d)' => Waiting(d)
      BY <1>2, <1>8, <3>2 DEF Waiting
    <3>6. Waiting(c)' => c \in queue
      BY <1>2, <1>6, <1>8, <3>2 DEF Waiting
    <3>7. /\ configJob'[c].step = "idle"
          /\ \A d \in Configs \ {c} : configJob'[d] = configJob[d]
      BY <1>2, <1>3, <2>1
    <3>8. JobsAreFresh'
      BY <1>8, <3>1, <3>2, <3>7 DEF WakeupInv, JobsAreFresh
    <3>9. ASSUME NEW d \in Configs, Waiting(d)'
          PROVE  d \in queue' \/ configJob'[d].step # "idle" \/ Users(d)' # {}
      <4>1. Users(d)' = Users(d)
        BY <3>2 DEF Users
      <4> QED
        BY <3>1, <3>5, <3>6, <3>7, <3>9, <4>1 DEF WakeupInv, WaitingIsWatched, Waiting
    <3>10. WaitingIsWatched'
      BY <3>9 DEF WaitingIsWatched, Waiting
    <3> QED
      BY <3>4, <3>8, <3>10
  <2> QED
    BY <2>2, <2>3
<1>9. CASE AdoptConfig(c)
  <2>1. configJob[c].step = "adopt" /\ UNCHANGED <<running, ops>> /\ ~cr.deleting
    BY <1>9 DEF AdoptConfig, ConfigAt, WakeupInv, JobsAreFresh
  <2>2. /\ [cr EXCEPT !.finalizer = TRUE] \in ConfigObjects
        /\ [cr EXCEPT !.finalizer = TRUE].uid = cr.uid
    BY <1>2, <2>1 DEF ConfigObjects
  <2> QED
    BY <1>8, <1>9, <2>1, <2>2 DEF AdoptConfig
<1>10. CASE ReleaseConfig(c)
  BY <1>8, <1>10 DEF ReleaseConfig, ConfigAt
<1> QED
  BY <1>5, <1>7, <1>9, <1>10 DEF ConfigStep

LEMMA InitWakes == Init => WakeupInv
<1> SUFFICES ASSUME Init PROVE WakeupInv
  OBVIOUS
<1>1. TypeOK
  BY InitTyped
<1>2. \A configs \in Copies("configs"), c \in Configs : configs[c] = None
  BY DEF Init, Copies
<1>3. \A c \in Configs : configJob[c].step = "idle" /\ Cached("configs")[c] = None
  BY DEF Init, ConfigIdle, Cached
<1> QED
  BY <1>1, <1>2, <1>3 DEF WakeupInv, UidsGivenOut, JobsAreFresh, WaitingIsWatched

LEMMA NextWakes == WakeupInv /\ [Next]_vars => WakeupInv'
<1> SUFFICES ASSUME WakeupInv, [Next]_vars PROVE WakeupInv'
  OBVIOUS
<1>1. TypeOK'
  BY NextTyped DEF WakeupInv
<1>2. CASE Start
  <2>1. /\ UidsGivenOut' /\ ~running
    BY <1>2 DEF Start, WakeupInv, UidsGivenOut, Copies
  <2>2. JobsAreFresh'
    BY <1>2, <2>1 DEF Start, WakeupInv, JobsAreFresh
  <2>3. WaitingIsWatched'
    BY <1>2 DEF Start, WaitingIsWatched, Stored, Cached
  <2> QED
    BY <1>1, <2>1, <2>2, <2>3 DEF WakeupInv
<1>3. CASE UNCHANGED vars
  BY <1>1, <1>3, NothingWritten DEF vars, WakeupInv
<1> QED
  BY <1>1, <1>2, <1>3, EnvironmentWakes, TenantStepsWake, ConfigStepWakes, DeliveryWakes
     DEF Next, WakeupInv

\* A config whose deletion the cache knows of is in the queue, is being
\* reconciled or has a user in the cache, whatever the lag of the caches, the
\* order of events, conflicts and restarts, and for both kinds of configs.
THEOREM DeletionsAreNeverForgotten == Spec => []WaitingIsWatched
<1>1. Spec => []WakeupInv
  BY InitWakes, NextWakes, PTL DEF Spec
<1>2. WakeupInv => WaitingIsWatched
  BY DEF WakeupInv
<1> QED
  BY <1>1, <1>2, PTL
===============================================================================
