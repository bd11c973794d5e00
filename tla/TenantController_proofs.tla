------------------------ MODULE TenantController_proofs ------------------------
(***************************************************************************)
(* Theorems about TenantController for every set of Tenants, specs and     *)
(* settings, every number of workers and every lag of the cache.           *)
(***************************************************************************)
EXTENDS TenantController, SequenceTheorems, TLAPS

LEMMA StoresInLog ==
    ASSUME TypeOK
    PROVE  /\ Cached \in Stores
           /\ Stored \in Stores
           /\ Len(log) \in Nat \ {0}
           /\ \A i \in DOMAIN log : log[i] \in Stores
BY DEF TypeOK, Cached, Stored

\* Every write of an object leaves a log of stores.
LEMMA CommitType ==
    ASSUME TypeOK, NEW t \in Tenants, NEW object \in Objects \cup {None},
           Commit(t, object)
    PROVE  log' \in Seq(Stores) \ {<<>>}
<1>1. CASE UNCHANGED log
  BY <1>1 DEF TypeOK
<1>2. CASE log' = Append(log, [Stored EXCEPT ![t] = object])
  <2>1. [Stored EXCEPT ![t] = object] \in Stores
    BY StoresInLog DEF Stores
  <2> QED
    BY <1>2, <2>1 DEF TypeOK
<1> QED
  BY <1>1, <1>2 DEF Commit

LEMMA IdleType == Idle \in Jobs
BY DEF Idle, Jobs, Steps

\* Observe starts a well-formed job.
LEMMA ObserveType ==
    ASSUME NEW cr \in Objects
    PROVE  /\ Observe(cr) \in Jobs
           /\ Observe(cr).cr = cr
           /\ Observe(cr).step \in {"finalizer", "list", "drift", "persist"}
           /\ Observe(cr).step \in {"finalizer", "list"} => Observe(cr).op # "none"
<1>1. cr.deleting \in BOOLEAN
  BY DEF Objects
<1>2. CASE cr.deleting
  BY <1>2 DEF Observe, Jobs, Idle, Steps
<1>3. CASE ~cr.deleting /\ isUpToDate(cr)
  BY <1>3 DEF Observe, Jobs, Idle, Steps
<1>4. CASE ~cr.deleting /\ ~isUpToDate(cr)
  BY <1>4 DEF Observe, Jobs, Idle, Steps, FirstStep
<1> QED
  BY <1>1, <1>2, <1>3, <1>4

LEMMA BuildOrgMappingType ==
    ASSUME NEW tenants
    PROVE  BuildOrgMapping(tenants) \in SUBSET Entries
BY DEF BuildOrgMapping, EntriesOf

-------------------------------------------------------------------------------
(* Type correctness *)

LEMMA InitTyped == Init => TypeOK
<1> SUFFICES ASSUME Init PROVE TypeOK
  OBVIOUS
<1>1. log \in Seq(Stores) \ {<<>>}
  BY DEF Init, Stores
<1>2. job \in [Tenants -> Jobs]
  BY IdleType DEF Init
<1>3. sso \in SSOSettings
  BY DEF Init
<1>4. ops \in 0..MaxOps
  BY ControllerAssumption DEF Init
<1>5. JobsWellFormed
  BY DEF Init, JobsWellFormed, Idle
<1> QED
  BY <1>1, <1>2, <1>3, <1>4, <1>5 DEF Init, TypeOK

\* The jobs stay well formed when at most one of them becomes a well-formed job.
LEMMA OneJobChanges ==
    ASSUME TypeOK, NEW t \in Tenants, NEW new \in Jobs,
           job' = [job EXCEPT ![t] = new],
           new.step # "idle" =>
             /\ new.cr \in Objects
             /\ new.step \in {"finalizer", "list", "get", "put"} => new.op # "none"
    PROVE  job' \in [Tenants -> Jobs] /\ JobsWellFormed'
BY DEF TypeOK, JobsWellFormed

\* A job that goes on with the same object.
LEMMA JobGoesOn ==
    ASSUME TypeOK, NEW t \in Tenants, job[t].step # "idle", NEW step \in Steps,
           step \in {"finalizer", "list", "get", "put"} => job[t].op # "none",
           job' = [job EXCEPT ![t].step = step]
    PROVE  job' \in [Tenants -> Jobs] /\ JobsWellFormed'
<1> DEFINE new == [job[t] EXCEPT !.step = step]
<1>1. job[t] \in Jobs
  BY DEF TypeOK
<1>2. new \in Jobs /\ new.cr = job[t].cr /\ new.op = job[t].op /\ new.step = step
  BY <1>1 DEF Jobs
<1>3. job[t].cr \in Objects
  BY DEF TypeOK, JobsWellFormed
<1>4. job' = [job EXCEPT ![t] = new]
  OBVIOUS
<1> HIDE DEF new
<1> QED
  BY <1>2, <1>3, <1>4, OneJobChanges

LEMMA JobEnds ==
    ASSUME TypeOK, NEW t \in Tenants, job' = [job EXCEPT ![t] = Idle]
    PROVE  job' \in [Tenants -> Jobs] /\ JobsWellFormed'
<1>1. Idle.step = "idle"
  BY DEF Idle
<1> QED
  BY <1>1, IdleType, OneJobChanges

\* An update of the stored object by a job.
LEMMA UpdateType ==
    ASSUME TypeOK, NEW t \in Tenants, NEW object \in Objects, NEW step \in Steps,
           job[t].step # "idle", Update(t, object, step),
           step \in {"finalizer", "list", "get", "put"} => job[t].op # "none"
    PROVE  /\ log' \in Seq(Stores) \ {<<>>}
           /\ job' \in [Tenants -> Jobs]
           /\ JobsWellFormed'
<1>1. CASE Stored[t] = job[t].cr
  <2> DEFINE new == [job[t] EXCEPT !.cr = object, !.step = step]
  <2>1. job[t] \in Jobs
    BY DEF TypeOK
  <2>2. new \in Jobs /\ new.cr = object /\ new.op = job[t].op /\ new.step = step
    BY <2>1 DEF Jobs
  <2>3. job' = [job EXCEPT ![t] = new]
    BY <1>1 DEF Update
  <2>4. Commit(t, object)
    BY <1>1 DEF Update
  <2> HIDE DEF new
  <2>5. job' \in [Tenants -> Jobs] /\ JobsWellFormed'
    BY <2>2, <2>3, OneJobChanges
  <2> QED
    BY <2>4, <2>5, CommitType DEF TypeOK
<1>2. CASE Stored[t] # job[t].cr
  BY <1>2, JobEnds DEF Update, TypeOK
<1> QED
  BY <1>1, <1>2

\* Users, administrators and failures.
LEMMA EnvironmentKeepsTypes == TypeOK /\ Environment => TypeOK'
<1> SUFFICES ASSUME TypeOK, Environment PROVE TypeOK'
  OBVIOUS
<1>0. ops \in 0..MaxOps /\ (Occurs => ops' \in 0..MaxOps)
  BY ControllerAssumption DEF TypeOK, Occurs
<1>1. ASSUME NEW t \in Tenants, NEW s \in Specs, CreateTenant(t, s)
      PROVE  TypeOK'
  <2>1. NewTenant(s) \in Objects
    BY DEF NewTenant, Objects
  <2>2. log' \in Seq(Stores) \ {<<>>}
    BY <1>1, <2>1, CommitType DEF CreateTenant, TypeOK
  <2> QED
    BY <1>0, <1>1, <2>2 DEF CreateTenant, UserActs, TypeOK, JobsWellFormed
<1>2. ASSUME NEW t \in Tenants, NEW s \in Specs, EditTenant(t, s)
      PROVE  TypeOK'
  <2> DEFINE next == Stored[t].generation + 1
             new == [Stored[t] EXCEPT !.spec = s, !.generation = next]
  <2>1. Stored[t] \in Objects
    BY <1>2, StoresInLog DEF EditTenant, Stores, TypeOK
  <2>2. new \in Objects
    <3>1. Stored[t].generation \in Nat
      BY <2>1 DEF Objects
    <3>2. next \in Nat
      BY <3>1
    <3> HIDE DEF next
    <3> QED
      BY <2>1, <3>2 DEF Objects
  <2>3. Commit(t, new)
    BY <1>2 DEF EditTenant
  <2> HIDE DEF new
  <2>4. log' \in Seq(Stores) \ {<<>>}
    BY <2>2, <2>3, CommitType DEF TypeOK
  <2> QED
    BY <1>0, <1>2, <2>4 DEF EditTenant, UserActs, TypeOK, JobsWellFormed
<1>3. ASSUME NEW t \in Tenants, DeleteTenant(t)
      PROVE  TypeOK'
  <2> DEFINE new == IF Stored[t].finalizer THEN [Stored[t] EXCEPT !.deleting = TRUE] ELSE None
  <2>1. Stored[t] \in Objects
    BY <1>3, StoresInLog DEF DeleteTenant, Stores, TypeOK
  <2>2. new \in Objects \cup {None}
    BY <2>1 DEF Objects
  <2>3. Commit(t, new)
    BY <1>3 DEF DeleteTenant
  <2> HIDE DEF new
  <2>4. log' \in Seq(Stores) \ {<<>>}
    BY <2>2, <2>3, CommitType DEF TypeOK
  <2> QED
    BY <1>0, <1>3, <2>4 DEF DeleteTenant, UserActs, TypeOK, JobsWellFormed
<1>4. CASE Restart
  <2>1. <<Stored>> \in Seq(Stores) \ {<<>>}
    BY StoresInLog DEF TypeOK
  <2>2. job' \in [Tenants -> Jobs] /\ JobsWellFormed'
    BY <1>4, IdleType DEF Restart, JobsWellFormed, Idle
  <2> QED
    BY <1>0, <1>4, <2>1, <2>2 DEF Restart, TypeOK
<1>5. CASE GrafanaFails \/ GrafanaRecovers
  BY <1>0, <1>5 DEF GrafanaFails, GrafanaRecovers, TypeOK, JobsWellFormed
<1>6. CASE MappingDrifts \/ \E v \in Settings : AdminConfigures(v)
  BY <1>0, <1>6 DEF MappingDrifts, AdminConfigures, SSOSettings, TypeOK,
                    JobsWellFormed
<1>7. ASSUME NEW t \in Tenants, ResponseLost(t)
      PROVE  TypeOK'
  <2> DEFINE new == [job[t] EXCEPT !.settings = None, !.step = AfterSync(job[t].op)]
  <2>1. job[t] \in Jobs /\ job[t].cr \in Objects /\ job[t].op # "none"
    BY <1>7 DEF ResponseLost, TypeOK, JobsWellFormed
  <2>2. /\ new \in Jobs
        /\ new.cr = job[t].cr
        /\ new.step \in {"persist", "release"}
        /\ new.op = job[t].op
    BY <2>1 DEF Jobs, AfterSync, Steps
  <2>3. job' = [job EXCEPT ![t] = new]
    BY <1>7 DEF ResponseLost
  <2> HIDE DEF new
  <2>4. job' \in [Tenants -> Jobs] /\ JobsWellFormed'
    BY <2>1, <2>2, <2>3, OneJobChanges
  <2>5. sso' \in SSOSettings
    BY <1>7, <2>1 DEF ResponseLost, Written, SSOSettings, Jobs
  <2> QED
    BY <1>0, <1>7, <2>4, <2>5 DEF ResponseLost, TypeOK
<1> QED
  BY <1>1, <1>2, <1>3, <1>4, <1>5, <1>6, <1>7 DEF Environment

\* The steps of the provider.
LEMMA StartingKeepsTypes ==
    ASSUME TypeOK, NEW t \in Tenants, Starting(t) PROVE TypeOK'
<1>1. Cached[t] \in Objects
  BY StoresInLog DEF Starting, Reconcile, InitializeName, Starts, Stores, TypeOK
<1>2. CASE Reconcile(t)
  <2>1. job' \in [Tenants -> Jobs] /\ JobsWellFormed'
    BY <1>1, <1>2, ObserveType, OneJobChanges DEF Reconcile
  <2> QED
    BY <1>2, <2>1 DEF Reconcile, Starts, TypeOK
<1>3. CASE InitializeName(t)
  <2> DEFINE cr == [Cached[t] EXCEPT !.named = TRUE]
  <2>1. cr \in Objects
    BY <1>1 DEF Objects
  <2>2. Commit(t, cr) /\ job' = [job EXCEPT ![t] = Observe(cr)]
    BY <1>3 DEF InitializeName
  <2> HIDE DEF cr
  <2>3. job' \in [Tenants -> Jobs] /\ JobsWellFormed'
    BY <2>1, <2>2, ObserveType, OneJobChanges
  <2>4. log' \in Seq(Stores) \ {<<>>}
    BY <2>1, <2>2, CommitType DEF TypeOK
  <2> QED
    BY <1>3, <2>3, <2>4 DEF InitializeName, Starts, TypeOK
<1> QED
  BY <1>2, <1>3 DEF Starting

LEMMA JobStepKeepsTypes ==
    ASSUME TypeOK, NEW t \in Tenants, JobStep(t) PROVE TypeOK'
<1>1. job[t].step # "idle" /\ UNCHANGED <<born, ops>>
  BY DEF JobStep, At, AddFinalizer, CheckDrift, ListTenants, getOrInitSettings,
         SyncOrgMapping, SyncFails, PersistStatus, RemoveFinalizer
<1>2. job[t] \in Jobs /\ job[t].cr \in Objects
  BY <1>1 DEF TypeOK, JobsWellFormed
<1> DEFINE Rest == log' \in Seq(Stores) \ {<<>>} /\ sso' \in SSOSettings /\ grafanaUp' \in BOOLEAN
<1> SUFFICES job' \in [Tenants -> Jobs] /\ JobsWellFormed' /\ Rest
  BY <1>1 DEF TypeOK
<1>3. UNCHANGED <<log, sso, grafanaUp>> => Rest
  BY DEF TypeOK
<1>4. CASE AddFinalizer(t)
  <2> DEFINE cr == [job[t].cr EXCEPT !.finalizer = TRUE]
  <2>1. cr \in Objects
    BY <1>2 DEF Objects
  <2>2. Update(t, cr, "list") /\ job[t].op # "none"
    BY <1>4 DEF AddFinalizer, At, TypeOK, JobsWellFormed
  <2> HIDE DEF cr
  <2>3. "list" \in Steps
    BY DEF Steps
  <2> QED
    BY <1>1, <2>1, <2>2, <2>3, UpdateType DEF Update, TypeOK
<1>5. CASE CheckDrift(t)
  <2>1. CASE Goto(t, "persist")
    BY <1>1, <1>3, <1>5, <2>1, JobGoesOn DEF CheckDrift, Goto, Steps
  <2>2. CASE job' = [job EXCEPT ![t].op = "update", ![t].step = FirstStep(job[t].cr)]
    <3> DEFINE new == [job[t] EXCEPT !.op = "update", !.step = FirstStep(job[t].cr)]
    <3>1. /\ new \in Jobs
          /\ new.cr = job[t].cr
          /\ new.op = "update"
          /\ new.step \in {"finalizer", "list"}
      BY <1>2 DEF Jobs, Steps, FirstStep
    <3>2. job' = [job EXCEPT ![t] = new]
      BY <2>2
    <3> HIDE DEF new
    <3> QED
      BY <1>2, <1>3, <1>5, <3>1, <3>2, OneJobChanges DEF CheckDrift
  <2> QED
    BY <1>5, <2>1, <2>2 DEF CheckDrift
<1>6. CASE ListTenants(t)
  <2>1. PICK want \in SUBSET Entries :
          job' = [job EXCEPT ![t].want = want, ![t].step = "get"]
    BY <1>6, BuildOrgMappingType DEF ListTenants
  <2> DEFINE new == [job[t] EXCEPT !.want = want, !.step = "get"]
  <2>2. /\ new \in Jobs
        /\ new.cr = job[t].cr
        /\ new.op = job[t].op
        /\ new.step = "get"
    BY <1>2 DEF Jobs, Steps
  <2>3. job' = [job EXCEPT ![t] = new]
    BY <2>1
  <2>4. job[t].op # "none"
    BY <1>6 DEF ListTenants, At, TypeOK, JobsWellFormed
  <2> HIDE DEF new
  <2> QED
    BY <1>2, <1>3, <1>6, <2>2, <2>3, <2>4, OneJobChanges DEF ListTenants
<1>7. CASE getOrInitSettings(t)
  <2> DEFINE new == [job[t] EXCEPT !.settings = sso.settings, !.step = "put"]
  <2>1. sso.settings \in Settings \cup {None}
    BY DEF TypeOK, SSOSettings
  <2>2. /\ new \in Jobs
        /\ new.cr = job[t].cr
        /\ new.op = job[t].op
        /\ new.step = "put"
    BY <1>2, <2>1 DEF Jobs, Steps
  <2>3. job' = [job EXCEPT ![t] = new]
    BY <1>7 DEF getOrInitSettings
  <2>4. job[t].op # "none"
    BY <1>7 DEF getOrInitSettings, At, TypeOK, JobsWellFormed
  <2> HIDE DEF new
  <2> QED
    BY <1>2, <1>3, <1>7, <2>2, <2>3, <2>4, OneJobChanges DEF getOrInitSettings
<1>8. CASE SyncOrgMapping(t) \/ SyncFails(t)
  <2>1. job[t].op # "none"
    BY <1>8 DEF SyncOrgMapping, SyncFails, At, TypeOK, JobsWellFormed
  <2>2. PICK done \in BOOLEAN :
          job' = [job EXCEPT ![t].synced = done, ![t].settings = None,
                             ![t].step = AfterSync(job[t].op)]
    <3>1. CASE SyncOrgMapping(t)
      BY <3>1 DEF SyncOrgMapping
    <3>2. CASE SyncFails(t)
      <4>1. job[t].synced \in BOOLEAN /\ job[t] = [job[t] EXCEPT !.synced = job[t].synced]
        BY <1>2 DEF Jobs
      <4> QED
        BY <3>2, <4>1 DEF SyncFails, TypeOK
    <3> QED
      BY <1>8, <3>1, <3>2
  <2> DEFINE new == [job[t] EXCEPT !.synced = done, !.settings = None,
                                   !.step = AfterSync(job[t].op)]
  <2>3. /\ new \in Jobs
        /\ new.cr = job[t].cr
        /\ new.step \in {"persist", "release"}
        /\ new.op = job[t].op
    BY <1>2, <2>1 DEF Jobs, AfterSync, Steps
  <2>4. job' = [job EXCEPT ![t] = new]
    BY <2>2
  <2> HIDE DEF new
  <2>5. job' \in [Tenants -> Jobs] /\ JobsWellFormed'
    BY <1>2, <2>3, <2>4, OneJobChanges
  <2>6. Written(t) \in SSOSettings
    BY <1>2 DEF Written, SSOSettings, Jobs
  <2> QED
    BY <1>8, <2>5, <2>6 DEF SyncOrgMapping, SyncFails, TypeOK
<1>9. CASE PersistStatus(t)
  <2>1. syncStatus(job[t].cr, job[t].op) \in Objects
    BY <1>2 DEF syncStatus, isUpToDate, Objects
  <2>2. log' \in Seq(Stores) \ {<<>>}
    BY <1>9, <2>1, CommitType DEF PersistStatus, TypeOK
  <2> QED
    BY <1>9, <2>2, JobEnds DEF PersistStatus, TypeOK
<1>10. CASE RemoveFinalizer(t)
  <2>1. log' \in Seq(Stores) \ {<<>>}
    BY <1>10, CommitType DEF RemoveFinalizer, TypeOK
  <2> QED
    BY <1>10, <2>1, JobEnds DEF RemoveFinalizer, TypeOK
<1> QED
  BY <1>4, <1>5, <1>6, <1>7, <1>8, <1>9, <1>10 DEF JobStep

LEMMA NextKeepsTypes == TypeOK /\ [Next]_vars => TypeOK'
<1> SUFFICES ASSUME TypeOK, [Next]_vars PROVE TypeOK'
  OBVIOUS
<1>1. CASE Deliver
  <2>1. Tail(log) \in Seq(Stores) \ {<<>>}
    <3>1. log \in Seq(Stores) /\ log # <<>> /\ Len(log) > 1
      BY <1>1 DEF Deliver, TypeOK
    <3>2. Tail(log) \in Seq(Stores) /\ Len(Tail(log)) = Len(log) - 1
      BY <3>1, HeadTailProperties
    <3> DEFINE rest == Tail(log)
    <3> HIDE DEF rest
    <3>3. Len(rest) # 0 /\ Len(<<>>) = 0
      BY <3>1, <3>2, EmptySeq DEF rest
    <3>4. rest # <<>>
      BY <3>3
    <3> QED
      BY <3>2, <3>4 DEF rest
  <2> QED
    BY <1>1, <2>1 DEF Deliver, TypeOK, JobsWellFormed
<1>2. CASE UNCHANGED vars
  BY <1>2 DEF vars, TypeOK, JobsWellFormed
<1> QED
  BY <1>1, <1>2, EnvironmentKeepsTypes, StartingKeepsTypes, JobStepKeepsTypes DEF Next

\* Every variable keeps its type; in particular no step of a reconcile works
\* on an object that it does not have.
THEOREM TypeCorrectness == Spec => []TypeOK
BY InitTyped, NextKeepsTypes, PTL DEF Spec

-------------------------------------------------------------------------------
(* What each kind of change makes of the log *)

LEMMA LogFacts ==
    ASSUME TypeOK
    PROVE  /\ Len(log) \in Nat \ {0}
           /\ DOMAIN log = 1..Len(log)
           /\ 1 \in DOMAIN log
           /\ Len(log) \in DOMAIN log
           /\ Cached = log[1]
           /\ Stored = log[Len(log)]
<1>1. log \in Seq(Stores) /\ log # <<>>
  BY DEF TypeOK
<1>2. Len(log) \in Nat \ {0} /\ DOMAIN log = 1..Len(log)
  BY <1>1, EmptySeq, LenProperties
<1> QED
  BY <1>2 DEF Cached, Stored

LEMMA WriteFacts ==
    ASSUME TypeOK, NEW t \in Tenants, NEW object \in Objects \cup {None},
           log' = Append(log, [Stored EXCEPT ![t] = object])
    PROVE  /\ DOMAIN log' = 1..(Len(log) + 1)
           /\ Len(log') = Len(log) + 1
           /\ \A i \in DOMAIN log : log'[i] = log[i]
           /\ \A i \in DOMAIN log' : i \in DOMAIN log \/ i = Len(log')
           /\ log'[Len(log')] = [Stored EXCEPT ![t] = object]
           /\ Stored' = [Stored EXCEPT ![t] = object]
           /\ Stored'[t] = object
           /\ \A u \in Tenants \ {t} : Stored'[u] = Stored[u]
<1> DEFINE new == [Stored EXCEPT ![t] = object]
<1>1. log \in Seq(Stores) /\ log # <<>>
  BY DEF TypeOK
<1>2. new \in Stores /\ new[t] = object /\ \A u \in Tenants \ {t} : new[u] = Stored[u]
  BY StoresInLog DEF Stores
<1>3. log' = Append(log, new)
  OBVIOUS
<1>4. Stored' = log'[Len(log')]
  BY DEF Stored
<1> HIDE DEF new
<1>5. /\ log' \in Seq(Stores)
      /\ Len(log') = Len(log) + 1
      /\ \A i \in 1..Len(log) : log'[i] = log[i]
      /\ log'[Len(log) + 1] = new
  BY <1>1, <1>2, <1>3, AppendProperties
<1>6. DOMAIN log' = 1..(Len(log) + 1)
  BY <1>5, LenProperties
<1> QED
  BY <1>2, <1>4, <1>5, <1>6, LogFacts DEF new

LEMMA DeliverFacts ==
    ASSUME TypeOK, Deliver
    PROVE  /\ \A i \in DOMAIN log' : i + 1 \in DOMAIN log /\ log'[i] = log[i + 1]
           /\ DOMAIN log' \subseteq Nat
           /\ Stored' = Stored
<1>1. log \in Seq(Stores) /\ log # <<>> /\ Len(log) > 1 /\ log' = Tail(log)
  BY DEF Deliver, TypeOK
<1>2. /\ log' \in Seq(Stores)
      /\ Len(log') = Len(log) - 1
      /\ \A i \in 1..Len(log') : log'[i] = log[i + 1]
  BY <1>1, HeadTailProperties
<1>3. DOMAIN log' = 1..Len(log')
  BY <1>2, LenProperties
<1> QED
  BY <1>1, <1>2, <1>3, LogFacts DEF Stored

LEMMA RestartFacts ==
    ASSUME TypeOK, log' = <<Stored>>
    PROVE  DOMAIN log' = {1} /\ log'[1] = Stored /\ Stored' = Stored
BY StoresInLog DEF Stored

\* Nothing is seen of a Tenant before its UID is given out.
SeenAreBorn ==
    \A t \in Tenants :
        job[t].step # "idle" \/ (\E i \in DOMAIN log : log[i][t] # None) => t \in born
===============================================================================
