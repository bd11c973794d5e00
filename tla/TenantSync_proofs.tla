--------------------------- MODULE TenantSync_proofs ---------------------------
(***************************************************************************)
(* The settings of Grafana other than the mapping: the action property     *)
(* SettingsPreserved of TenantController, for every number of workers and  *)
(* whichever calls of Grafana fail.                                        *)
(***************************************************************************)
EXTENDS TenantController_proofs

\* What a reconcile is going to send back is what Grafana still has.
Faithful(j) == j.step = "put" => j.settings = sso.settings

SettingsInv == TypeOK /\ \A t \in Tenants : Faithful(job[t])

\* What every step keeps.
SettingsStay == (\A t \in Tenants : Faithful(job'[t])) /\ sso'.settings = sso.settings

\* A step that leaves the settings alone does not get to the PUT.
LEMMA NoPutStep ==
    ASSUME SettingsInv, NEW t \in Tenants, NEW new, job' = [job EXCEPT ![t] = new],
           new.step # "put", sso'.settings = sso.settings
    PROVE  SettingsStay
BY DEF SettingsInv, SettingsStay, Faithful, TypeOK

LEMMA JobStepKeepsSettings ==
    ASSUME SettingsInv, NEW t \in Tenants,
           Starting(t) \/ JobStep(t) \/ ResponseLost(t)
    PROVE  SettingsStay
<1>1. TypeOK /\ job[t] \in Jobs /\ (job[t].step = "put" => job[t].settings = sso.settings)
  BY DEF SettingsInv, TypeOK, Faithful
<1>2. /\ Idle.step # "put"
      /\ \A cr : FirstStep(cr) # "put"
  BY DEF Idle, FirstStep
<1>3. ASSUME NEW step, step # "put", job' = [job EXCEPT ![t].step = step],
             sso'.settings = sso.settings
      PROVE  SettingsStay
  <2> DEFINE new == [job[t] EXCEPT !.step = step]
  <2>1. new.step = step /\ job' = [job EXCEPT ![t] = new]
    BY <1>1, <1>3 DEF Jobs
  <2> HIDE DEF new
  <2> QED
    BY <1>3, <2>1, NoPutStep
<1>4. CASE Starting(t)
  <2>1. PICK cr \in Objects : job' = [job EXCEPT ![t] = Observe(cr)]
    <3>1. Cached[t] \in Objects
      BY <1>1, <1>4, StoresInLog DEF Starting, Reconcile, InitializeName, Starts, Stores
    <3>2. [Cached[t] EXCEPT !.named = TRUE] \in Objects
      BY <3>1 DEF Objects
    <3> QED
      BY <1>4, <3>1, <3>2 DEF Starting, Reconcile, InitializeName
  <2>2. Observe(cr).step # "put"
    BY ObserveType
  <2> QED
    BY <1>4, <2>1, <2>2, NoPutStep DEF Starting, Reconcile, InitializeName, Starts
<1>5. ASSUME NEW object, NEW step, step # "put", Update(t, object, step)
      PROVE  SettingsStay
  <2>1. CASE job' = [job EXCEPT ![t] = Idle]
    BY <1>2, <1>5, <2>1, NoPutStep DEF Update
  <2>2. CASE job' = [job EXCEPT ![t].cr = object, ![t].step = step]
    <3> DEFINE new == [job[t] EXCEPT !.cr = object, !.step = step]
    <3>1. new.step = step /\ job' = [job EXCEPT ![t] = new]
      BY <1>1, <2>2 DEF Jobs
    <3> HIDE DEF new
    <3> QED
      BY <1>5, <3>1, NoPutStep DEF Update
  <2> QED
    BY <1>5, <2>1, <2>2 DEF Update
<1>6. CASE AddFinalizer(t)
  BY <1>5, <1>6 DEF AddFinalizer
<1>8. CASE CheckDrift(t)
  <2>1. CASE Goto(t, "persist")
    BY <1>3, <1>8, <2>1 DEF CheckDrift, Goto
  <2>2. CASE job' = [job EXCEPT ![t].op = "update", ![t].step = FirstStep(job[t].cr)]
    <3> DEFINE step == FirstStep(job[t].cr)
               new == [job[t] EXCEPT !.op = "update", !.step = step]
    <3>1. step # "put" /\ job' = [job EXCEPT ![t] = new]
      BY <1>2, <2>2
    <3> HIDE DEF step
    <3>2. new.step = step
      BY <1>1 DEF Jobs
    <3> HIDE DEF new
    <3> QED
      BY <1>8, <3>1, <3>2, NoPutStep DEF CheckDrift
  <2> QED
    BY <1>8, <2>1, <2>2 DEF CheckDrift
<1>9. CASE ListTenants(t)
  <2>1. PICK want : job' = [job EXCEPT ![t].want = want, ![t].step = "get"]
    BY <1>9 DEF ListTenants
  <2> DEFINE new == [job[t] EXCEPT !.want = want, !.step = "get"]
  <2>2. new.step = "get" /\ job' = [job EXCEPT ![t] = new]
    BY <1>1, <2>1 DEF Jobs
  <2> HIDE DEF new
  <2> QED
    BY <1>9, <2>2, NoPutStep DEF ListTenants
<1>10. CASE getOrInitSettings(t)
  <2> DEFINE new == [job[t] EXCEPT !.settings = sso.settings, !.step = "put"]
  <2>1. new.settings = sso.settings
    BY <1>1 DEF Jobs
  <2>2. job' = [job EXCEPT ![t] = new] /\ sso' = sso
    BY <1>10 DEF getOrInitSettings
  <2> HIDE DEF new
  <2> QED
    BY <2>1, <2>2 DEF SettingsStay, Faithful, SettingsInv, TypeOK
\* A PUT puts back what the GET of this reconcile found.
<1>11. ASSUME NEW done \in BOOLEAN, job[t].step \in {"get", "put"},
              job' = [job EXCEPT ![t] = [job[t] EXCEPT !.synced = done, !.settings = None,
                                                       !.step = AfterSync(job[t].op)]],
              sso' = sso \/ (job[t].step = "put" /\ sso' = Written(t))
       PROVE  SettingsStay
  <2> DEFINE new == [job[t] EXCEPT !.synced = done, !.settings = None,
                                   !.step = AfterSync(job[t].op)]
  <2>1. job[t].op \in {"update", "delete"}
    BY <1>1, <1>11 DEF Jobs, SettingsInv, TypeOK, JobsWellFormed
  <2>2. AfterSync(job[t].op) # "put"
    BY <2>1 DEF AfterSync
  <2>3. new.step # "put" /\ job' = [job EXCEPT ![t] = new]
    BY <1>1, <1>11, <2>2 DEF Jobs
  <2>4. sso'.settings = sso.settings
    BY <1>1, <1>11 DEF Written
  <2> HIDE DEF new
  <2> QED
    BY <2>3, <2>4, NoPutStep
<1>12. job[t].synced \in BOOLEAN /\ job[t] = [job[t] EXCEPT !.synced = job[t].synced]
       /\ job \in [Tenants -> Jobs]
  BY <1>1 DEF Jobs, TypeOK
<1>13. CASE SyncOrgMapping(t)
  BY <1>11, <1>12, <1>13 DEF SyncOrgMapping, At
<1>14. CASE SyncFails(t) \/ ResponseLost(t)
  BY <1>11, <1>12, <1>14 DEF SyncFails, ResponseLost
<1>15. CASE PersistStatus(t) \/ RemoveFinalizer(t)
  BY <1>2, <1>15, NoPutStep DEF PersistStatus, RemoveFinalizer
<1> QED
  BY <1>4, <1>6, <1>8, <1>9, <1>10, <1>13, <1>14, <1>15 DEF JobStep

LEMMA NextSettings ==
    ASSUME "settings" \notin Events, SettingsInv, [Next]_vars
    PROVE  SettingsInv' /\ (job' # job => sso'.settings = sso.settings)
<1>1. TypeOK' /\ TypeOK
  BY NextKeepsTypes DEF SettingsInv
<1>2. SettingsStay
  <2>1. CASE job' = job /\ sso'.settings = sso.settings
    BY <2>1 DEF SettingsInv, SettingsStay, Faithful
  <2>2. ASSUME NEW t \in Tenants, Starting(t) \/ JobStep(t) \/ ResponseLost(t)
        PROVE  SettingsStay
    BY <2>2, JobStepKeepsSettings
  <2>3. CASE Restart
    BY <2>3 DEF Restart, Idle, SettingsStay, Faithful
  <2>4. CASE MappingDrifts
    <3>1. sso'.settings = sso.settings
      BY <1>1, <2>4 DEF MappingDrifts, TypeOK, SSOSettings
    <3> QED
      BY <2>1, <2>4, <3>1 DEF MappingDrifts
  <2>5. CASE \/ \E t \in Tenants, s \in Specs : CreateTenant(t, s) \/ EditTenant(t, s)
             \/ \E t \in Tenants : DeleteTenant(t)
             \/ GrafanaFails \/ GrafanaRecovers \/ Deliver \/ UNCHANGED vars
    BY <2>1, <2>5
    DEF CreateTenant, EditTenant, DeleteTenant, UserActs, GrafanaFails, GrafanaRecovers,
        Deliver, vars
  <2> QED
    BY <2>2, <2>3, <2>4, <2>5 DEF Next, Environment, AdminConfigures
<1> QED
  BY <1>1, <1>2 DEF SettingsInv, SettingsStay, Faithful

\* While nobody else changes them, no number of overlapping reconciles, lost
\* answers and restarts changes a key of the settings that is not the mapping.
THEOREM OtherSettingsAreKept ==
    ASSUME "settings" \notin Events
    PROVE  Spec => SettingsPreserved
<1>1. Init => SettingsInv
  BY InitTyped DEF Init, Idle, SettingsInv, Faithful
<1>2. SettingsInv /\ [Next]_vars => SettingsInv' /\ (job' # job => sso'.settings = sso.settings)
  BY NextSettings
<1> QED
  BY <1>1, <1>2, PTL DEF Spec, SettingsPreserved
===============================================================================
