------------------------ MODULE InferenceServiceWrites ------------------------
(***************************************************************************)
(* WritesBounded: the InferenceService controller does not feed itself.    *)
(* Each status it stores comes back to its work queue, and no count in the *)
(* state says how many more statuses a Reconcile may find to store; so the *)
(* proof keeps an account.  Every outside event and every version of a Job *)
(* pays two writes into it; what is drawn is the versions stored so far    *)
(* and, in the worst case, the writes still to come although nothing more  *)
(* happens:                                                                *)
(*                                                                         *)
(*  - one verdict for each version of a Model or of the Tenant that the    *)
(*    watch has not brought yet, one when the stored status is not what    *)
(*    updateStatus makes of the copies in hand, and one more when those    *)
(*    copies are behind the caches;                                        *)
(*  - for updateWorkloadCondition, two for each existing Job that is not   *)
(*    in the cache yet (False while Create is refused, True when the Job   *)
(*    is seen), one while WorkloadReady is not True, and two while the     *)
(*    worker is about to write False.                                      *)
(*                                                                         *)
(* What the watch has not brought is counted as one set of pairs, so       *)
(* nothing is assumed of the number of Models.                             *)
(***************************************************************************)
EXTENDS InferenceServiceRefinement

-----------------------------------------------------------------------------
(* The account.                                                            *)

Object(s) == isvc[s].cur.obj

\* The status of o is what updateStatus makes of o, Model m and Tenant t.
\* WorkloadReady is not its business.
Reports(o, m, t) ==
    LET c   == o.status.conditions
        mOk == m # None /\ m.ready
        tOk == t # None
        pOk == ~ResolveFails(o.spec.resourceProfile)
        ok  == mOk /\ tOk /\ pOk
    IN  /\ c["ModelReady"] = IF mOk THEN "True" ELSE "False"
        /\ c["TenantResolved"] = IF tOk THEN "True" ELSE "False"
        /\ c["ResourceProfileResolved"] = IF pOk THEN "True" ELSE "False"
        /\ c["CapacityAvailable"] = "True"
        /\ c["Accepted"] = "True"
        /\ c["Ready"] = IF ok THEN "True" ELSE "False"
        /\ o.status.phase = IF ok THEN "Ready" ELSE "Pending"
        /\ o.status.observedGeneration = o.gen
        /\ o.status.derivedPriority =
              IF tOk THEN Calculate(t.priority, o.spec.workloadClass, o.spec.priority)
                     ELSE 0

\* The worker is at s with the version the API server stores: only then is
\* a status it sends taken.
Active(s) ==
    /\ worker.pc # "idle"
    /\ worker.key = s
    /\ worker.isvc.rv = isvc[s].cur.rv

\* The Model and the Tenant the next verdict on s is based on.
CachedModel(s) == model[Object(s).spec.model].cache.obj

HeldModel(s) ==
    IF Active(s) /\ worker.pc \in {"tenant", "status"}
    THEN worker.model ELSE CachedModel(s)

HeldTenant(s) ==
    IF Active(s) /\ worker.pc = "status" THEN worker.tenant ELSE tenant.cache.obj

\* The stored status is not the verdict on the copies in hand.
Unsaid(s) ==
    IF Object(s) # None /\ ~Reports(Object(s), HeldModel(s), HeldTenant(s))
    THEN 1 ELSE 0

\* The copies in hand are not the cached ones any more.
Outdated(s) ==
    IF /\ Object(s) # None
       /\ HeldModel(s) # CachedModel(s) \/ HeldTenant(s) # tenant.cache.obj
    THEN 1 ELSE 0

\* What the watch has not brought.
UnseenModels == UNION {{m} \X model[m].watch : m \in Models}

Unseen == Cardinality(UnseenModels) + Cardinality(tenant.watch)

UnseenJobs(s) == {v \in job[s].watch : v.obj # None}

WorkloadReady(s) ==
    IF Object(s) = None THEN "Absent"
    ELSE Object(s).status.conditions["WorkloadReady"]

\* Create will be refused: the Job exists and the cache does not show it.
Behind(s) == job[s].cur.obj # None /\ job[s].cache.obj = None

\* The worker is about to set WorkloadReady to True, or to False.
Succeeding(s) == Active(s) /\ worker.pc = "workload" /\ ~worker.jobErr

Failing(s) ==
    /\ Active(s)
    /\ \/ worker.pc = "workload" /\ worker.jobErr
       \/ worker.pc = "create" /\ job[s].cur.obj # None

\* Of the two writes for an unseen Job, those that WorkloadReady = c spares.
Spared(c) == IF c = "False" THEN 2 ELSE IF c = "True" THEN 0 ELSE 1

Verdicts(s) == Unsaid(s) + Outdated(s)

WorkloadWrites(s) ==
    2 * Cardinality(UnseenJobs(s))
        + (IF WorkloadReady(s) = "True" THEN 0 ELSE 1)
        - (IF Behind(s) /\ ~Succeeding(s) THEN Spared(WorkloadReady(s)) ELSE 0)
        + (IF Failing(s) /\ ~Behind(s) THEN 2 - Spared(WorkloadReady(s)) ELSE 0)

\* A change of a Model needs one verdict only, which leaves one write of the
\* first such event for the first Job.
Credit(s) == 2 * (Events + job[s].cur.rv) - Spent("model") + 1

Covered(s) ==
    isvc[s].cur.rv + Unseen + Verdicts(s) + WorkloadWrites(s) <= Credit(s)

Account == \A s \in Services : Covered(s)

WatchesFinite ==
    /\ IsFiniteSet(UnseenModels)
    /\ IsFiniteSet(tenant.watch)
    /\ \A s \in Services : IsFiniteSet(job[s].watch)

\* The stored version is in the cache or on its way there.
Followed(r) ==
    /\ r.cur = r.cache \/ r.cur \in r.watch
    /\ \A v \in r.watch : v.rv > r.cache.rv

JobsFollowed ==
    \A s \in Services :
        /\ Coherent(job[s])
        /\ Followed(job[s])
        /\ job[s].cur.rv = 0 => job[s].cur.obj = None

\* There is no WorkloadReady without a Job, no Job without a ready Model and
\* no ready Model without an event.
JobsPaid ==
    /\ Spent("model") >= IF verified = {} THEN 0 ELSE 1
    /\ worker.pc = "workload" /\ ~worker.jobErr => job[worker.key].cur.rv > 0
    /\ \A s \in Services :
        /\ job[s].cur.rv > 0 => verified # {}
        /\ WorkloadReady(s) = "True" => job[s].cur.rv > 0

AccountInv == WatchesFinite /\ JobsFollowed /\ JobsPaid /\ Account

-----------------------------------------------------------------------------
\* What the account is made of are numbers.
LEMMA AccountType ==
    ASSUME TypeOK, WatchesFinite, NEW s \in Services
    PROVE  /\ isvc[s].cur.rv \in Nat
           /\ job[s].cur.rv \in Nat
           /\ Unseen \in Nat
           /\ Verdicts(s) \in 0 .. 2
           /\ Cardinality(UnseenJobs(s)) \in Nat
           /\ WorkloadWrites(s) \in Int
           /\ Events \in Int /\ Spent("model") \in Int
           /\ Credit(s) \in Int
<1>1. isvc[s].cur.rv \in Nat /\ job[s].cur.rv \in Nat
  BY VersionsType DEF TypeOK, Version
<1>2. Unseen \in Nat
  BY FS_CardinalityType DEF WatchesFinite, Unseen
<1>3. Verdicts(s) \in 0 .. 2
  BY DEF Verdicts, Unsaid, Outdated
<1>4. Cardinality(UnseenJobs(s)) \in Nat
  BY NoMore DEF WatchesFinite, UnseenJobs
<1>5. \A c : Spared(c) \in 0 .. 2
  BY DEF Spared
<1>6. WorkloadWrites(s) \in Int
  BY <1>4, <1>5 DEF WorkloadWrites
<1>7. \A k \in Kinds : Spent(k) \in Int
  <2>1. budget \in [Kinds -> Nat] /\ Budget \in [Kinds -> Nat]
    BY ConstantsAssumption DEF TypeOK
  <2>2. \A k \in Kinds : budget[k] \in Nat /\ Budget[k] \in Nat
    BY <2>1
  <2> QED
    BY <2>2 DEF Spent
<1>8. Events \in Int /\ Spent("model") \in Int
  BY <1>7 DEF Events, Kinds
<1> QED
  BY <1>1, <1>2, <1>3, <1>4, <1>6, <1>8 DEF Credit

\* An event pays two writes; one for a Model, none for a collected Job, which
\* is paid with the version of the Job, nor for a list that fails, which wakes
\* nobody.
LEMMA EventPays ==
    ASSUME TypeOK, NEW k \in Kinds, Spend(k)
    PROVE  /\ Events' = IF k \in {"collect", "list"} THEN Events ELSE Events + 1
           /\ Spent("model")' = IF k = "model" THEN Spent("model") + 1
                                               ELSE Spent("model")
<1>1. /\ budget \in [Kinds -> Nat]
      /\ Budget \in [Kinds -> Nat]
      /\ budget' = [budget EXCEPT ![k] = @ - 1]
  BY ConstantsAssumption DEF TypeOK, Spend
<1>2. \A i \in Kinds : /\ Spent(i) \in Int
                       /\ Spent(i)' = IF i = k THEN Spent(i) + 1 ELSE Spent(i)
  <2> SUFFICES ASSUME NEW i \in Kinds
               PROVE  /\ Spent(i) \in Int
                      /\ Spent(i)' = IF i = k THEN Spent(i) + 1 ELSE Spent(i)
    OBVIOUS
  <2>1. /\ budget[i] \in Nat /\ Budget[i] \in Nat
        /\ budget'[i] = IF i = k THEN budget[i] - 1 ELSE budget[i]
    BY <1>1
  <2> QED
    BY <2>1 DEF Spent
<1> HIDE DEF Spent
<1> QED
  BY <1>2 DEF Events, Kinds

-----------------------------------------------------------------------------
(* What the watches have not brought.                                      *)

\* Without a change of Models and Tenant.
LEMMA UnseenKept ==
    ASSUME WatchesFinite, UNCHANGED <<model, tenant>>
    PROVE  /\ IsFiniteSet(UnseenModels)' /\ IsFiniteSet(tenant.watch)'
           /\ Unseen' = Unseen
BY DEF WatchesFinite, UnseenModels, Unseen

\* Both parts of Unseen shrink or grow by at most n in all.
LEMMA UnseenSum ==
    ASSUME WatchesFinite, IsFiniteSet(UnseenModels)', IsFiniteSet(tenant.watch)'
    PROVE  /\ Cardinality(UnseenModels) \in Nat
           /\ Cardinality(tenant.watch) \in Nat
           /\ Cardinality(UnseenModels)' \in Nat
           /\ Cardinality(tenant.watch)' \in Nat
           /\ Unseen = Cardinality(UnseenModels) + Cardinality(tenant.watch)
           /\ Unseen' = Cardinality(UnseenModels)' + Cardinality(tenant.watch)'
           /\ Unseen \in Nat /\ Unseen' \in Nat
BY FS_CardinalityType DEF WatchesFinite, Unseen

\* A write of a Model is one more.
LEMMA UnseenModelWritten ==
    ASSUME TypeOK, WatchesFinite, NEW m \in Models, NEW o,
           model' = [model EXCEPT ![m] = Put(@, o)], tenant' = tenant
    PROVE  /\ IsFiniteSet(UnseenModels)' /\ IsFiniteSet(tenant.watch)'
           /\ Unseen' \in Nat /\ Unseen' <= Unseen + 1
<1> DEFINE v == [rv |-> model[m].cur.rv + 1, obj |-> o]
<1>1. \A n \in Models : \A u \in model'[n].watch :
         u \in model[n].watch \/ (n = m /\ u = v)
  <2>1. model'[m].watch = model[m].watch \cup {v}
    BY DEF TypeOK, Put
  <2>2. \A n \in Models : n # m => model'[n] = model[n]
    BY DEF TypeOK
  <2> QED
    BY <2>1, <2>2, Zenon
<1>2. UnseenModels' \subseteq UnseenModels \cup {<<m, v>>}
  <2> SUFFICES ASSUME NEW n \in Models, NEW u \in model'[n].watch
               PROVE  <<n, u>> \in UnseenModels \cup {<<m, v>>}
    BY DEF UnseenModels
  <2> HIDE DEF v
  <2>1. u \in model[n].watch \/ (n = m /\ u = v)
    BY <1>1
  <2> QED
    BY <2>1 DEF UnseenModels
<1>3. /\ IsFiniteSet(UnseenModels)'
      /\ Cardinality(UnseenModels)' <= Cardinality(UnseenModels) + 1
  BY <1>2, OneMore DEF WatchesFinite
<1>4. IsFiniteSet(tenant.watch)' /\ tenant'.watch = tenant.watch
  BY DEF WatchesFinite
<1> QED
  BY <1>3, <1>4, UnseenSum

\* A delivery of a Model is one less.
LEMMA UnseenModelDelivered ==
    ASSUME TypeOK, WatchesFinite, NEW m \in Models, NEW v \in model[m].watch,
           model' = [model EXCEPT ![m] = Deliver(@, v)], tenant' = tenant
    PROVE  /\ IsFiniteSet(UnseenModels)' /\ IsFiniteSet(tenant.watch)'
           /\ Unseen' \in Nat /\ Unseen' + 1 <= Unseen
<1>0. v.rv \in Nat
  <2>1. model[m] \in Replica(Model)
    BY DEF TypeOK
  <2> QED
    BY <2>1 DEF Replica, Version
<1>1. /\ \A n \in Models : model'[n].watch \subseteq model[n].watch
      /\ v \notin model'[m].watch
  <2>1. model'[m].watch = {w \in model[m].watch : w.rv > v.rv}
    BY DEF TypeOK, Deliver
  <2>2. \A n \in Models : n # m => model'[n] = model[n]
    BY DEF TypeOK
  <2>3. v \notin model'[m].watch
    BY <1>0, <2>1
  <2> QED
    BY <2>1, <2>2, <2>3, Zenon
<1>2. <<m, v>> \in UnseenModels
  BY DEF UnseenModels
<1>3. UnseenModels' \subseteq UnseenModels \ {<<m, v>>}
  BY <1>1 DEF UnseenModels
<1>4. /\ IsFiniteSet(UnseenModels)'
      /\ Cardinality(UnseenModels)' + 1 <= Cardinality(UnseenModels)
  BY <1>2, <1>3, OneLess DEF WatchesFinite
<1>5. IsFiniteSet(tenant.watch)' /\ tenant'.watch = tenant.watch
  BY DEF WatchesFinite
<1> QED
  BY <1>4, <1>5, UnseenSum

\* The same of the Tenant: a write,
LEMMA UnseenTenantWritten ==
    ASSUME TypeOK, WatchesFinite, NEW o, tenant' = Put(tenant, o), model' = model
    PROVE  /\ IsFiniteSet(UnseenModels)' /\ IsFiniteSet(tenant.watch)'
           /\ Unseen' \in Nat /\ Unseen' <= Unseen + 1
<1>1. tenant'.watch = tenant.watch \cup {[rv |-> tenant.cur.rv + 1, obj |-> o]}
  BY DEF Put
<1>2. /\ IsFiniteSet(tenant.watch)'
      /\ Cardinality(tenant.watch)' <= Cardinality(tenant.watch) + 1
  BY <1>1, OneMore DEF WatchesFinite
<1>3. IsFiniteSet(UnseenModels)' /\ UnseenModels' = UnseenModels
  BY DEF WatchesFinite, UnseenModels
<1> QED
  BY <1>2, <1>3, UnseenSum

\* and a delivery.
LEMMA UnseenTenantDelivered ==
    ASSUME TypeOK, WatchesFinite, NEW v \in tenant.watch,
           tenant' = Deliver(tenant, v), model' = model
    PROVE  /\ IsFiniteSet(UnseenModels)' /\ IsFiniteSet(tenant.watch)'
           /\ Unseen' \in Nat /\ Unseen' + 1 <= Unseen
<1>0. v.rv \in Nat
  BY DEF TypeOK, Replica, Version
<1>1. tenant'.watch \subseteq tenant.watch \ {v}
  BY <1>0 DEF Deliver
<1>2. /\ IsFiniteSet(tenant.watch)'
      /\ Cardinality(tenant.watch)' + 1 <= Cardinality(tenant.watch)
  BY <1>1, OneLess DEF WatchesFinite
<1>3. IsFiniteSet(UnseenModels)' /\ UnseenModels' = UnseenModels
  BY DEF WatchesFinite, UnseenModels
<1> QED
  BY <1>2, <1>3, UnseenSum

-----------------------------------------------------------------------------
(* What the two status writes do to the status.                            *)

\* Conditions are equal when each of them is, and so are statuses.
LEMMA SameConditions ==
    ASSUME NEW c \in [ServiceConditions -> ConditionStatus],
           NEW d \in [ServiceConditions -> ConditionStatus],
           \A t \in ServiceConditions : c[t] = d[t]
    PROVE  c = d
OBVIOUS

LEMMA SameStatus ==
    ASSUME NEW a \in InferenceServiceStatus, NEW b \in InferenceServiceStatus,
           a.conditions = b.conditions, a.phase = b.phase,
           a.observedGeneration = b.observedGeneration,
           a.derivedPriority = b.derivedPriority
    PROVE  a = b
<1>1. a = [conditions |-> a.conditions, phase |-> a.phase,
           observedGeneration |-> a.observedGeneration,
           derivedPriority |-> a.derivedPriority]
  BY DEF InferenceServiceStatus
<1>2. b = [conditions |-> b.conditions, phase |-> b.phase,
           observedGeneration |-> b.observedGeneration,
           derivedPriority |-> b.derivedPriority]
  BY DEF InferenceServiceStatus
<1>3. a = [conditions |-> b.conditions, phase |-> b.phase,
           observedGeneration |-> b.observedGeneration,
           derivedPriority |-> b.derivedPriority]
  BY <1>1
<1> QED
  BY <1>2, <1>3

\* A status that updateStatus finds unchanged is one that reports, and what
\* it writes otherwise reports.
LEMMA NewStatusReports ==
    ASSUME TypeOK, worker.pc # "idle"
    PROVE  LET o == worker.isvc.obj
           IN  /\ Reports(o, worker.model, worker.tenant) => newStatus = o.status
               /\ Reports([o EXCEPT !.status = newStatus], worker.model, worker.tenant)
<1> DEFINE o == worker.isvc.obj
           p == [o EXCEPT !.status = newStatus]
           c == newConditions
<1>1. /\ o \in InferenceService
      /\ o.status \in InferenceServiceStatus
      /\ o.status.conditions \in [ServiceConditions -> ConditionStatus]
  BY WorkerBusy DEF InferenceService, InferenceServiceStatus
<1>2. capacityErr = FALSE
  BY DEF capacityErr, Check
<1>3. /\ c \in [ServiceConditions -> ConditionStatus]
      /\ c["ModelReady"] = IF modelErr THEN "False" ELSE "True"
      /\ c["TenantResolved"] = IF tenantErr THEN "False" ELSE "True"
      /\ c["ResourceProfileResolved"] = IF profileErr THEN "False" ELSE "True"
      /\ c["CapacityAvailable"] = "True"
      /\ c["Ready"] = IF anyErr THEN "False" ELSE "True"
      /\ c["WorkloadReady"] = o.status.conditions["WorkloadReady"]
  BY <1>1, <1>2, NewConditionsAre, NewStatusType DEF newStatus, InferenceServiceStatus
<1>4. c["Accepted"] = "True"
  BY <1>1 DEF newConditions, SetCond, ServiceConditions
<1>5. anyErr <=> modelErr \/ tenantErr \/ profileErr
  BY <1>2 DEF anyErr
<1>6. /\ newStatus \in InferenceServiceStatus
      /\ newStatus.conditions = c
      /\ newStatus.phase = IF anyErr THEN "Pending" ELSE "Ready"
      /\ newStatus.observedGeneration = o.gen
      /\ newStatus.derivedPriority = derivedPriority
  BY NewStatusType DEF newStatus
<1>7. /\ p.status = newStatus /\ p.gen = o.gen /\ p.spec = o.spec
  BY <1>1 DEF InferenceService
<1> HIDE DEF c, p
<1>8. Reports(p, worker.model, worker.tenant)
  <2> HIDE DEF o
  <2> QED
    BY <1>3, <1>4, <1>5, <1>6, <1>7
       DEF Reports, modelErr, tenantErr, profileErr, derivedPriority, o
<1>9. ASSUME Reports(o, worker.model, worker.tenant)
      PROVE  newStatus = o.status
  <2>1. \A t \in ServiceConditions : c[t] = o.status.conditions[t]
    BY <1>3, <1>4, <1>5, <1>9
       DEF Reports, modelErr, tenantErr, profileErr, ServiceConditions
  <2>2. c = o.status.conditions
    <3> DEFINE old == o.status.conditions
    <3>1. old \in [ServiceConditions -> ConditionStatus]
      BY <1>1
    <3>2. \A t \in ServiceConditions : c[t] = old[t]
      BY <2>1
    <3> HIDE DEF old
    <3>3. c = old
      BY <1>3, <3>1, <3>2, SameConditions
    <3> QED
      BY <3>3 DEF old
  <2>3. /\ newStatus.phase = o.status.phase
        /\ newStatus.observedGeneration = o.status.observedGeneration
        /\ newStatus.derivedPriority = o.status.derivedPriority
    BY <1>5, <1>6, <1>9 DEF Reports, modelErr, tenantErr, profileErr, derivedPriority
  <2> QED
    BY <1>1, <1>6, <2>2, <2>3, SameStatus
<1> QED
  BY <1>8, <1>9 DEF p

\* updateWorkloadCondition writes WorkloadReady and changes no verdict.
LEMMA WorkloadStatusReports ==
    ASSUME TypeOK, worker.pc # "idle", NEW m, NEW t
    PROVE  LET o == worker.isvc.obj
               p == [o EXCEPT !.status = workloadStatus]
           IN  /\ Reports(o, m, t) <=> Reports(p, m, t)
               /\ p.status = workloadStatus /\ p.spec = o.spec
               /\ workloadStatus.conditions["WorkloadReady"] =
                     IF worker.jobErr THEN "False" ELSE "True"
               /\ workloadStatus # o.status =>
                     o.status.conditions["WorkloadReady"] #
                        workloadStatus.conditions["WorkloadReady"]
<1> DEFINE o == worker.isvc.obj
           p == [o EXCEPT !.status = workloadStatus]
           c == o.status.conditions
           d == workloadStatus.conditions
<1>1. /\ o \in InferenceService
      /\ o.status \in InferenceServiceStatus
      /\ c \in [ServiceConditions -> ConditionStatus]
  BY WorkerBusy DEF InferenceService, InferenceServiceStatus
<1>2. /\ workloadStatus.phase = o.status.phase
      /\ workloadStatus.observedGeneration = o.status.observedGeneration
      /\ workloadStatus.derivedPriority = o.status.derivedPriority
      /\ d = SetCond(c, "WorkloadReady", worker.jobErr)
  BY <1>1 DEF workloadStatus, InferenceServiceStatus
<1>3. /\ d["WorkloadReady"] = IF worker.jobErr THEN "False" ELSE "True"
      /\ \A x \in ServiceConditions \ {"WorkloadReady"} : d[x] = c[x]
      /\ d \in [ServiceConditions -> ConditionStatus]
  BY <1>1, <1>2, SetCondType DEF SetCond, ServiceConditions
<1>4. p.status = workloadStatus /\ p.gen = o.gen /\ p.spec = o.spec
  BY <1>1 DEF InferenceService
<1>5. ASSUME d["WorkloadReady"] = c["WorkloadReady"] PROVE workloadStatus = o.status
  <2>1. d = c
    <3>1. \A x \in ServiceConditions : d[x] = c[x]
      BY <1>3, <1>5
    <3> HIDE DEF c, d
    <3> QED
      BY <1>1, <1>3, <3>1, SameConditions
  <2> QED
    BY <1>1, <1>2, <2>1, WorkloadStatusType, SameStatus DEF d, c
<1> HIDE DEF p, d
<1>6. Reports(o, m, t) <=> Reports(p, m, t)
  BY <1>2, <1>3, <1>4 DEF Reports, ServiceConditions, d
<1> QED
  BY <1>3, <1>4, <1>5, <1>6 DEF p, d

-----------------------------------------------------------------------------
(* Verdicts: what a step makes of the writes updateStatus may still need.  *)

\* A verdict is unsaid or not, outdated or not.
LEMMA VerdictsRange ==
    ASSUME NEW s
    PROVE  /\ Verdicts(s) \in 0 .. 2 /\ Verdicts(s)' \in 0 .. 2
           /\ Object(s) = None => Verdicts(s) = 0
           /\ Object(s)' = None => Verdicts(s)' = 0
BY DEF Verdicts, Unsaid, Outdated

\* A stored InferenceService names a Model.
LEMMA ObjectType ==
    ASSUME TypeOK, NEW s \in Services, Object(s) # None
    PROVE  Object(s) \in InferenceService /\ Object(s).spec.model \in Models
<1>1. isvc[s].cur \in Version(InferenceService)
  BY VersionsType DEF TypeOK
<1> QED
  BY <1>1 DEF Object, Version, InferenceService, InferenceServiceSpec

SameCaches ==
    /\ \A m \in Models : model'[m].cache = model[m].cache
    /\ tenant'.cache = tenant.cache

\* Nothing changes while the service and the caches are left alone and the
\* worker stands still or is elsewhere.
LEMMA VerdictsKept ==
    ASSUME TypeOK, NEW s \in Services, isvc'[s].cur = isvc[s].cur, SameCaches,
           worker' = worker \/ (~Active(s) /\ ~Active(s)')
    PROVE  Verdicts(s)' = Verdicts(s)
<1>1. CASE Object(s) = None
  BY <1>1, VerdictsRange DEF Object
<1>2. CASE Object(s) # None
  <2>1. Object(s)' = Object(s) /\ CachedModel(s)' = CachedModel(s)
    BY <1>2, ObjectType DEF Object, CachedModel, SameCaches
  <2>2. HeldModel(s)' = HeldModel(s) /\ HeldTenant(s)' = HeldTenant(s)
    BY <2>1 DEF HeldModel, HeldTenant, Active, SameCaches
  <2> QED
    BY <2>1, <2>2 DEF Verdicts, Unsaid, Outdated, SameCaches
<1> QED
  BY <1>1, <1>2

\* The next Reconcile starts from the caches: an outdated verdict, written or
\* not, leaves at most one to write.
LEMMA VerdictsLeft ==
    ASSUME TypeOK, NEW s \in Services, isvc'[s].cur = isvc[s].cur, SameCaches,
           worker'.pc \notin {"tenant", "status"}
    PROVE  Verdicts(s)' <= Verdicts(s)
<1>1. CASE Object(s) = None
  BY <1>1, VerdictsRange DEF Object
<1>2. CASE Object(s) # None
  <2>1. Object(s)' = Object(s) /\ CachedModel(s)' = CachedModel(s)
    BY <1>2, ObjectType DEF Object, CachedModel, SameCaches
  <2>2. HeldModel(s)' = CachedModel(s) /\ HeldTenant(s)' = tenant.cache.obj
    BY <2>1 DEF HeldModel, HeldTenant, SameCaches
  <2>3. Outdated(s)' = 0
    BY <2>1, <2>2 DEF Outdated, SameCaches
  <2>4. Unsaid(s)' = IF Reports(Object(s), CachedModel(s), tenant.cache.obj)
                     THEN 0 ELSE 1
    BY <1>2, <2>1, <2>2 DEF Unsaid
  <2>5. CASE HeldModel(s) = CachedModel(s) /\ HeldTenant(s) = tenant.cache.obj
    BY <1>2, <2>3, <2>4, <2>5 DEF Verdicts, Unsaid, Outdated
  <2>6. CASE HeldModel(s) # CachedModel(s) \/ HeldTenant(s) # tenant.cache.obj
    BY <1>2, <2>3, <2>4, <2>6 DEF Verdicts, Unsaid, Outdated
  <2> QED
    BY <2>5, <2>6
<1> QED
  BY <1>1, <1>2

\* Away from the reads of a Reconcile at most one verdict is missing.
LEMMA VerdictsFresh ==
    ASSUME NEW s, ~Active(s)' \/ worker'.pc \notin {"tenant", "status"}
    PROVE  Verdicts(s)' <= 1
<1>1. HeldModel(s)' = CachedModel(s)' /\ HeldTenant(s)' = tenant'.cache.obj
  BY DEF HeldModel, HeldTenant
<1>2. Outdated(s)' = 0
  BY <1>1 DEF Outdated
<1> QED
  BY <1>2 DEF Verdicts, Unsaid

\* A version of a Model in the cache asks for one more verdict at most:
\* either the next Reconcile finds it or the one in progress has missed it.
LEMMA VerdictsModel ==
    ASSUME NEW s \in Services, isvc' = isvc, tenant' = tenant, worker' = worker
    PROVE  Verdicts(s)' <= Verdicts(s) + 1
<1>1. /\ Object(s)' = Object(s) /\ HeldTenant(s)' = HeldTenant(s)
      /\ Active(s)' = Active(s)
  BY DEF Object, HeldTenant, Active
<1>2. CASE Active(s) /\ worker.pc \in {"tenant", "status"}
  <2>1. HeldModel(s)' = HeldModel(s)
    BY <1>1, <1>2 DEF HeldModel
  <2>2. Unsaid(s)' = Unsaid(s)
    BY <1>1, <2>1 DEF Unsaid
  <2> QED
    BY <2>2 DEF Verdicts, Unsaid, Outdated
<1>3. CASE ~(Active(s) /\ worker.pc \in {"tenant", "status"})
  <2>1. HeldModel(s)' = CachedModel(s)' /\ HeldModel(s) = CachedModel(s)
    BY <1>1, <1>3 DEF HeldModel
  <2>2. Outdated(s)' = Outdated(s)
    BY <1>1, <2>1 DEF Outdated
  <2> QED
    BY <2>2 DEF Verdicts, Unsaid, Outdated
<1> QED
  BY <1>2, <1>3

\* So does a version of the Tenant.
LEMMA VerdictsTenant ==
    ASSUME NEW s \in Services, isvc' = isvc, model' = model, worker' = worker
    PROVE  Verdicts(s)' <= Verdicts(s) + 1
<1>1. /\ Object(s)' = Object(s) /\ HeldModel(s)' = HeldModel(s)
      /\ Active(s)' = Active(s) /\ CachedModel(s)' = CachedModel(s)
  BY DEF Object, HeldModel, CachedModel, Active
<1>2. CASE Active(s) /\ worker.pc = "status"
  <2>1. HeldTenant(s)' = HeldTenant(s)
    BY <1>1, <1>2 DEF HeldTenant
  <2>2. Unsaid(s)' = Unsaid(s)
    BY <1>1, <2>1 DEF Unsaid
  <2> QED
    BY <2>2 DEF Verdicts, Unsaid, Outdated
<1>3. CASE ~(Active(s) /\ worker.pc = "status")
  <2>1. HeldTenant(s)' = tenant'.cache.obj /\ HeldTenant(s) = tenant.cache.obj
    BY <1>1, <1>3 DEF HeldTenant
  <2>2. Outdated(s)' = Outdated(s)
    BY <1>1, <2>1 DEF Outdated
  <2> QED
    BY <2>2 DEF Verdicts, Unsaid, Outdated
<1> QED
  BY <1>2, <1>3

\* The worker's copy of a version that is still stored is that version.
LEMMA ActiveCopy ==
    ASSUME IInv, NEW s \in Services, Active(s)
    PROVE  /\ worker.isvc = isvc[s].cur
           /\ Object(s) = worker.isvc.obj
           /\ Object(s) \in InferenceService /\ Object(s) # None
           /\ Accepts
<1>1. worker.isvc = isvc[s].cur
  BY DEF Active, IInv, WorkerJudged, CopyCoherent
<1>2. worker.isvc.obj # None
  BY DEF Active, IInv, TypeOK
<1> QED
  BY <1>1, <1>2, WorkerBusy DEF Active, Object, Accepts, IInv

\* Reading a cache takes what the account had assumed.
LEMMA VerdictsRead ==
    ASSUME IInv, NEW s \in Services, ResolveModel \/ ResolveTenant
    PROVE  Verdicts(s)' = Verdicts(s)
<1>0. /\ UNCHANGED <<isvc, model, tenant>>
      /\ worker.pc # "idle" /\ worker'.pc # "idle"
      /\ worker'.key = worker.key /\ worker'.isvc = worker.isvc
  BY DEF ResolveModel, ResolveTenant, At, Continue, kube, IInv, TypeOK, Worker
<1>1. /\ Active(s)' = Active(s) /\ Object(s)' = Object(s)
      /\ CachedModel(s)' = CachedModel(s)
  BY <1>0 DEF Active, Object, CachedModel
<1>2. CASE ~Active(s)
  BY <1>0, <1>1, <1>2, VerdictsKept DEF IInv, SameCaches
<1>3. CASE Active(s)
  <2>1. worker.isvc.obj = Object(s)
    BY <1>3, ActiveCopy
  <2>2. HeldModel(s)' = HeldModel(s) /\ HeldTenant(s)' = HeldTenant(s)
    <3>1. CASE ResolveModel
      <4>1. /\ worker.pc = "model" /\ worker'.pc = "tenant"
            /\ worker'.model = CachedModel(s)
        BY <2>1, <3>1 DEF ResolveModel, At, Continue, CachedModel, IInv, TypeOK, Worker
      <4> QED
        BY <1>0, <1>1, <1>3, <4>1 DEF HeldModel, HeldTenant
    <3>2. CASE ResolveTenant
      <4>1. /\ worker.pc = "tenant" /\ worker'.pc = "status"
            /\ worker'.model = worker.model
            /\ worker'.tenant = tenant.cache.obj
        BY <3>2 DEF ResolveTenant, At, Continue, IInv, TypeOK, Worker
      <4> QED
        BY <1>0, <1>1, <1>3, <4>1 DEF HeldModel, HeldTenant
    <3> QED
      BY <3>1, <3>2
  <2> QED
    BY <1>0, <1>1, <2>2 DEF Verdicts, Unsaid, Outdated
<1> QED
  BY <1>2, <1>3

\* A status write of the worker: its effect on the stored object.
LEMMA StatusWritten ==
    ASSUME IInv, worker.pc # "idle", Accepts, NEW s \in Services, worker.key = s,
           NEW status \in InferenceServiceStatus, StoreStatus(status)
    PROVE  LET o == worker.isvc.obj
               p == [o EXCEPT !.status = status]
           IN  /\ Active(s) /\ Object(s) = o
               /\ o \in InferenceService /\ o # None
               /\ Object(s)' = p /\ p # None
               /\ p.spec = o.spec /\ p.status = status
               /\ isvc'[s].cur.rv = isvc[s].cur.rv + 1
               /\ \A t \in Services \ {s} : isvc'[t] = isvc[t]
<1> DEFINE o == worker.isvc.obj
           p == [o EXCEPT !.status = status]
<1>1. o \in InferenceService
  BY WorkerBusy DEF IInv
<1>2. Active(s)
  BY DEF Active, Accepts
<1>3. Object(s) = o /\ o # None
  BY <1>1, <1>2, ActiveCopy
<1>4. StoredObject(status) = p
  BY <1>3 DEF StoredObject, Object
<1>5. /\ isvc'[s].cur.obj = StoredObject(status)
      /\ isvc'[s].cur.rv = isvc[s].cur.rv + 1
      /\ \A t \in Services \ {s} : isvc'[t] = isvc[t]
  BY <1>1 DEF StoreStatus, Put, IInv, TypeOK
<1>6. p \in InferenceService /\ p.spec = o.spec /\ p.status = status
  BY <1>1 DEF InferenceService
<1>7. p # None
  BY <1>6, NoneAssumption
<1> HIDE DEF p
<1>8. Object(s)' = p
  BY <1>4, <1>5 DEF Object
<1> QED
  BY <1>1, <1>2, <1>3, <1>5, <1>6, <1>7, <1>8 DEF p

\* updateStatus pays its write with the verdict it had not stored yet.
LEMMA VerdictWritten ==
    ASSUME IInv, worker.pc = "status", Accepts, UNCHANGED <<model, tenant>>,
           NEW s \in Services, worker.key = s,
           newStatus # worker.isvc.obj.status, StoreStatus(newStatus),
           worker'.pc \notin {"tenant", "status"}
    PROVE  Verdicts(s)' + 1 <= Verdicts(s)
<1> DEFINE o == worker.isvc.obj
           p == [o EXCEPT !.status = newStatus]
<1>0. TypeOK /\ worker.pc # "idle"
  BY DEF IInv
<1>1. /\ Active(s) /\ Object(s) = o /\ o # None
      /\ Object(s)' = p /\ p # None /\ p.spec = o.spec
  BY <1>0, NewStatusType, StatusWritten
<1>2. /\ ~Reports(o, worker.model, worker.tenant)
      /\ Reports(p, worker.model, worker.tenant)
  BY <1>0, NewStatusReports
<1>3. HeldModel(s) = worker.model /\ HeldTenant(s) = worker.tenant
  BY <1>1 DEF HeldModel, HeldTenant
<1> HIDE DEF p, o
<1>4. CachedModel(s)' = CachedModel(s)
  BY <1>1 DEF CachedModel
<1>5. HeldModel(s)' = CachedModel(s) /\ HeldTenant(s)' = tenant.cache.obj
  BY <1>4 DEF HeldModel, HeldTenant
<1>6. Unsaid(s) = 1
  BY <1>1, <1>2, <1>3 DEF Unsaid
<1>7. Outdated(s)' = 0
  BY <1>4, <1>5 DEF Outdated
<1>8. Unsaid(s)' <= Outdated(s)
  <2>1. CASE worker.model = CachedModel(s) /\ worker.tenant = tenant.cache.obj
    BY <1>1, <1>2, <1>5, <2>1 DEF Unsaid, Outdated
  <2>2. CASE worker.model # CachedModel(s) \/ worker.tenant # tenant.cache.obj
    BY <1>1, <1>3, <2>2 DEF Unsaid, Outdated
  <2> QED
    BY <2>1, <2>2
<1> QED
  BY <1>6, <1>7, <1>8 DEF Verdicts, Unsaid, Outdated

\* updateWorkloadCondition leaves the verdicts alone.
LEMMA VerdictsWorkload ==
    ASSUME IInv, worker.pc = "workload", Accepts, UNCHANGED <<model, tenant>>,
           NEW s \in Services, worker.key = s,
           StoreStatus(workloadStatus), worker'.pc = "idle"
    PROVE  Verdicts(s)' <= Verdicts(s)
<1> DEFINE o == worker.isvc.obj
           p == [o EXCEPT !.status = workloadStatus]
<1>0. TypeOK /\ worker.pc # "idle"
  BY DEF IInv
<1>1. /\ Active(s) /\ Object(s) = o /\ o # None
      /\ Object(s)' = p /\ p # None /\ p.spec = o.spec
  BY <1>0, WorkloadStatusType, StatusWritten
<1>2. Reports(o, CachedModel(s), tenant.cache.obj) <=>
         Reports(p, CachedModel(s), tenant.cache.obj)
  BY <1>0, WorkloadStatusReports
<1> HIDE DEF p, o
<1>3. CachedModel(s)' = CachedModel(s)
  BY <1>1 DEF CachedModel
<1>4. /\ HeldModel(s)' = CachedModel(s) /\ HeldTenant(s)' = tenant.cache.obj
      /\ HeldModel(s) = CachedModel(s) /\ HeldTenant(s) = tenant.cache.obj
  BY <1>3 DEF HeldModel, HeldTenant
<1>5. Outdated(s)' = 0
  BY <1>3, <1>4 DEF Outdated
<1>6. Unsaid(s)' = Unsaid(s)
  BY <1>1, <1>2, <1>4 DEF Unsaid
<1> QED
  BY <1>5, <1>6 DEF Verdicts, Unsaid, Outdated

-----------------------------------------------------------------------------
(* WorkloadWrites: what a step makes of the writes that                    *)
(* updateWorkloadCondition may still need.                                 *)

\* Nothing changes while service, Job and worker are left alone.
LEMMA WorkloadsKept ==
    ASSUME NEW s, isvc'[s].cur = isvc[s].cur, job'[s] = job[s],
           worker' = worker \/ (~Active(s) /\ ~Active(s)')
    PROVE  WorkloadWrites(s)' = WorkloadWrites(s)
<1>1. /\ UnseenJobs(s)' = UnseenJobs(s) /\ WorkloadReady(s)' = WorkloadReady(s)
      /\ Behind(s)' <=> Behind(s)
  BY DEF UnseenJobs, WorkloadReady, Object, Behind
<1>2. (Succeeding(s)' <=> Succeeding(s)) /\ (Failing(s)' <=> Failing(s))
  BY DEF Succeeding, Failing, Active
<1> QED
  BY <1>1, <1>2 DEF WorkloadWrites

\* A worker that has nothing to write yet, or nothing that would be taken,
\* asks for no more than before.
LEMMA WorkloadsLeft ==
    ASSUME WatchesFinite, NEW s \in Services, job'[s] = job[s],
           WorkloadReady(s)' = WorkloadReady(s),
           ~Succeeding(s)' /\ ~Failing(s)'
    PROVE  /\ WorkloadWrites(s)' \in Int /\ WorkloadWrites(s) \in Int
           /\ WorkloadWrites(s)' <= WorkloadWrites(s)
<1>1. /\ UnseenJobs(s)' = UnseenJobs(s)
      /\ Behind(s)' <=> Behind(s)
  BY DEF UnseenJobs, Behind
<1>2. Cardinality(UnseenJobs(s)) \in Nat
  BY NoMore DEF WatchesFinite, UnseenJobs
<1>3. Spared(WorkloadReady(s)) \in 0 .. 2
  BY DEF Spared
<1> QED
  BY <1>1, <1>2, <1>3 DEF WorkloadWrites

\* An unseen Job is what keeps the cache behind.
LEMMA WorkloadsLeast ==
    ASSUME WatchesFinite, JobsFollowed, NEW s \in Services
    PROVE  /\ WorkloadWrites(s) \in Int
           /\ WorkloadWrites(s) >= IF WorkloadReady(s) = "True" THEN 0 ELSE 1
<1>1. IsFiniteSet(UnseenJobs(s)) /\ Cardinality(UnseenJobs(s)) \in Nat
  BY NoMore DEF WatchesFinite, UnseenJobs
<1>2. Behind(s) => Cardinality(UnseenJobs(s)) >= 1
  <2> SUFFICES ASSUME Behind(s) PROVE Cardinality(UnseenJobs(s)) # 0
    BY <1>1
  <2>1. job[s].cur \in UnseenJobs(s)
    BY DEF Behind, JobsFollowed, Followed, UnseenJobs
  <2> QED
    BY <1>1, <2>1, FS_EmptySet
<1>3. Spared(WorkloadReady(s)) \in 0 .. 2
  BY DEF Spared
<1> QED
  BY <1>1, <1>2, <1>3 DEF WorkloadWrites

\* A new process has the Jobs in its cache.
LEMMA WorkloadsRestarted ==
    ASSUME TypeOK, WatchesFinite, JobsFollowed, NEW s \in Services,
           job'[s] = Relist(job[s]), isvc'[s].cur = isvc[s].cur,
           worker'.pc = "idle"
    PROVE  /\ WorkloadWrites(s)' \in Int
           /\ WorkloadWrites(s)' <= WorkloadWrites(s)
<1>1. UnseenJobs(s)' = {} /\ ~Behind(s)'
  BY DEF UnseenJobs, Behind, Relist
<1>2. WorkloadReady(s)' = WorkloadReady(s)
  BY DEF WorkloadReady, Object
<1>3. ~Failing(s)'
  BY DEF Failing, Active
<1>4. WorkloadWrites(s)' = IF WorkloadReady(s) = "True" THEN 0 ELSE 1
  BY <1>1, <1>2, <1>3, FS_EmptySet DEF WorkloadWrites
<1> QED
  BY <1>4, WorkloadsLeast

\* A service that is deleted leaves its successor to write WorkloadReady.
LEMMA WorkloadsDeleted ==
    ASSUME WatchesFinite, NEW s \in Services, job'[s] = job[s],
           Object(s)' = None, ~Active(s)'
    PROVE  /\ WorkloadWrites(s)' \in Int /\ WorkloadWrites(s) \in Int
           /\ WorkloadWrites(s)' <= WorkloadWrites(s) + 1
<1>1. /\ UnseenJobs(s)' = UnseenJobs(s) /\ WorkloadReady(s)' = "Absent"
      /\ Behind(s)' <=> Behind(s)
      /\ ~Succeeding(s)' /\ ~Failing(s)'
  BY DEF UnseenJobs, WorkloadReady, Behind, Succeeding, Failing
<1>2. Cardinality(UnseenJobs(s)) \in Nat
  BY NoMore DEF WatchesFinite, UnseenJobs
<1> QED
  BY <1>1, <1>2 DEF WorkloadWrites, Spared

\* A Job that is deleted pays with its version: the worker may have met it.
LEMMA WorkloadsJobDeleted ==
    ASSUME TypeOK, WatchesFinite, NEW s \in Services,
           job' = [job EXCEPT ![s] = Put(@, None)], UNCHANGED <<isvc, worker>>
    PROVE  /\ IsFiniteSet(job[s].watch)'
           /\ WorkloadWrites(s)' \in Int /\ WorkloadWrites(s) \in Int
           /\ WorkloadWrites(s)' <= WorkloadWrites(s) + 2
<1>0. /\ job'[s].watch = job[s].watch \cup {[rv |-> job[s].cur.rv + 1, obj |-> None]}
      /\ job'[s].cur.obj = None
  BY DEF TypeOK, Put
<1>1. IsFiniteSet(job[s].watch)'
  BY <1>0, OneMore DEF WatchesFinite
<1>2. /\ UnseenJobs(s)' = UnseenJobs(s) /\ WorkloadReady(s)' = WorkloadReady(s)
      /\ ~Behind(s)'
      /\ Failing(s)' => Failing(s)
  BY <1>0 DEF UnseenJobs, WorkloadReady, Object, Behind, Failing, Active
<1>3. Cardinality(UnseenJobs(s)) \in Nat
  BY NoMore DEF WatchesFinite, UnseenJobs
<1> QED
  BY <1>1, <1>2, <1>3 DEF WorkloadWrites, Spared

\* A delivery asks for nothing new: a Job the cache shows is one unseen Job
\* less, and the two writes for it are those a failing worker needs.
LEMMA WorkloadsDelivered ==
    ASSUME TypeOK, WatchesFinite, NEW s \in Services, NEW v \in job[s].watch,
           job' = [job EXCEPT ![s] = Deliver(@, v)], UNCHANGED <<isvc, worker>>
    PROVE  /\ IsFiniteSet(job[s].watch)'
           /\ WorkloadWrites(s)' \in Int /\ WorkloadWrites(s) \in Int
           /\ WorkloadWrites(s)' <= WorkloadWrites(s)
<1>0. /\ job'[s].watch = {w \in job[s].watch : w.rv > v.rv}
      /\ job'[s].cur = job[s].cur /\ job'[s].cache = v
      /\ v.rv \in Nat
  <2>1. job[s] \in Replica(Job)
    BY DEF TypeOK
  <2>2. job'[s] = Deliver(job[s], v)
    BY DEF TypeOK
  <2> QED
    BY <2>1, <2>2 DEF Deliver, Replica, Version
<1>1. IsFiniteSet(job[s].watch)'
  BY <1>0, NoMore DEF WatchesFinite
<1>2. IsFiniteSet(UnseenJobs(s)) /\ Cardinality(UnseenJobs(s)) \in Nat
  BY NoMore DEF WatchesFinite, UnseenJobs
<1>3. /\ WorkloadReady(s)' = WorkloadReady(s)
      /\ Behind(s) <=> job[s].cur.obj # None /\ job[s].cache.obj = None
      /\ Behind(s)' <=> job[s].cur.obj # None /\ v.obj = None
      /\ Failing(s)' <=> Failing(s)
      /\ Succeeding(s)' <=> Succeeding(s)
  BY <1>0 DEF WorkloadReady, Object, Behind, Failing, Succeeding, Active
<1>4. UnseenJobs(s)' \subseteq UnseenJobs(s)
  BY <1>0 DEF UnseenJobs
<1>5. /\ Cardinality(UnseenJobs(s))' \in Nat
      /\ Cardinality(UnseenJobs(s))' <= Cardinality(UnseenJobs(s))
  BY <1>2, <1>4, NoMore
<1>6. v.obj # None => Cardinality(UnseenJobs(s))' + 1 <= Cardinality(UnseenJobs(s))
  <2> SUFFICES ASSUME v.obj # None
               PROVE  Cardinality(UnseenJobs(s))' + 1 <= Cardinality(UnseenJobs(s))
    OBVIOUS
  <2>1. v \in UnseenJobs(s) /\ UnseenJobs(s)' \subseteq UnseenJobs(s) \ {v}
    BY <1>0 DEF UnseenJobs
  <2> QED
    BY <1>2, <2>1, OneLess
<1>7. CASE v.obj # None
  BY <1>1, <1>2, <1>3, <1>5, <1>6, <1>7 DEF WorkloadWrites, Spared
<1>8. CASE v.obj = None
  BY <1>1, <1>2, <1>3, <1>5, <1>8 DEF WorkloadWrites, Spared
<1> QED
  BY <1>7, <1>8

\* The end of a step of reconcileKueueJob.
LEMMA WorkloadStepIs ==
    ASSUME TypeOK, NEW err, WorkloadStep(err)
    PROVE  /\ worker'.pc = "workload" /\ worker'.jobErr = err
           /\ worker'.key = worker.key /\ worker'.isvc = worker.isvc
BY DEF WorkloadStep, Continue, TypeOK, Worker

\* Looking for the Job asks for nothing: the worker goes on to Create when
\* the cache shows none, which is refused only while the cache is behind.
LEMMA WorkloadsGetJob ==
    ASSUME IInv, WatchesFinite, NEW s \in Services, GetJob
    PROVE  WorkloadWrites(s)' = WorkloadWrites(s)
<1>0. TypeOK /\ worker.pc = "job" /\ UNCHANGED <<isvc, job>>
  BY DEF GetJob, At, kube, IInv
<1>1. CASE job[worker.key].cache.obj = None
  <2>1. /\ worker'.pc = "create" /\ worker'.key = worker.key
        /\ worker'.isvc = worker.isvc
    BY <1>0, <1>1 DEF GetJob, Continue, TypeOK, Worker
  <2>2. /\ UnseenJobs(s)' = UnseenJobs(s) /\ WorkloadReady(s)' = WorkloadReady(s)
        /\ Behind(s)' <=> Behind(s)
        /\ ~Succeeding(s) /\ ~Succeeding(s)' /\ ~Failing(s)
        /\ Failing(s)' => Behind(s)
    BY <1>0, <1>1, <2>1
       DEF UnseenJobs, WorkloadReady, Object, Behind, Succeeding, Failing, Active
  <2> QED
    BY <2>2 DEF WorkloadWrites
<1>2. CASE job[worker.key].cache.obj # None
  <2>1. WorkloadStep(FALSE)
    BY <1>2 DEF GetJob
  <2>2. /\ worker'.pc = "workload" /\ ~worker'.jobErr
        /\ worker'.key = worker.key /\ worker'.isvc = worker.isvc
    BY <1>0, <2>1, WorkloadStepIs
  <2>3. /\ UnseenJobs(s)' = UnseenJobs(s) /\ WorkloadReady(s)' = WorkloadReady(s)
        /\ Behind(s)' <=> Behind(s)
        /\ ~Succeeding(s) /\ ~Failing(s) /\ ~Failing(s)'
        /\ Succeeding(s)' => ~Behind(s)
    BY <1>0, <1>2, <2>2
       DEF UnseenJobs, WorkloadReady, Object, Behind, Succeeding, Failing, Active
  <2> QED
    BY <2>3 DEF WorkloadWrites
<1> QED
  BY <1>1, <1>2

\* Create is refused: the account had reckoned with it.
LEMMA WorkloadsRefused ==
    ASSUME IInv, NEW s \in Services, JobAlreadyExists
    PROVE  WorkloadWrites(s)' = WorkloadWrites(s)
<1>0. /\ TypeOK /\ worker.pc = "create" /\ UNCHANGED <<isvc, job>>
      /\ job[worker.key].cur.obj # None /\ WorkloadStep(TRUE)
  BY DEF JobAlreadyExists, At, kube, IInv
<1>1. /\ worker'.pc = "workload" /\ worker'.jobErr
      /\ worker'.key = worker.key /\ worker'.isvc = worker.isvc
  BY <1>0, WorkloadStepIs
<1>2. /\ UnseenJobs(s)' = UnseenJobs(s) /\ WorkloadReady(s)' = WorkloadReady(s)
      /\ Behind(s)' <=> Behind(s)
      /\ ~Succeeding(s) /\ ~Succeeding(s)'
      /\ Failing(s)' <=> Failing(s)
  BY <1>0, <1>1
     DEF UnseenJobs, WorkloadReady, Object, Behind, Succeeding, Failing, Active
<1> QED
  BY <1>2 DEF WorkloadWrites

\* A lost call makes the worker write False, and True the next time.
LEMMA WorkloadsLost ==
    ASSUME IInv, WatchesFinite, NEW s \in Services, JobCallLost
    PROVE  /\ WorkloadWrites(s)' \in Int /\ WorkloadWrites(s) \in Int
           /\ WorkloadWrites(s)' <= WorkloadWrites(s) + 2
<1>0. /\ TypeOK /\ worker.pc \in {"job", "create"} /\ UNCHANGED <<isvc, job>>
      /\ WorkloadStep(TRUE)
  BY DEF JobCallLost, kube, IInv
<1>1. /\ worker'.pc = "workload" /\ worker'.jobErr
      /\ worker'.key = worker.key /\ worker'.isvc = worker.isvc
  BY <1>0, WorkloadStepIs
<1>2. /\ UnseenJobs(s)' = UnseenJobs(s) /\ WorkloadReady(s)' = WorkloadReady(s)
      /\ Behind(s)' <=> Behind(s)
      /\ ~Succeeding(s) /\ ~Succeeding(s)'
  BY <1>0, <1>1 DEF UnseenJobs, WorkloadReady, Object, Behind, Succeeding
<1>3. Cardinality(UnseenJobs(s)) \in Nat
  BY NoMore DEF WatchesFinite, UnseenJobs
<1> QED
  BY <1>2, <1>3 DEF WorkloadWrites, Spared

\* A Job that is created is unseen: False while Create is refused, True when
\* it is seen; two more when the worker takes the creation for a failure.
LEMMA WorkloadsJobCreated ==
    ASSUME IInv, WatchesFinite, NEW s \in Services, worker.key = s,
           worker.pc = "create", job[s].cur.obj = None, StoreJob,
           NEW err \in BOOLEAN, WorkloadStep(err), isvc' = isvc
    PROVE  /\ IsFiniteSet(job[s].watch)'
           /\ WorkloadWrites(s)' \in Int /\ WorkloadWrites(s) \in Int
           /\ WorkloadWrites(s)' <= WorkloadWrites(s) + IF err THEN 4 ELSE 2
<1> DEFINE v == [rv |-> job[s].cur.rv + 1, obj |-> desired]
<1>0. TypeOK
  BY DEF IInv
<1>1. job'[s] = Put(job[s], desired)
  BY <1>0 DEF StoreJob, TypeOK
<1>2. /\ job'[s].watch = job[s].watch \cup {v} /\ job'[s].cur = v
      /\ job'[s].cache = job[s].cache
  BY <1>1 DEF Put
<1>3. /\ worker'.pc = "workload" /\ worker'.jobErr = err
      /\ worker'.key = worker.key /\ worker'.isvc = worker.isvc
  BY <1>0, WorkloadStepIs
<1> HIDE DEF v
<1>4. IsFiniteSet(job[s].watch)'
  BY <1>2, OneMore DEF WatchesFinite
<1>5. IsFiniteSet(UnseenJobs(s)) /\ Cardinality(UnseenJobs(s)) \in Nat
  BY NoMore DEF WatchesFinite, UnseenJobs
<1>6. UnseenJobs(s)' \subseteq UnseenJobs(s) \cup {v}
  BY <1>2 DEF UnseenJobs
<1>7. /\ Cardinality(UnseenJobs(s))' \in Nat
      /\ Cardinality(UnseenJobs(s))' <= Cardinality(UnseenJobs(s)) + 1
  BY <1>5, <1>6, OneMore
<1>8. /\ WorkloadReady(s)' = WorkloadReady(s)
      /\ ~Behind(s) /\ ~Succeeding(s) /\ ~Failing(s)
      /\ Failing(s)' => err
  BY <1>2, <1>3 DEF WorkloadReady, Object, Behind, Succeeding, Failing, Active
<1> QED
  BY <1>4, <1>5, <1>7, <1>8 DEF WorkloadWrites, Spared

\* updateWorkloadCondition pays its write: with the one for WorkloadReady when
\* it writes True, with one of two when it writes False.
LEMMA WorkloadWritten ==
    ASSUME IInv, WatchesFinite, NEW s \in Services, worker.key = s,
           worker.pc = "workload", Accepts, job' = job,
           workloadStatus # worker.isvc.obj.status, StoreStatus(workloadStatus),
           worker'.pc = "idle"
    PROVE  /\ WorkloadWrites(s)' \in Int /\ WorkloadWrites(s) \in Int
           /\ WorkloadWrites(s)' + 1 <= WorkloadWrites(s)
<1> DEFINE o == worker.isvc.obj
           p == [o EXCEPT !.status = workloadStatus]
<1>0. TypeOK /\ worker.pc # "idle"
  BY DEF IInv
<1>1. /\ Active(s) /\ Object(s) = o /\ o # None /\ Object(s)' = p /\ p # None
  BY <1>0, WorkloadStatusType, StatusWritten
<1>2. /\ p.status.conditions["WorkloadReady"] =
            IF worker.jobErr THEN "False" ELSE "True"
      /\ o.status.conditions["WorkloadReady"] # p.status.conditions["WorkloadReady"]
  BY <1>0, WorkloadStatusReports
<1> HIDE DEF o, p
<1>3. /\ WorkloadReady(s)' = IF worker.jobErr THEN "False" ELSE "True"
      /\ WorkloadReady(s) # WorkloadReady(s)'
  BY <1>1, <1>2 DEF WorkloadReady
<1>4. /\ UnseenJobs(s)' = UnseenJobs(s)
      /\ Behind(s)' <=> Behind(s)
      /\ ~Succeeding(s)' /\ ~Failing(s)'
      /\ Succeeding(s) <=> ~worker.jobErr
      /\ Failing(s) <=> worker.jobErr
  BY <1>1 DEF UnseenJobs, Behind, Succeeding, Failing, Active
<1>5. Cardinality(UnseenJobs(s)) \in Nat
  BY NoMore DEF WatchesFinite, UnseenJobs
<1>6. CASE worker.jobErr
  BY <1>3, <1>4, <1>5, <1>6 DEF WorkloadWrites, Spared
<1>7. CASE ~worker.jobErr
  BY <1>3, <1>4, <1>5, <1>7 DEF WorkloadWrites, Spared
<1> QED
  BY <1>6, <1>7

-----------------------------------------------------------------------------
(* The account over the steps outside Reconcile.                           *)

\* What an event pays.
Price(k) == IF k \in {"collect", "list"} THEN 0 ELSE IF k = "model" THEN 1 ELSE 2

\* The step pays n, with an event or with none.
Pays(n) ==
    \/ budget' = budget /\ n = 0
    \/ \E k \in Kinds : Spend(k) /\ n = Price(k)

\* A step adds what it pays to every credit, and two for a version of the Job.
LEMMA CreditPaid ==
    ASSUME TypeOK, WatchesFinite, NEW n, Pays(n)
    PROVE  /\ n \in 0 .. 2
           /\ Spent("model") \in Int /\ Spent("model")' \in Int
           /\ Spent("model") <= Spent("model")'
           /\ \A s \in Services :
                 /\ Credit(s) \in Int
                 /\ job'[s].cur.rv = job[s].cur.rv => Credit(s)' = Credit(s) + n
                 /\ job'[s].cur.rv = job[s].cur.rv + 1 =>
                       Credit(s)' = Credit(s) + n + 2
<1>1. /\ n \in 0 .. 2
      /\ Spent("model") \in Int /\ Spent("model")' \in Int
      /\ Spent("model") <= Spent("model")'
      /\ Events \in Int /\ Events' \in Int
      /\ 2 * Events' - Spent("model")' = 2 * Events - Spent("model") + n
  <2>0. \A k \in Kinds : Spent(k) \in Int
    <3>1. /\ budget \in [Kinds -> Nat] /\ Budget \in [Kinds -> Nat]
      BY ConstantsAssumption DEF TypeOK
    <3>2. \A k \in Kinds : budget[k] \in Nat /\ Budget[k] \in Nat
      BY <3>1
    <3> QED
      BY <3>2 DEF Spent
  <2>1. Events \in Int /\ Spent("model") \in Int
    BY <2>0 DEF Events, Kinds
  <2>2. CASE budget' = budget /\ n = 0
    <3>1. Events' = Events /\ Spent("model")' = Spent("model")
      BY <2>2 DEF Events, Spent
    <3> HIDE DEF Events, Spent
    <3> QED
      BY <2>1, <2>2, <3>1
  <2>3. CASE \E k \in Kinds : Spend(k) /\ n = Price(k)
    <3>1. PICK k \in Kinds : Spend(k) /\ n = Price(k)
      BY <2>3
    <3>2. /\ Events' = IF k \in {"collect", "list"} THEN Events ELSE Events + 1
          /\ Spent("model")' = IF k = "model" THEN Spent("model") + 1
                                              ELSE Spent("model")
      BY <3>1, EventPays
    <3> HIDE DEF Events, Spent
    <3> QED
      BY <2>1, <3>1, <3>2 DEF Price
  <2> QED
    BY <2>2, <2>3 DEF Pays
<1>2. ASSUME NEW s \in Services
      PROVE  /\ Credit(s) \in Int
             /\ job'[s].cur.rv = job[s].cur.rv => Credit(s)' = Credit(s) + n
             /\ job'[s].cur.rv = job[s].cur.rv + 1 =>
                   Credit(s)' = Credit(s) + n + 2
  <2>1. job[s].cur.rv \in Nat
    BY AccountType
  <2>2. Credit(s)' = 2 * (Events' + job'[s].cur.rv) - Spent("model")' + 1
    BY DEF Credit
  <2>3. Credit(s) = 2 * (Events + job[s].cur.rv) - Spent("model") + 1
    BY DEF Credit
  <2> HIDE DEF Events, Spent, Credit
  <2> QED
    BY <1>1, <2>1, <2>2, <2>3
<1> QED
  BY <1>1, <1>2

\* A service stays covered when a step asks for no more than it pays.
LEMMA StillCovered ==
    ASSUME TypeOK, WatchesFinite, NEW s \in Services, Covered(s), NEW paid \in Int,
           Credit(s)' = Credit(s) + paid,
           isvc'[s].cur.rv \in Int, Unseen' \in Int, WorkloadWrites(s)' \in Int,
           isvc'[s].cur.rv + Unseen' + Verdicts(s)' + WorkloadWrites(s)'
             <= isvc[s].cur.rv + Unseen + Verdicts(s) + WorkloadWrites(s) + paid
    PROVE  Covered(s)'
<1>1. Verdicts(s)' \in Int
  BY VerdictsRange
<1>2. /\ isvc[s].cur.rv \in Int /\ Unseen \in Int /\ Verdicts(s) \in Int
      /\ WorkloadWrites(s) \in Int /\ Credit(s) \in Int
  BY AccountType
<1>3. isvc[s].cur.rv + Unseen + Verdicts(s) + WorkloadWrites(s) <= Credit(s)
  BY DEF Covered
<1>4. isvc'[s].cur.rv + Unseen' + Verdicts(s)' + WorkloadWrites(s)' <= Credit(s)'
  BY <1>1, <1>2, <1>3
<1> QED
  BY <1>4 DEF Covered

\* A version is followed through every change of the object.
LEMMA FollowedReplica ==
    ASSUME NEW Obj, NEW r \in Replica(Obj), Coherent(r), Followed(r)
    PROVE  /\ \A o \in Obj \cup {None} : Followed(Put(r, o))
           /\ \A v \in r.watch : Followed(Deliver(r, v))
           /\ Followed(Relist(r))
<1>0. /\ r.cur.rv \in Nat /\ r.cache.rv \in Nat /\ r.cache.rv <= r.cur.rv
      /\ \A v \in r.watch : /\ v.rv \in Nat /\ v.rv <= r.cur.rv
                            /\ v.rv > r.cache.rv
                            /\ v.rv = r.cur.rv => v = r.cur
  BY VersionsType DEF Coherent, Version, Versions, Followed
<1>1. ASSUME NEW o \in Obj \cup {None} PROVE Followed(Put(r, o))
  BY <1>0 DEF Put, Followed
<1>2. ASSUME NEW v \in r.watch PROVE Followed(Deliver(r, v))
  <2> DEFINE d == Deliver(r, v)
  <2>0. /\ v.rv \in Nat /\ v.rv <= r.cur.rv /\ v.rv > r.cache.rv
        /\ v.rv = r.cur.rv => v = r.cur
    BY <1>0
  <2>1. v = r.cur \/ (r.cur \in r.watch /\ r.cur.rv > v.rv)
    BY <1>0, <2>0 DEF Followed
  <2>2. /\ d.cur = r.cur /\ d.cache = v
        /\ d.watch = {w \in r.watch : w.rv > v.rv}
    BY DEF Deliver
  <2> HIDE DEF d
  <2>3. Followed(d)
    BY <2>1, <2>2 DEF Followed
  <2> QED
    BY <2>3 DEF d
<1>3. Followed(Relist(r))
  BY DEF Relist, Followed
<1> QED
  BY <1>1, <1>2, <1>3

\* So are the Jobs: when one is written,
LEMMA JobsFollowedPut ==
    ASSUME TypeOK, JobsFollowed, NEW s \in Services, NEW o \in Job \cup {None},
           job' = [job EXCEPT ![s] = Put(@, o)]
    PROVE  /\ JobsFollowed'
           /\ job'[s].cur.rv = job[s].cur.rv + 1
           /\ \A t \in Services \ {s} : job'[t] = job[t]
<1>0. job[s] \in Replica(Job) /\ job[s].cur.rv \in Nat
  BY VersionsType DEF TypeOK, Version
<1>1. job'[s] = Put(job[s], o) /\ \A t \in Services \ {s} : job'[t] = job[t]
  BY DEF TypeOK
<1>2. Coherent(job[s]) /\ Followed(job[s])
  BY DEF JobsFollowed
<1>3. /\ Coherent(job'[s]) /\ Followed(job'[s])
      /\ job'[s].cur = [rv |-> job[s].cur.rv + 1, obj |-> o]
  BY <1>0, <1>1, <1>2, PutVersions, FollowedReplica
<1>4. job'[s].cur.rv = job[s].cur.rv + 1 /\ job'[s].cur.rv # 0
  BY <1>0, <1>3
<1> QED
  BY <1>1, <1>3, <1>4 DEF JobsFollowed

\* and when one is delivered.
LEMMA JobsFollowedDeliver ==
    ASSUME TypeOK, JobsFollowed, NEW s \in Services, NEW v \in job[s].watch,
           job' = [job EXCEPT ![s] = Deliver(@, v)]
    PROVE  /\ JobsFollowed'
           /\ job'[s].cur = job[s].cur
           /\ \A t \in Services \ {s} : job'[t] = job[t]
<1>0. job[s] \in Replica(Job)
  BY DEF TypeOK
<1>1. job'[s] = Deliver(job[s], v) /\ \A t \in Services \ {s} : job'[t] = job[t]
  BY DEF TypeOK
<1>2. Coherent(job[s]) /\ Followed(job[s])
  BY DEF JobsFollowed
<1>3. Coherent(job'[s]) /\ Followed(job'[s]) /\ job'[s].cur = job[s].cur
  BY <1>0, <1>1, <1>2, DeliverVersions, FollowedReplica
<1> QED
  BY <1>1, <1>3 DEF JobsFollowed

\* Jobs stay paid for when a step lets no Job and no WorkloadReady appear
\* that is not.
LEMMA PaidStep ==
    ASSUME JobsPaid, verified' = verified, Spent("model") \in Int,
           Spent("model")' \in Int, Spent("model") <= Spent("model")',
           worker'.pc = "workload" /\ ~worker'.jobErr =>
              job'[worker'.key].cur.rv > 0,
           \A s \in Services :
              /\ job'[s].cur.rv > 0 => job[s].cur.rv > 0 \/ verified # {}
              /\ WorkloadReady(s)' = "True" => job'[s].cur.rv > 0
    PROVE  JobsPaid'
<1>1. Spent("model")' >= IF verified' = {} THEN 0 ELSE 1
  BY DEF JobsPaid
<1>2. \A s \in Services : job'[s].cur.rv > 0 => verified' # {}
  BY DEF JobsPaid
<1> HIDE DEF Spent, WorkloadReady
<1> QED
  BY <1>1, <1>2 DEF JobsPaid

\* A step that changes neither the Jobs nor what is said of them.
LEMMA PaidKept ==
    ASSUME TypeOK, JobsPaid, verified' = verified, Spent("model") \in Int,
           Spent("model")' \in Int, Spent("model") <= Spent("model")',
           worker' = worker \/ worker'.pc # "workload",
           \A s \in Services : /\ job'[s].cur.rv = job[s].cur.rv
                               /\ WorkloadReady(s)' = "True" =>
                                     WorkloadReady(s) = "True"
    PROVE  JobsPaid'
<1>1. \A s \in Services :
         /\ job'[s].cur.rv > 0 => job[s].cur.rv > 0 \/ verified # {}
         /\ WorkloadReady(s)' = "True" => job'[s].cur.rv > 0
  BY DEF JobsPaid
<1>2. worker'.pc = "workload" /\ ~worker'.jobErr => job'[worker'.key].cur.rv > 0
  <2> SUFFICES ASSUME worker'.pc = "workload", ~worker'.jobErr
               PROVE  job'[worker'.key].cur.rv > 0
    OBVIOUS
  <2>1. worker' = worker /\ worker.key \in Services
    BY WorkerBusy
  <2>2. job[worker.key].cur.rv > 0
    BY <2>1 DEF JobsPaid
  <2> QED
    BY <2>1, <2>2
<1> HIDE DEF Spent, WorkloadReady
<1> QED
  BY <1>1, <1>2, PaidStep

\* A user creates, edits or deletes an InferenceService: one write, and one
\* verdict or one WorkloadReady that follow from it.
LEMMA AccountServiceWritten ==
    ASSUME IInv, AccountInv, NEW t \in Services,
           NEW o \in InferenceService \cup {None},
           isvc' = [isvc EXCEPT ![t] = Put(isvc[t], o)],
           o # None => WorkloadReady(t)' = WorkloadReady(t),
           NEW k \in {"create", "update", "delete"}, Spend(k),
           UNCHANGED <<model, tenant, job, worker, verified>>
    PROVE  AccountInv'
<1>0. TypeOK /\ WatchesFinite /\ JobsFollowed /\ JobsPaid /\ Account
  BY DEF IInv, AccountInv
<1>1. /\ isvc'[t].cur = [rv |-> isvc[t].cur.rv + 1, obj |-> o]
      /\ \A s \in Services \ {t} : isvc'[s] = isvc[s]
  BY <1>0 DEF TypeOK, Put
<1>2. /\ IsFiniteSet(UnseenModels)' /\ IsFiniteSet(tenant.watch)'
      /\ Unseen' = Unseen
  BY <1>0, UnseenKept
<1>3. WatchesFinite' /\ JobsFollowed'
  BY <1>0, <1>2 DEF WatchesFinite, JobsFollowed
<1>4. ~Active(t)'
  <2> SUFFICES ASSUME worker.pc # "idle", worker.key = t
               PROVE  worker.isvc.rv # isvc'[t].cur.rv
    BY DEF Active
  <2>1. /\ worker.isvc.rv \in Nat /\ isvc[t].cur.rv \in Nat
        /\ worker.isvc.rv <= isvc[t].cur.rv
    BY <1>0, WorkerBusy, AccountType DEF IInv, WorkerJudged, CopyCoherent
  <2> QED
    BY <1>1, <2>1
<1>5. /\ \A s \in Services : Credit(s) \in Int /\ Credit(s)' = Credit(s) + 2
      /\ Spent("model") \in Int /\ Spent("model")' \in Int
      /\ Spent("model") <= Spent("model")'
  <2>1. Pays(2)
    BY DEF Pays, Price, Kinds
  <2> QED
    BY <1>0, <2>1, CreditPaid
<1>6. ASSUME NEW s \in Services PROVE Covered(s)'
  <2>0. /\ Covered(s) /\ isvc[s].cur.rv \in Nat /\ Unseen \in Nat
        /\ Verdicts(s) \in 0 .. 2 /\ WorkloadWrites(s) \in Int
    BY <1>0, AccountType DEF Account
  <2>1. CASE s # t
    <3>1. isvc'[s] = isvc[s]
      BY <1>1, <2>1
    <3>2. Verdicts(s)' = Verdicts(s) /\ WorkloadWrites(s)' = WorkloadWrites(s)
      BY <1>0, <3>1, VerdictsKept, WorkloadsKept DEF SameCaches
    <3> QED
      BY <1>0, <1>2, <1>5, <2>0, <3>1, <3>2, StillCovered
  <2>2. CASE s = t /\ o # None
    <3>1. Verdicts(s)' <= 1 /\ Verdicts(s)' \in 0 .. 2
      BY <1>4, <2>2, VerdictsFresh, VerdictsRange
    <3>2. ~Succeeding(s)' /\ ~Failing(s)'
      BY <1>4, <2>2 DEF Succeeding, Failing
    <3>3. WorkloadWrites(s)' \in Int /\ WorkloadWrites(s)' <= WorkloadWrites(s)
      BY <1>0, <2>2, <3>2, WorkloadsLeft
    <3> QED
      BY <1>0, <1>1, <1>2, <1>5, <2>0, <2>2, <3>1, <3>3, StillCovered
  <2>3. CASE s = t /\ o = None
    <3>1. Object(s)' = None
      BY <1>1, <2>3 DEF Object
    <3>2. Verdicts(s)' = 0
      BY <3>1, VerdictsRange
    <3>3. WorkloadWrites(s)' \in Int /\ WorkloadWrites(s)' <= WorkloadWrites(s) + 1
      BY <1>0, <1>4, <2>3, <3>1, WorkloadsDeleted
    <3> QED
      BY <1>0, <1>1, <1>2, <1>5, <2>0, <2>3, <3>2, <3>3, StillCovered
  <2> QED
    BY <2>1, <2>2, <2>3
<1>7. \A s \in Services : WorkloadReady(s)' = "True" => WorkloadReady(s) = "True"
  <2> SUFFICES ASSUME NEW s \in Services, WorkloadReady(s)' = "True"
               PROVE  WorkloadReady(s) = "True"
    OBVIOUS
  <2>1. CASE s # t
    BY <1>1, <2>1 DEF WorkloadReady, Object
  <2>2. CASE s = t
    <3>1. o # None
      BY <1>1, <2>2 DEF WorkloadReady, Object
    <3> QED
      BY <2>2, <3>1
  <2> QED
    BY <2>1, <2>2
<1>8. JobsPaid'
  BY <1>0, <1>5, <1>7, PaidKept
<1> QED
  BY <1>3, <1>6, <1>8 DEF AccountInv, Account

-----------------------------------------------------------------------------
(* The account over the kinds of steps: what a step has to show.           *)

\* A step that stores nothing.
LEMMA AccountQuiet ==
    ASSUME IInv, AccountInv, NEW n, Pays(n),
           \A s \in Services : isvc'[s].cur = isvc[s].cur,
           UNCHANGED <<model, tenant, job, verified>>,
           \A s \in Services :
              /\ Verdicts(s)' <= Verdicts(s)
              /\ WorkloadWrites(s)' \in Int
              /\ WorkloadWrites(s)' <= WorkloadWrites(s) + n,
           worker'.pc = "workload" /\ ~worker'.jobErr =>
              job[worker'.key].cur.rv > 0
    PROVE  AccountInv'
<1>0. TypeOK /\ WatchesFinite /\ JobsFollowed /\ JobsPaid /\ Account
  BY DEF IInv, AccountInv
<1>1. /\ IsFiniteSet(UnseenModels)' /\ IsFiniteSet(tenant.watch)'
      /\ Unseen' = Unseen
  BY <1>0, UnseenKept
<1>2. WatchesFinite' /\ JobsFollowed'
  BY <1>0, <1>1 DEF WatchesFinite, JobsFollowed
<1>3. /\ n \in 0 .. 2
      /\ \A s \in Services : Credit(s) \in Int /\ Credit(s)' = Credit(s) + n
      /\ Spent("model") \in Int /\ Spent("model")' \in Int
      /\ Spent("model") <= Spent("model")'
  BY <1>0, CreditPaid
<1>4. ASSUME NEW s \in Services PROVE Covered(s)'
  <2>1. /\ Covered(s) /\ isvc[s].cur.rv \in Nat /\ Unseen \in Nat
        /\ Verdicts(s) \in 0 .. 2 /\ WorkloadWrites(s) \in Int
    BY <1>0, AccountType DEF Account
  <2>2. Verdicts(s)' \in 0 .. 2
    BY VerdictsRange
  <2> QED
    BY <1>0, <1>1, <1>3, <2>1, <2>2, StillCovered
<1>5. \A s \in Services :
         /\ job'[s].cur.rv > 0 => job[s].cur.rv > 0 \/ verified # {}
         /\ WorkloadReady(s)' = "True" => job'[s].cur.rv > 0
  BY <1>0 DEF JobsPaid, WorkloadReady, Object
<1>6. JobsPaid'
  BY <1>0, <1>3, <1>5, PaidStep
<1> QED
  BY <1>2, <1>4, <1>6 DEF AccountInv, Account

\* A step that leaves the worker and the stored objects alone keeps the account.
LEMMA AccountKept ==
    ASSUME IInv, AccountInv, \A s \in Services : isvc'[s].cur = isvc[s].cur,
           UNCHANGED <<model, tenant, job, worker, budget, verified>>
    PROVE  AccountInv'
<1>0. TypeOK /\ WatchesFinite /\ JobsPaid
  BY DEF IInv, AccountInv
<1>1. Pays(0)
  BY DEF Pays
<1>2. ASSUME NEW s \in Services
      PROVE  /\ Verdicts(s)' <= Verdicts(s)
             /\ WorkloadWrites(s)' \in Int
             /\ WorkloadWrites(s)' <= WorkloadWrites(s) + 0
  <2>1. Verdicts(s)' = Verdicts(s) /\ WorkloadWrites(s)' = WorkloadWrites(s)
    BY <1>0, VerdictsKept, WorkloadsKept DEF SameCaches
  <2>2. Verdicts(s) \in 0 .. 2 /\ WorkloadWrites(s) \in Int
    BY <1>0, AccountType
  <2> QED
    BY <2>1, <2>2
<1>3. worker'.pc = "workload" /\ ~worker'.jobErr => job[worker'.key].cur.rv > 0
  BY <1>0 DEF JobsPaid
<1> QED
  BY <1>1, <1>2, <1>3, AccountQuiet

\* A write or a delivery of a Model or of the Tenant: what the watch has not
\* brought and the verdicts grow together by what is paid.
LEMMA AccountDependency ==
    ASSUME IInv, AccountInv, NEW n, Pays(n), UNCHANGED <<isvc, job, worker>>,
           IsFiniteSet(UnseenModels)', IsFiniteSet(tenant.watch)', Unseen' \in Nat,
           \A s \in Services : Unseen' + Verdicts(s)' <= Unseen + Verdicts(s) + n,
           verified \subseteq verified',
           verified' # verified => Spent("model")' >= 1
    PROVE  AccountInv'
<1>0. TypeOK /\ WatchesFinite /\ JobsFollowed /\ JobsPaid /\ Account
  BY DEF IInv, AccountInv
<1>1. WatchesFinite' /\ JobsFollowed'
  BY <1>0 DEF WatchesFinite, JobsFollowed
<1>2. /\ n \in 0 .. 2
      /\ \A s \in Services : Credit(s) \in Int /\ Credit(s)' = Credit(s) + n
      /\ Spent("model") \in Int /\ Spent("model")' \in Int
      /\ Spent("model") <= Spent("model")'
  BY <1>0, CreditPaid
<1>3. ASSUME NEW s \in Services PROVE Covered(s)'
  <2>1. /\ Covered(s) /\ isvc[s].cur.rv \in Nat /\ Unseen \in Nat
        /\ Verdicts(s) \in 0 .. 2 /\ WorkloadWrites(s) \in Int
    BY <1>0, AccountType DEF Account
  <2>2. Verdicts(s)' \in 0 .. 2
    BY VerdictsRange
  <2>3. WorkloadWrites(s)' = WorkloadWrites(s)
    BY WorkloadsKept
  <2> QED
    BY <1>0, <1>2, <2>1, <2>2, <2>3, StillCovered
<1>4. Spent("model")' >= IF verified' = {} THEN 0 ELSE 1
  BY <1>0, <1>2 DEF JobsPaid
<1>5. \A s \in Services : /\ job'[s].cur.rv > 0 => verified' # {}
                          /\ WorkloadReady(s)' = "True" => job'[s].cur.rv > 0
  BY <1>0 DEF JobsPaid, WorkloadReady, Object
<1>6. worker'.pc = "workload" /\ ~worker'.jobErr => job'[worker'.key].cur.rv > 0
  BY <1>0 DEF JobsPaid
<1>7. JobsPaid'
  BY <1>4, <1>5, <1>6 DEF JobsPaid
<1> QED
  BY <1>1, <1>3, <1>7 DEF AccountInv, Account

\* A Job is created or deleted: its version pays two writes.
LEMMA AccountJobWritten ==
    ASSUME IInv, AccountInv, NEW n, Pays(n), NEW t \in Services,
           NEW o \in Job \cup {None}, job' = [job EXCEPT ![t] = Put(@, o)],
           UNCHANGED <<isvc, model, tenant, verified>>, verified # {},
           \/ worker' = worker
           \/ /\ worker.key = t /\ worker'.key = t
              /\ worker'.pc \notin {"tenant", "status"},
           IsFiniteSet(job[t].watch)', WorkloadWrites(t)' \in Int,
           WorkloadWrites(t)' <= WorkloadWrites(t) + n + 2
    PROVE  AccountInv'
<1>0. TypeOK /\ WatchesFinite /\ JobsFollowed /\ JobsPaid /\ Account
  BY DEF IInv, AccountInv
<1>1. /\ IsFiniteSet(UnseenModels)' /\ IsFiniteSet(tenant.watch)'
      /\ Unseen' = Unseen
  BY <1>0, UnseenKept
<1>2. /\ JobsFollowed'
      /\ job'[t].cur.rv = job[t].cur.rv + 1
      /\ \A s \in Services \ {t} : job'[s] = job[s]
  BY <1>0, JobsFollowedPut
<1>3. WatchesFinite'
  <2>1. \A s \in Services : IsFiniteSet(job'[s].watch)
    BY <1>0, <1>2 DEF WatchesFinite
  <2> QED
    BY <1>1, <2>1 DEF WatchesFinite
<1>4. /\ n \in 0 .. 2
      /\ \A s \in Services \ {t} : Credit(s) \in Int /\ Credit(s)' = Credit(s) + n
      /\ Credit(t) \in Int /\ Credit(t)' = Credit(t) + n + 2
      /\ Spent("model") \in Int /\ Spent("model")' \in Int
      /\ Spent("model") <= Spent("model")'
  BY <1>0, <1>2, CreditPaid
<1>5. SameCaches
  BY DEF SameCaches
<1>6. ASSUME NEW s \in Services PROVE Covered(s)'
  <2>1. /\ Covered(s) /\ isvc[s].cur.rv \in Nat /\ Unseen \in Nat
        /\ Verdicts(s) \in 0 .. 2 /\ WorkloadWrites(s) \in Int
        /\ Verdicts(s)' \in 0 .. 2
    BY <1>0, AccountType, VerdictsRange DEF Account
  <2>2. CASE s = t
    <3>1. Verdicts(s)' <= Verdicts(s)
      BY <1>0, <1>5, <2>1, VerdictsKept, VerdictsLeft
    <3>2. isvc'[s].cur.rv = isvc[s].cur.rv /\ n + 2 \in Int
      BY <1>4
    <3>3. Credit(s)' = Credit(s) + (n + 2)
      BY <1>4, <2>2
    <3> QED
      BY <1>0, <1>1, <1>4, <2>1, <2>2, <3>1, <3>2, <3>3, StillCovered
  <2>3. CASE s # t
    <3>1. worker' = worker \/ (~Active(s) /\ ~Active(s)')
      BY <2>3 DEF Active
    <3>2. job'[s] = job[s]
      BY <1>2, <2>3
    <3>3. Verdicts(s)' = Verdicts(s) /\ WorkloadWrites(s)' = WorkloadWrites(s)
      BY <1>0, <1>5, <3>1, <3>2, VerdictsKept, WorkloadsKept
    <3> QED
      BY <1>0, <1>1, <1>4, <2>1, <2>3, <3>3, StillCovered
  <2> QED
    BY <2>2, <2>3
<1>7. \A s \in Services : job[s].cur.rv \in Nat /\ job'[s].cur.rv \in Nat
                             /\ job[s].cur.rv <= job'[s].cur.rv
  BY <1>0, <1>2, AccountType
<1>8. job'[t].cur.rv > 0
  BY <1>2, <1>7
<1>9. JobsPaid'
  <2>1. \A s \in Services :
           /\ job'[s].cur.rv > 0 => job[s].cur.rv > 0 \/ verified # {}
           /\ WorkloadReady(s)' = "True" => job'[s].cur.rv > 0
    <3> SUFFICES ASSUME NEW s \in Services, WorkloadReady(s)' = "True"
                 PROVE  job'[s].cur.rv > 0
      OBVIOUS
    <3>1. WorkloadReady(s) = "True"
      BY DEF WorkloadReady, Object
    <3>2. job[s].cur.rv > 0
      BY <1>0, <3>1 DEF JobsPaid
    <3> QED
      BY <1>7, <3>2
  <2>2. worker'.pc = "workload" /\ ~worker'.jobErr => job'[worker'.key].cur.rv > 0
    <3> SUFFICES ASSUME worker' = worker, worker.pc = "workload", ~worker.jobErr
                 PROVE  job'[worker.key].cur.rv > 0
      BY <1>8
    <3>1. worker.key \in Services
      BY <1>0, WorkerBusy
    <3>2. job[worker.key].cur.rv > 0
      BY <1>0 DEF JobsPaid
    <3> QED
      BY <1>7, <3>1, <3>2
  <2> QED
    BY <1>0, <1>4, <2>1, <2>2, PaidStep
<1> QED
  BY <1>2, <1>3, <1>6, <1>9 DEF AccountInv, Account

\* The worker stores a status: the write is paid with one still to come.
LEMMA AccountStatusStored ==
    ASSUME IInv, AccountInv, NEW n, Pays(n), NEW t \in Services, worker.key = t,
           worker.pc # "idle", Accepts, NEW status \in InferenceServiceStatus,
           StoreStatus(status), UNCHANGED <<model, tenant, job, verified>>,
           worker'.pc = "idle" \/ worker'.key = t, worker'.pc # "workload",
           WorkloadWrites(t)' \in Int,
           Verdicts(t)' + WorkloadWrites(t)' + 1 <= Verdicts(t) + WorkloadWrites(t),
           WorkloadReady(t)' = "True" => job[t].cur.rv > 0
    PROVE  AccountInv'
<1>0. TypeOK /\ WatchesFinite /\ JobsFollowed /\ JobsPaid /\ Account
  BY DEF IInv, AccountInv
<1>1. /\ IsFiniteSet(UnseenModels)' /\ IsFiniteSet(tenant.watch)'
      /\ Unseen' = Unseen
  BY <1>0, UnseenKept
<1>2. WatchesFinite' /\ JobsFollowed'
  BY <1>0, <1>1 DEF WatchesFinite, JobsFollowed
<1>3. /\ n \in 0 .. 2
      /\ \A s \in Services : Credit(s) \in Int /\ Credit(s)' = Credit(s) + n
      /\ Spent("model") \in Int /\ Spent("model")' \in Int
      /\ Spent("model") <= Spent("model")'
  BY <1>0, CreditPaid
<1>4. /\ isvc'[t].cur.rv = isvc[t].cur.rv + 1
      /\ \A s \in Services \ {t} : isvc'[s] = isvc[s]
  BY StatusWritten
<1>5. ASSUME NEW s \in Services PROVE Covered(s)'
  <2>1. /\ Covered(s) /\ isvc[s].cur.rv \in Nat /\ Unseen \in Nat
        /\ Verdicts(s) \in 0 .. 2 /\ WorkloadWrites(s) \in Int
        /\ Verdicts(s)' \in 0 .. 2
    BY <1>0, AccountType, VerdictsRange DEF Account
  <2>2. CASE s = t
    BY <1>0, <1>1, <1>3, <1>4, <2>1, <2>2, StillCovered
  <2>3. CASE s # t
    <3>1. ~Active(s) /\ ~Active(s)'
      BY <2>3 DEF Active
    <3>2. Verdicts(s)' = Verdicts(s) /\ WorkloadWrites(s)' = WorkloadWrites(s)
      BY <1>0, <1>4, <2>3, <3>1, VerdictsKept, WorkloadsKept DEF SameCaches
    <3> QED
      BY <1>0, <1>1, <1>3, <1>4, <2>1, <2>3, <3>2, StillCovered
  <2> QED
    BY <2>2, <2>3
<1>6. \A s \in Services :
         /\ job'[s].cur.rv > 0 => job[s].cur.rv > 0 \/ verified # {}
         /\ WorkloadReady(s)' = "True" => job'[s].cur.rv > 0
  <2> SUFFICES ASSUME NEW s \in Services, s # t, WorkloadReady(s)' = "True"
               PROVE  job[s].cur.rv > 0
    OBVIOUS
  <2>1. WorkloadReady(s) = "True"
    BY <1>4 DEF WorkloadReady, Object
  <2> QED
    BY <1>0, <2>1 DEF JobsPaid
<1>7. JobsPaid'
  BY <1>0, <1>3, <1>6, PaidStep
<1> QED
  BY <1>2, <1>5, <1>7 DEF AccountInv, Account

-----------------------------------------------------------------------------
(* The account over every action.                                          *)

\* A Job that is there has a version, and someone's Model was ready for it.
LEMMA JobHasVersion ==
    ASSUME TypeOK, JobsFollowed, JobsPaid, NEW s \in Services
    PROVE  /\ job[s].cur.obj # None => job[s].cur.rv > 0 /\ verified # {}
           /\ job[s].cache.obj # None => job[s].cur.rv > 0
<1>1. /\ job[s] \in Replica(Job) /\ job[s].cur.rv \in Nat
      /\ job[s].cache.rv \in Nat
  BY VersionsType DEF TypeOK, Version
<1>2. job[s].cur.obj # None => job[s].cur.rv > 0
  BY <1>1 DEF JobsFollowed
<1>3. job[s].cur.rv = 0 => job[s].cache = job[s].cur
  <2>1. /\ job[s].cache.rv <= job[s].cur.rv
        /\ job[s].cache.rv = job[s].cur.rv => job[s].cache = job[s].cur
    BY DEF JobsFollowed, Coherent, Versions
  <2> QED
    BY <1>1, <2>1
<1>4. job[s].cache.obj # None => job[s].cur.rv > 0
  BY <1>1, <1>3 DEF JobsFollowed
<1> QED
  BY <1>2, <1>4 DEF JobsPaid

\* Users and the other controllers.
LEMMA AccountEnvironment == IInv /\ AccountInv /\ Environment => AccountInv'
<1> SUFFICES ASSUME IInv, AccountInv, Environment PROVE AccountInv'
  OBVIOUS
<1>0. TypeOK /\ WatchesFinite /\ JobsFollowed /\ JobsPaid
  BY DEF IInv, AccountInv
<1>1. ASSUME NEW s \in Services, NEW spec \in ServiceSpecs, CreateService(s, spec)
      PROVE  AccountInv'
  <2> DEFINE o == [uid |-> isvc[s].cur.rv + 1, gen |-> 1, spec |-> spec,
                   status |-> NewStatus]
  <2>1. o \in InferenceService
    BY <1>0, NewServiceType
  <2>2. /\ isvc' = [isvc EXCEPT ![s] = Put(isvc[s], o)] /\ Object(s) = None
        /\ Spend("create") /\ UNCHANGED <<model, tenant, job, worker, verified>>
    BY <1>1 DEF CreateService, Object
  <2>3. isvc'[s].cur.obj = o /\ o # None /\ o.status = NewStatus
    BY <1>0, <2>1, <2>2, NoneAssumption DEF TypeOK, Put
  <2>4. NewStatus.conditions["WorkloadReady"] = "Absent"
    BY DEF NewStatus, ServiceConditions
  <2> HIDE DEF o
  <2>5. WorkloadReady(s)' = WorkloadReady(s)
    BY <2>2, <2>3, <2>4 DEF WorkloadReady, Object
  <2> QED
    BY <2>1, <2>2, <2>5, AccountServiceWritten
<1>2. ASSUME NEW s \in Services, NEW spec \in ServiceSpecs, UpdateService(s, spec)
      PROVE  AccountInv'
  <2> DEFINE o == Edited(isvc[s].cur.obj, spec)
  <2>1. Object(s) \in InferenceService /\ Object(s) # None
    BY <1>0, <1>2, ObjectType DEF UpdateService, Object
  <2>2. o \in InferenceService /\ o.status = Object(s).status /\ o # None
    BY <2>1, EditedType, NoneAssumption DEF Object
  <2>3. /\ isvc' = [isvc EXCEPT ![s] = Put(isvc[s], o)]
        /\ Spend("update") /\ UNCHANGED <<model, tenant, job, worker, verified>>
    BY <1>2 DEF UpdateService
  <2> HIDE DEF o
  <2>4. isvc'[s].cur.obj = o
    BY <1>0, <2>3 DEF TypeOK, Put
  <2>5. WorkloadReady(s)' = WorkloadReady(s)
    BY <2>1, <2>2, <2>4 DEF WorkloadReady, Object
  <2> QED
    BY <2>2, <2>3, <2>5, AccountServiceWritten
<1>3. ASSUME NEW s \in Services, DeleteService(s) PROVE AccountInv'
  <2>1. /\ isvc' = [isvc EXCEPT ![s] = Put(isvc[s], None)]
        /\ Spend("delete") /\ UNCHANGED <<model, tenant, job, worker, verified>>
    BY <1>3 DEF DeleteService
  <2> QED
    BY <2>1, AccountServiceWritten
<1>4. ASSUME NEW s \in Services, DeleteJob(s) \/ CollectJob(s) PROVE AccountInv'
  <2>1. /\ job' = [job EXCEPT ![s] = Put(@, None)]
        /\ UNCHANGED <<isvc, model, tenant, worker, verified>>
        /\ job[s].cur.obj # None
    BY <1>4 DEF DeleteJob, CollectJob, Orphan
  <2>2. \E n \in 0 .. 2 : Pays(n)
    BY <1>4 DEF DeleteJob, CollectJob, Pays, Price, Kinds
  <2>3. PICK n \in 0 .. 2 : Pays(n)
    BY <2>2
  <2>4. /\ IsFiniteSet(job[s].watch)'
        /\ WorkloadWrites(s)' \in Int /\ WorkloadWrites(s) \in Int
        /\ WorkloadWrites(s)' <= WorkloadWrites(s) + 2
    BY <1>0, <2>1, WorkloadsJobDeleted
  <2>5. WorkloadWrites(s)' <= WorkloadWrites(s) + n + 2
    BY <2>3, <2>4
  <2>6. verified # {}
    BY <1>0, <2>1, JobHasVersion
  <2> QED
    BY <2>1, <2>3, <2>4, <2>5, <2>6, AccountJobWritten
<1>5. ASSUME NEW m \in Models, NEW o \in ModelStates, WriteModel(m, o)
      PROVE  AccountInv'
  <2>1. /\ model' = [model EXCEPT ![m] = Put(@, o)] /\ Spend("model")
        /\ UNCHANGED <<isvc, tenant, job, worker>>
        /\ verified \subseteq verified'
    BY <1>5 DEF WriteModel
  <2>2. Pays(1)
    BY <2>1 DEF Pays, Price, Kinds
  <2>3. /\ IsFiniteSet(UnseenModels)' /\ IsFiniteSet(tenant.watch)'
        /\ Unseen' \in Nat /\ Unseen' <= Unseen + 1
    BY <1>0, <2>1, UnseenModelWritten
  <2>4. SameCaches
    BY <1>0, <2>1 DEF SameCaches, TypeOK, Put
  <2>5. \A s \in Services : /\ Verdicts(s)' = Verdicts(s) /\ Verdicts(s) \in 0 .. 2
                            /\ Unseen \in Nat
    BY <1>0, <2>1, <2>4, VerdictsKept, AccountType
  <2>6. \A s \in Services : Unseen' + Verdicts(s)' <= Unseen + Verdicts(s) + 1
    BY <2>3, <2>5
  <2>7. Spent("model")' >= 1
    <3>1. Spent("model")' = Spent("model") + 1
      BY <1>0, <2>1, EventPays DEF Kinds
    <3>2. Spent("model") \in Int /\ Spent("model") >= 0
      BY <1>0, <2>2, CreditPaid DEF JobsPaid
    <3> QED
      BY <3>1, <3>2
  <2> QED
    BY <2>1, <2>2, <2>3, <2>6, <2>7, AccountDependency
<1>6. ASSUME NEW o \in TenantStates, WriteTenant(o) PROVE AccountInv'
  <2>1. /\ tenant' = Put(tenant, o) /\ Spend("tenant")
        /\ UNCHANGED <<isvc, model, job, worker, verified>>
    BY <1>6 DEF WriteTenant
  <2>2. Pays(2)
    BY <2>1 DEF Pays, Price, Kinds
  <2>3. /\ IsFiniteSet(UnseenModels)' /\ IsFiniteSet(tenant.watch)'
        /\ Unseen' \in Nat /\ Unseen' <= Unseen + 1
    BY <1>0, <2>1, UnseenTenantWritten
  <2>4. SameCaches
    BY <2>1 DEF SameCaches, Put
  <2>5. \A s \in Services : /\ Verdicts(s)' = Verdicts(s) /\ Verdicts(s) \in 0 .. 2
                            /\ Unseen \in Nat
    BY <1>0, <2>1, <2>4, VerdictsKept, AccountType
  <2>6. \A s \in Services : Unseen' + Verdicts(s)' <= Unseen + Verdicts(s) + 2
    BY <2>3, <2>5
  <2> QED
    BY <2>1, <2>2, <2>3, <2>6, AccountDependency
<1> QED
  BY <1>1, <1>2, <1>3, <1>4, <1>5, <1>6 DEF Environment

\* The cache learns of a version of a Model, which may call for a verdict of
\* every service; the version is one less to learn of.
LEMMA AccountModelDelivered ==
    ASSUME IInv, AccountInv, NEW m \in Models, NEW v \in model[m].watch,
           model' = [model EXCEPT ![m] = Deliver(@, v)],
           UNCHANGED <<isvc, tenant, job, worker, verified>>, Pays(0)
    PROVE  AccountInv'
<1>0. TypeOK /\ WatchesFinite /\ JobsFollowed /\ JobsPaid /\ Account
  BY DEF IInv, AccountInv
<1>1. /\ IsFiniteSet(UnseenModels)' /\ IsFiniteSet(tenant.watch)'
      /\ Unseen' \in Nat /\ Unseen' + 1 <= Unseen
  BY <1>0, UnseenModelDelivered
<1>2. \A s \in Services : /\ Verdicts(s)' <= Verdicts(s) + 1 /\ Unseen \in Nat
                          /\ Verdicts(s) \in 0 .. 2 /\ Verdicts(s)' \in 0 .. 2
  BY <1>0, VerdictsModel, VerdictsRange, AccountType
<1>3. \A s \in Services : Unseen' + Verdicts(s)' <= Unseen + Verdicts(s) + 0
  BY <1>1, <1>2
<1> QED
  BY <1>1, <1>3, AccountDependency

\* The informers and the timers.
LEMMA AccountDelivery == IInv /\ AccountInv /\ Delivery => AccountInv'
<1> SUFFICES ASSUME IInv, AccountInv, Delivery PROVE AccountInv'
  OBVIOUS
<1>0. TypeOK /\ WatchesFinite /\ JobsFollowed /\ JobsPaid /\ Account
  BY DEF IInv, AccountInv
<1>1. ASSUME NEW s \in Services, DeliverService(s) \/ TimerFires(s) \/ Resync(s)
      PROVE  AccountInv'
  <2>1. UNCHANGED <<model, tenant, job, worker, budget, verified>>
    BY <1>1 DEF DeliverService, TimerFires, Resync, kube
  <2>2. \A t \in Services : isvc'[t].cur = isvc[t].cur
    <3>1. CASE DeliverService(s)
      <4>1. PICK v \in isvc[s].watch : isvc' = [isvc EXCEPT ![s] = Deliver(@, v)]
        BY <3>1 DEF DeliverService
      <4>2. Deliver(isvc[s], v).cur = isvc[s].cur
        BY DEF Deliver
      <4> QED
        BY <1>0, <4>1, <4>2 DEF TypeOK
    <3>2. CASE TimerFires(s) \/ Resync(s)
      BY <3>2 DEF TimerFires, Resync, kube
    <3> QED
      BY <1>1, <3>1, <3>2
  <2> QED
    BY <2>1, <2>2, AccountKept
<1>2. ASSUME NEW m \in Models, DeliverModel(m) PROVE AccountInv'
  <2>1. PICK v \in model[m].watch :
           /\ model' = [model EXCEPT ![m] = Deliver(@, v)]
           /\ UNCHANGED <<isvc, tenant, job, worker, budget, verified>>
    BY <1>2 DEF DeliverModel
  <2>2. Pays(0)
    BY <2>1 DEF Pays
  <2> QED
    BY <2>1, <2>2, AccountModelDelivered
<1>3. CASE DeliverTenant
  <2>1. PICK v \in tenant.watch :
           /\ tenant' = Deliver(tenant, v)
           /\ UNCHANGED <<isvc, model, job, worker, budget, verified>>
    BY <1>3 DEF DeliverTenant
  <2>2. Pays(0)
    BY <2>1 DEF Pays
  <2>3. /\ IsFiniteSet(UnseenModels)' /\ IsFiniteSet(tenant.watch)'
        /\ Unseen' \in Nat /\ Unseen' + 1 <= Unseen
    BY <1>0, <2>1, UnseenTenantDelivered
  <2>4. \A s \in Services : /\ Verdicts(s)' <= Verdicts(s) + 1 /\ Unseen \in Nat
                            /\ Verdicts(s) \in 0 .. 2 /\ Verdicts(s)' \in 0 .. 2
    BY <1>0, <2>1, VerdictsTenant, VerdictsRange, AccountType
  <2>5. \A s \in Services : Unseen' + Verdicts(s)' <= Unseen + Verdicts(s) + 0
    BY <2>3, <2>4
  <2> QED
    BY <2>1, <2>2, <2>3, <2>5, AccountDependency
<1>4. ASSUME NEW t \in Services, DeliverJob(t) PROVE AccountInv'
  <2>1. PICK v \in job[t].watch :
           /\ job' = [job EXCEPT ![t] = Deliver(@, v)]
           /\ UNCHANGED <<isvc, model, tenant, worker, budget, verified>>
    BY <1>4 DEF DeliverJob
  <2>2. /\ JobsFollowed'
        /\ job'[t].cur = job[t].cur
        /\ \A s \in Services \ {t} : job'[s] = job[s]
    BY <1>0, <2>1, JobsFollowedDeliver
  <2>3. /\ IsFiniteSet(job[t].watch)'
        /\ WorkloadWrites(t)' \in Int
        /\ WorkloadWrites(t)' <= WorkloadWrites(t)
    BY <1>0, <2>1, WorkloadsDelivered
  <2>4. /\ IsFiniteSet(UnseenModels)' /\ IsFiniteSet(tenant.watch)'
        /\ Unseen' = Unseen
    BY <1>0, <2>1, UnseenKept
  <2>5. WatchesFinite'
    <3>1. \A s \in Services : IsFiniteSet(job'[s].watch)
      BY <1>0, <2>2, <2>3 DEF WatchesFinite
    <3> QED
      BY <2>4, <3>1 DEF WatchesFinite
  <2>6. \A s \in Services : job'[s].cur.rv = job[s].cur.rv
    BY <2>2
  <2>7. Pays(0)
    BY <2>1 DEF Pays
  <2>8. /\ \A s \in Services : Credit(s) \in Int /\ Credit(s)' = Credit(s) + 0
        /\ Spent("model") \in Int /\ Spent("model")' \in Int
        /\ Spent("model") <= Spent("model")'
    BY <1>0, <2>6, <2>7, CreditPaid
  <2>9. ASSUME NEW s \in Services PROVE Covered(s)'
    <3>1. /\ Covered(s) /\ isvc[s].cur.rv \in Nat /\ Unseen \in Nat
          /\ Verdicts(s) \in 0 .. 2 /\ WorkloadWrites(s) \in Int
      BY <1>0, AccountType DEF Account
    <3>2. Verdicts(s)' = Verdicts(s)
      BY <1>0, <2>1, VerdictsKept DEF SameCaches
    <3>3. WorkloadWrites(s)' \in Int /\ WorkloadWrites(s)' <= WorkloadWrites(s)
      <4>1. CASE s = t
        BY <2>3, <4>1
      <4>2. CASE s # t
        BY <2>1, <2>2, <3>1, <4>2, WorkloadsKept
      <4> QED
        BY <4>1, <4>2
    <3> QED
      BY <1>0, <2>1, <2>4, <2>8, <3>1, <3>2, <3>3, StillCovered
  <2>10. \A s \in Services : WorkloadReady(s)' = "True" => WorkloadReady(s) = "True"
    BY <2>1 DEF WorkloadReady, Object
  <2>11. JobsPaid'
    BY <1>0, <2>1, <2>6, <2>8, <2>10, PaidKept
  <2> QED
    BY <2>2, <2>5, <2>9, <2>11 DEF AccountInv, Account
<1> QED
  BY <1>1, <1>2, <1>3, <1>4 DEF Delivery

\* However Reconcile ends, or before it comes to the Job, a step that stores
\* nothing asks for nothing.
LEMMA AccountLeft ==
    ASSUME IInv, AccountInv, NEW n, Pays(n),
           UNCHANGED <<isvc, model, tenant, job, verified>>,
           worker'.pc \in {"idle", "model", "job"}
    PROVE  AccountInv'
<1>0. TypeOK /\ WatchesFinite /\ JobsFollowed /\ JobsPaid
  BY DEF IInv, AccountInv
<1>1. n \in 0 .. 2
  BY <1>0, CreditPaid
<1>2. ASSUME NEW s \in Services
      PROVE  /\ Verdicts(s)' <= Verdicts(s)
             /\ WorkloadWrites(s)' \in Int
             /\ WorkloadWrites(s)' <= WorkloadWrites(s) + n
  <2>1. Verdicts(s)' <= Verdicts(s)
    BY <1>0, VerdictsLeft DEF SameCaches
  <2>2. WorkloadReady(s)' = WorkloadReady(s) /\ ~Succeeding(s)' /\ ~Failing(s)'
    BY DEF WorkloadReady, Object, Succeeding, Failing
  <2>3. /\ WorkloadWrites(s)' \in Int /\ WorkloadWrites(s) \in Int
        /\ WorkloadWrites(s)' <= WorkloadWrites(s)
    BY <1>0, <2>2, WorkloadsLeft
  <2> QED
    BY <1>1, <2>1, <2>3
<1> QED
  BY <1>2, AccountQuiet

\* The verdict of updateStatus is stored.
LEMMA AccountVerdict ==
    ASSUME IInv, AccountInv, NEW n, Pays(n), worker.pc = "status", Accepts,
           newStatus # worker.isvc.obj.status, StoreStatus(newStatus),
           UNCHANGED <<model, tenant, job, verified>>,
           \/ worker'.pc = "idle"
           \/ worker'.pc = "job" /\ worker'.key = worker.key
    PROVE  AccountInv'
<1>0. TypeOK /\ WatchesFinite /\ JobsPaid
  BY DEF IInv, AccountInv
<1>1. PICK t \in Services : worker.key = t
  BY <1>0, WorkerBusy
<1>2. newStatus \in InferenceServiceStatus
  BY <1>0, NewStatusType
<1>3. /\ Object(t) = worker.isvc.obj /\ Object(t) # None
      /\ Object(t)' # None /\ Object(t)'.status = newStatus
  BY <1>1, <1>2, StatusWritten
<1>4. newConditions["WorkloadReady"] =
         worker.isvc.obj.status.conditions["WorkloadReady"]
  <2>1. worker.isvc.obj.status.conditions \in [ServiceConditions -> ConditionStatus]
    BY <1>0, WorkerBusy DEF InferenceService, InferenceServiceStatus
  <2> QED
    BY <2>1 DEF newConditions, SetCond, ServiceConditions
<1>5. WorkloadReady(t)' = WorkloadReady(t)
  BY <1>3, <1>4 DEF WorkloadReady, newStatus
<1>6. ~Succeeding(t)' /\ ~Failing(t)'
  BY DEF Succeeding, Failing
<1>7. /\ WorkloadWrites(t)' \in Int /\ WorkloadWrites(t) \in Int
      /\ WorkloadWrites(t)' <= WorkloadWrites(t)
  BY <1>0, <1>5, <1>6, WorkloadsLeft
<1>8. /\ Verdicts(t)' + 1 <= Verdicts(t)
      /\ Verdicts(t) \in 0 .. 2 /\ Verdicts(t)' \in 0 .. 2
  BY <1>1, VerdictWritten, VerdictsRange
<1>9. Verdicts(t)' + WorkloadWrites(t)' + 1 <= Verdicts(t) + WorkloadWrites(t)
  BY <1>7, <1>8
<1>10. WorkloadReady(t)' = "True" => job[t].cur.rv > 0
  BY <1>0, <1>5 DEF JobsPaid
<1>11. worker'.pc = "idle" \/ worker'.key = t
  BY <1>1
<1> QED
  BY <1>1, <1>2, <1>7, <1>9, <1>10, <1>11, AccountStatusStored

\* The condition of updateWorkloadCondition is stored.
LEMMA AccountWorkload ==
    ASSUME IInv, AccountInv, NEW n, Pays(n), worker.pc = "workload", Accepts,
           workloadStatus # worker.isvc.obj.status, StoreStatus(workloadStatus),
           UNCHANGED <<model, tenant, job, verified>>, worker'.pc = "idle"
    PROVE  AccountInv'
<1>0. TypeOK /\ WatchesFinite /\ JobsPaid
  BY DEF IInv, AccountInv
<1>1. PICK t \in Services : worker.key = t
  BY <1>0, WorkerBusy
<1>2. workloadStatus \in InferenceServiceStatus
  BY <1>0, WorkloadStatusType
<1>3. /\ WorkloadWrites(t)' \in Int /\ WorkloadWrites(t) \in Int
      /\ WorkloadWrites(t)' + 1 <= WorkloadWrites(t)
  BY <1>0, <1>1, WorkloadWritten
<1>4. /\ Verdicts(t)' <= Verdicts(t)
      /\ Verdicts(t) \in 0 .. 2 /\ Verdicts(t)' \in 0 .. 2
  BY <1>1, VerdictsWorkload, VerdictsRange
<1>5. Verdicts(t)' + WorkloadWrites(t)' + 1 <= Verdicts(t) + WorkloadWrites(t)
  BY <1>3, <1>4
<1>6. WorkloadReady(t)' = "True" => job[t].cur.rv > 0
  <2>1. Object(t)' # None /\ Object(t)'.status = workloadStatus
    BY <1>1, <1>2, StatusWritten
  <2>2. workloadStatus.conditions["WorkloadReady"] =
           IF worker.jobErr THEN "False" ELSE "True"
    <3>1. /\ worker.isvc.obj.status \in InferenceServiceStatus
          /\ worker.isvc.obj.status.conditions \in
                [ServiceConditions -> ConditionStatus]
      BY <1>0, WorkerBusy DEF InferenceService, InferenceServiceStatus
    <3> QED
      BY <3>1 DEF workloadStatus, SetCond, ServiceConditions, InferenceServiceStatus
  <2>3. WorkloadReady(t)' = IF worker.jobErr THEN "False" ELSE "True"
    BY <2>1, <2>2 DEF WorkloadReady
  <2> QED
    BY <1>0, <1>1, <2>3 DEF JobsPaid
<1> QED
  BY <1>1, <1>2, <1>3, <1>5, <1>6, AccountStatusStored

\* A Job is created, the worker told so or not.
LEMMA AccountJobCreated ==
    ASSUME IInv, AccountInv, NEW n, Pays(n), worker.pc = "create",
           job[worker.key].cur.obj = None, StoreJob, NEW err \in BOOLEAN,
           WorkloadStep(err), err => n = 2, UNCHANGED <<isvc, model, tenant, verified>>
    PROVE  AccountInv'
<1>0. TypeOK /\ WatchesFinite
  BY DEF IInv, AccountInv
<1>1. PICK t \in Services : worker.key = t
  BY <1>0, WorkerBusy
<1>2. /\ worker.model # None /\ worker.model.ready
      /\ Verified(verified, worker.isvc.obj.spec.model, worker.model)
  BY DEF IInv, WorkerJudged
<1>3. verified # {}
  BY <1>2 DEF Verified
<1>4. desired \in Job
  BY <1>0, <1>2, TypeStoreJob
<1>5. job' = [job EXCEPT ![t] = Put(@, desired)]
  BY <1>1 DEF StoreJob
<1>6. worker'.pc = "workload" /\ worker'.key = t
  BY <1>0, <1>1, WorkloadStepIs
<1>7. /\ IsFiniteSet(job[t].watch)'
      /\ WorkloadWrites(t)' \in Int /\ WorkloadWrites(t) \in Int
      /\ WorkloadWrites(t)' <= WorkloadWrites(t) + IF err THEN 4 ELSE 2
  BY <1>0, <1>1, WorkloadsJobCreated
<1>8. n \in 0 .. 2
  BY <1>0, CreditPaid
<1>9. WorkloadWrites(t)' <= WorkloadWrites(t) + n + 2
  BY <1>7, <1>8
<1> HIDE DEF desired
<1> QED
  BY <1>1, <1>3, <1>4, <1>5, <1>6, <1>7, <1>9, AccountJobWritten

\* A step of reconcileKueueJob that stores nothing.
LEMMA AccountJobStep ==
    ASSUME IInv, AccountInv, NEW n, Pays(n),
           UNCHANGED <<isvc, model, tenant, job, verified>>,
           worker.pc \in {"job", "create"}, worker'.pc \in {"create", "workload"},
           worker'.pc = "workload" /\ ~worker'.jobErr =>
              job[worker'.key].cur.rv > 0,
           \A s \in Services : /\ WorkloadWrites(s)' \in Int
                               /\ WorkloadWrites(s)' <= WorkloadWrites(s) + n
    PROVE  AccountInv'
<1>0. TypeOK
  BY DEF IInv
<1>1. \A s \in Services : Verdicts(s)' <= Verdicts(s)
  BY <1>0, VerdictsLeft DEF SameCaches
<1> QED
  BY <1>1, AccountQuiet

\* After updateStatus, Reconcile ends or goes on to the Job.
LEMMA AfterStatusIs ==
    ASSUME TypeOK, NEW copy, AfterStatus(copy)
    PROVE  worker'.pc = "idle" \/ (worker'.pc = "job" /\ worker'.key = worker.key)
<1>1. CASE anyErr
  BY <1>1 DEF AfterStatus, Requeue, Idle
<1>2. CASE ~anyErr
  <2>1. worker' = [worker EXCEPT !.pc = "job", !.isvc = copy]
    BY <1>2 DEF AfterStatus, Continue
  <2>2. worker \in Worker
    BY DEF TypeOK
  <2> QED
    BY <2>1, <2>2 DEF Worker
<1> QED
  BY <1>1, <1>2

\* The Reconcile calls that meet no failure.
LEMMA AccountReconcile == IInv /\ AccountInv /\ Reconcile => AccountInv'
<1> SUFFICES ASSUME IInv, AccountInv, Reconcile PROVE AccountInv'
  OBVIOUS
<1>0. TypeOK /\ WatchesFinite /\ JobsFollowed /\ JobsPaid
  BY DEF IInv, AccountInv
<1>1. CASE ResolveModel \/ ResolveTenant
  <2>1. /\ UNCHANGED <<isvc, model, tenant, job, budget, verified>>
        /\ worker.pc \in {"model", "tenant"} /\ worker'.pc \in {"tenant", "status"}
    BY <1>0, <1>1
       DEF ResolveModel, ResolveTenant, At, Continue, kube, TypeOK, Worker
  <2>2. Pays(0)
    BY <2>1 DEF Pays
  <2>3. ASSUME NEW s \in Services
        PROVE  /\ Verdicts(s)' <= Verdicts(s)
               /\ WorkloadWrites(s)' \in Int
               /\ WorkloadWrites(s)' <= WorkloadWrites(s) + 0
    <3>1. Verdicts(s)' = Verdicts(s) /\ Verdicts(s) \in 0 .. 2
      BY <1>1, VerdictsRead, VerdictsRange
    <3>2. WorkloadReady(s)' = WorkloadReady(s) /\ ~Succeeding(s)' /\ ~Failing(s)'
      BY <2>1 DEF WorkloadReady, Object, Succeeding, Failing
    <3>3. /\ WorkloadWrites(s)' \in Int /\ WorkloadWrites(s) \in Int
          /\ WorkloadWrites(s)' <= WorkloadWrites(s)
      BY <1>0, <2>1, <3>2, WorkloadsLeft
    <3> QED
      BY <3>1, <3>3
  <2> QED
    BY <2>1, <2>2, <2>3, AccountQuiet
<1>2. CASE UpdateStatusSkipped \/ UpdateStatusRefused
  <2>1. UNCHANGED <<isvc, model, tenant, job, budget, verified>>
    BY <1>2 DEF UpdateStatusSkipped, UpdateStatusRefused, kube
  <2>2. worker'.pc \in {"idle", "job"}
    <3>1. Requeue => worker'.pc = "idle"
      BY DEF Requeue, Idle
    <3>2. AfterStatus(worker.isvc) => worker'.pc \in {"idle", "job"}
      BY <1>0, AfterStatusIs
    <3> QED
      BY <1>2, <3>1, <3>2 DEF UpdateStatusSkipped, UpdateStatusRefused
  <2>3. Pays(0)
    BY <2>1 DEF Pays
  <2> QED
    BY <2>1, <2>2, <2>3, AccountLeft
<1>3. CASE UpdateStatusStored
  <2>1. /\ worker.pc = "status" /\ Accepts
        /\ newStatus # worker.isvc.obj.status /\ StoreStatus(newStatus)
        /\ UNCHANGED <<model, tenant, job, budget, verified>>
        /\ AfterStatus(Stored(newStatus))
    BY <1>3 DEF UpdateStatusStored, At
  <2>2. worker'.pc = "idle" \/ (worker'.pc = "job" /\ worker'.key = worker.key)
    BY <1>0, <2>1, AfterStatusIs
  <2>3. Pays(0)
    BY <2>1 DEF Pays
  <2> QED
    BY <2>1, <2>2, <2>3, AccountVerdict
<1>4. CASE GetJob \/ JobAlreadyExists
  <2>1. /\ UNCHANGED <<isvc, model, tenant, job, budget, verified>>
        /\ worker.pc \in {"job", "create"}
    BY <1>4 DEF GetJob, JobAlreadyExists, At, kube
  <2>2. Pays(0)
    BY <2>1 DEF Pays
  <2>3. \A s \in Services : /\ WorkloadWrites(s)' \in Int
                            /\ WorkloadWrites(s)' <= WorkloadWrites(s) + 0
    <3> SUFFICES ASSUME NEW s \in Services
                 PROVE  /\ WorkloadWrites(s)' \in Int
                        /\ WorkloadWrites(s)' <= WorkloadWrites(s) + 0
      OBVIOUS
    <3>1. WorkloadWrites(s)' = WorkloadWrites(s) /\ WorkloadWrites(s) \in Int
      BY <1>0, <1>4, WorkloadsGetJob, WorkloadsRefused, AccountType
    <3> QED
      BY <3>1
  <2>4. worker.key \in Services
    BY <1>0, <2>1, WorkerBusy
  <2>5. /\ worker'.pc \in {"create", "workload"}
        /\ worker'.pc = "workload" /\ ~worker'.jobErr => job[worker'.key].cur.rv > 0
    <3>1. CASE JobAlreadyExists
      BY <1>0, <3>1, WorkloadStepIs DEF JobAlreadyExists
    <3>2. CASE GetJob /\ job[worker.key].cache.obj = None
      <4>1. worker'.pc = "create"
        BY <1>0, <3>2 DEF GetJob, Continue, TypeOK, Worker
      <4> QED
        BY <4>1
    <3>3. CASE GetJob /\ job[worker.key].cache.obj # None
      <4>1. worker'.pc = "workload" /\ worker'.key = worker.key
        BY <1>0, <3>3, WorkloadStepIs DEF GetJob
      <4>2. job[worker.key].cur.rv > 0
        BY <1>0, <2>4, <3>3, JobHasVersion
      <4> QED
        BY <4>1, <4>2
    <3> QED
      BY <1>4, <3>1, <3>2, <3>3
  <2> QED
    BY <2>1, <2>2, <2>3, <2>5, AccountJobStep
<1>5. CASE CreateJob
  <2>1. /\ worker.pc = "create" /\ job[worker.key].cur.obj = None /\ StoreJob
        /\ WorkloadStep(FALSE) /\ UNCHANGED <<isvc, model, tenant, budget, verified>>
    BY <1>5 DEF CreateJob, At
  <2>2. Pays(0)
    BY <2>1 DEF Pays
  <2> QED
    BY <2>1, <2>2, AccountJobCreated
<1>6. CASE WorkloadSkipped \/ WorkloadRefused
  <2>1. UNCHANGED <<isvc, model, tenant, job, budget, verified>>
    BY <1>6 DEF WorkloadSkipped, WorkloadRefused, kube
  <2>2. worker'.pc = "idle"
    BY <1>6 DEF WorkloadSkipped, WorkloadRefused, AfterWorkload, Requeue, Return, Idle
  <2>3. Pays(0)
    BY <2>1 DEF Pays
  <2> QED
    BY <2>1, <2>2, <2>3, AccountLeft
<1>7. CASE WorkloadStored
  <2>1. /\ worker.pc = "workload" /\ Accepts
        /\ workloadStatus # worker.isvc.obj.status /\ StoreStatus(workloadStatus)
        /\ UNCHANGED <<model, tenant, job, budget, verified>>
    BY <1>7 DEF WorkloadStored, At
  <2>2. worker'.pc = "idle"
    BY <1>7 DEF WorkloadStored, AfterWorkload, Requeue, Return, Idle
  <2>3. Pays(0)
    BY <2>1 DEF Pays
  <2> QED
    BY <2>1, <2>2, <2>3, AccountWorkload
<1> QED
  BY <1>1, <1>2, <1>3, <1>4, <1>5, <1>6, <1>7 DEF Reconcile

\* Lost calls, lost answers and the death of the process.
LEMMA AccountFailure == IInv /\ AccountInv /\ Failure => AccountInv'
<1> SUFFICES ASSUME IInv, AccountInv, Failure PROVE AccountInv'
  OBVIOUS
<1>0. TypeOK /\ WatchesFinite /\ JobsFollowed /\ JobsPaid /\ Account
  BY DEF IInv, AccountInv
<1>1. Spend("fault") => Pays(2)
  BY DEF Pays, Price, Kinds
<1>2. CASE GetFails \/ UpdateStatusLost \/ WorkloadLost
  <2>1. /\ UNCHANGED <<isvc, model, tenant, job, verified>> /\ Spend("fault")
        /\ worker'.pc = "idle"
    BY <1>2 DEF GetFails, UpdateStatusLost, WorkloadLost, Requeue, Idle, kube
  <2> QED
    BY <1>1, <2>1, AccountLeft
<1>3. CASE UpdateStatusTimesOut
  <2>1. /\ worker.pc = "status" /\ Accepts /\ Spend("fault")
        /\ newStatus # worker.isvc.obj.status /\ StoreStatus(newStatus)
        /\ UNCHANGED <<model, tenant, job, verified>> /\ worker'.pc = "idle"
    BY <1>3 DEF UpdateStatusTimesOut, At, Requeue, Idle
  <2> QED
    BY <1>1, <2>1, AccountVerdict
<1>4. CASE JobCallLost
  <2>1. /\ UNCHANGED <<isvc, model, tenant, job, verified>> /\ Spend("fault")
        /\ worker.pc \in {"job", "create"} /\ WorkloadStep(TRUE)
    BY <1>4 DEF JobCallLost, kube
  <2>2. worker'.pc = "workload" /\ worker'.jobErr
    BY <1>0, <2>1, WorkloadStepIs
  <2>3. \A s \in Services : /\ WorkloadWrites(s)' \in Int
                            /\ WorkloadWrites(s)' <= WorkloadWrites(s) + 2
    BY <1>0, <1>4, WorkloadsLost
  <2> QED
    BY <1>1, <2>1, <2>2, <2>3, AccountJobStep
<1>5. CASE CreateJobTimesOut
  <2>1. /\ worker.pc = "create" /\ job[worker.key].cur.obj = None /\ StoreJob
        /\ WorkloadStep(TRUE) /\ UNCHANGED <<isvc, model, tenant, verified>>
        /\ Spend("fault")
    BY <1>5 DEF CreateJobTimesOut, At
  <2> QED
    BY <1>1, <2>1, AccountJobCreated
<1>6. CASE WorkloadTimesOut
  <2>1. /\ worker.pc = "workload" /\ Accepts /\ Spend("fault")
        /\ workloadStatus # worker.isvc.obj.status /\ StoreStatus(workloadStatus)
        /\ UNCHANGED <<model, tenant, job, verified>> /\ worker'.pc = "idle"
    BY <1>6 DEF WorkloadTimesOut, At, Requeue, Idle
  <2> QED
    BY <1>1, <2>1, AccountWorkload
<1>7. CASE Restart
  <2>1. /\ isvc' = [s \in Services |-> Relist(isvc[s])]
        /\ model' = [m \in Models |-> Relist(model[m])]
        /\ tenant' = Relist(tenant)
        /\ job' = [s \in Services |-> Relist(job[s])]
        /\ worker'.pc = "idle" /\ verified' = verified /\ Spend("restart")
    BY <1>7 DEF Restart, Idle
  <2>2. /\ \A m \in Models : model'[m].watch = {}
        /\ tenant'.watch = {}
    BY <2>1 DEF Relist
  <2>3. UnseenModels' = {}
    BY <2>2 DEF UnseenModels
  <2>4. IsFiniteSet(UnseenModels)' /\ IsFiniteSet(tenant.watch)' /\ Unseen' = 0
    BY <2>2, <2>3, FS_EmptySet DEF Unseen
  <2>5. \A s \in Services : /\ isvc'[s].cur = isvc[s].cur
                            /\ job'[s] = Relist(job[s])
                            /\ job'[s].cur = job[s].cur /\ job'[s].watch = {}
    BY <2>1 DEF Relist
  <2>6. WatchesFinite'
    BY <2>4, <2>5, FS_EmptySet DEF WatchesFinite
  <2>7. JobsFollowed'
    <3> SUFFICES ASSUME NEW s \in Services
                 PROVE  /\ Coherent(job'[s]) /\ Followed(job'[s])
                        /\ job'[s].cur.rv = 0 => job'[s].cur.obj = None
      BY DEF JobsFollowed
    <3>1. job[s] \in Replica(Job) /\ Coherent(job[s]) /\ Followed(job[s])
      BY <1>0 DEF TypeOK, JobsFollowed
    <3>2. Coherent(Relist(job[s])) /\ Followed(Relist(job[s]))
      BY <3>1, RelistVersions, FollowedReplica
    <3> QED
      BY <1>0, <2>5, <3>2 DEF JobsFollowed
  <2>8. Pays(2)
    BY <2>1 DEF Pays, Price, Kinds
  <2>9. /\ \A s \in Services : Credit(s) \in Int /\ Credit(s)' = Credit(s) + 2
        /\ Spent("model") \in Int /\ Spent("model")' \in Int
        /\ Spent("model") <= Spent("model")'
    BY <1>0, <2>5, <2>8, CreditPaid
  <2>10. ASSUME NEW s \in Services PROVE Covered(s)'
    <3>1. /\ Covered(s) /\ isvc[s].cur.rv \in Nat /\ Unseen \in Nat
          /\ Verdicts(s) \in 0 .. 2 /\ WorkloadWrites(s) \in Int
      BY <1>0, AccountType DEF Account
    <3>2. Verdicts(s)' <= 1 /\ Verdicts(s)' \in 0 .. 2
      BY <2>1, VerdictsFresh, VerdictsRange
    <3>3. WorkloadWrites(s)' \in Int /\ WorkloadWrites(s)' <= WorkloadWrites(s)
      BY <1>0, <2>1, <2>5, WorkloadsRestarted
    <3> QED
      BY <1>0, <2>4, <2>5, <2>9, <3>1, <3>2, <3>3, StillCovered
  <2>11. \A s \in Services : WorkloadReady(s)' = "True" => WorkloadReady(s) = "True"
    BY <2>5 DEF WorkloadReady, Object
  <2>12. JobsPaid'
    BY <1>0, <2>1, <2>5, <2>9, <2>11, PaidKept
  <2> QED
    BY <2>6, <2>7, <2>10, <2>12 DEF AccountInv, Account
<1>8. ASSUME NEW m \in Models, ListFails(m) PROVE AccountInv'
  <2>1. PICK v \in model[m].watch :
           /\ model' = [model EXCEPT ![m] = Deliver(@, v)]
           /\ UNCHANGED <<isvc, tenant, job, worker, verified>> /\ Spend("list")
    BY <1>8 DEF ListFails
  <2>2. Pays(0)
    BY <2>1 DEF Pays, Price, Kinds
  <2> QED
    BY <2>1, <2>2, AccountModelDelivered
<1>9. ASSUME NEW s \in Services, FirstGetFails(s) PROVE AccountInv'
  <2>1. /\ UNCHANGED <<isvc, model, tenant, job, verified>> /\ Spend("fault")
        /\ worker'.pc = "idle"
    BY <1>9 DEF FirstGetFails, At, kube
  <2> QED
    BY <1>1, <2>1, AccountLeft
<1> QED
  BY <1>2, <1>3, <1>4, <1>5, <1>6, <1>7, <1>8, <1>9 DEF Failure

-----------------------------------------------------------------------------
(* The theorems.                                                           *)

\* At the start nothing is stored and one write is in credit.
LEMMA AccountInit == Init => AccountInv
<1> SUFFICES ASSUME Init PROVE AccountInv
  OBVIOUS
<1>0. TypeOK
  BY TypeInit
<1>1. /\ \A m \in Models : model[m].watch = {}
      /\ tenant.watch = {}
      /\ \A s \in Services :
            /\ job[s] = InitialReplica(None) /\ isvc[s].cur.rv = 0
            /\ Object(s) = None
      /\ worker.pc = "idle" /\ verified = {} /\ budget = Budget
  BY DEF Init, InitialReplica, Idle, Object
<1>2. \A s \in Services :
         /\ job[s].cur = [rv |-> 0, obj |-> None]
         /\ job[s].cache = job[s].cur /\ job[s].watch = {}
  BY <1>1 DEF InitialReplica
<1>3. UnseenModels = {}
  BY <1>1 DEF UnseenModels
<1>4. WatchesFinite /\ Unseen = 0
  <2>1. IsFiniteSet({}) /\ Cardinality({}) = 0
    BY FS_EmptySet
  <2>2. \A s \in Services : job[s].watch = {}
    BY <1>2
  <2>3. WatchesFinite
    BY <1>1, <1>3, <2>1, <2>2, Zenon DEF WatchesFinite
  <2>4. Cardinality(UnseenModels) = 0 /\ Cardinality(tenant.watch) = 0
    BY <1>1, <1>3, <2>1
  <2> QED
    BY <2>3, <2>4 DEF Unseen
<1>5. JobsFollowed
  BY <1>2 DEF JobsFollowed, Coherent, Followed, Versions
<1>6. \A k \in Kinds : Spent(k) = 0
  <2>1. Budget \in [Kinds -> Nat]
    BY ConstantsAssumption
  <2>2. \A k \in Kinds : Budget[k] \in Nat
    BY <2>1
  <2> QED
    BY <1>1, <2>2 DEF Spent
<1>7. Events = 0 /\ Spent("model") = 0
  BY <1>6 DEF Events, Kinds
<1>8. \A s \in Services : WorkloadReady(s) = "Absent"
  BY <1>1 DEF WorkloadReady
<1>9. JobsPaid
  BY <1>1, <1>2, <1>7, <1>8 DEF JobsPaid
<1>10. ASSUME NEW s \in Services PROVE Covered(s)
  <2>1. Verdicts(s) = 0
    BY <1>1, VerdictsRange
  <2>2. UnseenJobs(s) = {} /\ ~Behind(s) /\ ~Failing(s)
    BY <1>1, <1>2 DEF UnseenJobs, Behind, Failing, Active
  <2>3. WorkloadWrites(s) = 1
    BY <1>8, <2>2, FS_EmptySet DEF WorkloadWrites
  <2>4. Credit(s) = 1
    BY <1>2, <1>7 DEF Credit
  <2> QED
    BY <1>1, <1>4, <2>1, <2>3, <2>4 DEF Covered
<1> QED
  BY <1>4, <1>5, <1>9, <1>10 DEF AccountInv, Account

\* The account never says less than WritesBounded: where there was no Job the
\* write of WorkloadReady is still to come, and where there was one a Model
\* event has paid a write that no verdict needs.
LEMMA AccountBounds == IInv /\ AccountInv => WritesBounded
<1> SUFFICES ASSUME IInv, AccountInv, NEW s \in Services
             PROVE  isvc[s].cur.rv <= 2 * (Events + job[s].cur.rv)
  BY DEF WritesBounded
<1>0. TypeOK /\ WatchesFinite /\ JobsFollowed /\ JobsPaid /\ Account
  BY DEF IInv, AccountInv
<1>1. /\ isvc[s].cur.rv \in Nat /\ job[s].cur.rv \in Nat /\ Unseen \in Nat
      /\ Verdicts(s) \in 0 .. 2 /\ WorkloadWrites(s) \in Int
      /\ Events \in Int /\ Spent("model") \in Int
  BY <1>0, AccountType
<1>2. isvc[s].cur.rv + Unseen + Verdicts(s) + WorkloadWrites(s)
         <= 2 * (Events + job[s].cur.rv) - Spent("model") + 1
  BY <1>0 DEF Account, Covered, Credit
<1>3. WorkloadWrites(s) >= IF WorkloadReady(s) = "True" THEN 0 ELSE 1
  BY <1>0, WorkloadsLeast
<1>4. /\ Spent("model") >= IF verified = {} THEN 0 ELSE 1
      /\ job[s].cur.rv > 0 => verified # {}
      /\ WorkloadReady(s) = "True" => job[s].cur.rv > 0
  BY <1>0 DEF JobsPaid
<1> HIDE DEF Events, Spent, WorkloadReady, WorkloadWrites, Verdicts, Unseen
<1>5. WorkloadWrites(s) + Spent("model") >= 1
  BY <1>1, <1>3, <1>4
<1> QED
  BY <1>1, <1>2, <1>5

\* Whatever users, failures and the other controllers do and in whatever
\* order the caches follow, the status writes made and still to come stay
\* within what has been paid for.
THEOREM AccountStays == Spec => []AccountInv
<1>1. Init => AccountInv
  BY AccountInit
<1>2. IInv /\ AccountInv /\ [Next]_vars => AccountInv'
  <2> SUFFICES ASSUME IInv, AccountInv, [Next]_vars PROVE AccountInv'
    OBVIOUS
  <2>1. CASE \E s \in Services : Get(s)
    <3>1. /\ UNCHANGED <<isvc, model, tenant, job, budget, verified>>
          /\ worker'.pc \in {"idle", "model"}
      <4>1. PICK s \in Services : Get(s)
        BY <2>1
      <4>2. /\ UNCHANGED <<isvc, model, tenant, job, budget, verified>>
            /\ \/ worker' = Idle
               \/ worker' = [Idle EXCEPT !.pc = "model", !.key = s,
                                         !.isvc = isvc[s].cache]
        BY <4>1 DEF Get, Return, Continue, kube
      <4>3. Idle.pc = "idle" /\ [Idle EXCEPT !.pc = "model", !.key = s,
                                             !.isvc = isvc[s].cache].pc = "model"
        BY DEF Idle
      <4> QED
        BY <4>2, <4>3
    <3>2. Pays(0)
      BY <3>1 DEF Pays
    <3> QED
      BY <3>1, <3>2, AccountLeft
  <2>2. CASE UNCHANGED vars
    BY <2>2, AccountKept DEF vars
  <2> QED
    BY <2>1, <2>2, AccountEnvironment, AccountDelivery, AccountReconcile,
       AccountFailure DEF Next
<1> QED
  BY <1>1, <1>2, Inductive, PTL DEF Spec

\* The InferenceService controller does not feed itself: however many
\* services, Models and events there are, the versions of an InferenceService
\* are bounded by twice the events and the versions of its Job.
THEOREM WritesAreBounded == Spec => []WritesBounded
<1>1. IInv /\ AccountInv => WritesBounded
  BY AccountBounds
<1> QED
  BY <1>1, Inductive, AccountStays, PTL

-----------------------------------------------------------------------------
(* The versions of a Job, and the bound without them.                      *)

Deletions == Spent("deleteJob") + Spent("collect")

\* A Job is created, deleted, created again: a deletion brings two versions.
JobVersionsPaid ==
    \A s \in Services :
        job[s].cur.rv + (IF job[s].cur.obj = None THEN 1 ELSE 0)
            <= 2 * Deletions + 1

\* Deletions are only ever added, and one by each that happens.
LEMMA DeletionsCounted ==
    ASSUME TypeOK, budget' = budget \/ \E k \in Kinds : Spend(k)
    PROVE  /\ Deletions \in Int /\ Deletions' \in Int /\ Deletions <= Deletions'
           /\ Spend("deleteJob") \/ Spend("collect") => Deletions' = Deletions + 1
<1>1. /\ budget \in [Kinds -> Nat] /\ Budget \in [Kinds -> Nat]
      /\ "deleteJob" \in Kinds /\ "collect" \in Kinds
  BY ConstantsAssumption DEF TypeOK, Kinds
<1>2. /\ budget["deleteJob"] \in Nat /\ budget["collect"] \in Nat
      /\ Budget["deleteJob"] \in Nat /\ Budget["collect"] \in Nat
  BY <1>1
<1>3. CASE budget' = budget
  <2>1. Deletions' = Deletions /\ Deletions \in Int
    BY <1>2, <1>3 DEF Deletions, Spent
  <2>2. ~Spend("deleteJob") /\ ~Spend("collect")
    BY <1>1, <1>2, <1>3 DEF Spend
  <2> QED
    BY <2>1, <2>2
<1>4. ASSUME NEW k \in Kinds, Spend(k)
      PROVE  /\ Deletions \in Int /\ Deletions' \in Int /\ Deletions <= Deletions'
             /\ k \in {"deleteJob", "collect"} => Deletions' = Deletions + 1
  BY <1>1, <1>2, <1>4 DEF Deletions, Spent, Spend
<1> QED
  BY <1>3, <1>4 DEF Kinds

\* Steps that leave the stored Jobs alone.
LEMMA VersionsKept ==
    ASSUME TypeOK, JobVersionsPaid, budget' = budget \/ \E k \in Kinds : Spend(k),
           \A s \in Services : job'[s].cur = job[s].cur
    PROVE  JobVersionsPaid'
<1> SUFFICES ASSUME NEW s \in Services
             PROVE  job'[s].cur.rv + (IF job'[s].cur.obj = None THEN 1 ELSE 0)
                       <= 2 * Deletions' + 1
  BY DEF JobVersionsPaid
<1>1. /\ job[s].cur.rv \in Nat
      /\ job[s].cur.rv + (IF job[s].cur.obj = None THEN 1 ELSE 0)
            <= 2 * Deletions + 1
  BY VersionsType DEF TypeOK, Version, JobVersionsPaid
<1>2. Deletions \in Int /\ Deletions' \in Int /\ Deletions <= Deletions'
  BY DeletionsCounted
<1> QED
  BY <1>1, <1>2

\* A Job is created where there was none, or deleted with an event.
LEMMA VersionsPut ==
    ASSUME TypeOK, JobVersionsPaid, NEW t \in Services, NEW o \in Job \cup {None},
           job' = [job EXCEPT ![t] = Put(@, o)],
           budget' = budget \/ \E k \in Kinds : Spend(k),
           \/ o # None /\ job[t].cur.obj = None
           \/ Spend("deleteJob") \/ Spend("collect")
    PROVE  JobVersionsPaid'
<1> SUFFICES ASSUME NEW s \in Services
             PROVE  job'[s].cur.rv + (IF job'[s].cur.obj = None THEN 1 ELSE 0)
                       <= 2 * Deletions' + 1
  BY DEF JobVersionsPaid
<1>1. /\ job[s].cur.rv \in Nat
      /\ job[s].cur.rv + (IF job[s].cur.obj = None THEN 1 ELSE 0)
            <= 2 * Deletions + 1
  BY VersionsType DEF TypeOK, Version, JobVersionsPaid
<1>2. /\ Deletions \in Int /\ Deletions' \in Int /\ Deletions <= Deletions'
      /\ Spend("deleteJob") \/ Spend("collect") => Deletions' = Deletions + 1
  BY DeletionsCounted
<1>3. CASE s # t
  <2>1. job'[s] = job[s]
    BY <1>3 DEF TypeOK
  <2> QED
    BY <1>1, <1>2, <2>1
<1>4. CASE s = t
  <2>1. job'[s].cur.rv = job[s].cur.rv + 1 /\ job'[s].cur.obj = o
    BY <1>4 DEF TypeOK, Put
  <2> QED
    BY <1>1, <1>2, <1>4, <2>1
<1> QED
  BY <1>3, <1>4

\* The controller creates a Job only where there is none, whatever its cache
\* shows, so the versions of a Job are bounded by its deletions.
THEOREM JobVersionsArePaid == Spec => []JobVersionsPaid
<1>1. Init => JobVersionsPaid
  <2> SUFFICES ASSUME Init, NEW s \in Services
               PROVE  job[s].cur.rv + (IF job[s].cur.obj = None THEN 1 ELSE 0)
                         <= 2 * Deletions + 1
    BY DEF JobVersionsPaid
  <2>1. job[s].cur.rv = 0 /\ budget = Budget
    BY DEF Init, InitialReplica
  <2>2. Deletions = 0
    <3>1. Budget["deleteJob"] \in Nat /\ Budget["collect"] \in Nat
      BY ConstantsAssumption DEF Kinds
    <3> QED
      BY <2>1, <3>1 DEF Deletions, Spent
  <2> QED
    BY <2>1, <2>2
<1>2. IInv /\ JobVersionsPaid /\ [Next]_vars => JobVersionsPaid'
  <2> SUFFICES ASSUME IInv, JobVersionsPaid, [Next]_vars PROVE JobVersionsPaid'
    OBVIOUS
  <2>0. TypeOK
    BY DEF IInv
  <2>1. budget' = budget \/ \E k \in Kinds : Spend(k)
    <3>1. Environment => \E k \in Kinds : Spend(k)
      BY DEF Environment, CreateService, UpdateService, DeleteService, DeleteJob,
             CollectJob, WriteModel, WriteTenant, Kinds
    <3>2. Delivery => budget' = budget
      BY DEF Delivery, DeliverService, DeliverJob, TimerFires, Resync, DeliverModel,
             DeliverTenant
    <3>3. (\E s \in Services : Get(s)) => budget' = budget
      BY DEF Get
    <3>4. Reconcile => budget' = budget
      BY DEF Reconcile, ResolveModel, ResolveTenant, UpdateStatusSkipped,
             UpdateStatusStored, UpdateStatusRefused, GetJob, CreateJob,
             JobAlreadyExists, WorkloadSkipped, WorkloadStored, WorkloadRefused
    <3>5. Failure => \E k \in Kinds : Spend(k)
      BY DEF Failure, GetFails, UpdateStatusLost, UpdateStatusTimesOut, JobCallLost,
             CreateJobTimesOut, WorkloadLost, WorkloadTimesOut, Restart, ListFails,
             FirstGetFails, Kinds
    <3>6. UNCHANGED vars => budget' = budget
      BY DEF vars
    <3> QED
      BY <3>1, <3>2, <3>3, <3>4, <3>5, <3>6 DEF Next
  <2>2. CASE \E s \in Services : DeleteJob(s) \/ CollectJob(s)
    <3>1. PICK s \in Services : DeleteJob(s) \/ CollectJob(s)
      BY <2>2
    <3>2. /\ job' = [job EXCEPT ![s] = Put(@, None)]
          /\ Spend("deleteJob") \/ Spend("collect")
      BY <3>1 DEF DeleteJob, CollectJob
    <3> QED
      BY <2>0, <2>1, <3>2, VersionsPut
  <2>3. CASE CreateJob \/ CreateJobTimesOut
    <3>1. /\ worker.pc = "create" /\ job[worker.key].cur.obj = None /\ StoreJob
      BY <2>3 DEF CreateJob, CreateJobTimesOut, At
    <3>2. worker.key \in Services /\ worker.model # None
      BY <2>0, <3>1, WorkerBusy DEF IInv, WorkerJudged
    <3>3. desired \in Job /\ desired # None
      BY <2>0, <3>1, <3>2, TypeStoreJob, NoneAssumption
    <3>4. job' = [job EXCEPT ![worker.key] = Put(@, desired)]
      BY <3>1 DEF StoreJob
    <3> QED
      BY <2>0, <2>1, <3>1, <3>2, <3>3, <3>4, VersionsPut
  <2>4. ASSUME NEW s \in Services, DeliverJob(s) PROVE JobVersionsPaid'
    <3>1. PICK v \in job[s].watch : job' = [job EXCEPT ![s] = Deliver(@, v)]
      BY <2>4 DEF DeliverJob
    <3>2. Deliver(job[s], v).cur = job[s].cur
      BY DEF Deliver
    <3>3. \A t \in Services : job'[t].cur = job[t].cur
      BY <2>0, <3>1, <3>2 DEF TypeOK
    <3> QED
      BY <2>0, <2>1, <3>3, VersionsKept
  <2>5. CASE Restart
    <3>1. \A t \in Services : job'[t].cur = job[t].cur
      BY <2>5 DEF Restart, Relist
    <3> QED
      BY <2>0, <2>1, <3>1, VersionsKept
  <2>6. CASE job' = job
    BY <2>0, <2>1, <2>6, VersionsKept
  <2>7. CASE Environment
    BY <2>2, <2>6, <2>7
       DEF Environment, CreateService, UpdateService, DeleteService, WriteModel,
           WriteTenant
  <2>8. CASE Delivery
    BY <2>4, <2>6, <2>8
       DEF Delivery, DeliverService, TimerFires, Resync, DeliverModel, DeliverTenant,
           kube
  <2>9. CASE \E s \in Services : Get(s)
    BY <2>6, <2>9 DEF Get, kube
  <2>10. CASE Reconcile
    BY <2>3, <2>6, <2>10
       DEF Reconcile, ResolveModel, ResolveTenant, UpdateStatusSkipped,
           UpdateStatusStored, UpdateStatusRefused, GetJob, JobAlreadyExists,
           WorkloadSkipped, WorkloadStored, WorkloadRefused, kube
  <2>11. CASE Failure
    BY <2>3, <2>5, <2>6, <2>11
       DEF Failure, GetFails, UpdateStatusLost, UpdateStatusTimesOut, JobCallLost,
           WorkloadLost, WorkloadTimesOut, ListFails, FirstGetFails, kube
  <2>12. CASE UNCHANGED vars
    BY <2>6, <2>12 DEF vars
  <2> QED
    BY <2>7, <2>8, <2>9, <2>10, <2>11, <2>12 DEF Next
<1> QED
  BY <1>1, <1>2, Inductive, PTL DEF Spec

\* The bound in events alone, a Model counted by what is written of it.
WithinEvents ==
    \A s \in Services :
        isvc[s].cur.rv <=
            2 * (Spent("create") + Spent("update") + Spent("delete")
                   + Spent("tenant") + Spent("fault") + Spent("restart")
                   + 3 * Spent("deleteJob") + 2 * Spent("collect"))
              + Spent("model") + 3

\* What happens around an InferenceService bounds its versions, one for a
\* write of a Model and two for any other event, however its Jobs come and go.
THEOREM WritesAreWithinEvents == Spec => []WithinEvents
<1>1. IInv /\ AccountInv /\ JobVersionsPaid => WithinEvents
  <2> SUFFICES ASSUME IInv, AccountInv, JobVersionsPaid, NEW s \in Services
               PROVE  isvc[s].cur.rv <=
                        2 * (Spent("create") + Spent("update") + Spent("delete")
                               + Spent("tenant") + Spent("fault") + Spent("restart")
                               + 3 * Spent("deleteJob") + 2 * Spent("collect"))
                          + Spent("model") + 3
    BY DEF WithinEvents
  <2>0. TypeOK /\ WatchesFinite /\ JobsFollowed /\ Account
    BY DEF IInv, AccountInv
  <2>1. /\ isvc[s].cur.rv \in Nat /\ job[s].cur.rv \in Nat /\ Unseen \in Nat
        /\ Verdicts(s) \in 0 .. 2 /\ WorkloadWrites(s) \in Int
    BY <2>0, AccountType
  <2>2. WorkloadWrites(s) >= 0
    BY <2>0, <2>1, WorkloadsLeast
  <2>3. isvc[s].cur.rv + Unseen + Verdicts(s) + WorkloadWrites(s)
           <= 2 * (Events + job[s].cur.rv) - Spent("model") + 1
    BY <2>0 DEF Account, Covered, Credit
  <2>4. job[s].cur.rv + (IF job[s].cur.obj = None THEN 1 ELSE 0)
           <= 2 * (Spent("deleteJob") + Spent("collect")) + 1
    BY DEF JobVersionsPaid, Deletions
  <2>5. \A k \in Kinds : Spent(k) \in Int
    <3>1. budget \in [Kinds -> Nat] /\ Budget \in [Kinds -> Nat]
      BY <2>0, ConstantsAssumption DEF TypeOK
    <3>2. \A k \in Kinds : budget[k] \in Nat /\ Budget[k] \in Nat
      BY <3>1
    <3> QED
      BY <3>2 DEF Spent
  <2>6. /\ Spent("create") \in Int /\ Spent("update") \in Int
        /\ Spent("delete") \in Int /\ Spent("tenant") \in Int
        /\ Spent("fault") \in Int /\ Spent("restart") \in Int
        /\ Spent("deleteJob") \in Int /\ Spent("collect") \in Int
        /\ Spent("model") \in Int
    BY <2>5 DEF Kinds
  <2>7. Events = Spent("create") + Spent("update") + Spent("delete") + Spent("model")
                   + Spent("tenant") + Spent("deleteJob") + Spent("fault")
                   + Spent("restart")
    BY DEF Events
  <2> HIDE DEF Spent, WorkloadWrites, Verdicts, Unseen, Events
  <2> QED
    BY <2>1, <2>2, <2>3, <2>4, <2>6, <2>7
<1> QED
  BY <1>1, Inductive, AccountStays, JobVersionsArePaid, PTL
=============================================================================
