--------------------- MODULE InferenceServiceController ---------------------
(***************************************************************************)
(* internal/controller/inference_service_controller.go: one tenant         *)
(* namespace, its InferenceServices, the Models they name, the Tenant that *)
(* shares the namespace's name, and the batch/v1 Jobs the controller       *)
(* creates.                                                                *)
(*                                                                         *)
(* Reconcile is split where another process can step in: at each read of   *)
(* the cache and each write to the API server.  Between two such points it *)
(* works on its own copies, held in `worker'.  The controller has one      *)
(* worker (MaxConcurrentReconciles is not set).                            *)
(*                                                                         *)
(* A call to the API server may be lost, may be refused, and may be applied*)
(* although the caller sees an error.  The process may be killed at any    *)
(* point.  Users, the Model controller, the Tenant's owner, the garbage    *)
(* collector and the watch all run concurrently with it.                   *)
(***************************************************************************)
EXTENDS Resolution, Scheduling, WatchedObject, FiniteSets

CONSTANTS
    Services,       \* names of InferenceServices; also the names of their Jobs
    ServiceSpecs,   \* the specs users write
    ModelStates,    \* what the Model controller and users make of a Model
    TenantStates,   \* what the Tenant becomes (None: it is deleted)
    InitialTenant,
    Budget,         \* how often each event outside the controller happens
    Courses         \* and how often they happen together

\* The part of a Model this controller reads.
Model == [ready : BOOLEAN, uri : URIs \cup {""}]

\* The events that are not steps of the controller.
Kinds == {"create", "update", "delete", "model", "tenant", "deleteJob",
          "collect", "fault", "list", "restart"}

ASSUME NoneAssumption ==
    /\ None \notin InferenceService
    /\ None \notin Job
    /\ None \notin Model
    /\ None \notin Tenant
    /\ None \notin Int
    /\ None \notin BOOLEAN
    /\ None \notin Services

ASSUME ConstantsAssumption ==
    /\ ServiceSpecs \subseteq InferenceServiceSpec
    /\ ModelStates \subseteq Model \cup {None}
    /\ TenantStates \subseteq Tenant \cup {None}
    /\ InitialTenant \in Tenant \cup {None}
    /\ Budget \in [Kinds -> Nat]
    /\ Courses \subseteq [Kinds -> Nat]

VARIABLES
    isvc,       \* the InferenceServices, by name
    model,      \* the Models, by name
    tenant,     \* the Tenant of the namespace
    job,        \* the Jobs, by name
    queue,      \* the controller's work queue
    delayed,    \* keys waiting for RequeueAfter or for the rate limiter
    worker,     \* the Reconcile call in progress
    budget,     \* events left
    approved,   \* history: every [name, uid, spec] once stored as Ready
    verified    \* history: every [name, uri] of a Model once stored as Ready

kube == <<isvc, model, tenant, job>>
vars == <<isvc, model, tenant, job, queue, delayed, worker, budget,
          approved, verified>>

-----------------------------------------------------------------------------
Steps == {"idle", "model", "tenant", "status", "job", "create", "workload"}

\* The local variables of Reconcile.
Worker == [pc     : Steps,
           key    : Services \cup {None},
           isvc   : Version(InferenceService),
           model  : Model \cup {None},
           tenant : Tenant \cup {None},
           jobErr : BOOLEAN]

NoVersion == [rv |-> 0, obj |-> None]

Idle == [pc |-> "idle", key |-> None, isvc |-> NoVersion, model |-> None,
         tenant |-> None, jobErr |-> FALSE]

Init ==
    /\ isvc = [s \in Services |-> InitialReplica(None)]
    /\ model = [m \in Models |-> InitialReplica(None)]
    /\ tenant = InitialReplica(InitialTenant)
    /\ job = [s \in Services |-> InitialReplica(None)]
    /\ queue = {}
    /\ delayed = {}
    /\ worker = Idle
    /\ budget = Budget
    /\ approved = {}
    /\ verified = {}

\* With b left, some course of events allows for what has happened.
Together(b) == \E c \in Courses : \A k \in Kinds : Budget[k] - b[k] <= c[k]

Spend(kind) ==
    /\ budget[kind] > 0
    /\ budget' = [budget EXCEPT ![kind] = @ - 1]
    /\ Together(budget')

-----------------------------------------------------------------------------
(* What happens to the objects outside this controller.                    *)

\* A uid is never used again: the API server's version at creation serves.
CreateService(s, spec) ==
    /\ isvc[s].cur.obj = None
    /\ Spend("create")
    /\ isvc' = [isvc EXCEPT ![s] =
                 Put(@, [uid |-> @.cur.rv + 1, gen |-> 1, spec |-> spec,
                         status |-> NewStatus])]
    /\ UNCHANGED <<model, tenant, job, queue, delayed, worker, approved, verified>>

\* The API server counts changes of the spec in metadata.generation.  With
\* the same spec only metadata (an annotation, say) is written.
Edited(o, spec) ==
    [o EXCEPT !.gen = IF spec = o.spec THEN o.gen ELSE o.gen + 1, !.spec = spec]

UpdateService(s, spec) ==
    /\ isvc[s].cur.obj # None
    /\ Spend("update")
    /\ isvc' = [isvc EXCEPT ![s] = Put(@, Edited(@.cur.obj, spec))]
    /\ UNCHANGED <<model, tenant, job, queue, delayed, worker, approved, verified>>

DeleteService(s) ==
    /\ isvc[s].cur.obj # None
    /\ Spend("delete")
    /\ isvc' = [isvc EXCEPT ![s] = Put(@, None)]
    /\ UNCHANGED <<model, tenant, job, queue, delayed, worker, approved, verified>>

WriteModel(m, o) ==
    /\ o # None \/ model[m].cur.obj # None
    /\ Spend("model")
    /\ model' = [model EXCEPT ![m] = Put(@, o)]
    /\ verified' = IF o # None /\ o.ready
                   THEN verified \cup {[name |-> m, uri |-> o.uri]}
                   ELSE verified
    /\ UNCHANGED <<isvc, tenant, job, queue, delayed, worker, approved>>

WriteTenant(o) ==
    /\ o # tenant.cur.obj
    /\ Spend("tenant")
    /\ tenant' = Put(tenant, o)
    /\ UNCHANGED <<isvc, model, job, queue, delayed, worker, approved, verified>>

DeleteJob(s) ==
    /\ job[s].cur.obj # None
    /\ Spend("deleteJob")
    /\ job' = [job EXCEPT ![s] = Put(@, None)]
    /\ UNCHANGED <<isvc, model, tenant, queue, delayed, worker, approved, verified>>

\* The garbage collector deletes a Job whose controller reference names an
\* InferenceService that is gone; a new one of the same name is another owner.
Orphan(s) ==
    /\ job[s].cur.obj # None
    /\ isvc[s].cur.obj # None => isvc[s].cur.obj.uid # job[s].cur.obj.owner

\* While the controller's cache still shows the old InferenceService it
\* creates the orphan again each time, so the collections are counted too.
CollectJob(s) ==
    /\ Orphan(s)
    /\ Spend("collect")
    /\ job' = [job EXCEPT ![s] = Put(@, None)]
    /\ UNCHANGED <<isvc, model, tenant, queue, delayed, worker, approved, verified>>

-----------------------------------------------------------------------------
(* The informers.  SetupWithManager has the controller's queue follow      *)
(* InferenceServices and Models; Tenants and Jobs are cached because       *)
(* Reconcile reads them, but bring nothing to the queue.                   *)

DeliverService(s) ==
    \E v \in isvc[s].watch :
        /\ isvc' = [isvc EXCEPT ![s] = Deliver(@, v)]
        /\ queue' = queue \cup {s}
        /\ UNCHANGED <<model, tenant, job, delayed, worker, budget, approved,
                       verified>>

\* The list in mapModelToInferenceServices is a read of the cache.
mapModelToInferenceServices(m) ==
    {s \in Services : /\ isvc[s].cache.obj # None
                      /\ isvc[s].cache.obj.spec.model = m}

DeliverModel(m) ==
    \E v \in model[m].watch :
        /\ model' = [model EXCEPT ![m] = Deliver(@, v)]
        /\ queue' = queue \cup mapModelToInferenceServices(m)
        /\ UNCHANGED <<isvc, tenant, job, delayed, worker, budget, approved,
                       verified>>

\* The list fails and mapModelToInferenceServices returns nil: the change of
\* the Model reaches the cache and nobody's queue, and nothing tries again.
ListFails(m) ==
    \E v \in model[m].watch :
        /\ Spend("list")
        /\ model' = [model EXCEPT ![m] = Deliver(@, v)]
        /\ UNCHANGED <<isvc, tenant, job, queue, delayed, worker, approved,
                       verified>>

DeliverTenant ==
    \E v \in tenant.watch :
        /\ tenant' = Deliver(tenant, v)
        /\ UNCHANGED <<isvc, model, job, queue, delayed, worker, budget,
                       approved, verified>>

DeliverJob(s) ==
    \E v \in job[s].watch :
        /\ job' = [job EXCEPT ![s] = Deliver(@, v)]
        /\ UNCHANGED <<isvc, model, tenant, queue, delayed, worker, budget,
                       approved, verified>>

TimerFires(s) ==
    /\ s \in delayed
    /\ delayed' = delayed \ {s}
    /\ queue' = queue \cup {s}
    /\ UNCHANGED <<kube, worker, budget, approved, verified>>

\* The informer hands out its whole cache again (every ten hours, the
\* default of controller-runtime, which cmd/main.go leaves alone).
Resync(s) ==
    /\ isvc[s].cache.obj # None
    /\ queue' = queue \cup {s}
    /\ UNCHANGED <<kube, delayed, worker, budget, approved, verified>>

-----------------------------------------------------------------------------
(* Reconcile                                                               *)

Return ==
    /\ worker' = Idle
    /\ UNCHANGED delayed

\* Reconcile returns an error, or RequeueAfter: the key comes back later.
Requeue ==
    /\ worker' = Idle
    /\ delayed' = delayed \cup {worker.key}

Continue(w) ==
    /\ worker' = w
    /\ UNCHANGED delayed

At(pc) == worker.pc = pc

\* Mutant: NotFound is not returned early.
GetIgnoringNotFound(s) ==
    /\ At("idle")
    /\ s \in queue
    /\ queue' = queue \ {s}
    /\ Continue([Idle EXCEPT !.pc = "model", !.key = s, !.isvc = isvc[s].cache])
    /\ UNCHANGED <<kube, budget, approved, verified>>

Get(s) ==
    /\ At("idle")
    /\ s \in queue
    /\ queue' = queue \ {s}
    /\ IF isvc[s].cache.obj = None
       THEN Return
       ELSE Continue([Idle EXCEPT !.pc = "model", !.key = s,
                                  !.isvc = isvc[s].cache])
    /\ UNCHANGED <<kube, budget, approved, verified>>

\* The read of the InferenceService fails with anything but NotFound.
FirstGetFails(s) ==
    /\ At("idle")
    /\ s \in queue
    /\ Spend("fault")
    /\ queue' = queue \ {s}
    /\ delayed' = delayed \cup {s}
    /\ UNCHANGED <<kube, worker, approved, verified>>

ResolveModel ==
    /\ At("model")
    /\ Continue([worker EXCEPT !.pc = "tenant",
                   !.model = model[worker.isvc.obj.spec.model].cache.obj])
    /\ UNCHANGED <<kube, queue, budget, approved, verified>>

ResolveTenant ==
    /\ At("tenant")
    /\ Continue([worker EXCEPT !.pc = "status", !.tenant = tenant.cache.obj])
    /\ UNCHANGED <<kube, queue, budget, approved, verified>>

\* A read of a Model or of the Tenant that fails with anything but NotFound.
GetFails ==
    /\ worker.pc \in {"model", "tenant"}
    /\ Spend("fault")
    /\ Requeue
    /\ UNCHANGED <<kube, queue, approved, verified>>

\* Mutant: a Model that exists is good enough.
modelErrIfNotFound == worker.model = None

\* What Reconcile finds wrong, from the copies it has read.
modelErr    == worker.model = None \/ ~worker.model.ready
tenantErr   == worker.tenant = None
profileErr  == ResolveFails(worker.isvc.obj.spec.resourceProfile)
capacityErr ==
    /\ ~modelErr
    /\ ~profileErr
    /\ ~Check(worker.isvc.obj.spec.model,
              worker.isvc.obj.spec.resourceProfile).available
anyErr      == modelErr \/ tenantErr \/ profileErr \/ capacityErr

derivedPriority ==
    IF tenantErr THEN 0
    ELSE Calculate(worker.tenant.priority,
                   worker.isvc.obj.spec.workloadClass,
                   worker.isvc.obj.spec.priority)

\* Mutant: the conditions are built afresh instead of from the old ones.
newConditionsFromScratch ==
    LET c1  == SetCond(NewStatus.conditions, "ModelReady", modelErr)
        c2  == SetCond(c1, "TenantResolved", tenantErr)
        c3  == SetCond(c2, "ResourceProfileResolved", profileErr)
        c4  == SetCond(c3, "CapacityAvailable", capacityErr)
        c5  == SetCond(c4, "Accepted", FALSE)
    IN  SetCond(c5, "Ready", anyErr)

newConditions ==
    LET old == worker.isvc.obj.status.conditions
        c1  == SetCond(old, "ModelReady", modelErr)
        c2  == SetCond(c1, "TenantResolved", tenantErr)
        c3  == SetCond(c2, "ResourceProfileResolved", profileErr)
        c4  == SetCond(c3, "CapacityAvailable", capacityErr)
        c5  == SetCond(c4, "Accepted", FALSE)
    IN  SetCond(c5, "Ready", anyErr)

newStatus ==
    [conditions         |-> newConditions,
     phase              |-> IF anyErr THEN "Pending" ELSE "Ready",
     observedGeneration |-> worker.isvc.obj.gen,
     derivedPriority    |-> derivedPriority]

\* Mutant: a status write without the resourceVersion it was read at.
AcceptsAnyVersion == isvc[worker.key].cur.obj # None

\* The API server takes a status only for the version it stores now.
Accepts ==
    /\ isvc[worker.key].cur.obj # None
    /\ isvc[worker.key].cur.rv = worker.isvc.rv

\* The status subresource: the rest of the stored object stays as it is.
StoredObject(status) == [isvc[worker.key].cur.obj EXCEPT !.status = status]

StoreStatus(status) ==
    isvc' = [isvc EXCEPT ![worker.key] = Put(@, StoredObject(status))]

\* The caller's object as Status().Update leaves it.
Stored(status) ==
    [rv |-> isvc[worker.key].cur.rv + 1, obj |-> StoredObject(status)]

\* History: what the controller has judged, the spec it read.
Approve(status) ==
    approved' = IF status.phase = "Ready"
                THEN approved \cup {[name |-> worker.key,
                                     uid  |-> worker.isvc.obj.uid,
                                     spec |-> worker.isvc.obj.spec]}
                ELSE approved

\* Mutant: no RequeueAfter while a dependency is missing.
AfterStatusNoRequeue(copy) ==
    IF anyErr THEN Return
    ELSE Continue([worker EXCEPT !.pc = "job", !.isvc = copy])

AfterStatus(copy) ==
    IF anyErr THEN Requeue
    ELSE Continue([worker EXCEPT !.pc = "job", !.isvc = copy])

UpdateStatusSkipped ==
    /\ At("status")
    /\ newStatus = worker.isvc.obj.status
    /\ AfterStatus(worker.isvc)
    /\ UNCHANGED <<kube, queue, budget, approved, verified>>

UpdateStatusStored ==
    /\ At("status")
    /\ newStatus # worker.isvc.obj.status
    /\ Accepts
    /\ StoreStatus(newStatus)
    /\ Approve(newStatus)
    /\ AfterStatus(Stored(newStatus))
    /\ UNCHANGED <<model, tenant, job, queue, budget, verified>>

\* Conflict, or NotFound.
UpdateStatusRefused ==
    /\ At("status")
    /\ newStatus # worker.isvc.obj.status
    /\ ~Accepts
    /\ Requeue
    /\ UNCHANGED <<kube, queue, budget, approved, verified>>

\* The call fails on its way to the API server.
UpdateStatusLost ==
    /\ At("status")
    /\ newStatus # worker.isvc.obj.status
    /\ Spend("fault")
    /\ Requeue
    /\ UNCHANGED <<kube, queue, approved, verified>>

\* The status is stored, and the answer is lost.
UpdateStatusTimesOut ==
    /\ At("status")
    /\ newStatus # worker.isvc.obj.status
    /\ Accepts
    /\ Spend("fault")
    /\ StoreStatus(newStatus)
    /\ Approve(newStatus)
    /\ Requeue
    /\ UNCHANGED <<model, tenant, job, queue, verified>>

-----------------------------------------------------------------------------
(* reconcileKueueJob: read the cached Job, create it if there is none,     *)
(* leave it alone otherwise.                                               *)

WorkloadStep(err) ==
    Continue([worker EXCEPT !.pc = "workload", !.jobErr = err])

\* Mutant: a Job is looked for only until WorkloadReady has been True.
GetJobOnce ==
    /\ At("job")
    /\ IF /\ job[worker.key].cache.obj = None
          /\ worker.isvc.obj.status.conditions["WorkloadReady"] # "True"
       THEN Continue([worker EXCEPT !.pc = "create"])
       ELSE WorkloadStep(FALSE)
    /\ UNCHANGED <<kube, queue, budget, approved, verified>>

GetJob ==
    /\ At("job")
    /\ IF job[worker.key].cache.obj = None
       THEN Continue([worker EXCEPT !.pc = "create"])
       ELSE WorkloadStep(FALSE)
    /\ UNCHANGED <<kube, queue, budget, approved, verified>>

desired ==
    BuildJob(worker.isvc.obj.spec, worker.isvc.obj.uid, worker.model.uri,
             LocalQueueName(worker.isvc.obj.spec))

StoreJob == job' = [job EXCEPT ![worker.key] = Put(@, desired)]

CreateJob ==
    /\ At("create")
    /\ job[worker.key].cur.obj = None
    /\ StoreJob
    /\ WorkloadStep(FALSE)
    /\ UNCHANGED <<isvc, model, tenant, queue, budget, approved, verified>>

JobAlreadyExists ==
    /\ At("create")
    /\ job[worker.key].cur.obj # None
    /\ WorkloadStep(TRUE)
    /\ UNCHANGED <<kube, queue, budget, approved, verified>>

\* The read fails, or the create fails on its way to the API server.
JobCallLost ==
    /\ worker.pc \in {"job", "create"}
    /\ Spend("fault")
    /\ WorkloadStep(TRUE)
    /\ UNCHANGED <<kube, queue, approved, verified>>

CreateJobTimesOut ==
    /\ At("create")
    /\ job[worker.key].cur.obj = None
    /\ Spend("fault")
    /\ StoreJob
    /\ WorkloadStep(TRUE)
    /\ UNCHANGED <<isvc, model, tenant, queue, approved, verified>>

-----------------------------------------------------------------------------
(* updateWorkloadCondition, and the end of Reconcile.                      *)

workloadStatus ==
    [worker.isvc.obj.status EXCEPT
        !.conditions = SetCond(@, "WorkloadReady", worker.jobErr)]

AfterWorkload == IF worker.jobErr THEN Requeue ELSE Return

WorkloadSkipped ==
    /\ At("workload")
    /\ workloadStatus = worker.isvc.obj.status
    /\ AfterWorkload
    /\ UNCHANGED <<kube, queue, budget, approved, verified>>

WorkloadStored ==
    /\ At("workload")
    /\ workloadStatus # worker.isvc.obj.status
    /\ Accepts
    /\ StoreStatus(workloadStatus)
    /\ AfterWorkload
    /\ UNCHANGED <<model, tenant, job, queue, budget, approved, verified>>

WorkloadRefused ==
    /\ At("workload")
    /\ workloadStatus # worker.isvc.obj.status
    /\ ~Accepts
    /\ Requeue
    /\ UNCHANGED <<kube, queue, budget, approved, verified>>

WorkloadLost ==
    /\ At("workload")
    /\ workloadStatus # worker.isvc.obj.status
    /\ Spend("fault")
    /\ Requeue
    /\ UNCHANGED <<kube, queue, approved, verified>>

WorkloadTimesOut ==
    /\ At("workload")
    /\ workloadStatus # worker.isvc.obj.status
    /\ Accepts
    /\ Spend("fault")
    /\ StoreStatus(workloadStatus)
    /\ Requeue
    /\ UNCHANGED <<model, tenant, job, queue, approved, verified>>

-----------------------------------------------------------------------------
\* The process dies and its successor fills its caches with lists, each
\* service an Add event.
Restart ==
    /\ Spend("restart")
    /\ isvc' = [s \in Services |-> Relist(isvc[s])]
    /\ model' = [m \in Models |-> Relist(model[m])]
    /\ tenant' = Relist(tenant)
    /\ job' = [s \in Services |-> Relist(job[s])]
    /\ queue' = {s \in Services : isvc[s].cur.obj # None}
    /\ delayed' = {}
    /\ worker' = Idle
    /\ UNCHANGED <<approved, verified>>

Environment ==
    \/ \E s \in Services :
        \/ \E spec \in ServiceSpecs :
              CreateService(s, spec) \/ UpdateService(s, spec)
        \/ DeleteService(s)
        \/ DeleteJob(s)
        \/ CollectJob(s)
    \/ \E m \in Models, o \in ModelStates : WriteModel(m, o)
    \/ \E o \in TenantStates : WriteTenant(o)

Delivery ==
    \/ \E s \in Services :
        DeliverService(s) \/ DeliverJob(s) \/ TimerFires(s) \/ Resync(s)
    \/ \E m \in Models : DeliverModel(m)
    \/ DeliverTenant

\* The steps of Reconcile that need no failure.
Reconcile ==
    \/ ResolveModel \/ ResolveTenant
    \/ UpdateStatusSkipped \/ UpdateStatusStored \/ UpdateStatusRefused
    \/ GetJob \/ CreateJob \/ JobAlreadyExists
    \/ WorkloadSkipped \/ WorkloadStored \/ WorkloadRefused

Failure ==
    \/ \E m \in Models : ListFails(m)
    \/ \E s \in Services : FirstGetFails(s)
    \/ GetFails
    \/ UpdateStatusLost \/ UpdateStatusTimesOut
    \/ JobCallLost \/ CreateJobTimesOut
    \/ WorkloadLost \/ WorkloadTimesOut
    \/ Restart

Next ==
    \/ Environment
    \/ Delivery
    \/ \E s \in Services : Get(s)
    \/ Reconcile
    \/ Failure

Spec == Init /\ [][Next]_vars

-----------------------------------------------------------------------------
\* The worker runs, watches and timers make progress, the garbage collector
\* does its work.  The work queue is first in, first out, so a key in it is
\* taken even when others keep coming: strong fairness.  Nothing is assumed
\* of users or of failures.
Fairness ==
    /\ WF_vars(Reconcile)
    /\ \A s \in Services :
        /\ SF_vars(Get(s))
        /\ WF_vars(TimerFires(s))
        /\ WF_vars(DeliverService(s))
        /\ WF_vars(DeliverJob(s))
        /\ WF_vars(CollectJob(s))
    /\ \A m \in Models : WF_vars(DeliverModel(m))
    /\ WF_vars(DeliverTenant)

\* What happens without waiting for the next resync.
PromptSpec == Spec /\ Fairness

FairSpec == PromptSpec /\ \A s \in Services : WF_vars(Resync(s))

-----------------------------------------------------------------------------
(* Properties                                                              *)

\* Types of the objects, the queues, the Reconcile in progress and the histories;
\* a Reconcile past its first Get has a key and an object in its hands.
TypeOK ==
    /\ isvc \in [Services -> Replica(InferenceService)]
    /\ model \in [Models -> Replica(Model)]
    /\ tenant \in Replica(Tenant)
    /\ job \in [Services -> Replica(Job)]
    /\ queue \subseteq Services
    /\ delayed \subseteq Services
    /\ worker \in Worker
    /\ worker.pc # "idle" => worker.key # None /\ worker.isvc.obj # None
    /\ budget \in [Kinds -> Nat]
    /\ approved \subseteq [name : Services, uid : Nat,
                            spec : InferenceServiceSpec]
    /\ verified \subseteq [name : Models, uri : URIs \cup {""}]

\* The Job a reconciliation of spec a.spec with model URI v.uri creates.
JobOf(a, v) == BuildJob(a.spec, a.uid, v.uri, LocalQueueName(a.spec))

\* A Job in the cluster was built from a spec that had been stored as Ready
\* for the same InferenceService (the same uid), and from a URI that its
\* Model carried while stored as Ready.  The controller works from caches
\* that lag behind and skips the status write when the cached status already
\* says what it would write; neither may let a Job through.
JobOfApprovedSpec ==
    \A s \in Services : job[s].cur.obj # None =>
        \E a \in approved, v \in verified :
            /\ a.name = s
            /\ v.name = a.spec.model
            /\ job[s].cur.obj = JobOf(a, v)

\* A stored status that claims the current generation is the controller's
\* verdict on exactly this spec of exactly this object: Ready there means the
\* spec went through Reconcile, with its profile known and its override, when
\* it has one, as the derived priority.
StatusOfOwnGeneration ==
    \A s \in Services :
        LET o == isvc[s].cur.obj
        IN  o # None /\ o.status.observedGeneration = o.gen
                /\ o.status.phase = "Ready" =>
            /\ [name |-> s, uid |-> o.uid, spec |-> o.spec] \in approved
            /\ ~ResolveFails(o.spec.resourceProfile)
            /\ o.spec.priority # None =>
                   o.status.derivedPriority = o.spec.priority

\* No step takes the observedGeneration of an object back.
GenerationStep ==
    \A s \in Services :
        LET o == isvc[s].cur.obj
            p == isvc'[s].cur.obj
        IN  o # None /\ p # None /\ p.uid = o.uid =>
               o.status.observedGeneration <= p.status.observedGeneration

\* The status of one object never goes back to an earlier generation,
\* whatever stale copy a worker writes from.
ObservedGenerationAdvances == [][GenerationStep]_vars

\* status is a verdict on o: it names the generation of o, its phase follows
\* from its conditions, its profile condition is right and its priority is the
\* override of o where there is one.
Fits(o, status) ==
    LET c == status.conditions
    IN  /\ status.observedGeneration = o.gen
        /\ status.phase = "Ready" <=>
              \A t \in {"ModelReady", "TenantResolved", "ResourceProfileResolved",
                        "CapacityAvailable", "Ready"} : c[t] = "True"
        /\ c["ResourceProfileResolved"] = "True" <=>
              ~ResolveFails(o.spec.resourceProfile)
        /\ c["TenantResolved"] = "False" => status.derivedPriority = 0
        /\ c["TenantResolved"] = "True" /\ o.spec.priority # None =>
              status.derivedPriority = o.spec.priority
        /\ c["WorkloadReady"] # o.status.conditions["WorkloadReady"] =>
              status.phase = "Ready"

\* The InferenceServices as the API server has them.
stored == [s \in Services |-> isvc[s].cur.obj]

Abstract == INSTANCE StatusWriter WITH
    Names <- Services, InitialStatus <- NewStatus, IsVerdict <- Fits,
    obj <- stored

\* Both status writes of a Reconcile, whatever copy they start from, replace
\* the status alone and report on the object they are stored with.
ImplementsStatusWriter == Abstract!Spec

Spent(kind) == Budget[kind] - budget[kind]

\* Everything a user, a failure or another controller has done so far.
Events == Spent("create") + Spent("update") + Spent("delete") + Spent("model")
            + Spent("tenant") + Spent("deleteJob") + Spent("fault")
            + Spent("restart")

\* Each write of a status brings the object back to the work queue.  The
\* controller does not feed itself: the versions of an InferenceService are
\* bounded by what happened around it, two for every outside event and for
\* every version of its Job (a Job that is newer than the cache makes
\* WorkloadReady go False and True again).
WritesBounded ==
    \A s \in Services : isvc[s].cur.rv <= 2 * (Events + job[s].cur.rv)

\* What the status of s has to say once the controller has caught up.
Settled(s) ==
    LET o  == isvc[s].cur.obj
        m  == model[o.spec.model].cur.obj
        t  == tenant.cur.obj
        ok == m # None /\ m.ready /\ t # None
                /\ ~ResolveFails(o.spec.resourceProfile)
    IN  o # None =>
            /\ o.status.observedGeneration = o.gen
            /\ o.status.phase = IF ok THEN "Ready" ELSE "Pending"
            /\ o.status.derivedPriority =
                  IF t = None THEN 0
                  ELSE Calculate(t.priority, o.spec.workloadClass,
                                 o.spec.priority)
            /\ ok => /\ o.status.conditions["WorkloadReady"] = "True"
                     /\ job[s].cur.obj # None
                     /\ job[s].cur.obj.owner = o.uid

\* Once users and failures leave the system alone, every InferenceService
\* comes to the status its dependencies call for, and to a Job of its own,
\* and stays there; whatever calls of Reconcile were lost or refused and
\* wherever the process died.  Under PromptSpec this happens without a resync,
\* where every list of mapModelToInferenceServices succeeds, nobody deletes
\* the Job and the Tenant only appears; under FairSpec the resync makes up
\* for those too.  (Behaviours that use up the bound on garbage collection
\* are left out: an orphaned Job may stay in them.)
Settles ==
    <>[](budget["collect"] = 0 \/ \A s \in Services : Settled(s))

\* "WorkloadReady means the backing Job was successfully reconciled" and
\* "InferenceService owns the backing Job": when the condition turns True
\* there is a Job of that name, and its controller reference is to this
\* InferenceService.
WorkloadReadyMeansOwnJob ==
    [][\A s \in Services :
          LET o == isvc[s].cur.obj
              p == isvc'[s].cur.obj
          IN  /\ o # None /\ p # None /\ p.uid = o.uid
              /\ o.status.conditions["WorkloadReady"] # "True"
              /\ p.status.conditions["WorkloadReady"] = "True"
              => /\ job'[s].cur.obj # None
                 /\ job'[s].cur.obj.owner = p.uid]_vars

-----------------------------------------------------------------------------
(* The inductive invariant behind JobOfApprovedSpec, StatusOfOwnGeneration *)
(* and ObservedGenerationAdvances.  They speak of the stored objects, but  *)
(* the controller acts on copies, so the invariant says the same of every  *)
(* copy: in the API server, in the cache, on the watch and in the worker.  *)

ReadyForOwnSpec(o) ==
    o.status.phase = "Ready" /\ o.status.observedGeneration = o.gen

\* If version v of service s says it is Ready, that is among the verdicts A.
Judged(A, s, v) ==
    v.obj # None =>
        /\ v.obj.status.observedGeneration <= v.obj.gen
        /\ ReadyForOwnSpec(v.obj) =>
            /\ [name |-> s, uid |-> v.obj.uid, spec |-> v.obj.spec] \in A
            /\ ~ResolveFails(v.obj.spec.resourceProfile)
            /\ v.obj.spec.priority # None =>
                  v.obj.status.derivedPriority = v.obj.spec.priority

\* A ready Model, as read by anyone, was stored so.
Verified(V, m, o) ==
    o # None /\ o.ready => [name |-> m, uri |-> o.uri] \in V

StoredJudged ==
    \A s \in Services :
        /\ Coherent(isvc[s])
        /\ \A v \in Versions(isvc[s]) : Judged(approved, s, v)

ModelsVerified ==
    \A m \in Models : \A v \in Versions(model[m]) : Verified(verified, m, v.obj)

\* What the worker holds, step by step.
WorkerJudged ==
    worker.pc # "idle" =>
        /\ CopyCoherent(worker.isvc, isvc[worker.key].cur)
        /\ Judged(approved, worker.key, worker.isvc)
        /\ worker.pc # "model" =>
              Verified(verified, worker.isvc.obj.spec.model, worker.model)
        /\ worker.pc \in {"job", "create"} =>
              /\ ReadyForOwnSpec(worker.isvc.obj)
              /\ worker.model # None /\ worker.model.ready

\* The status of the copy from which the second status write starts, for
\* ImplementsStatusWriter: past the first one it is a verdict on the copy.
WorkerReported ==
    worker.pc \in {"job", "create", "workload"} =>
        /\ worker.isvc.obj.status.phase = "Ready"
        /\ Fits(worker.isvc.obj, worker.isvc.obj.status)

IInv ==
    /\ TypeOK
    /\ StoredJudged
    /\ ModelsVerified
    /\ WorkerJudged
    /\ JobOfApprovedSpec
=============================================================================
