------------------- MODULE InferenceServiceControllerProofs -------------------
(***************************************************************************)
(* Proofs about InferenceServiceController, for any set of services,       *)
(* models, specs and any budget of outside events.                         *)
(***************************************************************************)
EXTENDS InferenceServiceController, WatchedObjectProofs

-----------------------------------------------------------------------------
(* The operators the actions are built from.                               *)

\* CPURequest gives quantities of CPU and memory.
LEMMA CPURequestType ==
    ASSUME NEW class
    PROVE  CPURequest(class) \in [cpu : Nat, memory : Nat]
BY DEF CPURequest

\* BuildJob renders a well-formed Job.
LEMMA BuildJobType ==
    ASSUME NEW spec \in InferenceServiceSpec, NEW uid \in Nat,
           NEW uri \in URIs \cup {""}
    PROVE  BuildJob(spec, uid, uri, LocalQueueName(spec)) \in Job
<1>1. Resources(spec) \in Quantities
  <2>1. CASE WantsGPU(spec)
    <3>1. GPUResourceName(spec) \in {"nvidia.com/gpu", "nvidia.com/mig-3g.40gb"}
      BY DEF GPUResourceName
    <3> QED
      BY <2>1, <3>1 DEF Resources, Quantities
  <2>2. CASE ~WantsGPU(spec)
    <3>1. CPURequest(spec.workloadClass) \in [cpu : Nat, memory : Nat]
      BY CPURequestType
    <3>2. Resources(spec) = CPURequest(spec.workloadClass)
      BY <2>2 DEF Resources
    <3> QED
      BY <3>1, <3>2, Zenon DEF Quantities
  <2> QED
    BY <2>1, <2>2
<1>2. ReplicaCount(spec) \in Nat
  BY DEF ReplicaCount, InferenceServiceSpec
<1>3. PriorityClassForWorkloadClass(spec.workloadClass)
         \in {"platform-interactive", "platform-batch", "platform-background"}
  BY DEF PriorityClassForWorkloadClass
<1> QED
  BY <1>1, <1>2, <1>3 DEF BuildJob, Job, LocalQueueName

\* The derived priority is an integer.
LEMMA CalculateType ==
    ASSUME NEW p \in 0 .. 1000, NEW c \in WorkloadClasses,
           NEW o \in Int \cup {None}
    PROVE  Calculate(p, c, o) \in Int
BY DEF Calculate

\* Setting a condition leaves a well-formed function of conditions.
LEMMA SetCondType ==
    ASSUME NEW c \in [ServiceConditions -> ConditionStatus],
           NEW t \in ServiceConditions, NEW e
    PROVE  SetCond(c, t, e) \in [ServiceConditions -> ConditionStatus]
BY DEF SetCond, ConditionStatus

\* An edit of the spec keeps the object well formed and never lowers its
\* generation.
LEMMA EditedType ==
    ASSUME NEW o \in InferenceService, NEW spec \in ServiceSpecs
    PROVE  /\ Edited(o, spec) \in InferenceService
           /\ Edited(o, spec).uid = o.uid
           /\ Edited(o, spec).spec = spec
           /\ Edited(o, spec).status = o.status
           /\ \/ spec = o.spec /\ Edited(o, spec).gen = o.gen
              \/ spec # o.spec /\ Edited(o, spec).gen = o.gen + 1
<1> DEFINE g == IF spec = o.spec THEN o.gen ELSE o.gen + 1
<1>1. o.gen \in Nat /\ g \in Nat
  BY DEF InferenceService
<1>2. spec \in InferenceServiceSpec
  BY ConstantsAssumption
<1>3. Edited(o, spec) = [o EXCEPT !.gen = g, !.spec = spec]
  BY DEF Edited
<1>4. /\ Edited(o, spec) \in InferenceService
      /\ Edited(o, spec).uid = o.uid
      /\ Edited(o, spec).spec = spec
      /\ Edited(o, spec).status = o.status
      /\ Edited(o, spec).gen = g
  <2> HIDE DEF g
  <2> QED
    BY <1>1, <1>2, <1>3 DEF InferenceService
<1> QED
  BY <1>4

\* updateStatus computes a well-formed status.
LEMMA NewStatusType ==
    ASSUME TypeOK, worker.pc # "idle"
    PROVE  newStatus \in InferenceServiceStatus
<1>1. worker.isvc.obj \in InferenceService
  BY DEF TypeOK, Version, Worker
<1>2. newConditions \in [ServiceConditions -> ConditionStatus]
  <2>1. worker.isvc.obj.status.conditions \in [ServiceConditions -> ConditionStatus]
    BY <1>1 DEF InferenceService, InferenceServiceStatus
  <2> QED
    BY <2>1, SetCondType DEF newConditions, ServiceConditions
<1>3. derivedPriority \in Int
  <2>1. worker.tenant \in Tenant \cup {None}
    BY DEF TypeOK, Worker
  <2>2. /\ worker.isvc.obj.spec.workloadClass \in WorkloadClasses
        /\ worker.isvc.obj.spec.priority \in Int \cup {None}
    BY <1>1 DEF InferenceService, InferenceServiceSpec
  <2>3. worker.tenant # None => worker.tenant.priority \in 0 .. 1000
    BY <2>1 DEF Tenant
  <2>4. worker.tenant # None =>
           Calculate(worker.tenant.priority, worker.isvc.obj.spec.workloadClass,
                     worker.isvc.obj.spec.priority) \in Int
    <3> DEFINE p == worker.tenant.priority
               c == worker.isvc.obj.spec.workloadClass
               i == worker.isvc.obj.spec.priority
    <3> SUFFICES ASSUME worker.tenant # None PROVE Calculate(p, c, i) \in Int
      OBVIOUS
    <3>1. p \in 0 .. 1000 /\ c \in WorkloadClasses /\ i \in Int \cup {None}
      BY <2>2, <2>3, Zenon
    <3> HIDE DEF p, c, i
    <3> QED
      BY <3>1, CalculateType, ZenonT(30)
  <2> QED
    BY <2>4 DEF derivedPriority, tenantErr
<1>4. worker.isvc.obj.gen \in Nat
  BY <1>1 DEF InferenceService
<1> QED
  BY <1>2, <1>3, <1>4 DEF newStatus, InferenceServiceStatus

\* updateWorkloadCondition computes a well-formed status.
LEMMA WorkloadStatusType ==
    ASSUME TypeOK, worker.pc # "idle"
    PROVE  workloadStatus \in InferenceServiceStatus
<1>1. worker.isvc.obj.status \in InferenceServiceStatus
  BY DEF TypeOK, Worker, Version, InferenceService
<1>2. SetCond(worker.isvc.obj.status.conditions, "WorkloadReady", worker.jobErr)
         \in [ServiceConditions -> ConditionStatus]
  BY <1>1, SetCondType DEF InferenceServiceStatus, ServiceConditions
<1> QED
  BY <1>1, <1>2 DEF workloadStatus, InferenceServiceStatus

-----------------------------------------------------------------------------
(* Type correctness.                                                       *)

\* The initial state is well typed.
LEMMA TypeInit == Init => TypeOK
<1> SUFFICES ASSUME Init PROVE TypeOK
  OBVIOUS
<1>1. \A Obj, o : o \in Obj \cup {None} => InitialReplica(o) \in Replica(Obj)
  BY DEF InitialReplica, Replica, Version
<1>2. worker \in Worker
  BY DEF Init, Idle, NoVersion, Version, Steps, Worker
<1>3. /\ isvc \in [Services -> Replica(InferenceService)]
      /\ model \in [Models -> Replica(Model)]
      /\ tenant \in Replica(Tenant)
      /\ job \in [Services -> Replica(Job)]
  BY <1>1, ConstantsAssumption DEF Init
<1> QED
  BY <1>2, <1>3, ConstantsAssumption DEF Init, TypeOK, Idle

\* Spending from the budget of events keeps it a natural number.
LEMMA TypeSpend ==
    ASSUME TypeOK, NEW k \in Kinds, Spend(k)
    PROVE  budget' \in [Kinds -> Nat]
<1>1. budget \in [Kinds -> Nat]
  BY DEF TypeOK
<1>2. budget[k] > 0 /\ budget' = [budget EXCEPT ![k] = @ - 1]
  BY DEF Spend
<1>3. budget[k] - 1 \in Nat
  BY <1>1, <1>2
<1> QED
  BY <1>1, <1>2, <1>3

\* A new InferenceService is well formed.
LEMMA NewServiceType ==
    ASSUME TypeOK, NEW s \in Services, NEW spec \in ServiceSpecs
    PROVE  [uid |-> isvc[s].cur.rv + 1, gen |-> 1, spec |-> spec,
            status |-> NewStatus] \in InferenceService
<1>1. NewStatus \in InferenceServiceStatus
  BY DEF NewStatus, InferenceServiceStatus, ConditionStatus
<1>2. isvc[s].cur \in Version(InferenceService)
  BY VersionsType DEF TypeOK
<1>3. isvc[s].cur.rv + 1 \in Nat
  BY <1>2 DEF Version
<1> QED
  BY <1>1, <1>3, ConstantsAssumption DEF InferenceService

\* A write by anyone outside the controller keeps the types.
LEMMA TypeEnvironment == TypeOK /\ Environment => TypeOK'
<1> SUFFICES ASSUME TypeOK, Environment PROVE TypeOK'
  OBVIOUS
<1>0. ASSUME NEW k \in Kinds, Spend(k) PROVE budget' \in [Kinds -> Nat]
  BY <1>0, TypeSpend
<1>1. ASSUME NEW s \in Services, NEW spec \in ServiceSpecs, CreateService(s, spec)
      PROVE  TypeOK'
  <2>1. budget' \in [Kinds -> Nat]
    BY <1>0, <1>1 DEF CreateService, Kinds
  <2>2. [uid |-> isvc[s].cur.rv + 1, gen |-> 1, spec |-> spec,
         status |-> NewStatus] \in InferenceService
    BY NewServiceType
  <2>3. isvc' \in [Services -> Replica(InferenceService)]
    BY <1>1, <2>2, PutType DEF CreateService, TypeOK
  <2> QED
    BY <1>1, <2>1, <2>3 DEF CreateService, TypeOK
<1>2. ASSUME NEW s \in Services, NEW spec \in ServiceSpecs, UpdateService(s, spec)
      PROVE  TypeOK'
  <2>1. budget' \in [Kinds -> Nat]
    BY <1>0, <1>2 DEF UpdateService, Kinds
  <2>2. isvc[s].cur.obj \in InferenceService
    BY <1>2 DEF UpdateService, TypeOK, Replica, Version
  <2>3. Edited(isvc[s].cur.obj, spec) \in InferenceService
    BY <2>2, EditedType
  <2>4. isvc' \in [Services -> Replica(InferenceService)]
    BY <1>2, <2>3, PutType DEF UpdateService, TypeOK
  <2> QED
    BY <1>2, <2>1, <2>4 DEF UpdateService, TypeOK
<1>3. ASSUME NEW s \in Services, DeleteService(s) PROVE TypeOK'
  <2>1. budget' \in [Kinds -> Nat]
    BY <1>0, <1>3 DEF DeleteService, Kinds
  <2>2. isvc' \in [Services -> Replica(InferenceService)]
    <3>1. Put(isvc[s], None) \in Replica(InferenceService)
      BY PutType DEF TypeOK
    <3> QED
      BY <1>3, <3>1 DEF DeleteService, TypeOK
  <2> QED
    BY <1>3, <2>1, <2>2 DEF DeleteService, TypeOK
<1>4. ASSUME NEW s \in Services, DeleteJob(s) \/ CollectJob(s) PROVE TypeOK'
  <2>1. budget' \in [Kinds -> Nat]
    BY <1>0, <1>4 DEF DeleteJob, CollectJob, Kinds
  <2>2. job' \in [Services -> Replica(Job)]
    <3>1. Put(job[s], None) \in Replica(Job)
      BY PutType DEF TypeOK
    <3> QED
      BY <1>4, <3>1 DEF DeleteJob, CollectJob, TypeOK
  <2> QED
    BY <1>4, <2>1, <2>2 DEF DeleteJob, CollectJob, TypeOK
<1>5. ASSUME NEW m \in Models, NEW o \in ModelStates, WriteModel(m, o)
      PROVE  TypeOK'
  <2>1. budget' \in [Kinds -> Nat]
    BY <1>0, <1>5 DEF WriteModel, Kinds
  <2>2. model' \in [Models -> Replica(Model)]
    BY <1>5, PutType, ConstantsAssumption DEF WriteModel, TypeOK
  <2>3. o # None => o.uri \in URIs \cup {""}
    BY ConstantsAssumption DEF Model
  <2>4. verified' \subseteq [name : Models, uri : URIs \cup {""}]
    <3>1. o # None =>
             [name |-> m, uri |-> o.uri] \in [name : Models, uri : URIs \cup {""}]
      BY <2>3
    <3> QED
      BY <1>5, <3>1 DEF WriteModel, TypeOK
  <2> QED
    BY <1>5, <2>1, <2>2, <2>4 DEF WriteModel, TypeOK
<1>6. ASSUME NEW o \in TenantStates, WriteTenant(o) PROVE TypeOK'
  <2>1. budget' \in [Kinds -> Nat]
    BY <1>0, <1>6 DEF WriteTenant, Kinds
  <2>2. tenant' \in Replica(Tenant)
    BY <1>6, PutType, ConstantsAssumption DEF WriteTenant, TypeOK
  <2> QED
    BY <1>6, <2>1, <2>2 DEF WriteTenant, TypeOK
<1> QED
  BY <1>1, <1>2, <1>3, <1>4, <1>5, <1>6 DEF Environment

\* What an informer brings of a Model keeps its type.
LEMMA TypeModelDelivered ==
    ASSUME TypeOK, NEW m \in Models,
           \E v \in model[m].watch : model' = [model EXCEPT ![m] = Deliver(@, v)]
    PROVE  model' \in [Models -> Replica(Model)]
<1>1. PICK v \in model[m].watch : model' = [model EXCEPT ![m] = Deliver(@, v)]
  OBVIOUS
<1>2. Deliver(model[m], v) \in Replica(Model)
  BY DeliverType DEF TypeOK
<1> QED
  BY <1>1, <1>2 DEF TypeOK

\* So does an informer or a timer.
LEMMA TypeDelivery == TypeOK /\ Delivery => TypeOK'
<1> SUFFICES ASSUME TypeOK, Delivery PROVE TypeOK'
  OBVIOUS
<1>1. ASSUME NEW s \in Services, DeliverService(s) PROVE TypeOK'
  <2>1. isvc' \in [Services -> Replica(InferenceService)]
    <3>1. PICK v \in isvc[s].watch : isvc' = [isvc EXCEPT ![s] = Deliver(@, v)]
      BY <1>1 DEF DeliverService
    <3>2. Deliver(isvc[s], v) \in Replica(InferenceService)
      BY DeliverType DEF TypeOK
    <3> QED
      BY <3>1, <3>2 DEF TypeOK
  <2> QED
    BY <1>1, <2>1 DEF DeliverService, TypeOK
<1>2. ASSUME NEW s \in Services, DeliverJob(s) PROVE TypeOK'
  <2>1. job' \in [Services -> Replica(Job)]
    <3>1. PICK v \in job[s].watch : job' = [job EXCEPT ![s] = Deliver(@, v)]
      BY <1>2 DEF DeliverJob
    <3>2. Deliver(job[s], v) \in Replica(Job)
      BY DeliverType DEF TypeOK
    <3> QED
      BY <3>1, <3>2 DEF TypeOK
  <2> QED
    BY <1>2, <2>1 DEF DeliverJob, TypeOK
<1>3. ASSUME NEW s \in Services, TimerFires(s) \/ Resync(s) PROVE TypeOK'
  BY <1>3 DEF TimerFires, Resync, TypeOK, kube
<1>4. ASSUME NEW m \in Models, DeliverModel(m) PROVE TypeOK'
  <2>1. model' \in [Models -> Replica(Model)]
    BY <1>4, TypeModelDelivered DEF DeliverModel
  <2> QED
    BY <1>4, <2>1 DEF DeliverModel, mapModelToInferenceServices, TypeOK
<1>5. ASSUME DeliverTenant PROVE TypeOK'
  <2>1. tenant' \in Replica(Tenant)
    <3>1. PICK v \in tenant.watch : tenant' = Deliver(tenant, v)
      BY <1>5 DEF DeliverTenant
    <3> QED
      BY <3>1, DeliverType DEF TypeOK
  <2> QED
    BY <1>5, <2>1 DEF DeliverTenant, TypeOK
<1> QED
  BY <1>1, <1>2, <1>3, <1>4, <1>5 DEF Delivery

\* The worker between two steps of Reconcile has a key and an object.
LEMMA WorkerBusy ==
    ASSUME TypeOK, worker.pc # "idle"
    PROVE  /\ worker.key \in Services
           /\ worker.isvc \in Version(InferenceService)
           /\ worker.isvc.obj \in InferenceService
           /\ worker.isvc.rv \in Nat
           /\ worker.isvc.obj.spec \in InferenceServiceSpec
           /\ worker.isvc.obj.spec.model \in Models
           /\ worker.model \in Model \cup {None}
BY DEF TypeOK, Worker, Version, InferenceService, InferenceServiceSpec

\* However Reconcile ends, the worker is idle and the key may be delayed.
LEMMA TypeEnd ==
    ASSUME TypeOK, worker.pc # "idle", Requeue \/ Return
    PROVE  /\ worker' = Idle
           /\ worker' \in Worker
           /\ worker'.pc = "idle"
           /\ delayed' \subseteq Services
<1>1. worker' = Idle
  BY DEF Requeue, Return
<1>2. Idle \in Worker
  BY DEF Idle, NoVersion, Worker, Version, Steps
<1>3. delayed' \subseteq Services
  BY WorkerBusy DEF Requeue, Return, TypeOK
<1> QED
  BY <1>1, <1>2, <1>3 DEF Idle

\* Status().Update stores a well-formed object and hands it back.
LEMMA TypeStoreStatus ==
    ASSUME TypeOK, worker.pc # "idle", Accepts,
           NEW status \in InferenceServiceStatus
    PROVE  /\ StoredObject(status) \in InferenceService
           /\ Stored(status) \in Version(InferenceService)
           /\ Stored(status).obj # None
           /\ StoreStatus(status) =>
                  isvc' \in [Services -> Replica(InferenceService)]
<1>1. isvc[worker.key] \in Replica(InferenceService)
  BY WorkerBusy DEF TypeOK
<1>2. /\ isvc[worker.key].cur.obj \in InferenceService
      /\ isvc[worker.key].cur.rv \in Nat
  BY <1>1 DEF Accepts, Replica, Version
<1>3. StoredObject(status) \in InferenceService
  BY <1>2 DEF StoredObject, InferenceService
<1>4. Stored(status) \in Version(InferenceService)
  BY <1>2, <1>3 DEF Stored, Version
<1>5. Stored(status).obj # None
  BY <1>3, NoneAssumption DEF Stored
<1>6. Put(isvc[worker.key], StoredObject(status)) \in Replica(InferenceService)
  BY <1>1, <1>3, PutType
<1>7. StoreStatus(status) => isvc' \in [Services -> Replica(InferenceService)]
  BY <1>6, WorkerBusy DEF StoreStatus, TypeOK
<1> QED
  BY <1>3, <1>4, <1>5, <1>7

\* updateStatus, whether it writes or not, leaves a well-formed worker.
LEMMA TypeAfterStatus ==
    ASSUME TypeOK, worker.pc # "idle", NEW copy \in Version(InferenceService),
           copy.obj # None, AfterStatus(copy)
    PROVE  /\ worker' \in Worker
           /\ worker'.pc # "idle" => worker'.key # None /\ worker'.isvc.obj # None
           /\ delayed' \subseteq Services
<1>1. CASE anyErr
  BY <1>1, TypeEnd DEF AfterStatus
<1>2. CASE ~anyErr
  <2>1. /\ worker' = [worker EXCEPT !.pc = "job", !.isvc = copy]
        /\ delayed' = delayed
    BY <1>2 DEF AfterStatus, Continue
  <2> QED
    BY <2>1 DEF TypeOK, Worker, Steps
<1> QED
  BY <1>1, <1>2

\* So does every step of reconcileKueueJob.
LEMMA TypeWorkloadStep ==
    ASSUME TypeOK, worker.pc # "idle", NEW err \in BOOLEAN, WorkloadStep(err)
    PROVE  /\ worker' \in Worker
           /\ worker'.key # None /\ worker'.isvc.obj # None
           /\ delayed' \subseteq Services
BY DEF WorkloadStep, Continue, TypeOK, Worker, Steps

\* Storing a Job keeps the types.
LEMMA TypeStoreJob ==
    ASSUME TypeOK, worker.pc # "idle", worker.model # None, StoreJob
    PROVE  /\ desired \in Job
           /\ job' \in [Services -> Replica(Job)]
<1>1. worker.model.uri \in URIs \cup {""}
  BY WorkerBusy DEF Model
<1>2. worker.isvc.obj.uid \in Nat
  BY WorkerBusy DEF InferenceService
<1>3. desired \in Job
  BY <1>1, <1>2, WorkerBusy, BuildJobType DEF desired
<1>4. Put(job[worker.key], desired) \in Replica(Job)
  BY <1>3, WorkerBusy, PutType DEF TypeOK
<1> QED
  BY <1>3, <1>4, WorkerBusy DEF StoreJob, TypeOK

\* The history of approved specs is well formed.
LEMMA TypeApprove ==
    ASSUME TypeOK, worker.pc # "idle", NEW status, Approve(status)
    PROVE  approved' \subseteq [name : Services, uid : Nat,
                                spec : InferenceServiceSpec]
<1>1. [name |-> worker.key, uid |-> worker.isvc.obj.uid,
       spec |-> worker.isvc.obj.spec]
         \in [name : Services, uid : Nat, spec : InferenceServiceSpec]
  BY WorkerBusy DEF InferenceService
<1> QED
  BY <1>1 DEF Approve, TypeOK

\* The first thing Reconcile does.
LEMMA TypeGet ==
    ASSUME TypeOK, NEW s \in Services, Get(s)
    PROVE  TypeOK'
<1>1. isvc[s].cache \in Version(InferenceService)
  BY VersionsType DEF TypeOK
<1>2. Idle \in Worker /\ Idle.pc = "idle"
  BY DEF Idle, NoVersion, Worker, Version, Steps
<1>3. CASE isvc[s].cache.obj = None
  <2>1. worker' = Idle /\ delayed' = delayed
    BY <1>3 DEF Get, Return
  <2> QED
    BY <1>2, <2>1 DEF Get, TypeOK, kube
<1>4. CASE isvc[s].cache.obj # None
  <2>1. /\ worker' = [Idle EXCEPT !.pc = "model", !.key = s, !.isvc = isvc[s].cache]
        /\ delayed' = delayed
    BY <1>4 DEF Get, Continue
  <2>2. /\ worker' \in Worker
        /\ worker'.key # None /\ worker'.isvc.obj # None
    BY <1>1, <1>2, <1>4, <2>1, NoneAssumption DEF Worker, Steps
  <2> QED
    BY <2>1, <2>2 DEF Get, TypeOK, kube
<1> QED
  BY <1>3, <1>4

\* The Job steps are reached only with a Model in hand: part of what makes
\* reading its URI well defined.
ModelInHand == worker.pc \in {"job", "create"} => worker.model # None

\* Every step of Reconcile that meets no failure keeps the types.
LEMMA TypeReconcile == TypeOK /\ ModelInHand /\ Reconcile => TypeOK'
<1> SUFFICES ASSUME TypeOK, ModelInHand, Reconcile PROVE TypeOK'
  OBVIOUS
<1>1. CASE ResolveModel
  <2>1. worker.pc # "idle"
    BY <1>1 DEF ResolveModel, At
  <2>2. model[worker.isvc.obj.spec.model].cache.obj \in Model \cup {None}
    BY <2>1, WorkerBusy DEF TypeOK, Replica, Version
  <2>3. /\ worker' \in Worker
        /\ worker'.key # None /\ worker'.isvc.obj # None
        /\ delayed' = delayed
    BY <1>1, <2>1, <2>2 DEF ResolveModel, Continue, TypeOK, Worker, Steps
  <2> QED
    BY <1>1, <2>3 DEF ResolveModel, TypeOK, kube
<1>2. CASE ResolveTenant
  <2>1. worker.pc # "idle"
    BY <1>2 DEF ResolveTenant, At
  <2>2. tenant.cache.obj \in Tenant \cup {None}
    BY DEF TypeOK, Replica, Version
  <2>3. /\ worker' \in Worker
        /\ worker'.key # None /\ worker'.isvc.obj # None
        /\ delayed' = delayed
    BY <1>2, <2>1, <2>2 DEF ResolveTenant, Continue, TypeOK, Worker, Steps
  <2> QED
    BY <1>2, <2>3 DEF ResolveTenant, TypeOK, kube
<1>3. CASE UpdateStatusSkipped
  <2>1. worker.pc # "idle" /\ AfterStatus(worker.isvc)
    BY <1>3 DEF UpdateStatusSkipped, At
  <2>2. /\ worker.isvc \in Version(InferenceService)
        /\ worker.isvc.obj # None
    BY <2>1 DEF TypeOK, Worker
  <2>3. /\ worker' \in Worker
        /\ worker'.pc # "idle" => worker'.key # None /\ worker'.isvc.obj # None
        /\ delayed' \subseteq Services
    BY <2>1, <2>2, TypeAfterStatus
  <2> QED
    BY <1>3, <2>3 DEF UpdateStatusSkipped, TypeOK, kube
<1>4. CASE UpdateStatusStored
  <2>1. /\ worker.pc # "idle" /\ Accepts /\ StoreStatus(newStatus)
        /\ AfterStatus(Stored(newStatus)) /\ Approve(newStatus)
    BY <1>4 DEF UpdateStatusStored, At
  <2>2. newStatus \in InferenceServiceStatus
    BY <2>1, NewStatusType
  <2>3. /\ Stored(newStatus) \in Version(InferenceService)
        /\ Stored(newStatus).obj # None
        /\ isvc' \in [Services -> Replica(InferenceService)]
    BY <2>1, <2>2, TypeStoreStatus
  <2>4. /\ worker' \in Worker
        /\ worker'.pc # "idle" => worker'.key # None /\ worker'.isvc.obj # None
        /\ delayed' \subseteq Services
    BY <2>1, <2>3, TypeAfterStatus
  <2>5. approved' \subseteq [name : Services, uid : Nat, spec : InferenceServiceSpec]
    BY <2>1, TypeApprove
  <2> QED
    BY <1>4, <2>3, <2>4, <2>5 DEF UpdateStatusStored, TypeOK
<1>5. CASE UpdateStatusRefused \/ WorkloadRefused
  <2>1. worker.pc # "idle" /\ Requeue
    BY <1>5 DEF UpdateStatusRefused, WorkloadRefused, At
  <2> QED
    BY <1>5, <2>1, TypeEnd DEF UpdateStatusRefused, WorkloadRefused, TypeOK, kube
<1>6. CASE GetJob
  <2>1. worker.pc # "idle"
    BY <1>6 DEF GetJob, At
  <2>2. /\ worker' \in Worker
        /\ worker'.key # None /\ worker'.isvc.obj # None
        /\ delayed' \subseteq Services
    <3>1. /\ worker \in Worker /\ worker.key # None /\ worker.isvc.obj # None
          /\ delayed \subseteq Services
      BY <2>1 DEF TypeOK
    <3>2. /\ \/ worker' = [worker EXCEPT !.pc = "create"]
             \/ worker' = [worker EXCEPT !.pc = "workload", !.jobErr = FALSE]
          /\ delayed' = delayed
      BY <1>6 DEF GetJob, WorkloadStep, Continue
    <3> QED
      BY <3>1, <3>2 DEF Worker, Steps
  <2> QED
    BY <1>6, <2>2 DEF GetJob, TypeOK, kube
<1>7. CASE CreateJob
  <2>1. worker.pc # "idle" /\ worker.model # None /\ StoreJob /\ WorkloadStep(FALSE)
    BY <1>7 DEF CreateJob, At, ModelInHand
  <2>2. job' \in [Services -> Replica(Job)]
    BY <2>1, TypeStoreJob
  <2> QED
    BY <1>7, <2>1, <2>2, TypeWorkloadStep DEF CreateJob, TypeOK
<1>8. CASE JobAlreadyExists
  <2>1. worker.pc # "idle" /\ WorkloadStep(TRUE)
    BY <1>8 DEF JobAlreadyExists, At
  <2> QED
    BY <1>8, <2>1, TypeWorkloadStep DEF JobAlreadyExists, TypeOK, kube
<1>9. CASE WorkloadSkipped
  <2>1. worker.pc # "idle" /\ (Requeue \/ Return)
    BY <1>9 DEF WorkloadSkipped, At, AfterWorkload
  <2> QED
    BY <1>9, <2>1, TypeEnd DEF WorkloadSkipped, TypeOK, kube
<1>10. CASE WorkloadStored
  <2>1. /\ worker.pc # "idle" /\ Accepts /\ StoreStatus(workloadStatus)
        /\ Requeue \/ Return
    BY <1>10 DEF WorkloadStored, At, AfterWorkload
  <2>2. isvc' \in [Services -> Replica(InferenceService)]
    BY <2>1, WorkloadStatusType, TypeStoreStatus
  <2> QED
    BY <1>10, <2>1, <2>2, TypeEnd DEF WorkloadStored, TypeOK
<1> QED
  BY <1>1, <1>2, <1>3, <1>4, <1>5, <1>6, <1>7, <1>8, <1>9, <1>10 DEF Reconcile

\* So does every failure, at whichever call it strikes, and a restart.
LEMMA TypeFailure == TypeOK /\ ModelInHand /\ Failure => TypeOK'
<1> SUFFICES ASSUME TypeOK, ModelInHand, Failure PROVE TypeOK'
  OBVIOUS
<1>0. ASSUME Spend("fault") \/ Spend("list") \/ Spend("restart")
      PROVE  budget' \in [Kinds -> Nat]
  BY <1>0, TypeSpend DEF Kinds
<1>1. CASE GetFails \/ UpdateStatusLost \/ WorkloadLost
  <2>1. worker.pc # "idle" /\ Requeue /\ Spend("fault")
    BY <1>1 DEF GetFails, UpdateStatusLost, WorkloadLost, At
  <2> QED
    BY <1>0, <1>1, <2>1, TypeEnd
    DEF GetFails, UpdateStatusLost, WorkloadLost, TypeOK, kube
<1>2. CASE UpdateStatusTimesOut
  <2>1. /\ worker.pc # "idle" /\ Accepts /\ StoreStatus(newStatus)
        /\ Requeue /\ Approve(newStatus) /\ Spend("fault")
    BY <1>2 DEF UpdateStatusTimesOut, At
  <2>2. isvc' \in [Services -> Replica(InferenceService)]
    BY <2>1, NewStatusType, TypeStoreStatus
  <2>3. approved' \subseteq [name : Services, uid : Nat, spec : InferenceServiceSpec]
    BY <2>1, TypeApprove
  <2> QED
    BY <1>0, <1>2, <2>1, <2>2, <2>3, TypeEnd DEF UpdateStatusTimesOut, TypeOK
<1>3. CASE JobCallLost
  <2>1. worker.pc # "idle" /\ WorkloadStep(TRUE) /\ Spend("fault")
    BY <1>3 DEF JobCallLost
  <2> QED
    BY <1>0, <1>3, <2>1, TypeWorkloadStep DEF JobCallLost, TypeOK, kube
<1>4. CASE CreateJobTimesOut
  <2>1. /\ worker.pc # "idle" /\ worker.model # None /\ StoreJob
        /\ WorkloadStep(TRUE) /\ Spend("fault")
    BY <1>4 DEF CreateJobTimesOut, At, ModelInHand
  <2>2. job' \in [Services -> Replica(Job)]
    BY <2>1, TypeStoreJob
  <2> QED
    BY <1>0, <1>4, <2>1, <2>2, TypeWorkloadStep DEF CreateJobTimesOut, TypeOK
<1>5. CASE WorkloadTimesOut
  <2>1. /\ worker.pc # "idle" /\ Accepts /\ StoreStatus(workloadStatus)
        /\ Requeue /\ Spend("fault")
    BY <1>5 DEF WorkloadTimesOut, At
  <2>2. isvc' \in [Services -> Replica(InferenceService)]
    BY <2>1, WorkloadStatusType, TypeStoreStatus
  <2> QED
    BY <1>0, <1>5, <2>1, <2>2, TypeEnd DEF WorkloadTimesOut, TypeOK
<1>6. CASE Restart
  <2>1. /\ \A s \in Services : Relist(isvc[s]) \in Replica(InferenceService)
        /\ \A m \in Models : Relist(model[m]) \in Replica(Model)
        /\ \A s \in Services : Relist(job[s]) \in Replica(Job)
        /\ Relist(tenant) \in Replica(Tenant)
    BY RelistType DEF TypeOK
  <2>2. Idle \in Worker /\ Idle.pc = "idle"
    BY DEF Idle, NoVersion, Worker, Version, Steps
  <2> QED
    BY <1>0, <1>6, <2>1, <2>2 DEF Restart, TypeOK
<1>7. ASSUME NEW m \in Models, ListFails(m) PROVE TypeOK'
  <2>1. model' \in [Models -> Replica(Model)]
    BY <1>7, TypeModelDelivered DEF ListFails
  <2> QED
    BY <1>0, <1>7, <2>1 DEF ListFails, TypeOK
<1>8. ASSUME NEW s \in Services, FirstGetFails(s) PROVE TypeOK'
  BY <1>0, <1>8 DEF FirstGetFails, TypeOK, kube
<1> QED
  BY <1>1, <1>2, <1>3, <1>4, <1>5, <1>6, <1>7, <1>8 DEF Failure

-----------------------------------------------------------------------------
(* The inductive invariant: what keeps each of its parts.                  *)

\* Verdicts are only ever added, so a judged version stays judged.
LEMMA JudgedMonotone ==
    ASSUME NEW A, NEW B, A \subseteq B, NEW s, NEW v, Judged(A, s, v)
    PROVE  Judged(B, s, v)
BY DEF Judged

\* Likewise for the history of verified Models.
LEMMA VerifiedMonotone ==
    ASSUME NEW A, NEW B, A \subseteq B, NEW m, NEW o, Verified(A, m, o)
    PROVE  Verified(B, m, o)
BY DEF Verified

\* A step that adds no version of an InferenceService keeps StoredJudged.
LEMMA StoredJudgedSubset ==
    ASSUME StoredJudged, approved \subseteq approved',
           \A s \in Services : /\ Coherent(isvc[s]) => Coherent(isvc'[s])
                               /\ Versions(isvc'[s]) \subseteq Versions(isvc[s])
    PROVE  StoredJudged'
<1> SUFFICES ASSUME NEW s \in Services
             PROVE  /\ Coherent(isvc'[s])
                    /\ \A v \in Versions(isvc'[s]) : Judged(approved', s, v)
  BY DEF StoredJudged
<1>1. Coherent(isvc'[s])
  BY DEF StoredJudged
<1>2. ASSUME NEW v \in Versions(isvc'[s]) PROVE Judged(approved', s, v)
  <2>1. Judged(approved, s, v)
    BY <1>2 DEF StoredJudged
  <2> QED
    BY <2>1, JudgedMonotone
<1> QED
  BY <1>1, <1>2

\* A step that stores one judged version keeps it too.
LEMMA StoredJudgedPut ==
    ASSUME TypeOK, StoredJudged, approved \subseteq approved',
           NEW s \in Services, NEW o \in InferenceService \cup {None},
           isvc' = [isvc EXCEPT ![s] = Put(isvc[s], o)],
           Judged(approved', s, [rv |-> isvc[s].cur.rv + 1, obj |-> o])
    PROVE  StoredJudged'
<1> SUFFICES ASSUME NEW t \in Services
             PROVE  /\ Coherent(isvc'[t])
                    /\ \A v \in Versions(isvc'[t]) : Judged(approved', t, v)
  BY DEF StoredJudged
<1>1. isvc[s] \in Replica(InferenceService)
  BY DEF TypeOK
<1>2. Coherent(isvc[t]) /\ \A v \in Versions(isvc[t]) : Judged(approved', t, v)
  BY JudgedMonotone DEF StoredJudged
<1>3. CASE t = s
  <2>1. isvc'[t] = Put(isvc[s], o)
    BY <1>3 DEF TypeOK
  <2>2. /\ Coherent(Put(isvc[s], o))
        /\ \A v \in Versions(Put(isvc[s], o)) :
              v \in Versions(isvc[s]) \/ v = [rv |-> isvc[s].cur.rv + 1, obj |-> o]
    BY <1>1, <1>2, <1>3, PutVersions
  <2> QED
    BY <1>2, <1>3, <2>1, <2>2
<1>4. CASE t # s
  <2>1. isvc'[t] = isvc[t]
    BY <1>4 DEF TypeOK
  <2> QED
    BY <1>2, <2>1
<1> QED
  BY <1>3, <1>4

\* The stored versions of services only move forward.
CurAdvances ==
    \A s \in Services : \/ isvc'[s].cur = isvc[s].cur
                        \/ isvc'[s].cur.rv = isvc[s].cur.rv + 1

\* A step that leaves the worker alone keeps what is known of its copies.
LEMMA WorkerJudgedKept ==
    ASSUME TypeOK, WorkerJudged, worker' = worker, approved \subseteq approved',
           verified \subseteq verified', CurAdvances
    PROVE  WorkerJudged'
<1> SUFFICES ASSUME worker.pc # "idle"
             PROVE  /\ CopyCoherent(worker.isvc, isvc'[worker.key].cur)
                    /\ Judged(approved', worker.key, worker.isvc)
                    /\ worker.pc # "model" =>
                          Verified(verified', worker.isvc.obj.spec.model, worker.model)
                    /\ worker.pc \in {"job", "create"} =>
                          /\ ReadyForOwnSpec(worker.isvc.obj)
                          /\ worker.model # None /\ worker.model.ready
  BY DEF WorkerJudged
<1>1. worker.key \in Services /\ worker.isvc.rv \in Nat
  BY WorkerBusy
<1>2. isvc[worker.key].cur.rv \in Nat
  BY <1>1, VersionsType DEF TypeOK, Version
<1>3. CopyCoherent(worker.isvc, isvc[worker.key].cur)
  BY DEF WorkerJudged
<1>4. CopyCoherent(worker.isvc, isvc'[worker.key].cur)
  BY <1>1, <1>2, <1>3 DEF CopyCoherent, CurAdvances
<1> QED
  BY <1>4, JudgedMonotone, VerifiedMonotone DEF WorkerJudged

\* A step that creates no Job keeps JobOfApprovedSpec.
LEMMA JobsKept ==
    ASSUME JobOfApprovedSpec, approved \subseteq approved',
           verified \subseteq verified',
           \A s \in Services : job'[s].cur.obj \in {job[s].cur.obj, None}
    PROVE  JobOfApprovedSpec'
BY DEF JobOfApprovedSpec

\* A step that adds no version of a Model keeps ModelsVerified.
LEMMA ModelsVerifiedSubset ==
    ASSUME ModelsVerified, verified \subseteq verified',
           \A m \in Models : Versions(model'[m]) \subseteq Versions(model[m])
    PROVE  ModelsVerified'
BY VerifiedMonotone DEF ModelsVerified

-----------------------------------------------------------------------------
(* The inductive invariant: initially, and over each group of actions.     *)

\* The invariant holds initially: there is nothing to judge.
LEMMA IndInit == Init => IInv
<1> SUFFICES ASSUME Init PROVE IInv
  OBVIOUS
<1>1. TypeOK
  BY TypeInit
<1>2. \A o : /\ Versions(InitialReplica(o)) = {[rv |-> 0, obj |-> o]}
            /\ Coherent(InitialReplica(o))
  BY DEF Versions, InitialReplica, Coherent
<1>3. StoredJudged
  BY <1>2 DEF Init, StoredJudged, Judged
<1>4. ModelsVerified
  BY <1>2 DEF Init, ModelsVerified, Verified
<1>5. WorkerJudged
  BY DEF Init, Idle, WorkerJudged
<1>6. JobOfApprovedSpec
  BY DEF Init, InitialReplica, JobOfApprovedSpec
<1> QED
  BY <1>1, <1>3, <1>4, <1>5, <1>6 DEF IInv

\* Users, the Model controller and the garbage collector keep the invariant.
LEMMA IndEnvironment == IInv /\ Environment => IInv'
<1> SUFFICES ASSUME IInv, Environment PROVE IInv'
  OBVIOUS
<1> USE DEF IInv
<1>0. TypeOK'
  BY TypeEnvironment
<1>1. ASSUME NEW s \in Services, NEW o \in InferenceService \cup {None},
             isvc' = [isvc EXCEPT ![s] = Put(isvc[s], o)],
             UNCHANGED <<model, job, worker, approved, verified>>,
             Judged(approved, s, [rv |-> isvc[s].cur.rv + 1, obj |-> o])
      PROVE  IInv'
  <2>1. StoredJudged'
    BY <1>1, StoredJudgedPut
  <2>2. CurAdvances
    <3>1. Put(isvc[s], o).cur.rv = isvc[s].cur.rv + 1
      BY DEF Put
    <3> QED
      BY <1>1, <3>1 DEF CurAdvances, TypeOK
  <2>3. WorkerJudged'
    BY <1>1, <2>2, WorkerJudgedKept
  <2>4. JobOfApprovedSpec'
    BY <1>1, JobsKept
  <2>5. ModelsVerified'
    BY <1>1, ModelsVerifiedSubset
  <2> QED
    BY <1>0, <2>1, <2>3, <2>4, <2>5
<1>2. ASSUME NEW s \in Services, NEW spec \in ServiceSpecs, CreateService(s, spec)
      PROVE  IInv'
  <2> DEFINE o == [uid |-> isvc[s].cur.rv + 1, gen |-> 1, spec |-> spec,
                   status |-> NewStatus]
  <2>1. isvc' = [isvc EXCEPT ![s] = Put(isvc[s], o)]
    BY <1>2 DEF CreateService, TypeOK
  <2>2. o \in InferenceService
    BY <1>2, NewServiceType
  <2>3. o.status.observedGeneration = 0 /\ o.gen = 1
    BY DEF NewStatus
  <2>4. Judged(approved, s, [rv |-> isvc[s].cur.rv + 1, obj |-> o])
    BY <2>3 DEF Judged, ReadyForOwnSpec
  <2> HIDE DEF o
  <2> QED
    BY <1>1, <1>2, <2>1, <2>2, <2>4 DEF CreateService
<1>3. ASSUME NEW s \in Services, NEW spec \in ServiceSpecs, UpdateService(s, spec)
      PROVE  IInv'
  <2> DEFINE old == isvc[s].cur.obj
             o   == Edited(old, spec)
  <2>1. old \in InferenceService
    BY <1>3, VersionsType DEF UpdateService, TypeOK, Version
  <2>2. /\ o \in InferenceService /\ o.uid = old.uid /\ o.spec = spec
        /\ o.status = old.status
        /\ \/ spec = old.spec /\ o.gen = old.gen
           \/ spec # old.spec /\ o.gen = old.gen + 1
    BY <2>1, EditedType
  <2>3. isvc' = [isvc EXCEPT ![s] = Put(isvc[s], o)]
    BY <1>3 DEF UpdateService, TypeOK
  <2>4. Judged(approved, s, isvc[s].cur)
    BY VersionsType DEF TypeOK, StoredJudged
  <2>5. /\ old.gen \in Nat /\ old.status.observedGeneration \in Nat
    BY <2>1 DEF InferenceService, InferenceServiceStatus
  <2>6. old.status.observedGeneration <= old.gen
    BY <1>3, <2>4 DEF Judged, UpdateService
  <2>7. Judged(approved, s, [rv |-> isvc[s].cur.rv + 1, obj |-> o])
    <3>1. CASE spec = old.spec
      <4>1. o.gen = old.gen /\ o.spec = old.spec
        BY <2>2, <3>1
      <4> HIDE DEF o
      <4> QED
        BY <1>3, <2>2, <2>4, <4>1 DEF Judged, ReadyForOwnSpec, UpdateService
    <3>2. CASE spec # old.spec
      <4>1. o.status.observedGeneration < o.gen
        BY <2>2, <2>5, <2>6, <3>2
      <4>2. o.gen \in Nat /\ o.status.observedGeneration \in Nat
        BY <2>2, <2>5
      <4> HIDE DEF o
      <4> QED
        BY <4>1, <4>2 DEF Judged, ReadyForOwnSpec
    <3> QED
      BY <3>1, <3>2
  <2> HIDE DEF o
  <2> QED
    BY <1>1, <1>3, <2>2, <2>3, <2>7 DEF UpdateService
<1>4. ASSUME NEW s \in Services, DeleteService(s) PROVE IInv'
  <2>1. Judged(approved, s, [rv |-> isvc[s].cur.rv + 1, obj |-> None])
    BY DEF Judged
  <2> QED
    BY <1>1, <1>4, <2>1 DEF DeleteService, TypeOK
<1>5. ASSUME NEW s \in Services, DeleteJob(s) \/ CollectJob(s) PROVE IInv'
  <2>1. UNCHANGED <<isvc, model, worker, approved, verified>>
    BY <1>5 DEF DeleteJob, CollectJob
  <2>2. job' = [job EXCEPT ![s] = Put(job[s], None)]
    BY <1>5 DEF DeleteJob, CollectJob, TypeOK
  <2>3. Put(job[s], None).cur.obj = None
    BY DEF Put
  <2>4. JobOfApprovedSpec'
    BY <2>1, <2>2, <2>3, JobsKept DEF TypeOK
  <2>5. StoredJudged' /\ ModelsVerified' /\ WorkerJudged'
    BY <2>1 DEF StoredJudged, ModelsVerified, WorkerJudged
  <2> QED
    BY <1>0, <2>4, <2>5
<1>6. ASSUME NEW m \in Models, NEW o \in ModelStates, WriteModel(m, o)
      PROVE  IInv'
  <2>1. /\ UNCHANGED <<isvc, job, worker, approved>> /\ verified \subseteq verified'
        /\ Verified(verified', m, o)
    BY <1>6 DEF WriteModel, Verified
  <2>2. model' = [model EXCEPT ![m] = Put(model[m], o)]
    BY <1>6 DEF WriteModel, TypeOK
  <2>3. \A v \in Versions(Put(model[m], o)) :
           v \in Versions(model[m]) \/ v = [rv |-> model[m].cur.rv + 1, obj |-> o]
    BY DEF Put, Versions
  <2>4. ModelsVerified'
    <3> SUFFICES ASSUME NEW n \in Models, NEW v \in Versions(model'[n])
                 PROVE  Verified(verified', n, v.obj)
      BY DEF ModelsVerified
    <3>1. CASE v \in Versions(model[n])
      BY <2>1, <3>1, VerifiedMonotone DEF ModelsVerified
    <3>2. CASE v \notin Versions(model[n])
      <4>1. n = m /\ v = [rv |-> model[m].cur.rv + 1, obj |-> o]
        BY <2>2, <2>3, <3>2 DEF TypeOK
      <4> QED
        BY <2>1, <4>1
    <3> QED
      BY <3>1, <3>2
  <2>5. StoredJudged'
    BY <2>1 DEF StoredJudged
  <2>6. WorkerJudged'
    BY <2>1, WorkerJudgedKept DEF CurAdvances
  <2>7. JobOfApprovedSpec'
    BY <2>1, JobsKept
  <2> QED
    BY <1>0, <2>4, <2>5, <2>6, <2>7
<1>7. ASSUME NEW o \in TenantStates, WriteTenant(o) PROVE IInv'
  <2>1. UNCHANGED <<isvc, model, job, worker, approved, verified>>
    BY <1>7 DEF WriteTenant
  <2> QED
    BY <1>0, <2>1 DEF StoredJudged, ModelsVerified, WorkerJudged, JobOfApprovedSpec
<1> QED
  BY <1>2, <1>3, <1>4, <1>5, <1>6, <1>7 DEF Environment

\* What the cache learns of a Model was stored: it keeps the invariant,
\* whether or not it is mapped to anybody.
LEMMA ModelDelivered ==
    ASSUME IInv, TypeOK', NEW m \in Models, NEW v \in model[m].watch,
           model' = [model EXCEPT ![m] = Deliver(@, v)],
           UNCHANGED <<isvc, job, worker, approved, verified>>
    PROVE  IInv'
<1> USE DEF IInv
<1>1. \A n \in Models : Versions(model'[n]) \subseteq Versions(model[n])
  <2>1. Versions(Deliver(model[m], v)) \subseteq Versions(model[m])
    BY DeliverVersions DEF TypeOK
  <2>2. \A n \in Models : model'[n] = IF n = m THEN Deliver(model[m], v) ELSE model[n]
    BY DEF TypeOK
  <2> QED
    BY <2>1, <2>2
<1>2. ModelsVerified'
  BY <1>1, ModelsVerifiedSubset
<1> QED
  BY <1>2 DEF StoredJudged, WorkerJudged, JobOfApprovedSpec

\* Informers and timers keep it: the cache only moves among known versions.
LEMMA IndDelivery == IInv /\ Delivery => IInv'
<1> SUFFICES ASSUME IInv, Delivery PROVE IInv'
  OBVIOUS
<1> USE DEF IInv
<1>0. TypeOK'
  BY TypeDelivery
<1>1. ASSUME NEW s \in Services, DeliverService(s) PROVE IInv'
  <2>1. PICK v \in isvc[s].watch : isvc' = [isvc EXCEPT ![s] = Deliver(isvc[s], v)]
    BY <1>1 DEF DeliverService, TypeOK
  <2>2. UNCHANGED <<model, job, worker, approved, verified>>
    BY <1>1 DEF DeliverService
  <2>3. \A t \in Services : /\ isvc'[t].cur = isvc[t].cur
                            /\ Coherent(isvc[t]) => Coherent(isvc'[t])
                            /\ Versions(isvc'[t]) \subseteq Versions(isvc[t])
    <3>1. /\ Deliver(isvc[s], v).cur = isvc[s].cur
          /\ Versions(Deliver(isvc[s], v)) \subseteq Versions(isvc[s])
          /\ Coherent(isvc[s]) => Coherent(Deliver(isvc[s], v))
      BY DeliverVersions DEF TypeOK
    <3>2. \A t \in Services : isvc'[t] = IF t = s THEN Deliver(isvc[s], v) ELSE isvc[t]
      BY <2>1 DEF TypeOK
    <3> QED
      BY <3>1, <3>2
  <2>4. StoredJudged'
    BY <2>2, <2>3, StoredJudgedSubset
  <2>5. WorkerJudged'
    BY <2>2, <2>3, WorkerJudgedKept DEF CurAdvances
  <2> QED
    BY <1>0, <2>2, <2>4, <2>5 DEF ModelsVerified, JobOfApprovedSpec
<1>2. ASSUME NEW s \in Services, DeliverJob(s) PROVE IInv'
  <2>1. PICK v \in job[s].watch : job' = [job EXCEPT ![s] = Deliver(job[s], v)]
    BY <1>2 DEF DeliverJob, TypeOK
  <2>2. UNCHANGED <<isvc, model, worker, approved, verified>>
    BY <1>2 DEF DeliverJob
  <2>3. \A t \in Services : job'[t].cur = job[t].cur
    BY <2>1, DeliverVersions DEF TypeOK
  <2>4. JobOfApprovedSpec'
    BY <2>2, <2>3, JobsKept
  <2> QED
    BY <1>0, <2>2, <2>4 DEF StoredJudged, ModelsVerified, WorkerJudged
<1>3. ASSUME NEW s \in Services, TimerFires(s) \/ Resync(s) PROVE IInv'
  BY <1>0, <1>3 DEF TimerFires, Resync, kube, StoredJudged, ModelsVerified,
       WorkerJudged, JobOfApprovedSpec
<1>4. ASSUME NEW m \in Models, DeliverModel(m) PROVE IInv'
  <2>1. PICK v \in model[m].watch :
           /\ model' = [model EXCEPT ![m] = Deliver(@, v)]
           /\ UNCHANGED <<isvc, job, worker, approved, verified>>
    BY <1>4 DEF DeliverModel
  <2> QED
    BY <1>0, <2>1, ModelDelivered
<1>5. ASSUME DeliverTenant PROVE IInv'
  BY <1>0, <1>5 DEF DeliverTenant, StoredJudged, ModelsVerified, WorkerJudged,
       JobOfApprovedSpec
<1> QED
  BY <1>1, <1>2, <1>3, <1>4, <1>5 DEF Delivery

\* Reconcile starts from a cached version, which has been judged.
LEMMA IndGet ==
    ASSUME IInv, NEW s \in Services, Get(s)
    PROVE  IInv'
<1> USE DEF IInv
<1>0. TypeOK'
  BY TypeGet
<1>1. UNCHANGED <<isvc, model, job, approved, verified>>
  BY DEF Get, kube
<1>2. WorkerJudged'
  <2>1. CASE isvc[s].cache.obj = None
    BY <2>1 DEF Get, Return, Idle, WorkerJudged
  <2>2. CASE isvc[s].cache.obj # None
    <3>1. worker' = [Idle EXCEPT !.pc = "model", !.key = s, !.isvc = isvc[s].cache]
      BY <2>2 DEF Get, Continue
    <3>2. worker'.pc = "model" /\ worker'.key = s /\ worker'.isvc = isvc[s].cache
      BY <3>1 DEF Idle
    <3>3. isvc[s].cache \in Versions(isvc[s])
      BY DEF Versions
    <3>4. CopyCoherent(isvc[s].cache, isvc[s].cur) /\ Judged(approved, s, isvc[s].cache)
      BY <3>3 DEF StoredJudged, Coherent, CopyCoherent
    <3> QED
      BY <1>1, <3>2, <3>4 DEF WorkerJudged
  <2> QED
    BY <2>1, <2>2
<1> QED
  BY <1>0, <1>1, <1>2 DEF StoredJudged, ModelsVerified, JobOfApprovedSpec

\* A status the API server accepts is written over the very version the
\* worker read.
LEMMA AcceptedCopy ==
    ASSUME IInv, worker.pc # "idle", Accepts
    PROVE  worker.isvc = isvc[worker.key].cur
BY DEF IInv, WorkerJudged, CopyCoherent, Accepts

\* What updateStatus writes is its verdict on the spec it read.
LEMMA NewStatusJudged ==
    ASSUME IInv, worker.pc = "status", Accepts, Approve(newStatus)
    PROVE  /\ approved \subseteq approved'
           /\ Judged(approved', worker.key, Stored(newStatus))
           /\ ~anyErr => ReadyForOwnSpec(Stored(newStatus).obj)
<1>1. approved \subseteq approved'
  BY DEF Approve
<1> DEFINE old == worker.isvc.obj
           o   == Stored(newStatus).obj
<1>2. old \in InferenceService
  BY WorkerBusy DEF IInv
<1>3. o = [old EXCEPT !.status = newStatus]
  BY AcceptedCopy DEF Stored, StoredObject
<1>4. /\ o.gen = old.gen /\ o.uid = old.uid /\ o.spec = old.spec
      /\ o.status = newStatus
  BY <1>2, <1>3 DEF InferenceService
<1>5. /\ o.status.observedGeneration = o.gen
      /\ o.status.phase = IF anyErr THEN "Pending" ELSE "Ready"
      /\ o.status.derivedPriority = derivedPriority
  BY <1>4 DEF newStatus
<1>6. o.gen \in Nat
  BY <1>2, <1>4 DEF InferenceService
<1>7. ASSUME ~anyErr
      PROVE  /\ [name |-> worker.key, uid |-> o.uid, spec |-> o.spec] \in approved'
             /\ ~ResolveFails(o.spec.resourceProfile)
             /\ o.spec.priority # None =>
                   o.status.derivedPriority = o.spec.priority
  <2>1. newStatus.phase = "Ready"
    BY <1>4, <1>5, <1>7
  <2>2. [name |-> worker.key, uid |-> o.uid, spec |-> o.spec] \in approved'
    BY <1>4, <2>1 DEF Approve
  <2>3. ~tenantErr /\ ~profileErr
    BY <1>7 DEF anyErr
  <2>4. ~ResolveFails(o.spec.resourceProfile)
    BY <1>4, <2>3 DEF profileErr
  <2>5. o.spec.priority # None => o.status.derivedPriority = o.spec.priority
    BY <1>4, <1>5, <2>3 DEF derivedPriority, Calculate
  <2> QED
    BY <2>2, <2>4, <2>5
<1> HIDE DEF o, old
<1>8. Judged(approved', worker.key, Stored(newStatus))
  BY <1>5, <1>6, <1>7 DEF Judged, ReadyForOwnSpec, o
<1>9. ~anyErr => ReadyForOwnSpec(Stored(newStatus).obj)
  BY <1>5 DEF ReadyForOwnSpec, o
<1> QED
  BY <1>1, <1>8, <1>9

\* What updateWorkloadCondition writes leaves the verdict as it was.
LEMMA WorkloadStatusJudged ==
    ASSUME IInv, worker.pc # "idle", Accepts
    PROVE  Judged(approved, worker.key, Stored(workloadStatus))
<1> DEFINE old == worker.isvc.obj
           o   == Stored(workloadStatus).obj
<1>1. old \in InferenceService /\ old # None
  BY WorkerBusy DEF IInv, TypeOK
<1>2. o = [old EXCEPT !.status = workloadStatus]
  BY AcceptedCopy DEF Stored, StoredObject
<1>3. /\ o.gen = old.gen /\ o.uid = old.uid /\ o.spec = old.spec
      /\ o.status = workloadStatus
  BY <1>1, <1>2 DEF InferenceService
<1>4. /\ workloadStatus.observedGeneration = old.status.observedGeneration
      /\ workloadStatus.phase = old.status.phase
      /\ workloadStatus.derivedPriority = old.status.derivedPriority
  BY <1>1 DEF workloadStatus, InferenceService, InferenceServiceStatus
<1>5. Judged(approved, worker.key, worker.isvc)
  BY DEF IInv, WorkerJudged
<1> HIDE DEF o
<1> QED
  BY <1>1, <1>3, <1>4, <1>5 DEF Judged, ReadyForOwnSpec, o

\* Storing a judged status keeps the versions of every service judged, and
\* moves the stored version of this one to the copy the caller gets back.
LEMMA StoreStatusJudged ==
    ASSUME IInv, worker.pc # "idle", Accepts,
           NEW status \in InferenceServiceStatus, StoreStatus(status),
           approved \subseteq approved',
           Judged(approved', worker.key, Stored(status))
    PROVE  StoredJudged' /\ isvc'[worker.key].cur = Stored(status)
<1>1. worker.key \in Services /\ StoredObject(status) \in InferenceService
  BY WorkerBusy, TypeStoreStatus DEF IInv
<1>2. isvc' = [isvc EXCEPT ![worker.key] = Put(isvc[worker.key], StoredObject(status))]
  BY <1>1 DEF StoreStatus, IInv, TypeOK
<1>3. Stored(status) = [rv |-> isvc[worker.key].cur.rv + 1, obj |-> StoredObject(status)]
  BY DEF Stored
<1>4. StoredJudged'
  BY <1>1, <1>2, <1>3, StoredJudgedPut DEF IInv
<1>5. isvc'[worker.key].cur = Stored(status)
  BY <1>1, <1>2, <1>3 DEF IInv, TypeOK, Put
<1> QED
  BY <1>4, <1>5

\* A Job is stored with the spec and the URI the worker has checked.
LEMMA StoreJobApproved ==
    ASSUME IInv, worker.pc = "create", StoreJob, UNCHANGED <<approved, verified>>
    PROVE  JobOfApprovedSpec'
<1> DEFINE a == [name |-> worker.key, uid |-> worker.isvc.obj.uid,
                 spec |-> worker.isvc.obj.spec]
           v == [name |-> worker.isvc.obj.spec.model, uri |-> worker.model.uri]
<1>1. worker.key \in Services /\ worker.isvc.obj # None
  BY WorkerBusy DEF IInv, TypeOK
<1>2. a \in approved
  BY <1>1 DEF IInv, WorkerJudged, Judged
<1>3. v \in verified
  BY DEF IInv, WorkerJudged, Verified
<1>4. desired = JobOf(a, v)
  BY DEF desired, JobOf
<1>5. /\ job' = [job EXCEPT ![worker.key] = Put(job[worker.key], desired)]
      /\ Put(job[worker.key], desired).cur.obj = desired
  BY <1>1 DEF StoreJob, IInv, TypeOK, Put
<1> SUFFICES ASSUME NEW s \in Services, job'[s].cur.obj # None
             PROVE  \E b \in approved, w \in verified :
                       /\ b.name = s /\ w.name = b.spec.model
                       /\ job'[s].cur.obj = JobOf(b, w)
  BY DEF JobOfApprovedSpec, JobOf
<1>6. CASE s = worker.key
  <2>1. a.name = s /\ v.name = a.spec.model
    BY <1>6
  <2>2. job'[s].cur.obj = JobOf(a, v)
    BY <1>1, <1>4, <1>5, <1>6 DEF IInv, TypeOK
  <2> HIDE DEF a, v
  <2> QED
    BY <1>2, <1>3, <2>1, <2>2
<1>7. CASE s # worker.key
  <2>1. job'[s] = job[s]
    BY <1>5, <1>7 DEF IInv, TypeOK
  <2> QED
    BY <2>1 DEF IInv, JobOfApprovedSpec
<1> QED
  BY <1>6, <1>7

\* Once the worker is idle nothing is claimed of its copies.
LEMMA IdleJudged ==
    ASSUME worker' = Idle
    PROVE  WorkerJudged'
BY DEF WorkerJudged, Idle

\* The Job steps keep the copies of the worker.
LEMMA WorkloadStepJudged ==
    ASSUME IInv, worker.pc \in {"job", "create"}, NEW err, WorkloadStep(err),
           UNCHANGED <<isvc, approved, verified>>
    PROVE  WorkerJudged'
<1>1. worker' = [worker EXCEPT !.pc = "workload", !.jobErr = err]
  BY DEF WorkloadStep, Continue
<1>2. /\ worker'.pc = "workload" /\ worker'.key = worker.key
      /\ worker'.isvc = worker.isvc /\ worker'.model = worker.model
  BY <1>1 DEF IInv, TypeOK, Worker
<1> QED
  BY <1>2 DEF IInv, WorkerJudged

\* Every step of Reconcile that meets no failure keeps the invariant.
LEMMA IndReconcile == IInv /\ Reconcile => IInv'
<1> SUFFICES ASSUME IInv, Reconcile PROVE IInv'
  OBVIOUS
<1>0. TypeOK'
  BY TypeReconcile DEF IInv, ModelInHand, WorkerJudged
<1>k. ASSUME UNCHANGED <<isvc, model, job, approved, verified>>
      PROVE  StoredJudged' /\ ModelsVerified' /\ JobOfApprovedSpec'
  BY <1>k DEF IInv, StoredJudged, ModelsVerified, JobOfApprovedSpec
<1>1. CASE ResolveModel
  <2> DEFINE m == worker.isvc.obj.spec.model
  <2>1. worker.pc = "model" /\ worker.pc # "idle"
    BY <1>1 DEF ResolveModel, At
  <2>2. /\ worker'.pc = "tenant" /\ worker'.key = worker.key
        /\ worker'.isvc = worker.isvc
        /\ worker'.model = model[m].cache.obj
    BY <1>1 DEF ResolveModel, Continue, IInv, TypeOK, Worker
  <2>3. Verified(verified, m, model[m].cache.obj)
    BY <2>1, WorkerBusy DEF IInv, ModelsVerified, Versions
  <2>4. UNCHANGED <<isvc, model, job, approved, verified>>
    BY <1>1 DEF ResolveModel, kube
  <2>5. WorkerJudged'
    BY <2>1, <2>2, <2>3, <2>4 DEF IInv, WorkerJudged
  <2> QED
    BY <1>0, <1>k, <2>4, <2>5 DEF IInv
<1>2. CASE ResolveTenant
  <2>1. worker.pc = "tenant"
    BY <1>2 DEF ResolveTenant, At
  <2>2. /\ worker'.pc = "status" /\ worker'.key = worker.key
        /\ worker'.isvc = worker.isvc /\ worker'.model = worker.model
    BY <1>2 DEF ResolveTenant, Continue, IInv, TypeOK, Worker
  <2>3. UNCHANGED <<isvc, model, job, approved, verified>>
    BY <1>2 DEF ResolveTenant, kube
  <2>4. WorkerJudged'
    BY <2>1, <2>2, <2>3 DEF IInv, WorkerJudged
  <2> QED
    BY <1>0, <1>k, <2>3, <2>4 DEF IInv
<1>3. CASE UpdateStatusSkipped
  <2>1. /\ worker.pc = "status" /\ newStatus = worker.isvc.obj.status
        /\ AfterStatus(worker.isvc)
    BY <1>3 DEF UpdateStatusSkipped, At
  <2>2. UNCHANGED <<isvc, model, job, approved, verified>>
    BY <1>3 DEF UpdateStatusSkipped, kube
  <2>3. WorkerJudged'
    <3>1. CASE anyErr
      BY <2>1, <3>1, IdleJudged DEF AfterStatus, Requeue
    <3>2. CASE ~anyErr
      <4>1. /\ worker'.pc = "job" /\ worker'.key = worker.key
            /\ worker'.isvc = worker.isvc /\ worker'.model = worker.model
        BY <2>1, <3>2 DEF AfterStatus, Continue, IInv, TypeOK, Worker
      <4>2. ReadyForOwnSpec(worker.isvc.obj)
        BY <2>1, <3>2 DEF ReadyForOwnSpec, newStatus
      <4>3. worker.model # None /\ worker.model.ready
        BY <3>2 DEF anyErr, modelErr
      <4> QED
        BY <2>1, <2>2, <4>1, <4>2, <4>3 DEF IInv, WorkerJudged
    <3> QED
      BY <3>1, <3>2
  <2> QED
    BY <1>0, <1>k, <2>2, <2>3 DEF IInv
<1>4. CASE UpdateStatusStored
  <2>1. /\ worker.pc = "status" /\ worker.pc # "idle" /\ Accepts
        /\ StoreStatus(newStatus) /\ Approve(newStatus)
        /\ AfterStatus(Stored(newStatus))
    BY <1>4 DEF UpdateStatusStored, At
  <2>2. UNCHANGED <<model, job, verified>>
    BY <1>4 DEF UpdateStatusStored
  <2>3. /\ approved \subseteq approved'
        /\ Judged(approved', worker.key, Stored(newStatus))
        /\ ~anyErr => ReadyForOwnSpec(Stored(newStatus).obj)
    BY <2>1, NewStatusJudged
  <2>4. StoredJudged' /\ isvc'[worker.key].cur = Stored(newStatus)
    BY <2>1, <2>3, NewStatusType, StoreStatusJudged DEF IInv
  <2>5. WorkerJudged'
    <3>1. CASE anyErr
      BY <2>1, <3>1, IdleJudged DEF AfterStatus, Requeue
    <3>2. CASE ~anyErr
      <4>1. /\ worker'.pc = "job" /\ worker'.key = worker.key
            /\ worker'.isvc = Stored(newStatus) /\ worker'.model = worker.model
        BY <2>1, <3>2 DEF AfterStatus, Continue, IInv, TypeOK, Worker
      <4>2. worker.model # None /\ worker.model.ready
        BY <3>2 DEF anyErr, modelErr
      <4>3. Stored(newStatus).obj.spec = worker.isvc.obj.spec
        <5>1. worker.isvc = isvc[worker.key].cur
          BY <2>1, AcceptedCopy
        <5>2. worker.isvc.obj \in InferenceService
          BY <2>1, WorkerBusy DEF IInv
        <5> QED
          BY <5>1, <5>2 DEF Stored, StoredObject, InferenceService
      <4>4. Verified(verified, worker.isvc.obj.spec.model, worker.model)
        BY <2>1 DEF IInv, WorkerJudged
      <4>5. CopyCoherent(worker'.isvc, isvc'[worker.key].cur)
        <5>1. Stored(newStatus).rv \in Nat
          BY <2>1, NewStatusType, TypeStoreStatus DEF IInv, Version
        <5> QED
          BY <2>4, <4>1, <5>1 DEF CopyCoherent
      <4> QED
        BY <2>2, <2>3, <3>2, <4>1, <4>2, <4>3, <4>4, <4>5 DEF WorkerJudged
    <3> QED
      BY <3>1, <3>2
  <2>6. JobOfApprovedSpec'
    BY <2>2, <2>3, JobsKept DEF IInv
  <2>7. ModelsVerified'
    BY <2>2 DEF IInv, ModelsVerified
  <2> QED
    BY <1>0, <2>4, <2>5, <2>6, <2>7 DEF IInv
<1>5. CASE UpdateStatusRefused \/ WorkloadRefused \/ WorkloadSkipped
  <2>1. UNCHANGED <<isvc, model, job, approved, verified>>
    BY <1>5 DEF UpdateStatusRefused, WorkloadRefused, WorkloadSkipped, kube
  <2>2. worker' = Idle
    BY <1>5 DEF UpdateStatusRefused, WorkloadRefused, WorkloadSkipped,
         AfterWorkload, Requeue, Return
  <2> QED
    BY <1>0, <1>k, <2>1, <2>2, IdleJudged DEF IInv
<1>6. CASE GetJob
  <2>1. worker.pc = "job"
    BY <1>6 DEF GetJob, At
  <2>2. UNCHANGED <<isvc, model, job, approved, verified>>
    BY <1>6 DEF GetJob, kube
  <2>3. WorkerJudged'
    <3>1. CASE job[worker.key].cache.obj = None
      <4>1. /\ worker'.pc = "create" /\ worker'.key = worker.key
            /\ worker'.isvc = worker.isvc /\ worker'.model = worker.model
        BY <1>6, <3>1 DEF GetJob, Continue, IInv, TypeOK, Worker
      <4> QED
        BY <2>1, <2>2, <4>1 DEF IInv, WorkerJudged
    <3>2. CASE job[worker.key].cache.obj # None
      BY <1>6, <2>1, <2>2, <3>2, WorkloadStepJudged DEF GetJob
    <3> QED
      BY <3>1, <3>2
  <2> QED
    BY <1>0, <1>k, <2>2, <2>3 DEF IInv
<1>7. CASE CreateJob
  <2>1. /\ worker.pc = "create" /\ StoreJob /\ WorkloadStep(FALSE)
        /\ UNCHANGED <<isvc, model, approved, verified>>
    BY <1>7 DEF CreateJob, At
  <2>2. JobOfApprovedSpec' /\ WorkerJudged'
    BY <2>1, StoreJobApproved, WorkloadStepJudged
  <2> QED
    BY <1>0, <2>1, <2>2 DEF IInv, StoredJudged, ModelsVerified
<1>8. CASE JobAlreadyExists
  <2>1. /\ worker.pc = "create" /\ WorkloadStep(TRUE)
        /\ UNCHANGED <<isvc, model, job, approved, verified>>
    BY <1>8 DEF JobAlreadyExists, At, kube
  <2> QED
    BY <1>0, <1>k, <2>1, WorkloadStepJudged DEF IInv
<1>9. CASE WorkloadStored
  <2>1. /\ worker.pc # "idle" /\ Accepts /\ StoreStatus(workloadStatus)
        /\ UNCHANGED <<model, job, approved, verified>>
    BY <1>9 DEF WorkloadStored, At
  <2>2. worker' = Idle
    BY <1>9 DEF WorkloadStored, AfterWorkload, Requeue, Return
  <2>3. StoredJudged'
    BY <2>1, WorkloadStatusType, WorkloadStatusJudged, StoreStatusJudged DEF IInv
  <2> QED
    BY <1>0, <2>1, <2>2, <2>3, IdleJudged DEF IInv, ModelsVerified, JobOfApprovedSpec
<1> QED
  BY <1>1, <1>2, <1>3, <1>4, <1>5, <1>6, <1>7, <1>8, <1>9 DEF Reconcile

\* So does every failure: a lost call stores nothing, one that times out stores
\* what the successful call would have, and a restart forgets the worker.
LEMMA IndFailure == IInv /\ Failure => IInv'
<1> SUFFICES ASSUME IInv, Failure PROVE IInv'
  OBVIOUS
<1>0. TypeOK'
  BY TypeFailure DEF IInv, ModelInHand, WorkerJudged
<1>1. CASE GetFails \/ UpdateStatusLost \/ WorkloadLost
  <2>1. worker' = Idle /\ UNCHANGED <<isvc, model, job, approved, verified>>
    BY <1>1 DEF GetFails, UpdateStatusLost, WorkloadLost, Requeue, kube
  <2> QED
    BY <1>0, <2>1, IdleJudged DEF IInv, StoredJudged, ModelsVerified, JobOfApprovedSpec
<1>2. CASE UpdateStatusTimesOut
  <2>1. /\ worker.pc = "status" /\ worker.pc # "idle" /\ Accepts
        /\ StoreStatus(newStatus) /\ Approve(newStatus)
        /\ worker' = Idle /\ UNCHANGED <<model, job, verified>>
    BY <1>2 DEF UpdateStatusTimesOut, At, Requeue
  <2>2. approved \subseteq approved' /\ Judged(approved', worker.key, Stored(newStatus))
    BY <2>1, NewStatusJudged
  <2>3. StoredJudged'
    BY <2>1, <2>2, NewStatusType, StoreStatusJudged DEF IInv
  <2>4. JobOfApprovedSpec'
    BY <2>1, <2>2, JobsKept DEF IInv
  <2> QED
    BY <1>0, <2>1, <2>3, <2>4, IdleJudged DEF IInv, ModelsVerified
<1>3. CASE JobCallLost
  <2>1. /\ worker.pc \in {"job", "create"} /\ WorkloadStep(TRUE)
        /\ UNCHANGED <<isvc, model, job, approved, verified>>
    BY <1>3 DEF JobCallLost, kube
  <2> QED
    BY <1>0, <2>1, WorkloadStepJudged
    DEF IInv, StoredJudged, ModelsVerified, JobOfApprovedSpec
<1>4. CASE CreateJobTimesOut
  <2>1. /\ worker.pc = "create" /\ StoreJob /\ WorkloadStep(TRUE)
        /\ UNCHANGED <<isvc, model, approved, verified>>
    BY <1>4 DEF CreateJobTimesOut, At
  <2>2. JobOfApprovedSpec' /\ WorkerJudged'
    BY <2>1, StoreJobApproved, WorkloadStepJudged
  <2> QED
    BY <1>0, <2>1, <2>2 DEF IInv, StoredJudged, ModelsVerified
<1>5. CASE WorkloadTimesOut
  <2>1. /\ worker.pc # "idle" /\ Accepts /\ StoreStatus(workloadStatus)
        /\ worker' = Idle /\ UNCHANGED <<model, job, approved, verified>>
    BY <1>5 DEF WorkloadTimesOut, At, Requeue
  <2>2. StoredJudged'
    BY <2>1, WorkloadStatusType, WorkloadStatusJudged, StoreStatusJudged DEF IInv
  <2> QED
    BY <1>0, <2>1, <2>2, IdleJudged DEF IInv, ModelsVerified, JobOfApprovedSpec
<1>6. CASE Restart
  <2>1. worker' = Idle /\ UNCHANGED <<approved, verified>>
    BY <1>6 DEF Restart
  <2>2. \A s \in Services : /\ Coherent(isvc[s]) => Coherent(isvc'[s])
                            /\ Versions(isvc'[s]) \subseteq Versions(isvc[s])
    BY <1>6, RelistVersions DEF Restart, IInv, TypeOK
  <2>3. \A m \in Models : Versions(model'[m]) \subseteq Versions(model[m])
    BY <1>6, RelistVersions DEF Restart, IInv, TypeOK
  <2>4. \A s \in Services : job'[s].cur.obj = job[s].cur.obj
    BY <1>6, RelistVersions DEF Restart, IInv, TypeOK
  <2> QED
    BY <1>0, <2>1, <2>2, <2>3, <2>4, IdleJudged, StoredJudgedSubset,
       ModelsVerifiedSubset, JobsKept DEF IInv
<1>7. ASSUME NEW m \in Models, ListFails(m) PROVE IInv'
  <2>1. PICK v \in model[m].watch :
           /\ model' = [model EXCEPT ![m] = Deliver(@, v)]
           /\ UNCHANGED <<isvc, job, worker, approved, verified>>
    BY <1>7 DEF ListFails
  <2> QED
    BY <1>0, <2>1, ModelDelivered
<1>8. ASSUME NEW s \in Services, FirstGetFails(s) PROVE IInv'
  BY <1>0, <1>8 DEF FirstGetFails, kube, IInv, StoredJudged, ModelsVerified,
       WorkerJudged, JobOfApprovedSpec
<1> QED
  BY <1>1, <1>2, <1>3, <1>4, <1>5, <1>6, <1>7, <1>8 DEF Failure

-----------------------------------------------------------------------------
(* The theorems.                                                           *)

\* IInv holds in every reachable state of the controller and its environment.
THEOREM Inductive == Spec => []IInv
<1>1. Init => IInv
  BY IndInit
<1>2. IInv /\ [Next]_vars => IInv'
  <2> SUFFICES ASSUME IInv, [Next]_vars PROVE IInv'
    OBVIOUS
  <2>1. CASE UNCHANGED vars
    <3>1. TypeOK'
      BY <2>1 DEF vars, IInv, TypeOK
    <3>2. StoredJudged' /\ ModelsVerified'
      BY <2>1 DEF vars, IInv, StoredJudged, ModelsVerified
    <3>3. WorkerJudged'
      BY <2>1 DEF vars, IInv, WorkerJudged
    <3>4. JobOfApprovedSpec'
      BY <2>1 DEF vars, IInv, JobOfApprovedSpec
    <3> QED
      BY <3>1, <3>2, <3>3, <3>4 DEF IInv
  <2>2. CASE Next
    BY <2>2, IndEnvironment, IndDelivery, IndGet, IndReconcile, IndFailure DEF Next
  <2> QED
    BY <2>1, <2>2
<1> QED
  BY <1>1, <1>2, PTL DEF Spec

\* Every variable keeps its type: no step of Reconcile dereferences a missing
\* object.
THEOREM TypeCorrect == Spec => []TypeOK
BY Inductive, PTL DEF IInv

\* reconcileKueueJob only ever creates Jobs for specs stored as Ready, with
\* the URI of a Model stored as Ready.
THEOREM JobsAreOfApprovedSpecs == Spec => []JobOfApprovedSpec
BY Inductive, PTL DEF IInv

\* A status that claims the current generation is a verdict on the current
\* spec of the same object.
THEOREM StatusIsOfOwnGeneration == Spec => []StatusOfOwnGeneration
<1>1. IInv => StatusOfOwnGeneration
  <2> SUFFICES ASSUME IInv, NEW s \in Services PROVE Judged(approved, s, isvc[s].cur)
    BY DEF StatusOfOwnGeneration, Judged, ReadyForOwnSpec
  <2> QED
    BY DEF IInv, StoredJudged, Versions
<1> QED
  BY <1>1, Inductive, PTL

\* Steps that leave the stored services alone.
LEMMA SameGeneration ==
    ASSUME TypeOK, \A s \in Services : isvc'[s].cur = isvc[s].cur
    PROVE  GenerationStep
<1> SUFFICES ASSUME NEW s \in Services, isvc[s].cur.obj # None
             PROVE  isvc[s].cur.obj.status.observedGeneration
                       <= isvc'[s].cur.obj.status.observedGeneration
  BY DEF GenerationStep
<1>1. isvc[s].cur.obj \in InferenceService
  BY VersionsType DEF TypeOK, Version
<1>2. isvc[s].cur.obj.status.observedGeneration \in Nat
  BY <1>1 DEF InferenceService, InferenceServiceStatus
<1> QED
  BY <1>2

\* Steps that store one object.
LEMMA PutGeneration ==
    ASSUME TypeOK, NEW s \in Services, NEW o,
           isvc' = [isvc EXCEPT ![s] = Put(isvc[s], o)],
           isvc[s].cur.obj # None /\ o # None =>
              isvc[s].cur.obj.status.observedGeneration
                 <= o.status.observedGeneration
    PROVE  GenerationStep
<1> SUFFICES ASSUME NEW t \in Services, isvc[t].cur.obj # None,
                    isvc'[t].cur.obj # None
             PROVE  isvc[t].cur.obj.status.observedGeneration
                       <= isvc'[t].cur.obj.status.observedGeneration
  BY DEF GenerationStep
<1>1. CASE t = s
  <2>1. isvc'[t].cur.obj = o
    BY <1>1 DEF TypeOK, Put
  <2> QED
    BY <1>1, <2>1
<1>2. CASE t # s
  <2>1. isvc'[t] = isvc[t]
    BY <1>2 DEF TypeOK
  <2>2. isvc[t].cur.obj \in InferenceService
    BY VersionsType DEF TypeOK, Version
  <2>3. isvc[t].cur.obj.status.observedGeneration \in Nat
    BY <2>2 DEF InferenceService, InferenceServiceStatus
  <2> QED
    BY <2>1, <2>3
<1> QED
  BY <1>1, <1>2

\* The two status writes of Reconcile.
LEMMA StoreStatusGeneration ==
    ASSUME IInv, worker.pc # "idle", Accepts,
           StoreStatus(newStatus) \/ StoreStatus(workloadStatus)
    PROVE  GenerationStep
<1> DEFINE old == isvc[worker.key].cur.obj
<1>1. worker.key \in Services /\ worker.isvc.obj = old /\ old \in InferenceService
  BY WorkerBusy, AcceptedCopy DEF IInv
<1>2. /\ old.status.observedGeneration \in Nat
      /\ old.status \in InferenceServiceStatus
  BY <1>1 DEF InferenceService, InferenceServiceStatus
<1>3. old.status.observedGeneration <= old.gen
  BY <1>1, NoneAssumption DEF IInv, WorkerJudged, Judged
<1>4. /\ newStatus.observedGeneration = old.gen
      /\ workloadStatus.observedGeneration = old.status.observedGeneration
  BY <1>1, <1>2 DEF newStatus, workloadStatus, InferenceServiceStatus
<1>5. ASSUME NEW status, StoreStatus(status),
             old.status.observedGeneration <= status.observedGeneration
      PROVE  GenerationStep
  <2>1. isvc' = [isvc EXCEPT ![worker.key] = Put(isvc[worker.key], StoredObject(status))]
    BY <1>1, <1>5 DEF StoreStatus, IInv, TypeOK
  <2>2. StoredObject(status).status = status
    BY <1>1 DEF StoredObject, InferenceService
  <2> QED
    BY <1>1, <1>5, <2>1, <2>2, PutGeneration DEF IInv
<1>6. old.status.observedGeneration <= workloadStatus.observedGeneration
  BY <1>2, <1>4
<1>7. old.status.observedGeneration <= newStatus.observedGeneration
  BY <1>3, <1>4
<1> QED
  BY <1>5, <1>6, <1>7

\* The status of an InferenceService never goes back to an earlier
\* generation: the resourceVersion check refuses every stale write.
THEOREM ObservedGenerationsAdvance == Spec => ObservedGenerationAdvances
<1>1. IInv /\ [Next]_vars => [GenerationStep]_vars
  <2> SUFFICES ASSUME IInv, Next PROVE GenerationStep
    OBVIOUS
  <2>0. TypeOK
    BY DEF IInv
  <2>1. ASSUME isvc' = isvc PROVE GenerationStep
    BY <2>0, <2>1, SameGeneration
  <2>2. CASE Environment
    <3>1. ASSUME NEW s \in Services, NEW spec \in ServiceSpecs, CreateService(s, spec)
          PROVE  GenerationStep
      <4>1. PICK o : isvc' = [isvc EXCEPT ![s] = Put(isvc[s], o)]
        BY <2>0, <3>1 DEF CreateService, TypeOK
      <4> QED
        BY <2>0, <3>1, <4>1, PutGeneration DEF CreateService
    <3>2. ASSUME NEW s \in Services, NEW spec \in ServiceSpecs, UpdateService(s, spec)
          PROVE  GenerationStep
      <4>1. isvc' = [isvc EXCEPT ![s] = Put(isvc[s], Edited(isvc[s].cur.obj, spec))]
        BY <2>0, <3>2 DEF UpdateService, TypeOK
      <4>2. isvc[s].cur.obj \in InferenceService
        BY <2>0, <3>2, VersionsType DEF UpdateService, TypeOK, Version
      <4>3. Edited(isvc[s].cur.obj, spec).status = isvc[s].cur.obj.status
        BY <4>2, EditedType
      <4>4. isvc[s].cur.obj.status.observedGeneration \in Nat
        BY <4>2 DEF InferenceService, InferenceServiceStatus
      <4>5. isvc[s].cur.obj.status.observedGeneration
               <= Edited(isvc[s].cur.obj, spec).status.observedGeneration
        BY <4>3, <4>4
      <4> QED
        BY <2>0, <4>1, <4>5, PutGeneration
    <3>3. ASSUME NEW s \in Services, DeleteService(s) PROVE GenerationStep
      <4>1. isvc' = [isvc EXCEPT ![s] = Put(isvc[s], None)]
        BY <2>0, <3>3 DEF DeleteService, TypeOK
      <4> QED
        BY <2>0, <4>1, PutGeneration
    <3>4. ASSUME NEW s \in Services, DeleteJob(s) \/ CollectJob(s) PROVE GenerationStep
      BY <2>1, <3>4 DEF DeleteJob, CollectJob
    <3>5. ASSUME NEW m \in Models, NEW o \in ModelStates, WriteModel(m, o)
          PROVE  GenerationStep
      BY <2>1, <3>5 DEF WriteModel
    <3>6. ASSUME NEW o \in TenantStates, WriteTenant(o) PROVE GenerationStep
      BY <2>1, <3>6 DEF WriteTenant
    <3> QED
      BY <2>2, <3>1, <3>2, <3>3, <3>4, <3>5, <3>6 DEF Environment
  <2>3. CASE Delivery
    <3>1. ASSUME NEW s \in Services, DeliverService(s) PROVE GenerationStep
      <4>1. PICK v \in isvc[s].watch : isvc' = [isvc EXCEPT ![s] = Deliver(isvc[s], v)]
        BY <2>0, <3>1 DEF DeliverService, TypeOK
      <4>2. Deliver(isvc[s], v).cur = isvc[s].cur
        BY DEF Deliver
      <4>3. \A t \in Services : isvc'[t].cur = isvc[t].cur
        BY <2>0, <4>1, <4>2 DEF TypeOK
      <4> QED
        BY <2>0, <4>3, SameGeneration
    <3>2. ASSUME NEW s \in Services, DeliverJob(s) \/ TimerFires(s) \/ Resync(s)
          PROVE  GenerationStep
      BY <2>1, <3>2 DEF DeliverJob, TimerFires, Resync, kube
    <3>3. ASSUME NEW m \in Models, DeliverModel(m) PROVE GenerationStep
      BY <2>1, <3>3 DEF DeliverModel
    <3>4. ASSUME DeliverTenant PROVE GenerationStep
      BY <2>1, <3>4 DEF DeliverTenant
    <3> QED
      BY <2>3, <3>1, <3>2, <3>3, <3>4 DEF Delivery
  <2>4. ASSUME NEW s \in Services, Get(s) PROVE GenerationStep
    BY <2>1, <2>4 DEF Get, kube
  <2>5. CASE UpdateStatusStored \/ UpdateStatusTimesOut \/ WorkloadStored
               \/ WorkloadTimesOut
    BY <2>5, StoreStatusGeneration
    DEF UpdateStatusStored, UpdateStatusTimesOut, WorkloadStored,
        WorkloadTimesOut, At
  <2>6. CASE Reconcile /\ ~(UpdateStatusStored \/ WorkloadStored)
    BY <2>1, <2>6
    DEF Reconcile, ResolveModel, ResolveTenant, UpdateStatusSkipped,
        UpdateStatusRefused, GetJob, CreateJob, JobAlreadyExists,
        WorkloadSkipped, WorkloadRefused, kube
  <2>7. CASE GetFails \/ UpdateStatusLost \/ JobCallLost \/ CreateJobTimesOut
               \/ WorkloadLost
    BY <2>1, <2>7
    DEF GetFails, UpdateStatusLost, JobCallLost, CreateJobTimesOut,
        WorkloadLost, kube
  <2>8. ASSUME NEW m \in Models, ListFails(m) PROVE GenerationStep
    BY <2>1, <2>8 DEF ListFails
  <2>9. ASSUME NEW s \in Services, FirstGetFails(s) PROVE GenerationStep
    BY <2>1, <2>9 DEF FirstGetFails, kube
  <2>10. CASE Restart
    <3>1. \A s \in Services : isvc'[s].cur = isvc[s].cur
      BY <2>10 DEF Restart, Relist
    <3> QED
      BY <2>0, <3>1, SameGeneration
  <2> QED
    BY <2>2, <2>3, <2>4, <2>5, <2>6, <2>7, <2>8, <2>9, <2>10
    DEF Next, Reconcile, Failure
<1> QED
  BY <1>1, Inductive, PTL DEF Spec, ObservedGenerationAdvances
=============================================================================
