--------------------- MODULE InferenceServiceRefinement ---------------------
(***************************************************************************)
(* The InferenceService controller implements StatusWriter, for any set of *)
(* services, Models and specs and any budget of outside events.            *)
(***************************************************************************)
EXTENDS InferenceServiceControllerProofs

-----------------------------------------------------------------------------
(* The two statuses Reconcile writes are verdicts.                         *)

\* The conditions updateStatus sets, one by one.
LEMMA NewConditionsAre ==
    ASSUME TypeOK, worker.pc # "idle"
    PROVE  /\ newConditions["ModelReady"] = IF modelErr THEN "False" ELSE "True"
           /\ newConditions["TenantResolved"] = IF tenantErr THEN "False" ELSE "True"
           /\ newConditions["ResourceProfileResolved"] =
                 IF profileErr THEN "False" ELSE "True"
           /\ newConditions["CapacityAvailable"] =
                 IF capacityErr THEN "False" ELSE "True"
           /\ newConditions["Ready"] = IF anyErr THEN "False" ELSE "True"
           /\ newConditions["WorkloadReady"] =
                 worker.isvc.obj.status.conditions["WorkloadReady"]
<1>1. worker.isvc.obj.status.conditions \in [ServiceConditions -> ConditionStatus]
  BY WorkerBusy DEF InferenceService, InferenceServiceStatus
<1> QED
  BY <1>1 DEF newConditions, SetCond, ServiceConditions

\* What updateStatus computes is a verdict on the copy it was computed from.
LEMMA NewStatusFits ==
    ASSUME TypeOK, worker.pc # "idle"
    PROVE  /\ Fits(worker.isvc.obj, newStatus)
           /\ ~anyErr => newStatus.phase = "Ready"
<1>1. /\ newStatus.conditions = newConditions
      /\ newStatus.phase = IF anyErr THEN "Pending" ELSE "Ready"
      /\ newStatus.observedGeneration = worker.isvc.obj.gen
      /\ newStatus.derivedPriority = derivedPriority
  BY DEF newStatus
<1>2. tenantErr => derivedPriority = 0
  BY DEF derivedPriority
<1>3. ~tenantErr /\ worker.isvc.obj.spec.priority # None =>
         derivedPriority = worker.isvc.obj.spec.priority
  BY DEF derivedPriority, Calculate
<1> QED
  BY <1>1, <1>2, <1>3, NewConditionsAre DEF Fits, anyErr, profileErr

\* What updateWorkloadCondition computes is a verdict on the copy if the
\* status it starts from is one.
LEMMA WorkloadStatusFits ==
    ASSUME TypeOK, WorkerReported, worker.pc = "workload"
    PROVE  Fits(worker.isvc.obj, workloadStatus)
<1> DEFINE old == worker.isvc.obj.status
<1>1. /\ old \in InferenceServiceStatus
      /\ old.conditions \in [ServiceConditions -> ConditionStatus]
  BY WorkerBusy DEF InferenceService, InferenceServiceStatus
<1>2. /\ workloadStatus.phase = old.phase
      /\ workloadStatus.observedGeneration = old.observedGeneration
      /\ workloadStatus.derivedPriority = old.derivedPriority
      /\ workloadStatus.conditions = SetCond(old.conditions, "WorkloadReady", worker.jobErr)
  BY <1>1 DEF workloadStatus, InferenceServiceStatus
<1>3. \A t \in ServiceConditions \ {"WorkloadReady"} :
         workloadStatus.conditions[t] = old.conditions[t]
  BY <1>1, <1>2 DEF SetCond
<1>4. old.phase = "Ready" /\ Fits(worker.isvc.obj, old)
  BY DEF WorkerReported
<1> HIDE DEF old
<1> QED
  BY <1>2, <1>3, <1>4 DEF Fits, ServiceConditions

\* A verdict on an object is one on the object that carries it.
LEMMA FitsCarrier ==
    ASSUME NEW o \in InferenceService, NEW status \in InferenceServiceStatus,
           Fits(o, status)
    PROVE  Fits([o EXCEPT !.status = status], status)
<1> DEFINE p == [o EXCEPT !.status = status]
<1>1. p.gen = o.gen /\ p.spec = o.spec /\ p.status = status
  BY DEF InferenceService
<1> HIDE DEF p
<1> QED
  BY <1>1 DEF Fits, p

-----------------------------------------------------------------------------
(* WorkerReported is preserved.                                            *)

\* A worker that has ended its Reconcile, or has not come to the Job.
LEMMA EarlyReported ==
    ASSUME worker'.pc \notin {"job", "create", "workload"}
    PROVE  WorkerReported'
BY DEF WorkerReported

\* A step that takes the copy along reports what was reported before.
LEMMA SameReported ==
    ASSUME WorkerReported, worker.pc \in {"job", "create", "workload"},
           worker'.isvc = worker.isvc
    PROVE  WorkerReported'
BY DEF WorkerReported

\* Past the first status write, made or skipped, the copy carries a verdict.
LEMMA AfterStatusReported ==
    ASSUME IInv, worker.pc = "status", NEW copy,
           copy.obj.status = newStatus, Fits(copy.obj, newStatus),
           AfterStatus(copy)
    PROVE  WorkerReported'
<1>0. worker.pc # "idle"
  OBVIOUS
<1>1. CASE anyErr
  BY <1>0, <1>1, TypeEnd, EarlyReported DEF AfterStatus, IInv
<1>2. CASE ~anyErr
  <2>1. worker'.isvc = copy
    BY <1>2 DEF AfterStatus, Continue, IInv, TypeOK, Worker
  <2>2. newStatus.phase = "Ready"
    BY <1>0, <1>2, NewStatusFits DEF IInv
  <2>3. worker'.isvc.obj.status.phase = "Ready"
           /\ Fits(worker'.isvc.obj, worker'.isvc.obj.status)
    BY <2>1, <2>2
  <2> QED
    BY <2>3 DEF WorkerReported
<1> QED
  BY <1>1, <1>2

\* A status that is stored is stored over the copy it was computed from.
LEMMA StoredReported ==
    ASSUME IInv, worker.pc # "idle", Accepts,
           NEW status \in InferenceServiceStatus, Fits(worker.isvc.obj, status)
    PROVE  /\ Stored(status).obj = StoredObject(status)
           /\ StoredObject(status) = [worker.isvc.obj EXCEPT !.status = status]
           /\ StoredObject(status).status = status
           /\ Fits(StoredObject(status), status)
<1>1. worker.isvc.obj \in InferenceService
  BY WorkerBusy DEF IInv
<1>2. StoredObject(status) = [worker.isvc.obj EXCEPT !.status = status]
  BY AcceptedCopy DEF StoredObject
<1>3. StoredObject(status).status = status
  BY <1>1, <1>2 DEF InferenceService
<1> QED
  BY <1>1, <1>2, <1>3, FitsCarrier DEF Stored

\* Every step keeps WorkerReported.
LEMMA ReportedNext == IInv /\ WorkerReported /\ [Next]_vars => WorkerReported'
<1> SUFFICES ASSUME IInv, WorkerReported, [Next]_vars PROVE WorkerReported'
  OBVIOUS
<1>0. TypeOK
  BY DEF IInv
<1>1. ASSUME worker' = worker PROVE WorkerReported'
  BY <1>1 DEF WorkerReported
<1>2. CASE Environment
  BY <1>1, <1>2 DEF Environment, CreateService, UpdateService, DeleteService,
     DeleteJob, CollectJob, WriteModel, WriteTenant
<1>3. CASE Delivery
  BY <1>1, <1>3 DEF Delivery, DeliverService, DeliverJob, TimerFires, Resync,
     DeliverModel, DeliverTenant
<1>4. ASSUME NEW s \in Services, Get(s) PROVE WorkerReported'
  <2>1. worker' = Idle \/ worker' = [Idle EXCEPT !.pc = "model", !.key = s,
                                                !.isvc = isvc[s].cache]
    BY <1>4 DEF Get, Return, Continue
  <2>2. CASE worker' = Idle
    BY <2>2, EarlyReported DEF Idle
  <2>3. CASE worker' = [Idle EXCEPT !.pc = "model", !.key = s, !.isvc = isvc[s].cache]
    <3>1. worker'.pc = "model"
      BY <2>3 DEF Idle
    <3> QED
      BY <3>1, EarlyReported
  <2> QED
    BY <2>1, <2>2, <2>3
<1>5. CASE ResolveModel \/ ResolveTenant
  <2>1. worker'.pc \in {"tenant", "status"}
    BY <1>0, <1>5 DEF ResolveModel, ResolveTenant, Continue, TypeOK, Worker
  <2> QED
    BY <2>1, EarlyReported
<1>6. CASE UpdateStatusSkipped
  <2>1. worker.pc = "status" /\ newStatus = worker.isvc.obj.status
           /\ AfterStatus(worker.isvc)
    BY <1>6 DEF UpdateStatusSkipped, At
  <2>2. Fits(worker.isvc.obj, newStatus)
    BY <1>0, <2>1, NewStatusFits
  <2> QED
    BY <2>1, <2>2, AfterStatusReported
<1>7. CASE UpdateStatusStored
  <2>1. worker.pc = "status" /\ Accepts /\ AfterStatus(Stored(newStatus))
    BY <1>7 DEF UpdateStatusStored, At
  <2>2. Fits(worker.isvc.obj, newStatus) /\ newStatus \in InferenceServiceStatus
    BY <1>0, <2>1, NewStatusFits, NewStatusType
  <2>3. /\ Stored(newStatus).obj.status = newStatus
        /\ Fits(Stored(newStatus).obj, newStatus)
    BY <2>1, <2>2, StoredReported
  <2> QED
    BY <2>1, <2>3, AfterStatusReported
<1>8. CASE UpdateStatusRefused \/ UpdateStatusLost \/ UpdateStatusTimesOut
             \/ GetFails \/ WorkloadRefused \/ WorkloadLost \/ WorkloadTimesOut
             \/ WorkloadSkipped \/ WorkloadStored
  <2>1. worker' = Idle
    BY <1>8 DEF UpdateStatusRefused, UpdateStatusLost, UpdateStatusTimesOut,
       GetFails, WorkloadRefused, WorkloadLost, WorkloadTimesOut,
       WorkloadSkipped, WorkloadStored, AfterWorkload, Requeue, Return
  <2> QED
    BY <2>1, EarlyReported DEF Idle
<1>9. CASE GetJob \/ CreateJob \/ JobAlreadyExists \/ JobCallLost \/ CreateJobTimesOut
  <2>1. /\ worker.pc \in {"job", "create"}
        /\ worker'.isvc = worker.isvc
    BY <1>0, <1>9 DEF GetJob, CreateJob, JobAlreadyExists, JobCallLost,
       CreateJobTimesOut, At, WorkloadStep, Continue, TypeOK, Worker
  <2> QED
    BY <2>1, SameReported
<1>10. CASE Restart
  BY <1>10, EarlyReported DEF Restart, Idle
<1>11. CASE (\E m \in Models : ListFails(m)) \/ \E s \in Services : FirstGetFails(s)
  BY <1>1, <1>11 DEF ListFails, FirstGetFails
<1>12. CASE UNCHANGED vars
  BY <1>1, <1>12 DEF vars
<1> QED
  BY <1>2, <1>3, <1>4, <1>5, <1>6, <1>7, <1>8, <1>9, <1>10, <1>11, <1>12
  DEF Next, Reconcile, Failure

\* Past the first status write the worker's copy carries a verdict on itself.
THEOREM CopiesAreReported == Spec => [](IInv /\ WorkerReported)
<1>1. Init => WorkerReported
  BY DEF Init, Idle, WorkerReported
<1> QED
  BY <1>1, ReportedNext, Inductive, PTL DEF Spec

-----------------------------------------------------------------------------
(* The refinement.                                                         *)

\* A stored version is one change of one object of StatusWriter.
LEMMA StoredPut ==
    ASSUME TypeOK, NEW s \in Services, NEW o,
           isvc' = [isvc EXCEPT ![s] = Put(isvc[s], o)]
    PROVE  /\ stored' = [stored EXCEPT ![s] = stored'[s]]
           /\ stored[s] = isvc[s].cur.obj
           /\ stored'[s] = o
<1>1. isvc'[s].cur.obj = o /\ \A t \in Services \ {s} : isvc'[t] = isvc[t]
  BY DEF TypeOK, Put
<1>2. /\ stored' = [t \in Services |-> isvc'[t].cur.obj]
      /\ stored = [t \in Services |-> isvc[t].cur.obj]
  BY DEF stored
<1>3. stored[s] = isvc[s].cur.obj /\ stored'[s] = o
  BY <1>1, <1>2
<1>4. \A t \in Services : stored'[t] = [stored EXCEPT ![s] = stored'[s]][t]
  BY <1>1, <1>2, <1>3
<1> QED
  BY <1>2, <1>3, <1>4

\* A status write of Reconcile is a Write of StatusWriter.
LEMMA StoreStatusWrites ==
    ASSUME IInv, worker.pc # "idle", Accepts,
           NEW status \in InferenceServiceStatus, Fits(worker.isvc.obj, status),
           StoreStatus(status)
    PROVE  Abstract!Next
<1> DEFINE s == worker.key
           o == worker.isvc.obj
           p == StoredObject(status)
<1>1. s \in Services /\ o \in InferenceService /\ o = isvc[s].cur.obj
  BY WorkerBusy, AcceptedCopy DEF IInv
<1>2. p = [o EXCEPT !.status = status] /\ p.status = status
  BY StoredReported
<1>3. p \in InferenceService
  BY TypeStoreStatus DEF IInv
<1>4. isvc' = [isvc EXCEPT ![s] = Put(isvc[s], p)]
  BY <1>1 DEF StoreStatus, IInv, TypeOK
<1> HIDE DEF s, o, p
<1>5. /\ stored' = [stored EXCEPT ![s] = stored'[s]]
      /\ stored[s] = o
      /\ stored'[s] = p
  BY <1>1, <1>4, StoredPut DEF IInv
<1>6. Fits(o, p.status)
  BY <1>2 DEF o
<1>7. Abstract!Write(s)
  BY <1>1, <1>2, <1>3, <1>5, <1>6, NoneAssumption DEF Abstract!Write
<1> QED
  BY <1>1, <1>5, <1>7 DEF Abstract!Next

\* Each step of the controller or of its environment is a step of
\* StatusWriter or changes no stored InferenceService.
LEMMA StepImplements ==
    IInv /\ WorkerReported /\ [Next]_vars => [Abstract!Next]_stored
<1> SUFFICES ASSUME IInv, WorkerReported, [Next]_vars
             PROVE  Abstract!Next \/ stored' = stored
  OBVIOUS
<1>0. TypeOK
  BY DEF IInv
<1>1. ASSUME isvc' = isvc PROVE stored' = stored
  BY <1>1 DEF stored
<1>2. ASSUME NEW s \in Services, NEW spec \in ServiceSpecs, CreateService(s, spec)
      PROVE  Abstract!Next
  <2> DEFINE o == [uid |-> isvc[s].cur.rv + 1, gen |-> 1, spec |-> spec,
                   status |-> NewStatus]
  <2>1. o \in InferenceService /\ o.status = NewStatus
    BY <1>0, NewServiceType
  <2>2. isvc[s].cur.obj = None /\ isvc' = [isvc EXCEPT ![s] = Put(isvc[s], o)]
    BY <1>0, <1>2 DEF CreateService, TypeOK
  <2> HIDE DEF o
  <2>3. /\ stored' = [stored EXCEPT ![s] = stored'[s]]
        /\ stored[s] = None /\ stored'[s] = o
    BY <1>0, <2>2, StoredPut
  <2>4. Abstract!Create(s)
    BY <2>1, <2>3, NoneAssumption DEF Abstract!Create
  <2> QED
    BY <2>3, <2>4 DEF Abstract!Next
<1>3. ASSUME NEW s \in Services, NEW spec \in ServiceSpecs, UpdateService(s, spec)
      PROVE  Abstract!Next
  <2> DEFINE o == isvc[s].cur.obj
             p == Edited(o, spec)
  <2>1. o \in InferenceService
    BY <1>0, <1>3, VersionsType DEF UpdateService, TypeOK, Version
  <2>2. p \in InferenceService /\ p.uid = o.uid /\ p.status = o.status
    BY <2>1, EditedType
  <2>3. isvc' = [isvc EXCEPT ![s] = Put(isvc[s], p)]
    BY <1>0, <1>3 DEF UpdateService, TypeOK
  <2> HIDE DEF p
  <2>4. /\ stored' = [stored EXCEPT ![s] = stored'[s]]
        /\ stored[s] = o /\ stored'[s] = p
    BY <1>0, <2>3, StoredPut
  <2>5. Abstract!Edit(s)
    BY <2>1, <2>2, <2>4, NoneAssumption DEF Abstract!Edit
  <2> QED
    BY <2>4, <2>5 DEF Abstract!Next
<1>4. ASSUME NEW s \in Services, DeleteService(s) PROVE Abstract!Next
  <2>1. isvc[s].cur.obj # None /\ isvc' = [isvc EXCEPT ![s] = Put(isvc[s], None)]
    BY <1>0, <1>4 DEF DeleteService, TypeOK
  <2>2. /\ stored' = [stored EXCEPT ![s] = stored'[s]]
        /\ stored[s] # None /\ stored'[s] = None
    BY <1>0, <2>1, StoredPut
  <2> QED
    BY <2>2 DEF Abstract!Next, Abstract!Delete
<1>5. CASE Environment
  BY <1>1, <1>2, <1>3, <1>4, <1>5
  DEF Environment, DeleteJob, CollectJob, WriteModel, WriteTenant
<1>6. ASSUME \A s \in Services : isvc'[s].cur = isvc[s].cur PROVE stored' = stored
  BY <1>6 DEF stored
<1>7. CASE Delivery
  <2>1. ASSUME NEW s \in Services, DeliverService(s) PROVE stored' = stored
    <3>1. PICK v \in isvc[s].watch : isvc' = [isvc EXCEPT ![s] = Deliver(isvc[s], v)]
      BY <2>1 DEF DeliverService
    <3>2. Deliver(isvc[s], v).cur = isvc[s].cur
      BY DEF Deliver
    <3>3. \A t \in Services : isvc'[t].cur = isvc[t].cur
      BY <1>0, <3>1, <3>2 DEF TypeOK
    <3> QED
      BY <1>6, <3>3
  <2> QED
    BY <1>1, <1>7, <2>1
    DEF Delivery, DeliverJob, TimerFires, Resync, DeliverModel, DeliverTenant, kube
<1>8. ASSUME NEW s \in Services, Get(s) PROVE stored' = stored
  BY <1>1, <1>8 DEF Get, kube
<1>9. CASE UpdateStatusStored \/ UpdateStatusTimesOut
  <2>1. worker.pc = "status" /\ Accepts /\ StoreStatus(newStatus)
    BY <1>9 DEF UpdateStatusStored, UpdateStatusTimesOut, At
  <2>2. Fits(worker.isvc.obj, newStatus) /\ newStatus \in InferenceServiceStatus
    BY <1>0, <2>1, NewStatusFits, NewStatusType
  <2> QED
    BY <2>1, <2>2, StoreStatusWrites
<1>10. CASE WorkloadStored \/ WorkloadTimesOut
  <2>1. worker.pc = "workload" /\ Accepts /\ StoreStatus(workloadStatus)
    BY <1>10 DEF WorkloadStored, WorkloadTimesOut, At
  <2>2. /\ Fits(worker.isvc.obj, workloadStatus)
        /\ workloadStatus \in InferenceServiceStatus
    BY <1>0, <2>1, WorkloadStatusFits, WorkloadStatusType
  <2> QED
    BY <2>1, <2>2, StoreStatusWrites
<1>11. CASE Reconcile /\ ~(UpdateStatusStored \/ WorkloadStored)
  BY <1>1, <1>11
  DEF Reconcile, ResolveModel, ResolveTenant, UpdateStatusSkipped,
      UpdateStatusRefused, GetJob, CreateJob, JobAlreadyExists,
      WorkloadSkipped, WorkloadRefused, kube
<1>12. CASE GetFails \/ UpdateStatusLost \/ JobCallLost \/ CreateJobTimesOut
              \/ WorkloadLost
  BY <1>1, <1>12
  DEF GetFails, UpdateStatusLost, JobCallLost, CreateJobTimesOut, WorkloadLost, kube
<1>13. CASE Restart
  BY <1>6, <1>13 DEF Restart, Relist
<1>14. CASE (\E m \in Models : ListFails(m)) \/ \E s \in Services : FirstGetFails(s)
  BY <1>1, <1>14 DEF ListFails, FirstGetFails, kube
<1>15. CASE UNCHANGED vars
  BY <1>1, <1>15 DEF vars
<1> QED
  BY <1>5, <1>7, <1>8, <1>9, <1>10, <1>11, <1>12, <1>13, <1>14, <1>15
  DEF Next, Reconcile, Failure

\* The InferenceService controller implements StatusWriter: both status writes
\* of a Reconcile, whatever copies they start from and whatever calls are lost
\* or repeated, replace the status alone, by a verdict on the object stored.
THEOREM StatusesAreVerdicts == Spec => ImplementsStatusWriter
<1>1. Init => Abstract!Init
  BY DEF Init, Abstract!Init, stored, InitialReplica
<1> QED
  BY <1>1, StepImplements, CopiesAreReported, PTL
  DEF Spec, ImplementsStatusWriter, Abstract!Spec
=============================================================================
