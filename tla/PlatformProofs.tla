--------------------------- MODULE PlatformProofs ---------------------------
(***************************************************************************)
(* The two controllers together, for every value of the constants: each    *)
(* one keeps its own specification, so that what is proved of it alone     *)
(* holds of the platform.                                                  *)
(***************************************************************************)
EXTENDS Platform, WatchedObjectProofs

\* The theorems about the controllers, with the substitutions of M and S.
MP == INSTANCE ModelControllerProofs WITH
        model <- models, queue <- modelQueue, delayed <- modelDelayed,
        worker <- modelWorker, budget <- modelBudget, Budget <- ModelBudget

SP == INSTANCE InferenceServiceWrites WITH
        model <- [m \in Models |-> SeenReplica(models[m])],
        ModelStates <- [ready : BOOLEAN, uri : URIs \cup {""}] \cup {None},
        Budget <- ServiceBudget, Courses <- {ServiceBudget}

-----------------------------------------------------------------------------
(* The Model controller.                                                   *)

\* The constants are as ModelController assumes.
LEMMA ModelConstants ==
    /\ None \notin MP!Model
    /\ None \notin Models
    /\ ModelSpecs \subseteq MP!ModelSpec
    /\ ModelBudget \in [MP!Kinds -> Nat]
BY PlatformAssumption
   DEF M!Model, MP!Model, M!ModelSpec, MP!ModelSpec, M!ModelStatus, MP!ModelStatus,
       M!Kinds, MP!Kinds, M!ConditionStatus, MP!ConditionStatus

\* M and MP are the same instance.
LEMMA ModelSame ==
    /\ M!Init <=> MP!Init
    /\ [M!Next]_(M!vars) <=> [MP!Next]_(MP!vars)
    /\ M!TypeOK <=> MP!TypeOK
<1>1. M!Init <=> MP!Init
  BY DEF M!Init, MP!Init, M!Idle, MP!Idle, M!InitialReplica, MP!InitialReplica
<1>2. M!Next <=> MP!Next
  <2> USE DEF M!Spend, MP!Spend, M!Put, MP!Put, M!Idle, MP!Idle
  <2> USE DEF M!Writes, MP!Writes, M!newStatus, MP!newStatus, M!NewStatusOf,
              MP!NewStatusOf, M!VerifiesSpec, MP!VerifiesSpec, M!Unchanged, MP!Unchanged
  <2> USE DEF M!Accepts, MP!Accepts, M!StoreStatus, MP!StoreStatus,
              M!Return, MP!Return, M!Requeue, MP!Requeue
  <2>1. \A m \in Models, spec \in ModelSpecs :
           /\ M!CreateModel(m, spec) <=> MP!CreateModel(m, spec)
           /\ M!UpdateModel(m, spec) <=> MP!UpdateModel(m, spec)
    BY DEF M!CreateModel, MP!CreateModel, M!UpdateModel, MP!UpdateModel,
           M!NewModelStatus, MP!NewModelStatus
  <2>2. \A m \in Models :
           /\ M!DeleteModel(m) <=> MP!DeleteModel(m)
           /\ M!DeliverModel(m) <=> MP!DeliverModel(m)
           /\ M!TimerFires(m) <=> MP!TimerFires(m)
           /\ M!Resync(m) <=> MP!Resync(m)
           /\ M!Get(m) <=> MP!Get(m)
           /\ M!FirstGetFails(m) <=> MP!FirstGetFails(m)
    BY DEF M!DeleteModel, MP!DeleteModel, M!DeliverModel, MP!DeliverModel,
           M!Deliver, MP!Deliver, M!TimerFires, MP!TimerFires, M!Resync, MP!Resync,
           M!Get, MP!Get, M!FirstGetFails, MP!FirstGetFails
  <2>3. M!Reconcile <=> MP!Reconcile
    BY DEF M!Reconcile, MP!Reconcile, M!UpdateStatusSkipped, MP!UpdateStatusSkipped,
           M!UpdateStatusStored, MP!UpdateStatusStored,
           M!UpdateStatusRefused, MP!UpdateStatusRefused
  <2>4. /\ M!UpdateStatusLost <=> MP!UpdateStatusLost
        /\ M!UpdateStatusTimesOut <=> MP!UpdateStatusTimesOut
        /\ M!Restart <=> MP!Restart
    BY DEF M!UpdateStatusLost, MP!UpdateStatusLost, M!UpdateStatusTimesOut,
           MP!UpdateStatusTimesOut, M!Restart, MP!Restart, M!Relist, MP!Relist
  <2> QED
    BY <2>1, <2>2, <2>3, <2>4 DEF M!Next, MP!Next
<1>3. M!vars = MP!vars /\ (UNCHANGED M!vars <=> UNCHANGED MP!vars)
  BY DEF M!vars, MP!vars
<1>4. M!TypeOK <=> MP!TypeOK
  BY DEF M!TypeOK, MP!TypeOK, M!Model, MP!Model, M!ModelSpec, MP!ModelSpec,
         M!ModelStatus, MP!ModelStatus, M!Worker, MP!Worker, M!Idle, MP!Idle,
         M!Kinds, MP!Kinds, M!Replica, MP!Replica, M!Version, MP!Version,
         M!ConditionStatus, MP!ConditionStatus
<1> QED
  BY <1>1, <1>2, <1>3, <1>4

\* A step of the platform is a step of the Model controller and its users, or
\* leaves them alone.
LEMMA ModelStepIs == [Next]_vars => [M!Next]_(M!vars)
<1> SUFFICES ASSUME [Next]_vars PROVE [M!Next]_(M!vars)
  OBVIOUS
<1>1. CASE ModelStep
  BY <1>1 DEF ModelStep, M!Next
<1>2. CASE ModelsStay
  BY <1>2 DEF ModelsStay, modelVars, M!vars
<1>3. CASE \E m \in Models : DeliverModel(m)
  BY <1>3 DEF DeliverModel, M!Next
<1>4. CASE Restart
  BY <1>4 DEF Restart, M!Next
<1>5. CASE UNCHANGED vars
  BY <1>5 DEF vars, modelVars, M!vars
<1> QED
  BY <1>1, <1>2, <1>3, <1>4, <1>5 DEF Next

\* On the platform the Model controller is what ModelController says it is.
THEOREM ModelControllerRuns == Spec => M!Spec
<1>1. Init => M!Init
  BY DEF Init
<1> QED
  BY <1>1, ModelStepIs, PTL DEF Spec, M!Spec

\* The Models keep their type.
LEMMA ModelTypes == Spec => []M!TypeOK
<1>1. MP!Spec => []MP!TypeOK
  BY ModelConstants, MP!TypeCorrect
<1> QED
  BY <1>1, ModelControllerRuns, ModelSame, PTL DEF M!Spec, MP!Spec
-----------------------------------------------------------------------------
(* What the InferenceService controller sees of a write of a Model.        *)

\* The view of a written Model is the view of the Model, written.
LEMMA SeenPut ==
    ASSUME NEW r \in M!Replica(M!Model), NEW o
    PROVE  SeenReplica(M!Put(r, o)) = S!Put(SeenReplica(r), Seen(o))
<1> DEFINE v == [rv |-> r.cur.rv + 1, obj |-> o]
<1>1. M!Put(r, o) = [cur |-> v, cache |-> r.cache, watch |-> r.watch \cup {v}]
  BY DEF M!Put
<1>2. SeenVersion(v) = [rv |-> r.cur.rv + 1, obj |-> Seen(o)]
  BY DEF SeenVersion
<1>3. SeenReplica(r).cur.rv = r.cur.rv
  BY DEF SeenReplica, SeenVersion
<1>4. {SeenVersion(w) : w \in r.watch \cup {v}} =
         {SeenVersion(w) : w \in r.watch} \cup {SeenVersion(v)}
  OBVIOUS
<1> HIDE DEF v
<1>5. SeenReplica(M!Put(r, o)) =
         [cur |-> SeenVersion(v), cache |-> SeenVersion(r.cache),
          watch |-> {SeenVersion(w) : w \in r.watch} \cup {SeenVersion(v)}]
  BY <1>1, <1>4 DEF SeenReplica
<1>6. S!Put(SeenReplica(r), Seen(o)) =
         [cur |-> SeenVersion(v), cache |-> SeenVersion(r.cache),
          watch |-> {SeenVersion(w) : w \in r.watch} \cup {SeenVersion(v)}]
  BY <1>2, <1>3 DEF S!Put, SeenReplica
<1> QED
  BY <1>5, <1>6

\* What is seen of a Model is a Model of InferenceServiceController.
LEMMA SeenModel ==
    ASSUME NEW o \in M!Model \cup {None}
    PROVE  /\ Seen(o) \in [ready : BOOLEAN, uri : URIs \cup {""}] \cup {None}
           /\ Seen(o) # None <=> o # None
           /\ o # None => /\ Seen(o).ready <=> o.status.ready = "True"
                          /\ Seen(o).uri = o.spec.uri
<1>1. CASE o = None
  BY <1>1 DEF Seen
<1>2. CASE o # None
  <2> DEFINE b == o.status.ready = "True"
             u == o.spec.uri
  <2>1. u \in URIs \cup {""}
    BY <1>2 DEF M!Model, M!ModelSpec
  <2>2. Seen(o) = [ready |-> b, uri |-> u] /\ b \in BOOLEAN
    BY <1>2 DEF Seen
  <2> HIDE DEF b, u
  <2>3. Seen(o) \in S!Model /\ Seen(o).ready = b /\ Seen(o).uri = u
    <3>1. [ready |-> b, uri |-> u] \in [ready : BOOLEAN, uri : URIs \cup {""}]
      BY <2>1, <2>2, Zenon
    <3>2. [ready |-> b, uri |-> u].ready = b /\ [ready |-> b, uri |-> u].uri = u
      BY Zenon
    <3> QED
      BY <2>2, <3>1, <3>2, Zenon DEF S!Model
  <2>4. Seen(o) # None
    BY <2>3, PlatformAssumption
  <2> QED
    BY <1>2, <2>3, <2>4 DEF S!Model, b, u
<1> QED
  BY <1>1, <1>2

\* A write of a Model, with what the InferenceService side keeps of it, is a
\* step its environment may take.
LEMMA ModelWritten ==
    ASSUME M!TypeOK, ServicesSee, NEW m \in Models, NEW o \in M!Model \cup {None},
           o # None \/ models[m].cur.obj # None,
           models' = [models EXCEPT ![m] = M!Put(models[m], o)]
    PROVE  S!WriteModel(m, Seen(o))
<1> DEFINE seen == [n \in Models |-> SeenReplica(models[n])]
           x == Seen(o)
<1>1. models \in [Models -> M!Replica(M!Model)]
  BY DEF M!TypeOK
<1>2. /\ models'[m] = M!Put(models[m], o)
      /\ \A n \in Models \ {m} : models'[n] = models[n]
  BY <1>1
<1>3. models'[m].cur = [rv |-> models[m].cur.rv + 1, obj |-> o]
  BY <1>2 DEF M!Put
<1>4. models'[m].cur # models[m].cur
  <2>1. models[m].cur.rv \in Nat
    BY <1>1 DEF M!Replica, M!Version
  <2>2. models'[m].cur.rv = models[m].cur.rv + 1
    BY <1>3
  <2> QED
    BY <2>1, <2>2
<1>5. models[m].cur.obj \in M!Model \cup {None}
  BY <1>1 DEF M!Replica, M!Version
<1>6. x # None \/ seen[m].cur.obj # None
  <2>1. seen[m].cur.obj = Seen(models[m].cur.obj)
    BY DEF SeenReplica, SeenVersion
  <2> QED
    BY <1>5, <2>1, SeenModel
<1>7. S!Spend("model") /\ UNCHANGED serviceVars
  BY <1>4 DEF ServicesSee
<1>8. seen' = [seen EXCEPT ![m] = S!Put(seen[m], x)]
  <2>1. seen' = [n \in Models |-> SeenReplica(models'[n])]
    OBVIOUS
  <2>2. SeenReplica(models'[m]) = S!Put(seen[m], x)
    BY <1>1, <1>2, SeenPut
  <2>3. \A n \in Models \ {m} : SeenReplica(models'[n]) = seen[n]
    BY <1>2
  <2> HIDE DEF x
  <2> QED
    BY <2>1, <2>2, <2>3
<1>9. verified' = IF x # None /\ x.ready
                  THEN verified \cup {[name |-> m, uri |-> x.uri]}
                  ELSE verified
  <2> DEFINE R == {n \in Models : /\ models'[n].cur # models[n].cur
                                  /\ models'[n].cur.obj # None
                                  /\ models'[n].cur.obj.status.ready = "True"}
             T == {[name |-> n, uri |-> models'[n].cur.obj.spec.uri] : n \in R}
  <2>1. verified' = verified \cup T
    BY <1>4 DEF ServicesSee
  <2>2. models'[m].cur.obj = o
    BY <1>3
  <2>3. \A n \in R : n = m
    BY <1>2
  <2>4. m \in R <=> o # None /\ o.status.ready = "True"
    BY <1>4, <2>2
  <2>5. m \in R <=> x # None /\ x.ready
    BY <2>4, SeenModel
  <2>6. CASE m \in R
    <3>1. R = {m}
      BY <2>3, <2>6
    <3> HIDE DEF R
    <3>2. T = {[name |-> m, uri |-> o.spec.uri]}
      BY <2>2, <3>1
    <3>3. x.uri = o.spec.uri
      BY <2>4, <2>6, SeenModel
    <3> QED
      BY <2>1, <2>5, <2>6, <3>2, <3>3
  <2>7. CASE m \notin R
    <3>1. R = {}
      BY <2>3, <2>7
    <3> HIDE DEF R
    <3>2. T = {}
      BY <3>1
    <3> QED
      BY <2>1, <2>5, <2>7, <3>2
  <2> QED
    BY <2>6, <2>7
<1> HIDE DEF x
<1>10. S!WriteModel(m, x)
  BY <1>6, <1>7, <1>8, <1>9 DEF S!WriteModel, serviceVars
<1> QED
  BY <1>10 DEF x

\* What a step of the Model controller and its users does to the Models: it
\* stores one version of one of them, or nothing.
ModelWrite ==
    \E m \in Models, o \in M!Model \cup {None} :
        /\ o # None \/ models[m].cur.obj # None
        /\ models' = [models EXCEPT ![m] = M!Put(models[m], o)]

\* Every step of theirs is one.
LEMMA ModelStepWrites ==
    ASSUME M!TypeOK, ModelStep
    PROVE  models' = models \/ ModelWrite
<1>3. \A m \in Models : /\ models[m].cur.obj \in M!Model \cup {None}
                        /\ models[m].cur.rv \in Nat
  BY DEF M!TypeOK, M!Replica, M!Version
<1>4. None \notin M!Model /\ ModelSpecs \subseteq M!ModelSpec
  BY PlatformAssumption
<1>5. ASSUME NEW m \in Models, NEW spec \in ModelSpecs, M!CreateModel(m, spec)
      PROVE  ModelWrite
  <2> DEFINE o == [uid |-> models[m].cur.rv + 1, spec |-> spec,
                   status |-> M!NewModelStatus]
  <2>0. M!NewModelStatus \in M!ModelStatus
    BY DEF M!NewModelStatus, M!ModelStatus, M!ConditionStatus
  <2>1. o \in M!Model
    BY <1>3, <1>4, <2>0 DEF M!Model
  <2>2. models' = [models EXCEPT ![m] = M!Put(models[m], o)]
    BY <1>5 DEF M!CreateModel
  <2> HIDE DEF o
  <2> QED
    BY <1>4, <2>1, <2>2 DEF ModelWrite
<1>6. ASSUME NEW m \in Models, NEW spec \in ModelSpecs, M!UpdateModel(m, spec)
      PROVE  ModelWrite
  <2> DEFINE o == [models[m].cur.obj EXCEPT !.spec = spec]
  <2>0. models[m].cur.obj # None
    BY <1>6 DEF M!UpdateModel
  <2>1. o \in M!Model
    BY <1>3, <1>4, <2>0 DEF M!Model
  <2>2. models' = [models EXCEPT ![m] = M!Put(models[m], o)]
    BY <1>6 DEF M!UpdateModel
  <2> HIDE DEF o
  <2> QED
    BY <2>0, <2>1, <2>2 DEF ModelWrite
<1>7. ASSUME NEW m \in Models, M!DeleteModel(m) PROVE ModelWrite
  <2>1. models[m].cur.obj # None /\ models' = [models EXCEPT ![m] = M!Put(models[m], None)]
    BY <1>7 DEF M!DeleteModel
  <2> QED
    BY <2>1 DEF ModelWrite
<1>8. ASSUME M!Writes, M!Accepts, M!StoreStatus PROVE ModelWrite
  <2> DEFINE m == modelWorker.key
             c == modelWorker.copy.obj
             o == [models[m].cur.obj EXCEPT !.status = M!newStatus]
  <2>1. m \in Models /\ c \in M!Model
    BY <1>8 DEF M!Writes, M!TypeOK, M!Worker, M!Version
  <2>2. M!newStatus \in M!ModelStatus
    <3>1. c.spec.digest \in Digests \cup {""} /\ c.status.resolvedDigest \in Digests \cup {""}
      BY <2>1 DEF M!Model, M!ModelSpec, M!ModelStatus
    <3> QED
      BY <3>1 DEF M!newStatus, M!NewStatusOf, M!ModelStatus, M!ConditionStatus
  <2>3. models[m].cur.obj # None
    BY <1>8 DEF M!Accepts
  <2>4. o \in M!Model
    BY <1>3, <2>1, <2>2, <2>3 DEF M!Model
  <2>5. models' = [models EXCEPT ![m] = M!Put(models[m], o)]
    BY <1>8 DEF M!StoreStatus
  <2> HIDE DEF m, o
  <2> QED
    BY <2>1, <2>3, <2>4, <2>5 DEF ModelWrite
<1> QED
  <2>1. CASE \E m \in Models : \/ M!TimerFires(m) \/ M!Resync(m)
                              \/ M!Get(m) \/ M!FirstGetFails(m)
    BY <2>1 DEF M!TimerFires, M!Resync, M!Get, M!FirstGetFails
  <2>2. CASE M!Reconcile \/ M!UpdateStatusLost \/ M!UpdateStatusTimesOut
    BY <1>8, <2>2 DEF M!Reconcile, M!UpdateStatusSkipped, M!UpdateStatusStored,
       M!UpdateStatusRefused, M!UpdateStatusLost, M!UpdateStatusTimesOut
  <2> QED
    BY <1>5, <1>6, <1>7, <2>1, <2>2 DEF ModelStep

\* So the InferenceService side sees a step of its environment, if anything.
LEMMA ModelStepSeen ==
    ASSUME M!TypeOK, ModelStep, ServicesSee
    PROVE  [S!Next]_(S!vars)
<1>1. CASE models' = models
  BY <1>1 DEF ServicesSee, serviceVars, S!vars
<1>2. ASSUME NEW m \in Models, NEW o \in M!Model \cup {None},
             o # None \/ models[m].cur.obj # None,
             models' = [models EXCEPT ![m] = M!Put(models[m], o)]
      PROVE  S!Next
  <2>1. S!WriteModel(m, Seen(o))
    BY <1>2, ModelWritten
  <2>2. Seen(o) \in [ready : BOOLEAN, uri : URIs \cup {""}] \cup {None}
    BY <1>2, SeenModel
  <2> HIDE DEF Seen
  <2>3. S!Environment
    BY <2>1, <2>2 DEF S!Environment
  <2> QED
    BY <2>3 DEF S!Next
<1> QED
  BY <1>1, <1>2, ModelStepWrites DEF ModelWrite

\* A step of the platform is a step InferenceServiceController allows.
LEMMA ServiceStepIs == M!TypeOK /\ [Next]_vars => [S!Next]_(S!vars)
<1> SUFFICES ASSUME M!TypeOK, [Next]_vars PROVE [S!Next]_(S!vars)
  OBVIOUS
<1>1. CASE ModelStep /\ ServicesSee
  BY <1>1, ModelStepSeen
<1>2. CASE ServiceStep
  BY <1>2 DEF ServiceStep, S!Next, S!Delivery, S!Failure
<1>3. CASE \E m \in Models : DeliverModel(m)
  BY <1>3 DEF DeliverModel, S!Next, S!Delivery, S!Failure
<1>4. CASE Restart
  BY <1>4 DEF Restart, S!Next, S!Failure
<1>5. CASE UNCHANGED vars
  BY <1>5 DEF vars, modelVars, serviceVars, S!vars
<1> QED
  BY <1>1, <1>2, <1>3, <1>4, <1>5 DEF Next

\* The Model controller and its users never do more than the InferenceService
\* controller allows for: the specification its own theorems are about is
\* implemented by the platform cmd/main.go sets up.
THEOREM ServiceControllerRuns == Spec => ServiceControllerSpec
<1>1. Init => S!Init
  BY DEF Init
<1> QED
  BY <1>1, ModelTypes, ServiceStepIs, PTL DEF Spec, ServiceControllerSpec, S!Spec

-----------------------------------------------------------------------------
(* What is proved of the InferenceService controller holds here.           *)

\* The constants are as InferenceServiceController assumes.
LEMMA ServiceConstants ==
    /\ /\ None \notin SP!InferenceService
       /\ None \notin SP!Job
       /\ None \notin SP!Model
       /\ None \notin SP!Tenant
       /\ None \notin Int
       /\ None \notin BOOLEAN
       /\ None \notin Services
    /\ /\ ServiceSpecs \subseteq SP!InferenceServiceSpec
       /\ [ready : BOOLEAN, uri : URIs \cup {""}] \cup {None}
             \subseteq SP!Model \cup {None}
       /\ TenantStates \subseteq SP!Tenant \cup {None}
       /\ InitialTenant \in SP!Tenant \cup {None}
       /\ ServiceBudget \in [SP!Kinds -> Nat]
       /\ {ServiceBudget} \subseteq [SP!Kinds -> Nat]
<1>1. SP!InferenceServiceSpec = InferenceServiceSpec
  BY DEF InferenceServiceSpec, SP!InferenceServiceSpec, WorkloadClasses,
         SP!WorkloadClasses, profiles, SP!profiles
<1>2. SP!InferenceService = InferenceService
  BY <1>1 DEF InferenceService, SP!InferenceService, InferenceServiceStatus,
         SP!InferenceServiceStatus, ServiceConditions, SP!ServiceConditions,
         ConditionStatus, SP!ConditionStatus
<1>3. SP!Job = S!Job
  BY DEF S!Job, SP!Job, S!Quantities, SP!Quantities
<1>4. SP!Tenant = Tenant /\ SP!Kinds = S!Kinds /\ SP!Model = S!Model
  BY DEF Tenant, SP!Tenant, S!Kinds, SP!Kinds, S!Model, SP!Model
<1>5. SP!Model = [ready : BOOLEAN, uri : URIs \cup {""}]
  BY DEF SP!Model
<1> QED
  BY <1>1, <1>2, <1>3, <1>4, <1>5, PlatformAssumption

\* S and SP are the same instance: its initial states,
LEMMA ServiceInitSame == S!Init <=> SP!Init
BY DEF S!Init, SP!Init, S!Idle, SP!Idle, S!NoVersion, SP!NoVersion,
       S!InitialReplica, SP!InitialReplica

\* what its worker computes,
LEMMA ServiceValuesSame ==
    /\ S!anyErr <=> SP!anyErr
    /\ S!newStatus = SP!newStatus
    /\ S!workloadStatus = SP!workloadStatus
    /\ S!desired = SP!desired
    /\ S!Accepts <=> SP!Accepts
    /\ S!Idle = SP!Idle
<1>1. /\ S!modelErr <=> SP!modelErr
      /\ S!tenantErr <=> SP!tenantErr
      /\ S!profileErr <=> SP!profileErr
  BY DEF S!modelErr, SP!modelErr, S!tenantErr, SP!tenantErr, S!profileErr,
         SP!profileErr, S!ResolveFails, SP!ResolveFails, S!profiles, SP!profiles
<1>2. S!capacityErr <=> SP!capacityErr
  BY <1>1 DEF S!capacityErr, SP!capacityErr, S!Check, SP!Check
<1>3. S!anyErr <=> SP!anyErr
  BY <1>1, <1>2 DEF S!anyErr, SP!anyErr
<1>4. S!newConditions = SP!newConditions
  BY <1>1, <1>2, <1>3 DEF S!newConditions, SP!newConditions, S!SetCond, SP!SetCond
<1>5. S!derivedPriority = SP!derivedPriority
  BY DEF S!derivedPriority, SP!derivedPriority, S!Calculate, SP!Calculate,
         S!tenantErr, SP!tenantErr
<1>6. S!newStatus = SP!newStatus
  BY <1>3, <1>4, <1>5 DEF S!newStatus, SP!newStatus
<1>7. S!workloadStatus = SP!workloadStatus
  BY DEF S!workloadStatus, SP!workloadStatus, S!SetCond, SP!SetCond
<1>8. S!desired = SP!desired
  BY DEF S!desired, SP!desired, S!BuildJob, SP!BuildJob, S!LocalQueueName,
         SP!LocalQueueName, S!PriorityClassForWorkloadClass,
         SP!PriorityClassForWorkloadClass, S!ReplicaCount, SP!ReplicaCount,
         S!WantsGPU, SP!WantsGPU, S!Resources, SP!Resources, S!GPUResourceName,
         SP!GPUResourceName, S!CPURequest, SP!CPURequest
<1>9. (S!Accepts <=> SP!Accepts) /\ S!Idle = SP!Idle
  BY DEF S!Accepts, SP!Accepts, S!Idle, SP!Idle, S!NoVersion, SP!NoVersion
<1> QED
  BY <1>3, <1>6, <1>7, <1>8, <1>9

\* and its steps.
LEMMA ServiceNextSame == S!Next <=> SP!Next
<1> USE DEF S!Spend, SP!Spend, S!Together, SP!Together, S!Kinds, SP!Kinds, S!Put, SP!Put, S!Deliver, SP!Deliver, S!kube, SP!kube
<1> USE DEF S!At, SP!At, S!Return, SP!Return, S!Requeue, SP!Requeue, S!Continue,
            SP!Continue
<1>1. \A s \in Services, spec \in ServiceSpecs :
         /\ S!CreateService(s, spec) <=> SP!CreateService(s, spec)
         /\ S!UpdateService(s, spec) <=> SP!UpdateService(s, spec)
  BY DEF S!CreateService, SP!CreateService, S!UpdateService, SP!UpdateService,
         S!NewStatus, SP!NewStatus, S!ServiceConditions, SP!ServiceConditions,
         S!Edited, SP!Edited
<1>2. \A s \in Services :
         /\ S!DeleteService(s) <=> SP!DeleteService(s)
         /\ S!DeleteJob(s) <=> SP!DeleteJob(s)
         /\ S!CollectJob(s) <=> SP!CollectJob(s)
  BY DEF S!DeleteService, SP!DeleteService, S!DeleteJob, SP!DeleteJob, S!CollectJob,
         SP!CollectJob, S!Orphan, SP!Orphan
<1>3. \A m \in Models, o \in [ready : BOOLEAN, uri : URIs \cup {""}] \cup {None} :
         /\ S!WriteModel(m, o) <=> SP!WriteModel(m, o)
  BY DEF S!WriteModel, SP!WriteModel
<1>4. \A o \in TenantStates :
         /\ S!WriteTenant(o) <=> SP!WriteTenant(o)
  BY DEF S!WriteTenant, SP!WriteTenant
<1>5. S!Environment <=> SP!Environment
  BY <1>1, <1>2, <1>3, <1>4 DEF S!Environment, SP!Environment
<1>6. \A s \in Services :
         /\ S!DeliverService(s) <=> SP!DeliverService(s)
         /\ S!DeliverJob(s) <=> SP!DeliverJob(s)
         /\ S!TimerFires(s) <=> SP!TimerFires(s)
         /\ S!Resync(s) <=> SP!Resync(s)
         /\ S!Get(s) <=> SP!Get(s)
         /\ S!FirstGetFails(s) <=> SP!FirstGetFails(s)
  BY ServiceValuesSame DEF S!DeliverService, SP!DeliverService, S!DeliverJob, SP!DeliverJob,
         S!TimerFires, SP!TimerFires, S!Resync, SP!Resync, S!Get, SP!Get,
         S!FirstGetFails, SP!FirstGetFails
<1>7. \A m \in Models :
         /\ S!DeliverModel(m) <=> SP!DeliverModel(m)
         /\ S!ListFails(m) <=> SP!ListFails(m)
  BY DEF S!DeliverModel, SP!DeliverModel, S!ListFails, SP!ListFails,
         S!mapModelToInferenceServices,
         SP!mapModelToInferenceServices
<1>8. /\ S!DeliverTenant <=> SP!DeliverTenant
  BY DEF S!DeliverTenant, SP!DeliverTenant
<1>9. S!Delivery <=> SP!Delivery
  BY <1>6, <1>7, <1>8 DEF S!Delivery, SP!Delivery
<1>10. /\ S!ResolveModel <=> SP!ResolveModel
       /\ S!ResolveTenant <=> SP!ResolveTenant
       /\ S!GetFails <=> SP!GetFails
  BY ServiceValuesSame DEF S!ResolveModel, SP!ResolveModel, S!ResolveTenant, SP!ResolveTenant,
         S!GetFails, SP!GetFails
<1>11. /\ S!UpdateStatusSkipped <=> SP!UpdateStatusSkipped
       /\ S!UpdateStatusStored <=> SP!UpdateStatusStored
       /\ S!UpdateStatusRefused <=> SP!UpdateStatusRefused
       /\ S!UpdateStatusLost <=> SP!UpdateStatusLost
       /\ S!UpdateStatusTimesOut <=> SP!UpdateStatusTimesOut
  BY ServiceValuesSame DEF S!UpdateStatusSkipped, SP!UpdateStatusSkipped, S!UpdateStatusStored,
         SP!UpdateStatusStored, S!UpdateStatusRefused, SP!UpdateStatusRefused,
         S!UpdateStatusLost, SP!UpdateStatusLost, S!UpdateStatusTimesOut,
         SP!UpdateStatusTimesOut, S!StoreStatus, SP!StoreStatus, S!Stored,
         SP!Stored, S!StoredObject, SP!StoredObject, S!Approve, SP!Approve,
         S!AfterStatus, SP!AfterStatus
<1>12. /\ S!GetJob <=> SP!GetJob
       /\ S!CreateJob <=> SP!CreateJob
       /\ S!JobAlreadyExists <=> SP!JobAlreadyExists
       /\ S!JobCallLost <=> SP!JobCallLost
       /\ S!CreateJobTimesOut <=> SP!CreateJobTimesOut
  BY ServiceValuesSame DEF S!GetJob, SP!GetJob, S!CreateJob, SP!CreateJob, S!JobAlreadyExists,
         SP!JobAlreadyExists, S!JobCallLost, SP!JobCallLost, S!CreateJobTimesOut,
         SP!CreateJobTimesOut, S!StoreJob, SP!StoreJob, S!WorkloadStep,
         SP!WorkloadStep
<1>13. /\ S!WorkloadSkipped <=> SP!WorkloadSkipped
       /\ S!WorkloadStored <=> SP!WorkloadStored
       /\ S!WorkloadRefused <=> SP!WorkloadRefused
       /\ S!WorkloadLost <=> SP!WorkloadLost
       /\ S!WorkloadTimesOut <=> SP!WorkloadTimesOut
  BY ServiceValuesSame DEF S!WorkloadSkipped, SP!WorkloadSkipped, S!WorkloadStored, SP!WorkloadStored,
         S!WorkloadRefused, SP!WorkloadRefused, S!WorkloadLost, SP!WorkloadLost,
         S!WorkloadTimesOut, SP!WorkloadTimesOut, S!StoreStatus, SP!StoreStatus,
         S!StoredObject, SP!StoredObject, S!AfterWorkload, SP!AfterWorkload
<1>14. /\ S!Restart <=> SP!Restart
  BY ServiceValuesSame DEF S!Restart, SP!Restart, S!Relist, SP!Relist
<1>15. (S!Reconcile <=> SP!Reconcile) /\ (S!Failure <=> SP!Failure)
  BY <1>6, <1>7, <1>10, <1>11, <1>12, <1>13, <1>14
     DEF S!Reconcile, SP!Reconcile, S!Failure, SP!Failure
<1> QED
  BY <1>5, <1>6, <1>9, <1>15 DEF S!Next, SP!Next

\* The properties are those of S as well.
LEMMA ServicePropertiesSame ==
    /\ S!JobOfApprovedSpec <=> SP!JobOfApprovedSpec
    /\ S!StatusOfOwnGeneration <=> SP!StatusOfOwnGeneration
    /\ [S!GenerationStep]_(S!vars) <=> [SP!GenerationStep]_(SP!vars)
    /\ S!WritesBounded <=> SP!WritesBounded
<1>1. S!JobOfApprovedSpec <=> SP!JobOfApprovedSpec
  BY DEF S!JobOfApprovedSpec, SP!JobOfApprovedSpec, S!JobOf, SP!JobOf, S!BuildJob,
         SP!BuildJob, S!LocalQueueName, SP!LocalQueueName,
         S!PriorityClassForWorkloadClass, SP!PriorityClassForWorkloadClass,
         S!ReplicaCount, SP!ReplicaCount, S!WantsGPU, SP!WantsGPU, S!Resources,
         SP!Resources, S!GPUResourceName, SP!GPUResourceName, S!CPURequest,
         SP!CPURequest
<1>2. S!StatusOfOwnGeneration <=> SP!StatusOfOwnGeneration
  BY DEF S!StatusOfOwnGeneration, SP!StatusOfOwnGeneration, S!ResolveFails,
         SP!ResolveFails, S!profiles, SP!profiles
<1>3. [S!GenerationStep]_(S!vars) <=> [SP!GenerationStep]_(SP!vars)
  BY DEF S!GenerationStep, SP!GenerationStep, S!vars, SP!vars
<1>4. S!WritesBounded <=> SP!WritesBounded
  BY DEF S!WritesBounded, SP!WritesBounded, S!Events, SP!Events, S!Spent, SP!Spent
<1> QED
  BY <1>1, <1>2, <1>3, <1>4

\* Whatever is proved of SP!Spec is proved of the platform.
LEMMA ServiceSpecHolds == Spec => SP!Spec
<1>1. [S!Next]_(S!vars) <=> [SP!Next]_(SP!vars)
  <2>1. UNCHANGED S!vars <=> UNCHANGED SP!vars
    BY DEF S!vars, SP!vars
  <2> QED
    BY <2>1, ServiceNextSame
<1> QED
  BY <1>1, ServiceInitSame, ServiceControllerRuns, PTL
     DEF ServiceControllerSpec, S!Spec, SP!Spec

\* With a Model controller that verifies, re-verifies and restarts in the same
\* process, a Job still comes only from a spec stored as Ready for its own
\* service and from a URI its Model carried while stored as Ready, a status
\* still speaks of its own generation and never goes back to an earlier one,
\* and the writes of a status stay within twice what happens around them, the
\* Model controller's own writes included.
THEOREM ServicesAreSafe ==
    Spec => /\ []S!JobOfApprovedSpec
            /\ []S!StatusOfOwnGeneration
            /\ S!ObservedGenerationAdvances
            /\ []S!WritesBounded
<1>1. SP!Spec => []SP!JobOfApprovedSpec
  BY ServiceConstants, SP!JobsAreOfApprovedSpecs
<1>2. SP!Spec => []SP!StatusOfOwnGeneration
  BY ServiceConstants, SP!StatusIsOfOwnGeneration
<1>3. SP!Spec => SP!ObservedGenerationAdvances
  BY ServiceConstants, SP!ObservedGenerationsAdvance
<1>4. SP!Spec => []SP!WritesBounded
  BY ServiceConstants, SP!WritesAreBounded
<1> QED
  BY <1>1, <1>2, <1>3, <1>4, ServiceSpecHolds, ServicePropertiesSame, PTL
     DEF S!ObservedGenerationAdvances, SP!ObservedGenerationAdvances

\* The abstract specification of the statuses of Models is one, too.
LEMMA ModelVerdictsSame ==
    /\ M!Abstract!Init <=> MP!Abstract!Init
    /\ [M!Abstract!Next]_(M!stored) <=> [MP!Abstract!Next]_(MP!stored)
<1>1. M!Abstract!Init <=> MP!Abstract!Init
  BY DEF M!Abstract!Init, MP!Abstract!Init, M!stored, MP!stored
<1>2. M!Abstract!Next <=> MP!Abstract!Next
  BY DEF M!Abstract!Next, MP!Abstract!Next, M!Abstract!Create, MP!Abstract!Create,
         M!Abstract!Edit, MP!Abstract!Edit, M!Abstract!Delete, MP!Abstract!Delete,
         M!Abstract!Write, MP!Abstract!Write, M!stored, MP!stored, M!NewModelStatus,
         MP!NewModelStatus, M!Fits, MP!Fits, M!VerifiesSpec, MP!VerifiesSpec
<1>3. UNCHANGED M!stored <=> UNCHANGED MP!stored
  BY DEF M!stored, MP!stored
<1> QED
  BY <1>1, <1>2, <1>3

\* The abstract specification of the statuses of InferenceServices is one, too.
LEMMA ServiceVerdictsSame ==
    /\ S!Abstract!Init <=> SP!Abstract!Init
    /\ [S!Abstract!Next]_(S!stored) <=> [SP!Abstract!Next]_(SP!stored)
<1>1. S!Abstract!Init <=> SP!Abstract!Init
  BY DEF S!Abstract!Init, SP!Abstract!Init, S!stored, SP!stored
<1>2. S!Abstract!Next <=> SP!Abstract!Next
  BY DEF S!Abstract!Next, SP!Abstract!Next, S!Abstract!Create, SP!Abstract!Create,
         S!Abstract!Edit, SP!Abstract!Edit, S!Abstract!Delete, SP!Abstract!Delete,
         S!Abstract!Write, SP!Abstract!Write, S!stored, SP!stored, S!NewStatus,
         SP!NewStatus, S!ServiceConditions, SP!ServiceConditions, S!Fits, SP!Fits,
         S!ResolveFails, SP!ResolveFails, S!profiles, SP!profiles
<1>3. UNCHANGED S!stored <=> UNCHANGED SP!stored
  BY DEF S!stored, SP!stored
<1> QED
  BY <1>1, <1>2, <1>3

\* The two controllers share one process, one Model informer and the API
\* server; still each status either of them stores is a verdict on the object
\* it is stored with.
THEOREM StatusesAreVerdicts ==
    Spec => M!ImplementsStatusWriter /\ S!ImplementsStatusWriter
<1>1. MP!Spec => MP!ImplementsStatusWriter
  BY ModelConstants, MP!StatusesAreVerdicts
<1>2. Spec => MP!Spec
  BY ModelControllerRuns, ModelSame, PTL DEF M!Spec, MP!Spec
<1>3. SP!Spec => SP!ImplementsStatusWriter
  BY ServiceConstants, SP!StatusesAreVerdicts
<1> QED
  BY <1>1, <1>2, <1>3, ServiceSpecHolds, ModelVerdictsSame, ServiceVerdictsSame, PTL
     DEF M!ImplementsStatusWriter, MP!ImplementsStatusWriter,
         S!ImplementsStatusWriter, SP!ImplementsStatusWriter,
         M!Abstract!Spec, MP!Abstract!Spec, S!Abstract!Spec, SP!Abstract!Spec

-----------------------------------------------------------------------------
(* The writes of the two controllers together.                             *)

\* Among the InferenceService side's own steps none counts as a write of a
\* Model.
LEMMA ServiceStepSpends ==
    ASSUME M!TypeOK, budget \in [SP!Kinds -> Nat], ModelsStay, ServiceStep
    PROVE  budget'["model"] = budget["model"]
<1>1. models' = models
  BY DEF ModelsStay, modelVars
<1>2. ASSUME NEW k, k # "model", S!Spend(k)
      PROVE  budget'["model"] = budget["model"]
  BY <1>2 DEF S!Spend, SP!Kinds
<1>3. ASSUME NEW m \in Models, NEW o, S!WriteModel(m, o)
      PROVE  FALSE
  <2> DEFINE seen == [n \in Models |-> SeenReplica(models[n])]
  <2>1. seen' = [seen EXCEPT ![m] = S!Put(seen[m], o)]
    BY <1>3 DEF S!WriteModel
  <2>2. seen' = seen
    BY <1>1
  <2>3. seen[m].cur.rv = models[m].cur.rv /\ models[m].cur.rv \in Nat
    BY DEF SeenReplica, SeenVersion, M!TypeOK, M!Replica, M!Version
  <2>4. seen[m] = S!Put(seen[m], o)
    BY <2>1, <2>2
  <2>5. S!Put(seen[m], o).cur.rv = seen[m].cur.rv + 1
    BY DEF S!Put
  <2> HIDE DEF seen
  <2> QED
    BY <2>3, <2>4, <2>5
<1>4. CASE S!Environment
  <2>1. CASE \E m \in Models,
                o \in [ready : BOOLEAN, uri : URIs \cup {""}] \cup {None} : S!WriteModel(m, o)
    BY <1>3, <2>1
  <2>2. CASE \/ \E s \in Services :
                  \/ \E spec \in ServiceSpecs :
                       S!CreateService(s, spec) \/ S!UpdateService(s, spec)
                  \/ S!DeleteService(s) \/ S!DeleteJob(s) \/ S!CollectJob(s)
             \/ \E o \in TenantStates : S!WriteTenant(o)
    BY <1>2, <2>2 DEF S!CreateService, S!UpdateService, S!DeleteService,
       S!DeleteJob, S!CollectJob, S!WriteTenant
  <2> QED
    BY <1>4, <2>1, <2>2 DEF S!Environment
<1>5. CASE \/ \E s \in Services :
                \/ S!DeliverService(s) \/ S!DeliverJob(s)
                \/ S!TimerFires(s) \/ S!Resync(s) \/ S!Get(s)
           \/ S!DeliverTenant
  BY <1>5 DEF S!DeliverService, S!DeliverJob, S!TimerFires, S!Resync, S!Get,
     S!DeliverTenant
<1>6. CASE S!Reconcile
  BY <1>6 DEF S!Reconcile, S!ResolveModel, S!ResolveTenant, S!UpdateStatusSkipped,
     S!UpdateStatusStored, S!UpdateStatusRefused, S!GetJob, S!CreateJob,
     S!JobAlreadyExists, S!WorkloadSkipped, S!WorkloadStored, S!WorkloadRefused
<1>7. CASE \/ S!GetFails \/ S!UpdateStatusLost \/ S!UpdateStatusTimesOut
           \/ S!JobCallLost \/ S!CreateJobTimesOut
           \/ S!WorkloadLost \/ S!WorkloadTimesOut
  BY <1>2, <1>7 DEF S!GetFails, S!UpdateStatusLost, S!UpdateStatusTimesOut,
     S!JobCallLost, S!CreateJobTimesOut, S!WorkloadLost, S!WorkloadTimesOut
<1>8. CASE \E s \in Services : S!FirstGetFails(s)
  BY <1>2, <1>8 DEF S!FirstGetFails
<1> QED
  BY <1>4, <1>5, <1>6, <1>7, <1>8 DEF ServiceStep

\* A step counts as one write of a Model if it stores one, and as none else.
LEMMA ModelsCounted ==
    ASSUME M!TypeOK, budget \in [SP!Kinds -> Nat], [Next]_vars
    PROVE  \/ budget'["model"] = budget["model"]
           \/ /\ budget'["model"] = budget["model"] - 1
              /\ ~(\A n \in Models : models'[n].cur = models[n].cur)
<1>1. CASE ModelStep /\ ServicesSee
  <2>1. CASE models' = models
    BY <1>1, <2>1 DEF ServicesSee
  <2>2. CASE models' # models
    <3>1. budget'["model"] = budget["model"] - 1
      BY <1>1, <2>2 DEF ServicesSee, S!Spend, SP!Kinds
    <3>2. PICK m \in Models, o \in M!Model \cup {None} :
             models' = [models EXCEPT ![m] = M!Put(models[m], o)]
      BY <1>1, <2>2, ModelStepWrites DEF ModelWrite
    <3>3. models \in [Models -> M!Replica(M!Model)] /\ models[m].cur.rv \in Nat
      BY DEF M!TypeOK, M!Replica, M!Version
    <3>4. models'[m].cur.rv = models[m].cur.rv + 1
      BY <3>2, <3>3 DEF M!Put
    <3>5. models'[m].cur.rv # models[m].cur.rv
      BY <3>3, <3>4
    <3> QED
      BY <3>1, <3>5
  <2> QED
    BY <2>1, <2>2
<1>2. CASE ModelsStay /\ ServiceStep
  BY <1>2, ServiceStepSpends
<1>3. CASE \E m \in Models : DeliverModel(m)
  <2>1. CASE budget' = budget
    BY <2>1
  <2>2. CASE S!Spend("list")
    BY <2>2 DEF S!Spend, SP!Kinds
  <2> QED
    BY <1>3, <2>1, <2>2 DEF DeliverModel, S!DeliverModel, S!ListFails
<1>4. CASE Restart
  BY <1>4 DEF Restart, S!Restart, S!Spend, SP!Kinds
<1>5. CASE UNCHANGED vars
  BY <1>5 DEF vars
<1> QED
  BY <1>1, <1>2, <1>3, <1>4, <1>5 DEF Next

\* What the InferenceService side has seen written of Models, and the verdicts
\* still to come, are paid for by what users write.
ModelsPaid ==
    /\ IsFiniteSet(MP!Unsaid)
    /\ S!Spent("model") + Cardinality(MP!Unsaid) <= 2 * MP!UserWrites

\* Nothing is written at first.
LEMMA ModelsPaidInit == Init => ModelsPaid
<1> SUFFICES ASSUME Init PROVE ModelsPaid
  OBVIOUS
<1>1. \A m \in Models : models[m].cur.obj = None
  BY DEF Init, M!Init, M!InitialReplica
<1>2. MP!Unsaid = {}
  BY <1>1 DEF MP!Unsaid
<1>3. IsFiniteSet(MP!Unsaid) /\ Cardinality(MP!Unsaid) = 0
  BY <1>2, FS_EmptySet
<1>4. \A kind \in MP!Kinds : MP!Spent(kind) = 0
  BY ModelConstants DEF Init, M!Init, MP!Spent
<1>5. MP!UserWrites = 0
  BY <1>4 DEF MP!UserWrites, MP!Kinds
<1>6. S!Spent("model") = 0
  BY PlatformAssumption DEF Init, S!Init, S!Spent, S!Kinds
<1> QED
  BY <1>3, <1>5, <1>6 DEF ModelsPaid

\* A user pays for the version he stores and for the verdict on it.
LEMMA ModelsPaidNext ==
    ASSUME MP!IInv, M!TypeOK, budget \in [SP!Kinds -> Nat], ModelsPaid, [Next]_vars
    PROVE  ModelsPaid'
<1> DEFINE U == MP!Unsaid
           C == Cardinality(U)
           W == MP!UserWrites
           N == S!Spent("model")
<1>1. IsFiniteSet(U) /\ C \in Nat /\ N + C <= 2 * W
  BY FS_CardinalityType DEF ModelsPaid
<1>2. W \in Int
  <2>1. modelBudget \in [MP!Kinds -> Nat]
    BY DEF MP!IInv, MP!TypeOK
  <2> QED
    BY <2>1, ModelConstants, MP!SpentType
<1>3. /\ N \in Int
      /\ \/ N' = N
         \/ /\ N' = N + 1
            /\ ~(\A n \in Models : models'[n].cur = models[n].cur)
  <2>1. budget["model"] \in Nat /\ ServiceBudget["model"] \in Nat
    BY PlatformAssumption DEF SP!Kinds, S!Kinds
  <2>2. N = ServiceBudget["model"] - budget["model"]
    BY DEF S!Spent
  <2>3. N' = ServiceBudget["model"] - budget'["model"]
    BY DEF S!Spent
  <2> HIDE DEF N
  <2> QED
    BY <2>1, <2>2, <2>3, ModelsCounted
<1>4. [MP!Next]_(MP!vars)
  BY ModelStepIs, ModelSame
<1>5. \/ /\ \A n \in Models : models'[n].cur = models[n].cur
         /\ W' = W
      \/ \E m \in Models :
           /\ \A n \in Models \ {m} : models'[n].cur = models[n].cur
           /\ \/ W' = W + 1
              \/ /\ W' = W
                 /\ m \in U
                 /\ m \notin U'
  BY <1>4, ModelConstants, MP!StepAccount
<1>6. \A n \in Models : models'[n].cur = models[n].cur => (n \in U' <=> n \in U)
  BY MP!UnsaidSame, ModelConstants
<1>7. U \subseteq Models /\ U' \subseteq Models
  BY DEF MP!Unsaid
<1> HIDE DEF U, W, N
<1>8. CASE (\A n \in Models : models'[n].cur = models[n].cur) /\ W' = W
  <2>1. U' = U
    BY <1>6, <1>7, <1>8
  <2>2. N' = N
    BY <1>3, <1>8
  <2> QED
    BY <1>1, <1>8, <2>1, <2>2 DEF ModelsPaid, U, W, N
<1>9. ASSUME NEW m \in Models,
             /\ \A n \in Models \ {m} : models'[n].cur = models[n].cur
             /\ \/ W' = W + 1
                \/ /\ W' = W
                   /\ m \in U
                   /\ m \notin U'
      PROVE  ModelsPaid'
  <2>1. U' \subseteq U \cup {m}
    BY <1>6, <1>7, <1>9
  <2>2. CASE W' = W + 1
    <3>1. /\ IsFiniteSet(U')
          /\ Cardinality(U') \in Nat
          /\ Cardinality(U') <= C + 1
      BY <1>1, <2>1, OneMore
    <3>2. N' + Cardinality(U') <= 2 * W'
      BY <1>1, <1>2, <1>3, <2>2, <3>1
    <3> QED
      BY <3>1, <3>2 DEF ModelsPaid, U, W, N
  <2>3. CASE W' = W /\ m \in U /\ m \notin U'
    <3>0. U' \subseteq U \ {m}
      BY <2>1, <2>3
    <3>1. /\ IsFiniteSet(U')
          /\ Cardinality(U') \in Nat
          /\ Cardinality(U') + 1 <= C
      BY <1>1, <2>3, <3>0, OneLess
    <3>2. N' + Cardinality(U') <= 2 * W'
      BY <1>1, <1>2, <1>3, <2>3, <3>1
    <3> QED
      BY <3>1, <3>2 DEF ModelsPaid, U, W, N
  <2> QED
    BY <1>9, <2>2, <2>3
<1> QED
  BY <1>5, <1>8, <1>9

\* The two controllers feed neither each other nor themselves: whatever
\* verdicts, statuses and Jobs they write, the versions of an InferenceService
\* are bounded by what happens outside of them, two for each event and three
\* for its first Job, and the versions of a Model by what users write.
THEOREM WritesAreBounded == Spec => []WritesBounded /\ []M!WritesBounded
<1>1. Spec => []MP!IInv
  <2>1. MP!Spec => []MP!IInv
    BY ModelConstants, MP!Inductive
  <2> QED
    BY <2>1, ModelControllerRuns, ModelSame, PTL DEF M!Spec, MP!Spec
<1>2. Spec => []SP!TypeOK
  <2>1. SP!Spec => []SP!TypeOK
    BY ServiceConstants, SP!TypeCorrect
  <2> QED
    BY <2>1, ServiceSpecHolds, PTL
<1>3. Spec => []SP!WithinEvents
  <2>1. SP!Spec => []SP!WithinEvents
    BY ServiceConstants, SP!WritesAreWithinEvents
  <2> QED
    BY <2>1, ServiceSpecHolds, PTL
<1>4. Spec => []ModelsPaid
  <2>1. SP!TypeOK => budget \in [SP!Kinds -> Nat]
    BY DEF SP!TypeOK
  <2> QED
    BY <1>1, <1>2, <2>1, ModelTypes, ModelsPaidInit, ModelsPaidNext, PTL DEF Spec
<1>5. MP!IInv /\ SP!TypeOK /\ SP!WithinEvents /\ ModelsPaid => WritesBounded
  <2> SUFFICES ASSUME MP!IInv, SP!TypeOK, SP!WithinEvents, ModelsPaid,
                      NEW s \in Services
               PROVE  isvc[s].cur.rv <= 2 * Outside + 3
    BY DEF WritesBounded
  <2> DEFINE other == S!Spent("create") + S!Spent("update") + S!Spent("delete")
                        + S!Spent("tenant") + S!Spent("fault") + S!Spent("restart")
                        + 3 * S!Spent("deleteJob") + 2 * S!Spent("collect")
  <2>1. \A k \in SP!Kinds : S!Spent(k) \in Int
    <3>1. \A k \in SP!Kinds : budget[k] \in Nat /\ ServiceBudget[k] \in Nat
      BY ServiceConstants DEF SP!TypeOK
    <3> QED
      BY <3>1 DEF S!Spent
  <2>2. /\ S!Spent("create") \in Int /\ S!Spent("update") \in Int
        /\ S!Spent("delete") \in Int /\ S!Spent("tenant") \in Int
        /\ S!Spent("fault") \in Int /\ S!Spent("restart") \in Int
        /\ S!Spent("deleteJob") \in Int /\ S!Spent("collect") \in Int
        /\ S!Spent("model") \in Int
    BY <2>1 DEF SP!Kinds
  <2>3. \A k : SP!Spent(k) = S!Spent(k)
    BY DEF SP!Spent, S!Spent
  <2>4. M!UserWrites = MP!UserWrites /\ MP!UserWrites \in Int
    <3>1. modelBudget \in [MP!Kinds -> Nat]
      BY DEF MP!IInv, MP!TypeOK
    <3>2. MP!UserWrites \in Int
      BY <3>1, ModelConstants, MP!SpentType
    <3> QED
      BY <3>2 DEF M!UserWrites, MP!UserWrites, M!Spent, MP!Spent
  <2>5. Cardinality(MP!Unsaid) \in Nat
        /\ S!Spent("model") + Cardinality(MP!Unsaid) <= 2 * MP!UserWrites
    BY FS_CardinalityType DEF ModelsPaid
  <2>6. isvc[s].cur.rv <= 2 * other + S!Spent("model") + 3
    BY <2>3 DEF SP!WithinEvents
  <2>7. other \in Int /\ Outside = other + MP!UserWrites
    BY <2>2, <2>4 DEF Outside
  <2>8. isvc[s].cur.rv \in Nat
    BY DEF SP!TypeOK, SP!Replica, SP!Version
  <2> HIDE DEF other
  <2> QED
    BY <2>2, <2>4, <2>5, <2>6, <2>7, <2>8
<1>6. Spec => []M!WritesBounded
  <2>1. MP!Spec => []MP!WritesBounded
    BY ModelConstants, MP!WritesAreBounded
  <2>2. M!WritesBounded <=> MP!WritesBounded
    BY DEF M!WritesBounded, MP!WritesBounded, M!UserWrites, MP!UserWrites,
           M!Spent, MP!Spent
  <2> QED
    BY <2>1, <2>2, ModelControllerRuns, ModelSame, PTL DEF M!Spec, MP!Spec
<1> QED
  BY <1>1, <1>2, <1>3, <1>4, <1>5, <1>6, PTL
=============================================================================
