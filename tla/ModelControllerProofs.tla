------------------------ MODULE ModelControllerProofs ------------------------
(***************************************************************************)
(* Proofs about ModelController, for any set of Models, specs and any      *)
(* budget of outside events.                                               *)
(***************************************************************************)
EXTENDS ModelController, WatchedObjectProofs

-----------------------------------------------------------------------------
(* Types.                                                                  *)

\* The verdict updateStatus computes is a well-formed status.
LEMMA NewStatusOfType ==
    ASSUME NEW o \in Model
    PROVE  NewStatusOf(o) \in ModelStatus
<1>1. o.spec.digest \in Digests \cup {""} /\ o.status.resolvedDigest \in Digests \cup {""}
  BY DEF Model, ModelSpec, ModelStatus
<1> QED
  BY <1>1 DEF NewStatusOf, ModelStatus, ConditionStatus

\* Every version of a Model anyone can read is a Model or None.
LEMMA ModelVersions ==
    ASSUME TypeOK, NEW m \in Models
    PROVE  /\ model[m] \in Replica(Model)
           /\ model[m].cur.rv \in Nat
           /\ model[m].cur.obj \in Model \cup {None}
           /\ model[m].cache \in Version(Model)
BY DEF TypeOK, Replica, Version

\* A Reconcile in progress has a Model's name and a Model.
LEMMA WorkerBusy ==
    ASSUME TypeOK, worker # Idle
    PROVE  /\ worker.key \in Models
           /\ worker.copy \in Version(Model)
           /\ worker.copy.obj \in Model
           /\ newStatus \in ModelStatus
<1>1. /\ worker.key \in Models
      /\ worker.copy \in Version(Model)
      /\ worker.copy.obj \in Model
  BY DEF TypeOK, Worker, Version
<1> QED
  BY <1>1, NewStatusOfType DEF newStatus

\* Spending from the budget leaves a budget.
LEMMA TypeSpend ==
    ASSUME TypeOK, NEW kind \in Kinds, Spend(kind)
    PROVE  budget' \in [Kinds -> Nat]
<1>1. budget[kind] \in Nat /\ budget[kind] > 0
  BY DEF TypeOK, Spend
<1>2. budget[kind] - 1 \in Nat
  BY <1>1
<1> QED
  BY <1>2 DEF TypeOK, Spend

\* The idle worker is well formed.
LEMMA IdleType == Idle \in Worker
BY DEF Idle, Worker, Version

\* What a step of another kind may do to a Model: store a version.
LEMMA TypePut ==
    ASSUME TypeOK, NEW m \in Models, NEW o \in Model \cup {None},
           model' = [model EXCEPT ![m] = Put(model[m], o)]
    PROVE  model' \in [Models -> Replica(Model)]
<1>1. Put(model[m], o) \in Replica(Model)
  BY ModelVersions, PutType
<1> QED
  BY <1>1 DEF TypeOK

\* The objects users and the controller store are Models.
LEMMA StoredModels ==
    ASSUME TypeOK
    PROVE  /\ \A m \in Models, spec \in ModelSpecs :
                 [uid |-> model[m].cur.rv + 1, spec |-> spec,
                  status |-> NewModelStatus] \in Model
           /\ \A m \in Models, spec \in ModelSpecs :
                 model[m].cur.obj # None =>
                    [model[m].cur.obj EXCEPT !.spec = spec] \in Model
           /\ \A m \in Models, status \in ModelStatus :
                 model[m].cur.obj # None =>
                    [model[m].cur.obj EXCEPT !.status = status] \in Model
<1>1. NewModelStatus \in ModelStatus
  BY DEF NewModelStatus, ModelStatus, ConditionStatus
<1>2. \A m \in Models : model[m].cur.rv \in Nat /\ model[m].cur.obj \in Model \cup {None}
  BY ModelVersions
<1>3. ModelSpecs \subseteq ModelSpec
  BY ModelAssumption
<1> QED
  BY <1>1, <1>2, <1>3 DEF Model

\* The initial state is well typed.
LEMMA TypeInit == Init => TypeOK
<1> SUFFICES ASSUME Init PROVE TypeOK
  OBVIOUS
<1>1. InitialReplica(None) \in Replica(Model)
  BY DEF InitialReplica, Replica, Version
<1>2. worker \in Worker
  BY IdleType DEF Init
<1> QED
  BY <1>1, <1>2, ModelAssumption DEF Init, TypeOK

\* The five outcomes of the status write.
StatusWrite ==
    \/ UpdateStatusSkipped \/ UpdateStatusStored \/ UpdateStatusRefused
    \/ UpdateStatusLost \/ UpdateStatusTimesOut

\* Steps of users, the informer and the timers preserve the types.
LEMMA TypeOutside ==
    ASSUME TypeOK, NEW m \in Models,
           \/ \E spec \in ModelSpecs : CreateModel(m, spec) \/ UpdateModel(m, spec)
           \/ DeleteModel(m) \/ DeliverModel(m) \/ TimerFires(m) \/ Resync(m)
    PROVE  TypeOK'
<1>1. CASE \E spec \in ModelSpecs : CreateModel(m, spec)
  <2>1. PICK spec \in ModelSpecs : CreateModel(m, spec)
    BY <1>1
  <2>2. budget' \in [Kinds -> Nat]
    BY <2>1, TypeSpend DEF CreateModel, Kinds
  <2>3. model' \in [Models -> Replica(Model)]
    BY <2>1, TypePut, StoredModels DEF CreateModel, TypeOK
  <2> QED
    BY <2>1, <2>2, <2>3 DEF CreateModel, TypeOK, Idle
<1>2. CASE \E spec \in ModelSpecs : UpdateModel(m, spec)
  <2>1. PICK spec \in ModelSpecs : UpdateModel(m, spec)
    BY <1>2
  <2>2. budget' \in [Kinds -> Nat]
    BY <2>1, TypeSpend DEF UpdateModel, Kinds
  <2>3. model' \in [Models -> Replica(Model)]
    BY <2>1, TypePut, StoredModels DEF UpdateModel, TypeOK
  <2> QED
    BY <2>1, <2>2, <2>3 DEF UpdateModel, TypeOK, Idle
<1>3. CASE DeleteModel(m)
  <2>1. budget' \in [Kinds -> Nat]
    BY <1>3, TypeSpend DEF DeleteModel, Kinds
  <2>2. model' \in [Models -> Replica(Model)]
    BY <1>3, TypePut DEF DeleteModel, TypeOK
  <2> QED
    BY <1>3, <2>1, <2>2 DEF DeleteModel, TypeOK, Idle
<1>4. CASE DeliverModel(m)
  <2>1. PICK v \in model[m].watch : model' = [model EXCEPT ![m] = Deliver(model[m], v)]
    BY <1>4 DEF DeliverModel, TypeOK
  <2>2. model' \in [Models -> Replica(Model)]
    BY <2>1, DeliverType, ModelVersions DEF TypeOK
  <2> QED
    BY <1>4, <2>2 DEF DeliverModel, TypeOK, Idle
<1>5. CASE TimerFires(m) \/ Resync(m)
  BY <1>5 DEF TimerFires, Resync, TypeOK, Idle
<1> QED
  BY <1>1, <1>2, <1>3, <1>4, <1>5

\* Steps of Reconcile and a restart preserve the types.
LEMMA TypeReconcile ==
    ASSUME TypeOK,
           (\E m \in Models : Get(m) \/ FirstGetFails(m)) \/ StatusWrite \/ Restart
    PROVE  TypeOK'
<1>1. CASE \E m \in Models : Get(m)
  <2>1. PICK m \in Models : Get(m)
    BY <1>1
  <2>2. worker' \in Worker /\ (worker' # Idle => worker'.key # None /\ worker'.copy.obj # None)
    BY <2>1, IdleType, ModelVersions, ModelAssumption DEF Get, Worker
  <2> QED
    BY <2>1, <2>2 DEF Get, TypeOK, Idle
<1>2. CASE StatusWrite
  <2>1. /\ worker # Idle /\ worker' = Idle
        /\ delayed' \subseteq Models
        /\ queue' = queue
    BY <1>2, WorkerBusy DEF StatusWrite, UpdateStatusSkipped, UpdateStatusStored,
       UpdateStatusRefused, UpdateStatusLost, UpdateStatusTimesOut, Writes, Return,
       Requeue, TypeOK
  <2>2. budget' \in [Kinds -> Nat]
    <3>1. CASE budget' = budget
      BY <3>1 DEF TypeOK
    <3>2. CASE Spend("fault")
      BY <3>2, TypeSpend DEF Kinds
    <3> QED
      BY <1>2, <3>1, <3>2 DEF StatusWrite, UpdateStatusSkipped, UpdateStatusStored,
         UpdateStatusRefused, UpdateStatusLost, UpdateStatusTimesOut
  <2>3. model' \in [Models -> Replica(Model)]
    <3>1. CASE model' = model
      BY <3>1 DEF TypeOK
    <3>2. CASE Accepts /\ StoreStatus
      BY <2>1, <3>2, WorkerBusy, TypePut, StoredModels DEF Accepts, StoreStatus, TypeOK
    <3> QED
      BY <1>2, <3>1, <3>2 DEF StatusWrite, UpdateStatusSkipped, UpdateStatusStored,
         UpdateStatusRefused, UpdateStatusLost, UpdateStatusTimesOut
  <2>4. worker' \in Worker
    BY <2>1, IdleType
  <2> QED
    BY <2>1, <2>2, <2>3, <2>4 DEF TypeOK, Idle
<1>3. CASE Restart
  <2>1. budget' \in [Kinds -> Nat]
    BY <1>3, TypeSpend DEF Restart, Kinds
  <2>2. model' \in [Models -> Replica(Model)]
    BY <1>3, RelistType, ModelVersions DEF Restart
  <2>3. worker' \in Worker /\ worker' = Idle
    BY <1>3, IdleType DEF Restart
  <2> QED
    BY <1>3, <2>1, <2>2, <2>3 DEF Restart, TypeOK, Idle
<1>4. CASE \E m \in Models : FirstGetFails(m)
  <2>1. budget' \in [Kinds -> Nat]
    BY <1>4, TypeSpend DEF FirstGetFails, Kinds
  <2> QED
    BY <1>4, <2>1 DEF FirstGetFails, TypeOK, Idle
<1> QED
  BY <1>1, <1>2, <1>3, <1>4

-----------------------------------------------------------------------------
(* The inductive invariant.                                                *)

\* A write keeps every other copy of the Model older than the stored one.
LEMMA CoherentPut ==
    ASSUME IInv, NEW m \in Models, NEW o \in Model \cup {None},
           model' = [model EXCEPT ![m] = Put(model[m], o)]
    PROVE  /\ \A n \in Models : Coherent(model'[n])
           /\ worker # Idle => CopyCoherent(worker.copy, model'[worker.key].cur)
<1>1. \A n \in Models : Coherent(model'[n])
  BY ModelVersions, PutVersions DEF IInv, TypeOK
<1>2. ASSUME worker # Idle
      PROVE  CopyCoherent(worker.copy, model'[worker.key].cur)
  <2>1. /\ worker.key \in Models /\ worker.copy.rv \in Nat
        /\ CopyCoherent(worker.copy, model[worker.key].cur)
        /\ model[worker.key].cur.rv \in Nat
    BY <1>2, WorkerBusy, ModelVersions DEF IInv, Version
  <2>2. CASE worker.key = m
    <3>1. model'[m].cur.rv = model[m].cur.rv + 1
      BY DEF IInv, TypeOK, Put
    <3> QED
      BY <2>1, <2>2, <3>1 DEF CopyCoherent
  <2>3. CASE worker.key # m
    BY <2>1, <2>3 DEF IInv, TypeOK
  <2> QED
    BY <2>2, <2>3
<1> QED
  BY <1>1, <1>2

\* Which steps store a Model, and that those of the controller store the
\* verdict on the very object they find.
LEMMA StoreStatusPuts ==
    ASSUME IInv, worker # Idle, Accepts, StoreStatus
    PROVE  LET o == model[worker.key].cur.obj
           IN  /\ worker.copy.obj = o
               /\ o \in Model
               /\ [o EXCEPT !.status = newStatus] \in Model
               /\ newStatus = NewStatusOf(o)
               /\ model' = [model EXCEPT ![worker.key] =
                               Put(model[worker.key],
                                   [o EXCEPT !.status = newStatus])]
<1>1. worker.key \in Models /\ newStatus \in ModelStatus
  BY WorkerBusy DEF IInv
<1>2. worker.copy = model[worker.key].cur
  BY DEF IInv, CopyCoherent, Accepts
<1>3. model[worker.key].cur.obj # None
  BY DEF Accepts
<1>4. model[worker.key].cur.obj \in Model
  BY <1>1, <1>3, ModelVersions DEF IInv
<1>5. [model[worker.key].cur.obj EXCEPT !.status = newStatus] \in Model
  BY <1>1, <1>3, StoredModels DEF IInv
<1>6. model' = [model EXCEPT ![worker.key] =
                   Put(model[worker.key],
                       [model[worker.key].cur.obj EXCEPT !.status = newStatus])]
  BY <1>1 DEF StoreStatus, IInv, TypeOK
<1> QED
  BY <1>2, <1>4, <1>5, <1>6 DEF newStatus

\* The first state satisfies the invariant.
LEMMA IndInit == Init => IInv
<1> SUFFICES ASSUME Init PROVE IInv
  OBVIOUS
<1>1. \A m \in Models : Coherent(model[m])
  BY DEF Init, InitialReplica, Coherent, Versions
<1> QED
  BY <1>1, TypeInit DEF Init, IInv

\* Every step preserves it.
LEMMA IndNext == IInv /\ [Next]_vars => IInv'
<1> SUFFICES ASSUME IInv, [Next]_vars PROVE IInv'
  OBVIOUS
<1>0. TypeOK
  BY DEF IInv
<1>1. ASSUME NEW m \in Models,
             \/ \E spec \in ModelSpecs : CreateModel(m, spec) \/ UpdateModel(m, spec)
             \/ DeleteModel(m) \/ DeliverModel(m) \/ TimerFires(m) \/ Resync(m)
      PROVE  IInv'
  <2>1. TypeOK'
    BY <1>0, <1>1, TypeOutside
  <2>2. worker' = worker
    BY <1>1 DEF CreateModel, UpdateModel, DeleteModel, DeliverModel, TimerFires, Resync
  <2>3. CASE \E o \in Model \cup {None} : model' = [model EXCEPT ![m] = Put(model[m], o)]
    BY <2>1, <2>2, <2>3, CoherentPut DEF IInv
  <2>4. CASE \E v \in model[m].watch : model' = [model EXCEPT ![m] = Deliver(model[m], v)]
    <3>1. PICK v \in model[m].watch : model' = [model EXCEPT ![m] = Deliver(model[m], v)]
      BY <2>4
    <3>2. /\ Deliver(model[m], v).cur = model[m].cur
          /\ Coherent(Deliver(model[m], v))
      BY <1>0, ModelVersions, DeliverVersions DEF IInv
    <3>3. \A n \in Models : model'[n].cur = model[n].cur /\ Coherent(model'[n])
      BY <1>0, <3>1, <3>2 DEF IInv, TypeOK
    <3> QED
      BY <1>0, <2>1, <2>2, <3>3, WorkerBusy DEF IInv
  <2>5. CASE model' = model
    BY <2>1, <2>2, <2>5 DEF IInv
  <2>6. \A spec \in ModelSpecs : CreateModel(m, spec) =>
           \E o \in Model \cup {None} : model' = [model EXCEPT ![m] = Put(model[m], o)]
    BY <1>0, StoredModels DEF CreateModel, TypeOK
  <2>7. \A spec \in ModelSpecs : UpdateModel(m, spec) =>
           \E o \in Model \cup {None} : model' = [model EXCEPT ![m] = Put(model[m], o)]
    BY <1>0, StoredModels DEF UpdateModel, TypeOK
  <2>8. DeleteModel(m) => model' = [model EXCEPT ![m] = Put(model[m], None)]
    BY <1>0 DEF DeleteModel, TypeOK
  <2>9. DeliverModel(m) =>
           \E v \in model[m].watch : model' = [model EXCEPT ![m] = Deliver(model[m], v)]
    BY <1>0 DEF DeliverModel, TypeOK
  <2>10. TimerFires(m) \/ Resync(m) => model' = model
    BY DEF TimerFires, Resync
  <2> QED
    BY <1>1, <2>3, <2>4, <2>5, <2>6, <2>7, <2>8, <2>9, <2>10
<1>2. ASSUME NEW m \in Models, Get(m) PROVE IInv'
  <2>1. TypeOK'
    BY <1>0, <1>2, TypeReconcile
  <2>2. CopyCoherent(model[m].cache, model[m].cur)
    BY DEF IInv, Coherent, CopyCoherent, Versions
  <2>3. model' = model /\ (worker' # Idle => worker'.key = m /\ worker'.copy = model[m].cache)
    BY <1>2 DEF Get
  <2> QED
    BY <2>1, <2>2, <2>3 DEF IInv
<1>3. ASSUME StatusWrite PROVE IInv'
  <2>1. TypeOK' /\ worker' = Idle
    BY <1>0, <1>3, TypeReconcile DEF StatusWrite, UpdateStatusSkipped,
       UpdateStatusStored, UpdateStatusRefused, UpdateStatusLost,
       UpdateStatusTimesOut, Return, Requeue
  <2>2. CASE model' = model
    BY <2>1, <2>2 DEF IInv
  <2>3. CASE worker # Idle /\ Accepts /\ StoreStatus
    <3>1. worker.key \in Models
      BY <1>0, <2>3, WorkerBusy
    <3> QED
      BY <2>1, <2>3, <3>1, StoreStatusPuts, CoherentPut DEF IInv
  <2> QED
    BY <1>3, <2>2, <2>3 DEF StatusWrite, UpdateStatusSkipped,
       UpdateStatusStored, UpdateStatusRefused, UpdateStatusLost,
       UpdateStatusTimesOut, Writes
<1>4. ASSUME Restart PROVE IInv'
  <2>1. TypeOK'
    BY <1>0, <1>4, TypeReconcile
  <2>2. \A m \in Models : Coherent(model'[m])
    BY <1>0, <1>4, ModelVersions, RelistVersions DEF Restart, IInv
  <2> QED
    BY <1>4, <2>1, <2>2 DEF Restart, IInv
<1>5. ASSUME NEW m \in Models, FirstGetFails(m) PROVE IInv'
  <2>1. TypeOK' /\ UNCHANGED <<model, worker>>
    BY <1>0, <1>5, TypeReconcile DEF FirstGetFails
  <2> QED
    BY <2>1 DEF IInv
<1>6. CASE UNCHANGED vars
  BY <1>6 DEF vars, IInv, TypeOK
<1> QED
  BY <1>1, <1>2, <1>3, <1>4, <1>5, <1>6 DEF Next, Reconcile, StatusWrite

\* IInv holds in every reachable state of the Model controller.
THEOREM Inductive == Spec => []IInv
BY IndInit, IndNext, PTL DEF Spec

\* The Models, the queues and the Reconcile in progress are well formed; a
\* Reconcile past its first Get has an object in its hands.
THEOREM TypeCorrect == Spec => []TypeOK
<1>1. IInv => TypeOK
  BY DEF IInv
<1> QED
  BY <1>1, Inductive, PTL

-----------------------------------------------------------------------------
(* The refinement.                                                         *)

\* verifyArtifact and updateStatus compute the verdict on the object.
LEMMA NewStatusFits ==
    ASSUME NEW o \in Model
    PROVE  Fits(o, NewStatusOf(o))
BY DEF Fits, NewStatusOf

\* A stored version is one change of one object of StatusWriter.
LEMMA StoredPut ==
    ASSUME TypeOK, NEW m \in Models, NEW o \in Model \cup {None},
           model' = [model EXCEPT ![m] = Put(model[m], o)]
    PROVE  /\ stored' = [stored EXCEPT ![m] = stored'[m]]
           /\ stored[m] = model[m].cur.obj
           /\ stored'[m] = o
<1>1. model'[m].cur.obj = o /\ \A n \in Models \ {m} : model'[n] = model[n]
  BY DEF TypeOK, Put
<1>2. /\ stored' = [n \in Models |-> model'[n].cur.obj]
      /\ stored = [n \in Models |-> model[n].cur.obj]
  BY DEF stored
<1>3. stored[m] = model[m].cur.obj /\ stored'[m] = o
  BY <1>1, <1>2
<1>4. \A n \in Models : stored'[n] = [stored EXCEPT ![m] = stored'[m]][n]
  BY <1>1, <1>2, <1>3
<1> QED
  BY <1>2, <1>3, <1>4

\* A step that stores nothing is a stuttering step of StatusWriter.
LEMMA StoredSame ==
    ASSUME \A m \in Models : model'[m].cur = model[m].cur
    PROVE  stored' = stored
BY DEF stored

\* Each step of the Model controller or of its users is a step of
\* StatusWriter or changes no stored Model.
LEMMA StepImplements == IInv /\ [Next]_vars => [Abstract!Next]_stored
<1> SUFFICES ASSUME IInv, [Next]_vars PROVE Abstract!Next \/ stored' = stored
  OBVIOUS
<1>0. TypeOK
  BY DEF IInv
<1>1. ASSUME NEW m \in Models, NEW spec \in ModelSpecs, CreateModel(m, spec)
      PROVE  Abstract!Next
  <2> DEFINE o == [uid |-> model[m].cur.rv + 1, spec |-> spec,
                   status |-> NewModelStatus]
  <2>1. o \in Model /\ o.status = NewModelStatus
    BY <1>0, StoredModels
  <2>2. model[m].cur.obj = None /\ model' = [model EXCEPT ![m] = Put(model[m], o)]
    BY <1>0, <1>1 DEF CreateModel, TypeOK
  <2> HIDE DEF o
  <2>3. /\ stored' = [stored EXCEPT ![m] = stored'[m]]
        /\ stored[m] = None /\ stored'[m] = o
    BY <1>0, <2>1, <2>2, StoredPut
  <2>4. Abstract!Create(m)
    BY <2>1, <2>3, ModelAssumption DEF Abstract!Create
  <2> QED
    BY <2>3, <2>4 DEF Abstract!Next
<1>2. ASSUME NEW m \in Models, NEW spec \in ModelSpecs, UpdateModel(m, spec)
      PROVE  Abstract!Next
  <2> DEFINE o == [model[m].cur.obj EXCEPT !.spec = spec]
  <2>1. model[m].cur.obj # None /\ model' = [model EXCEPT ![m] = Put(model[m], o)]
    BY <1>0, <1>2 DEF UpdateModel, TypeOK
  <2>2. model[m].cur.obj \in Model /\ o \in Model
    BY <1>0, <2>1, ModelVersions, StoredModels
  <2>3. o.uid = model[m].cur.obj.uid /\ o.status = model[m].cur.obj.status
    BY <2>2 DEF Model
  <2> HIDE DEF o
  <2>4. /\ stored' = [stored EXCEPT ![m] = stored'[m]]
        /\ stored[m] = model[m].cur.obj /\ stored'[m] = o
    BY <1>0, <2>1, <2>2, StoredPut
  <2>5. Abstract!Edit(m)
    BY <2>1, <2>2, <2>3, <2>4, ModelAssumption DEF Abstract!Edit
  <2> QED
    BY <2>4, <2>5 DEF Abstract!Next
<1>3. ASSUME NEW m \in Models, DeleteModel(m) PROVE Abstract!Next
  <2>1. model[m].cur.obj # None /\ model' = [model EXCEPT ![m] = Put(model[m], None)]
    BY <1>0, <1>3 DEF DeleteModel, TypeOK
  <2>2. /\ stored' = [stored EXCEPT ![m] = stored'[m]]
        /\ stored[m] # None /\ stored'[m] = None
    BY <1>0, <2>1, StoredPut
  <2> QED
    BY <2>2 DEF Abstract!Next, Abstract!Delete
<1>4. ASSUME worker # Idle, Accepts, StoreStatus PROVE Abstract!Next
  <2> DEFINE m == worker.key
             o == model[m].cur.obj
             p == [o EXCEPT !.status = newStatus]
  <2>1. /\ m \in Models
        /\ o \in Model /\ p \in Model
        /\ newStatus = NewStatusOf(o)
        /\ model' = [model EXCEPT ![m] = Put(model[m], p)]
    BY <1>0, <1>4, WorkerBusy, StoreStatusPuts
  <2>2. p.status = newStatus /\ p = [o EXCEPT !.status = p.status]
    BY <2>1 DEF Model
  <2>3. Fits(o, p.status)
    BY <2>1, <2>2, NewStatusFits
  <2>4. /\ stored' = [stored EXCEPT ![m] = stored'[m]]
        /\ stored[m] = o /\ stored'[m] = p
    BY <1>0, <2>1, StoredPut
  <2> HIDE DEF m, o, p
  <2>5. Abstract!Write(m)
    BY <2>1, <2>2, <2>3, <2>4, ModelAssumption DEF Abstract!Write
  <2> QED
    BY <2>1, <2>4, <2>5 DEF Abstract!Next
<1>5. ASSUME NEW m \in Models, DeliverModel(m) PROVE stored' = stored
  BY <1>0, <1>5, StoredSame DEF DeliverModel, Deliver, TypeOK
<1>6. ASSUME Restart PROVE stored' = stored
  BY <1>6, StoredSame DEF Restart, Relist
<1>7. ASSUME model' = model PROVE stored' = stored
  BY <1>7 DEF stored
<1> QED
  BY <1>1, <1>2, <1>3, <1>4, <1>5, <1>6, <1>7
  DEF Next, Reconcile, TimerFires, Resync, Get, FirstGetFails, UpdateStatusSkipped,
      UpdateStatusStored, UpdateStatusRefused, UpdateStatusLost,
      UpdateStatusTimesOut, Writes, vars

\* The Model controller implements StatusWriter: whatever copies it judges and
\* whatever calls are lost or repeated, a status is stored only as the verdict
\* on the very object it is stored with, and nothing else is changed.
THEOREM StatusesAreVerdicts == Spec => ImplementsStatusWriter
<1>1. Init => Abstract!Init
  BY DEF Init, Abstract!Init, stored, InitialReplica
<1> QED
  BY <1>1, StepImplements, Inductive, PTL
  DEF Spec, ImplementsStatusWriter, Abstract!Spec

-----------------------------------------------------------------------------
(* The account of the writes.                                              *)

\* The Models whose stored status is not the verdict on their spec: those
\* updateStatus still has to write.
Unsaid == {m \in Models :
             /\ model[m].cur.obj # None
             /\ ~Unchanged(model[m].cur.obj.status, NewStatusOf(model[m].cur.obj))}

\* Every version of a Model, and the one it still waits for, is paid for by a
\* write of a user.
AccountInv ==
    \A m \in Models :
        model[m].cur.rv + (IF m \in Unsaid THEN 1 ELSE 0) <= 2 * UserWrites

\* The counts of events are integers.
LEMMA SpentType ==
    ASSUME budget \in [Kinds -> Nat]
    PROVE  /\ \A kind \in Kinds : Spent(kind) \in Int
           /\ UserWrites \in Int
<1>1. \A kind \in Kinds : Spent(kind) \in Int
  BY ModelAssumption DEF Spent
<1> QED
  BY <1>1 DEF UserWrites, Kinds

\* An event counts where it is spent, and nowhere else.
LEMMA SpendCounts ==
    ASSUME TypeOK, NEW kind \in Kinds, Spend(kind)
    PROVE  UserWrites' = IF kind \in {"create", "update", "delete"}
                         THEN UserWrites + 1 ELSE UserWrites
<1>1. budget \in [Kinds -> Nat]
  BY DEF TypeOK
<1>2. \A k \in Kinds : budget'[k] = IF k = kind THEN budget[k] - 1 ELSE budget[k]
  BY <1>1 DEF Spend
<1>3. \A k \in Kinds : Budget[k] \in Nat /\ budget[k] \in Nat
  BY <1>1, ModelAssumption
<1>4. \A k \in Kinds : Spent(k)' = IF k = kind THEN Spent(k) + 1 ELSE Spent(k)
  BY <1>2, <1>3 DEF Spent
<1>5. "create" \in Kinds /\ "update" \in Kinds /\ "delete" \in Kinds
  BY DEF Kinds
<1>6. UserWrites' = Spent("create")' + Spent("update")' + Spent("delete")'
  BY DEF UserWrites
<1>7. /\ Spent("create") \in Int /\ Spent("update") \in Int /\ Spent("delete") \in Int
  BY <1>1, <1>5, SpentType
<1> QED
  BY <1>4, <1>5, <1>6, <1>7 DEF UserWrites

\* The status updateStatus stores is the verdict on the object that carries it.
LEMMA SaidOnce ==
    ASSUME NEW o \in Model, NEW p, p = [o EXCEPT !.status = NewStatusOf(o)]
    PROVE  Unchanged(p.status, NewStatusOf(p))
<1>1. p.spec = o.spec /\ p.status = NewStatusOf(o)
  BY DEF Model
<1> QED
  BY <1>1 DEF Unchanged, NewStatusOf

\* What a step stores, and who pays: nothing; one version of one Model, for a
\* user; or the verdict a Model was waiting for.
LEMMA StepAccount ==
    ASSUME IInv, [Next]_vars
    PROVE  \/ /\ \A n \in Models : model'[n].cur = model[n].cur
              /\ UserWrites' = UserWrites
           \/ \E m \in Models :
                /\ model'[m].cur.rv = model[m].cur.rv + 1
                /\ \A n \in Models \ {m} : model'[n].cur = model[n].cur
                /\ \/ UserWrites' = UserWrites + 1
                   \/ /\ UserWrites' = UserWrites
                      /\ m \in Unsaid
                      /\ m \notin Unsaid'
<1>0. TypeOK /\ model \in [Models -> Replica(Model)]
  BY DEF IInv, TypeOK
<1>1. ASSUME NEW m \in Models, NEW o, model' = [model EXCEPT ![m] = Put(model[m], o)]
      PROVE  /\ model'[m].cur.rv = model[m].cur.rv + 1
             /\ model'[m].cur.obj = o
             /\ \A n \in Models \ {m} : model'[n].cur = model[n].cur
  BY <1>0, <1>1 DEF Put
<1>2. ASSUME budget' = budget PROVE UserWrites' = UserWrites
  BY <1>2 DEF UserWrites, Spent
<1>3. /\ Spend("create") \/ Spend("update") \/ Spend("delete") =>
            UserWrites' = UserWrites + 1
      /\ Spend("fault") \/ Spend("restart") => UserWrites' = UserWrites
  BY <1>0, SpendCounts DEF Kinds
<1>4. ASSUME NEW m \in Models, NEW spec \in ModelSpecs,
             CreateModel(m, spec) \/ UpdateModel(m, spec)
      PROVE  /\ model'[m].cur.rv = model[m].cur.rv + 1
             /\ \A n \in Models \ {m} : model'[n].cur = model[n].cur
             /\ UserWrites' = UserWrites + 1
  <2>1. CASE CreateModel(m, spec)
    BY <1>0, <1>1, <1>3, <2>1 DEF CreateModel
  <2>2. CASE UpdateModel(m, spec)
    BY <1>0, <1>1, <1>3, <2>2 DEF UpdateModel
  <2> QED
    BY <1>4, <2>1, <2>2
<1>5. ASSUME NEW m \in Models, DeleteModel(m)
      PROVE  /\ model'[m].cur.rv = model[m].cur.rv + 1
             /\ \A n \in Models \ {m} : model'[n].cur = model[n].cur
             /\ UserWrites' = UserWrites + 1
  BY <1>0, <1>1, <1>3, <1>5 DEF DeleteModel
<1>6. ASSUME NEW m \in Models, DeliverModel(m)
      PROVE  (\A n \in Models : model'[n].cur = model[n].cur) /\ budget' = budget
  BY <1>0, <1>6 DEF DeliverModel, Deliver
<1>7. ASSUME Restart
      PROVE  (\A n \in Models : model'[n].cur = model[n].cur) /\ UserWrites' = UserWrites
  BY <1>3, <1>7 DEF Restart, Relist
<1>8. ASSUME Writes, Accepts, StoreStatus, NEW m, m = worker.key
      PROVE  /\ m \in Models
             /\ model'[m].cur.rv = model[m].cur.rv + 1
             /\ \A n \in Models \ {m} : model'[n].cur = model[n].cur
             /\ m \in Unsaid /\ m \notin Unsaid'
  <2> DEFINE o == model[m].cur.obj
             p == [o EXCEPT !.status = NewStatusOf(o)]
  <2>1. worker # Idle
    BY <1>8 DEF Writes
  <2>2. /\ m \in Models
        /\ worker.copy.obj = o
        /\ o \in Model
        /\ p \in Model
        /\ newStatus = NewStatusOf(o)
        /\ model' = [model EXCEPT ![m] = Put(model[m], p)]
    BY <1>0, <1>8, <2>1, WorkerBusy, StoreStatusPuts
  <2>3. ~Unchanged(o.status, NewStatusOf(o))
    BY <1>8, <2>2 DEF Writes
  <2>4. o # None
    BY <2>2, ModelAssumption
  <2>5. m \in Unsaid
    BY <2>2, <2>3, <2>4 DEF Unsaid
  <2>6. Unchanged(p.status, NewStatusOf(p))
    BY <2>2, SaidOnce
  <2> HIDE DEF p
  <2>7. /\ model'[m].cur.rv = model[m].cur.rv + 1
        /\ model'[m].cur.obj = p
        /\ \A n \in Models \ {m} : model'[n].cur = model[n].cur
    BY <1>1, <2>2
  <2>8. Unsaid' = {n \in Models :
                     /\ model'[n].cur.obj # None
                     /\ ~Unchanged(model'[n].cur.obj.status, NewStatusOf(model'[n].cur.obj))}
    BY DEF Unsaid, Unchanged, NewStatusOf
  <2>9. m \notin Unsaid'
    BY <2>6, <2>7, <2>8
  <2> QED
    BY <2>2, <2>5, <2>7, <2>9
<1>9. ASSUME model' = model
      PROVE  \A n \in Models : model'[n].cur = model[n].cur
  BY <1>9
<1>10. CASE \E m \in Models : TimerFires(m) \/ Resync(m) \/ Get(m) \/ FirstGetFails(m)
  BY <1>2, <1>3, <1>9, <1>10 DEF TimerFires, Resync, Get, FirstGetFails
<1>11. CASE StatusWrite
  <2>1. CASE model' = model /\ (budget' = budget \/ Spend("fault"))
    BY <1>2, <1>3, <1>9, <2>1
  <2>2. CASE /\ Writes /\ Accepts /\ StoreStatus
             /\ budget' = budget \/ Spend("fault")
    BY <1>2, <1>3, <1>8, <2>2
  <2> QED
    BY <1>11, <2>1, <2>2 DEF StatusWrite, UpdateStatusSkipped, UpdateStatusStored,
       UpdateStatusRefused, UpdateStatusLost, UpdateStatusTimesOut
<1>12. CASE UNCHANGED vars
  BY <1>2, <1>9, <1>12 DEF vars
<1> QED
  BY <1>2, <1>4, <1>5, <1>6, <1>7, <1>10, <1>11, <1>12 DEF Next, Reconcile, StatusWrite

\* Which Models wait for a verdict depends on what is stored, and on nothing
\* else.
LEMMA UnsaidSame ==
    ASSUME NEW n \in Models, model'[n].cur = model[n].cur
    PROVE  n \in Unsaid' <=> n \in Unsaid
BY DEF Unsaid, Unchanged, NewStatusOf

\* Every step keeps the account.
LEMMA AccountNext == IInv /\ AccountInv /\ [Next]_vars => AccountInv'
<1> SUFFICES ASSUME IInv, AccountInv, [Next]_vars PROVE AccountInv'
  OBVIOUS
<1>1. /\ UserWrites \in Int
      /\ \A n \in Models : model[n].cur.rv \in Nat
  BY ModelVersions, SpentType DEF IInv, TypeOK
<1>2. SUFFICES ASSUME NEW n \in Models
               PROVE  model'[n].cur.rv + (IF n \in Unsaid' THEN 1 ELSE 0) <= 2 * UserWrites'
  BY DEF AccountInv
<1>3. model[n].cur.rv + (IF n \in Unsaid THEN 1 ELSE 0) <= 2 * UserWrites
  BY DEF AccountInv
<1>4. ASSUME model'[n].cur = model[n].cur,
             UserWrites' = UserWrites \/ UserWrites' = UserWrites + 1
      PROVE  model'[n].cur.rv + (IF n \in Unsaid' THEN 1 ELSE 0) <= 2 * UserWrites'
  <2>1. n \in Unsaid' <=> n \in Unsaid
    BY <1>4, UnsaidSame
  <2> QED
    BY <1>1, <1>3, <1>4, <2>1
<1>5. CASE \A k \in Models : model'[k].cur = model[k].cur /\ UserWrites' = UserWrites
  BY <1>4, <1>5
<1>6. ASSUME NEW m \in Models,
             /\ model'[m].cur.rv = model[m].cur.rv + 1
             /\ \A k \in Models \ {m} : model'[k].cur = model[k].cur
             /\ \/ UserWrites' = UserWrites + 1
                \/ /\ UserWrites' = UserWrites
                   /\ m \in Unsaid
                   /\ m \notin Unsaid'
      PROVE  model'[n].cur.rv + (IF n \in Unsaid' THEN 1 ELSE 0) <= 2 * UserWrites'
  <2>1. CASE n # m
    BY <1>4, <1>6, <2>1
  <2>2. CASE n = m
    BY <1>1, <1>3, <1>6, <2>2
  <2> QED
    BY <2>1, <2>2
<1> QED
  BY <1>5, <1>6, StepAccount

\* Nothing is stored and nothing is owed at the start.
LEMMA AccountInit == Init => AccountInv
<1> SUFFICES ASSUME Init PROVE AccountInv
  OBVIOUS
<1>1. \A m \in Models : model[m].cur.rv = 0 /\ model[m].cur.obj = None
  BY DEF Init, InitialReplica
<1>2. \A m \in Models : m \notin Unsaid
  BY <1>1 DEF Unsaid
<1>3. \A kind \in Kinds : Spent(kind) = 0
  BY ModelAssumption DEF Init, Spent
<1>4. UserWrites = 0
  BY <1>3 DEF UserWrites, Kinds
<1> QED
  BY <1>1, <1>2, <1>4 DEF AccountInv

\* updateStatus never feeds itself: each write of a user brings one status
\* write at most, however often the Model is judged again, from a stale copy,
\* after a lost answer or after a restart.
THEOREM WritesAreBounded == Spec => []WritesBounded
<1>1. IInv /\ AccountInv => WritesBounded
  <2> SUFFICES ASSUME IInv, AccountInv, NEW m \in Models
               PROVE  model[m].cur.rv <= 2 * UserWrites
    BY DEF WritesBounded
  <2>1. model[m].cur.rv + (IF m \in Unsaid THEN 1 ELSE 0) <= 2 * UserWrites
    BY DEF AccountInv
  <2>2. UserWrites \in Int /\ model[m].cur.rv \in Nat
    BY ModelVersions, SpentType DEF IInv, TypeOK
  <2> QED
    BY <2>1, <2>2
<1> QED
  BY <1>1, AccountInit, AccountNext, Inductive, PTL DEF Spec
=============================================================================
