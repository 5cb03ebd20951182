----------------------- MODULE TenantControllerProofs -----------------------
(***************************************************************************)
(* Proofs about TenantController, for any set of Tenants and quotas and    *)
(* any budgets of outside events.                                          *)
(***************************************************************************)
EXTENDS TenantController, WatchedObjectProofs

-----------------------------------------------------------------------------
(* Types.                                                                  *)

\* The idle worker is well formed.
LEMMA IdleType == Idle \in Worker
BY DEF Idle, Worker, Version

\* Every version of a Tenant anyone can read is a Tenant or None.
LEMMA TenantVersions ==
    ASSUME TypeOK, NEW t \in Tenants
    PROVE  /\ tenant[t] \in Replica(TenantObject)
           /\ tenant[t].cur.rv \in Nat
           /\ tenant[t].cur.obj \in TenantObject \cup {None}
           /\ tenant[t].cache \in Version(TenantObject)
BY DEF TypeOK, Replica, Version

\* So is every version of a provisioned object.
LEMMA ChildVersions ==
    ASSUME TypeOK, NEW t \in Tenants, NEW c \in Children
    PROVE  /\ child[t][c] \in Replica(Child)
           /\ child[t][c].cur.obj \in Child \cup {None}
           /\ \A v \in Versions(child[t][c]) : v \in Version(Child)
<1>1. child[t][c] \in Replica(Child)
  BY DEF TypeOK
<1> QED
  BY <1>1, VersionsType DEF Replica, Version

\* A Reconcile in progress has a Tenant's name and a Tenant.
LEMMA WorkerBusy ==
    ASSUME TypeOK, worker # Idle
    PROVE  /\ worker.key \in Tenants
           /\ worker.copy \in Version(TenantObject)
           /\ worker.copy.obj \in TenantObject
           /\ worker.failed \subseteq Children
BY DEF TypeOK, Worker, Version

\* It is in progress wherever its next call is one.
LEMMA BusyAt ==
    ASSUME worker.pc \in Children \cup {"status"}
    PROVE  worker # Idle
BY DEF Idle, Children

\* What the mutate functions make is well formed and as desired.
LEMMA DesiredType ==
    ASSUME NEW c \in Children, NEW q \in TenantResourceQuota
    PROVE  /\ Desired(c, q) \in Child
           /\ Desired(c, q).asDesired
<1>1. buildQuotaResourceList(q) \in Hard
  <2>1. /\ q.cpu \in Nat /\ q.memory \in Nat /\ q.gpu \in Nat
        /\ q.pods \in Nat \cup {None} /\ q.jobs \in Nat \cup {None}
    BY DEF TenantResourceQuota
  <2> QED
    BY <2>1 DEF buildQuotaResourceList, Hard, HardLimits
<1> QED
  BY <1>1 DEF Desired, Child

\* The status updateStatus computes is well formed, and Ready without errors.
LEMMA NewStatusType ==
    ASSUME TypeOK, worker # Idle
    PROVE  /\ newStatus \in TenantStatus
           /\ newStatus.phase = "Ready" => worker.failed = {}
<1>1. worker.copy.obj.status.conditions \in [TenantConditions -> ConditionStatus]
  BY WorkerBusy DEF TenantObject, TenantStatus
<1>2. newConditions \in [TenantConditions -> ConditionStatus]
  BY <1>1 DEF newConditions, SetCond, ConditionStatus
<1>3. newStatus.phase = IF anyErr THEN "Pending" ELSE "Ready"
  BY DEF newStatus
<1>4. ~anyErr => worker.failed = {}
  BY WorkerBusy DEF anyErr, nsErr, quotaErr, saErr, rbacErr, npErr, Children
<1> QED
  BY <1>2, <1>3, <1>4 DEF newStatus, TenantStatus

\* Spending from the budget leaves a budget.
LEMMA TypeSpend ==
    ASSUME TypeOK, NEW kind \in Kinds, Spend(kind)
    PROVE  budget' \in [Kinds -> Nat]
<1>1. budget[kind] \in Nat /\ budget[kind] > 0
  BY DEF TypeOK, Spend
<1>2. budget[kind] - 1 \in Nat
  BY <1>1
<1> QED
  BY <1>2 DEF TypeOK, Spend

\* The objects users and the controller store are Tenants.
LEMMA StoredTenants ==
    ASSUME TypeOK
    PROVE  /\ \A t \in Tenants, q \in Quotas :
                 [uid |-> tenant[t].cur.rv + 1, quota |-> q,
                  status |-> NewTenantStatus] \in TenantObject
           /\ \A t \in Tenants, q \in Quotas :
                 tenant[t].cur.obj # None =>
                    [tenant[t].cur.obj EXCEPT !.quota = q] \in TenantObject
           /\ \A t \in Tenants, status \in TenantStatus :
                 tenant[t].cur.obj # None =>
                    [tenant[t].cur.obj EXCEPT !.status = status] \in TenantObject
<1>1. NewTenantStatus \in TenantStatus
  BY DEF NewTenantStatus, TenantStatus, ConditionStatus
<1>2. \A t \in Tenants : /\ tenant[t].cur.rv \in Nat
                         /\ tenant[t].cur.obj \in TenantObject \cup {None}
  BY TenantVersions
<1>3. Quotas \subseteq TenantResourceQuota
  BY TenantAssumption
<1> QED
  BY <1>1, <1>2, <1>3 DEF TenantObject

\* A read of a provisioned object brings its cache up to what was read.
LEMMA LookType ==
    ASSUME NEW r \in Replica(Child), NEW v \in Versions(r)
    PROVE  /\ Deliver(r, v) \in Replica(Child)
           /\ Versions(Deliver(r, v)) \subseteq Versions(r)
<1>1. v \in Version(Child)
  BY VersionsType
<1> QED
  BY <1>1 DEF Deliver, Versions, Replica

\* The calls of Reconcile, in their order.
LEMMA AfterCall ==
    ASSUME NEW c \in Children
    PROVE  /\ \A err \in BOOLEAN : After(c, err) \in Children \cup {"status"}
           /\ Passed(After(c, FALSE)) \subseteq Passed(c) \cup {c}
<1>1. CASE c = "namespace"
  BY <1>1 DEF After, Passed, Children
<1>2. CASE c = "quota"
  BY <1>2 DEF After, Passed, Children
<1>3. CASE c = "serviceaccount"
  BY <1>3 DEF After, Passed, Children
<1>4. CASE c = "role"
  BY <1>4 DEF After, Passed, Children
<1>5. CASE c = "binding"
  BY <1>5 DEF After, Passed, Children
<1>6. CASE c = "networkpolicy"
  BY <1>6 DEF After, Passed, Children
<1> QED
  BY <1>1, <1>2, <1>3, <1>4, <1>5, <1>6 DEF Children

\* A provisioned object is replaced and the others are left alone.
LEMMA ChildSet ==
    ASSUME TypeOK, NEW t \in Tenants, NEW c \in Children, NEW r \in Replica(Child),
           child' = [child EXCEPT ![t][c] = r]
    PROVE  /\ child' \in [Tenants -> [Children -> Replica(Child)]]
           /\ child'[t][c] = r
           /\ \A u \in Tenants, d \in Children :
                 u # t \/ d # c => child'[u][d] = child[u][d]
<1>1. child[t] \in [Children -> Replica(Child)]
  BY DEF TypeOK
<1>2. child'[t] = [child[t] EXCEPT ![c] = r]
  BY DEF TypeOK
<1>3. \A u \in Tenants : u # t => child'[u] = child[u]
  BY DEF TypeOK
<1>4. child' \in [Tenants -> [Children -> Replica(Child)]]
  BY <1>1 DEF TypeOK
<1> QED
  BY <1>1, <1>2, <1>3, <1>4

\* A stored version of a Tenant keeps the Tenants well formed.
LEMMA TypePut ==
    ASSUME TypeOK, NEW t \in Tenants, NEW o \in TenantObject \cup {None},
           tenant' = [tenant EXCEPT ![t] = Put(tenant[t], o)]
    PROVE  tenant' \in [Tenants -> Replica(TenantObject)]
<1>1. Put(tenant[t], o) \in Replica(TenantObject)
  BY TenantVersions, PutType
<1> QED
  BY <1>1 DEF TypeOK

\* The initial state is well typed.
LEMMA TypeInit == Init => TypeOK
<1> SUFFICES ASSUME Init PROVE TypeOK
  OBVIOUS
<1>1. /\ InitialReplica(None) \in Replica(TenantObject)
      /\ InitialReplica(None) \in Replica(Child)
  BY DEF InitialReplica, Replica, Version
<1>2. worker \in Worker
  BY IdleType DEF Init
<1>3. budget \in [Kinds -> Nat]
  BY TenantAssumption DEF Init
<1> QED
  BY <1>1, <1>2, <1>3 DEF Init, TypeOK

\* What users may do to a Tenant: they store a version of it.
UserStep(t) ==
    \/ \E q \in Quotas : CreateTenant(t, q) \/ UpdateTenant(t, q)
    \/ DeleteTenant(t)

\* They store a Tenant or None, and touch nothing else.
LEMMA UserPuts ==
    ASSUME TypeOK, NEW t \in Tenants, UserStep(t)
    PROVE  /\ \E o \in TenantObject \cup {None} :
                 tenant' = [tenant EXCEPT ![t] = Put(tenant[t], o)]
           /\ budget' \in [Kinds -> Nat]
           /\ UNCHANGED <<child, queue, delayed, worker, applied>>
<1>1. CASE \E q \in Quotas : CreateTenant(t, q)
  <2>1. PICK q \in Quotas : CreateTenant(t, q)
    BY <1>1
  <2>2. budget' \in [Kinds -> Nat]
    BY <2>1, TypeSpend DEF CreateTenant, Kinds
  <2> QED
    BY <2>1, <2>2, StoredTenants DEF CreateTenant, TypeOK
<1>2. CASE \E q \in Quotas : UpdateTenant(t, q)
  <2>1. PICK q \in Quotas : UpdateTenant(t, q)
    BY <1>2
  <2>2. budget' \in [Kinds -> Nat]
    BY <2>1, TypeSpend DEF UpdateTenant, Kinds
  <2> QED
    BY <2>1, <2>2, StoredTenants DEF UpdateTenant, TypeOK
<1>3. CASE DeleteTenant(t)
  <2>1. budget' \in [Kinds -> Nat]
    BY <1>3, TypeSpend DEF DeleteTenant, Kinds
  <2> QED
    BY <1>3, <2>1 DEF DeleteTenant, TypeOK
<1> QED
  BY <1>1, <1>2, <1>3 DEF UserStep

\* What others may do behind the controller's back.
DriftStep(t) ==
    \/ ReplaceBinding(t)
    \/ \E c \in Children : DriftChild(t, c) \/ DeleteChild(t, c)

\* They leave the objects well formed and no new one as the controller
\* would have it.
LEMMA DriftKeeps ==
    ASSUME TypeOK, NEW t \in Tenants, DriftStep(t)
    PROVE  /\ child' \in [Tenants -> [Children -> Replica(Child)]]
           /\ \A u \in Tenants, d \in Children : \A v \in Versions(child'[u][d]) :
                 v \in Versions(child[u][d]) \/ v.obj = None \/ ~v.obj.asDesired
           /\ budget' \in [Kinds -> Nat]
           /\ UNCHANGED <<tenant, queue, delayed, worker, applied>>
<1>1. ASSUME NEW c \in Children, NEW o \in Child \cup {None},
             o = None \/ ~o.asDesired,
             child' = [child EXCEPT ![t][c] = Put(child[t][c], o)]
      PROVE  /\ child' \in [Tenants -> [Children -> Replica(Child)]]
             /\ \A u \in Tenants, d \in Children : \A v \in Versions(child'[u][d]) :
                   v \in Versions(child[u][d]) \/ v.obj = None \/ ~v.obj.asDesired
  <2>1. /\ child[t][c] \in Replica(Child)
        /\ Put(child[t][c], o) \in Replica(Child)
    BY ChildVersions, PutType
  <2>2. \A v \in Versions(Put(child[t][c], o)) : v \in Versions(child[t][c]) \/ v.obj = o
    BY PutAdds
  <2>3. /\ child' \in [Tenants -> [Children -> Replica(Child)]]
        /\ child'[t][c] = Put(child[t][c], o)
        /\ \A u \in Tenants, d \in Children :
              u # t \/ d # c => child'[u][d] = child[u][d]
    BY <1>1, <2>1, ChildSet, ZenonT(60)
  <2> QED
    BY <1>1, <2>2, <2>3
<1>2. CASE ReplaceBinding(t)
  <2> DEFINE o == [asDesired |-> FALSE, hard |-> None, otherRole |-> TRUE]
  <2>1. "binding" \in Children /\ o \in Child /\ ~o.asDesired
    BY DEF Children, Child
  <2>2. child' = [child EXCEPT ![t]["binding"] = Put(child[t]["binding"], o)]
    BY <1>2, <2>1 DEF ReplaceBinding, TypeOK
  <2>3. budget' \in [Kinds -> Nat]
    BY <1>2, TypeSpend DEF ReplaceBinding, Kinds
  <2> QED
    BY <1>1, <1>2, <2>1, <2>2, <2>3 DEF ReplaceBinding
<1>3. ASSUME NEW c \in Children, DriftChild(t, c)
      PROVE  /\ child' \in [Tenants -> [Children -> Replica(Child)]]
             /\ \A u \in Tenants, d \in Children : \A v \in Versions(child'[u][d]) :
                   v \in Versions(child[u][d]) \/ v.obj = None \/ ~v.obj.asDesired
             /\ budget' \in [Kinds -> Nat]
             /\ UNCHANGED <<tenant, queue, delayed, worker, applied>>
  <2> DEFINE o == [child[t][c].cur.obj EXCEPT !.asDesired = FALSE]
  <2>1. child[t][c].cur.obj \in Child
    BY <1>3, ChildVersions DEF DriftChild
  <2>2. o \in Child /\ ~o.asDesired
    BY <2>1 DEF Child
  <2>3. child' = [child EXCEPT ![t][c] = Put(child[t][c], o)]
    BY <1>3 DEF DriftChild, TypeOK
  <2>4. budget' \in [Kinds -> Nat]
    BY <1>3, TypeSpend DEF DriftChild, Kinds
  <2> HIDE DEF o
  <2> QED
    BY <1>1, <1>3, <2>2, <2>3, <2>4 DEF DriftChild
<1>4. ASSUME NEW c \in Children, DeleteChild(t, c)
      PROVE  /\ child' \in [Tenants -> [Children -> Replica(Child)]]
             /\ \A u \in Tenants, d \in Children : \A v \in Versions(child'[u][d]) :
                   v \in Versions(child[u][d]) \/ v.obj = None \/ ~v.obj.asDesired
             /\ budget' \in [Kinds -> Nat]
             /\ UNCHANGED <<tenant, queue, delayed, worker, applied>>
  <2>1. budget' \in [Kinds -> Nat]
    BY <1>4, TypeSpend DEF DeleteChild, Kinds
  <2>2. PICK f : /\ child' = [child EXCEPT ![t] = f]
                 /\ DOMAIN f = Children /\ f = [d \in Children |-> f[d]]
                 /\ \A d \in Children : f[d] = child[t][d] \/ f[d] = Put(child[t][d], None)
    <3> DEFINE f == [d \in Children |->
                        IF d = c \/ (c = "namespace" /\ child[t][d].cur.obj # None)
                        THEN Put(child[t][d], None) ELSE child[t][d]]
    <3>1. child' = [child EXCEPT ![t] = f]
      BY <1>4 DEF DeleteChild, TypeOK
    <3>2. /\ DOMAIN f = Children /\ f = [d \in Children |-> f[d]]
          /\ \A d \in Children : f[d] = child[t][d] \/ f[d] = Put(child[t][d], None)
      OBVIOUS
    <3> QED
      BY <3>1, <3>2
  <2>3. \A d \in Children : /\ child[t][d] \in Replica(Child)
                            /\ Put(child[t][d], None) \in Replica(Child)
    BY ChildVersions, PutType
  <2>4. \A d \in Children : \A v \in Versions(Put(child[t][d], None)) :
           v \in Versions(child[t][d]) \/ v.obj = None
    BY PutAdds
  <2>5. f \in [Children -> Replica(Child)]
    BY <2>2, <2>3
  <2>6. child' \in [Tenants -> [Children -> Replica(Child)]]
    BY <2>2, <2>5 DEF TypeOK
  <2>7. ASSUME NEW u \in Tenants, NEW d \in Children, NEW v \in Versions(child'[u][d])
        PROVE  v \in Versions(child[u][d]) \/ v.obj = None
    <3>1. CASE u = t
      BY <2>2, <2>4, <2>7, <3>1 DEF TypeOK
    <3>2. CASE u # t
      BY <2>2, <2>7, <3>2 DEF TypeOK
    <3> QED
      BY <3>1, <3>2
  <2> QED
    BY <1>4, <2>1, <2>6, <2>7 DEF DeleteChild
<1> QED
  BY <1>2, <1>3, <1>4 DEF DriftStep

-----------------------------------------------------------------------------
(* The calls of CreateOrUpdate.                                            *)

\* Where a Reconcile is when it calls CreateOrUpdate.
LEMMA AtChild ==
    ASSUME TypeOK, Provisioning
    PROVE  /\ worker # Idle
           /\ worker.pc \in Children
           /\ worker.key \in Tenants
           /\ here \in Replica(Child)
           /\ desired \in Child
           /\ desired.asDesired
<1>1. worker.pc \in Children /\ worker # Idle
  BY BusyAt DEF Provisioning
<1>2. worker.key \in Tenants /\ worker.copy.obj \in TenantObject
  BY <1>1, WorkerBusy
<1>3. worker.copy.obj.quota \in TenantResourceQuota
  BY <1>2 DEF TenantObject
<1>4. here \in Replica(Child)
  BY <1>1, <1>2, ChildVersions DEF here
<1> QED
  BY <1>1, <1>2, <1>3, <1>4, DesiredType DEF desired

\* After a call the Reconcile goes on with the same Tenant.
LEMMA StepType ==
    ASSUME TypeOK, Provisioning, NEW err \in BOOLEAN, Step(err)
    PROVE  /\ worker' \in Worker
           /\ worker'.key = worker.key
           /\ worker'.copy = worker.copy
           /\ worker'.pc = After(worker.pc, err)
           /\ err => worker'.failed # {}
           /\ ~err => worker'.failed = worker.failed
<1>1. worker \in Worker /\ worker.pc \in Children
  BY AtChild DEF TypeOK
<1>2. After(worker.pc, err) \in Children \cup {"status"}
  BY <1>1, AfterCall
<1>3. worker.failed \subseteq Children
  BY <1>1 DEF Worker
<1>4. worker' = [worker EXCEPT
                    !.pc = After(worker.pc, err),
                    !.failed = IF err THEN worker.failed \cup {worker.pc}
                                      ELSE worker.failed]
  BY DEF Step
<1> QED
  BY <1>1, <1>2, <1>3, <1>4 DEF Worker

\* What a call does to the objects and to the record of what was stored:
\* a copy that is new is one the controller stored.
CallEffect ==
    /\ child' \in [Tenants -> [Children -> Replica(Child)]]
    /\ applied' \subseteq [name : Tenants, kind : Children, obj : Child]
    /\ applied \subseteq applied'
    /\ \A u \in Tenants, d \in Children : \A v \in Versions(child'[u][d]) :
          \/ v \in Versions(child[u][d])
          \/ [name |-> u, kind |-> d, obj |-> v.obj] \in applied'

\* A call that only reads.
LEMMA ReadEffect ==
    ASSUME TypeOK, Provisioning, NEW v \in Versions(here),
           SetChild(Deliver(here, v)), UNCHANGED applied
    PROVE  CallEffect
<1> DEFINE t == worker.key
           c == worker.pc
           r == Deliver(here, v)
<1>1. t \in Tenants /\ c \in Children /\ here \in Replica(Child)
  BY AtChild
<1>2. r \in Replica(Child) /\ Versions(r) \subseteq Versions(child[t][c])
  BY <1>1, LookType DEF here
<1>3. child' = [child EXCEPT ![t][c] = r]
  BY DEF SetChild
<1> HIDE DEF t, c, r
<1>4. /\ child' \in [Tenants -> [Children -> Replica(Child)]]
      /\ child'[t][c] = r
      /\ \A u \in Tenants, d \in Children :
            u # t \/ d # c => child'[u][d] = child[u][d]
  BY <1>1, <1>2, <1>3, ChildSet, ZenonT(60)
<1>5. \A u \in Tenants, d \in Children :
         Versions(child'[u][d]) \subseteq Versions(child[u][d])
  BY <1>2, <1>4
<1> QED
  BY <1>4, <1>5 DEF CallEffect, TypeOK

\* A call that stores.
LEMMA StoreEffect ==
    ASSUME TypeOK, Provisioning, NEW v \in Versions(here), StoreChild(v)
    PROVE  /\ CallEffect
           /\ [name |-> worker.key, kind |-> worker.pc, obj |-> desired] \in applied'
<1> DEFINE t == worker.key
           c == worker.pc
           a == [name |-> t, kind |-> c, obj |-> desired]
           r == Put(Deliver(here, v), desired)
<1>1. /\ t \in Tenants /\ c \in Children /\ here \in Replica(Child)
      /\ desired \in Child
  BY AtChild
<1>2. /\ Deliver(here, v) \in Replica(Child)
      /\ Versions(Deliver(here, v)) \subseteq Versions(child[t][c])
  BY <1>1, LookType DEF here
<1>3. r \in Replica(Child)
  BY <1>1, <1>2, PutType
<1>4. \A w \in Versions(r) : w \in Versions(child[t][c]) \/ w.obj = desired
  BY <1>2, PutAdds
<1>5. child' = [child EXCEPT ![t][c] = r]
  BY DEF StoreChild, SetChild
<1>6. applied' = applied \cup {a} /\ a \in [name : Tenants, kind : Children, obj : Child]
  BY <1>1 DEF StoreChild
<1> HIDE DEF t, c, r
<1>7. /\ child' \in [Tenants -> [Children -> Replica(Child)]]
      /\ child'[t][c] = r
      /\ \A u \in Tenants, d \in Children :
            u # t \/ d # c => child'[u][d] = child[u][d]
  BY <1>1, <1>3, <1>5, ChildSet, ZenonT(60)
<1>8. ASSUME NEW u \in Tenants, NEW d \in Children, NEW w \in Versions(child'[u][d])
      PROVE  \/ w \in Versions(child[u][d])
             \/ [name |-> u, kind |-> d, obj |-> w.obj] \in applied'
  <2>1. CASE u = t /\ d = c
    BY <1>4, <1>6, <1>7, <1>8, <2>1
  <2>2. CASE u # t \/ d # c
    BY <1>7, <1>8, <2>2
  <2> QED
    BY <2>1, <2>2
<1>9. applied' \subseteq [name : Tenants, kind : Children, obj : Child]
  BY <1>6 DEF TypeOK
<1> QED
  BY <1>6, <1>7, <1>8, <1>9 DEF CallEffect, t, c

\* The outcomes of a call.
Call == Provision \/ ChildLost \/ ChildTimesOut

\* A call that returns no error leaves the object stored as desired, by this
\* call or by an earlier one whose trace the read shows.
LEMMA CallStep ==
    ASSUME IInv, Call
    PROVE  /\ Provisioning
           /\ CallEffect
           /\ budget' \in [Kinds -> Nat]
           /\ UNCHANGED <<tenant, queue, delayed>>
           /\ \/ Step(TRUE)
              \/ /\ Step(FALSE)
                 /\ [name |-> worker.key, kind |-> worker.pc, obj |-> desired]
                       \in applied'
<1>0. TypeOK
  BY DEF IInv
<1>1. ASSUME Provisioning, NEW v \in Versions(here), Look(v)
      PROVE  budget' \in [Kinds -> Nat]
  <2>1. CASE UNCHANGED budget
    BY <1>0, <2>1 DEF TypeOK
  <2>2. CASE Spend("lag")
    BY <1>0, <2>2, TypeSpend DEF Kinds
  <2> QED
    BY <1>1, <2>1, <2>2 DEF Look
<1>2. ASSUME Provisioning, NEW v \in Versions(here), ChildUpToDate(v)
      PROVE  /\ CallEffect
             /\ budget' \in [Kinds -> Nat]
             /\ UNCHANGED <<tenant, queue, delayed>>
             /\ Step(FALSE)
             /\ [name |-> worker.key, kind |-> worker.pc, obj |-> desired] \in applied'
  <2>1. /\ worker.key \in Tenants /\ worker.pc \in Children
        /\ desired \in Child /\ desired.asDesired
    BY <1>0, <1>2, AtChild
  <2>2. v.obj = desired /\ v.obj # None
    BY <1>2, <2>1, TenantAssumption DEF ChildUpToDate, UpToDate
  <2>3. v \in Versions(child[worker.key][worker.pc])
    BY <1>2 DEF here
  <2>4. [name |-> worker.key, kind |-> worker.pc, obj |-> v.obj] \in applied
    BY <2>1, <2>2, <2>3 DEF IInv, AppliedAsDesired
  <2>5. CallEffect
    BY <1>0, <1>2, ReadEffect DEF ChildUpToDate
  <2> QED
    BY <1>1, <1>2, <2>2, <2>4, <2>5 DEF ChildUpToDate
<1>3. ASSUME Provisioning, NEW v \in Versions(here), ChildStored(v)
      PROVE  /\ CallEffect
             /\ budget' \in [Kinds -> Nat]
             /\ UNCHANGED <<tenant, queue, delayed>>
             /\ Step(FALSE)
             /\ [name |-> worker.key, kind |-> worker.pc, obj |-> desired] \in applied'
  BY <1>0, <1>1, <1>3, StoreEffect DEF ChildStored
<1>4. ASSUME Provisioning, NEW v \in Versions(here), ChildRefused(v)
      PROVE  /\ CallEffect
             /\ budget' \in [Kinds -> Nat]
             /\ UNCHANGED <<tenant, queue, delayed>>
             /\ Step(TRUE)
  BY <1>0, <1>1, <1>4, ReadEffect DEF ChildRefused
<1>5. ASSUME ChildLost
      PROVE  /\ Provisioning
             /\ CallEffect
             /\ budget' \in [Kinds -> Nat]
             /\ UNCHANGED <<tenant, queue, delayed>>
             /\ Step(TRUE)
  <2>1. budget' \in [Kinds -> Nat]
    BY <1>0, <1>5, TypeSpend DEF ChildLost, Kinds
  <2>2. CallEffect
    BY <1>0, <1>5 DEF ChildLost, CallEffect, TypeOK
  <2> QED
    BY <1>5, <2>1, <2>2 DEF ChildLost
<1>6. ASSUME ChildTimesOut
      PROVE  /\ Provisioning
             /\ CallEffect
             /\ budget' \in [Kinds -> Nat]
             /\ UNCHANGED <<tenant, queue, delayed>>
             /\ Step(TRUE)
  <2>1. budget' \in [Kinds -> Nat]
    BY <1>0, <1>6, TypeSpend DEF ChildTimesOut, Kinds
  <2>2. here.cur \in Versions(here)
    BY DEF Versions
  <2>3. CallEffect
    BY <1>0, <1>6, <2>2, StoreEffect DEF ChildTimesOut
  <2> QED
    BY <1>6, <2>1, <2>3 DEF ChildTimesOut
<1> QED
  BY <1>2, <1>3, <1>4, <1>5, <1>6 DEF Call, Provision

-----------------------------------------------------------------------------
(* The inductive invariant.                                                *)

\* A write keeps every other copy of the Tenant older than the stored one.
LEMMA CoherentPut ==
    ASSUME IInv, NEW t \in Tenants, NEW o \in TenantObject \cup {None},
           tenant' = [tenant EXCEPT ![t] = Put(tenant[t], o)]
    PROVE  /\ \A u \in Tenants : Coherent(tenant'[u])
           /\ worker # Idle => CopyCoherent(worker.copy, tenant'[worker.key].cur)
<1>1. \A u \in Tenants : Coherent(tenant'[u])
  BY TenantVersions, PutVersions DEF IInv, TypeOK
<1>2. ASSUME worker # Idle
      PROVE  CopyCoherent(worker.copy, tenant'[worker.key].cur)
  <2>1. /\ worker.key \in Tenants /\ worker.copy.rv \in Nat
        /\ CopyCoherent(worker.copy, tenant[worker.key].cur)
        /\ tenant[worker.key].cur.rv \in Nat
    BY <1>2, WorkerBusy, TenantVersions DEF IInv, Version
  <2>2. CASE worker.key = t
    <3>1. tenant'[t].cur.rv = tenant[t].cur.rv + 1
      BY DEF IInv, TypeOK, Put
    <3> QED
      BY <2>1, <2>2, <3>1 DEF CopyCoherent
  <2>3. CASE worker.key # t
    BY <2>1, <2>3 DEF IInv, TypeOK
  <2> QED
    BY <2>2, <2>3
<1> QED
  BY <1>1, <1>2

\* No copy becomes as desired unless the controller stores it.
LEMMA AppliedKept ==
    ASSUME IInv, applied \subseteq applied',
           \A u \in Tenants, d \in Children : \A v \in Versions(child'[u][d]) :
              \/ v \in Versions(child[u][d]) \/ v.obj = None \/ ~v.obj.asDesired
              \/ [name |-> u, kind |-> d, obj |-> v.obj] \in applied'
    PROVE  AppliedAsDesired'
<1> SUFFICES ASSUME NEW u \in Tenants, NEW d \in Children,
                    NEW v \in Versions(child'[u][d]),
                    v.obj # None, v.obj.asDesired
             PROVE  [name |-> u, kind |-> d, obj |-> v.obj] \in applied'
  BY DEF AppliedAsDesired
<1>1. CASE v \in Versions(child[u][d])
  BY <1>1 DEF IInv, AppliedAsDesired
<1> QED
  BY <1>1

\* The first state satisfies the invariant.
LEMMA IndInit == Init => IInv
<1> SUFFICES ASSUME Init PROVE IInv
  OBVIOUS
<1>1. \A t \in Tenants : Coherent(tenant[t])
  BY DEF Init, InitialReplica, Coherent, Versions
<1>2. AppliedAsDesired
  BY DEF Init, InitialReplica, AppliedAsDesired, Versions
<1>3. WorkerApplied
  BY DEF Init, Idle, WorkerApplied
<1> QED
  BY <1>1, <1>2, <1>3, TypeInit DEF Init, IInv

\* The five outcomes of the status write.
StatusWrite ==
    \/ UpdateStatusSkipped \/ UpdateStatusStored \/ UpdateStatusRefused
    \/ UpdateStatusLost \/ UpdateStatusTimesOut

\* It ends the Reconcile, and stores the status next to the spec of the copy
\* or not at all.
LEMMA StatusStep ==
    ASSUME IInv, StatusWrite
    PROVE  /\ worker.pc = "status"
           /\ worker # Idle
           /\ worker.key \in Tenants
           /\ worker' = Idle
           /\ delayed' \subseteq Tenants
           /\ budget' \in [Kinds -> Nat]
           /\ UNCHANGED <<child, queue, applied>>
           /\ \/ tenant' = tenant
              \/ LET o == worker.copy.obj
                     p == [o EXCEPT !.status = newStatus]
                 IN  /\ o = tenant[worker.key].cur.obj
                     /\ o \in TenantObject
                     /\ p \in TenantObject
                     /\ tenant' = [tenant EXCEPT ![worker.key] =
                                      Put(tenant[worker.key], p)]
<1>0. TypeOK
  BY DEF IInv
<1>1. worker.pc = "status"
  BY DEF StatusWrite, UpdateStatusSkipped, UpdateStatusStored,
     UpdateStatusRefused, UpdateStatusLost, UpdateStatusTimesOut, Writes
<1>2. worker # Idle
  BY <1>1, BusyAt
<1>3. /\ worker.key \in Tenants /\ worker.copy.obj \in TenantObject
      /\ newStatus \in TenantStatus
  BY <1>0, <1>2, WorkerBusy, NewStatusType
<1>4. \E err \in BOOLEAN : Return(err)
  BY DEF StatusWrite, UpdateStatusSkipped, UpdateStatusStored,
     UpdateStatusRefused, UpdateStatusLost, UpdateStatusTimesOut, anyErr,
     nsErr, quotaErr, saErr, rbacErr, npErr
<1>5. worker' = Idle /\ delayed' \subseteq Tenants
  BY <1>0, <1>3, <1>4 DEF Return, TypeOK
<1>6. budget' \in [Kinds -> Nat]
  <2>1. CASE budget' = budget
    BY <1>0, <2>1 DEF TypeOK
  <2>2. CASE Spend("fault")
    BY <1>0, <2>2, TypeSpend DEF Kinds
  <2> QED
    BY <2>1, <2>2 DEF StatusWrite, UpdateStatusSkipped, UpdateStatusStored,
       UpdateStatusRefused, UpdateStatusLost, UpdateStatusTimesOut
<1>7. UNCHANGED <<child, queue, applied>>
  BY DEF StatusWrite, UpdateStatusSkipped, UpdateStatusStored,
     UpdateStatusRefused, UpdateStatusLost, UpdateStatusTimesOut
<1>8. CASE Accepts /\ StoreStatus
  <2>1. worker.copy = tenant[worker.key].cur
    BY <1>2, <1>8 DEF IInv, CopyCoherent, Accepts
  <2>2. tenant' = [tenant EXCEPT ![worker.key] =
                      Put(tenant[worker.key],
                          [tenant[worker.key].cur.obj EXCEPT !.status = newStatus])]
    BY <1>0, <1>3, <1>8 DEF StoreStatus, TypeOK
  <2>3. [worker.copy.obj EXCEPT !.status = newStatus] \in TenantObject
    BY <1>3 DEF TenantObject
  <2> QED
    BY <1>1, <1>2, <1>3, <1>5, <1>6, <1>7, <2>1, <2>2, <2>3
<1>9. CASE tenant' = tenant
  BY <1>1, <1>2, <1>3, <1>5, <1>6, <1>7, <1>9
<1> QED
  BY <1>8, <1>9 DEF StatusWrite, UpdateStatusSkipped, UpdateStatusStored,
     UpdateStatusRefused, UpdateStatusLost, UpdateStatusTimesOut

\* Every step preserves it.
LEMMA IndNext == IInv /\ [Next]_vars => IInv'
<1> SUFFICES ASSUME IInv, [Next]_vars PROVE IInv'
  OBVIOUS
<1>0. TypeOK
  BY DEF IInv
<1>1. ASSUME NEW t \in Tenants, UserStep(t) PROVE IInv'
  <2>1. PICK o \in TenantObject \cup {None} :
           tenant' = [tenant EXCEPT ![t] = Put(tenant[t], o)]
    BY <1>0, <1>1, UserPuts
  <2>2. /\ budget' \in [Kinds -> Nat]
        /\ UNCHANGED <<child, queue, delayed, worker, applied>>
    BY <1>0, <1>1, UserPuts
  <2>3. TypeOK'
    BY <1>0, <2>1, <2>2, TypePut DEF TypeOK, Idle
  <2>4. /\ \A u \in Tenants : Coherent(tenant'[u])
        /\ worker # Idle => CopyCoherent(worker.copy, tenant'[worker.key].cur)
    BY <2>1, CoherentPut
  <2>5. (AppliedAsDesired /\ WorkerApplied)'
    BY <2>2 DEF IInv, AppliedAsDesired, WorkerApplied
  <2> QED
    BY <2>2, <2>3, <2>4, <2>5 DEF IInv
<1>2. ASSUME NEW t \in Tenants, DriftStep(t) PROVE IInv'
  <2>1. /\ child' \in [Tenants -> [Children -> Replica(Child)]]
        /\ \A u \in Tenants, d \in Children : \A v \in Versions(child'[u][d]) :
              v \in Versions(child[u][d]) \/ v.obj = None \/ ~v.obj.asDesired
        /\ budget' \in [Kinds -> Nat]
        /\ UNCHANGED <<tenant, queue, delayed, worker, applied>>
    BY <1>0, <1>2, DriftKeeps
  <2>2. TypeOK'
    BY <1>0, <2>1 DEF TypeOK, Idle
  <2>3. AppliedAsDesired'
    BY <2>1, AppliedKept
  <2>4. WorkerApplied'
    BY <2>1 DEF IInv, WorkerApplied
  <2> QED
    BY <2>1, <2>2, <2>3, <2>4 DEF IInv
<1>3. ASSUME NEW t \in Tenants, DeliverTenant(t) PROVE IInv'
  <2>1. PICK v \in tenant[t].watch : tenant' = [tenant EXCEPT ![t] = Deliver(tenant[t], v)]
    BY <1>0, <1>3 DEF DeliverTenant, TypeOK
  <2>2. /\ queue' = queue \cup {t}
        /\ UNCHANGED <<child, delayed, worker, budget, applied>>
    BY <1>3 DEF DeliverTenant
  <2>3. /\ Deliver(tenant[t], v) \in Replica(TenantObject)
        /\ Deliver(tenant[t], v).cur = tenant[t].cur
        /\ Coherent(Deliver(tenant[t], v))
    BY <1>0, TenantVersions, DeliverType, DeliverVersions DEF IInv
  <2>4. /\ tenant' \in [Tenants -> Replica(TenantObject)]
        /\ \A u \in Tenants : tenant'[u].cur = tenant[u].cur /\ Coherent(tenant'[u])
    BY <1>0, <2>1, <2>3 DEF IInv, TypeOK
  <2>5. TypeOK'
    BY <1>0, <2>2, <2>4 DEF TypeOK, Idle
  <2>6. (AppliedAsDesired /\ WorkerApplied)'
    BY <2>2 DEF IInv, AppliedAsDesired, WorkerApplied
  <2> QED
    BY <1>0, <2>2, <2>4, <2>5, <2>6, WorkerBusy DEF IInv
<1>4. ASSUME NEW t \in Tenants, TimerFires(t) \/ Resync(t) PROVE IInv'
  <2>1. /\ queue' \subseteq Tenants /\ delayed' \subseteq Tenants
        /\ UNCHANGED <<tenant, child, worker, budget, applied>>
    BY <1>0, <1>4 DEF TimerFires, Resync, TypeOK
  <2>2. TypeOK'
    BY <1>0, <2>1 DEF TypeOK, Idle
  <2> QED
    BY <2>1, <2>2 DEF IInv, AppliedAsDesired, WorkerApplied
<1>5. ASSUME NEW t \in Tenants, Get(t) PROVE IInv'
  <2>1. /\ queue' \subseteq Tenants
        /\ UNCHANGED <<tenant, child, delayed, budget, applied>>
    BY <1>0, <1>5 DEF Get, TypeOK
  <2>2. CASE worker' = Idle
    <3>1. TypeOK'
      BY <1>0, <2>1, <2>2, IdleType DEF TypeOK, Idle
    <3>2. WorkerApplied'
      BY <2>2 DEF WorkerApplied, Idle
    <3> QED
      BY <2>1, <2>2, <3>1, <3>2 DEF IInv, AppliedAsDesired
  <2>3. CASE /\ tenant[t].cache.obj # None
             /\ worker' = [Idle EXCEPT !.pc = "namespace", !.key = t,
                                       !.copy = tenant[t].cache]
    <3>1. /\ worker' = [pc |-> "namespace", key |-> t, copy |-> tenant[t].cache,
                        failed |-> {}]
      BY <2>3 DEF Idle
    <3>2. tenant[t].cache \in Version(TenantObject)
      BY <1>0, TenantVersions
    <3>3. worker' \in Worker /\ worker'.key # None /\ worker'.copy.obj # None
      <4>1. t # None /\ tenant[t].cache.obj # None
        BY <2>3, TenantAssumption
      <4>2. "namespace" \in Children /\ {} \in SUBSET Children
        BY DEF Children
      <4>3. worker' \in Worker
        BY <3>1, <3>2, <4>2 DEF Worker
      <4> QED
        BY <3>1, <4>1, <4>3
    <3>4. TypeOK'
      BY <1>0, <2>1, <3>3 DEF TypeOK, Idle
    <3>5. WorkerApplied'
      BY <3>1 DEF WorkerApplied, Passed
    <3>6. CopyCoherent(tenant[t].cache, tenant[t].cur)
      BY DEF IInv, Coherent, CopyCoherent, Versions
    <3> QED
      BY <2>1, <3>1, <3>4, <3>5, <3>6 DEF IInv, AppliedAsDesired
  <2> QED
    BY <1>5, <2>2, <2>3 DEF Get
<1>6. ASSUME Call PROVE IInv'
  <2>1. /\ Provisioning /\ CallEffect
        /\ budget' \in [Kinds -> Nat]
        /\ UNCHANGED <<tenant, queue, delayed>>
    BY <1>6, CallStep
  <2>2. PICK err \in BOOLEAN :
           /\ Step(err)
           /\ ~err => [name |-> worker.key, kind |-> worker.pc, obj |-> desired]
                         \in applied'
    BY <1>6, CallStep
  <2>3. /\ worker' \in Worker
        /\ worker'.key = worker.key
        /\ worker'.copy = worker.copy
        /\ worker'.pc = After(worker.pc, err)
        /\ err => worker'.failed # {}
        /\ ~err => worker'.failed = worker.failed
    BY <1>0, <2>1, <2>2, StepType
  <2>4. worker # Idle /\ worker.pc \in Children /\ worker.key \in Tenants
    BY <1>0, <2>1, AtChild
  <2>5. TypeOK'
    BY <1>0, <2>1, <2>3, <2>4 DEF TypeOK, CallEffect, Idle
  <2>6. AppliedAsDesired'
    BY <2>1, AppliedKept DEF CallEffect
  <2>7. WorkerApplied'
    <3>1. SUFFICES ASSUME worker'.failed = {}, NEW d \in Passed(worker'.pc)
                   PROVE  [name |-> worker'.key, kind |-> d,
                           obj |-> Desired(d, worker'.copy.obj.quota)] \in applied'
      BY DEF WorkerApplied
    <3>2. ~err /\ worker.failed = {}
      BY <2>3, <3>1
    <3>3. d \in Passed(worker.pc) \/ d = worker.pc
      BY <2>3, <2>4, <3>1, <3>2, AfterCall
    <3>4. CASE d \in Passed(worker.pc)
      <4>1. worker.pc # "idle"
        BY <2>4 DEF Children
      <4> QED
        BY <2>1, <2>3, <3>2, <3>4, <4>1 DEF IInv, WorkerApplied, CallEffect
    <3>5. CASE d = worker.pc
      BY <2>2, <2>3, <3>2, <3>5 DEF desired
    <3> QED
      BY <3>3, <3>4, <3>5
  <2>8. \A u \in Tenants : Coherent(tenant'[u])
    BY <2>1 DEF IInv
  <2>9. CopyCoherent(worker'.copy, tenant'[worker'.key].cur)
    BY <2>1, <2>3, <2>4 DEF IInv
  <2> QED
    BY <2>5, <2>6, <2>7, <2>8, <2>9 DEF IInv
<1>7. ASSUME StatusWrite PROVE IInv'
  <2>1. /\ worker' = Idle /\ worker.key \in Tenants
        /\ delayed' \subseteq Tenants
        /\ budget' \in [Kinds -> Nat]
        /\ UNCHANGED <<child, queue, applied>>
    BY <1>7, StatusStep
  <2>2. /\ tenant' \in [Tenants -> Replica(TenantObject)]
        /\ \A u \in Tenants : Coherent(tenant'[u])
    <3>1. CASE tenant' = tenant
      BY <1>0, <3>1 DEF IInv, TypeOK
    <3>2. CASE \E p \in TenantObject \cup {None} :
                  tenant' = [tenant EXCEPT ![worker.key] = Put(tenant[worker.key], p)]
      BY <1>0, <2>1, <3>2, TypePut, CoherentPut
    <3> QED
      BY <1>7, <3>1, <3>2, StatusStep
  <2>3. TypeOK'
    BY <1>0, <2>1, <2>2, IdleType DEF TypeOK, Idle
  <2>4. WorkerApplied'
    BY <2>1 DEF WorkerApplied, Idle
  <2>5. AppliedAsDesired'
    BY <2>1 DEF IInv, AppliedAsDesired
  <2> QED
    BY <2>1, <2>2, <2>3, <2>4, <2>5 DEF IInv
<1>8. ASSUME Restart PROVE IInv'
  <2>1. budget' \in [Kinds -> Nat]
    BY <1>0, <1>8, TypeSpend DEF Restart, Kinds
  <2>2. /\ tenant' \in [Tenants -> Replica(TenantObject)]
        /\ \A u \in Tenants : Coherent(tenant'[u])
    BY <1>0, <1>8, TenantVersions, RelistType, RelistVersions DEF Restart, IInv
  <2>3. child' \in [Tenants -> [Children -> Replica(Child)]]
    BY <1>0, <1>8, ChildVersions, RelistType DEF Restart
  <2>4. \A u \in Tenants, d \in Children :
           Versions(child'[u][d]) \subseteq Versions(child[u][d])
    BY <1>0, <1>8, ChildVersions, RelistVersions DEF Restart
  <2>5. /\ worker' = Idle /\ applied' = applied
        /\ queue' \subseteq Tenants /\ delayed' = {}
    BY <1>8 DEF Restart
  <2>6. TypeOK'
    BY <1>0, <2>1, <2>2, <2>3, <2>5, IdleType DEF TypeOK, Idle
  <2>7. AppliedAsDesired'
    BY <2>4, <2>5, AppliedKept
  <2>8. WorkerApplied'
    BY <2>5 DEF WorkerApplied, Idle
  <2> QED
    BY <2>2, <2>5, <2>6, <2>7, <2>8 DEF IInv
<1>9. ASSUME NEW t \in Tenants, FirstGetFails(t) PROVE IInv'
  <2>1. /\ queue' \subseteq Tenants /\ delayed' \subseteq Tenants
        /\ UNCHANGED <<tenant, child, worker, applied>>
    BY <1>0, <1>9 DEF FirstGetFails, TypeOK
  <2>2. budget' \in [Kinds -> Nat]
    BY <1>0, <1>9, TypeSpend DEF FirstGetFails, Kinds
  <2>3. TypeOK'
    BY <1>0, <2>1, <2>2 DEF TypeOK, Idle
  <2> QED
    BY <2>1, <2>3 DEF IInv, AppliedAsDesired, WorkerApplied
<1>10. CASE UNCHANGED vars
  <2>1. TypeOK'
    BY <1>0, <1>10 DEF vars, TypeOK, Idle
  <2> QED
    BY <1>10, <2>1 DEF vars, IInv, AppliedAsDesired, WorkerApplied
<1> QED
  BY <1>1, <1>2, <1>3, <1>4, <1>5, <1>6, <1>7, <1>8, <1>9, <1>10
  DEF Next, UserStep, DriftStep, Reconcile, Failure, Call, StatusWrite

\* IInv holds in every reachable state of the Tenant controller.
THEOREM Inductive == Spec => []IInv
BY IndInit, IndNext, PTL DEF Spec

\* The Tenants, their objects, the queues and the Reconcile in progress are
\* well formed; a Reconcile past its first Get has an object in its hands.
THEOREM TypeCorrect == Spec => []TypeOK
<1>1. IInv => TypeOK
  BY DEF IInv
<1> QED
  BY <1>1, Inductive, PTL

-----------------------------------------------------------------------------
(* ReadyMeansProvisioned.                                                  *)

\* A step that makes a Tenant Ready is the status write of a Reconcile that
\* has been through every object without an error.
LEMMA ReadyNext == IInv /\ [Next]_vars => ReadyStep
<1> SUFFICES ASSUME IInv, [Next]_vars, NEW t \in Tenants,
                    tenant'[t].cur.obj # None,
                    tenant'[t].cur.obj.status.phase = "Ready",
                    tenant[t].cur.obj # None =>
                       tenant[t].cur.obj.status.phase # "Ready",
                    NEW c \in Children
             PROVE  [name |-> t, kind |-> c,
                     obj |-> Desired(c, tenant'[t].cur.obj.quota)] \in applied'
  BY DEF ReadyStep
<1>0. TypeOK
  BY DEF IInv
<1>1. tenant'[t].cur # tenant[t].cur
  OBVIOUS
<1>2. ASSUME NEW u \in Tenants, NEW q \in Quotas, CreateTenant(u, q) PROVE FALSE
  <2>1. tenant' = [tenant EXCEPT ![u] =
                      Put(tenant[u], [uid |-> tenant[u].cur.rv + 1, quota |-> q,
                                      status |-> NewTenantStatus])]
    BY <1>0, <1>2 DEF CreateTenant, TypeOK
  <2>2. u = t
    BY <1>0, <1>1, <2>1 DEF TypeOK
  <2>3. tenant'[t].cur.obj.status = NewTenantStatus
    BY <1>0, <2>1, <2>2 DEF TypeOK, Put
  <2>4. NewTenantStatus.phase = ""
    BY DEF NewTenantStatus
  <2> QED
    BY <2>3, <2>4
<1>3. ASSUME NEW u \in Tenants, NEW q \in Quotas, UpdateTenant(u, q) PROVE FALSE
  <2>1. /\ tenant[u].cur.obj \in TenantObject
        /\ tenant' = [tenant EXCEPT ![u] =
                         Put(tenant[u], [tenant[u].cur.obj EXCEPT !.quota = q])]
    BY <1>0, <1>3, TenantVersions DEF UpdateTenant, TypeOK
  <2>2. u = t
    BY <1>0, <1>1, <2>1 DEF TypeOK
  <2>3. tenant'[t].cur.obj = [tenant[t].cur.obj EXCEPT !.quota = q]
    BY <1>0, <2>1, <2>2 DEF TypeOK, Put
  <2>4. tenant'[t].cur.obj.status = tenant[t].cur.obj.status
    BY <2>1, <2>2, <2>3 DEF TenantObject
  <2> QED
    BY <1>3, <2>2, <2>4 DEF UpdateTenant
<1>4. ASSUME NEW u \in Tenants, DeleteTenant(u) PROVE FALSE
  <2>1. tenant' = [tenant EXCEPT ![u] = Put(tenant[u], None)]
    BY <1>0, <1>4 DEF DeleteTenant, TypeOK
  <2>2. u = t
    BY <1>0, <1>1, <2>1 DEF TypeOK
  <2> QED
    BY <1>0, <2>1, <2>2 DEF TypeOK, Put
<1>5. ASSUME NEW u \in Tenants, DeliverTenant(u) PROVE FALSE
  <2>1. PICK v \in tenant[u].watch : tenant' = [tenant EXCEPT ![u] = Deliver(tenant[u], v)]
    BY <1>0, <1>5 DEF DeliverTenant, TypeOK
  <2>2. Deliver(tenant[u], v).cur = tenant[u].cur
    BY DEF Deliver
  <2> QED
    BY <1>0, <1>1, <2>1, <2>2 DEF TypeOK
<1>6. ASSUME Restart PROVE FALSE
  BY <1>1, <1>6 DEF Restart, Relist
<1>7. ASSUME StatusWrite
      PROVE  [name |-> t, kind |-> c,
              obj |-> Desired(c, tenant'[t].cur.obj.quota)] \in applied'
  <2> DEFINE o == worker.copy.obj
             p == [o EXCEPT !.status = newStatus]
  <2>1. /\ worker.pc = "status" /\ worker # Idle /\ applied' = applied
        /\ worker.key \in Tenants
    BY <1>7, StatusStep
  <2>2. /\ o \in TenantObject
        /\ tenant' = [tenant EXCEPT ![worker.key] = Put(tenant[worker.key], p)]
    BY <1>1, <1>7, StatusStep
  <2>3. worker.key = t
    BY <1>0, <1>1, <2>2 DEF TypeOK
  <2>4. p.status = newStatus /\ p.quota = o.quota
    BY <2>2 DEF TenantObject
  <2> HIDE DEF p
  <2>5. tenant'[t].cur.obj = p
    BY <1>0, <2>2, <2>3 DEF TypeOK, Put
  <2>6. worker.failed = {}
    BY <1>0, <2>1, <2>4, <2>5, NewStatusType
  <2>7. c \in Passed(worker.pc)
    BY <2>1 DEF Passed
  <2>8. [name |-> worker.key, kind |-> c, obj |-> Desired(c, o.quota)] \in applied
    BY <2>1, <2>6, <2>7 DEF IInv, WorkerApplied
  <2> QED
    BY <2>1, <2>3, <2>4, <2>5, <2>8
<1>8. ASSUME tenant' = tenant PROVE FALSE
  BY <1>1, <1>8
<1>9. ASSUME Call PROVE FALSE
  BY <1>8, <1>9, CallStep
<1>10. ASSUME NEW u \in Tenants,
              \/ DriftStep(u) \/ TimerFires(u) \/ Resync(u)
              \/ Get(u) \/ FirstGetFails(u)
       PROVE  FALSE
  BY <1>0, <1>8, <1>10, DriftKeeps DEF TimerFires, Resync, Get, FirstGetFails
<1>11. CASE UNCHANGED vars
  BY <1>8, <1>11 DEF vars
<1> QED
  BY <1>2, <1>3, <1>4, <1>5, <1>6, <1>7, <1>9, <1>10, <1>11
  DEF Next, DriftStep, Reconcile, Failure, Call, StatusWrite

\* A Tenant becomes Ready only after every one of its objects has been stored
\* as the spec next to that status calls for, whatever the caches showed,
\* whichever calls failed and whoever edited the Tenant or its objects.
THEOREM ReadyIsProvisioned == Spec => ReadyMeansProvisioned
BY ReadyNext, Inductive, PTL DEF Spec, ReadyMeansProvisioned
=============================================================================
