--------------------------- MODULE TenantController ---------------------------
(***************************************************************************)
(* internal/controller/tenant_controller.go and controller_helpers.go: the *)
(* namespace of a Tenant and the objects provisioned in it.                *)
(*                                                                         *)
(* controllerutil.CreateOrUpdate reads the cache, applies the mutate       *)
(* function and then creates, updates or does nothing.  It is one step     *)
(* here: what happens between the read and the write may as well happen    *)
(* before a read that lags.  No handler follows the provisioned objects    *)
(* and only CreateOrUpdate reads their caches, so what the watch has       *)
(* brought so far is decided when an object is read, and the reads that    *)
(* lag are counted like the other events.                                  *)
(***************************************************************************)
EXTENDS WatchedObject

CONSTANTS
    Tenants,    \* names of Tenants; also the names of their namespaces
    Quotas,     \* the spec.resourceQuota values users write
    Budgets     \* how often each event outside the controller may happen:
                \* one function from Kinds for each course of events

\* The objects of a namespace, and the namespace itself.
Children == {"namespace", "quota", "serviceaccount", "role", "binding",
             "networkpolicy"}

\* The CRD's patterns admit only what ParseQuantity takes; pods and jobs are
\* optional.
TenantResourceQuota ==
    [cpu : Nat, memory : Nat, gpu : Nat, pods : Nat \cup {None},
     jobs : Nat \cup {None}]

HardLimits == {"cpu", "memory", "nvidia.com/gpu", "pods", "count/jobs.batch"}

\* None: no such limit in the list.
Hard == [HardLimits -> Nat \cup {None}]

\* asDesired: labels, rules, subjects and peers are what the mutate function
\* sets.  hard: the limits of the ResourceQuota.  otherRole: a RoleBinding
\* whose roleRef, which no update can change, is not the tenant's Role.
Child == [asDesired : BOOLEAN, hard : Hard \cup {None}, otherRole : BOOLEAN]

TenantConditions == {"NamespaceReady", "QuotaApplied", "ServiceAccountReady",
                     "RBACReady", "NetworkPolicyReady", "Accepted", "Ready"}

TenantStatus == [conditions : [TenantConditions -> ConditionStatus],
                 phase      : {"", "Pending", "Ready"}]

TenantObject == [uid : Nat, quota : TenantResourceQuota, status : TenantStatus]

NewTenantStatus == [conditions |-> [t \in TenantConditions |-> "Absent"],
                    phase      |-> ""]

\* "resync" is not counted: 0 if the period of the resync does not pass.
Kinds == {"create", "update", "delete", "drift", "lag", "fault",
          "restart", "resync"}

ASSUME TenantAssumption ==
    /\ None \notin TenantObject
    /\ None \notin Child
    /\ None \notin Hard
    /\ None \notin Nat
    /\ None \notin Tenants
    /\ Quotas \subseteq TenantResourceQuota
    /\ Budgets \subseteq [Kinds -> Nat]

VARIABLES
    tenant,     \* the Tenants, by name
    child,      \* the objects of each Tenant, by name and kind
    queue,      \* the controller's work queue
    delayed,    \* keys waiting for the rate limiter
    worker,     \* the Reconcile call in progress
    budget,     \* events left
    applied     \* history: every [name, kind, obj] the controller stored

vars == <<tenant, child, queue, delayed, worker, budget, applied>>

\* pc: the child to be reconciled next.  failed: the children whose
\* CreateOrUpdate has returned an error.
Worker == [pc     : Children \cup {"idle", "status"},
           key    : Tenants \cup {None},
           copy   : Version(TenantObject),
           failed : SUBSET Children]

Idle == [pc |-> "idle", key |-> None, copy |-> [rv |-> 0, obj |-> None],
         failed |-> {}]

Init ==
    /\ tenant = [t \in Tenants |-> InitialReplica(None)]
    /\ child = [t \in Tenants |-> [c \in Children |-> InitialReplica(None)]]
    /\ queue = {}
    /\ delayed = {}
    /\ worker = Idle
    /\ budget \in Budgets
    /\ applied = {}

Spend(kind) ==
    /\ budget[kind] > 0
    /\ budget' = [budget EXCEPT ![kind] = @ - 1]

-----------------------------------------------------------------------------
(* Users, informers and timers.  Only Tenants feed the work queue.         *)

CreateTenant(t, q) ==
    /\ tenant[t].cur.obj = None
    /\ Spend("create")
    /\ tenant' = [tenant EXCEPT ![t] =
                   Put(@, [uid |-> @.cur.rv + 1, quota |-> q,
                           status |-> NewTenantStatus])]
    /\ UNCHANGED <<child, queue, delayed, worker, applied>>

UpdateTenant(t, q) ==
    /\ tenant[t].cur.obj # None
    /\ Spend("update")
    /\ tenant' = [tenant EXCEPT ![t] = Put(@, [@.cur.obj EXCEPT !.quota = q])]
    /\ UNCHANGED <<child, queue, delayed, worker, applied>>

\* Nothing the Tenant had refers to it as an owner: its namespace stays.
DeleteTenant(t) ==
    /\ tenant[t].cur.obj # None
    /\ Spend("delete")
    /\ tenant' = [tenant EXCEPT ![t] = Put(@, None)]
    /\ UNCHANGED <<child, queue, delayed, worker, applied>>

\* Someone edits a mutable field the controller looks after.
DriftChild(t, c) ==
    /\ child[t][c].cur.obj # None
    /\ child[t][c].cur.obj.asDesired
    /\ Spend("drift")
    /\ child' = [child EXCEPT ![t][c] =
                  Put(@, [@.cur.obj EXCEPT !.asDesired = FALSE])]
    /\ UNCHANGED <<tenant, queue, delayed, worker, applied>>

\* Someone puts a RoleBinding of the same name, for another role, in its place.
ReplaceBinding(t) ==
    /\ child[t]["namespace"].cur.obj # None
    /\ Spend("drift")
    /\ child' = [child EXCEPT ![t]["binding"] =
                  Put(@, [asDesired |-> FALSE, hard |-> None,
                          otherRole |-> TRUE])]
    /\ UNCHANGED <<tenant, queue, delayed, worker, applied>>

\* With a namespace everything in it is deleted.  (While it terminates,
\* creations in it are refused: to the controller those are lost calls.)
DeleteChild(t, c) ==
    /\ child[t][c].cur.obj # None
    /\ Spend("drift")
    /\ child' = [child EXCEPT ![t] =
                  [d \in Children |->
                      IF d = c \/ (c = "namespace" /\ @[d].cur.obj # None)
                      THEN Put(@[d], None) ELSE @[d]]]
    /\ UNCHANGED <<tenant, queue, delayed, worker, applied>>

DeliverTenant(t) ==
    \E v \in tenant[t].watch :
        /\ tenant' = [tenant EXCEPT ![t] = Deliver(@, v)]
        /\ queue' = queue \cup {t}
        /\ UNCHANGED <<child, delayed, worker, budget, applied>>

TimerFires(t) ==
    /\ t \in delayed
    /\ delayed' = delayed \ {t}
    /\ queue' = queue \cup {t}
    /\ UNCHANGED <<tenant, child, worker, budget, applied>>

Resync(t) ==
    /\ budget["resync"] > 0
    /\ tenant[t].cache.obj # None
    /\ queue' = queue \cup {t}
    /\ UNCHANGED <<tenant, child, delayed, worker, budget, applied>>

-----------------------------------------------------------------------------
(* Reconcile                                                               *)

\* Mutant: NotFound is not returned early.
GetIgnoringNotFound(t) ==
    /\ worker = Idle
    /\ t \in queue
    /\ queue' = queue \ {t}
    /\ worker' = [Idle EXCEPT !.pc = "namespace", !.key = t,
                              !.copy = tenant[t].cache]
    /\ UNCHANGED <<tenant, child, delayed, budget, applied>>

Get(t) ==
    /\ worker = Idle
    /\ t \in queue
    /\ queue' = queue \ {t}
    /\ worker' = IF tenant[t].cache.obj = None
                 THEN Idle
                 ELSE [Idle EXCEPT !.pc = "namespace", !.key = t,
                                   !.copy = tenant[t].cache]
    /\ UNCHANGED <<tenant, child, delayed, budget, applied>>

\* The read of the Tenant fails with anything but NotFound.
FirstGetFails(t) ==
    /\ worker = Idle
    /\ t \in queue
    /\ Spend("fault")
    /\ queue' = queue \ {t}
    /\ delayed' = delayed \cup {t}
    /\ UNCHANGED <<tenant, child, worker, applied>>

buildQuotaResourceList(q) ==
    [r \in HardLimits |-> CASE r = "cpu"            -> q.cpu
                            [] r = "memory"         -> q.memory
                            [] r = "nvidia.com/gpu" -> q.gpu
                            [] r = "pods"           -> q.pods
                            [] OTHER                -> q.jobs]

\* The object c after its mutate function.
Desired(c, q) ==
    [asDesired |-> TRUE,
     hard      |-> IF c = "quota" THEN buildQuotaResourceList(q) ELSE None,
     otherRole |-> FALSE]

\* Reconcile's next call.  A Role that fails spares the RoleBinding; a
\* namespace or a quota that fails ends the provisioning.
After(c, err) ==
    CASE c = "namespace"      -> IF err THEN "status" ELSE "quota"
      [] c = "quota"          -> IF err THEN "status" ELSE "serviceaccount"
      [] c = "serviceaccount" -> "role"
      [] c = "role"           -> IF err THEN "networkpolicy" ELSE "binding"
      [] c = "binding"        -> "networkpolicy"
      [] OTHER                -> "status"

Step(err) ==
    worker' = [worker EXCEPT
                  !.pc = After(worker.pc, err),
                  !.failed = IF err THEN @ \cup {worker.pc} ELSE @]

Provisioning == worker.pc \in Children

here == child[worker.key][worker.pc]

desired == Desired(worker.pc, worker.copy.obj.quota)

\* CreateOrUpdate reads version v of the object.
Look(v) ==
    \/ /\ v = here.cur
       /\ UNCHANGED budget
    \/ /\ v \in Versions(here) \ {here.cur}
       /\ Spend("lag")

\* Mutant: an object that exists is left as it is.
UpToDateIfPresent(v) == v.obj # None

\* CreateOrUpdate finds nothing to change.
UpToDate(v) == v.obj = desired

\* The API server takes the create or the update.
Applies(v) ==
    IF v.obj = None
    THEN /\ here.cur.obj = None
         /\ \/ worker.pc = "namespace"
            \/ child[worker.key]["namespace"].cur.obj # None
    ELSE /\ here.cur.obj # None
         /\ here.cur.rv = v.rv
         /\ ~here.cur.obj.otherRole

SetChild(r) == child' = [child EXCEPT ![worker.key][worker.pc] = r]

StoreChild(v) ==
    /\ SetChild(Put(Deliver(here, v), desired))
    /\ applied' = applied \cup {[name |-> worker.key, kind |-> worker.pc,
                                 obj |-> desired]}

ChildUpToDate(v) ==
    /\ Look(v)
    /\ UpToDate(v)
    /\ SetChild(Deliver(here, v))
    /\ Step(FALSE)
    /\ UNCHANGED <<tenant, queue, delayed, applied>>

ChildStored(v) ==
    /\ Look(v)
    /\ ~UpToDate(v)
    /\ Applies(v)
    /\ StoreChild(v)
    /\ Step(FALSE)
    /\ UNCHANGED <<tenant, queue, delayed>>

\* AlreadyExists, Conflict, NotFound (the object, or its namespace), or
\* Invalid (the roleRef would change).
ChildRefused(v) ==
    /\ Look(v)
    /\ ~UpToDate(v)
    /\ ~Applies(v)
    /\ SetChild(Deliver(here, v))
    /\ Step(TRUE)
    /\ UNCHANGED <<tenant, queue, delayed, applied>>

\* The read fails, or the write fails on its way to the API server.
ChildLost ==
    /\ Provisioning
    /\ Spend("fault")
    /\ Step(TRUE)
    /\ UNCHANGED <<tenant, child, queue, delayed, applied>>

\* The object is stored, and the answer is lost.
ChildTimesOut ==
    /\ Provisioning
    /\ ~UpToDate(here.cur)
    /\ Applies(here.cur)
    /\ Spend("fault")
    /\ StoreChild(here.cur)
    /\ Step(TRUE)
    /\ UNCHANGED <<tenant, queue, delayed>>

-----------------------------------------------------------------------------
(* updateStatus, and the end of Reconcile.                                 *)

nsErr    == "namespace" \in worker.failed
quotaErr == "quota" \in worker.failed
saErr    == "serviceaccount" \in worker.failed
rbacErr  == worker.failed \cap {"role", "binding"} # {}
npErr    == "networkpolicy" \in worker.failed

\* Mutant: the errors of the last three objects do not count.
anyErrSoFar == nsErr \/ quotaErr

anyErr == nsErr \/ quotaErr \/ saErr \/ rbacErr \/ npErr

newConditions ==
    LET old == worker.copy.obj.status.conditions
        c1  == SetCond(old, "NamespaceReady", nsErr)
        c2  == SetCond(c1, "QuotaApplied", quotaErr)
        c3  == SetCond(c2, "ServiceAccountReady", saErr)
        c4  == SetCond(c3, "RBACReady", rbacErr)
        c5  == SetCond(c4, "NetworkPolicyReady", npErr)
        c6  == SetCond(c5, "Accepted", FALSE)
    IN  SetCond(c6, "Ready", anyErr)

newStatus == [conditions |-> newConditions,
              phase      |-> IF anyErr THEN "Pending" ELSE "Ready"]

Writes ==
    /\ worker.pc = "status"
    /\ newStatus # worker.copy.obj.status

\* Mutant: a status write without the resourceVersion it was read at.
AcceptsAnyVersion == tenant[worker.key].cur.obj # None

Accepts ==
    /\ tenant[worker.key].cur.obj # None
    /\ tenant[worker.key].cur.rv = worker.copy.rv

StoreStatus ==
    tenant' = [tenant EXCEPT ![worker.key] =
                Put(@, [@.cur.obj EXCEPT !.status = newStatus])]

\* Mutant: a failed namespace or quota is reported and not retried.
ReturnReported(err) ==
    /\ worker' = Idle
    /\ delayed' = IF err /\ ~nsErr /\ ~quotaErr
                  THEN delayed \cup {worker.key} ELSE delayed

\* Reconcile returns: with an error the key comes back later.
Return(err) ==
    /\ worker' = Idle
    /\ delayed' = IF err THEN delayed \cup {worker.key} ELSE delayed

UpdateStatusSkipped ==
    /\ worker.pc = "status"
    /\ ~Writes
    /\ Return(anyErr)
    /\ UNCHANGED <<tenant, child, queue, budget, applied>>

UpdateStatusStored ==
    /\ Writes
    /\ Accepts
    /\ StoreStatus
    /\ Return(anyErr)
    /\ UNCHANGED <<child, queue, budget, applied>>

\* Conflict, or NotFound.
UpdateStatusRefused ==
    /\ Writes
    /\ ~Accepts
    /\ Return(TRUE)
    /\ UNCHANGED <<tenant, child, queue, budget, applied>>

UpdateStatusLost ==
    /\ Writes
    /\ Spend("fault")
    /\ Return(TRUE)
    /\ UNCHANGED <<tenant, child, queue, applied>>

\* The status is stored, and the answer is lost.
UpdateStatusTimesOut ==
    /\ Writes
    /\ Accepts
    /\ Spend("fault")
    /\ StoreStatus
    /\ Return(TRUE)
    /\ UNCHANGED <<child, queue, applied>>

\* The process dies and its successor fills its caches with lists.
Restart ==
    /\ Spend("restart")
    /\ tenant' = [t \in Tenants |-> Relist(tenant[t])]
    /\ child' = [t \in Tenants |-> [c \in Children |-> Relist(child[t][c])]]
    /\ queue' = {t \in Tenants : tenant[t].cur.obj # None}
    /\ delayed' = {}
    /\ worker' = Idle
    /\ UNCHANGED applied

Provision ==
    /\ Provisioning
    /\ \E v \in Versions(here) :
          ChildUpToDate(v) \/ ChildStored(v) \/ ChildRefused(v)

Reconcile ==
    \/ Provision
    \/ UpdateStatusSkipped \/ UpdateStatusStored \/ UpdateStatusRefused

Failure ==
    \/ \E t \in Tenants : FirstGetFails(t)
    \/ ChildLost \/ ChildTimesOut
    \/ UpdateStatusLost \/ UpdateStatusTimesOut
    \/ Restart

Next ==
    \/ \E t \in Tenants :
        \/ \E q \in Quotas : CreateTenant(t, q) \/ UpdateTenant(t, q)
        \/ DeleteTenant(t)
        \/ ReplaceBinding(t)
        \/ \E c \in Children : DriftChild(t, c) \/ DeleteChild(t, c)
        \/ DeliverTenant(t) \/ TimerFires(t) \/ Resync(t)
        \/ Get(t)
    \/ Reconcile
    \/ Failure

Spec == Init /\ [][Next]_vars

\* As in InferenceServiceController, with the resync where its period passes.
FairSpec ==
    /\ Spec
    /\ WF_vars(Reconcile)
    /\ \A t \in Tenants :
        /\ SF_vars(Get(t))
        /\ WF_vars(DeliverTenant(t))
        /\ WF_vars(TimerFires(t))
        /\ WF_vars(Resync(t))

-----------------------------------------------------------------------------
(* Properties                                                              *)

\* Types of the Tenants, their objects, the queues and the Reconcile in progress;
\* a Reconcile past its first Get has a key and an object in its hands.
TypeOK ==
    /\ tenant \in [Tenants -> Replica(TenantObject)]
    /\ child \in [Tenants -> [Children -> Replica(Child)]]
    /\ queue \subseteq Tenants
    /\ delayed \subseteq Tenants
    /\ worker \in Worker
    /\ worker # Idle => worker.key # None /\ worker.copy.obj # None
    /\ budget \in [Kinds -> Nat]
    /\ applied \subseteq [name : Tenants, kind : Children, obj : Child]

\* A step that makes a Tenant Ready comes after all its objects were stored.
ReadyStep ==
    \A t \in Tenants :
        LET o == tenant[t].cur.obj
            p == tenant'[t].cur.obj
        IN  /\ p # None /\ p.status.phase = "Ready"
            /\ o # None => o.status.phase # "Ready"
            => \A c \in Children :
                  [name |-> t, kind |-> c, obj |-> Desired(c, p.quota)]
                      \in applied'

\* A Tenant becomes Ready only after every one of its objects has been stored
\* as the spec next to that status calls for: whatever the caches showed,
\* whichever calls were refused, and however the Tenant was edited or
\* replaced meanwhile.
ReadyMeansProvisioned == [][ReadyStep]_vars

Settled(t) ==
    LET o == tenant[t].cur.obj
        b == child[t]["binding"].cur.obj
        stuck == b # None /\ b.otherRole
    IN  o # None =>
            /\ o.status.phase = IF stuck THEN "Pending" ELSE "Ready"
            /\ (o.status.conditions["RBACReady"] = "False") <=> stuck
            /\ \A c \in Children \ {"binding"} :
                  child[t][c].cur.obj = Desired(c, o.quota)
            /\ ~stuck => b = Desired("binding", o.quota)

\* Once everyone leaves the system alone, every Tenant is Ready and each of
\* its objects is as its last spec calls for: also after a spec was changed
\* back while the cache still showed the old object, after objects were
\* edited or deleted behind the controller's back, and after failed calls.
\* Only a RoleBinding to another role stays, and then the Tenant says so.
\* A course of events without drift, flips and deletions needs no resync.
Settles == <>[](\A t \in Tenants : Settled(t))

Backing(condType) ==
    CASE condType = "NamespaceReady"      -> {"namespace"}
      [] condType = "QuotaApplied"        -> {"quota"}
      [] condType = "ServiceAccountReady" -> {"serviceaccount"}
      [] condType = "RBACReady"           -> {"role", "binding"}
      [] condType = "NetworkPolicyReady"  -> {"networkpolicy"}
      [] OTHER                            -> {}

\* "status conditions reflect the true state of each resource": a condition
\* that turns True is about objects the controller has stored at some time.
ConditionsReflectResources ==
    [][\A t \in Tenants : \A condType \in TenantConditions :
          LET o == tenant[t].cur.obj
              p == tenant'[t].cur.obj
          IN  /\ o # None /\ p # None
              /\ o.status.conditions[condType] # "True"
              /\ p.status.conditions[condType] = "True"
              => \A c \in Backing(condType) :
                    \E a \in applied' : a.name = t /\ a.kind = c]_vars

-----------------------------------------------------------------------------
\* The objects a Reconcile has been through when it comes to call pc without
\* an error.
Passed(pc) ==
    CASE pc = "quota"          -> {"namespace"}
      [] pc = "serviceaccount" -> {"namespace", "quota"}
      [] pc = "role"           -> {"namespace", "quota", "serviceaccount"}
      [] pc = "binding"        -> {"namespace", "quota", "serviceaccount", "role"}
      [] pc = "networkpolicy"  -> Children \ {"networkpolicy"}
      [] pc = "status"         -> Children
      [] OTHER                 -> {}

\* Only the controller makes an object what a mutate function sets: every
\* copy of one that is, in the store, the cache or the watch, was stored by it.
AppliedAsDesired ==
    \A t \in Tenants, c \in Children : \A v \in Versions(child[t][c]) :
        v.obj # None /\ v.obj.asDesired =>
            [name |-> t, kind |-> c, obj |-> v.obj] \in applied

\* A Reconcile without an error so far found or made each object it has been
\* through the one its copy of the Tenant calls for.
WorkerApplied ==
    worker.pc # "idle" /\ worker.failed = {} =>
        \A c \in Passed(worker.pc) :
            [name |-> worker.key, kind |-> c,
             obj |-> Desired(c, worker.copy.obj.quota)] \in applied

\* The inductive invariant behind ReadyMeansProvisioned: the above, and that
\* a copy of a Tenant with the stored resourceVersion is the stored Tenant, so
\* that a status write that is accepted is next to the quota it was about.
IInv ==
    /\ TypeOK
    /\ \A t \in Tenants : Coherent(tenant[t])
    /\ worker # Idle => CopyCoherent(worker.copy, tenant[worker.key].cur)
    /\ AppliedAsDesired
    /\ WorkerApplied
=============================================================================
