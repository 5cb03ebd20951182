# A TLA+ model of the inference platform's operator

The repository is a Kubernetes operator (Go, controller-runtime, under
`operator/`) for multi-tenant model serving: a *Tenant* gets a namespace with
its quota and policies, a *Model* is registered and verified, and an
*InferenceService* is turned into a batch `Job` that Kueue admits. This
directory models the three controllers and the admission webhooks together with
the part of the API server and of the client library they depend on, checks them
with TLC and proves their safety properties and refinements with TLAPS.

## Inventory

| Component | State | Operations | Interacts with |
|---|---|---|---|
| InferenceService controller (`internal/controller/inference_service_controller.go`) | status of InferenceServices, Jobs, work queue | `Reconcile`, `updateStatus`, `reconcileKueueJob`, `updateWorkloadCondition`, `mapModelToInferenceServices` | reads Models and Tenants from caches, creates Jobs |
| Model controller (`model_controller.go`) | status of Models | `Reconcile`, `verifyArtifact`, `updateStatus` | its Ready condition gates InferenceServices |
| Tenant controller (`tenant_controller.go`, `controller_helpers.go`) | namespace, ResourceQuota, ServiceAccount, Role, RoleBinding, NetworkPolicy; status of Tenants | `Reconcile`, five `reconcileX` helpers, `updateStatus` | its objects bound what a tenant's Jobs may do |
| Scheduling (`internal/scheduling`) | none | `BuildJob`, `CPURequest`, `ReplicaCount`, `GPUResourceName`, ... | called by the InferenceService controller; its labels select Kueue queues |
| Priority, resource profiles, capacity envelope | none | `Calculate`, `Resolve`, `Check` | called by controller and admission |
| Admission and webhooks (`internal/admission`, `internal/webhook`) | annotations | `MutateInferenceService`, `ValidateInferenceService`; `Default`, `ValidateCreate`, `ValidateUpdate`, `ValidateDelete` | guard users' writes; read Tenant, Model, PlatformPolicy from the same caches |
| PlatformPolicy (`api/v1alpha1/platform_policy_types.go`) | `signedModels.required` of the policy named default | (users) | read by admission; isolation and scheduling are read by nobody |
| Kueue configuration (`gitops/kueue-resources`) | quotas of ClusterQueues, priority classes | (Kueue) | admits the Jobs |
| Manager (`cmd/main.go`) | | registers everything | defaults: one worker per controller, resync every ten hours |

What is hard in this code:

* every read comes from an informer cache that lags behind the API server,
  every write goes to the API server and may be refused (resourceVersion),
  lost, or stored with the answer lost;
* objects are edited, deleted and re-created under the same name while a
  `Reconcile` works on an older copy;
* the list that maps a change of a Model to services may fail, and is not
  repeated;
* one `Reconcile` makes up to three writes (status, Job, status), and the
  process may die between any two;
* what is not watched (Tenants and Jobs for the InferenceService controller,
  all provisioned objects for the Tenant controller) is noticed only at a retry
  or at the ten-hour resync;
* a status write is itself an event for the controller that made it;
* the Model controller writes what the InferenceService controller reads, and a
  Ready condition does not say which source it is about;
* requests run through two webhooks concurrently, each lookup in them reads
  another moment, and clients send annotations of their own.

`PROJECT.json` lists these as hazards, each at its line, with the properties
that would catch them.

## Modules

| Module | Models |
|---|---|
| `ApiTypes` | the fields of the custom resources that the controllers use; `setCond` |
| `Resolution` | `priority.Calculate`, `resourceprofile.Resolve`, `capacityenvelope.Check` |
| `Scheduling` | `BuildJob` and its helpers, on specs |
| `WatchedObject` | one object in the API server, in a cache and on the watch (external) |
| `StatusWriter` | abstract: what a controller promises of the objects whose status it writes |
| `InferenceServiceController` | the controller, its environment, its properties and its inductive invariant |
| `ModelController` | the Model controller |
| `TenantController` | the Tenant controller |
| `Platform` | `ModelController` and `InferenceServiceController` in one process |
| `Admission` | the webhooks and the admission package, between client and store |
| `MC...` | values of the constants for TLC |
| `WatchedObjectProofs` | lemmas about `WatchedObject` |
| `InferenceServiceControllerProofs`, `InferenceServiceRefinement`, `InferenceServiceWrites`, `ModelControllerProofs`, `TenantControllerProofs`, `AdmissionProofs`, `PlatformProofs` | theorems |

### Common shape

An object is a `Replica`: `cur` is what the API server stores, `cache` what a
read returns, `watch` the versions stored since and not delivered. A version is
a resourceVersion with a content, `None` for "does not exist". A delivery may
skip versions, as an informer that lists again does; it never goes back.
Deleting and re-creating an object gives it a new uid, taken from the
resourceVersion.

`Reconcile` is split at each read and each write; what happens between them is
local and is kept in `worker`. The controller has one worker per process
(`MaxConcurrentReconciles` is not set). Each write has up to five outcomes, each
an action: skipped because nothing changed, stored, refused (conflict or not
found), lost, and stored with the answer lost (`...TimesOut`). An error and
`RequeueAfter` both put the key into `delayed`, from which `TimerFires` returns
it to the queue: how long that takes does not matter to any property here.

A list of conditions is a function to "True", "False" or "Absent". Conditions
have one reason for each status, are appended in a fixed order, and
`statusUnchanged` ignores messages, so equality of these functions is what
`statusUnchanged` decides.

Everything outside the controller (users' writes, garbage collection, failures,
restarts) is drawn from `Budget`, a bound per kind of event. The steps of the
controller and of its informers are not bounded.

### InferenceServiceController

`Get`, `ResolveModel`, `ResolveTenant` are the three reads; `modelErr`,
`tenantErr`, `profileErr`, `capacityErr` and `derivedPriority` what `Reconcile`
concludes; `newConditions` and `newStatus` what `updateStatus` computes.
Each read may fail (`FirstGetFails`, `GetFails`; the key is queued again), and so
may the list in `mapModelToInferenceServices` (`ListFails`; the change of the Model
then reaches nobody). `AfterStatus` is the early return with `RequeueAfter`. `GetJob`, `CreateJob`,
`JobAlreadyExists` are `reconcileKueueJob`; `Workload...` is
`updateWorkloadCondition`. The copy the worker holds after a successful status
write is the one `Status().Update` returns, so the second status write carries
the new resourceVersion.

One tenant namespace is modelled: the controller never looks across namespaces.
Two history variables, read by no action, record which specs were stored as
Ready (`approved`) and which Model URIs (`verified`).

A spec with an unknown profile reaches the controller when it was stored
before the validating webhook was installed. `WriteModel` is the environment's
write of a Model; `Platform` shows that what the Model controller and its users
do is nothing else.

### ModelController and TenantController

`ModelController` has the same shape with a single write. In
`TenantController` the six `CreateOrUpdate` calls are one action each per
outcome, `After` is the order of the calls with the early exits for the
namespace and the quota. What a mutate function sets is one value per kind of
object, except for the ResourceQuota, whose limits are modelled. No handler
follows the provisioned objects and only `CreateOrUpdate` reads their caches, so
how far the watch has come is decided at the read (`Look`); reads that lag are
counted in `Budget["lag"]`. Deleting a namespace deletes what is in it in one
step; the refusals while it terminates are covered by `ChildLost`.
`ReplaceBinding` puts a RoleBinding for another role in the place of the
tenant's: `CreateOrUpdate` sets a new `RoleRef`, which the API server refuses, so
`Applies` fails for it whatever the retry. `Settles` then asks that everything
else is as the spec says and that the Tenant is not reported Ready.

### StatusWriter

Users create, edit and delete objects; the controller replaces the status of an
object that exists, leaves the rest alone and writes a verdict on the object as
it is at that moment (`IsVerdict`, given by each controller as `Fits`). There are
no caches, copies or queues. `ModelController` and `InferenceServiceController`
implement it (`ImplementsStatusWriter`, mapping `obj` to what the API server
stores). That is the question behind all their stale reads: an old copy may be
judged, but its verdict never lands on another object or another spec.

### Platform

`cmd/main.go` registers the controllers with one manager, so they share a
process (`Restart` is one step of both) and the Model informer (`DeliverModel`
hands one event to both). The InferenceService side sees a Model as `Seen`:
whether Ready is True, and its URI. `ServicesSee` keeps that side's history and
its count of Model writes when the Model side acts.
`ServiceControllerSpec` is the whole specification of
`InferenceServiceController`, instantiated with these Models.

### Admission

A request goes through `Default` (mutate), `ValidateTenantExists`,
`GetEffectivePlatformPolicy`, `ValidateSignedModel`, which are
`MutateInferenceService` and `ValidateInferenceService` cut at their lookups, and
`Store`, the API server's write, which fails when somebody else was faster.
Requests overlap; each lookup reads the cache of that moment. The errors:
`PolicyLookupFails` admits, every other failure (`WebhookFails`, `Restart`)
refuses, because the handlers return an error or, with `failurePolicy=fail`,
because no answer comes. Deleting calls a handler that allows everything.
A text is a sign and a sequence of digits; integers wrap at `Width` bits. One
namespace is modelled, as for the services. Three fields of a request are history,
read by no action: `floor`, how far the caches had come when it came in, `sent`,
the annotations it had then, and `failOpen`. With them the properties say of each
write which Tenant explains its annotations, a default the Tenant has had since
the request came in, or its absence, in which case the client's annotation stays.

## Runs

| Run | Specification | Shows |
|---|---|---|
| `service_replaced` | Spec | `TypeOK`, `JobOfApprovedSpec`, `StatusOfOwnGeneration`, `ObservedGenerationAdvances` and the refinement `ImplementsStatusWriter` across edits, delete and re-create |
| `service_settles` | PromptSpec | `Settles` without a resync, the Tenant being created late, in two courses of events: the service changes Models, a call fails, the process dies; the service changes Models while both gain and lose their verification, which is what the watch on Models is for. `WritesBounded`: the controller does not feed itself, resourceVersions are bounded by outside events |
| `service_resync` | FairSpec | `Settles` in three courses: the service is deleted and re-created; the Tenant is given another priority, or disappears and returns, and a user deletes the Job; the list behind the Model watch fails, and so does a call of `Reconcile` |
| `service_own_job` | Spec | violation, see findings |
| `model_verdicts` | PromptSpec | `TypeOK`, `ImplementsStatusWriter`, `VerdictSettles`; `WritesBounded`: one status write for a write of a user |
| `model_digest` | FairSpec | violation, see findings |
| `tenant_provisions` | FairSpec | `TypeOK`, `ReadyMeansProvisioned`, `Settles` in five courses of events: a failed call and a lagging cache, by retries alone; a quota changed and changed back; a Tenant edited, deleted and re-created; objects edited, replaced or deleted; two restarts |
| `tenant_conditions` | Spec | violation, see findings |
| `platform` | PromptSpec | the refinement `ServiceControllerSpec`; `Settles`: from an edit of a Model to the service's status and Job; `WritesBounded`: the two controllers do not feed each other |
| `platform_uri` | Spec | violation, see findings |
| `admission` | Spec | `TypeOK`, `AdmittedOnRecentState`, `AnnotationsFitSpec` with overlapping requests |
| `admission_priority` | Spec | violation, see findings |

Bounds. One service (or Model, or Tenant) per run, two Models where they
interact: keys share nothing but the queue, and the theorems cover any number.
Two specs that differ in everything `Reconcile` decides on; one Tenant priority,
two in `service_resync`.
Event budgets of one or two of each kind are chosen per run so that the sequence
the run is about happens: an edit needs two versions, a replacement two
creations and a deletion, a failed call and a restart one each. `deleteJob` and
`collect` (the garbage collector) are bounded because a controller whose cache
still shows a deleted service re-creates the orphan every time. `Settles` lets
go of behaviours that have used up `collect`, since an orphan may then stay;
only `service_resync` deletes services, and it has one collection more than it
needs, so in the other runs nothing is let go.
The two liveness runs of `InferenceServiceController` bound the kinds of events
together as well: what happens must fit one of the `Courses`, which are disjoint
stories, so that their product need not be explored.
`TenantController` starts with any member of `Budgets`, one for each course of
events; `resync` in it says whether the resync period passes at all, so the
courses without it show what retries alone achieve. In `Platform` the budget of
Model writes is set beyond what users and controller can spend, so it refuses
nothing.
`admission` has three requests of which two may be under way at once (they are
interchangeable, hence the symmetry), two changes among Tenant, policy and Model,
one deletion and one failure: enough for a create and two updates of one object
to overtake each other around a change. `Width` is 12 rather than 32: the smallest
integer is then within TLC's numbers, priorities of several digits still fit, and
`itoa` does not depend on the width otherwise. The specs cover a priority that is
derived or negative, an unknown profile and an SLO of zero; the smallest priority
has a run of its own, as `AnnotationsFitSpec` says nothing of it.
Deadlock is not checked: once the events are used up and the controller has
caught up the system really rests.

Fairness. The worker, the watches, the timers and the garbage collector make
progress (weak fairness). The work queue is first in, first out and holds each
key once, so a queued key is taken although the worker is busy in between:
strong fairness of `Get`. Nothing is assumed of users or failures. `PromptSpec`
stops there. `FairSpec` adds the resync of every cached object; `cmd/main.go`
leaves its period at the library's default of ten hours, so what only `FairSpec`
guarantees may take that long: a change of a Model whose list failed, a deleted or
re-prioritised Tenant, a Job deleted or collected under a finished service, a
quota that was changed back, a provisioned object that drifted. Without it TLC finds `TenantController`'s
`Settles` violated for a quota that is changed and changed back: it stays at the
other value. `Platform` states the fairness of both controllers, with one
condition for all watches and the garbage collector together (`Delivery`): what
they have left to do is finite, so being fair to the whole is being fair to each.
`Admission` has no liveness property: a request that fails is the client's to
repeat.

## Findings

* **A Job of a deleted service counts as one's own** (`service_own_job`,
  `inference_service_controller.go:447`). `reconcileKueueJob` takes any Job of
  the right name. After delete and re-create the new service reports
  `WorkloadReady` for the old object's Job, which the garbage collector then
  removes; the replacement comes with the resync. The Kueue test says
  "InferenceService owns the backing Job."
* **A changed digest is not recorded** (`model_digest`,
  `model_controller.go:83`). `updateStatus` compares conditions and phase only,
  so editing the digest of a Ready Model never changes `resolvedDigest`.
* **Objects never attempted are reported True** (`tenant_conditions`,
  `tenant_controller.go:59`). On the early exits nil is passed for the remaining
  errors, and the comment says the conditions "reflect the true state of each
  resource".
* **A Job for a source nobody verified** (`platform_uri`,
  `inference_service_controller.go:75`). After the source of a Ready Model is
  edited, the old Ready stays until the Model controller has judged the new one;
  a service that is reconciled in between gets a Job with the new URI. The test
  says it "stays Pending while the model has not verified yet". When the verdict
  comes the service leaves Ready, but the Job remains.
* **The smallest priority has no numeral** (`admission_priority`, `mutation.go:62`).
  `itoa` negates the smallest int32, which stays negative, and writes a bare minus
  sign. `MutateInferenceService` says it "injects tenant identity and derived
  priority", and the CRD sets no minimum.

Noticed while modelling, without a run of their own:

* `mapModelToInferenceServices` returns nothing when its list fails
  (`inference_service_controller.go:355`), and nobody repeats the event, although
  it is said to map the change to "every InferenceService in the same namespace that
  references it". A service that waits for the Model is on `RequeueAfter` and
  notices anyway; one that is Ready keeps saying so until the resync
  (`service_resync`; with a budget for it, TLC finds `Settles` violated under
  `PromptSpec`).
* `mutation.go:42` says "validation should have already caught this": mutating
  webhooks run before validating ones. A Tenant that appears between the two lets
  a service in without a derived priority, or with the one the client sent.
  `AnnotationsFitSpec` states what is stored then; `PriorityAnnotated` is violated.
* Admission fails open when the policy cannot be read (`validation.go:87`) and
  closed on every other error; `AdmittedOnRecentState` states it.
* `SetupInferenceServiceWebhook` and `SetupInferenceServiceMutator` are said to be
  "Not called from anywhere yet"; `cmd/main.go:233` and `:237` call them.
* `inference_service_kueue_test.go` expects a container `vllm` of a service without
  GPU, for which `BuildJob` makes `placeholder`.

## Proofs

The theorems hold for all values of the constants that satisfy the assumptions
stated next to them: `None` is no object, number, Boolean or name, and the
parameters have their types. `Admission` has one more, `PowerAssumption`, two
facts of arithmetic about powers of two that the provers do not know; TLC
evaluates it for the width of the run.

| Module | Theorem | States |
|---|---|---|
| `InferenceServiceControllerProofs` | `TypeCorrect` | `Spec => []TypeOK` |
| | `JobsAreOfApprovedSpecs` | `Spec => []JobOfApprovedSpec` |
| | `StatusIsOfOwnGeneration` | `Spec => []StatusOfOwnGeneration` |
| | `ObservedGenerationsAdvance` | `Spec => ObservedGenerationAdvances` |
| `InferenceServiceRefinement` | `StatusesAreVerdicts` | `Spec => ImplementsStatusWriter` |
| `InferenceServiceWrites` | `WritesAreBounded` | `Spec => []WritesBounded` |
| | `JobVersionsArePaid` | the versions of a Job are bounded by its deletions |
| | `WritesAreWithinEvents` | the bound in events alone |
| `ModelControllerProofs` | `TypeCorrect` | `Spec => []TypeOK` |
| | `StatusesAreVerdicts` | `Spec => ImplementsStatusWriter` |
| | `WritesAreBounded` | `Spec => []WritesBounded` |
| `TenantControllerProofs` | `TypeCorrect` | `Spec => []TypeOK` |
| | `ReadyIsProvisioned` | `Spec => ReadyMeansProvisioned` |
| `AdmissionProofs` | `ItoaSays` | `itoa` writes the numeral of every int32 but the smallest, and not of that |
| | `TypeCorrect` | `Spec => []TypeOK` |
| | `AdmittedIsRecent` | `Spec => []AdmittedOnRecentState` |
| | `AnnotationsFit` | `Spec => AnnotationsFitSpec` |
| `PlatformProofs` | `ModelControllerRuns` | `Spec => M!Spec` |
| | `ServiceControllerRuns` | `Spec => ServiceControllerSpec` |
| | `ServicesAreSafe`, `StatusesAreVerdicts` | the safety theorems of both controllers, of `Platform` |
| | `WritesAreBounded` | `Spec => []WritesBounded /\ []M!WritesBounded` |

Each module with states proves `Inductive`, `Spec => []IInv`, with one lemma per
action or group of actions, and gets the rest from it. `IInv` stands in the
component's module. `WatchedObjectProofs` says what `Put`, `Deliver` and `Relist`
do to the versions of an object, for all of them.

**InferenceServiceController.** The properties speak of stored objects while the
controller acts on copies, so they are not inductive. `IInv` says the
corresponding thing of every copy:

* `StoredJudged`: every version of a service that exists anywhere (stored,
  cached, on the watch) has `observedGeneration <= generation`, and if it is
  Ready for its own generation its spec is in `approved`, its profile is known
  and its override is the derived priority; and a copy with the stored
  resourceVersion equals the stored object (`Coherent`), which is what makes the
  optimistic lock sound;
* `ModelsVerified`: every version of a Model that says Ready is in `verified`;
* `WorkerJudged`: the same of the copies the worker holds; and while it is about
  to create a Job its copy is Ready for its own generation and its Model is
  ready. This is the step that needs thought: when `updateStatus` skips the
  write, the worker goes on to the Job although it has stored nothing. The
  computed status equals the copy's, so the copy is Ready for its generation,
  and `Judged` says that such a copy was approved when it was written.

`ObservedGenerationAdvances` follows because an accepted write comes from a copy
equal to the stored object. So does the refinement of `StatusWriter`: the verdict
is on that object. For the second status write the refinement needs
`WorkerReported`: `updateWorkloadCondition` writes the status it holds, with one
condition changed, so that status has to be a verdict already.

**The number of writes** (`InferenceServiceWrites`). `WritesBounded` says of the
stored versions only that they are at most two for each event and each version
of the Job; that a Reconcile which stores a status does not find another one to
store next time is nowhere in the state. `AccountInv` adds to the versions stored
the writes that are still to come if nothing more happens, and shows that the
events cover the sum (`Covered`):

* `Verdicts`: one if the stored status is not what `updateStatus` makes of the
  Model and the Tenant in hand (`Reports`), one more if these are not the cached
  ones any more. Here it matters when the worker's copy of the service is the
  stored one (`Active`): from an older copy the write is refused and costs nothing;
* `Unseen`: each version of a Model or of the Tenant the watch still has to bring
  may ask for another verdict. It is the size of one set of (Model, version)
  pairs (`UnseenModels`), so no sum over the Models has to be proved about;
* `WorkloadWrites`: a Job that exists and is not in the cache makes `Create` fail:
  `updateWorkloadCondition` may write False, and True when the Job is seen. What
  the present value of the condition spares is taken off (`Spared`).

Every outside event pays two, a write of a Model one (`Credit`), and there is one
to begin with. A failed call pays for the requeue it causes. The first Job costs
a write more than its own version pays; `JobsPaid` finds it: there is no Job
without a Model that was Ready, and that Model's first write pays two after all.
One lemma per action shows that a step draws no more than it pays, those of a
delivery and of the two status writes being the ones that need thought: a delivery
turns an `Unseen` version into a verdict, a status write turns a verdict into a
version. `JobVersionsArePaid` bounds the versions of a Job by its deletions, which
removes the Jobs from the bound.

**ModelController.** One write, one copy: `IInv` is `TypeOK` and the coherence of
the stored, cached, watched and held versions. The account of its writes is short:
a verdict depends on nothing but the Model (`Unsaid`), a user pays for the version
he stores and for the verdict on it, and an accepted verdict is one that was
missing (`StepAccount`).

**TenantController.** `ReadyMeansProvisioned` asks that all six objects were
stored before the status is. A call stores nothing when the cached object is
already as desired, so `IInv` has `AppliedAsDesired`: an object that is as a mutate
function leaves it, in any copy, was stored by the controller, since users'
edits make it something else. `WorkerApplied` then says of a Reconcile without
an error so far that the objects of the calls it has been through (`Passed`) were
stored as its copy of the Tenant calls for, and coherence that an accepted
status is next to that copy's quota.

**Admission.** A verdict is reached from three lookups at three moments.
`IInv` keeps for each request that the caches have not fallen behind what they
held when it came in (`Fresh`; `Ordered` gives the order of store, watch and
cache), that past the first lookup there is a recent Tenant and the profile and
the targets are in order (`SawTenant`), and that its annotations are those it came
with up to the mutation and past it are explained by what it found of the Tenant
there (`Annotated`). `AnnotationsFitSpec` is about the steps that store a service
and follows from `Annotated` of the request that is stored. The history only
grows (`HistoryGrows`), so what a request relies on stays true while the others act (`RequestKept`). That the annotation *says*
the priority rests on `ItoaSays`: `Digits` and `Number` are recursive functions,
shown to exist and to be inverse to each other. The library's induction rules
cannot be applied by the provers at hand; the proofs use that a non-empty set of
naturals has a least element (`LeastNatural`) and refute the least
counterexample.

**Platform.** A step of the Model side that writes a Model is, through `Seen`, a
`WriteModel` of the InferenceService side (`ModelWritten`: the view of a written
Model is the view, written); all others are steps of both sides or of neither. It
needs the types of the Models, which come from the Model controller's own
theorem. `PlatformProofs` then instantiates the two controllers' proof modules
with the substitutions of `Platform` and carries their theorems over; the
`...Same` lemmas say that these are the instances `Platform` speaks of.
For `WritesAreBounded` the two accounts are put together. The InferenceService
side counts every write of a Model as an event, the controller's own included,
so its theorem alone would let the two controllers keep each other busy.
`ModelsPaid` closes the loop: the Model writes it has counted, and the verdicts
still missing, are at most twice the users' writes of Models (`ModelStepWrites`,
`StepAccount`), and `WritesAreWithinEvents` charges one version for each.

Two corrections of the model came from proof attempts: the guards of `After` in
`TenantController` overlapped, which leaves the value of a CASE open (TLC takes
the first); and `ServicesSee` in `Platform` did not ask whether its count of Model
writes allows one more, without which it is no step of
`InferenceServiceController`.

Only model-checked: liveness (the three `Settles`, `VerdictSettles`), which needs
fairness and ENABLED. Every invariant, refinement and action property of a passing
run is a theorem.

## Not modelled

* Kueue: the repository has only the configuration of its queues
  (`gitops/kueue-resources/cluster-queue.yaml`). What happens to a Job after it
  is created (admission, borrowing, preemption) is Kueue's, and the operator reads
  none of it; a model would be of another program.
* More than one instance of the operator at a time (leader election), flags,
  metrics, TLS and health checks of the manager.
* The contents of Roles and NetworkPolicies, what they permit, and pod admission
  in the tenant's namespace.
* The wording of denials, conditions and logs; `FirstDenial`, which nobody calls.
* The namespaces that the webhook configuration leaves out
  (`operator/config/webhook/webhook_namespace_selector_patch.yaml`: operator-system,
  argocd, kube-system, cert-manager). An InferenceService there is stored without
  any check; the modelled namespace is a tenant's.
* Generated deep copies, Terraform and cluster manifests.

## Plan

What is left: for the Jobs themselves, what `BuildJob` guarantees of every spec
(labels, replicas, resources) as lemmas about `Scheduling`; and an account of
writes for the Tenant controller, the one controller without a `WritesBounded`.
