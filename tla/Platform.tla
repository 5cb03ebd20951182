------------------------------ MODULE Platform ------------------------------
(***************************************************************************)
(* The Model controller and the InferenceService controller as cmd/main.go *)
(* runs them: two controllers of one manager, one process, one informer    *)
(* for Models that serves both.  The Model controller writes the Models    *)
(* the InferenceService controller reads, where InferenceServiceController *)
(* alone leaves them to its environment.                                   *)
(***************************************************************************)
EXTENDS WatchedObject

CONSTANTS
    Digests, ModelSpecs, ModelBudget,
    Services, ServiceSpecs, TenantStates, InitialTenant, ServiceBudget

VARIABLES
    models, modelQueue, modelDelayed, modelWorker, modelBudget,
    isvc, tenant, job, queue, delayed, worker, budget, approved, verified

modelVars == <<models, modelQueue, modelDelayed, modelWorker, modelBudget>>
serviceVars == <<isvc, tenant, job, queue, delayed, worker, approved>>
vars == <<modelVars, serviceVars, budget, verified>>

M == INSTANCE ModelController WITH
        model <- models, queue <- modelQueue, delayed <- modelDelayed,
        worker <- modelWorker, budget <- modelBudget, Budget <- ModelBudget

\* What the InferenceService controller takes from a Model: whether its
\* Ready condition is True, and its URI.
Seen(o) ==
    IF o = None THEN None
    ELSE [ready |-> o.status.ready = "True", uri |-> o.spec.uri]

SeenVersion(v) == [rv |-> v.rv, obj |-> Seen(v.obj)]

SeenReplica(r) == [cur   |-> SeenVersion(r.cur),
                   cache |-> SeenVersion(r.cache),
                   watch |-> {SeenVersion(v) : v \in r.watch}]

S == INSTANCE InferenceServiceController WITH
        model <- [m \in Models |-> SeenReplica(models[m])],
        ModelStates <- [ready : BOOLEAN, uri : URIs \cup {""}] \cup {None},
        Budget <- ServiceBudget, Courses <- {ServiceBudget}

ASSUME PlatformAssumption ==
    /\ None \notin M!Model \cup Models
    /\ ModelSpecs \subseteq M!ModelSpec
    /\ ModelBudget \in [M!Kinds -> Nat]
    /\ None \notin InferenceService \cup S!Job \cup S!Model \cup Tenant
    /\ None \notin Int \cup BOOLEAN \cup Services
    /\ ServiceSpecs \subseteq InferenceServiceSpec
    /\ TenantStates \subseteq Tenant \cup {None}
    /\ InitialTenant \in Tenant \cup {None}
    /\ ServiceBudget \in [S!Kinds -> Nat]

Init == M!Init /\ S!Init

-----------------------------------------------------------------------------
\* With a step of the Model side.  The InferenceService side sees what is
\* stored: its count of Model writes goes down, its history of Ready Models
\* grows.
ServicesSee ==
    /\ IF models' = models
       THEN UNCHANGED <<budget, verified>>
       ELSE /\ S!Spend("model")
            /\ verified' = verified \cup
                 {[name |-> m, uri |-> models'[m].cur.obj.spec.uri] :
                    m \in {n \in Models :
                             /\ models'[n].cur # models[n].cur
                             /\ models'[n].cur.obj # None
                             /\ models'[n].cur.obj.status.ready = "True"}}
    /\ UNCHANGED serviceVars

\* With a step of the InferenceService side.
ModelsStay == UNCHANGED modelVars

\* Mutant: the InferenceService controller does not follow Models.
DeliverModelToOne(m) ==
    M!DeliverModel(m) /\ UNCHANGED <<serviceVars, budget, verified>>

\* One informer event for both controllers, and the list by which one of
\* them finds its services may fail.
DeliverModel(m) == M!DeliverModel(m) /\ (S!DeliverModel(m) \/ S!ListFails(m))

\* One process.
Restart == M!Restart /\ S!Restart

ModelStep ==
    \/ \E m \in Models :
        \/ \E spec \in ModelSpecs : M!CreateModel(m, spec) \/ M!UpdateModel(m, spec)
        \/ M!DeleteModel(m)
        \/ M!TimerFires(m) \/ M!Resync(m) \/ M!Get(m) \/ M!FirstGetFails(m)
    \/ M!Reconcile
    \/ M!UpdateStatusLost \/ M!UpdateStatusTimesOut

ServiceStep ==
    \/ S!Environment
    \/ \E s \in Services :
        \/ S!DeliverService(s) \/ S!DeliverJob(s)
        \/ S!TimerFires(s) \/ S!Resync(s) \/ S!Get(s) \/ S!FirstGetFails(s)
    \/ S!DeliverTenant
    \/ S!Reconcile
    \/ S!GetFails \/ S!UpdateStatusLost \/ S!UpdateStatusTimesOut
    \/ S!JobCallLost \/ S!CreateJobTimesOut
    \/ S!WorkloadLost \/ S!WorkloadTimesOut

Next ==
    \/ ModelStep /\ ServicesSee
    \/ ModelsStay /\ ServiceStep
    \/ \E m \in Models : DeliverModel(m)
    \/ Restart

Spec == Init /\ [][Next]_vars

\* What is left to deliver or to collect is finite, so that one fairness
\* condition serves all the watches.
Delivery ==
    \/ \E m \in Models : DeliverModel(m)
    \/ /\ ModelsStay
       /\ \/ \E s \in Services :
               S!DeliverService(s) \/ S!DeliverJob(s) \/ S!CollectJob(s)
          \/ S!DeliverTenant

\* The fairness of the two controllers, without the resync.
PromptSpec ==
    /\ Spec
    /\ WF_vars(M!Reconcile /\ ServicesSee)
    /\ WF_vars(ModelsStay /\ S!Reconcile)
    /\ WF_vars(Delivery)
    /\ \A m \in Models :
        /\ SF_vars(M!Get(m) /\ ServicesSee)
        /\ WF_vars(M!TimerFires(m) /\ ServicesSee)
    /\ \A s \in Services :
        /\ SF_vars(ModelsStay /\ S!Get(s))
        /\ WF_vars(ModelsStay /\ S!TimerFires(s))

-----------------------------------------------------------------------------
\* The Model controller and its users are an environment
\* InferenceServiceController allows for: what it assumes of Models, one
\* write at a time, is what ModelController does, so everything proved of it
\* holds here.
ServiceControllerSpec == S!Spec

\* Users write Model and InferenceService specs, and nothing else happens:
\* each Model gets the verdict on its last spec, and each service the status
\* and the Job which that verdict calls for, without a resync.
Settles == M!VerdictSettles /\ S!Settles

\* What users, failures and the garbage collector have done so far.  The loss
\* of a Job counts for the Job that replaces it as well.
Outside ==
    S!Spent("create") + S!Spent("update") + S!Spent("delete") + S!Spent("tenant")
        + S!Spent("fault") + S!Spent("restart") + M!UserWrites
        + 3 * S!Spent("deleteJob") + 2 * S!Spent("collect")

\* Verdicts on Models wake the InferenceService controller, its Jobs and its
\* own statuses bring it to write again.  The two controllers feed neither
\* each other nor themselves: the versions of an InferenceService are bounded
\* by what happens outside, two for each event and three for its first Job.
WritesBounded == \A s \in Services : isvc[s].cur.rv <= 2 * Outside + 3

\* "stays Pending while the model has not verified yet": no Job serves the
\* URI of a Model spec that verification rejects.
JobOfVerifiableModel ==
    \A s \in Services :
        LET j == job[s].cur.obj
        IN  j # None /\ j.model # None =>
               \E spec \in ModelSpecs : spec.uri = j.model /\ M!VerifiesSpec(spec)
=============================================================================
