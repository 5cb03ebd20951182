------------------------------ MODULE Admission ------------------------------
(***************************************************************************)
(* internal/admission and internal/webhook: what happens to a create or an *)
(* update of an InferenceService before the API server stores it.          *)
(*                                                                         *)
(* The API server calls the mutating webhook, then the validating one,     *)
(* then stores the object if nobody has written it meanwhile.  Requests    *)
(* run concurrently, each lookup of a webhook reads the manager's cache,   *)
(* and the Tenant, the Models and the PlatformPolicy change at any time.   *)
(* With failurePolicy=fail a webhook that does not answer is a refusal.    *)
(* Status updates and deletions go to no webhook.                          *)
(***************************************************************************)
EXTENDS Resolution, WatchedObject, SequencesExt

CONSTANTS
    Services,
    Requests,       \* requests that may be under way at once
    ServiceSpecs,   \* the specs users write
    Annotations,    \* the annotations users write themselves
    DepStates,      \* what becomes of the Tenant, the policy, each Model
    InitialDeps,
    Width,          \* of an int32
    Budget          \* how often each event happens

\* The name of the namespace, and of its Tenant.
Namespace == "namespace"

\* The values of an int32.
IntMin == -(2 ^ (Width - 1))
Int32 == IntMin .. -IntMin - 1

\* The part of a spec that the webhooks read.
AdmissionSpec ==
    [model           : Models,
     workloadClass   : WorkloadClasses,
     resourceProfile : profiles \cup {"no-such-profile"},
     priority        : Int32 \cup {None},
     ttftP99         : Int \cup {None},
     tpotP99         : Int \cup {None}]

\* A text as itoa writes it.
Text == [neg : BOOLEAN, digits : Seq(0 .. 9)]

\* AnnotationTenant, AnnotationFairnessID and AnnotationDerivedPriority.
Annotation == [tenant          : {Namespace, "other", None},
               fairnessID      : {Namespace, "other", None},
               derivedPriority : Text \cup {None}]

NoAnnotations == [tenant |-> None, fairnessID |-> None, derivedPriority |-> None]

\* The objects the webhooks look up: the Tenant, the PlatformPolicy named
\* "default", the Models.
Deps == {"tenant", "policy"} \cup Models

PlatformPolicy == [required : BOOLEAN]
AdmissionModel == [requireSignedImage : BOOLEAN]
DepObject == Tenant \cup PlatformPolicy \cup AdmissionModel

ObjectOf(k) == IF k = "tenant" THEN Tenant
               ELSE IF k = "policy" THEN PlatformPolicy ELSE AdmissionModel

AdmittedService == [spec : AdmissionSpec, annotations : Annotation]

Kinds == {"request", "delete", "dep", "fault"}

ASSUME AdmissionAssumption ==
    /\ None \notin AdmittedService
    /\ None \notin Text
    /\ None \notin Int
    /\ None \notin Services
    /\ ServiceSpecs \subseteq AdmissionSpec
    /\ Annotations \subseteq Annotation
    /\ \A k \in Deps : /\ DepStates[k] \subseteq ObjectOf(k) \cup {None}
                       /\ InitialDeps[k] \in ObjectOf(k) \cup {None}
    /\ {"tenant", "policy"} \cap Models = {}
    /\ Width \in Nat \ {0}
    /\ Budget \in [Kinds -> Nat]

\* Arithmetic of powers, which the provers do not know.
ASSUME PowerAssumption ==
    /\ 2 ^ (Width - 1) \in Nat \ {0}
    /\ 2 ^ Width = 2 * 2 ^ (Width - 1)

VARIABLES
    dep,        \* the objects of Deps, by name
    isvc,       \* the stored InferenceServices
    req,        \* the requests under way
    budget,     \* events left
    log         \* history: every state of each object of Deps

vars == <<dep, isvc, req, budget, log>>

\* pc: the webhook's next lookup.  base: the stored version the request is
\* about.  floor and sent (history): what the cache held, and the annotations
\* it had, when it came in.  failOpen (history): its policy lookup failed.
Request == [pc          : {"idle", "mutate", "tenant", "policy", "model", "store"},
            name        : Services \cup {None},
            base        : Nat,
            obj         : AdmittedService \cup {None},
            floor       : [Deps -> Nat],
            sent        : Annotation,
            failOpen    : BOOLEAN]

Idle == [pc |-> "idle", name |-> None, base |-> 0, obj |-> None,
         floor |-> [k \in Deps |-> 0], sent |-> NoAnnotations,
         failOpen |-> FALSE]

Init ==
    /\ dep = [k \in Deps |-> InitialReplica(InitialDeps[k])]
    /\ isvc = [s \in Services |-> [rv |-> 0, obj |-> None]]
    /\ req = [r \in Requests |-> Idle]
    /\ budget = Budget
    /\ log = [k \in Deps |-> <<InitialDeps[k]>>]

Spend(kind) ==
    /\ budget[kind] > 0
    /\ budget' = [budget EXCEPT ![kind] = @ - 1]

-----------------------------------------------------------------------------
(* Everything but the webhooks.                                            *)

WriteDep(k, o) ==
    /\ o # dep[k].cur.obj
    /\ Spend("dep")
    /\ dep' = [dep EXCEPT ![k] = Put(@, o)]
    /\ log' = [log EXCEPT ![k] = Append(@, o)]
    /\ UNCHANGED <<isvc, req>>

DeliverDep(k) ==
    \E v \in dep[k].watch :
        /\ dep' = [dep EXCEPT ![k] = Deliver(@, v)]
        /\ UNCHANGED <<isvc, req, budget, log>>

\* A client may write annotations itself; one that edits an object sends the
\* old ones back.
Submit(r, s, spec) ==
    /\ req[r] = Idle
    /\ Spend("request")
    /\ \E a \in Annotations \cup
               (IF isvc[s].obj = None THEN {} ELSE {isvc[s].obj.annotations}) :
          req' = [req EXCEPT ![r] =
                   [Idle EXCEPT !.pc = "mutate", !.name = s,
                                !.base = isvc[s].rv,
                                !.obj = [spec |-> spec, annotations |-> a],
                                !.floor = [k \in Deps |-> dep[k].cache.rv],
                                !.sent = a]]
    /\ UNCHANGED <<dep, isvc, log>>

\* AlreadyExists, NotFound or Conflict if somebody was faster.
Store(r) ==
    /\ req[r].pc = "store"
    /\ LET s == req[r].name
       IN  isvc' = IF isvc[s].rv = req[r].base
                   THEN [isvc EXCEPT ![s] = [rv |-> @.rv + 1, obj |-> req[r].obj]]
                   ELSE isvc
    /\ req' = [req EXCEPT ![r] = Idle]
    /\ UNCHANGED <<dep, budget, log>>

DeleteService(s) ==
    /\ isvc[s].obj # None
    /\ Spend("delete")
    /\ isvc' = [isvc EXCEPT ![s] = [rv |-> @.rv + 1, obj |-> None]]
    /\ UNCHANGED <<dep, req, log>>

-----------------------------------------------------------------------------
(* mutation.go                                                             *)

\* Two's complement.
Wrap(i) == ((i - IntMin) % (2 ^ Width)) + IntMin

\* The digits of n, the first one first; none for 0.
Digits[n \in Nat] == IF n = 0 THEN <<>> ELSE Append(Digits[n \div 10], n % 10)

\* Mutant: the remainder by 10 is not taken.
itoaUnreduced(i) ==
    [neg |-> i < 0, digits |-> <<IF i < 0 THEN Wrap(-i) ELSE i>>]

itoa(i) ==
    LET abs == IF i < 0 THEN Wrap(-i) ELSE i
    IN  IF i = 0 THEN [neg |-> FALSE, digits |-> <<0>>]
        ELSE [neg |-> i < 0, digits |-> IF abs > 0 THEN Digits[abs] ELSE <<>>]

\* Mutant: an annotation that is there already is kept.
MutateInferenceServiceOnce(o, t) ==
    [o EXCEPT !.annotations =
        [tenant |-> Namespace, fairnessID |-> Namespace,
         derivedPriority |->
            IF t = None \/ @.derivedPriority # None THEN @.derivedPriority
            ELSE itoa(Calculate(t.priority, o.spec.workloadClass, o.spec.priority))]]

MutateInferenceService(o, t) ==
    [o EXCEPT !.annotations =
        [tenant |-> Namespace, fairnessID |-> Namespace,
         derivedPriority |->
            IF t = None THEN @.derivedPriority
            ELSE itoa(Calculate(t.priority, o.spec.workloadClass, o.spec.priority))]]

\* What a lookup of k returns.
Lookup(k) == dep[k].cache.obj

Default(r) ==
    /\ req[r].pc = "mutate"
    /\ req' = [req EXCEPT ![r].pc = "tenant",
                          ![r].obj = MutateInferenceService(@, Lookup("tenant"))]
    /\ UNCHANGED <<dep, isvc, budget, log>>

-----------------------------------------------------------------------------
(* validation.go: ValidateInferenceService, cut at its lookups.            *)

validateResourceProfile(spec) == ~ResolveFails(spec.resourceProfile)

validateSLO(spec) ==
    /\ spec.ttftP99 # None => spec.ttftP99 > 0
    /\ spec.tpotP99 # None => spec.tpotP99 > 0

Allow(r) == req' = [req EXCEPT ![r].pc = "store"]
Deny(r)  == req' = [req EXCEPT ![r] = Idle]

\* validateTenantExists, and the checks that look nothing up.
ValidateTenantExists(r) ==
    /\ req[r].pc = "tenant"
    /\ IF /\ Lookup("tenant") # None
          /\ validateResourceProfile(req[r].obj.spec)
          /\ validateSLO(req[r].obj.spec)
       THEN req' = [req EXCEPT ![r].pc = "policy"]
       ELSE Deny(r)
    /\ UNCHANGED <<dep, isvc, budget, log>>

\* getEffectivePlatformPolicy, when it returns no error.
GetEffectivePlatformPolicy(r) ==
    /\ req[r].pc = "policy"
    /\ IF Lookup("policy") = None \/ ~Lookup("policy").required
       THEN Allow(r)
       ELSE req' = [req EXCEPT ![r].pc = "model"]
    /\ UNCHANGED <<dep, isvc, budget, log>>

\* Mutant: the Model is not asked whether it requires a signed image.
SatisfiesPolicyIfLookedUp(m) == TRUE

\* A Model that does not exist yet cannot violate the policy.
SatisfiesPolicy(m) == m = None \/ m.requireSignedImage

ValidateSignedModel(r) ==
    /\ req[r].pc = "model"
    /\ IF SatisfiesPolicy(Lookup(req[r].obj.spec.model)) THEN Allow(r) ELSE Deny(r)
    /\ UNCHANGED <<dep, isvc, budget, log>>

\* The policy cannot be read: its informer starts with the first lookup, and
\* that may take longer than the webhook call.
PolicyLookupFails(r) ==
    /\ req[r].pc = "policy"
    /\ Spend("fault")
    /\ req' = [req EXCEPT ![r].pc = "store", ![r].failOpen = TRUE]
    /\ UNCHANGED <<dep, isvc, log>>

\* Another lookup fails, or the call does.
InWebhook(r) == req[r].pc \in {"mutate", "tenant", "policy", "model"}

WebhookFails(r) ==
    /\ InWebhook(r)
    /\ Spend("fault")
    /\ Deny(r)
    /\ UNCHANGED <<dep, isvc, log>>

\* The process dies, and with it every call in progress.
Restart ==
    /\ Spend("fault")
    /\ dep' = [k \in Deps |-> Relist(dep[k])]
    /\ req' = [r \in Requests |-> IF InWebhook(r) THEN Idle ELSE req[r]]
    /\ UNCHANGED <<isvc, log>>

-----------------------------------------------------------------------------
Next ==
    \/ \E r \in Requests :
        \/ \E s \in Services, spec \in ServiceSpecs : Submit(r, s, spec)
        \/ Default(r)
        \/ ValidateTenantExists(r) \/ GetEffectivePlatformPolicy(r)
        \/ ValidateSignedModel(r)
        \/ PolicyLookupFails(r) \/ WebhookFails(r)
        \/ Store(r)
    \/ \E s \in Services : DeleteService(s)
    \/ \E k \in Deps : DeliverDep(k) \/ \E o \in DepStates[k] : WriteDep(k, o)
    \/ Restart

Spec == Init /\ [][Next]_vars

-----------------------------------------------------------------------------
(* Properties                                                              *)

\* Types of the looked-up objects, the stored services and the requests; the
\* log is the history of what is stored.
TypeOK ==
    /\ dep \in [Deps -> Replica(DepObject)]
    /\ isvc \in [Services -> Version(AdmittedService)]
    /\ req \in [Requests -> Request]
    /\ \A r \in Requests : req[r].pc # "idle" =>
          req[r].name # None /\ req[r].obj # None
    /\ budget \in [Kinds -> Nat]
    /\ log \in [Deps -> Seq(DepObject \cup {None})]
    /\ \A k \in Deps : \A v \in Versions(dep[k]) :
          v.obj \in ObjectOf(k) \cup {None} /\ log[k][v.rv + 1] = v.obj

\* The states of k since request q came in, and the one the cache had then.
Recent(q, k) == {log[k][i + 1] : i \in q.floor[k] .. dep[k].cur.rv}

\* The reasons that hold whatever the policy is.
PassedFirstChecks(q) ==
    /\ q.obj.spec.resourceProfile \in profiles
    /\ \A target \in {q.obj.spec.ttftP99, q.obj.spec.tpotP99} :
          target = None \/ target > 0
    /\ \E t \in Recent(q, "tenant") : t # None

Admissible(q) ==
    /\ PassedFirstChecks(q)
    /\ \/ q.failOpen
       \/ \E p \in Recent(q, "policy") : p = None \/ ~p.required
       \/ \E m \in Recent(q, q.obj.spec.model) : m = None \/ m.requireSignedImage

\* A request that is about to be stored names a known profile and positive
\* targets, and has been judged by a Tenant, a policy and a Model no older
\* than what the cache held when it came in: each of the reasons to admit it
\* was true at some time since then.  They need not have been true at the same
\* time.  A policy that could not be read counts as none; nothing else is
\* skipped on that path.
AdmittedOnRecentState ==
    \A r \in Requests : req[r].pc = "store" => Admissible(req[r])

\* The number a sequence of decimal digits stands for.
Number[ds \in Seq(Int)] ==
    IF ds = <<>> THEN 0 ELSE 10 * Number[Front(ds)] + Last(ds)

Value(text) == IF text.neg THEN -Number[text.digits] ELSE Number[text.digits]

\* The annotation is the decimal numeral of p.
Says(text, p) ==
    /\ text # None
    /\ text.digits # <<>>
    /\ Value(text) = p

\* The priority of o for Tenant t.
PriorityOf(o, t) == Calculate(t.priority, o.spec.workloadClass, o.spec.priority)

\* The annotations of o are those of a service that was sent with the
\* annotations sent and met Tenant t.  Without a Tenant the priority is what
\* was sent.  What becomes of the smallest integer is PriorityAnnotated's.
FitsSpec(o, t, sent) ==
    LET a == o.annotations
    IN  /\ a.tenant = Namespace
        /\ a.fairnessID = Namespace
        /\ IF t = None THEN a.derivedPriority = sent.derivedPriority
           ELSE PriorityOf(o, t) # IntMin => Says(a.derivedPriority, PriorityOf(o, t))

\* Some Tenant since request q came in, or its absence, explains the
\* annotations of o.
Explained(q, o) == \E t \in Recent(q, "tenant") : FitsSpec(o, t, q.sent)

\* A service is written only by a request that has passed both webhooks, and
\* the annotations stored name its own namespace and carry the priority that
\* follows from the stored spec for a default the Tenant has had since that
\* request came in, or, if there was a time without a Tenant since then, the
\* priority the request came with: through edits that send old annotations
\* back, annotations users wrote themselves and requests that overtake each
\* other.
AnnotationsFitSpec ==
    [][\A s \in Services : isvc'[s] # isvc[s] /\ isvc'[s].obj # None =>
          \E r \in Requests :
              /\ req[r].pc = "store" /\ req'[r] = Idle
              /\ req[r].name = s
              /\ Explained(req[r], isvc'[s].obj)]_vars

\* mutation.go:25, "injects tenant identity and derived priority as
\* annotations": the annotation of a stored service is the numeral of the
\* priority that follows from its spec for some default the Tenant has had.
PriorityAnnotated ==
    \A s \in Services : isvc[s].obj # None =>
        \E t \in ToSet(log["tenant"]) \ {None} :
            Says(isvc[s].obj.annotations.derivedPriority, PriorityOf(isvc[s].obj, t))

-----------------------------------------------------------------------------
(* The inductive invariant behind the properties above.                    *)

\* The log ends with what is stored; the cache lags behind the store and the
\* watch is ahead of the cache.
Ordered(k) ==
    /\ Len(log[k]) = dep[k].cur.rv + 1
    /\ \A v \in Versions(dep[k]) : v.rv <= dep[k].cur.rv
    /\ \A v \in dep[k].watch : dep[k].cache.rv <= v.rv

\* The cache has not gone back since request q came in.
Fresh(q) ==
    q.pc # "idle" => \A k \in Deps : q.floor[k] <= dep[k].cache.rv

\* Past the first validating lookup it has seen a recent Tenant, and its
\* profile and targets have been checked.
SawTenant(q) == q.pc \in {"policy", "model"} => PassedFirstChecks(q)

\* Up to the mutating webhook it has the annotations it came with, past it
\* those of a stored service.
Annotated(q) ==
    /\ q.pc = "mutate" => q.obj.annotations = q.sent
    /\ q.pc \in {"tenant", "policy", "model", "store"} => Explained(q, q.obj)

IInv ==
    /\ TypeOK
    /\ \A k \in Deps : Ordered(k)
    /\ \A r \in Requests :
          Fresh(req[r]) /\ SawTenant(req[r]) /\ Annotated(req[r])
    /\ AdmittedOnRecentState
=============================================================================
