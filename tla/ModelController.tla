--------------------------- MODULE ModelController ---------------------------
(***************************************************************************)
(* internal/controller/model_controller.go: verification of a Model's      *)
(* artifact.  Users write specs; the controller writes status.  As in      *)
(* InferenceServiceController, Reconcile reads its object from the cache   *)
(* and writes it to the API server in a separate step, and calls may fail. *)
(***************************************************************************)
EXTENDS WatchedObject

CONSTANTS
    Digests,    \* values of spec.source.digest other than ""
    ModelSpecs, \* the specs users write
    Budget      \* how often each event outside the controller happens

ModelSpec == [uri                : URIs \cup {""},
              digest             : Digests \cup {""},
              requireSignedImage : BOOLEAN]

ModelStatus == [ready          : ConditionStatus,
                phase          : {"", "Pending", "Ready"},
                resolvedDigest : Digests \cup {""}]

Model == [uid : Nat, spec : ModelSpec, status : ModelStatus]

NewModelStatus == [ready |-> "Absent", phase |-> "", resolvedDigest |-> ""]

Kinds == {"create", "update", "delete", "fault", "restart"}

ASSUME ModelAssumption ==
    /\ None \notin Model
    /\ None \notin Models
    /\ ModelSpecs \subseteq ModelSpec
    /\ Budget \in [Kinds -> Nat]

VARIABLES
    model,      \* the Models, by name
    queue,      \* the controller's work queue
    delayed,    \* keys waiting for the rate limiter
    worker,     \* the Reconcile call in progress
    budget      \* events left

vars == <<model, queue, delayed, worker, budget>>

Worker == [key : Models \cup {None}, copy : Version(Model)]

Idle == [key |-> None, copy |-> [rv |-> 0, obj |-> None]]

Init ==
    /\ model = [m \in Models |-> InitialReplica(None)]
    /\ queue = {}
    /\ delayed = {}
    /\ worker = Idle
    /\ budget = Budget

Spend(kind) ==
    /\ budget[kind] > 0
    /\ budget' = [budget EXCEPT ![kind] = @ - 1]

-----------------------------------------------------------------------------
(* Users, informer and timers.                                             *)

CreateModel(m, spec) ==
    /\ model[m].cur.obj = None
    /\ Spend("create")
    /\ model' = [model EXCEPT ![m] =
                  Put(@, [uid |-> @.cur.rv + 1, spec |-> spec,
                          status |-> NewModelStatus])]
    /\ UNCHANGED <<queue, delayed, worker>>

UpdateModel(m, spec) ==
    /\ model[m].cur.obj # None
    /\ Spend("update")
    /\ model' = [model EXCEPT ![m] = Put(@, [@.cur.obj EXCEPT !.spec = spec])]
    /\ UNCHANGED <<queue, delayed, worker>>

DeleteModel(m) ==
    /\ model[m].cur.obj # None
    /\ Spend("delete")
    /\ model' = [model EXCEPT ![m] = Put(@, None)]
    /\ UNCHANGED <<queue, delayed, worker>>

DeliverModel(m) ==
    \E v \in model[m].watch :
        /\ model' = [model EXCEPT ![m] = Deliver(@, v)]
        /\ queue' = queue \cup {m}
        /\ UNCHANGED <<delayed, worker, budget>>

TimerFires(m) ==
    /\ m \in delayed
    /\ delayed' = delayed \ {m}
    /\ queue' = queue \cup {m}
    /\ UNCHANGED <<model, worker, budget>>

Resync(m) ==
    /\ model[m].cache.obj # None
    /\ queue' = queue \cup {m}
    /\ UNCHANGED <<model, delayed, worker, budget>>

-----------------------------------------------------------------------------
(* Reconcile                                                               *)

\* Mutant: NotFound is not returned early.
GetIgnoringNotFound(m) ==
    /\ worker = Idle
    /\ m \in queue
    /\ queue' = queue \ {m}
    /\ worker' = [key |-> m, copy |-> model[m].cache]
    /\ UNCHANGED <<model, delayed, budget>>

Get(m) ==
    /\ worker = Idle
    /\ m \in queue
    /\ queue' = queue \ {m}
    /\ worker' = IF model[m].cache.obj = None
                 THEN Idle
                 ELSE [key |-> m, copy |-> model[m].cache]
    /\ UNCHANGED <<model, delayed, budget>>

\* The read of the Model fails with anything but NotFound.
FirstGetFails(m) ==
    /\ worker = Idle
    /\ m \in queue
    /\ Spend("fault")
    /\ queue' = queue \ {m}
    /\ delayed' = delayed \cup {m}
    /\ UNCHANGED <<model, worker>>

\* verifyArtifact returns "".
VerifiesSpec(spec) ==
    /\ spec.uri # ""
    /\ spec.requireSignedImage => spec.digest # ""

\* verifyArtifact records the digest in the worker's copy when it succeeds.
NewStatusOf(o) ==
    IF VerifiesSpec(o.spec)
    THEN [ready |-> "True", phase |-> "Ready", resolvedDigest |-> o.spec.digest]
    ELSE [ready |-> "False", phase |-> "Pending",
          resolvedDigest |-> o.status.resolvedDigest]

\* Mutant: a Model that has been Ready once is left alone.
UnchangedOnceReady(old, new) ==
    old.phase = "Ready" \/ (old.ready = new.ready /\ old.phase = new.phase)

\* Mutant: updateStatus writes whether or not anything changed.
UnchangedNever(old, new) == FALSE

\* updateStatus looks at the condition and at the phase, and at nothing else.
Unchanged(old, new) == old.ready = new.ready /\ old.phase = new.phase

\* Mutant: a status write without the resourceVersion it was read at.
AcceptsAnyVersion == model[worker.key].cur.obj # None

Accepts ==
    /\ model[worker.key].cur.obj # None
    /\ model[worker.key].cur.rv = worker.copy.rv

newStatus == NewStatusOf(worker.copy.obj)

Writes ==
    /\ worker # Idle
    /\ ~Unchanged(worker.copy.obj.status, newStatus)

StoreStatus ==
    model' = [model EXCEPT ![worker.key] =
               Put(@, [@.cur.obj EXCEPT !.status = newStatus])]

Return ==
    /\ worker' = Idle
    /\ UNCHANGED delayed

Requeue ==
    /\ worker' = Idle
    /\ delayed' = delayed \cup {worker.key}

UpdateStatusSkipped ==
    /\ worker # Idle
    /\ ~Writes
    /\ Return
    /\ UNCHANGED <<model, queue, budget>>

UpdateStatusStored ==
    /\ Writes
    /\ Accepts
    /\ StoreStatus
    /\ Return
    /\ UNCHANGED <<queue, budget>>

\* Conflict, or NotFound.
UpdateStatusRefused ==
    /\ Writes
    /\ ~Accepts
    /\ Requeue
    /\ UNCHANGED <<model, queue, budget>>

UpdateStatusLost ==
    /\ Writes
    /\ Spend("fault")
    /\ Requeue
    /\ UNCHANGED <<model, queue>>

\* The status is stored, and the answer is lost.
UpdateStatusTimesOut ==
    /\ Writes
    /\ Accepts
    /\ Spend("fault")
    /\ StoreStatus
    /\ Requeue
    /\ UNCHANGED queue

Restart ==
    /\ Spend("restart")
    /\ model' = [m \in Models |-> Relist(model[m])]
    /\ queue' = {m \in Models : model[m].cur.obj # None}
    /\ delayed' = {}
    /\ worker' = Idle

Reconcile == UpdateStatusSkipped \/ UpdateStatusStored \/ UpdateStatusRefused

Next ==
    \/ \E m \in Models :
        \/ \E spec \in ModelSpecs : CreateModel(m, spec) \/ UpdateModel(m, spec)
        \/ DeleteModel(m)
        \/ DeliverModel(m) \/ TimerFires(m) \/ Resync(m)
        \/ Get(m) \/ FirstGetFails(m)
    \/ Reconcile
    \/ UpdateStatusLost \/ UpdateStatusTimesOut \/ Restart

Spec == Init /\ [][Next]_vars

\* As in InferenceServiceController: without and with the resync.
PromptSpec ==
    /\ Spec
    /\ WF_vars(Reconcile)
    /\ \A m \in Models :
        /\ SF_vars(Get(m))
        /\ WF_vars(DeliverModel(m))
        /\ WF_vars(TimerFires(m))

FairSpec == PromptSpec /\ \A m \in Models : WF_vars(Resync(m))

-----------------------------------------------------------------------------
(* Properties                                                              *)

\* Types of the Models, the queues and the Reconcile in progress;
\* a Reconcile past its first Get has a key and an object in its hands.
TypeOK ==
    /\ model \in [Models -> Replica(Model)]
    /\ queue \subseteq Models
    /\ delayed \subseteq Models
    /\ worker \in Worker
    /\ worker # Idle => worker.key # None /\ worker.copy.obj # None
    /\ budget \in [Kinds -> Nat]

\* status is the verdict on the spec of o, and on no other.
Fits(o, status) ==
    /\ status.ready = IF VerifiesSpec(o.spec) THEN "True" ELSE "False"
    /\ status.phase = IF VerifiesSpec(o.spec) THEN "Ready" ELSE "Pending"
    /\ VerifiesSpec(o.spec) => status.resolvedDigest = o.spec.digest

\* The Models as the API server has them.
stored == [m \in Models |-> model[m].cur.obj]

Abstract == INSTANCE StatusWriter WITH
    Names <- Models, InitialStatus <- NewModelStatus, IsVerdict <- Fits,
    obj <- stored

\* A status is only ever stored next to the spec it is the verdict on, and a
\* status write changes nothing else: a verdict reached from a stale copy, or
\* on a deleted Model of the same name, is not written.
ImplementsStatusWriter == Abstract!Spec

\* An edited, re-created or interrupted Model ends up with the verdict on its
\* last spec.
VerdictSettles ==
    <>[](\A m \in Models :
            LET o == model[m].cur.obj
            IN  o # None => (o.status.ready = "True" <=> VerifiesSpec(o.spec)))

Spent(kind) == Budget[kind] - budget[kind]

\* What users have stored so far.
UserWrites == Spent("create") + Spent("update") + Spent("delete")

\* Each status updateStatus stores comes back to the work queue.  The
\* controller does not feed itself: a write of a user brings one status write
\* at most, and lost answers, restarts, timers, resyncs and stale copies bring
\* none.
WritesBounded == \A m \in Models : model[m].cur.rv <= 2 * UserWrites

\* statusUnchanged serves "to avoid writing status when nothing changed": the
\* digest that verification resolves reaches the status as well.
DigestSettles ==
    <>[](\A m \in Models :
            LET o == model[m].cur.obj
            IN  o # None /\ o.status.ready = "True" =>
                   o.status.resolvedDigest = o.spec.digest)

-----------------------------------------------------------------------------
\* The inductive invariant behind ImplementsStatusWriter: every copy of a
\* Model that has the stored resourceVersion is the stored Model, so that a
\* write the API server accepts is about the object it was computed from.
IInv ==
    /\ TypeOK
    /\ \A m \in Models : Coherent(model[m])
    /\ worker # Idle => CopyCoherent(worker.copy, model[worker.key].cur)
=============================================================================
