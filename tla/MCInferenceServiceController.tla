-------------------- MODULE MCInferenceServiceController --------------------
(* Values for the constants of InferenceServiceController. *)
EXTENDS InferenceServiceController

GoodSpec == [model |-> "m1", workloadClass |-> "batch",
             resourceProfile |-> "batch-shared", priority |-> None,
             gpu |-> TRUE, gpuType |-> "full", replicas |-> None]

OverrideSpec == [GoodSpec EXCEPT !.priority = 7]

BadProfileSpec == [GoodSpec EXCEPT !.resourceProfile = "no-such-profile"]

\* Changes the Model, the priority and the way the Job is built.
OtherModelSpec == [OverrideSpec EXCEPT !.model = "m2", !.gpu = None]

MCTwoSpecs == {OverrideSpec, BadProfileSpec}
MCSwitchSpecs == {GoodSpec, OtherModelSpec}
MCOneSpec == {GoodSpec}

ReadyModel == [ready |-> TRUE, uri |-> "uri1"]
PendingModel == [ready |-> FALSE, uri |-> "uri2"]
MCModelStates == {ReadyModel, PendingModel}

SomeTenant == [priority |-> 100]
MCTenantCreated == {SomeTenant}
OtherTenant == [priority |-> 50]
MCTenantChanges == {SomeTenant, OtherTenant, None}

NoEvents == [k \in Kinds |-> 0]

\* A service is edited and deleted, and another of the same name created; its
\* Job is deleted under it.
ReplaceCourse ==
    [NoEvents EXCEPT !["create"] = 2, !["update"] = 1, !["delete"] = 1,
                     !["model"] = 1, !["deleteJob"] = 1, !["collect"] = 1]

\* A service moves to another Model while one of the Models changes and the
\* Tenant appears; a call fails, the process dies.
FailureCourse ==
    [NoEvents EXCEPT !["create"] = 1, !["update"] = 1, !["model"] = 1,
                     !["tenant"] = 1, !["collect"] = 1, !["fault"] = 1,
                     !["restart"] = 1]

\* A service moves to another Model while both Models change and the Tenant
\* appears.
SwitchCourse ==
    [NoEvents EXCEPT !["create"] = 1, !["update"] = 1, !["model"] = 2,
                     !["tenant"] = 1, !["collect"] = 1]

\* A service is replaced, its Job goes with the old one.
RecreateCourse ==
    [NoEvents EXCEPT !["create"] = 2, !["delete"] = 1, !["model"] = 1,
                     !["collect"] = 2]

\* What no watch reports: the Tenant is given another priority, or goes away
\* and comes back, and the Job is deleted.
DriftCourse ==
    [NoEvents EXCEPT !["create"] = 1, !["model"] = 1, !["tenant"] = 2,
                     !["deleteJob"] = 1, !["collect"] = 2]

\* A Model changes while the list of services fails, and so does a call of
\* Reconcile.
MissedCourse ==
    [NoEvents EXCEPT !["create"] = 1, !["model"] = 2, !["collect"] = 2,
                     !["fault"] = 1, !["list"] = 1]

OwnJobCourse ==
    [NoEvents EXCEPT !["create"] = 2, !["delete"] = 1, !["model"] = 1]

ReplaceCourses == {ReplaceCourse}
PromptCourses == {FailureCourse, SwitchCourse}
ResyncCourses == {RecreateCourse, DriftCourse, MissedCourse}
OwnJobCourses == {OwnJobCourse}

\* What a run needs for all its courses.
Enough(courses) ==
    [k \in Kinds |-> CHOOSE n \in {c[k] : c \in courses} :
                        \A c \in courses : c[k] <= n]

ReplaceBudget == Enough(ReplaceCourses)
PromptBudget == Enough(PromptCourses)
ResyncBudget == Enough(ResyncCourses)
OwnJobBudget == Enough(OwnJobCourses)
=============================================================================
