------------------------------ MODULE ApiTypes ------------------------------
(***************************************************************************)
(* The custom resources of api/v1alpha1, reduced to the fields that the    *)
(* controllers read or write.                                              *)
(*                                                                         *)
(* A list of metav1.Condition becomes a function from condition types to   *)
(* "True", "False" or "Absent".  Every condition of this operator has one  *)
(* reason for True and one for False, conditions are only ever appended,   *)
(* and statusUnchanged does not look at messages, so equality of the       *)
(* functions is what statusUnchanged computes.                             *)
(***************************************************************************)
EXTENDS Integers

CONSTANTS
    None,       \* a nil pointer; "no such object"
    Models,     \* names of Models in the tenant's namespace
    URIs        \* values of Model.spec.source.uri other than ""

ConditionStatus == {"Absent", "True", "False"}

WorkloadClasses == {"interactive", "batch", "background"}

\* profiles holds the names internal/resourceprofile knows; the CRD takes
\* any string, which "no-such-profile" stands for.
profiles == {"protected-gpu", "shared-gpu", "batch-shared"}

InferenceServiceSpec ==
    [model           : Models,
     workloadClass   : WorkloadClasses,
     resourceProfile : profiles \cup {"no-such-profile"},
     priority        : Int \cup {None},
     gpu             : BOOLEAN \cup {None},
     gpuType         : {"", "full", "mig-3g.40gb"},
     replicas        : Nat \cup {None}]

ServiceConditions ==
    {"ModelReady", "TenantResolved", "ResourceProfileResolved",
     "CapacityAvailable", "Accepted", "Ready", "WorkloadReady"}

InferenceServiceStatus ==
    [conditions         : [ServiceConditions -> ConditionStatus],
     phase              : {"", "Pending", "Ready"},
     observedGeneration : Nat,
     derivedPriority    : Int]

InferenceService ==
    [uid : Nat, gen : Nat, spec : InferenceServiceSpec,
     status : InferenceServiceStatus]

NewStatus ==
    [conditions         |-> [t \in ServiceConditions |-> "Absent"],
     phase              |-> "",
     observedGeneration |-> 0,
     derivedPriority    |-> 0]

\* The CRD bounds a tenant's default priority.
Tenant == [priority : 0 .. 1000]

\* meta.SetStatusCondition with the status that setCond derives from an error.
SetCond(conditions, condType, err) ==
    [conditions EXCEPT ![condType] = IF err THEN "False" ELSE "True"]
=============================================================================
