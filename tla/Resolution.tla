----------------------------- MODULE Resolution -----------------------------
(***************************************************************************)
(* The three small packages the InferenceService controller consults while *)
(* it resolves a service: internal/priority, internal/resourceprofile and  *)
(* internal/capacityenvelope.                                              *)
(***************************************************************************)
EXTENDS ApiTypes

\* Go's division truncates toward zero, which is \div for the non-negative
\* defaults of a Tenant.
Calculate(tenantPriority, workloadClass, override) ==
    IF override # None THEN override
    ELSE CASE workloadClass = "batch"      -> tenantPriority \div 3
           [] workloadClass = "background" -> tenantPriority \div 10
           [] OTHER                        -> tenantPriority

\* resourceprofile.Resolve returns an error.
ResolveFails(resourceProfile) == resourceProfile \notin profiles

\* capacityenvelope.Check is a stub that always reports capacity.
Check(model, resourceProfile) == [available |-> TRUE]
=============================================================================
