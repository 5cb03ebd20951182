----------------------------- MODULE MCAdmission -----------------------------
(* Values for the constants of Admission. *)
EXTENDS Admission

GoodSpec == [model |-> "m1", workloadClass |-> "batch",
             resourceProfile |-> "batch-shared", priority |-> None,
             ttftP99 |-> None, tpotP99 |-> 50]

LowestSpec == [GoodSpec EXCEPT !.priority = IntMin]
NegativeSpec == [GoodSpec EXCEPT !.priority = -10]
BadProfileSpec == [GoodSpec EXCEPT !.resourceProfile = "no-such-profile"]
BadSLOSpec == [GoodSpec EXCEPT !.ttftP99 = 0]

MCServiceSpecs == {GoodSpec, NegativeSpec, BadProfileSpec, BadSLOSpec}

OwnAnnotations == [tenant |-> "other", fairnessID |-> "other",
                   derivedPriority |-> [neg |-> FALSE, digits |-> <<9, 9>>]]
MCAnnotations == {NoAnnotations, OwnAnnotations}

MCDepStates ==
    [k \in Deps |->
        CASE k = "tenant" -> {[priority |-> 100], [priority |-> 2], None}
          [] k = "policy" -> {[required |-> TRUE], None}
          [] OTHER        -> {[requireSignedImage |-> TRUE],
                              [requireSignedImage |-> FALSE], None}]

MCInitialDeps ==
    [k \in Deps |->
        CASE k = "tenant" -> [priority |-> 100]
          [] k = "policy" -> [required |-> TRUE]
          [] OTHER        -> [requireSignedImage |-> FALSE]]

\* A create and two updates that overlap.
MCBudget == [k \in Kinds |-> CASE k = "request" -> 3
                               [] k = "dep"     -> 2
                               [] OTHER         -> 1]

\* The smallest priority, under a Tenant that stays and without a policy.
LowestOnly == {LowestSpec}
NoPolicyDeps == [MCInitialDeps EXCEPT !["policy"] = None]
LowestBudget == [MCBudget EXCEPT !["dep"] = 0, !["fault"] = 0]

MCSymmetry == Permutations(Requests)
=============================================================================
