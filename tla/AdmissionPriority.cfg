SPECIFICATION Spec
CONSTANTS
    None = None
    Models = {"m1"}
    URIs = {}
    Services = {"s1"}
    Requests = {r1, r2}
    ServiceSpecs <- LowestOnly
    Annotations <- MCAnnotations
    DepStates <- MCDepStates
    InitialDeps <- NoPolicyDeps
    Width = 12
    Budget <- LowestBudget
SYMMETRY MCSymmetry
INVARIANT
    PriorityAnnotated
CHECK_DEADLOCK FALSE
