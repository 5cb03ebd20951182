SPECIFICATION Spec
CONSTANTS
    None = None
    Models = {"m1"}
    URIs = {}
    Services = {"s1"}
    Requests = {r1, r2}
    ServiceSpecs <- MCServiceSpecs
    Annotations <- MCAnnotations
    DepStates <- MCDepStates
    InitialDeps <- MCInitialDeps
    Width = 12
    Budget <- MCBudget
SYMMETRY MCSymmetry
INVARIANTS
    TypeOK
    AdmittedOnRecentState
PROPERTY
    AnnotationsFitSpec
CHECK_DEADLOCK FALSE
