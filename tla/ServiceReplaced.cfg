SPECIFICATION Spec
CONSTANTS
    None = None
    Models = {"m1"}
    URIs = {"uri1", "uri2"}
    Services = {"s1"}
    ServiceSpecs <- MCTwoSpecs
    ModelStates <- MCModelStates
    TenantStates <- MCTenantCreated
    InitialTenant <- SomeTenant
    Budget <- ReplaceBudget
    Courses <- ReplaceCourses
INVARIANTS
    TypeOK
    JobOfApprovedSpec
    StatusOfOwnGeneration
PROPERTIES
    ObservedGenerationAdvances
    ImplementsStatusWriter
CHECK_DEADLOCK FALSE
