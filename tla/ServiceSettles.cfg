SPECIFICATION PromptSpec
CONSTANTS
    None = None
    Models = {"m1", "m2"}
    URIs = {"uri1", "uri2"}
    Services = {"s1"}
    ServiceSpecs <- MCSwitchSpecs
    ModelStates <- MCModelStates
    TenantStates <- MCTenantCreated
    InitialTenant = None
    Budget <- PromptBudget
    Courses <- PromptCourses
INVARIANT
    WritesBounded
PROPERTY
    Settles
CHECK_DEADLOCK FALSE
