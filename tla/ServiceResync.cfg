SPECIFICATION FairSpec
CONSTANTS
    None = None
    Models = {"m1"}
    URIs = {"uri1", "uri2"}
    Services = {"s1"}
    ServiceSpecs <- MCOneSpec
    ModelStates <- MCModelStates
    TenantStates <- MCTenantChanges
    InitialTenant <- SomeTenant
    Budget <- ResyncBudget
    Courses <- ResyncCourses
PROPERTIES
    Settles
CHECK_DEADLOCK FALSE
