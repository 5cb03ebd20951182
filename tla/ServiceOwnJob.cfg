SPECIFICATION Spec
CONSTANTS
    None = None
    Models = {"m1"}
    URIs = {"uri1", "uri2"}
    Services = {"s1"}
    ServiceSpecs <- MCOneSpec
    ModelStates <- MCModelStates
    TenantStates <- MCTenantCreated
    InitialTenant <- SomeTenant
    Budget <- OwnJobBudget
    Courses <- OwnJobCourses
PROPERTIES
    WorkloadReadyMeansOwnJob
CHECK_DEADLOCK FALSE
