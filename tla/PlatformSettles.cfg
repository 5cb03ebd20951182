SPECIFICATION PromptSpec
CONSTANTS
    None = None
    Models = {"m1"}
    URIs = {"uri1", "uri2"}
    Digests = {"d1"}
    ModelSpecs <- MCModelSpecs
    ModelBudget <- EditModel
    Services = {"s1"}
    ServiceSpecs <- MCOneSpec
    TenantStates = {}
    InitialTenant <- SomeTenant
    ServiceBudget <- OneService
INVARIANT
    WritesBounded
PROPERTIES
    ServiceControllerSpec
    Settles
CHECK_DEADLOCK FALSE
