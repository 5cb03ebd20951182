SPECIFICATION Spec
CONSTANTS
    None = None
    Models = {}
    URIs = {}
    Tenants = {"t1"}
    Quotas <- MCOneQuota
    Budgets <- MCFaultBudget
PROPERTY
    ConditionsReflectResources
CHECK_DEADLOCK FALSE
