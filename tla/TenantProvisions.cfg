SPECIFICATION FairSpec
CONSTANTS
    None = None
    Models = {}
    URIs = {}
    Tenants = {"t1"}
    Quotas <- MCQuotas
    Budgets <- MCBudgets
INVARIANT
    TypeOK
PROPERTIES
    ReadyMeansProvisioned
    Settles
CHECK_DEADLOCK FALSE
