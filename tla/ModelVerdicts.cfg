SPECIFICATION PromptSpec
CONSTANTS
    None = None
    Models = {"m1"}
    URIs = {"uri1"}
    Digests = {"d1", "d2"}
    ModelSpecs <- MCModelSpecs
    Budget <- LifeBudget
INVARIANTS
    TypeOK
    WritesBounded
PROPERTIES
    ImplementsStatusWriter
    VerdictSettles
CHECK_DEADLOCK FALSE
