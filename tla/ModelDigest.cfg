SPECIFICATION FairSpec
CONSTANTS
    None = None
    Models = {"m1"}
    URIs = {"uri1"}
    Digests = {"d1", "d2"}
    ModelSpecs <- MCDigestSpecs
    Budget <- EditBudget
PROPERTY
    DigestSettles
CHECK_DEADLOCK FALSE
