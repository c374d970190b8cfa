CONSTANTS
    Coll = {c1}
    ReopenMin = 1
    ReopenMax = 3
    SilentReopen = TRUE
    CloseMayFail = TRUE
SPECIFICATION FairSpec
INVARIANT OwnerSilencesCollector
PROPERTY OwnershipSpec
PROPERTY CollectionResumes
