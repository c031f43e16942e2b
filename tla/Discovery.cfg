SPECIFICATION LiveSpec
CONSTANTS
    Clusters = {c1, c2}
    Batch = 2
    MaxBlock = 4
    MaxFaults = 2
INVARIANTS
    TypeOK
    FactoryScanComplete
    MembersCached
PROPERTY EventuallyFollowed
