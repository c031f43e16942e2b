SPECIFICATION CskLiveSpec
CONSTANTS
    n1 = n1  n2 = n2  n3 = n3
    Nodes = {n1, n2}
    Faulty = {}
    Retired = {n1}
    Parallelism = 1
    KmsErrors = TRUE
    MaxFaults = 3
    MaxReverts = 0
    NoNode = NoNode
PROPERTY CachedNodesRecover
CHECK_DEADLOCK FALSE
