SPECIFICATION CskSpec
CONSTANTS
    n1 = n1  n2 = n2  n3 = n3
    Nodes = {n1, n2}
    Faulty = {n2}
    Retired = {}
    Parallelism = 2
    KmsErrors = FALSE
    MaxFaults = 0
    MaxReverts = 1
    NoNode = NoNode
INVARIANTS
    HeldIsCommitted
CHECK_DEADLOCK FALSE
