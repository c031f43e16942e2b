SPECIFICATION CskSpec
CONSTANTS
    n1 = n1  n2 = n2  n3 = n3
    Nodes = {n1, n2, n3}
    Faulty = {n2}
    Retired = {}
    Parallelism = 2
    KmsErrors = TRUE
    MaxFaults = 1
    MaxReverts = 1
    NoNode = NoNode
SYMMETRY MCSymmetry
INVARIANTS
    CskTypeOK
    Agreement
    CacheTrusted
CHECK_DEADLOCK FALSE
