SPECIFICATION Spec
CONSTANTS
    Clusters = {c1}
    Batch = 2
    MaxBlock = 4
    MaxFaults = 0
INVARIANT NoMemberSkipped
