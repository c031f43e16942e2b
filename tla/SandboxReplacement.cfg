\* Three VM ids, three compose files and two faults.
CONSTANTS
    VMs = {v1, v2, v3}
    Hashes = {h1, h2, h3}
    MaxFaults = 2
    NoVm = NoVm
    NoHash = NoHash
SPECIFICATION FairSpec
INVARIANTS
    TypeOK
    NoVmLost
PROPERTIES
    Exclusive
    HandOver
    JournalSettles
\* A deploy whose outcome is unknown is left to the operator: nothing runs.
CHECK_DEADLOCK FALSE
