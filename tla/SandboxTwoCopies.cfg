\* Three VM ids, two compose files and one fault.
CONSTANTS
    VMs = {v1, v2, v3}
    Hashes = {h1, h2}
    MaxFaults = 1
    NoVm = NoVm
    NoHash = NoHash
SPECIFICATION Spec
INVARIANTS
    OneCopy
\* A deploy whose outcome is unknown is left to the operator: nothing runs.
CHECK_DEADLOCK FALSE
