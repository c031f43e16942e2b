\* Every helper, three VM ids, two compose files, a poll of one GetInfo call
\* and two faults.
CONSTANTS
    VMs = {v1, v2, v3}
    Sources = {f1, f2}
    Scripts <- MCScripts
    MaxPolls = 1
    MaxFaults = 2
    NoVm = NoVm
SPECIFICATION Spec
INVARIANTS
    TypeOK
    UpdateTookEffect
    NoTwins
PROPERTIES
    BootsApproved
SYMMETRY Symmetry
