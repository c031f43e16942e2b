\* Violated: twelve drivers roll on after a failed addComposeHash.
CONSTANTS
    VMs = {v1, v2, v3}
    Sources = {f1, f2}
    Scripts <- MCScripts
    MaxPolls = 1
    MaxFaults = 2
    NoVm = NoVm
SPECIFICATION Spec
PROPERTIES
    NoUnapprovedRoll
