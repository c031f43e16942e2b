SPECIFICATION Spec
CONSTANTS
    m1 = m1  m2 = m2  s1 = s1  s2 = s2
    Members = {m1}
    Sessions = {s1, s2}
    RegBlock <- MCRegBlock
    LogsPerBlock = 1
    Batch = 1
    Capacity = 3
    AckCapacity = 1
    MaxBlock = 2
    MaxFaults = 1
    NoSession = NoSession
SYMMETRY SessionSymmetry
INVARIANTS
    TypeOK
    CursorPassesOnlyHandled
    ClientCursorPassesOnlyHandled
PROPERTIES
    HandledInChainOrder
    DurableCursorMonotone
