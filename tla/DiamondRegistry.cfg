SPECIFICATION Spec
CONSTANTS
    e1 = e1  h1 = h1  safe1 = safe1  safe2 = safe2  c1 = c1  c2 = c2
    k1 = k1  w1 = w1  w2 = w2  root = root
    Accounts = {safe1, safe2}
    Contracts = {c1, c2}
    DerivedKeys = {k1}
    WgKeys = {w1, w2}
    Roots = {root}
    Envelopes = {e1}
    Commitments = {h1}
    Creator = safe1
    InitRoot = root
    Factory = Factory
    MaxEvents = 5
    MaxAdmin = 3
    None = None
SYMMETRY MCSymmetry
CHECK_DEADLOCK FALSE
INVARIANTS
    TypeOK
    MembersOwnTheirWallets
    EventsRebuildState
    MessagesIntroduced
