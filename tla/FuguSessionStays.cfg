CONSTANTS
  q1 = q1 q2 = q2 s1 = s1 a1 = a1 a2 = a2
  Requests = {q1, q2}
  Sessions = {s1}
  Accounts = {a1, a2}
  Sub1 = a1
  None = None
  SessionOf <- MCSessionOf
  Streamed <- MCStreamed
  Priority <- MCPriority
  MaxEpoch = 1
  Usages = {0, 1}
  MaxFaults = 1
SPECIFICATION Spec
PROPERTY SessionStays
CHECK_DEADLOCK FALSE
