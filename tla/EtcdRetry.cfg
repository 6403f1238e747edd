SPECIFICATION Spec
CONSTANTS
  a = a
  b = b
  i = i
  n = n
  Callers = {a, b}
  Owners = {a, b}
  OwnerOf <- MCOwnerOf
  Leader = Leader
  TaskKeys = {t}
  Profiles = {q}
  Nodes = {n}
  Instances = {i}
  Records = {}
  Values = {}
  None = None
  LeaseTTL = 1
  HeartbeatTTL = 0
  MaxClock = 1
  MaxCalls = 3
  MaxFaults = 1
INVARIANTS
  OneLeader
\* The bounds are reached.
CHECK_DEADLOCK FALSE
