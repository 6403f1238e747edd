SPECIFICATION MCSpec
CONSTANTS
  a1 = a1
  a2 = a2
  b1 = b1
  a = a
  b = b
  n = n
  i = i
  r = r
  q = q
  Callers = {a1, a2, b1}
  Stores = {a, b}
  Owners = {a, b}
  StoreOf <- MCStoreOf
  OwnerOf <- MCStoreOf
  Leader = Leader
  TaskKeys = {task}
  Profiles = {q}
  Nodes = {n}
  Instances = {i}
  Records = {r}
  Values = {v}
  None = None
  LeaseTTL = 1
  HeartbeatTTL = 0
  MaxClock = 1
  MaxCalls = 2
  MaxFaults = 1
  Handlers = {a1, a2, b1}
  ClientOf <- MCStoreOf
  SubjectOf <- MCSubjectOf
  AttestOf <- MCAttestOf
  Fabric = Fabric
  MaxTime = 1
  MaxRpcs = 3
  MaxLosses = 1
PROPERTIES
  AtomicSpec
  CallsEnd
  RemoteIsAtomic
\* The bounds are reached.
CHECK_DEADLOCK FALSE
