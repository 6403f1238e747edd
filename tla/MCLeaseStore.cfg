SPECIFICATION MCSpec
CONSTANTS
  a1 = a1
  a2 = a2
  b1 = b1
  A = A
  B = B
  Callers = {a1, a2, b1}
  Owners = {A, B}
  OwnerOf <- MCOwnerOf
  InstanceIDs = {i1, i2}
  NoOwner = NoOwner
  NoInstance = NoInstance
  TTL = 1
  MaxClock = 2
  MaxEpoch = 3
  Processes = {A, B}
  LeafTTL = 5
  ShortTTL = 3
  RefreshMargin = 3
  RetryDelay = 1
  Slack = 2
  CALifetime = 8
  RotationWindow = 7
  MaxNow = 8
  MaxCuts = 1
  MaxErrors = 1
SYMMETRY InstanceSymmetry
INVARIANTS
  EpochNamesOneGrant
  CertificatesAreTrusted
PROPERTIES
  ProfileStaysPinned
  RenewalNeverShortens
  FencedSpec
CHECK_DEADLOCK FALSE
