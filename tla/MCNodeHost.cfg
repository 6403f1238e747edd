SPECIFICATION FairHosts
CONSTANTS
  node = node
  profile = profile
  Nodes = {node}
  EnrolledNodes = {node}
  Instances = {i1}
  NodeOf <- MCNodeOf
  ProfileOf <- MCProfileOf
  LongExpired = 3
  HeartbeatTTL = 1
  MaxLate = 1
INVARIANTS
  LostIsUnresolvable
  WithdrawnStaysWithdrawn
PROPERTIES
  EnrolledNodeJoins
