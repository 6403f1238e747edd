SPECIFICATION MCSpec
CONSTANTS
  Tasks = {1, 2, 3, 4}
  Graphs <- MCGraphs
  MinHits = 1
  MaxSeeds = 1
  MinConfidence = 1
  High = 3
  Agent = "dev"
  Requests = {1}
  Text <- MCText
  Manifests <- MCManifests
  Pools <- MCPools
  Keywords = {"k"}
  MaxNodes = 3
  Limits = {2, 3}
  Threshold = 2
  MaxAges = 1
  MaxFaults = 1
INVARIANTS
  GraphIsJudgedRight
  RunsOnDelivered
  NeverStuck
PROPERTIES
  KnowledgeIsKeptAndFound
CHECK_DEADLOCK FALSE
