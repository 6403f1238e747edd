SPECIFICATION MCSpec
CONSTANTS
  Setups <- MCSetups
  MaxIterations = 4
  RedirectBonus = 2
  VerifyRetries = 2
  VerifyBonus = 1
  MaxRetries = 2
  Budget = 2
  MaxSpent = 3
  Profiles = {1, 2}
  Upstream <- MCUpstream
  Remote = {1}
  Names = {"a"}
  MaxRequests = 2
  MaxEdits = 1
  MaxFailures = 1
  Paths = {"p"}
  Contents = {1, 2}
  Window = 9
  Long = 3
  Iterations = 6
  Proactive = 2
  Retries = 1
  Deps = {"1", "2"}
  AgentOf <- MCAgentOf
  Worker = "dev"
  Reviewer = "design"
  Kinds = {"design", "summary", "decision", "lock"}
  Noise = {"lock"}
  Room = 7
  Results = {0, 1, 9}
  Floor = 16
  LastLine = 1
  MaxListed = 2
  MaxHops = 2
INVARIANTS
  UpstreamArrives
  LoopIsBounded
  NoToolOutlivesTheLoop
  ForgettingIsHarmless
PROPERTIES
  TurnEnds
CHECK_DEADLOCK FALSE
