SPECIFICATION Spec
CONSTANTS
  Tasks = {1, 2, 3, 4}
  Deps <- Diamond
  Agents = {0, 1}
  AgentOf <- Middle
  Limit <- OneAtATime
  Ops = {}
  Outcomes = {"completed", "failed", "escalated"}
  Slots = {1, 2, 3}
  MaxOps = 0
  MaxGen = 0
  MaxLost = 1
  MaxRetries = 1
INVARIANTS
  LimitsHold
PROPERTIES
  PromisedRun
  Ends
CHECK_DEADLOCK FALSE
