SPECIFICATION Spec
CONSTANTS
  Tasks = {1, 2}
  Deps <- Chain
  Agents = {0, 1}
  AgentOf <- Middle
  Limit <- NoLimit
  Ops = {"pause", "cancel", "amend", "restructure"}
  Outcomes = {"completed", "failed"}
  Slots = {1, 2, 3, 4}
  MaxOps = 2
  MaxGen = 1
  MaxLost = 1
  MaxRetries = 0
INVARIANTS
  GoroutinesAreCounted
  RunningIsExecuted
  RunningCanBeStopped
PROPERTIES
  CancelEnds
CHECK_DEADLOCK FALSE
