SPECIFICATION FairSpec
CONSTANTS
  a = a
  b = b
  Tasks = {1, 2}
  Instances = {a, b}
  Nodes = {1, 2}
  NodeOf <- Apart
  Capacity <- OneEach
  None = None
  Flaky = {a}
  MaxFaults = 2
INVARIANTS
  ResultIsOfTheLastDispatch
  LoadCountsPlacements
  LeaseBelongsToDispatch
PROPERTIES
  DispatchesEnd
CHECK_DEADLOCK FALSE
