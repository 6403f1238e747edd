SPECIFICATION Spec
CONSTANTS
  a = a
  b = b
  Conductors = {a, b}
  IDs = {a, b}
  ConductorID <- Distinct
  Asked = {a}
  Requests = {1, 2}
  Tasks = {1, 2}
  Loops = {2}
  Plans <- Work
  None = None
  MaxFaults = 0
INVARIANTS
  AmendedIsDelivered
\* The fabric may be left alone.
CHECK_DEADLOCK FALSE
