SPECIFICATION MCSpec
CONSTANTS
  dev = dev
  rev = rev
  NoAgent = NoAgent
  Agents = {dev, rev}
  MaxTransitions = 3
  Defs <- MCDefs
  InboxSize = 1
  MailSize = 2
  MaxDispatches = 2
  MaxCrashes = 1
  Loops = {1, 2, 3}
  OwnerOf <- MCOwnerOf
  Needs <- MCNeeds
  First <- MCFirst
  Profiles = {"p", "q"}
  Offers <- MCOffers
  Free = Free
  MaxTries <- MCTries
  MaxFaults = 1
INVARIANTS
  OneBoundedHop
  ReservationsHold
PROPERTIES
  SettledByItsDispatch
  CompletedIsApproved
  Answered
CHECK_DEADLOCK FALSE
