SPECIFICATION FairSpec
CONSTANTS
  Clients = {c1}
  SendCap = 1
  BroadcastCap = 1
  MaxResults = 2
  MaxInFlight = 1
  Events = {}
INVARIANTS ConnectedIsPresent ViewersEndCurrent
PROPERTIES EvictedLeaves ResultsArrive
CHECK_DEADLOCK FALSE
