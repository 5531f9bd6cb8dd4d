SPECIFICATION Spec
CONSTANTS
  Clients = {c1, c2}
  SendCap = 1
  BroadcastCap = 1
  MaxResults = 0
  MaxInFlight = 0
  Events = {"redis", "expire"}
SYMMETRY Symmetry
INVARIANTS TypeOK ChannelsClosedOnce NoGaps
CHECK_DEADLOCK FALSE
