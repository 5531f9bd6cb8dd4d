SPECIFICATION Spec
CONSTANTS
  r1 = r1  r2 = r2
  None = None
  Requests = {r1, r2}
  PollOptions <- Poll2
  Inputs <- OneDevice
  SettingsSet <- FixedVotes
  Events = {"close", "expire", "delete", "db", "redis", "restart"}
  MaxRestarts = 1
  MaxRetries = 1
  MaxSelections = 2
SYMMETRY RequestSymmetry
INVARIANTS DuplicateOnlyByRace CountedIsStored
CHECK_DEADLOCK FALSE
