SPECIFICATION Spec
CONSTANTS
  r1 = r1  r2 = r2
  None = None
  Requests = {r1, r2}
  PollOptions <- Poll2
  Inputs <- OneDevice
  SettingsSet <- AccountVotes
  Events = {}
  MaxRestarts = 0
  MaxRetries = 0
  MaxSelections = 2
INVARIANT OneVotePerAccount
CHECK_DEADLOCK FALSE
