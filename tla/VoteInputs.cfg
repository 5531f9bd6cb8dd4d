SPECIFICATION FairSpec
CONSTANTS
  r1 = r1  r2 = r2
  None = None
  Requests = {r1, r2}
  PollOptions <- Poll2
  Inputs <- BroadInputs
  SettingsSet <- AllSettings
  Events = {}
  MaxRestarts = 0
  MaxRetries = 0
  MaxSelections = 2
INVARIANTS TypeOK DuplicateOnlyByRace CountedIsStored ExactAtRest OwnVoteVisible TotalAccounted ReadNeverUndercounts
PROPERTY VoteReachesViewers
CHECK_DEADLOCK FALSE
