SPECIFICATION FairSpec
CONSTANTS
  p1 = p1  p2 = p2
  Polls = {p1, p2}
  Sockets = {s1, s2}
  Calls = {c1, c2}
  MaxAttempts = 1
  MaxVotes <- OneVote
  MaxInbox = 1
  None = None
INVARIANTS TypeOK NoZombies GivesUpOnlyWhenSpent ResultsMatch LastSentShown
PROPERTIES ReconnectEnds LoadingEnds
CHECK_DEADLOCK FALSE
