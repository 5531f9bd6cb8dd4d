SPECIFICATION Spec
CONSTANTS
  p1 = p1  p2 = p2  a = a  b = b  c = c  f1 = f1  f2 = f2  u1 = u1  u2 = u2
  Polls = {p1}
  OptionsOf <- OneChoice
  Settings <- TokenSettings
  Accounts = {u1, u2}
  Prints = {f1, f2}
  MaxTokens = 2
  MaxRequests = 2
  MaxEvents = 2
  Events = {"clear", "print", "session", "open"}
  None = None
SYMMETRY Symmetry
INVARIANT OneBallotPerBrowser
CHECK_DEADLOCK FALSE
