SPECIFICATION Spec
CONSTANTS
  p1 = p1  p2 = p2  a = a  b = b  c = c  f1 = f1  f2 = f2  u1 = u1  u2 = u2
  Polls = {p1, p2}
  OptionsOf <- Choices
  Settings <- PageSettings
  Accounts = {u1}
  Prints = {f1}
  MaxTokens = 1
  MaxRequests = 2
  MaxEvents = 2
  Events = {"close", "open", "switch"}
  None = None
SYMMETRY PageSymmetry
INVARIANTS TypeOK KeptVoteWasAccepted MarkedIsAccepted
CHECK_DEADLOCK FALSE
