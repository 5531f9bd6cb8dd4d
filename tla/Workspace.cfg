SPECIFICATION Spec
CONSTANTS
  None = None
  a1 = a1  a2 = a2  p1 = p1  p2 = p2  blank = blank  x = x  y = y  z = z
  Accounts = {a1, a2}
  Polls = {p1, p2}
  MaxOld = 1
  Loads = {1, 2}
  Texts <- Words
  Blank = blank
  Lower <- JSLower
  GoLower <- ToLower
  GoBlank = {blank}
  Long = {z}
  Templates <- OneTemplate
  MaxOptions = 3
  MaxCalls = 2
  Events = {"load", "form", "tab", "device"}
  MaxEvents = 1
SYMMETRY Symmetry
INVARIANTS TypeOK SessionAgrees ListBelongs AcknowledgedShown PlainAccepted OneLaunchOnePoll
