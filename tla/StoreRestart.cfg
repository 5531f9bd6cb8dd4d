SPECIFICATION Spec
CONSTANTS
  Users = {u1}
  Polls = {p1}
  Votes = {v1}
  Choices = {c1, c2}
  Events = {"crash"}
  MaxCrashes = 1
  None = None
  Absent = Absent
  Torn = Torn
CHECK_DEADLOCK FALSE
PROPERTY RestartKeepsUsers
