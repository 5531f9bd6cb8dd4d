SPECIFICATION Spec
CONSTANTS
  Users = {u1, u2}
  Polls = {p1}
  Votes = {v1, v2}
  Choices = {c1, c2}
  Events = {"crash", "disk"}
  MaxCrashes = 2
  None = None
  Absent = Absent
  Torn = Torn
SYMMETRY Symmetry
INVARIANTS TypeOK AlwaysOnDisk
PROPERTIES ImplementsKeptStore
CHECK_DEADLOCK FALSE
