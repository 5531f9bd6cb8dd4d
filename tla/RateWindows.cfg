SPECIFICATION Spec
CONSTANTS
  Requests = {r1, r2, r3, r4, r5}
  IPs = {ip1, ip2}
  Limit = 2
  Window = 2
  MaxLag = 1
  MaxTime = 6
SYMMETRY Symmetry
INVARIANTS TypeOK AtMostTwice RejectedOnlyWhenFull
CHECK_DEADLOCK FALSE
