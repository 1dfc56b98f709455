SPECIFICATION Spec
CONSTANTS
  r1 = r1
  r2 = r2
  r3 = r3
  q1 = q1
  q2 = q2
  free = free
  std = std
  pro = pro
  Resources <- ThreeResources
  Skus <- TwoTiers
  Free = free
  Gone = Gone
  Null = Null
  Requests <- Concurrent
  Ops <- Grows
  MaxRequests = 6
  MaxFaults = 1
CHECK_DEADLOCK FALSE
SYMMETRY Reorder
INVARIANTS NotOvercharged
