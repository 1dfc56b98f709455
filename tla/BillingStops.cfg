SPECIFICATION Spec
CONSTANTS
  r1 = r1
  r2 = r2
  r3 = r3
  q1 = q1
  q2 = q2
  free = free
  std = std
  pro = pro
  Resources <- OneResource
  Skus <- TwoTiers
  Free = free
  Gone = Gone
  Null = Null
  Requests <- Serial
  Ops <- Retier
  MaxRequests = 5
  MaxFaults = 0
CHECK_DEADLOCK FALSE
INVARIANT BillingStops
