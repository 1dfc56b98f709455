SPECIFICATION Spec
CONSTANTS
  r1 = r1
  r2 = r2
  r3 = r3
  q1 = q1
  q2 = q2
  free = free
  std = std
  pro = pro
  Resources <- TwoResources
  Skus <- ThreeTiers
  Free = free
  Gone = Gone
  Null = Null
  Requests <- Concurrent
  Ops <- AllOps
  MaxRequests = 6
  MaxFaults = 1
CHECK_DEADLOCK FALSE
SYMMETRY Resort
CONSTRAINT Separated
INVARIANTS
  TypeOK
  NotOvercharged
  BillExact
  SubscriptionOfCustomer
PROPERTY ChargedFirst
