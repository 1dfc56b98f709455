SPECIFICATION Spec
CONSTANTS
  u1 = u1
  u2 = u2
  p1 = p1
  r1 = r1
  q1 = q1
  q2 = q2
  owner = owner
  data = data
  Users = {u1, u2}
  Orgs = {o1}
  Projects = {p1}
  Resources = {r1}
  Roles = {owner, data}
  Holds <- Grants
  Owner = owner
  DataOwner = data
  None = None
  Gone = Gone
  Requests = {q1, q2}
  MaxGrants = 2
CHECK_DEADLOCK FALSE
PROPERTY DeletesCascade
