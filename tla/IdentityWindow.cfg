CONSTANTS
  s1 = s1
  s2 = s2
  e1 = e1
  g1 = g1
  g2 = g2
  Subjects = {s1, s2}
  Emails = {e1}
  NoEmail = NoEmail
  Absent = Absent
  NoOne = NoOne
  Replicas = {p1, p2}
  Requests = {q1, q2}
  Grants = {g1, g2}
  Roles = {r1}
  Claims <- SharedClaims
  Routes = {"handler"}
  Invited <- NobodyInvited
  MaxFaults = 1
SPECIFICATION Spec
SYMMETRY Symmetry
INVARIANT
  InvitationKept
CHECK_DEADLOCK FALSE
