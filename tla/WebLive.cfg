CONSTANTS
  p1 = p1
  p2 = p2
  Projects <- TwoProjects
  First = p1
  UrlTypes <- TypesOfLinks
  UrlSkus <- SkusOfLinks
  NoProject = NoProject
  None = None
  MaxRequests = 2
  Nil = Nil
  MaxSinks = 1
  MaxRoutes = 1
  MaxUpdates = 1
  Ids = {"kafka"}
  SecretNames = {"kafka", "Kafka"}
  IdOf <- Slug
  Gone = Gone
  MaxLeft = 1
  Scopes = {"graph", "project"}
  Members = {"ada"}
  Nobody = Nobody
  Queries = {"q1", "q2"}
  NoQuery = NoQuery
  MaxRetries = 3
  NoInfo = NoInfo
  Operations = {1, 2}
  ProjectIds = {"p1", "p2"}
  Nothing = Nothing
  Visits = {"editor", "watch", "account"}
SPECIFICATION WebFairSpec
INVARIANTS
  EditorTypeOK
  PollsWhileTransient
  WatchTypeOK
  AccountTypeOK
PROPERTIES
  EditsKept
  TransientRefreshed
  FailureTold
  UpdatingEnds
CHECK_DEADLOCK FALSE
