SPECIFICATION FairRacesSpec
CONSTANTS
  h1 = h1  h2 = h2  t1 = t1  t2 = t2  r1 = r1  r2 = r2
  u1 = u1  c1 = c1  c2 = c2
  None = None
  Handlers = {h1, h2}
  Tasks = {t1, t2}
  Replicas = {r1, r2}
  Home <- TwoReplicas
  Serves <- LinksAndDeletes
  Users = {}
  Changes = {c1}
  Details = {"d1"}
  SeverityInputs = {"low"}
  StatusInputs = {"in_progress", "RESOLVED", "closed"}
  SeverityAnswers = {None}
  StatusAnswers = {None}
  SummaryAnswers = {"summary", None}
  AuditOutcomes = {"recorded"}
  MayCrash = FALSE
  MayBackfill = TRUE
  MaxIncidents = 2
  MaxCalls = 4
  MaxTime = 1
INVARIANTS LinksPointToStored LinkTrailBalanced AuditedDeletionsAreGone
PROPERTIES PendingResolves
\* The bounds stop the system once its requests are used up.
CHECK_DEADLOCK FALSE
