SPECIFICATION Spec
CONSTANTS
  h1 = h1  h2 = h2  r1 = r1  r2 = r2  u1 = u1
  None = None
  Handlers = {h1, h2}
  Replicas = {r1, r2}
  Home <- TwoReplicas
  Serves <- Relators
  Details = {"d1"}
  Owners = {}
  Failures = {"redis"}
  TTL = 1
  MayCrash = TRUE
  MaxCIs = 2
  MaxWrites = 4
INVARIANTS RelationshipsPointToStored AuditedDeletionsAreGone
PROPERTIES InvalidationsOwed
