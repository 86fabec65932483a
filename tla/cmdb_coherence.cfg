SPECIFICATION FairSpec
CONSTANTS
  h1 = h1  h2 = h2  r1 = r1  r2 = r2  u1 = u1
  None = None
  Handlers = {h1, h2}
  Replicas = {r1, r2}
  Home <- TwoReplicas
  Serves <- WriterAndReader
  Details = {"d1"}
  Owners = {u1}
  Failures = {"redis", "users", "rabbitmq", "audit"}
  TTL = 2
  MayCrash = TRUE
  MaxCIs = 1
  MaxWrites = 3
INVARIANTS TypeOK
PROPERTIES EventuallyCoherent
