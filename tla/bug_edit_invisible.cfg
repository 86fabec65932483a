SPECIFICATION Spec
CONSTANTS
  h1 = h1  h2 = h2  r1 = r1  r2 = r2  u1 = u1
  None = None
  Handlers = {h1, h2}
  Replicas = {r1, r2}
  Home <- TwoReplicas
  Serves <- EditorAndReader
  Details = {"d1", "d2"}
  Owners = {}
  Failures = {}
  TTL = 1
  MayCrash = FALSE
  MaxCIs = 1
  MaxWrites = 2
INVARIANTS EditsVisible
