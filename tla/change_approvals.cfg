SPECIFICATION HistorySpec
CONSTANTS
  h1 = h1  h2 = h2  h3 = h3  r1 = r1  r2 = r2
  None = None
  Handlers = {h1, h2, h3}
  Replicas = {r1, r2}
  Home <- TwoReplicas
  Approvers = {h1, h2}
  MayCrash = TRUE
  MaxChanges = 2
INVARIANTS TypeOK AuditedApprovalsHold ApprovedOnceUnlessOverlapped
\* The bound stops the system once its changes are created and approved.
CHECK_DEADLOCK FALSE
