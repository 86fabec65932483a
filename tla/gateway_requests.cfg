SPECIFICATION Spec
CONSTANTS
  Clients = {"first", "second", "viewer"}
  SignedIn <- TwoUsers
  Offers <- ThreeClients
  Asked = {1, 2}
  UserIds = {1, 2, 3}
  Users = {1, 2}
  RoleOf <- TwoRoles
  SeedIncidents <- TwoIncidents
  SeedCis = 1
  SeedChanges = 1
  SeedLinks <- OneLink
  PageLimit = 1
  MaxRows = 3
  MaxRequests = 2
  MaxCrashes = 1
  None = None
  Unstorable = Unstorable
  Gone = Gone
CHECK_DEADLOCK FALSE
INVARIANTS
  TypeOK
  LinksJoinRows
  ManagersWrite
  EveryErrorHandled
  AnswersTellWhatHappened
  OutagesAreContained
  AuditTrailComplete
  PagesTellTheTruth
PROPERTY RequestsAnswered
