SPECIFICATION Spec
CONSTANTS
  Forms <- TwoForms
  Sizes = {1, 2}
  Links <- TwoLinks
  Seeds <- TwoSeeds
  MaxRows = 3
  MaxCommits = 1
  MaxRequests = 3
  MaxEdits = 2
  MayFail = TRUE
  None = None
  Gone = Gone
CHECK_DEADLOCK FALSE
INVARIANTS CountFitsPage NothingSkipped ViewIsLinked
PROPERTY LoadingEnds
