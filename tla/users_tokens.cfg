SPECIFICATION Spec
CONSTANTS
  h1 = h1  h2 = h2  anna = anna  erik = erik
  None = None
  Handlers = {h1, h2}
  Serves <- TwoHandlers
  Requested = {"admin", "viewer"}
  Emails = {anna, erik}
  MayReset = TRUE
  TTL = 1
  MaxUsers = 2
  MaxTokens = 2
  MaxTime = 2
SYMMETRY EmailSymmetry
INVARIANTS TypeOK OneAccountPerEmail DemotionTakesEffect ViewersUntilBootstrap
