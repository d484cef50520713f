SPECIFICATION FairSpec
CONSTANTS
  App = {x, y}
  Uuid = {s}
  MaxEvents = 4
  None = None
INVARIANTS StaleOnlyIfHasty ActiveIfActivated
PROPERTY Found
CHECK_DEADLOCK FALSE
