SPECIFICATION MCSpec
CONSTANTS
  MaxBus = 3
  MaxMore = 1
  Scenarios = {{"hasty", "pause", "items"}, {"pause", "seek", "buffer"},
    {"pause", "seek", "items", "ready"}, {"seek", "items", "errors"}}
  Percent = {57, 100}
  Steps = {0, 30000}
  None = None
  MaxSets = 3
  MaxOthers = 2
  MaxFails = 2
INVARIANT Agrees
PROPERTIES Settles VolumesAgree NoEcho
CHECK_DEADLOCK FALSE
