SPECIFICATION Spec
CONSTANTS
  App = {x}
  Base = {"a"}
  Loaded <- TwoLoaded
  MaxCalls = 2
  MaxStarts = 1
  NoList = NoList
  NoCall = NoCall
INVARIANTS NothingDeadKept
CHECK_DEADLOCK FALSE
