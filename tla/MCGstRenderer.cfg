SPECIFICATION MCSpec
CONSTANTS
  a = a
  b = b
  c = c
  Obj = {a, b, c}
  LeftObj = {a, b}
  NoObj = NoObj
  MaxSize = 3
  MaxPending = 2
  PlaylistFails = FALSE
  LateErrors = TRUE
INVARIANTS MediaIsPlayed NothingHangs WorkerInStep
PROPERTY LeftSettles
