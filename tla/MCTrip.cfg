CONSTANTS
  NULL = NULL
  Dies = Dies
  W = 4
  MaxPieces = 4
  MaxRow = 2
SPECIFICATION MCSpec
CHECK_DEADLOCK FALSE
INVARIANTS TripKeeps FilterMeans SortsTotally RowsInPlace SearchKept
