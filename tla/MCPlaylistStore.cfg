SPECIFICATION Spec
CONSTANTS
  MaxId = 2
  Name = {a, b}
  MaxRev = 1
  c1 = c1
  c2 = c2
  Client = {c1, c2}
  MaxHold = 2
  UseMod = 5
  Bounds <- MCBounds
  NoFile = NoFile
  Empty = Empty
  Dangling = Dangling
INVARIANTS NamesExact UseCountsRight
PROPERTIES VaultSpec EditsReachDisk
