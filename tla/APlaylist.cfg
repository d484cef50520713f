SPECIFICATION Spec
CONSTANTS
  Oid = {o1, o2, o3, o4}
  NoItem = NoItem
  MaxLen = 4
  MaxBatch = 2
SYMMETRY OidSymmetry
INVARIANT NoRepeat
PROPERTIES OrderKept Retrace NoneSkipped
