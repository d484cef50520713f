SPECIFICATION MCSpec
CONSTANTS
  Oid = {o1, o2, o3, o4, o5}
  NoOid = NoOid
  MaxLen = 3
  MaxLag = 3
  Shuffled = TRUE
  Allowed = {"commands"}
  StepLen = 5
  StepAllowed = {"moves", "refused"}
SYMMETRY ItemSymmetry
INVARIANTS PlaceSettles ToldInStep
PROPERTIES ItemStays
