SPECIFICATION Spec
CONSTANTS
  Calls = {c1, c2, c3, x}
  Foreign = {x}
  Categories = {food, transport, other}
  Extracted = other
  NoCategory = NoCategory
SYMMETRY CallSymmetry
INVARIANTS
  TypeOK
  TrailEndsInCategory
  ExactUnlessOverlapped
