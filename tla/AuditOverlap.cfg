SPECIFICATION Spec
CONSTANTS
  Calls = {c1, c2}
  Foreign = {}
  Categories = {food, transport, other}
  Extracted = other
  NoCategory = NoCategory
SYMMETRY CallSymmetry
INVARIANT PreviousWasReplaced
