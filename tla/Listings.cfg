SPECIFICATION Spec
CONSTANTS
  Rows = {1, 2, 3, 4}
  Times = {1, 2}
  Limits = {1, 2, 3}
INVARIANTS
  TypeOK
  WalkMissesNothing
  RepeatsAreShifts
  TotalCoversPage
