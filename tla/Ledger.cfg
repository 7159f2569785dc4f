SPECIFICATION Spec
CONSTANTS
  DayTicks = 2
  u1 = u1
  u2 = u2
  s1 = s1
  s2 = s2
  s3 = s3
  s4 = s4
  Users = {u1, u2}
  Categories = {food, income}
  Statements <- MCStatements
  Clients = {u1}
  Requests = {r1, r2}
  Reading = {r1}
  Items <- MCItems
  OwnerOf <- MCOwnerOf
  StatementOf <- MCStatementOf
  Extracted <- MCExtracted
  Ranges <- MCRanges
  Months <- MCMonths
  Now <- MCNow
  Limits = {1, 9}
  Int4Max = 8
  None = None
INVARIANTS
  TypeOK
  TotalsCountWholeStatements
  OverviewAddsUp
  RemovalsAreReal
  LostRemovalHasWinner
PROPERTIES
  SpentIsOfMonth
SYMMETRY Symmetry
