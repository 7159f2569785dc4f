SPECIFICATION Spec
CONSTANTS
  Statements = {s1}
  Workers = {w1}
  NoWorker = NoWorker
  Attempts = 3
  MaxStalled = 1
  Users = {u1}
  Files = {f1}
  NoText = {}
  NoStatement = NoStatement
  Faults = {"db"}
INVARIANT NoDuplicateTransactions
