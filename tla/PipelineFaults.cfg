SPECIFICATION Spec
CONSTANTS
  Statements = {s1}
  Workers = {w1, w2}
  NoWorker = NoWorker
  Attempts = 3
  MaxStalled = 1
  Users = {u1}
  Files = {f1, f2}
  NoText = {f2}
  NoStatement = NoStatement
  Faults <- AllFaults
INVARIANTS
  TypeOK
  ParsedHasBatch
  FailedIsFinal
SYMMETRY WorkerSymmetry
