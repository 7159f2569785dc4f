SPECIFICATION Spec
CONSTANTS
  Statements = {s1, s2}
  Workers = {w1, w2}
  NoWorker = NoWorker
  Attempts = 2
  MaxStalled = 1
  Users = {u1, u2}
  Files = {f1}
  NoText = {}
  NoStatement = NoStatement
  Faults = {"crash", "db", "gemini", "redis"}
INVARIANTS
  OneStatementPerFile
  QueuedIsReady
  AnsweredWithOwnStatement
  CompletedIsParsed
  RetriedToTheEnd
PROPERTIES
  SettledIsFinal
  ImplementsIngestion
SYMMETRY Symmetry
