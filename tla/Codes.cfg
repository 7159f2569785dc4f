SPECIFICATION Spec
CONSTANTS
  Requests = {r1, r2, r3}
  Emails = {e1, e2}
  Values = {v1, v2}
  NoValue = NoValue
  NoRequest = NoRequest
  MaxTries = 2
  Faults = {"abort"}
SYMMETRY CodeSymmetry
INVARIANTS
  TypeOK
  CodeActsForItsOwner
  CodeWorksOnce
  NewerCodeReplacesOlder
  ResetSpendsEarlierCodes
  ResetEndsEarlierSessions
  AnsweredResetTookEffect
  SessionsAreVerified
PROPERTIES
  OnlyResetChangesPassword
