SPECIFICATION Spec
CONSTANTS
  Requests = {r1, r2, r3}
  Users = {u1}
  NoToken = NoToken
  NoUser = NoUser
  Faults = {}
  ClientWaits = FALSE
SYMMETRY RequestSymmetry
INVARIANT OneLiveTokenPerSession
