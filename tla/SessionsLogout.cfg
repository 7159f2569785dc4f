SPECIFICATION Spec
CONSTANTS
  Requests = {r1, r2}
  Users = {u1}
  NoToken = NoToken
  NoUser = NoUser
  Faults = {}
  ClientWaits = TRUE
SYMMETRY RequestSymmetry
INVARIANT LogoutEndsSession
