SPECIFICATION Spec
CONSTANTS
  Requests = {r1, r2, r3, r4}
  Users = {u1, u2}
  NoToken = NoToken
  NoUser = NoUser
  Faults = {"abort"}
  ClientWaits = TRUE
SYMMETRY RequestSymmetry
INVARIANTS
  TypeOK
  RotatedIsRevoked
  OneLiveTokenPerSession
  ReuseEndsSession
  LogoutAllEndsSessions
PROPERTIES
  ImplementsSessions
