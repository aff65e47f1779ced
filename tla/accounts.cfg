CONSTANTS
  Users = {u1, u2}
  KeyIds = {k1}
  None = None
  Procs = {p1, p2}
  LoginDuration = 1
  ResetDuration = 1
  Durations = {0, 1}
  MaxTime = 3
  MaxTokens = 3
  Passwords = {w1}
  Metas = {m1}
SPECIFICATION Spec
SYMMETRY Symmetry
INVARIANTS TypeOK RevokedStaysOut ExpiredNotAccepted
PROPERTY OnlyOwnerRevokes
