CONSTANTS
  Users = {u1, u2}
  ThingIds = {t1, t2}
  ChanIds = {c1}
  Keys = {k1}
  Metas = {m1}
  None = None
  Procs = {p1, p2}
  RedisFaults = TRUE
  MaxBatch = 1
SPECIFICATION Spec
SYMMETRY Symmetry
INVARIANTS TypeOK ReferentialIntegrity TenantIsolation GrantWasAuthorised
PROPERTY ImplementsAccess
