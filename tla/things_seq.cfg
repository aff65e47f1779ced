CONSTANTS
  Users = {u1, u2}
  ThingIds = {t1, t2}
  ChanIds = {c1}
  Keys = {k1, k2}
  Metas = {m1}
  None = None
  Procs = {p1}
  RedisFaults = FALSE
  MaxBatch = 2
SPECIFICATION Spec
SYMMETRY Symmetry
INVARIANTS ChanCacheCoherent
