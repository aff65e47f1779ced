CONSTANTS
  Users = {u1}
  Owner = u1
  ThingIds = {t1}
  Registered = {t1, c1}
  ChanIds = {c1}
  Keys = {k1}
  Metas = {m1}
  None = None
  BProcs = {b1, b2}
  Clients = {a1}
  Callers = {b1, b2, a1}
  ClientOps = {"removeChannel", "updateChannel"}
  ExtIds = {e1}
  ExtKeys = {x1}
  StreamLen = 1
  BatchSize = 1
  EsFaults = TRUE
  SdkFaults = FALSE
  DbFaults = TRUE
  Crashes = TRUE
  Serial = FALSE
SPECIFICATION MCSpec
SYMMETRY Symmetry
INVARIANTS TypeOK ConfigIntegrity 
