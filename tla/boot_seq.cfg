CONSTANTS
  Users = {u1}
  Owner = u1
  ThingIds = {t1}
  Registered = {c1}
  ChanIds = {c1, c2}
  Keys = {k1}
  Metas = {m1}
  None = None
  BProcs = {b1}
  Clients = {a1}
  Callers = {b1, a1}
  ClientOps = {"connect", "disconnect", "removeThing", "removeChannel", "updateThing", "updateKey", "createChannels"}
  ExtIds = {e1}
  ExtKeys = {x1}
  StreamLen = 2
  BatchSize = 2
  EsFaults = FALSE
  SdkFaults = TRUE
  DbFaults = FALSE
  Crashes = FALSE
  Serial = TRUE
SPECIFICATION MCFairSpec
INVARIANTS NoDanglingChannels ActiveIsConnected
PROPERTY RemovedThingLosesConfig
