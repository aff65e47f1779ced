CONSTANTS
  Orgs = {"foo", "foobar"}
  Main = "Main Org."
  Contains <- MCContains
  Workers = {w1, w2}
  Sensors = {s1, s2}
  NumDash = 2
  AlarmDash = 1
  None = None
  MaxRequests = 3
  MaxRefusals = 1
SPECIFICATION Spec
SYMMETRY Symmetry
INVARIANTS SuccessIsProvisioned DatasourcesAreOwn
PROPERTY AlarmsAreKept
CHECK_DEADLOCK FALSE
