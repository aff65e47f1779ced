CONSTANTS
  Conns = {w1, w2}
  NatsFails = TRUE
  ReadFails = TRUE
SPECIFICATION FairSpec
INVARIANTS TypeOK NoSendOnClosed
PROPERTY CloseEndsAll
CHECK_DEADLOCK FALSE
