CONSTANTS
  Obs = {o1, o2}
  ObsIds = {i1}
  Silent = {o2}
  None = None
  MaxRetransmit = 2
SPECIFICATION FairSpec
INVARIANTS TypeOK MapHoldsLive EveryObserverPinged
PROPERTIES CancelledEnds SilentIsDropped
