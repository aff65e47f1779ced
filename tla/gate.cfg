CONSTANTS
  Keys <- MCKeys
  KeyLen = 36
  Sessions = {s1}
  DNs <- MCDNs
  Packets <- MCPackets
  Chunks <- MCChunks
SPECIFICATION GateSpec
INVARIANTS AllowedIsCertified HolderIsAdmitted UpstreamKeyIsCertified
CHECK_DEADLOCK FALSE
