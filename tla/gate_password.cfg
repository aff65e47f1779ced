CONSTANTS
  Keys <- MCKeys
  KeyLen = 36
  Sessions = {s1}
  DNs <- MCDNs
  Packets <- MCPackets
  Chunks <- MCChunks
SPECIFICATION GateSpec
INVARIANT ExtractsPassword
CHECK_DEADLOCK FALSE
