SPECIFICATION Spec
CONSTANTS
  HEARTBEAT = 3
  U64 = 11
  MaxLag = 2
  Vectors <- MCVectors
INVARIANT
  HeartbeatOnTime
PROPERTIES
  HeartbeatsForever
  InterruptTransparent
