CONSTANTS
  Buffers = {b1, b2, b3, b4}
  NULL = NULL
  PACKET_QUEUE_STATS = FALSE
  LongMod = 2
  Guarded = FALSE
  ShipAtMost = 2
SPECIFICATION Spec
INVARIANTS NothingLost
