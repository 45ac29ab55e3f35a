CONSTANTS
  Buffers = {b1, b2, b3, b4}
  NULL = NULL
  PACKET_QUEUE_STATS = FALSE
  LongMod = 2
  Guarded = TRUE
  ShipAtMost = 2
SPECIFICATION FairSpec
INVARIANTS TypeOK ListsAtInterrupts
PROPERTIES ImplementsChannel ArrivalsFreed
CHECK_DEADLOCK FALSE
