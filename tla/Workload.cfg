CONSTANTS
  Buffers = {b1, b2, b3, b4}
  NULL = NULL
  PACKET_QUEUE_STATS = TRUE
  LongMod = 3
  FACE_COUNT = 4
  PACKET_MAX_WORDS = 3
  EdgeWords = 2
  CornerWords = 4
SPECIFICATION FairSpec
INVARIANTS TypeOK OneOwner NoBadData StatsBalance
INVARIANTS InvOfLists NeverNullBuffer EventStartsQuiet ShortQueues
PROPERTIES ImplementsTraffic EventsGoOn BuffersComeBack
