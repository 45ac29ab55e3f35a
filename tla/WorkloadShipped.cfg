CONSTANTS
  Buffers = {b1, b2, b3, b4, b5, b6}
  NULL = NULL
  PACKET_QUEUE_STATS = FALSE
  LongMod = 2
  FACE_COUNT = 4
  PACKET_MAX_WORDS = 62
  EdgeWords = 74
  CornerWords = 111
SPECIFICATION Spec
PROPERTIES WholeWindowShipped
