CONSTANTS
  MAX_SLOTS = 3
  Boards <- MCBoards
  Drivers = {"ishw", "serial", "debug", "other"}
  Asked <- MCAsked
  Buffers = 4
  Driver = "ishw"
  MaxFrames = 6
SPECIFICATION FairSpec
INVARIANTS TypeOK RingExact BehindReported LastFrameNoticed
PROPERTIES NoticedAnswered 
CHECK_DEADLOCK FALSE
