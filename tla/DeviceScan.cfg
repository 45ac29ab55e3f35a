CONSTANTS
  MAX_SLOTS = 3
  Boards <- MCBoards
  Drivers = {"ishw", "serial", "any"}
  Asked <- MCAskedAny
  Buffers = 4
  Driver = "ishw"
  MaxFrames = 1
SPECIFICATION Spec
PROPERTIES BeginAsDocumented
CHECK_DEADLOCK FALSE
