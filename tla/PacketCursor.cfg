CONSTANTS
  MAX_PACKET_LENGTH = 252
  MAX_FACE_INDEX = 41
  BufferLength = 24
  UIntMod = 4096
  Messages <- MCMessages
  BlockLengths = {1, 3}
  Codes <- MCCodes
  MaxLens = {0, 2, 252, 4095}
  Indices = {0, 1, 5, 300}
SPECIFICATION Spec
INVARIANTS CursorAtFirstUnread
