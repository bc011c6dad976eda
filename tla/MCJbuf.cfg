SPECIFICATION JbSpec
CONSTANTS
  SeqSpace = 64
  JbMin = 3
  JbMax = 5
  FirstNum = 60
  LastNum = 68
  Copies = 2
  Displaced = 2
INVARIANTS
  FramesAccounted
  PlayedInOrder
PROPERTY
  InTimeAccepted
CHECK_DEADLOCK FALSE
