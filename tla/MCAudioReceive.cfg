SPECIFICATION Spec
CONSTANTS
  SeqSpace = 32
  JbMin = 2
  JbMax = 3
  FirstNum = 29
  LastNum = 35
  Copies = 2
  Displaced = 1
  NewSource = 34
  LossMax = 5
  LateMax = 2
  WishSz = 2
  MaxSz = 5
  PktSz = 3
  ReadSz = 2
  NoBuffer = NoBuffer
INVARIANTS
  BytesExact
  SoundInOrder
CHECK_DEADLOCK FALSE
