SPECIFICATION RegSpec
CONSTANTS
  Clients = {1, 2}
  RegInt = 25
  Granted = {21}
  DefaultExpires = 31
  MinExpires = 25
  Tenths = 9
  TransTimeout = 1
  FailWaits = {1}
  LoopMax = 2
  Word = 24
  Outbound = TRUE
INVARIANTS ShownIsBound Pursued GoneIsUnbound
PROPERTY Leaves
CHECK_DEADLOCK FALSE
