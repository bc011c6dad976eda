SPECIFICATION Spec
CONSTANTS
  Calls = {1, 2}
  LocalTimeout = 1
  MaxCalls = 1
  RingingTimeout = 1
INVARIANT
  AnsweredWhenAsked
