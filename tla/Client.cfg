\* The bounds on what is typed and sent end the behaviours.
SPECIFICATION Spec
CONSTANTS
  Inputs = {"stats", "quote", "number", "dashes", "blank", "editstats", "quit"}
  MaxInputs = 1
  MaxAhead = 1
  MaxQueue = 2
  MaxOthers = 1
  MaxMessages = 3
INVARIANTS
  OnlyNumbersAreLost
  HidesOneStretch
  SilentAnswerIsHidden
PROPERTIES
  CatchesUp
CHECK_DEADLOCK FALSE
