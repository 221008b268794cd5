SPECIFICATION TrialSpec
CONSTANTS
  Printable = {"x"}
  LineSize = 2
  ReadSize = 2
  Chunk = 2
  MaxRate = 1
  Timeout = 1
  MaxBuffered = 1
  HealTime = 1
  Backlog = 2
INVARIANTS
  LinesAreTyped
  BurstBound
PROPERTIES
  TimeoutIsDeserved
  CrashedAreDropped
  ImplementsMeter
