\* The server stops: shut down, or at an undefined step.
SPECIFICATION FairSpec
CONSTANTS
  a1 = a1
  a2 = a2
  r1 = r1
  r2 = r2
  Account = {a1, a2}
  Known = {a1}
  StartRank <- OneAdmin
  Room = {r1, r2}
  StartRoom = r1
  TrainingRoom = {r1}
  Exit <- TwoWay
  Commands = {"quit", "kick", "reload", "move", "shutdown"}
  NewRanks = {}
  MaxConn = 3
  MaxOpen = 2
  MaxErrors = 1
  MaxTrains = 1
INVARIANTS
  RosterMatchesHandlers
  OfflineIsSaved
  ServedOwnsAccount
  InWorldIffActive
PROPERTIES
  ImplementsSeats
  ClosedEnds
CHECK_DEADLOCK FALSE
