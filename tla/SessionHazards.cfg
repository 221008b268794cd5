\* The server stops: shut down, or at an undefined step.
SPECIFICATION Spec
CONSTANTS
  a1 = a1
  a2 = a2
  r1 = r1
  r2 = r2
  Account = {a1, a2}
  Known = {a1}
  StartRank <- OneAdmin
  Room = {r1}
  StartRoom = r1
  TrainingRoom = {r1}
  Exit <- TwoWay
  Commands = {"quit", "kick", "announce", "changerank", "editstats"}
  NewRanks = {1}
  MaxConn = 3
  MaxOpen = 3
  MaxErrors = 1
  MaxTrains = 1
INVARIANTS
  TypeOK
  RosterMatchesHandlers
  ActiveIsLive
  ConnectionServesAccount
  ClosedAreSwept
CHECK_DEADLOCK FALSE
