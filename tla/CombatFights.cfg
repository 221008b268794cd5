SPECIFICATION TrialSpec
CONSTANTS
  p1 = p1
  r1 = r1
  r2 = r2
  Player = {p1}
  Room = {r1, r2}
  StartRoom = r1
  MaxEnemies <- OneEachRoom
  Corruption <- CorruptAway
  PlayerHits = 2
  EnemyHits = 1
  Damage = {1}
  Regeneration = 1
  PlayerSpeed = 1
  EnemySpeed = 1
  Period <- Ticks
  MaxClock = 2
  MaxCrashes = 1
INVARIANTS
  OpenIdIsLeastFree
  SearchIsByName
  ListsNameEnemies
  RoomsKeepMaximum
  DeadlinesAreNear
  NobodyIsLocked
PROPERTIES
  TheFallenRise
  CleanRestart
