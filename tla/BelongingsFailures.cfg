SPECIFICATION Spec
CHECK_DEADLOCK FALSE
CONSTANTS
  p1 = p1
  p2 = p2
  knife = knife
  jacket = jacket
  potion = potion
  Price <- OneEach
  LootDrops <- Drops
  Player = {p1}
  Weapons = {knife}
  Armors = {}
  Healings = {potion}
  Store = {}
  LootMoney = {0}
  Amounts = {}
  PlayerItems = 3
  RoomItems = 2
  DeathShare = 2
  SavedMoney = 0
  MaxItems = 3
  MaxMoney = 2
  MaxReloads = 2
  Deeds = {"get", "drop", "use", "die", "loot", "quit", "timer", "shutdown", "crash", "reload", "fail"}
INVARIANTS
  CountIsCovered
