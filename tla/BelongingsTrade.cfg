SPECIFICATION Spec
CONSTANTS
  p1 = p1
  p2 = p2
  knife = knife
  jacket = jacket
  potion = potion
  Price <- OneEach
  LootDrops <- Drops
  Player = {p1, p2}
  Weapons = {knife}
  Armors = {}
  Healings = {potion}
  Store = {knife, potion}
  LootMoney = {0, 1}
  Amounts = {1}
  PlayerItems = 3
  RoomItems = 2
  DeathShare = 2
  SavedMoney = 1
  MaxItems = 3
  MaxMoney = 2
  MaxReloads = 0
  Deeds = {"get", "drop", "use", "remove", "trade", "die", "loot"}
INVARIANTS
  TypeOK
PROPERTIES
  NoFreeWealth
  NothingIsLost
