SPECIFICATION Spec
CONSTANTS
  baton = baton
  jacket = jacket
  potion = potion
  Weapon = {baton}
  Armor = {jacket}
  Healing = {potion}
  Bonus <- Shipped
  Class = {"RESTAURAR"}
  Need <- Levels
  StartPoints = 0
  ClassLevel = 2
  Amount = {6}
  Reward = {1}
  MaxLevel = 2
  MaxExp = 1
  MaxBase = 2
  MaxBonus = 1
INVARIANTS
  HitsInRange
  CacheIsCurrent
  GrowthIsAccounted
  RowIsCurrent
PROPERTIES
  LostOnlyByRestart
