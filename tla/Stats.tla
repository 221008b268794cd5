------------------------------- MODULE Stats -------------------------------
(***************************************************************************)
(* The attributes of one player: what he was given (m_baseattributes), the *)
(* cache that RecalculateStats computes from it, from the level, the class *)
(* and the armed items (m_attributes), and what of all that a row of the   *)
(* player table keeps.  The cache is recomputed by hand after every change *)
(* of what it depends on, and only its six derived attributes are reset.   *)
(*                                                                         *)
(* A method is an operator on the record `me', as in module Session.  The  *)
(* row is written as a whole: Belongings has the crash between its two     *)
(* transactions.  What the player carries is there as well; here he arms   *)
(* any item.  The factors 1/1.5, 1.10, 1.15 and 0.7 are doubles that the   *)
(* code truncates; the fractions below give the same numbers for levels    *)
(* below 15 and attributes below 90.                                       *)
(***************************************************************************)
EXTENDS Integers, SequencesExt

CONSTANTS
  Weapon, Armor,  \* the items one can arm
  Healing,        \* the items one can drink
  Bonus,          \* the attributes of every item
  Class,          \* the classes one can choose
  Need,           \* NeedForLevel
  StartPoints,    \* 18
  ClassLevel,     \* 5
  Amount,         \* the hit points an enemy takes or a potion gives
  Reward,         \* the experience of an enemy
  MaxLevel, MaxExp, MaxBase, MaxBonus
                  \* bounds: level, experience, base attributes, bonuses left by items

Nothing == "nothing"
NoClass == "NONE"
Item == Weapon \cup Armor \cup Healing

Primary == {"STRENGTH", "HEALTH", "AGILITY"}
Derived == {"MAXHITPOINTS", "ACCURACY", "DODGING", "STRIKEDAMAGE", "DAMAGEABSORB", "HPREGEN"}
Attribute == Primary \cup Derived

\* No item of the shipped table weakens its owner, and no potion gives a
\* primary attribute or hit points for good.
ASSUME StatsAssumption ==
  /\ Bonus \in [Item -> [Attribute -> Nat]] /\ Nothing \notin Item
  /\ \A i \in Healing : \A a \in Primary \cup {"MAXHITPOINTS"} : Bonus[i][a] = 0
  /\ NoClass \notin Class
  /\ MaxLevel \in Nat \ {0} /\ Need \in [1 .. MaxLevel + 1 -> Nat]
  /\ StartPoints \in Nat /\ ClassLevel \in Nat
  /\ Amount \subseteq Nat /\ Reward \subseteq Nat
  /\ MaxExp \in Nat /\ MaxBase \in Nat /\ MaxBonus \in Nat

VARIABLES
  mode,   \* "out" of the game, "playing" or "training"
  me,     \* the Player object
  row     \* the player's row in the table

vars == <<mode, me, row>>

Player ==
  [base : [Attribute -> Nat], attrs : [Attribute -> Int],
   level : Nat, points : Nat, exp : Nat, hits : Nat,
   class : Class \cup {NoClass}, weapon : Weapon \cup {Nothing},
   armor : Armor \cup {Nothing}, newbie : BOOLEAN]

\* The columns of the row; rank, room and attack time are in other modules.
Row ==
  [base : [Attribute -> Nat], level : Nat, points : Nat, exp : Nat, hits : Nat,
   weapon : Weapon \cup {Nothing}, armor : Armor \cup {Nothing}]

-----------------------------------------------------------------------------
(* The methods of Player. *)

GetAttr(m, a) ==
  LET val == m.attrs[a] + m.base[a]
  IN  IF a \in Primary /\ val < 1 THEN 1 ELSE val

BonusOf(i, a) == IF i = Nothing THEN 0 ELSE Bonus[i][a]

\* AddDynamicBonuses, for the weapon and for the armor.
WornBonus(m, a) == BonusOf(m.weapon, a) + BonusOf(m.armor, a)

\* The derived attributes for a strength s, a health h and an agility g.
FormulaOf(a, level, s, h, g) ==
  CASE a = "MAXHITPOINTS" -> 10 + (2 * level * h) \div 3
    [] a = "HPREGEN" -> h \div 5 + level
    [] a \in {"ACCURACY", "DODGING"} -> g * 3
    [] a \in {"DAMAGEABSORB", "STRIKEDAMAGE"} -> s \div 5

Formula(level, s, h, g) == [a \in Derived |-> FormulaOf(a, level, s, h, g)]

Classed(class, d) ==
  CASE class = "DESTRUIR" -> [d EXCEPT !["STRIKEDAMAGE"] = (@ * 11) \div 10, !["ACCURACY"] = @ + 5]
    [] class = "RESTAURAR" -> [d EXCEPT !["HPREGEN"] = (@ * 115) \div 100, !["DAMAGEABSORB"] = @ + 5]
    [] class = "INFILTRAR" -> [d EXCEPT !["DODGING"] = @ + 10, !["ACCURACY"] = @ + 5]
    [] OTHER -> d

\* What RecalculateStats makes of the derived attributes before the items.
Bare(m) ==
  Formula(m.level, GetAttr(m, "STRENGTH"), GetAttr(m, "HEALTH"), GetAttr(m, "AGILITY"))

AtMost(n, max) == IF n > max THEN max ELSE n

\* Variant: the hit points stay when the maximum falls.
ClampUnneeded(m) == m.hits

\* The clamp sees the maximum before class and items are added.
Clamp(m) == AtMost(m.hits, Bare(m)["MAXHITPOINTS"] + m.base["MAXHITPOINTS"])

\* Variant: the primary attributes are reset too.
CarriedNothing(m, a) == 0

\* The primary attributes keep whatever items have added to them so far.
Carried(m, a) == m.attrs[a]

RecalculateStats(m) ==
  LET new == Classed(m.class, Bare(m))
  IN  [m EXCEPT !.attrs = [a \in Attribute |->
                             (IF a \in Primary THEN Carried(m, a) ELSE new[a]) + WornBonus(m, a)],
                !.hits = Clamp(m)]

SetHitpoints(m, h) ==
  [m EXCEPT !.hits = AtMost(IF h < 0 THEN 0 ELSE h, GetAttr(m, "MAXHITPOINTS"))]

AddHitpoints(m, h) == SetHitpoints(m, m.hits + h)

RemoveWeapon(m) == RecalculateStats([m EXCEPT !.weapon = Nothing])
RemoveArmor(m) == RecalculateStats([m EXCEPT !.armor = Nothing])
UseWeapon(m, i) == RecalculateStats([RemoveWeapon(m) EXCEPT !.weapon = i])

\* Variant: only the old armor is taken off the books.
UseArmorUncounted(m, i) == [RemoveArmor(m) EXCEPT !.armor = i]

UseArmor(m, i) == RecalculateStats([RemoveArmor(m) EXCEPT !.armor = i])

AddToBaseAttr(m, a, n) == RecalculateStats([m EXCEPT !.base[a] = @ + n])

AddBonuses(m, i) ==
  RecalculateStats([m EXCEPT !.base = [a \in Attribute |-> @[a] + Bonus[i][a]]])

\* Variant: the level goes up first.
AdvanceLevelFirst(m) ==
  RecalculateStats([m EXCEPT !.points = @ + 2, !.base["MAXHITPOINTS"] = @ + m.level + 1,
                             !.level = @ + 1])

\* The successful branch of Train.
Advance(m) ==
  RecalculateStats([m EXCEPT !.points = @ + 2, !.base["MAXHITPOINTS"] = @ + m.level,
                             !.level = @ + 1])

\* The constructor: full hit points, no class, a newbie.
Fresh ==
  LET blank == [base |-> [a \in Attribute |-> IF a \in Primary THEN 1 ELSE 0],
                attrs |-> [a \in Attribute |-> 0],
                level |-> 1, points |-> StartPoints, exp |-> 0, hits |-> 0,
                class |-> NoClass, weapon |-> Nothing, armor |-> Nothing, newbie |-> TRUE]
      born == RecalculateStats(blank)
  IN  [born EXCEPT !.hits = GetAttr(born, "MAXHITPOINTS")]

\* DumpSQL: no class, and nothing of the cache.
DumpSQL(m) ==
  [base |-> m.base, level |-> m.level, points |-> m.points, exp |-> m.exp,
   hits |-> m.hits, weapon |-> m.weapon, armor |-> m.armor]

\* ParseRow into an object that may be in use: what the row does not have stays.
ParseRow(m, r) ==
  RecalculateStats([m EXCEPT !.base = r.base, !.level = r.level, !.points = r.points,
                             !.exp = r.exp, !.hits = r.hits,
                             !.weapon = r.weapon, !.armor = r.armor])

-----------------------------------------------------------------------------

Init == mode = "out" /\ me = Fresh /\ row = DumpSQL(Fresh)

Bounded(m) ==
  /\ m.level <= MaxLevel /\ m.exp <= MaxExp
  /\ \A a \in Primary : m.attrs[a] <= MaxBonus
  /\ \A a \in Attribute \ {"MAXHITPOINTS"} : m.base[a] <= MaxBase

Become(m) == Bounded(m) /\ me' = m

\* Game::Enter: a newbie is sent to the training screen, whose Enter makes
\* him a newbie no longer.
Enter ==
  /\ mode = "out"
  /\ mode' = IF me.newbie THEN "training" ELSE "playing"
  /\ me' = [me EXCEPT !.newbie = FALSE]
  /\ UNCHANGED row

EditStats == mode = "playing" /\ mode' = "training" /\ UNCHANGED <<me, row>>

CanSpend(m) == m.points > 0

\* "1", "2" or "3" on the training screen.
Spend ==
  /\ mode = "training" /\ CanSpend(me)
  /\ \E a \in Primary : Become(AddToBaseAttr([me EXCEPT !.points = @ - 1], a, 1))
  /\ UNCHANGED <<mode, row>>

\* "quit" on the training screen saves the player and goes back to the game.
EndTraining ==
  /\ mode = "training" /\ mode' = "playing"
  /\ row' = DumpSQL(me)
  /\ UNCHANGED me

Train ==
  /\ mode = "playing" /\ me.level < MaxLevel
  /\ Need[me.level + 1] - me.exp <= 0
  /\ Become(Advance(me))
  /\ UNCHANGED <<mode, row>>

SetClass ==
  /\ mode = "playing" /\ me.class = NoClass /\ me.level >= ClassLevel
  /\ \E c \in Class : Become(RecalculateStats([me EXCEPT !.class = c]))
  /\ UNCHANGED <<mode, row>>

\* use, for a weapon, an armor and a potion.
UseItem ==
  /\ mode = "playing"
  /\ \/ \E i \in Weapon : Become(UseWeapon(me, i))
     \/ \E i \in Armor : Become(UseArmor(me, i))
     \/ \E i \in Healing, h \in Amount : Become(AddHitpoints(AddBonuses(me, i), h))
  /\ UNCHANGED <<mode, row>>

\* remove, and the loss of an armed item.
Unarm ==
  /\ mode = "playing"
  /\ \/ me.weapon # Nothing /\ Become(RemoveWeapon(me))
     \/ me.armor # Nothing /\ Become(RemoveArmor(me))
  /\ UNCHANGED <<mode, row>>

EnemyKilled ==
  /\ mode = "playing"
  /\ \E e \in Reward : Become([me EXCEPT !.exp = @ + e])
  /\ UNCHANGED <<mode, row>>

\* The item dropped by the dead may be an armed one.
Dropped(m) ==
  {m} \cup (IF m.weapon # Nothing THEN {RemoveWeapon(m)} ELSE {})
      \cup (IF m.armor # Nothing THEN {RemoveArmor(m)} ELSE {})

\* PlayerKilled.
Risen(m) ==
  SetHitpoints([m EXCEPT !.exp = @ - @ \div 10], (GetAttr(m, "MAXHITPOINTS") * 7) \div 10)

\* EnemyAttack, and the killing of the player if it comes to that.
EnemyAttack ==
  /\ mode = "playing"
  /\ \E w \in Amount :
       LET hit == AddHitpoints(me, -w)
       IN  IF hit.hits = 0 THEN \E m \in Dropped(hit) : Become(Risen(m)) ELSE Become(hit)
  /\ UNCHANGED <<mode, row>>

\* Corruption hurts without a look at what is left.
Corruption ==
  /\ mode = "playing"
  /\ \E w \in Amount : Become(AddHitpoints(me, -w))
  /\ UNCHANGED <<mode, row>>

PerformHeal ==
  /\ mode = "playing"
  /\ Become(AddHitpoints(me, GetAttr(me, "HPREGEN")))
  /\ UNCHANGED <<mode, row>>

\* Variant: the player is only marked as gone.
LogoutUnsaved == mode # "out" /\ mode' = "out" /\ UNCHANGED <<me, row>>

\* Saves that the database refuses are in Belongings; here they succeed.
Logout == mode # "out" /\ mode' = "out" /\ row' = DumpSQL(me) /\ UNCHANGED me

Save == row' = DumpSQL(me) /\ row' # row /\ UNCHANGED <<mode, me>>

\* The reload command, on a player in any state.
Reload == Become(ParseRow(me, row)) /\ UNCHANGED <<mode, row>>

\* The server is started again: after a shutdown, which saves, or a crash.
Restart ==
  /\ row' \in {row, DumpSQL(me)}
  /\ me' = ParseRow(Fresh, row')
  /\ mode' = "out"

Next ==
  \/ Enter \/ EditStats \/ Spend \/ EndTraining \/ Train \/ SetClass
  \/ UseItem \/ Unarm \/ EnemyKilled \/ EnemyAttack \/ Corruption \/ PerformHeal
  \/ Logout \/ Save \/ Reload \/ Restart

Spec == Init /\ [][Next]_vars

-----------------------------------------------------------------------------
(* Properties. *)

TypeOK ==
  /\ mode \in {"out", "playing", "training"}
  /\ me \in Player
  /\ row \in Row

\* Hit points never exceed the maximum, whatever falls under them: the clamp
\* works on a maximum without class and items, and every change of an
\* attribute, a load of an older row included, has to pass through it.
HitsInRange == me.hits \in 0 .. GetAttr(me, "MAXHITPOINTS")

\* The cache is that of the current level, class, base attributes and items:
\* nothing they consist of changes without RecalculateStats.  The derived
\* attributes lag behind the primary ones by the armed items' bonuses, which
\* are added after the formulas were evaluated.
CacheIsCurrent ==
  LET Before(a) == LET val == me.attrs[a] - WornBonus(me, a) + me.base[a]
                   IN  IF val < 1 THEN 1 ELSE val
      new == Classed(me.class, Formula(me.level, Before("STRENGTH"), Before("HEALTH"),
                                       Before("AGILITY")))
  IN  \A a \in Derived : me.attrs[a] = new[a] + WornBonus(me, a)

\* Every stat point was a starting point or came with a level, and is either
\* left or in a primary attribute; the hit points for good are those of the
\* levels.  This survives saves, reloads of older rows, crashes and restarts.
Accounted(m) ==
  /\ m.points + m.base["STRENGTH"] + m.base["HEALTH"] + m.base["AGILITY"]
       = StartPoints + 3 + 2 * (m.level - 1)
  /\ 2 * m.base["MAXHITPOINTS"] = m.level * (m.level - 1)

GrowthIsAccounted == Accounted(me) /\ Accounted(row)

\* Whatever of a player a row can hold is in his row when he is out of the
\* game; a load may only have lowered his hit points to his maximum.
RowIsCurrent ==
  mode = "out" =>
    /\ row = [DumpSQL(me) EXCEPT !.hits = row.hits]
    /\ me.hits <= row.hits

\* Two things are in memory only, the class and what armed items have added to
\* the primary attributes: taking an item off, dying or the reload of an older
\* row take nothing of them away, a restart takes all.
LostOnlyByRestart ==
  [][\/ /\ me.class # NoClass => me'.class = me.class
        /\ \A a \in Primary : me'.attrs[a] >= me.attrs[a]
     \/ me' = ParseRow(Fresh, row')]_vars
=============================================================================
