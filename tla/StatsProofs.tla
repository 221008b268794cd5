---------------------------- MODULE StatsProofs ----------------------------
(***************************************************************************)
(* For every table of items without penalties, every class and every       *)
(* sequence of commands, fights, saves, reloads and restarts: hit points   *)
(* stay within their maximum, and stat points are neither lost nor made.   *)
(***************************************************************************)
EXTENDS Stats, TLAPS

-----------------------------------------------------------------------------
(* Attributes. *)

LEMMA GetAttrType ==
  ASSUME NEW m \in Player, NEW a \in Attribute
  PROVE  /\ GetAttr(m, a) \in Int
         /\ a \in Primary => GetAttr(m, a) >= 1
         /\ a \notin Primary => GetAttr(m, a) = m.attrs[a] + m.base[a]
<1>1. m.attrs[a] \in Int /\ m.base[a] \in Nat BY DEF Player
<1> QED BY <1>1 DEF GetAttr

LEMMA WornBonusType ==
  ASSUME NEW m \in Player, NEW a \in Attribute
  PROVE  WornBonus(m, a) \in Nat
<1>1. ASSUME NEW i \in Item \cup {Nothing} PROVE BonusOf(i, a) \in Nat
  BY <1>1, StatsAssumption DEF BonusOf
<1>2. m.weapon \in Item \cup {Nothing} /\ m.armor \in Item \cup {Nothing} BY DEF Player, Item
<1> QED BY <1>1, <1>2 DEF WornBonus

LEMMA FullHits ==
  ASSUME NEW level \in Nat, NEW h \in Nat
  PROVE  (2 * level * h) \div 3 \in Nat
<1>1. 2 * level * h \in Nat OBVIOUS
<1> QED BY <1>1

LEMMA BareType ==
  ASSUME NEW m \in Player
  PROVE  Bare(m) \in [Derived -> Int] /\ Bare(m)["MAXHITPOINTS"] \in Nat
<1> DEFINE s == GetAttr(m, "STRENGTH")
           h == GetAttr(m, "HEALTH")
           g == GetAttr(m, "AGILITY")
<1>1. s \in Nat /\ h \in Nat /\ g \in Nat BY GetAttrType DEF Attribute, Primary
<1>2. m.level \in Nat BY DEF Player
<1> HIDE DEF s, h, g
<1>3. (2 * m.level * h) \div 3 \in Nat BY <1>1, <1>2, FullHits
<1>4. FormulaOf("MAXHITPOINTS", m.level, s, h, g) = 10 + (2 * m.level * h) \div 3
  BY Zenon DEF FormulaOf
<1>5. ASSUME NEW a \in Derived PROVE FormulaOf(a, m.level, s, h, g) \in Int
  <2>1. h \div 5 \in Int /\ s \div 5 \in Int BY <1>1
  <2> QED BY <1>1, <1>2, <1>3, <2>1 DEF FormulaOf, Derived
<1>6. Formula(m.level, s, h, g) \in [Derived -> Int] BY <1>5 DEF Formula
<1>7. Formula(m.level, s, h, g)["MAXHITPOINTS"] = FormulaOf("MAXHITPOINTS", m.level, s, h, g)
  BY DEF Formula, Derived
<1> QED BY <1>3, <1>4, <1>6, <1>7 DEF Bare, s, h, g

LEMMA ClassedType ==
  ASSUME NEW c, NEW d \in [Derived -> Int]
  PROVE  /\ Classed(c, d) \in [Derived -> Int]
         /\ Classed(c, d)["MAXHITPOINTS"] = d["MAXHITPOINTS"]
<1>1. /\ d["STRIKEDAMAGE"] \in Int /\ d["ACCURACY"] \in Int /\ d["HPREGEN"] \in Int
      /\ d["DAMAGEABSORB"] \in Int /\ d["DODGING"] \in Int
  BY DEF Derived
<1>2. (d["STRIKEDAMAGE"] * 11) \div 10 \in Int /\ (d["HPREGEN"] * 115) \div 100 \in Int
  BY <1>1
<1>3. CASE c = "DESTRUIR" BY <1>1, <1>2, <1>3 DEF Classed, Derived
<1>4. CASE c = "RESTAURAR" BY <1>1, <1>2, <1>4 DEF Classed, Derived
<1>5. CASE c = "INFILTRAR" BY <1>1, <1>5 DEF Classed, Derived
<1>6. CASE c \notin {"DESTRUIR", "RESTAURAR", "INFILTRAR"} BY <1>6 DEF Classed, Derived
<1> QED BY <1>3, <1>4, <1>5, <1>6

-----------------------------------------------------------------------------
(* A player whose hit points are in range, and the methods that keep him so. *)

Sound(m) == m \in Player /\ m.hits <= GetAttr(m, "MAXHITPOINTS")

\* RecalculateStats makes any player sound and touches the cache and the hit
\* points only.
LEMMA RecalculateSound ==
  ASSUME NEW m \in Player
  PROVE  LET n == RecalculateStats(m)
         IN  /\ Sound(n)
             /\ n.base = m.base /\ n.level = m.level /\ n.points = m.points
             /\ n.exp = m.exp /\ n.class = m.class /\ n.newbie = m.newbie
             /\ n.weapon = m.weapon /\ n.armor = m.armor /\ n.hits <= m.hits
             /\ \A a \in Primary : n.attrs[a] >= m.attrs[a]
<1> DEFINE new == Classed(m.class, Bare(m))
           attrs == [a \in Attribute |->
                       (IF a \in Primary THEN Carried(m, a) ELSE new[a]) + WornBonus(m, a)]
           hits == Clamp(m)
           n == [m EXCEPT !.attrs = attrs, !.hits = hits]
<1>1. Bare(m) \in [Derived -> Int] /\ Bare(m)["MAXHITPOINTS"] \in Nat BY BareType
<1>2. new \in [Derived -> Int] /\ new["MAXHITPOINTS"] = Bare(m)["MAXHITPOINTS"]
  BY <1>1, ClassedType
<1> HIDE DEF new
<1>3. attrs \in [Attribute -> Int]
  <2>1. ASSUME NEW a \in Attribute
        PROVE  (IF a \in Primary THEN Carried(m, a) ELSE new[a]) + WornBonus(m, a) \in Int
    <3>1. WornBonus(m, a) \in Int BY WornBonusType
    <3>2. m.attrs[a] \in Int BY DEF Player
    <3>3. a \notin Primary => new[a] \in Int BY <1>2 DEF Attribute
    <3> QED BY <3>1, <3>2, <3>3 DEF Carried
  <2> QED BY <2>1
<1>4. m.base["MAXHITPOINTS"] \in Nat /\ m.hits \in Nat BY DEF Player, Attribute, Derived
<1>5. hits \in Nat /\ hits <= m.hits /\ hits <= Bare(m)["MAXHITPOINTS"] + m.base["MAXHITPOINTS"]
  BY <1>1, <1>4 DEF Clamp, AtMost
<1>6. attrs["MAXHITPOINTS"] >= Bare(m)["MAXHITPOINTS"]
  <2>1. attrs["MAXHITPOINTS"] = new["MAXHITPOINTS"] + WornBonus(m, "MAXHITPOINTS")
    BY DEF Attribute, Primary, Derived
  <2>2. WornBonus(m, "MAXHITPOINTS") \in Nat BY WornBonusType DEF Attribute, Derived
  <2> QED BY <1>1, <1>2, <2>1, <2>2
<1>13. \A a \in Primary : attrs[a] >= m.attrs[a]
  <2> SUFFICES ASSUME NEW a \in Primary PROVE attrs[a] >= m.attrs[a] OBVIOUS
  <2>1. a \in Attribute /\ WornBonus(m, a) \in Nat BY WornBonusType DEF Attribute
  <2>2. m.attrs[a] \in Int BY <2>1 DEF Player
  <2> QED BY <2>1, <2>2 DEF Carried
<1> HIDE DEF attrs, hits
<1>7. n \in Player BY <1>3, <1>5 DEF Player
<1>8. /\ n.attrs = attrs /\ n.hits = hits
      /\ n.base = m.base /\ n.level = m.level /\ n.points = m.points
      /\ n.exp = m.exp /\ n.class = m.class /\ n.newbie = m.newbie
      /\ n.weapon = m.weapon /\ n.armor = m.armor
  BY DEF Player
<1>9. attrs["MAXHITPOINTS"] \in Int BY <1>3 DEF Attribute, Derived
<1>10. GetAttr(n, "MAXHITPOINTS") = attrs["MAXHITPOINTS"] + m.base["MAXHITPOINTS"]
  BY <1>7, <1>8, GetAttrType DEF Attribute, Primary, Derived
<1>11. Sound(n) BY <1>1, <1>4, <1>5, <1>6, <1>7, <1>8, <1>9, <1>10 DEF Sound
<1>12. RecalculateStats(m) = n BY DEF RecalculateStats, attrs, hits, new
<1> QED BY <1>5, <1>8, <1>11, <1>12, <1>13

-----------------------------------------------------------------------------
(* The other methods. *)

SameGrowth(n, m) == n.base = m.base /\ n.level = m.level /\ n.points = m.points

\* What no step but a restart takes away.
Keeps(n, m) ==
  /\ Sound(n)
  /\ m.class # NoClass => n.class = m.class
  /\ \A a \in Primary : n.attrs[a] >= m.attrs[a]

LEMMA SameAccount ==
  ASSUME NEW m, NEW n, SameGrowth(n, m), Accounted(m)
  PROVE  Accounted(n)
BY DEF SameGrowth, Accounted

\* Recalculating m, which is o with other fields than attributes and class.
LEMMA RecalculateKeeps ==
  ASSUME NEW m \in Player, NEW o, m.attrs = o.attrs, m.class = o.class
  PROVE  Keeps(RecalculateStats(m), o) /\ SameGrowth(RecalculateStats(m), m)
BY RecalculateSound DEF Keeps, SameGrowth

LEMMA SetHitpointsSound ==
  ASSUME NEW m, Sound(m), NEW h \in Int
  PROVE  LET n == SetHitpoints(m, h)
         IN  Keeps(n, m) /\ SameGrowth(n, m) /\ n.exp = m.exp
<1> DEFINE max == GetAttr(m, "MAXHITPOINTS")
           hits == AtMost(IF h < 0 THEN 0 ELSE h, max)
           n == [m EXCEPT !.hits = hits]
<1>1. m \in Player /\ m.hits \in Nat /\ m.hits <= max BY DEF Sound, Player
<1>2. max \in Nat BY <1>1, GetAttrType DEF Attribute, Derived
<1> HIDE DEF max
<1>3. hits \in Nat /\ hits <= max BY <1>2 DEF AtMost
<1> HIDE DEF hits
<1>4. n \in Player BY <1>1, <1>3 DEF Player
<1>5. /\ n.attrs = m.attrs /\ n.base = m.base /\ n.hits = hits /\ n.class = m.class
      /\ n.level = m.level /\ n.points = m.points /\ n.exp = m.exp
  BY <1>1 DEF Player
<1>6. GetAttr(n, "MAXHITPOINTS") = max BY <1>5 DEF GetAttr, max
<1>7. \A a \in Primary : n.attrs[a] >= m.attrs[a]
  <2>1. \A a \in Primary : m.attrs[a] \in Int BY <1>1 DEF Player, Attribute
  <2> QED BY <1>5, <2>1
<1>8. Keeps(n, m) /\ SameGrowth(n, m) /\ n.exp = m.exp
  BY <1>3, <1>4, <1>5, <1>6, <1>7 DEF Keeps, Sound, SameGrowth
<1> QED BY <1>8 DEF SetHitpoints, hits, max

LEMMA KeepsTransitive ==
  ASSUME NEW l, NEW m, NEW n, Sound(l), Keeps(m, l), Keeps(n, m)
  PROVE  Keeps(n, l)
<1>1. l \in Player /\ m \in Player /\ n \in Player BY DEF Keeps, Sound
<1>2. \A a \in Primary : l.attrs[a] \in Int /\ m.attrs[a] \in Int /\ n.attrs[a] \in Int
  BY <1>1 DEF Player, Attribute
<1>3. \A a \in Primary : n.attrs[a] >= l.attrs[a] BY <1>2 DEF Keeps
<1> QED BY <1>3 DEF Keeps

LEMMA Unarmed ==
  ASSUME NEW m, Sound(m)
  PROVE  /\ Keeps(RemoveWeapon(m), m) /\ SameGrowth(RemoveWeapon(m), m)
         /\ Keeps(RemoveArmor(m), m) /\ SameGrowth(RemoveArmor(m), m)
         /\ RemoveWeapon(m).exp = m.exp /\ RemoveArmor(m).exp = m.exp
<1> DEFINE w == [m EXCEPT !.weapon = Nothing]
           r == [m EXCEPT !.armor = Nothing]
<1>1. m \in Player BY DEF Sound
<1>2. w \in Player /\ w.attrs = m.attrs /\ w.class = m.class /\ SameGrowth(w, m) /\ w.exp = m.exp
  BY <1>1 DEF Player, SameGrowth
<1>3. r \in Player /\ r.attrs = m.attrs /\ r.class = m.class /\ SameGrowth(r, m) /\ r.exp = m.exp
  BY <1>1 DEF Player, SameGrowth
<1> HIDE DEF w, r
<1>4. Keeps(RecalculateStats(w), m) /\ SameGrowth(RecalculateStats(w), w) BY <1>2, RecalculateKeeps
<1>5. Keeps(RecalculateStats(r), m) /\ SameGrowth(RecalculateStats(r), r) BY <1>3, RecalculateKeeps
<1>6. RecalculateStats(w).exp = w.exp /\ RecalculateStats(r).exp = r.exp
  BY <1>2, <1>3, RecalculateSound
<1> QED BY <1>2, <1>3, <1>4, <1>5, <1>6 DEF RemoveWeapon, RemoveArmor, w, r, SameGrowth

LEMMA Armed ==
  ASSUME NEW m, Sound(m)
  PROVE  /\ \A i \in Weapon : Keeps(UseWeapon(m, i), m) /\ SameGrowth(UseWeapon(m, i), m)
         /\ \A i \in Armor : Keeps(UseArmor(m, i), m) /\ SameGrowth(UseArmor(m, i), m)
<1>1. ASSUME NEW i \in Weapon PROVE Keeps(UseWeapon(m, i), m) /\ SameGrowth(UseWeapon(m, i), m)
  <2> DEFINE l == RemoveWeapon(m)
             n == [l EXCEPT !.weapon = i]
  <2>1. Keeps(l, m) /\ SameGrowth(l, m) BY Unarmed
  <2> HIDE DEF l
  <2>2. l \in Player BY <2>1 DEF Keeps, Sound
  <2>3. n \in Player /\ n.attrs = l.attrs /\ n.class = l.class /\ SameGrowth(n, l)
    BY <2>2 DEF Player, SameGrowth
  <2>4. Keeps(RecalculateStats(n), l) /\ SameGrowth(RecalculateStats(n), n)
    BY <2>3, RecalculateKeeps
  <2>5. Keeps(RecalculateStats(n), m) BY <2>1, <2>4, KeepsTransitive
  <2> QED BY <2>1, <2>3, <2>4, <2>5 DEF UseWeapon, l, SameGrowth
<1>2. ASSUME NEW i \in Armor PROVE Keeps(UseArmor(m, i), m) /\ SameGrowth(UseArmor(m, i), m)
  <2> DEFINE l == RemoveArmor(m)
             n == [l EXCEPT !.armor = i]
  <2>1. Keeps(l, m) /\ SameGrowth(l, m) BY Unarmed
  <2> HIDE DEF l
  <2>2. l \in Player BY <2>1 DEF Keeps, Sound
  <2>3. n \in Player /\ n.attrs = l.attrs /\ n.class = l.class /\ SameGrowth(n, l)
    BY <2>2 DEF Player, SameGrowth
  <2>4. Keeps(RecalculateStats(n), l) /\ SameGrowth(RecalculateStats(n), n)
    BY <2>3, RecalculateKeeps
  <2>5. Keeps(RecalculateStats(n), m) BY <2>1, <2>4, KeepsTransitive
  <2> QED BY <2>1, <2>3, <2>4, <2>5 DEF UseArmor, l, SameGrowth
<1> QED BY <1>1, <1>2

LEMMA Spent ==
  ASSUME NEW m, Sound(m), Accounted(m), CanSpend(m), NEW a \in Primary
  PROVE  LET n == AddToBaseAttr([m EXCEPT !.points = @ - 1], a, 1)
         IN  Keeps(n, m) /\ Accounted(n)
<1> DEFINE l == [m EXCEPT !.points = @ - 1]
           n == [l EXCEPT !.base[a] = @ + 1]
<1>1. m \in Player /\ m.points \in Nat \ {0} BY DEF Sound, Player, CanSpend
<1>2. /\ l \in Player /\ l.base = m.base /\ l.attrs = m.attrs /\ l.class = m.class
      /\ l.level = m.level /\ l.points = m.points - 1
  BY <1>1 DEF Player
<1> HIDE DEF l
<1>3. m.base \in [Attribute -> Nat] /\ a \in Attribute BY <1>1 DEF Player, Attribute
<1>4. /\ n \in Player /\ n.base = [m.base EXCEPT ![a] = @ + 1] /\ n.attrs = m.attrs
      /\ n.class = m.class /\ n.level = m.level /\ n.points = m.points - 1
  BY <1>2, <1>3 DEF Player
<1> HIDE DEF n
<1>5. Accounted(n)
  <2>1. /\ m.base["STRENGTH"] \in Nat /\ m.base["HEALTH"] \in Nat /\ m.base["AGILITY"] \in Nat
        /\ m.base["MAXHITPOINTS"] \in Nat
    BY <1>3 DEF Attribute, Primary, Derived
  <2>2. n.base["MAXHITPOINTS"] = m.base["MAXHITPOINTS"]
    BY <1>3, <1>4 DEF Attribute, Primary, Derived
  <2>3. n.base["STRENGTH"] + n.base["HEALTH"] + n.base["AGILITY"]
          = m.base["STRENGTH"] + m.base["HEALTH"] + m.base["AGILITY"] + 1
    BY <1>3, <1>4, <2>1 DEF Attribute, Primary, Derived
  <2>4. m.level \in Nat BY <1>1 DEF Player
  <2>5. n.base["STRENGTH"] \in Nat /\ n.base["HEALTH"] \in Nat /\ n.base["AGILITY"] \in Nat
    BY <1>4 DEF Player, Attribute, Primary, Derived
  <2>6. n.points + n.base["STRENGTH"] + n.base["HEALTH"] + n.base["AGILITY"]
          = m.points + m.base["STRENGTH"] + m.base["HEALTH"] + m.base["AGILITY"]
    <3> DEFINE old == m.base["STRENGTH"] + m.base["HEALTH"] + m.base["AGILITY"]
               new == n.base["STRENGTH"] + n.base["HEALTH"] + n.base["AGILITY"]
               p == m.points
               q == n.points
    <3>1. p \in Nat /\ q \in Int /\ q = p - 1 BY <1>1, <1>4
    <3>2. old \in Nat /\ new = old + 1 BY <2>1, <2>3
    <3>3. /\ m.points + m.base["STRENGTH"] + m.base["HEALTH"] + m.base["AGILITY"] = p + old
          /\ n.points + n.base["STRENGTH"] + n.base["HEALTH"] + n.base["AGILITY"] = q + new
      BY <1>1, <1>4, <2>1, <2>5
    <3> HIDE DEF old, new, p, q
    <3>4. q + new = p + old BY <3>1, <3>2
    <3> QED BY <3>3, <3>4, Zenon
  <2> QED BY <1>4, <2>2, <2>6, Zenon DEF Accounted
<1>6. Keeps(RecalculateStats(n), m) /\ SameGrowth(RecalculateStats(n), n)
  BY <1>4, RecalculateKeeps
<1> QED BY <1>5, <1>6, SameAccount DEF AddToBaseAttr, l, n

LEMMA Drunk ==
  ASSUME NEW m, Sound(m), Accounted(m), NEW i \in Healing
  PROVE  Keeps(AddBonuses(m, i), m) /\ Accounted(AddBonuses(m, i))
<1> DEFINE base == [a \in Attribute |-> m.base[a] + Bonus[i][a]]
           n == [m EXCEPT !.base = base]
<1>1. m \in Player /\ m.base \in [Attribute -> Nat] BY DEF Sound, Player
<1>2. Bonus[i] \in [Attribute -> Nat] BY StatsAssumption DEF Item
<1>3. base \in [Attribute -> Nat] BY <1>1, <1>2
<1>4. \A a \in Primary \cup {"MAXHITPOINTS"} : base[a] = m.base[a]
  BY <1>1, StatsAssumption DEF Attribute, Derived
<1> HIDE DEF base
<1>5. /\ n \in Player /\ n.base = base /\ n.attrs = m.attrs /\ n.class = m.class
      /\ n.level = m.level /\ n.points = m.points
  BY <1>1, <1>3 DEF Player
<1> HIDE DEF n
<1>6. Accounted(n) BY <1>4, <1>5 DEF Accounted, Primary
<1>7. Keeps(RecalculateStats(n), m) /\ SameGrowth(RecalculateStats(n), n)
  BY <1>5, RecalculateKeeps
<1>8. AddBonuses(m, i) = RecalculateStats(n) BY <1>1 DEF AddBonuses, n, base, Player
<1> QED BY <1>6, <1>7, <1>8, SameAccount

LEMMA Triangle ==
  ASSUME NEW l \in Nat, NEW b \in Nat, 2 * b = l * (l - 1)
  PROVE  2 * (b + l) = (l + 1) * ((l + 1) - 1)
<1>1. l * (l - 1) = l * l - l OBVIOUS
<1>2. (l + 1) * ((l + 1) - 1) = l * l + l OBVIOUS
<1>3. l * l \in Nat OBVIOUS
<1> QED BY <1>1, <1>2, <1>3

LEMMA Advanced ==
  ASSUME NEW m, Sound(m), Accounted(m)
  PROVE  Keeps(Advance(m), m) /\ Accounted(Advance(m))
<1> DEFINE base == [m.base EXCEPT !["MAXHITPOINTS"] = @ + m.level]
           points == m.points + 2
           level == m.level + 1
           n == [m EXCEPT !.points = points, !.base = base, !.level = level]
<1>1. /\ m \in Player /\ m.base \in [Attribute -> Nat]
      /\ m.level \in Nat /\ m.points \in Nat
  BY DEF Sound, Player
<1>2. /\ base \in [Attribute -> Nat]
      /\ base["MAXHITPOINTS"] = m.base["MAXHITPOINTS"] + m.level
      /\ \A a \in Primary : base[a] = m.base[a]
  BY <1>1 DEF Attribute, Primary, Derived
<1>3. points \in Nat /\ level \in Nat BY <1>1
<1>4. Advance(m) = RecalculateStats(n) BY <1>1, Zenon DEF Advance
<1> HIDE DEF base, points, level
<1>7. /\ n \in Player /\ n.base = base /\ n.attrs = m.attrs /\ n.class = m.class
      /\ n.level = level /\ n.points = points
  BY <1>1, <1>2, <1>3 DEF Player
<1> HIDE DEF n
<1>5. Accounted(n)
  <2>1. /\ m.base["STRENGTH"] \in Nat /\ m.base["HEALTH"] \in Nat /\ m.base["AGILITY"] \in Nat
        /\ m.base["MAXHITPOINTS"] \in Nat
    BY <1>1 DEF Attribute, Primary, Derived
  <2>2. 2 * (m.base["MAXHITPOINTS"] + m.level) = (m.level + 1) * ((m.level + 1) - 1)
    BY <1>1, <2>1, Triangle DEF Accounted
  <2>3. 2 * n.base["MAXHITPOINTS"] = n.level * (n.level - 1)
    BY <1>2, <1>7, <2>2, Zenon DEF level
  <2>4. /\ n.base["STRENGTH"] = m.base["STRENGTH"] /\ n.base["HEALTH"] = m.base["HEALTH"]
        /\ n.base["AGILITY"] = m.base["AGILITY"]
    BY <1>2, <1>7 DEF Primary
  <2>5. m.points + m.base["STRENGTH"] + m.base["HEALTH"] + m.base["AGILITY"]
          = StartPoints + 3 + 2 * (m.level - 1)
    BY Zenon DEF Accounted
  <2>6. n.points + n.base["STRENGTH"] + n.base["HEALTH"] + n.base["AGILITY"]
          = StartPoints + 3 + 2 * (n.level - 1)
    <3> DEFINE p == m.points
               l == m.level
               s == m.base["STRENGTH"]
               h == m.base["HEALTH"]
               g == m.base["AGILITY"]
    <3>2. p \in Nat /\ l \in Nat /\ s \in Nat /\ h \in Nat /\ g \in Nat BY <1>1, <2>1
    <3>3. p + s + h + g = StartPoints + 3 + 2 * (l - 1) BY <2>5, Zenon
    <3> HIDE DEF p, l, s, h, g
    <3>4. (p + 2) + s + h + g = StartPoints + 3 + 2 * ((l + 1) - 1)
      BY <3>2, <3>3, StatsAssumption
    <3>1. (m.points + 2) + m.base["STRENGTH"] + m.base["HEALTH"] + m.base["AGILITY"]
            = StartPoints + 3 + 2 * ((m.level + 1) - 1)
      BY <3>4, Zenon DEF p, l, s, h, g
    <3> QED BY <1>7, <2>4, <3>1, Zenon DEF points, level
  <2> QED BY <2>3, <2>6, Zenon DEF Accounted
<1>6. Keeps(RecalculateStats(n), m) /\ SameGrowth(RecalculateStats(n), n)
  BY <1>7, RecalculateKeeps
<1> QED BY <1>4, <1>5, <1>6, SameAccount

LEMMA ClassTaken ==
  ASSUME NEW m, Sound(m), Accounted(m), m.class = NoClass, NEW c \in Class
  PROVE  LET n == RecalculateStats([m EXCEPT !.class = c])
         IN  Keeps(n, m) /\ Accounted(n)
<1> DEFINE l == [m EXCEPT !.class = c]
<1>1. m \in Player BY DEF Sound
<1>2. l \in Player /\ l.attrs = m.attrs /\ SameGrowth(l, m) BY <1>1 DEF Player, SameGrowth
<1> HIDE DEF l
<1>3. Keeps(RecalculateStats(l), m) /\ SameGrowth(RecalculateStats(l), l)
  BY <1>2, RecalculateSound DEF Keeps, SameGrowth
<1> QED BY <1>2, <1>3, SameAccount DEF l

LEMMA Rewarded ==
  ASSUME NEW m, Sound(m), NEW e \in Nat
  PROVE  LET n == [m EXCEPT !.exp = e] IN Keeps(n, m) /\ SameGrowth(n, m)
<1> DEFINE n == [m EXCEPT !.exp = e]
<1>1. m \in Player BY DEF Sound
<1>2. n \in Player /\ n.attrs = m.attrs /\ n.class = m.class /\ n.hits = m.hits /\ SameGrowth(n, m)
  BY <1>1 DEF Player, SameGrowth
<1>3. \A a \in Primary : m.attrs[a] \in Int BY <1>1 DEF Player, Attribute
<1> HIDE DEF n
<1>4. GetAttr(n, "MAXHITPOINTS") = GetAttr(m, "MAXHITPOINTS")
  BY <1>2 DEF GetAttr, SameGrowth
<1>5. \A a \in Primary : n.attrs[a] >= m.attrs[a] BY <1>2, <1>3
<1> QED BY <1>2, <1>4, <1>5 DEF n, Keeps, Sound

LEMMA Resurrected ==
  ASSUME NEW m, Sound(m)
  PROVE  Keeps(Risen(m), m) /\ SameGrowth(Risen(m), m)
<1> DEFINE e == m.exp - m.exp \div 10
           h == (GetAttr(m, "MAXHITPOINTS") * 7) \div 10
           n == [m EXCEPT !.exp = e]
<1>1. m \in Player /\ m.exp \in Nat BY DEF Sound, Player
<1>2. e \in Nat BY <1>1
<1>3. GetAttr(m, "MAXHITPOINTS") \in Int BY <1>1, GetAttrType DEF Attribute, Derived
<1>4. h \in Int BY <1>3
<1>5. Risen(m) = SetHitpoints(n, h) BY <1>1 DEF Risen, Player
<1> HIDE DEF e, h
<1>6. Keeps(n, m) /\ SameGrowth(n, m) BY <1>2, Rewarded
<1> HIDE DEF n
<1>7. Keeps(SetHitpoints(n, h), n) /\ SameGrowth(SetHitpoints(n, h), n)
  BY <1>4, <1>6, SetHitpointsSound DEF Keeps
<1>8. Keeps(SetHitpoints(n, h), m) BY <1>6, <1>7, KeepsTransitive
<1> QED BY <1>5, <1>6, <1>7, <1>8 DEF SameGrowth

LEMMA Lost ==
  ASSUME NEW m, Sound(m), NEW n \in Dropped(m)
  PROVE  Keeps(n, m) /\ SameGrowth(n, m)
<1>1. \A a \in Primary : m.attrs[a] \in Int BY DEF Sound, Player, Attribute
<1>2. CASE n = m BY <1>1, <1>2 DEF Keeps, SameGrowth
<1>3. CASE n = RemoveWeapon(m) BY <1>3, Unarmed
<1>4. CASE n = RemoveArmor(m) BY <1>4, Unarmed
<1> QED BY <1>2, <1>3, <1>4 DEF Dropped
-----------------------------------------------------------------------------
(* The row. *)

LEMMA FreshSound == Sound(Fresh) /\ Accounted(Fresh)
<1> DEFINE base == [a \in Attribute |-> IF a \in Primary THEN 1 ELSE 0]
           attrs == [a \in Attribute |-> 0]
           blank == [base |-> base, attrs |-> attrs,
                     level |-> 1, points |-> StartPoints, exp |-> 0, hits |-> 0,
                     class |-> NoClass, weapon |-> Nothing, armor |-> Nothing, newbie |-> TRUE]
           born == RecalculateStats(blank)
           max == GetAttr(born, "MAXHITPOINTS")
           n == [born EXCEPT !.hits = max]
<1>1. base \in [Attribute -> Nat] /\ attrs \in [Attribute -> Int] OBVIOUS
<1>2. /\ base["STRENGTH"] = 1 /\ base["HEALTH"] = 1 /\ base["AGILITY"] = 1
      /\ base["MAXHITPOINTS"] = 0
  BY DEF Attribute, Primary, Derived
<1>9. Fresh = n BY Zenon DEF Fresh
<1> HIDE DEF base, attrs
<1>3. blank \in Player BY <1>1, StatsAssumption DEF Player
<1>4. blank.base = base /\ blank.level = 1 /\ blank.points = StartPoints OBVIOUS
<1> HIDE DEF blank
<1>5. Accounted(blank)
  <2>1. StartPoints + 1 + 1 + 1 = StartPoints + 3 + 2 * (1 - 1) BY StatsAssumption
  <2>2. 2 * 0 = 1 * (1 - 1) OBVIOUS
  <2> QED BY <1>2, <1>4, <2>1, <2>2, Zenon DEF Accounted
<1>6. Sound(born) /\ SameGrowth(born, blank) BY <1>3, RecalculateSound DEF SameGrowth
<1> HIDE DEF born
<1>7. born \in Player /\ born.hits \in Nat /\ born.hits <= max BY <1>6 DEF Sound, Player
<1>8. max \in Nat BY <1>7, GetAttrType DEF Attribute, Derived
<1> HIDE DEF max
<1>10. n \in Player /\ n.hits = max /\ n.attrs = born.attrs /\ SameGrowth(n, born)
  BY <1>7, <1>8 DEF Player, SameGrowth
<1>11. GetAttr(n, "MAXHITPOINTS") = max BY <1>10 DEF GetAttr, SameGrowth, max
<1> HIDE DEF n
<1>12. Sound(n) BY <1>8, <1>10, <1>11 DEF Sound
<1>13. Accounted(n) BY <1>5, <1>6, <1>10, SameAccount
<1> QED BY <1>9, <1>12, <1>13

\* What RowIsCurrent says of a player out of the game.
Current(m, r) == r = [DumpSQL(m) EXCEPT !.hits = r.hits] /\ m.hits <= r.hits

LEMMA Dumped ==
  ASSUME NEW m, Sound(m), Accounted(m)
  PROVE  DumpSQL(m) \in Row /\ Accounted(DumpSQL(m)) /\ Current(m, DumpSQL(m))
<1>1. m \in Player BY DEF Sound
<1>2. DumpSQL(m) \in Row BY <1>1 DEF DumpSQL, Row, Player
<1>3. SameGrowth(DumpSQL(m), m) BY DEF DumpSQL, SameGrowth
<1>4. Accounted(DumpSQL(m)) BY <1>3, SameAccount
<1>5. m.hits \in Nat /\ DumpSQL(m).hits = m.hits BY <1>1 DEF Player, DumpSQL
<1>6. DumpSQL(m) = [DumpSQL(m) EXCEPT !.hits = DumpSQL(m).hits] BY DEF DumpSQL
<1> QED BY <1>2, <1>4, <1>5, <1>6 DEF Current

LEMMA Loaded ==
  ASSUME NEW m, Sound(m), NEW r \in Row, Accounted(r)
  PROVE  /\ Keeps(ParseRow(m, r), m)
         /\ Accounted(ParseRow(m, r))
         /\ Current(ParseRow(m, r), r)
<1> DEFINE n == [m EXCEPT !.base = r.base, !.level = r.level, !.points = r.points,
                          !.exp = r.exp, !.hits = r.hits,
                          !.weapon = r.weapon, !.armor = r.armor]
           l == RecalculateStats(n)
<1>1. m \in Player BY DEF Sound
<1>2. /\ r.base \in [Attribute -> Nat] /\ r.level \in Nat /\ r.points \in Nat
      /\ r.exp \in Nat /\ r.hits \in Nat
      /\ r.weapon \in Weapon \cup {Nothing} /\ r.armor \in Armor \cup {Nothing}
  BY DEF Row
<1>3. /\ n \in Player /\ n.attrs = m.attrs /\ n.class = m.class /\ SameGrowth(n, r)
      /\ n.exp = r.exp /\ n.hits = r.hits /\ n.weapon = r.weapon /\ n.armor = r.armor
  BY <1>1, <1>2 DEF Player, SameGrowth
<1>4. ParseRow(m, r) = l BY Zenon DEF ParseRow
<1> HIDE DEF n
<1>5. Keeps(l, m) /\ SameGrowth(l, n) BY <1>3, RecalculateKeeps
<1>6. /\ l.exp = n.exp /\ l.weapon = n.weapon /\ l.armor = n.armor /\ l.hits <= n.hits
  BY <1>3, RecalculateSound
<1> HIDE DEF l
<1>7. Accounted(l) BY <1>3, <1>5, SameAccount
<1>8. Current(l, r)
  <2>1. r = [base |-> r.base, level |-> r.level, points |-> r.points, exp |-> r.exp,
             hits |-> r.hits, weapon |-> r.weapon, armor |-> r.armor]
    BY DEF Row
  <2>2. [DumpSQL(l) EXCEPT !.hits = r.hits]
          = [base |-> l.base, level |-> l.level, points |-> l.points, exp |-> l.exp,
             hits |-> r.hits, weapon |-> l.weapon, armor |-> l.armor]
    BY DEF DumpSQL
  <2> QED BY <1>3, <1>5, <1>6, <2>1, <2>2 DEF Current, SameGrowth
<1> QED BY <1>4, <1>5, <1>7, <1>8

-----------------------------------------------------------------------------
(* The invariant: what is in memory and what is in the table are accounted  *)
(* for, each by itself, because a reload may set the one to the other.      *)

IInv ==
  /\ mode \in {"out", "playing", "training"}
  /\ Sound(me) /\ Accounted(me)
  /\ row \in Row /\ Accounted(row)
  /\ mode = "out" => Current(me, row)

LEMMA InvariantInit == Init => IInv
<1> SUFFICES ASSUME Init PROVE IInv OBVIOUS
<1>1. mode = "out" /\ me = Fresh /\ row = DumpSQL(Fresh) BY DEF Init
<1> QED BY <1>1, FreshSound, Dumped DEF IInv

\* A step that leaves the row alone and happens to a player in the game, or
\* that reloads him.
LEMMA InMemory ==
  ASSUME IInv, UNCHANGED row, mode' \in {"out", "playing", "training"},
         Keeps(me', me), Accounted(me'), mode' = "out" => Current(me', row)
  PROVE  IInv'
BY DEF IInv, Keeps, Current, DumpSQL, Row, Accounted

LEMMA HitBy ==
  ASSUME NEW m, Sound(m), NEW h \in Int
  PROVE  /\ Keeps(AddHitpoints(m, h), m) /\ SameGrowth(AddHitpoints(m, h), m)
         /\ Keeps(AddHitpoints(m, -h), m) /\ SameGrowth(AddHitpoints(m, -h), m)
<1>1. m.hits \in Nat BY DEF Sound, Player
<1>2. m.hits + h \in Int /\ m.hits + (-h) \in Int BY <1>1
<1> QED BY <1>2, SetHitpointsSound DEF AddHitpoints

\* No step but a restart takes anything from the player in memory.
LEMMA StepKeeps ==
  ASSUME IInv, Next, ~Restart
  PROVE  Keeps(me', me) /\ Accounted(me')
<1>0. Sound(me) /\ Accounted(me) /\ me \in Player BY DEF IInv, Sound
<1>1. CASE me' = me
  <2>1. \A a \in Primary : me.attrs[a] \in Int BY <1>0 DEF Player, Attribute
  <2> QED BY <1>0, <1>1, <2>1 DEF Keeps
<1>2. CASE Enter
  <2>1. me' = [me EXCEPT !.newbie = FALSE] BY <1>2 DEF Enter
  <2>2. /\ me' \in Player /\ me'.attrs = me.attrs /\ me'.class = me.class
        /\ me'.hits = me.hits /\ SameGrowth(me', me)
    BY <1>0, <2>1 DEF Player, SameGrowth
  <2>3. GetAttr(me', "MAXHITPOINTS") = GetAttr(me, "MAXHITPOINTS")
    BY <2>2 DEF GetAttr, SameGrowth
  <2>4. \A a \in Primary : me'.attrs[a] >= me.attrs[a]
    BY <1>0, <2>2 DEF Player, Attribute
  <2> QED BY <1>0, <2>2, <2>3, <2>4, SameAccount DEF Keeps, Sound
<1>3. CASE Spend
  <2>1. PICK a \in Primary : me' = AddToBaseAttr([me EXCEPT !.points = @ - 1], a, 1)
    BY <1>3 DEF Spend, Become
  <2>2. CanSpend(me) BY <1>3 DEF Spend
  <2> QED BY <1>0, <2>1, <2>2, Spent
<1>4. CASE Train BY <1>0, <1>4, Advanced DEF Train, Become
<1>5. CASE SetClass
  <2>1. PICK c \in Class : me' = RecalculateStats([me EXCEPT !.class = c])
    BY <1>5 DEF SetClass, Become
  <2>2. me.class = NoClass BY <1>5 DEF SetClass
  <2> QED BY <1>0, <2>1, <2>2, ClassTaken
<1>6. CASE UseItem
  <2>1. CASE \E i \in Weapon : me' = UseWeapon(me, i) BY <1>0, <2>1, Armed, SameAccount
  <2>2. CASE \E i \in Armor : me' = UseArmor(me, i) BY <1>0, <2>2, Armed, SameAccount
  <2>3. CASE \E i \in Healing, h \in Amount : me' = AddHitpoints(AddBonuses(me, i), h)
    <3>1. PICK i \in Healing, h \in Amount : me' = AddHitpoints(AddBonuses(me, i), h)
      BY <2>3
    <3> DEFINE n == AddBonuses(me, i)
    <3>2. Keeps(n, me) /\ Accounted(n) BY <1>0, Drunk
    <3>3. h \in Int BY StatsAssumption
    <3> HIDE DEF n
    <3>4. Keeps(AddHitpoints(n, h), n) /\ SameGrowth(AddHitpoints(n, h), n)
      BY <3>2, <3>3, HitBy DEF Keeps
    <3>5. Keeps(AddHitpoints(n, h), me) BY <1>0, <3>2, <3>4, KeepsTransitive
    <3>6. Accounted(AddHitpoints(n, h)) BY <3>2, <3>4, SameAccount
    <3> QED BY <3>1, <3>5, <3>6 DEF n
  <2> QED BY <1>6, <2>1, <2>2, <2>3 DEF UseItem, Become
<1>7. CASE Unarm BY <1>0, <1>7, Unarmed, SameAccount DEF Unarm, Become
<1>8. CASE EnemyKilled
  <2>1. PICK e \in Reward : me' = [me EXCEPT !.exp = @ + e] BY <1>8 DEF EnemyKilled, Become
  <2>2. me.exp + e \in Nat BY <1>0, StatsAssumption DEF Player
  <2>3. Keeps(me', me) /\ SameGrowth(me', me) BY <1>0, <2>1, <2>2, Rewarded
  <2> QED BY <1>0, <2>3, SameAccount
<1>9. CASE EnemyAttack
  <2>1. PICK w \in Amount : LET hit == AddHitpoints(me, -w)
                            IN  IF hit.hits = 0 THEN \E m \in Dropped(hit) : me' = Risen(m)
                                                ELSE me' = hit
    BY <1>9 DEF EnemyAttack, Become
  <2> DEFINE hit == AddHitpoints(me, -w)
  <2>2. w \in Int BY StatsAssumption
  <2>3. Keeps(hit, me) /\ SameGrowth(hit, me) BY <1>0, <2>2, HitBy
  <2>4. me' = hit \/ \E m \in Dropped(hit) : me' = Risen(m) BY <2>1
  <2> HIDE DEF hit
  <2>5. CASE me' = hit BY <1>0, <2>3, <2>5, SameAccount
  <2>6. CASE \E m \in Dropped(hit) : me' = Risen(m)
    <3>1. PICK m \in Dropped(hit) : me' = Risen(m) BY <2>6
    <3>2. Keeps(m, hit) /\ SameGrowth(m, hit) BY <2>3, Lost DEF Keeps
    <3>3. Keeps(me', m) /\ SameGrowth(me', m) BY <3>1, <3>2, Resurrected DEF Keeps
    <3>4. Keeps(m, me) BY <1>0, <2>3, <3>2, KeepsTransitive
    <3>5. Keeps(me', me) BY <1>0, <3>3, <3>4, KeepsTransitive
    <3>6. SameGrowth(me', me) BY <2>3, <3>2, <3>3 DEF SameGrowth
    <3> QED BY <1>0, <3>5, <3>6, SameAccount
  <2> QED BY <2>4, <2>5, <2>6
<1>10. CASE Corruption
  <2>1. PICK w \in Amount : me' = AddHitpoints(me, -w) BY <1>10 DEF Corruption, Become
  <2>2. w \in Int BY StatsAssumption
  <2> QED BY <1>0, <2>1, <2>2, HitBy, SameAccount
<1>11. CASE PerformHeal
  <2>1. me' = AddHitpoints(me, GetAttr(me, "HPREGEN")) BY <1>11 DEF PerformHeal, Become
  <2>2. GetAttr(me, "HPREGEN") \in Int BY <1>0, GetAttrType DEF Attribute, Derived
  <2> QED BY <1>0, <2>1, <2>2, HitBy, SameAccount
<1>12. CASE Reload BY <1>0, <1>12, Loaded DEF Reload, Become, IInv
<1>13. CASE EditStats \/ EndTraining \/ Logout \/ Save
  BY <1>1, <1>13 DEF EditStats, EndTraining, Logout, Save
<1> QED BY <1>2, <1>3, <1>4, <1>5, <1>6, <1>7, <1>8, <1>9, <1>10, <1>11, <1>12, <1>13 DEF Next

\* The steps that write the row, or that end with the player out of the game.
LEMMA InvariantStep ==
  ASSUME IInv, [Next]_vars
  PROVE  IInv'
<1>0. Sound(me) /\ Accounted(me) /\ row \in Row /\ Accounted(row) BY DEF IInv
<1>1. CASE UNCHANGED vars BY <1>1 DEF vars, IInv, Current
<1>2. CASE Restart
  <2>1. row' \in Row /\ Accounted(row') BY <1>0, <1>2, Dumped DEF Restart
  <2>2. me' = ParseRow(Fresh, row') /\ mode' = "out" BY <1>2 DEF Restart
  <2> QED BY <2>1, <2>2, FreshSound, Loaded DEF IInv, Keeps
<1>3. CASE EndTraining \/ Logout \/ Save
  <2>1. me' = me /\ row' = DumpSQL(me) /\ mode' \in {"out", "playing", "training"}
    BY <1>3 DEF EndTraining, Logout, Save, IInv
  <2> QED BY <1>0, <2>1, Dumped DEF IInv
<1>4. CASE Reload
  <2>1. me' = ParseRow(me, row) /\ mode' = mode /\ row' = row
    BY <1>4 DEF Reload, Become
  <2> QED BY <1>0, <2>1, Loaded, InMemory DEF IInv
<1>5. CASE Next /\ ~Restart /\ mode' \in {"playing", "training"} /\ row' = row
  BY <1>5, StepKeeps, InMemory
<1>6. CASE \/ Enter \/ EditStats \/ Spend \/ Train \/ SetClass \/ UseItem \/ Unarm
           \/ EnemyKilled \/ EnemyAttack \/ Corruption \/ PerformHeal
  <2>1. mode' \in {"playing", "training"} /\ row' = row
    BY <1>6 DEF Enter, EditStats, Spend, Train, SetClass, UseItem, Unarm, EnemyKilled,
                EnemyAttack, Corruption, PerformHeal
  <2> QED BY <1>2, <1>5, <1>6, <2>1 DEF Next
<1> QED BY <1>1, <1>2, <1>3, <1>4, <1>6 DEF Next

LEMMA Invariant == Spec => []IInv
<1>1. Init => IInv BY InvariantInit
<1>2. IInv /\ [Next]_vars => IInv' BY InvariantStep
<1> QED BY <1>1, <1>2, PTL DEF Spec

-----------------------------------------------------------------------------
(* The cache. *)

\* What of an attribute was there when the formulas were evaluated.
BeforeItems(m, a) ==
  LET val == m.attrs[a] - WornBonus(m, a) + m.base[a] IN IF val < 1 THEN 1 ELSE val

\* CacheIsCurrent, of any player.
Cached(m) ==
  \A a \in Derived :
    m.attrs[a] = Classed(m.class, Formula(m.level, BeforeItems(m, "STRENGTH"),
                                          BeforeItems(m, "HEALTH"),
                                          BeforeItems(m, "AGILITY")))[a] + WornBonus(m, a)

\* The fields the cache is made of.
SameCache(n, m) ==
  /\ n.attrs = m.attrs /\ n.base = m.base /\ n.level = m.level
  /\ n.class = m.class /\ n.weapon = m.weapon /\ n.armor = m.armor

LEMMA SameIsCached ==
  ASSUME NEW m, NEW n, SameCache(n, m), Cached(m)
  PROVE  Cached(n)
<1>1. \A a : WornBonus(n, a) = WornBonus(m, a) BY DEF SameCache, WornBonus
<1>2. \A a : BeforeItems(n, a) = BeforeItems(m, a) BY <1>1 DEF SameCache, BeforeItems
<1> QED BY <1>1, <1>2 DEF SameCache, Cached

\* Recalculation takes the primary attributes as they are, evaluates, and adds
\* the bonuses to both; whatever the cache held before.
LEMMA RecalculateCached ==
  ASSUME NEW m \in Player
  PROVE  Cached(RecalculateStats(m))
<1> DEFINE new == Classed(m.class, Bare(m))
           n == RecalculateStats(m)
<1>1. /\ n.base = m.base /\ n.level = m.level /\ n.class = m.class
      /\ n.weapon = m.weapon /\ n.armor = m.armor
  BY RecalculateSound
<1>2. n.attrs = [a \in Attribute |->
                   (IF a \in Primary THEN Carried(m, a) ELSE new[a]) + WornBonus(m, a)]
  BY DEF RecalculateStats, Player
<1> HIDE DEF n, new
<1>3. \A a : WornBonus(n, a) = WornBonus(m, a) BY <1>1 DEF WornBonus
<1>4. ASSUME NEW a \in Primary PROVE BeforeItems(n, a) = GetAttr(m, a)
  <2>1. a \in Attribute BY DEF Attribute
  <2>2. n.attrs[a] = m.attrs[a] + WornBonus(m, a) BY <1>2, <2>1 DEF Carried
  <2>3. m.attrs[a] \in Int /\ m.base[a] \in Nat /\ WornBonus(m, a) \in Nat
    BY <2>1, WornBonusType DEF Player
  <2>4. n.attrs[a] - WornBonus(n, a) = m.attrs[a] BY <1>3, <2>2, <2>3
  <2> QED BY <1>1, <2>4 DEF BeforeItems, GetAttr
<1>5. Formula(n.level, BeforeItems(n, "STRENGTH"), BeforeItems(n, "HEALTH"),
              BeforeItems(n, "AGILITY")) = Bare(m)
  BY <1>1, <1>4 DEF Bare, Primary
<1>6. ASSUME NEW a \in Derived PROVE n.attrs[a] = new[a] + WornBonus(n, a)
  BY <1>2, <1>3 DEF Attribute, Primary, Derived
<1>7. Classed(n.class, Bare(m)) = new BY <1>1 DEF new
<1>8. Cached(n) BY <1>5, <1>6, <1>7 DEF Cached
<1> QED BY <1>8 DEF n

LEMMA HitsAreNotCached ==
  ASSUME NEW m \in Player, NEW h
  PROVE  SameCache(AddHitpoints(m, h), m) /\ SameCache(SetHitpoints(m, h), m)
<1>1. \A k : SameCache([m EXCEPT !.hits = k], m) BY DEF SameCache, Player
<1> QED BY <1>1 DEF AddHitpoints, SetHitpoints

LEMMA UnarmedCached ==
  ASSUME NEW m \in Player
  PROVE  Cached(RemoveWeapon(m)) /\ Cached(RemoveArmor(m))
<1>1. [m EXCEPT !.weapon = Nothing] \in Player /\ [m EXCEPT !.armor = Nothing] \in Player
  BY DEF Player
<1> QED BY <1>1, RecalculateCached DEF RemoveWeapon, RemoveArmor

LEMMA ArmedCached ==
  ASSUME NEW m, Sound(m)
  PROVE  /\ \A i \in Weapon : Cached(UseWeapon(m, i))
         /\ \A i \in Armor : Cached(UseArmor(m, i))
<1>1. RemoveWeapon(m) \in Player /\ RemoveArmor(m) \in Player BY Unarmed DEF Keeps, Sound
<1>2. ASSUME NEW l \in Player
      PROVE  /\ \A i \in Weapon : [l EXCEPT !.weapon = i] \in Player
             /\ \A i \in Armor : [l EXCEPT !.armor = i] \in Player
  BY DEF Player
<1>3. \A i \in Weapon : [RemoveWeapon(m) EXCEPT !.weapon = i] \in Player BY <1>1, <1>2
<1>4. \A i \in Armor : [RemoveArmor(m) EXCEPT !.armor = i] \in Player BY <1>1, <1>2
<1> QED BY <1>3, <1>4, RecalculateCached DEF UseWeapon, UseArmor

\* Spending a point, drinking, a new level and a new class.
LEMMA GrownCached ==
  ASSUME NEW m \in Player
  PROVE  /\ m.points > 0 => \A a \in Primary :
                              Cached(AddToBaseAttr([m EXCEPT !.points = @ - 1], a, 1))
         /\ \A i \in Healing : Cached(AddBonuses(m, i)) /\ AddBonuses(m, i) \in Player
         /\ Cached(Advance(m))
         /\ \A c \in Class : Cached(RecalculateStats([m EXCEPT !.class = c]))
<1>0. /\ m.base \in [Attribute -> Nat] /\ m.level \in Nat /\ m.points \in Nat
      /\ m.attrs \in [Attribute -> Int] /\ Primary \subseteq Attribute
  BY DEF Player, Attribute
<1>1. ASSUME m.points > 0, NEW a \in Primary
      PROVE  Cached(AddToBaseAttr([m EXCEPT !.points = @ - 1], a, 1))
  <2> DEFINE l == [m EXCEPT !.points = @ - 1]
             n == [l EXCEPT !.base[a] = @ + 1]
  <2>1. l \in Player /\ l.base = m.base BY <1>0, <1>1 DEF Player
  <2> HIDE DEF l
  <2>2. [l.base EXCEPT ![a] = @ + 1] \in [Attribute -> Nat] BY <1>0, <2>1
  <2>3. n \in Player BY <2>1, <2>2 DEF Player
  <2> HIDE DEF n
  <2>4. Cached(RecalculateStats(n)) BY <2>3, RecalculateCached
  <2> QED BY <2>4, Zenon DEF AddToBaseAttr, l, n
<1>2. ASSUME NEW i \in Healing PROVE Cached(AddBonuses(m, i)) /\ AddBonuses(m, i) \in Player
  <2> DEFINE base == [a \in Attribute |-> m.base[a] + Bonus[i][a]]
             n == [m EXCEPT !.base = base]
  <2>1. Bonus[i] \in [Attribute -> Nat] BY StatsAssumption DEF Item
  <2>2. base \in [Attribute -> Nat] BY <1>0, <2>1
  <2>3. AddBonuses(m, i) = RecalculateStats(n) BY DEF AddBonuses, Player
  <2> HIDE DEF base
  <2>4. n \in Player BY <2>2 DEF Player
  <2> HIDE DEF n
  <2> QED BY <2>3, <2>4, RecalculateCached, RecalculateSound DEF Sound
<1>3. Cached(Advance(m))
  <2> DEFINE base == [m.base EXCEPT !["MAXHITPOINTS"] = @ + m.level]
             points == m.points + 2
             level == m.level + 1
             n == [m EXCEPT !.points = points, !.base = base, !.level = level]
  <2>1. base \in [Attribute -> Nat] /\ points \in Nat /\ level \in Nat BY <1>0 DEF Attribute, Derived
  <2>2. Advance(m) = RecalculateStats(n) BY Zenon DEF Advance
  <2> HIDE DEF base, points, level
  <2>3. n \in Player BY <2>1 DEF Player
  <2> HIDE DEF n
  <2> QED BY <2>2, <2>3, RecalculateCached
<1>4. ASSUME NEW c \in Class PROVE Cached(RecalculateStats([m EXCEPT !.class = c]))
  <2>1. [m EXCEPT !.class = c] \in Player BY DEF Player
  <2> QED BY <2>1, RecalculateCached
<1> QED BY <1>1, <1>2, <1>3, <1>4

LEMMA LoadedCached ==
  ASSUME NEW m \in Player, NEW r \in Row
  PROVE  Cached(ParseRow(m, r))
<1> DEFINE n == [m EXCEPT !.base = r.base, !.level = r.level, !.points = r.points,
                          !.exp = r.exp, !.hits = r.hits,
                          !.weapon = r.weapon, !.armor = r.armor]
<1>1. /\ r.base \in [Attribute -> Nat] /\ r.level \in Nat /\ r.points \in Nat
      /\ r.exp \in Nat /\ r.hits \in Nat
      /\ r.weapon \in Weapon \cup {Nothing} /\ r.armor \in Armor \cup {Nothing}
  BY DEF Row
<1>2. n \in Player BY <1>1 DEF Player
<1>3. ParseRow(m, r) = RecalculateStats(n) BY Zenon DEF ParseRow
<1> HIDE DEF n
<1> QED BY <1>2, <1>3, RecalculateCached

LEMMA FreshCached == Cached(Fresh)
<1> DEFINE base == [a \in Attribute |-> IF a \in Primary THEN 1 ELSE 0]
           attrs == [a \in Attribute |-> 0]
           blank == [base |-> base, attrs |-> attrs,
                     level |-> 1, points |-> StartPoints, exp |-> 0, hits |-> 0,
                     class |-> NoClass, weapon |-> Nothing, armor |-> Nothing, newbie |-> TRUE]
           born == RecalculateStats(blank)
           max == GetAttr(born, "MAXHITPOINTS")
           n == [born EXCEPT !.hits = max]
<1>1. base \in [Attribute -> Nat] /\ attrs \in [Attribute -> Int] OBVIOUS
<1>2. Fresh = n BY Zenon DEF Fresh
<1> HIDE DEF base, attrs
<1>3. blank \in Player BY <1>1, StatsAssumption DEF Player
<1> HIDE DEF blank
<1>4. Cached(born) /\ born \in Player BY <1>3, RecalculateCached, RecalculateSound DEF Sound
<1> HIDE DEF born, max
<1>5. SameCache(n, born) BY <1>4 DEF SameCache, Player
<1> QED BY <1>2, <1>4, <1>5, SameIsCached

\* One case per action: each ends in a recalculation or leaves alone what the
\* cache is made of.
LEMMA StepCached ==
  ASSUME IInv, Cached(me), [Next]_vars
  PROVE  Cached(me')
<1>0. Sound(me) /\ me \in Player /\ row \in Row BY DEF IInv, Sound
<1>1. CASE me' = me BY <1>1
<1>2. CASE Enter
  <2>1. SameCache(me', me) BY <1>0, <1>2 DEF Enter, SameCache, Player
  <2> QED BY <2>1, SameIsCached
<1>3. CASE Spend
  <2>1. PICK a \in Primary : me' = AddToBaseAttr([me EXCEPT !.points = @ - 1], a, 1)
    BY <1>3 DEF Spend, Become
  <2>2. me.points > 0 BY <1>3 DEF Spend, CanSpend
  <2> QED BY <1>0, <2>1, <2>2, GrownCached
<1>4. CASE Train BY <1>0, <1>4, GrownCached DEF Train, Become
<1>5. CASE SetClass BY <1>0, <1>5, GrownCached DEF SetClass, Become
<1>6. CASE UseItem
  <2>1. CASE \E i \in Weapon : me' = UseWeapon(me, i) BY <1>0, <2>1, ArmedCached
  <2>2. CASE \E i \in Armor : me' = UseArmor(me, i) BY <1>0, <2>2, ArmedCached
  <2>3. CASE \E i \in Healing, h \in Amount : me' = AddHitpoints(AddBonuses(me, i), h)
    <3>1. PICK i \in Healing, h \in Amount : me' = AddHitpoints(AddBonuses(me, i), h)
      BY <2>3
    <3>2. Cached(AddBonuses(me, i)) /\ AddBonuses(me, i) \in Player BY <1>0, GrownCached
    <3> QED BY <3>1, <3>2, HitsAreNotCached, SameIsCached
  <2> QED BY <1>6, <2>1, <2>2, <2>3 DEF UseItem, Become
<1>7. CASE Unarm BY <1>0, <1>7, UnarmedCached DEF Unarm, Become
<1>8. CASE EnemyKilled
  <2>1. PICK e \in Reward : me' = [me EXCEPT !.exp = @ + e] BY <1>8 DEF EnemyKilled, Become
  <2>2. SameCache(me', me) BY <1>0, <2>1 DEF SameCache, Player
  <2> QED BY <2>2, SameIsCached
<1>9. CASE EnemyAttack
  <2>1. PICK w \in Amount : LET hit == AddHitpoints(me, -w)
                            IN  IF hit.hits = 0 THEN \E m \in Dropped(hit) : me' = Risen(m)
                                                ELSE me' = hit
    BY <1>9 DEF EnemyAttack, Become
  <2> DEFINE hit == AddHitpoints(me, -w)
  <2>2. w \in Int BY StatsAssumption
  <2>3. hit \in Player BY <1>0, <2>2, HitBy DEF Keeps, Sound
  <2>4. Cached(hit) BY <1>0, HitsAreNotCached, SameIsCached
  <2>5. me' = hit \/ \E m \in Dropped(hit) : me' = Risen(m) BY <2>1
  <2>9. Sound(hit) BY <1>0, <2>2, HitBy DEF Keeps
  <2> HIDE DEF hit
  <2>6. CASE me' = hit BY <2>4, <2>6
  <2>7. CASE \E m \in Dropped(hit) : me' = Risen(m)
    <3>1. PICK m \in Dropped(hit) : me' = Risen(m) BY <2>7
    <3>2. Cached(m) BY <2>3, <2>4, UnarmedCached DEF Dropped
    <3>3. m \in Player BY <2>9, Lost DEF Keeps, Sound
    <3> DEFINE e == m.exp - m.exp \div 10
               n == [m EXCEPT !.exp = e]
    <3>4. Risen(m) = SetHitpoints(n, (GetAttr(m, "MAXHITPOINTS") * 7) \div 10)
      BY <3>3 DEF Risen, Player
    <3>5. m.exp \in Nat BY <3>3 DEF Player
    <3>6. e \in Nat BY <3>5
    <3> HIDE DEF e
    <3>7. SameCache(n, m) /\ n \in Player BY <3>3, <3>6 DEF SameCache, Player
    <3> HIDE DEF n
    <3> QED BY <3>1, <3>2, <3>4, <3>7, HitsAreNotCached, SameIsCached
  <2> QED BY <2>5, <2>6, <2>7
<1>10. CASE Corruption \/ PerformHeal
  <2>1. \E h : me' = AddHitpoints(me, h) BY <1>10 DEF Corruption, PerformHeal, Become
  <2> QED BY <1>0, <2>1, HitsAreNotCached, SameIsCached
<1>11. CASE Reload BY <1>0, <1>11, LoadedCached DEF Reload, Become
<1>12. CASE Restart
  <2>1. row' \in Row /\ me' = ParseRow(Fresh, row') BY <1>0, <1>12, Dumped DEF Restart, IInv
  <2>2. Fresh \in Player BY FreshSound DEF Sound
  <2> QED BY <2>1, <2>2, LoadedCached
<1>13. CASE EditStats \/ EndTraining \/ Logout \/ Save \/ UNCHANGED vars
  BY <1>1, <1>13 DEF EditStats, EndTraining, Logout, Save, vars
<1> QED BY <1>2, <1>3, <1>4, <1>5, <1>6, <1>7, <1>8, <1>9, <1>10, <1>11, <1>12, <1>13 DEF Next

-----------------------------------------------------------------------------
(* The results. *)

\* The records stay what they are.
THEOREM TypesAreKept == Spec => []TypeOK
<1>1. IInv => TypeOK BY DEF IInv, Sound, TypeOK
<1> QED BY <1>1, Invariant, PTL

\* Hit points stay between nothing and the maximum: every change of an
\* attribute passes through the clamp of RecalculateStats, every other change
\* through that of SetHitpoints.  What armed items add to the primary
\* attributes is never negative, so the clamp's own maximum is not above it.
THEOREM HitPointsInRange == Spec => []HitsInRange
<1>1. IInv => HitsInRange
  <2> SUFFICES ASSUME IInv PROVE HitsInRange OBVIOUS
  <2>1. me \in Player /\ me.hits <= GetAttr(me, "MAXHITPOINTS") BY DEF IInv, Sound
  <2>2. me.hits \in Nat BY <2>1 DEF Player
  <2>3. GetAttr(me, "MAXHITPOINTS") \in Int BY <2>1, GetAttrType DEF Attribute, Derived
  <2> QED BY <2>1, <2>2, <2>3 DEF HitsInRange
<1> QED BY <1>1, Invariant, PTL

\* Stat points are neither lost nor made, in memory and in the table, by
\* spending, training, saving, reloading an older row, a crash or a restart.
THEOREM GrowthIsKept == Spec => []GrowthIsAccounted
<1>1. IInv => GrowthIsAccounted BY DEF IInv, GrowthIsAccounted
<1> QED BY <1>1, Invariant, PTL

\* Whoever is out of the game is in the table as he left it.
THEOREM RowsAreCurrent == Spec => []RowIsCurrent
<1>1. IInv => RowIsCurrent BY DEF IInv, RowIsCurrent, Current
<1> QED BY <1>1, Invariant, PTL

\* The class and what items added are lost at a restart and never otherwise.
THEOREM OnlyRestartsTake == Spec => LostOnlyByRestart
<1> DEFINE A == \/ /\ me.class # NoClass => me'.class = me.class
                   /\ \A a \in Primary : me'.attrs[a] >= me.attrs[a]
                \/ me' = ParseRow(Fresh, row')
<1>1. IInv /\ [Next]_vars => [A]_vars
  <2> SUFFICES ASSUME IInv, Next PROVE A OBVIOUS
  <2>1. CASE Restart BY <2>1 DEF Restart
  <2>2. CASE ~Restart BY <2>2, StepKeeps DEF Keeps
  <2> QED BY <2>1, <2>2
<1> QED BY <1>1, Invariant, PTL DEF Spec, LostOnlyByRestart

\* Nothing that the derived attributes are computed from changes without a
\* recalculation, a load into a player in use included.
THEOREM CacheStaysCurrent == Spec => []CacheIsCurrent
<1>1. Init => Cached(me) BY FreshCached DEF Init
<1>2. IInv /\ Cached(me) /\ [Next]_vars => Cached(me)' BY StepCached
<1>3. Cached(me) => CacheIsCurrent BY DEF Cached, BeforeItems, CacheIsCurrent
<1> QED BY <1>1, <1>2, <1>3, Invariant, PTL DEF Spec
=============================================================================
