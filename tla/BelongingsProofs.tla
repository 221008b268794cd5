-------------------------- MODULE BelongingsProofs --------------------------
(***************************************************************************)
(* Theorems about Belongings, for every number of players, items, slots    *)
(* and every choice of the operations that happen: the death lottery ends, *)
(* armed indexes name what they should, and who is offline is in the       *)
(* database.                                                               *)
(***************************************************************************)
EXTENDS Belongings, Induction

-----------------------------------------------------------------------------
(* The least slot of a set of slots. *)

LEMMA FirstIsLeast ==
  ASSUME NEW S, S \subseteq Nat, S # {}
  PROVE  First(S) \in S
BY LeastNumber DEF First

-----------------------------------------------------------------------------
(* One player. *)

Covered(b) == b \in Own /\ b.items <= Cardinality(Filled(b))

Arms(b) ==
  /\ b.weapon # NoSlot => b.slots[b.weapon] \in Weapons
  /\ b.armor # NoSlot => b.slots[b.armor] \in Armors

LEMMA SlotsAreNumbers == Slot \subseteq Nat /\ NoSlot \notin Slot /\ IsFiniteSet(Slot)
<1>1. PlayerItems \in Nat BY BelongingsAssumption
<1>2. IsFiniteSet(0 .. PlayerItems - 1) BY <1>1, FS_Interval
<1> QED BY <1>1, <1>2 DEF Slot, NoSlot

LEMMA FilledIsFinite ==
  ASSUME NEW b
  PROVE  /\ Filled(b) \subseteq Slot /\ IsFiniteSet(Filled(b))
         /\ Cardinality(Filled(b)) \in Nat
<1>1. Filled(b) \subseteq Slot BY DEF Filled
<1> QED BY <1>1, SlotsAreNumbers, FS_Subset, FS_CardinalityType

\* What is armed is in a slot that is filled, so that nothing is put there.
LEMMA ArmsAreFilled ==
  ASSUME NEW b, b \in Own, Arms(b)
  PROVE  /\ b.weapon # NoSlot => b.weapon \in Filled(b)
         /\ b.armor # NoSlot => b.armor \in Filled(b)
<1>1. b.weapon \in Slot \cup {NoSlot} /\ b.armor \in Slot \cup {NoSlot} BY DEF Own
<1>2. None \notin Weapons /\ None \notin Armors BY BelongingsAssumption DEF Item
<1> QED BY <1>1, <1>2 DEF Arms, Filled

LEMMA Paid ==
  ASSUME NEW b, Covered(b), NEW m \in Nat
  PROVE  LET c == [b EXCEPT !.money = m]
         IN  Covered(c) /\ (Arms(b) => Arms(c)) /\ Filled(c) = Filled(b)
<1> DEFINE c == [b EXCEPT !.money = m]
<1>1. /\ c \in Own /\ c.slots = b.slots /\ c.items = b.items
      /\ c.weapon = b.weapon /\ c.armor = b.armor
  BY DEF Covered, Own
<1> HIDE DEF c
<1> SUFFICES Covered(c) /\ (Arms(b) => Arms(c)) /\ Filled(c) = Filled(b) BY DEF c
<1>2. Filled(c) = Filled(b) BY <1>1 DEF Filled
<1> QED BY <1>1, <1>2 DEF Covered, Arms

\* PickUpItem fills a slot that was free and counts one more.
LEMMA PickedUp ==
  ASSUME NEW b, Covered(b), ~Overruns(b), NEW k \in Item
  PROVE  Covered(PickUpItem(b, k)) /\ (Arms(b) => Arms(PickUpItem(b, k)))
<1> DEFINE i == First(Slot \ Filled(b))
           c == PickUpItem(b, k)
<1>1. b \in Own /\ b.items \in Int /\ b.items <= Cardinality(Filled(b))
  BY DEF Covered, Own
<1>2. i \in Slot \ Filled(b)
  <2>1. Slot \ Filled(b) # {} BY FilledIsFinite DEF Overruns
  <2>2. Slot \ Filled(b) \subseteq Nat BY SlotsAreNumbers
  <2> QED BY <2>1, <2>2, FirstIsLeast
<1> HIDE DEF i
<1>3. /\ c \in Own /\ c.slots = [b.slots EXCEPT ![i] = k] /\ c.items = b.items + 1
      /\ c.weapon = b.weapon /\ c.armor = b.armor
  <2>1. c = [b EXCEPT !.slots = [b.slots EXCEPT ![i] = k], !.items = b.items + 1]
    BY <1>1 DEF PickUpItem, i, Own
  <2>2. [b.slots EXCEPT ![i] = k] \in [Slot -> Item \cup {None}] /\ b.items + 1 \in Int
    BY <1>1, <1>2 DEF Own
  <2> QED BY <1>1, <2>1, <2>2 DEF Own
<1> HIDE DEF c
<1> SUFFICES Covered(c) /\ (Arms(b) => Arms(c)) BY DEF c
<1>4. k # None /\ b.slots \in [Slot -> Item \cup {None}]
  BY <1>1, BelongingsAssumption DEF Own
<1>5. Filled(c) = Filled(b) \cup {i} BY <1>2, <1>3, <1>4 DEF Filled
<1>6. Cardinality(Filled(c)) = Cardinality(Filled(b)) + 1
  BY <1>2, <1>5, FilledIsFinite, FS_AddElement
<1>7. Covered(c)
  <2>1. Cardinality(Filled(b)) \in Nat BY FilledIsFinite
  <2> QED BY <1>1, <1>3, <1>6, <2>1 DEF Covered
<1>8. ASSUME Arms(b) PROVE Arms(c)
  <2>1. ASSUME NEW j \in Filled(b) PROVE c.slots[j] = b.slots[j]
    BY <1>2, <1>3, <1>4, <2>1, FilledIsFinite
  <2> QED BY <1>1, <1>3, <1>8, <2>1, ArmsAreFilled DEF Arms
<1> QED BY <1>7, <1>8

\* DropItem empties a slot that was filled and counts one less.
LEMMA Dropped ==
  ASSUME NEW b, Covered(b), NEW i \in Filled(b)
  PROVE  Covered(DropSlot(b, i)) /\ (Arms(b) => Arms(DropSlot(b, i)))
<1> DEFINE c == DropSlot(b, i)
<1>1. b \in Own /\ b.items \in Int /\ b.items <= Cardinality(Filled(b))
  BY DEF Covered, Own
<1>2. i \in Slot BY FilledIsFinite
<1>3. /\ c \in Own /\ c.slots = [b.slots EXCEPT ![i] = None] /\ c.items = b.items - 1
      /\ c.weapon = (IF b.weapon = i THEN NoSlot ELSE b.weapon)
      /\ c.armor = (IF b.armor = i THEN NoSlot ELSE b.armor)
  <2> DEFINE slots == [b.slots EXCEPT ![i] = None]
             weapon == IF b.weapon = i THEN NoSlot ELSE b.weapon
             armor == IF b.armor = i THEN NoSlot ELSE b.armor
  <2>1. slots \in [Slot -> Item \cup {None}] /\ b.items - 1 \in Int
    BY <1>1, <1>2 DEF Own
  <2>2. weapon \in Slot \cup {NoSlot} /\ armor \in Slot \cup {NoSlot} BY <1>1 DEF Own
  <2>3. c = [b EXCEPT !.slots = slots, !.items = b.items - 1, !.weapon = weapon,
                      !.armor = armor]
    BY <1>1 DEF DropSlot, Own
  <2> HIDE DEF slots, weapon, armor, c
  <2>4. /\ c \in Own /\ c.slots = slots /\ c.items = b.items - 1
        /\ c.weapon = weapon /\ c.armor = armor
    BY <1>1, <2>1, <2>2, <2>3 DEF Own
  <2> QED BY <2>4 DEF slots, weapon, armor
<1> HIDE DEF c
<1> SUFFICES Covered(c) /\ (Arms(b) => Arms(c)) BY DEF c
<1>4. b.slots \in [Slot -> Item \cup {None}] BY <1>1 DEF Own
<1>5. Filled(c) = Filled(b) \ {i} BY <1>2, <1>3, <1>4 DEF Filled
<1>6. Cardinality(Filled(c)) = Cardinality(Filled(b)) - 1
  BY <1>5, FilledIsFinite, FS_RemoveElement
<1>7. Covered(c)
  <2>1. Cardinality(Filled(b)) \in Nat BY FilledIsFinite
  <2> QED BY <1>1, <1>3, <1>6, <2>1 DEF Covered
<1>8. ASSUME Arms(b) PROVE Arms(c)
  <2>1. ASSUME NEW j \in Slot, j # i PROVE c.slots[j] = b.slots[j]
    BY <1>3, <1>4, <2>1
  <2>2. b.weapon \in Slot \cup {NoSlot} /\ b.armor \in Slot \cup {NoSlot} BY <1>1 DEF Own
  <2> QED BY <1>3, <1>8, <2>1, <2>2 DEF Arms
<1> QED BY <1>7, <1>8

\* GetItemIndex of an item that is held.
LEMMA FoundSlot ==
  ASSUME NEW b, b \in Own, NEW k \in Held(b)
  PROVE  SlotOf(b, k) \in Filled(b) /\ b.slots[SlotOf(b, k)] = k
<1>1. PICK i \in Filled(b) : b.slots[i] = k BY DEF Held
<1>2. k # None BY <1>1 DEF Filled
<1>3. {j \in Slot : b.slots[j] = k} # {} BY <1>1, FilledIsFinite
<1>4. SlotOf(b, k) \in {j \in Slot : b.slots[j] = k}
  BY <1>3, FirstIsLeast, SlotsAreNumbers DEF SlotOf
<1> QED BY <1>2, <1>4 DEF Filled

\* The items of a row fit into the slots from 1 on.
LEMMA LoadFits ==
  ASSUME NEW items, items \subseteq Item, NEW order \in SetToSeqs(items)
  PROVE  DOMAIN order \subseteq Slot /\ \A i \in DOMAIN order : order[i] \in items
<1>1. Cardinality(items) \in Nat /\ Cardinality(items) < PlayerItems
  <2>1. /\ IsFiniteSet(items) /\ Cardinality(items) <= Cardinality(Item)
        /\ Cardinality(Item) \in Nat
    BY BelongingsAssumption, FS_Subset, FS_CardinalityType
  <2>2. Cardinality(items) \in Nat BY <2>1, FS_CardinalityType
  <2> QED BY <2>1, <2>2, BelongingsAssumption
<1>2. order \in [1 .. Cardinality(items) -> items] BY DEF SetToSeqs
<1>3. 1 .. Cardinality(items) \subseteq Slot BY <1>1, BelongingsAssumption DEF Slot
<1> QED BY <1>2, <1>3

\* Each item of the row comes once.
LEMMA Enumerated ==
  ASSUME NEW items, items \subseteq Item, NEW order \in SetToSeqs(items)
  PROVE  ToSet(order) = items
<1> DEFINE n == Cardinality(items)
<1>1. IsFiniteSet(items) /\ n \in Nat
  BY BelongingsAssumption, FS_Subset, FS_CardinalityType
<1>2. order \in [1 .. n -> items] /\ \A i, j \in 1 .. n : i # j => order[i] # order[j]
  BY DEF SetToSeqs
<1>3. Cardinality(1 .. n) = n BY <1>1, FS_Interval
<1>4. order \in Injection(1 .. n, items)
  BY <1>2 DEF Injection, IsInjective
<1>5. order \in Surjection(1 .. n, items) BY <1>1, <1>3, <1>4, FS_Injection
<1>6. \A k \in items : \E i \in 1 .. n : order[i] = k BY <1>5 DEF Surjection
<1> QED BY <1>2, <1>6 DEF ToSet

\* ParseRow empties no slot and counts nothing.
LEMMA Parsed ==
  ASSUME NEW b, Covered(b), NEW r \in Row, NEW order,
         DOMAIN order \subseteq Slot, \A i \in DOMAIN order : order[i] \in Item
  PROVE  Covered(ParseRow(b, r, order))
<1> DEFINE slots == [i \in Slot |-> IF i \in DOMAIN order THEN order[i] ELSE b.slots[i]]
           c == ParseRow(b, r, order)
           weapon == Armed(slots, r.weapon, b.weapon)
           armor == Armed(slots, r.armor, b.armor)
<1>1. b \in Own /\ b.items \in Int /\ b.items <= Cardinality(Filled(b))
  BY DEF Covered, Own
<1>2. slots \in [Slot -> Item \cup {None}] BY <1>1 DEF Own
<1>3. ASSUME NEW k, NEW was \in Slot \cup {NoSlot}
      PROVE  Armed(slots, k, was) \in Slot \cup {NoSlot}
  <2> DEFINE at == {i \in Slot : slots[i] = k}
  <2>1. at # {} => First(at) \in at BY FirstIsLeast, SlotsAreNumbers
  <2>2. Armed(slots, k, was) = IF k = None THEN NoSlot ELSE IF at = {} THEN was ELSE First(at)
    BY DEF Armed
  <2> HIDE DEF slots
  <2>3. at # {} => First(at) \in Slot BY <2>1
  <2> HIDE DEF at
  <2> QED BY <2>2, <2>3, <1>3
<1>4. weapon \in Slot \cup {NoSlot} /\ armor \in Slot \cup {NoSlot}
  BY <1>1, <1>3 DEF Own
<1>5. c = [b EXCEPT !.slots = slots, !.weapon = weapon, !.armor = armor,
                    !.money = r.money]
  BY <1>1 DEF ParseRow, Own
<1>6. r.money \in Nat BY DEF Row
<1> HIDE DEF c, weapon, armor
<1>7. c \in Own /\ c.slots = slots /\ c.items = b.items
  <2> HIDE DEF slots
  <2> QED BY <1>1, <1>2, <1>4, <1>5, <1>6 DEF Own
<1>8. Filled(b) \subseteq Filled(c)
  <2>1. None \notin Item BY BelongingsAssumption
  <2> QED BY <1>7, <2>1 DEF Filled
<1>9. Cardinality(Filled(b)) <= Cardinality(Filled(c))
  BY <1>8, FilledIsFinite, FS_Subset
<1>10. Cardinality(Filled(b)) \in Nat /\ Cardinality(Filled(c)) \in Nat BY FilledIsFinite
<1>11. Covered(c) BY <1>1, <1>7, <1>9, <1>10 DEF Covered
<1> QED BY <1>11 DEF c

\* A new object has the items of the row and no others, and is armed with them.
LEMMA Loaded ==
  ASSUME NEW r \in Row, NEW order \in SetToSeqs(r.items)
  PROVE  LET c == ParseRow(Nothing, r, order)
         IN  Covered(c) /\ Arms(c) /\ Held(c) = r.items
<1> DEFINE slots == [i \in Slot |-> IF i \in DOMAIN order THEN order[i] ELSE Nothing.slots[i]]
           c == ParseRow(Nothing, r, order)
<1>1. /\ r.items \subseteq Item
      /\ r.weapon \in Weapons \cup {None} /\ r.armor \in Armors \cup {None}
  BY DEF Row
<1>2. DOMAIN order \subseteq Slot /\ \A i \in DOMAIN order : order[i] \in r.items
  BY <1>1, LoadFits
<1>3. Filled(Nothing) = {} BY DEF Filled, Nothing
<1>4. Covered(Nothing)
  <2>1. Nothing \in Own BY DEF Nothing, Own
  <2> QED BY <1>3, <2>1, FS_EmptySet DEF Covered, Nothing
<1>5. Covered(c) BY <1>1, <1>2, <1>4, Parsed
<1>6. /\ c.slots = slots
      /\ c.weapon = Armed(slots, r.weapon, NoSlot)
      /\ c.armor = Armed(slots, r.armor, NoSlot)
  BY DEF ParseRow, Nothing
<1>7. ASSUME NEW k, Armed(slots, k, NoSlot) # NoSlot
      PROVE  slots[Armed(slots, k, NoSlot)] = k
  <2> DEFINE at == {i \in Slot : slots[i] = k}
  <2>1. at # {} => First(at) \in at BY FirstIsLeast, SlotsAreNumbers
  <2>2. Armed(slots, k, NoSlot)
          = IF k = None THEN NoSlot ELSE IF at = {} THEN NoSlot ELSE First(at)
    BY DEF Armed
  <2> HIDE DEF slots
  <2>3. at # {} => slots[First(at)] = k BY <2>1
  <2> HIDE DEF at
  <2> QED BY <2>2, <2>3, <1>7
<1>8. Armed(slots, None, NoSlot) = NoSlot BY DEF Armed
<1>9. Arms(c)
  <2> HIDE DEF slots, c
  <2>1. c.weapon # NoSlot => c.slots[c.weapon] \in Weapons
    BY <1>1, <1>6, <1>7, <1>8
  <2>2. c.armor # NoSlot => c.slots[c.armor] \in Armors
    BY <1>1, <1>6, <1>7, <1>8
  <2> QED BY <2>1, <2>2 DEF Arms
<1>10. Held(c) = r.items
  <2>1. None \notin r.items BY <1>1, BelongingsAssumption
  <2>2. Nothing.slots = [i \in Slot |-> None] BY DEF Nothing
  <2>3. Filled(c) = DOMAIN order BY <1>2, <1>6, <2>1, <2>2 DEF Filled
  <2>4. \A i \in DOMAIN order : c.slots[i] = order[i] BY <1>2, <1>6
  <2>5. r.items = {order[i] : i \in DOMAIN order} BY <1>1, Enumerated DEF ToSet
  <2> HIDE DEF c
  <2> QED BY <2>3, <2>4, <2>5 DEF Held
<1> QED BY <1>5, <1>9, <1>10

-----------------------------------------------------------------------------
(* All players: what a step keeps. *)

Sound ==
  /\ own \in [Player -> Own] /\ \A p \in Player : Covered(own[p])
  /\ row \in [Player -> Row]

AllArms == \A p \in Player : Arms(own[p])

LEMMA InitSound == Init => Sound /\ AllArms
<1> SUFFICES ASSUME Init PROVE Sound /\ AllArms OBVIOUS
<1> DEFINE b == [Nothing EXCEPT !.money = SavedMoney]
<1>1. SavedMoney \in Nat BY BelongingsAssumption
<1>2. Nothing \in Own BY DEF Nothing, Own
<1>3. Filled(Nothing) = {} BY DEF Filled, Nothing
<1>4. Covered(Nothing) BY <1>2, <1>3, FS_EmptySet DEF Covered, Nothing
<1>5. Arms(Nothing) BY DEF Arms, Nothing
<1>6. Covered(b) /\ Arms(b) BY <1>1, <1>4, <1>5, Paid
<1>7. b \in Own BY <1>6 DEF Covered
<1>8. own = [p \in Player |-> b] BY DEF Init
<1>9. row \in [Player -> Row] BY <1>1 DEF Init, Row
<1> HIDE DEF b
<1> QED BY <1>6, <1>7, <1>8, <1>9 DEF Sound, AllArms

\* One player's belongings change and nothing is saved.
LEMMA OneChanges ==
  ASSUME Sound, NEW p \in Player, NEW c, Covered(c), Arms(own[p]) => Arms(c),
         own' = [own EXCEPT ![p] = c], UNCHANGED row
  PROVE  Sound' /\ (AllArms => AllArms')
<1>1. c \in Own BY DEF Covered
<1>2. own' \in [Player -> Own] BY <1>1 DEF Sound
<1>3. ASSUME NEW q \in Player PROVE own'[q] = IF q = p THEN c ELSE own[q] BY DEF Sound
<1>4. \A q \in Player : Covered(own'[q]) BY <1>3 DEF Sound
<1>5. Sound' BY <1>2, <1>4 DEF Sound
<1>6. ASSUME AllArms PROVE AllArms' BY <1>3, <1>6 DEF AllArms
<1> QED BY <1>5, <1>6

\* Nobody's belongings change and nothing is saved.
LEMMA NoneChanges ==
  ASSUME Sound, UNCHANGED <<own, row>>
  PROVE  Sound' /\ (AllArms => AllArms')
BY DEF Sound, AllArms

LEMMA CarryKeeps ==
  ASSUME Sound, NEW p \in Player, NEW k \in Item, NEW paid \in Nat, NEW left,
         paid <= own[p].money, Carry(p, k, paid, left), UNCHANGED row
  PROVE  Sound' /\ (AllArms => AllArms')
<1>1. CASE Overruns(own[p]) BY <1>1, NoneChanges DEF Carry
<1>2. CASE ~Overruns(own[p])
  <2> DEFINE b == PickUpItem(own[p], k)
             c == [b EXCEPT !.money = b.money - paid]
  <2>1. Covered(own[p]) BY DEF Sound
  <2>2. Covered(b) /\ (Arms(own[p]) => Arms(b)) BY <1>2, <2>1, PickedUp
  <2>3. own' = [own EXCEPT ![p] = c] BY <1>2 DEF Carry
  <2>5. b.money = own[p].money BY <2>1 DEF PickUpItem, Covered, Own
  <2> HIDE DEF b
  <2>4. b.money - paid \in Nat BY <2>2, <2>5 DEF Covered, Own
  <2>6. Covered(c) /\ (Arms(b) => Arms(c)) BY <2>2, <2>4, Paid
  <2> HIDE DEF c
  <2> QED BY <2>2, <2>3, <2>6, OneChanges
<1> QED BY <1>1, <1>2

\* What a player hands over or drinks up.
LEMMA HandedOver ==
  ASSUME Sound, NEW p \in Player, NEW k \in Held(own[p])
  PROVE  LET b == DropSlot(own[p], SlotOf(own[p], k))
         IN  Covered(b) /\ (Arms(own[p]) => Arms(b)) /\ b.money \in Nat
<1> DEFINE b == DropSlot(own[p], SlotOf(own[p], k))
<1>1. Covered(own[p]) /\ own[p] \in Own BY DEF Sound
<1>2. SlotOf(own[p], k) \in Filled(own[p]) BY <1>1, FoundSlot
<1>3. Covered(b) /\ (Arms(own[p]) => Arms(b)) BY <1>1, <1>2, Dropped
<1> HIDE DEF b
<1>4. b.money \in Nat BY <1>3 DEF Covered, Own
<1> QED BY <1>3, <1>4 DEF b

LEMMA MoneyChanges ==
  ASSUME Sound, NEW p \in Player, NEW m \in Nat,
         own' = [own EXCEPT ![p] = [own[p] EXCEPT !.money = m]], UNCHANGED row
  PROVE  Sound' /\ (AllArms => AllArms')
<1> DEFINE c == [own[p] EXCEPT !.money = m]
<1>1. Covered(own[p]) BY DEF Sound
<1>2. Covered(c) /\ (Arms(own[p]) => Arms(c)) BY <1>1, Paid
<1> HIDE DEF c
<1>3. own' = [own EXCEPT ![p] = c] BY DEF c
<1> QED BY <1>2, <1>3, OneChanges

\* What is armed is moved to another slot or taken off.
LEMMA Rearmed ==
  ASSUME Sound, NEW p \in Player, NEW i \in Slot \cup {NoSlot}, UNCHANGED row,
         \/ /\ own' = [own EXCEPT ![p] = [own[p] EXCEPT !.weapon = i]]
            /\ i # NoSlot => own[p].slots[i] \in Weapons
         \/ /\ own' = [own EXCEPT ![p] = [own[p] EXCEPT !.armor = i]]
            /\ i # NoSlot => own[p].slots[i] \in Armors
  PROVE  Sound' /\ (AllArms => AllArms')
<1>1. Covered(own[p]) /\ own[p] \in Own BY DEF Sound
<1>2. ASSUME NEW c, c \in Own, c.slots = own[p].slots, c.items = own[p].items
      PROVE  Covered(c)
  <2>1. Filled(c) = Filled(own[p]) BY <1>2 DEF Filled
  <2> QED BY <1>1, <1>2, <2>1 DEF Covered
<1>3. CASE /\ own' = [own EXCEPT ![p] = [own[p] EXCEPT !.weapon = i]]
           /\ i # NoSlot => own[p].slots[i] \in Weapons
  <2> DEFINE c == [own[p] EXCEPT !.weapon = i]
  <2>1. /\ c \in Own /\ c.slots = own[p].slots /\ c.items = own[p].items
        /\ c.weapon = i /\ c.armor = own[p].armor
    BY <1>1 DEF Own
  <2>2. own' = [own EXCEPT ![p] = c] BY <1>3
  <2> HIDE DEF c
  <2>3. Covered(c) BY <1>2, <2>1
  <2>4. Arms(own[p]) => Arms(c) BY <1>3, <2>1 DEF Arms
  <2> QED BY <2>2, <2>3, <2>4, OneChanges
<1>4. CASE /\ own' = [own EXCEPT ![p] = [own[p] EXCEPT !.armor = i]]
           /\ i # NoSlot => own[p].slots[i] \in Armors
  <2> DEFINE c == [own[p] EXCEPT !.armor = i]
  <2>1. /\ c \in Own /\ c.slots = own[p].slots /\ c.items = own[p].items
        /\ c.armor = i /\ c.weapon = own[p].weapon
    BY <1>1 DEF Own
  <2>2. own' = [own EXCEPT ![p] = c] BY <1>4
  <2> HIDE DEF c
  <2>3. Covered(c) BY <1>2, <2>1
  <2>4. Arms(own[p]) => Arms(c) BY <1>4, <2>1 DEF Arms
  <2> QED BY <2>2, <2>3, <2>4, OneChanges
<1> QED BY <1>3, <1>4

LEMMA UseItemKeeps ==
  ASSUME Sound, NEW p \in Player, NEW k \in Item, UseItem(p, k)
  PROVE  Sound' /\ (AllArms => AllArms')
<1> DEFINE i == SlotOf(own[p], k)
<1>1. k \in Held(own[p]) /\ UNCHANGED row BY DEF UseItem, Command, disk
<1>2. own[p] \in Own BY DEF Sound
<1>3. i \in Slot /\ own[p].slots[i] = k BY <1>1, <1>2, FoundSlot, FilledIsFinite
<1>4. CASE k \in Weapons
  <2>1. own' = [own EXCEPT ![p] = [own[p] EXCEPT !.weapon = i]] BY <1>4 DEF UseItem
  <2> HIDE DEF i
  <2> QED BY <1>1, <1>3, <1>4, <2>1, Rearmed
<1>5. CASE k \notin Weapons /\ k \in Armors
  <2>1. own' = [own EXCEPT ![p] = [own[p] EXCEPT !.armor = i]] BY <1>5 DEF UseItem
  <2> HIDE DEF i
  <2> QED BY <1>1, <1>3, <1>5, <2>1, Rearmed
<1>6. CASE k \notin Weapons /\ k \notin Armors
  <2> DEFINE c == DropSlot(own[p], i)
  <2>1. own' = [own EXCEPT ![p] = c] BY <1>6 DEF UseItem
  <2>2. Covered(c) /\ (Arms(own[p]) => Arms(c)) BY <1>1, HandedOver
  <2> HIDE DEF c
  <2> QED BY <1>1, <2>1, <2>2, OneChanges
<1> QED BY <1>4, <1>5, <1>6

LEMMA PlayerKilledKeeps ==
  ASSUME Sound, NEW p \in Player, PlayerKilled(p)
  PROVE  Sound' /\ (AllArms => AllArms')
<1> DEFINE b == own[p]
           poorer == [b EXCEPT !.money = b.money - (b.money \div DeathShare)]
<1>1. Covered(b) /\ b \in Own /\ b.money \in Nat BY DEF Sound, Own
<1>2. b.money - (b.money \div DeathShare) \in Nat
  <2>1. DeathShare \in Nat \ {0} BY BelongingsAssumption
  <2> QED BY <1>1, <2>1
<1>3. Covered(poorer) /\ (Arms(b) => Arms(poorer)) /\ Filled(poorer) = Filled(b)
  BY <1>1, <1>2, Paid
<1>4. UNCHANGED row BY DEF PlayerKilled, Command, disk
<1>5. \/ own' = [own EXCEPT ![p] = poorer]
      \/ \E i \in Filled(b) : own' = [own EXCEPT ![p] = DropSlot(poorer, i)]
  BY DEF PlayerKilled
<1> HIDE DEF poorer
<1>6. CASE own' = [own EXCEPT ![p] = poorer] BY <1>3, <1>4, <1>6, OneChanges
<1>7. ASSUME NEW i \in Filled(b), own' = [own EXCEPT ![p] = DropSlot(poorer, i)]
      PROVE  Sound' /\ (AllArms => AllArms')
  <2>1. /\ Covered(DropSlot(poorer, i))
        /\ Arms(poorer) => Arms(DropSlot(poorer, i))
    BY <1>3, Dropped
  <2> QED BY <1>3, <1>4, <1>7, <2>1, OneChanges
<1> QED BY <1>5, <1>6, <1>7

LEMMA CommitKeeps ==
  ASSUME Sound, Commit
  PROVE  Sound' /\ (AllArms => AllArms')
<1> DEFINE w == Head(job)
<1>1. UNCHANGED own /\ Accepted(w) /\ Written(w) BY DEF Commit
<1> HIDE DEF w
<1>2. ASSUME NEW p \in Player PROVE Held(own[p]) \subseteq Item
  <2>1. own[p].slots \in [Slot -> Item \cup {None}] BY DEF Sound, Own
  <2> QED BY <2>1, FilledIsFinite DEF Held, Filled
<1>3. SavedMoney \in Nat BY BelongingsAssumption
<1>4. row' \in [Player -> Row]
  <2>1. CASE w.table = "player"
    <3> DEFINE weapon == InHand(own[w.of], own[w.of].weapon)
               armor == InHand(own[w.of], own[w.of].armor)
               r == [row[w.of] EXCEPT !.weapon = weapon, !.armor = armor,
                                      !.money = SavedMoney]
    <3>1. row' = [row EXCEPT ![w.of] = r] BY <1>1, <2>1 DEF Written, Sound
    <3>2. weapon \in Weapons \cup {None} /\ armor \in Armors \cup {None}
      BY <1>1, <2>1 DEF Accepted
    <3> HIDE DEF weapon, armor
    <3>3. w.of \in Player => r \in Row BY <1>3, <3>2 DEF Sound, Row
    <3> HIDE DEF r
    <3> QED BY <3>1, <3>3 DEF Sound
  <2>2. CASE w.table = "inventory"
    <3> DEFINE r == [row[w.of] EXCEPT !.items = InventoryRows(w.of)]
    <3>1. row' = [row EXCEPT ![w.of] = r] BY <1>1, <2>2 DEF Written, Sound
    <3>2. w.of \in Player => InventoryRows(w.of) \subseteq Item BY <1>2 DEF InventoryRows
    <3>3. w.of \in Player => r \in Row BY <3>2 DEF Sound, Row
    <3> HIDE DEF r
    <3> QED BY <3>1, <3>3 DEF Sound
  <2>3. CASE w.table # "player" /\ w.table # "inventory"
    BY <1>1, <2>3 DEF Written, Sound
  <2> QED BY <2>1, <2>2, <2>3
<1> QED BY <1>1, <1>4 DEF Sound, AllArms

LEMMA ReloadKeeps ==
  ASSUME Sound, NEW p \in Player, Reload(p)
  PROVE  Sound'
<1>1. UNCHANGED row BY DEF Reload, disk
<1>2. PICK order \in SetToSeqs(row[p].items) :
        own' = [own EXCEPT ![p] = ParseRow(own[p], row[p], order)]
  BY DEF Reload
<1>3. row[p] \in Row /\ row[p].items \subseteq Item BY DEF Sound, Row
<1>4. DOMAIN order \subseteq Slot /\ \A i \in DOMAIN order : order[i] \in Item
  BY <1>3, LoadFits
<1> DEFINE c == ParseRow(own[p], row[p], order)
<1>5. Covered(own[p]) BY DEF Sound
<1>6. Covered(c) BY <1>3, <1>4, <1>5, Parsed
<1>7. own' = [own EXCEPT ![p] = c] BY <1>2
<1> HIDE DEF c
<1>8. c \in Own BY <1>6 DEF Covered
<1> QED BY <1>1, <1>6, <1>7, <1>8 DEF Sound

\* A new process has of every player what the row has.
LEMMA StartLoads ==
  ASSUME Sound, Start
  PROVE  Sound' /\ AllArms' /\ \A p \in Player : row'[p].items = Held(own'[p])
<1>1. UNCHANGED row BY DEF Start, disk
<1>2. PICK orders \in [Player -> UNION {SetToSeqs(row[p].items) : p \in Player}] :
        /\ \A p \in Player : ToSet(orders[p]) = row[p].items
        /\ own' = [p \in Player |-> ParseRow(Nothing, row[p], orders[p])]
  BY DEF Start
<1>3. ASSUME NEW p \in Player
      PROVE  /\ Covered(own'[p]) /\ Arms(own'[p])
             /\ Held(own'[p]) = row[p].items
  <2>1. row[p] \in Row BY DEF Sound
  <2>2. orders[p] \in SetToSeqs(row[p].items)
    <3>1. PICK q \in Player : orders[p] \in SetToSeqs(row[q].items) BY <1>2
    <3>2. row[q].items \subseteq Item BY DEF Sound, Row
    <3>3. ToSet(orders[p]) = row[q].items BY <3>1, <3>2, Enumerated
    <3> QED BY <1>2, <3>1, <3>3
  <2>3. own'[p] = ParseRow(Nothing, row[p], orders[p]) BY <1>2
  <2> QED BY <2>1, <2>2, <2>3, Loaded
<1>4. \A p \in Player : own'[p] \in Own BY <1>3 DEF Covered
<1>5. own' \in [Player -> Own] BY <1>2, <1>4
<1> QED BY <1>1, <1>3, <1>5 DEF Sound, AllArms

LEMMA NextKeeps ==
  ASSUME Sound, [Next]_vars
  PROVE  Sound' /\ ("reload" \notin Deeds /\ AllArms => AllArms')
<1> USE DEF Command, disk
<1>1. ASSUME NEW p \in Player, NEW k \in Item, GetItem(p, k) \/ Buy(p, k)
      PROVE  Sound' /\ (AllArms => AllArms')
  <2>1. Price[k] \in Nat /\ own[p].money \in Nat BY BelongingsAssumption DEF Sound, Own
  <2>2. UNCHANGED row BY <1>1 DEF GetItem, Buy
  <2>3. \E paid \in Nat : \E left : paid <= own[p].money /\ Carry(p, k, paid, left)
    BY <1>1, <2>1 DEF GetItem, Buy
  <2> QED BY <2>2, <2>3, CarryKeeps
<1>2. ASSUME NEW p \in Player, NEW k \in Item, DropItem(p, k)
      PROVE  Sound' /\ (AllArms => AllArms')
  <2> DEFINE c == DropSlot(own[p], SlotOf(own[p], k))
  <2>1. own' = [own EXCEPT ![p] = c] /\ UNCHANGED row /\ k \in Held(own[p])
    BY <1>2 DEF DropItem
  <2>2. Covered(c) /\ (Arms(own[p]) => Arms(c)) BY <2>1, HandedOver
  <2> HIDE DEF c
  <2> QED BY <2>1, <2>2, OneChanges
<1>3. ASSUME NEW p \in Player, NEW k \in Item, Sell(p, k)
      PROVE  Sound' /\ (AllArms => AllArms')
  <2> DEFINE b == DropSlot(own[p], SlotOf(own[p], k))
             c == [b EXCEPT !.money = b.money + Price[k]]
  <2>1. own' = [own EXCEPT ![p] = c] /\ UNCHANGED row /\ k \in Held(own[p])
    BY <1>3 DEF Sell
  <2>2. Covered(b) /\ (Arms(own[p]) => Arms(b)) /\ b.money \in Nat BY <2>1, HandedOver
  <2> HIDE DEF b
  <2>3. b.money + Price[k] \in Nat BY <2>2, BelongingsAssumption
  <2>4. Covered(c) /\ (Arms(own[p]) => Arms(c)) BY <2>2, <2>3, Paid
  <2> HIDE DEF c
  <2> QED BY <2>1, <2>4, OneChanges
<1>4. ASSUME NEW p \in Player, NEW m \in Amounts, GetMoney(p, m) \/ DropMoney(p, m)
      PROVE  Sound' /\ (AllArms => AllArms')
  <2>1. m \in Nat /\ own[p].money \in Nat BY BelongingsAssumption DEF Sound, Own
  <2>2. UNCHANGED row BY <1>4 DEF GetMoney, DropMoney
  <2>3. CASE GetMoney(p, m)
    <3>1. own' = [own EXCEPT ![p] = [own[p] EXCEPT !.money = own[p].money + m]]
      BY <2>3 DEF GetMoney, Sound
    <3>2. own[p].money + m \in Nat BY <2>1
    <3> QED BY <2>2, <3>1, <3>2, MoneyChanges
  <2>4. CASE DropMoney(p, m)
    <3>1. /\ own' = [own EXCEPT ![p] = [own[p] EXCEPT !.money = own[p].money - m]]
          /\ m <= own[p].money
      BY <2>4 DEF DropMoney, Sound
    <3>2. own[p].money - m \in Nat BY <2>1, <3>1
    <3> QED BY <2>2, <3>1, <3>2, MoneyChanges
  <2> QED BY <1>4, <2>3, <2>4
<1>5. ASSUME NEW p \in Player, RemoveItem(p)
      PROVE  Sound' /\ (AllArms => AllArms')
  <2>1. NoSlot \in Slot \cup {NoSlot} /\ UNCHANGED row BY <1>5 DEF RemoveItem
  <2>2. \/ own' = [own EXCEPT ![p] = [own[p] EXCEPT !.weapon = NoSlot]]
        \/ own' = [own EXCEPT ![p] = [own[p] EXCEPT !.armor = NoSlot]]
    BY <1>5 DEF RemoveItem, Sound
  <2> QED BY <2>1, <2>2, Rearmed
<1>6. ASSUME NEW p \in Player, Reload(p)
      PROVE  Sound' /\ "reload" \in Deeds
  BY <1>6, ReloadKeeps DEF Reload
<1>7. ASSUME \/ \E p \in Player : Login(p) \/ Logout(p)
             \/ \E p \in Player, m \in LootMoney, drops \in LootDrops : EnemyKilled(p, m, drops)
             \/ SaveDatabases \/ Shutdown \/ Fail \/ Halt \/ Crash
             \/ UNCHANGED vars
      PROVE  Sound' /\ (AllArms => AllArms')
  <2>1. UNCHANGED <<own, row>>
    BY <1>7 DEF Login, Logout, EnemyKilled, SaveDatabases, Shutdown, Fail, Halt, Crash, vars
  <2> QED BY <2>1, NoneChanges
<1> QED BY <1>1, <1>2, <1>3, <1>4, <1>5, <1>6, <1>7, UseItemKeeps, PlayerKilledKeeps,
           CommitKeeps, StartLoads DEF Next

-----------------------------------------------------------------------------
(* Who is offline is saved. *)

\* What a logout left to do is in the row or still in the queue of writes.
Owed(p) == job = PlayerJob(p) \/ job = Tail(PlayerJob(p))
Durable ==
  mode = "up" => \A p \in Player \ online : row[p].items = Held(own[p]) \/ Owed(p)

LEMMA JobOfLogout ==
  ASSUME NEW p
  PROVE  /\ PlayerJob(p) # <<>> /\ Tail(PlayerJob(p)) # <<>>
         /\ Head(PlayerJob(p)) = [table |-> "player", of |-> p]
         /\ Head(Tail(PlayerJob(p))) = [table |-> "inventory", of |-> p]
BY DEF PlayerJob

\* A transaction brings every player's saved items up to date, or leaves them.
LEMMA CommitIsCurrent ==
  ASSUME Sound, Durable, Commit
  PROVE  Durable'
<1> SUFFICES ASSUME mode' = "up", NEW p \in Player \ online'
             PROVE  row'[p].items = Held(own'[p]) \/ Owed(p)'
  BY DEF Durable
<1> DEFINE w == Head(job)
<1>1. /\ mode = "up" /\ UNCHANGED <<own, online>> /\ p \in Player
      /\ Written(w) /\ job' = Tail(job)
  BY DEF Commit
<1>2. row[p].items = Held(own[p]) \/ Owed(p) BY <1>1 DEF Durable
<1>3. w.table = "inventory" /\ w.of = p => row'[p].items = Held(own'[p])
  <2> HIDE DEF w
  <2> SUFFICES ASSUME w.table = "inventory", w.of = p
               PROVE  row'[p].items = Held(own[p])
    BY <1>1
  <2>1. row' = [row EXCEPT ![p].items = Held(own[p])]
    BY <1>1 DEF Written, InventoryRows
  <2> QED BY <1>1, <2>1 DEF Sound, Row
<1>4. ~ (w.table = "inventory" /\ w.of = p) => row'[p].items = row[p].items
  <2> HIDE DEF w
  <2>1. CASE w.table = "player"
    <3> DEFINE r == [row[w.of] EXCEPT !.weapon = InHand(own[w.of], own[w.of].weapon),
                                      !.armor = InHand(own[w.of], own[w.of].armor),
                                      !.money = SavedMoney]
    <3>1. row' = [row EXCEPT ![w.of] = r] BY <1>1, <2>1 DEF Written, Sound
    <3>2. w.of \in Player => r.items = row[w.of].items BY DEF Sound, Row
    <3> HIDE DEF r
    <3> QED BY <1>1, <3>1, <3>2 DEF Sound
  <2>2. CASE w.table = "inventory" BY <1>1, <2>2 DEF Written, Sound
  <2>3. CASE w.table # "player" /\ w.table # "inventory"
    BY <1>1, <2>3 DEF Written
  <2> QED BY <2>1, <2>2, <2>3
<1>5. CASE row[p].items = Held(own[p]) BY <1>1, <1>3, <1>4, <1>5
<1>6. CASE job = PlayerJob(p) BY <1>1, <1>6 DEF Owed, PlayerJob
<1>7. CASE job = Tail(PlayerJob(p)) BY <1>3, <1>7, JobOfLogout
<1> QED BY <1>2, <1>5, <1>6, <1>7 DEF Owed

\* A transaction of a logout does not fail: what is armed is an armor, a weapon.
LEMMA NoFailureMatters ==
  ASSUME Sound, AllArms, Durable, "fail" \notin Deeds, Fail
  PROVE  Durable'
<1> SUFFICES ASSUME mode' = "up", NEW p \in Player \ online'
             PROVE  row'[p].items = Held(own'[p]) \/ Owed(p)'
  BY DEF Durable
<1>1. /\ mode = "up" /\ UNCHANGED <<own, online, row>> /\ p \in Player
      /\ ~Accepted(Head(job))
  BY DEF Fail, disk
<1>2. row[p].items = Held(own[p]) \/ Owed(p) BY <1>1 DEF Durable
<1>3. Accepted([table |-> "player", of |-> p])
  BY <1>1 DEF Accepted, InHand, AllArms, Arms
<1>4. Accepted([table |-> "inventory", of |-> p]) BY DEF Accepted
<1>5. ~Owed(p) BY <1>1, <1>3, <1>4, JobOfLogout DEF Owed
<1> QED BY <1>1, <1>2, <1>5

LEMMA NextIsDurable ==
  ASSUME Sound, AllArms, Durable, "fail" \notin Deeds, "reload" \notin Deeds,
         [Next]_vars
  PROVE  Durable'
<1>1. ASSUME job = <<>>, Durable
      PROVE  mode = "up" => \A p \in Player \ online : row[p].items = Held(own[p])
  BY <1>1, JobOfLogout DEF Durable, Owed
<1>2. ASSUME NEW p \in Player, NEW deed, Command(p, deed),
             own' = [own EXCEPT ![p] = own'[p]]
      PROVE  Durable'
  <2>1. p \in online /\ job = <<>> /\ UNCHANGED <<mode, online, row>>
    BY <1>2 DEF Command, server, disk
  <2>2. \A q \in Player \ online : own'[q] = own[q] BY <1>2, <2>1 DEF Sound
  <2>3. ASSUME mode = "up", NEW q \in Player \ online
        PROVE  row'[q].items = Held(own'[q])
    <3>1. row[q].items = Held(own[q]) BY <1>1, <2>1, <2>3
    <3> QED BY <2>1, <2>2, <3>1
  <2> QED BY <2>1, <2>3 DEF Durable
<1>3. ASSUME NEW p \in Player, NEW k \in Item,
             GetItem(p, k) \/ DropItem(p, k) \/ UseItem(p, k) \/ Buy(p, k) \/ Sell(p, k)
      PROVE  Durable'
  <2>1. own' = [own EXCEPT ![p] = own'[p]]
    BY <1>3 DEF GetItem, DropItem, UseItem, Buy, Sell, Carry, Sound
  <2>2. \E deed : Command(p, deed) BY <1>3 DEF GetItem, DropItem, UseItem, Buy, Sell
  <2> QED BY <1>2, <2>1, <2>2
<1>4. ASSUME NEW p \in Player, NEW m \in Amounts, GetMoney(p, m) \/ DropMoney(p, m)
      PROVE  Durable'
  <2>1. own' = [own EXCEPT ![p] = own'[p]] BY <1>4 DEF GetMoney, DropMoney, Sound
  <2>2. \E deed : Command(p, deed) BY <1>4 DEF GetMoney, DropMoney
  <2> QED BY <1>2, <2>1, <2>2
<1>5. ASSUME NEW p \in Player, RemoveItem(p) \/ PlayerKilled(p)
      PROVE  Durable'
  <2>1. own' = [own EXCEPT ![p] = own'[p]] BY <1>5 DEF RemoveItem, PlayerKilled, Sound
  <2>2. \E deed : Command(p, deed) BY <1>5 DEF RemoveItem, PlayerKilled
  <2> QED BY <1>2, <2>1, <2>2
<1>6. ASSUME NEW p \in Player, NEW m, NEW drops, EnemyKilled(p, m, drops)
      PROVE  Durable'
  <2>1. own' = [own EXCEPT ![p] = own'[p]] BY <1>6 DEF EnemyKilled, Sound
  <2>2. \E deed : Command(p, deed) BY <1>6 DEF EnemyKilled
  <2> QED BY <1>2, <2>1, <2>2
<1>7. ASSUME NEW p \in Player, Login(p) PROVE Durable'
  BY <1>1, <1>7 DEF Login, Idle, server, disk, Durable
<1>8. ASSUME NEW p \in Player, Logout(p) PROVE Durable'
  BY <1>1, <1>8 DEF Logout, Idle, disk, Durable, Owed, PlayerJob
<1>9. CASE SaveDatabases BY <1>1, <1>9 DEF SaveDatabases, Idle, disk, Durable
<1>10. CASE Shutdown \/ Halt \/ Crash BY <1>10 DEF Shutdown, Halt, Crash, Durable
<1>11. CASE Start BY <1>11, StartLoads DEF Durable
<1>12. CASE UNCHANGED vars BY <1>12 DEF vars, Durable, Owed
<1>13. ASSUME NEW p \in Player, Reload(p) PROVE FALSE BY <1>13 DEF Reload
<1> QED BY <1>3, <1>4, <1>5, <1>6, <1>7, <1>8, <1>9, <1>10, <1>11, <1>12, <1>13,
           CommitIsCurrent, NoFailureMatters DEF Next

-----------------------------------------------------------------------------
(* The floor and the queue of writes. *)

Pile(items) == items \in Seq(Item) /\ Len(items) <= RoomItems

\* A save that is given up at its first transaction has a second one.
Ends(w) == w.table \notin {"player", "room money"}
Queued == job \in Seq(Write) /\ (job # <<>> => Ends(job[Len(job)]))

RestTyped ==
  /\ mode \in {"up", "stopping", "down"} /\ clean \in BOOLEAN
  /\ Queued /\ online \subseteq Player
  /\ floor \in [items : Seq(Item), money : Nat] /\ Pile(floor.items)
  /\ roomRow \in [items : SUBSET Item, money : Nat]
  /\ Cardinality(roomRow.items) <= RoomItems
  /\ reloads \in 0 .. MaxReloads /\ fault \in {"none", "overrun"}

LEMMA AddedItem ==
  ASSUME NEW items, Pile(items), NEW k \in Item
  PROVE  Pile(AddItem(items, k))
<1> DEFINE left == IF Len(items) >= RoomItems THEN Tail(items) ELSE items
<1>1. Len(items) \in Nat /\ items \in Seq(Item) /\ RoomItems \in Nat \ {0}
  BY BelongingsAssumption, LenProperties DEF Pile
<1>2. left \in Seq(Item) /\ Len(left) + 1 <= RoomItems
  <2>1. CASE Len(items) >= RoomItems
    <3>1. items # <<>> BY <1>1, <2>1, EmptySeq
    <3>2. Tail(items) \in Seq(Item) /\ Len(Tail(items)) = Len(items) - 1
      BY <1>1, <3>1, HeadTailProperties
    <3> QED BY <1>1, <2>1, <3>2 DEF Pile
  <2>2. CASE ~(Len(items) >= RoomItems) BY <1>1, <2>2
  <2> QED BY <2>1, <2>2
<1> HIDE DEF left
<1>3. Append(left, k) \in Seq(Item) /\ Len(Append(left, k)) = Len(left) + 1
  BY <1>2, AppendProperties
<1> QED BY <1>2, <1>3 DEF AddItem, Pile, left

LEMMA RoomRowsFit ==
  ASSUME Pile(floor.items)
  PROVE  RoomRows \subseteq Item /\ Cardinality(RoomRows) <= RoomItems
<1> DEFINE items == floor.items
           n == Len(items)
<1>1. items \in Seq(Item) /\ n \in Nat /\ n <= RoomItems /\ DOMAIN items = 1 .. n
  BY LenProperties DEF Pile
<1>2. IsFiniteSet(1 .. n) /\ Cardinality(1 .. n) = n BY <1>1, FS_Interval
<1> HIDE DEF items
<1>3. {items[i] : i \in 1 .. n} \subseteq Item BY <1>1, ElementOfSeq
<1>4. /\ IsFiniteSet({items[i] : i \in 1 .. n})
      /\ Cardinality({items[i] : i \in 1 .. n}) <= Cardinality(1 .. n)
  <2> DEFINE T == {items[i] : i \in 1 .. n}
  <2>1. [i \in 1 .. n |-> items[i]] \in Surjection(1 .. n, T) BY DEF Surjection
  <2> HIDE DEF T, n
  <2>2. IsFiniteSet(T) /\ Cardinality(T) <= Cardinality(1 .. n) BY <1>2, <2>1, FS_Surjection
  <2> QED BY <2>2 DEF T
<1>5. RoomRows = {items[i] : i \in 1 .. n} BY <1>1 DEF RoomRows, items
<1>6. Cardinality(RoomRows) \in Nat BY <1>4, <1>5, FS_CardinalityType
<1> QED BY <1>1, <1>2, <1>3, <1>4, <1>5, <1>6, BelongingsAssumption

\* The lists of a save, one after the other.
LEMMA WorldJobWrites ==
  /\ WorldJob \in Seq(Write) /\ WorldJob # <<>>
  /\ WorldJob[Len(WorldJob)].table = "room items"
  /\ \A p \in Player : \A t \in {"player", "inventory"} :
       \E i \in DOMAIN WorldJob : WorldJob[i] = [table |-> t, of |-> p]
<1> DEFINE n == Cardinality(Player)
           order == SetToSeq(Player)
           a == [i \in 1 .. 2 * n |->
                   [table |-> IF i % 2 = 1 THEN "player" ELSE "inventory",
                    of |-> order[(i + 1) \div 2]]]
           b == <<[table |-> "room money"], [table |-> "room items"]>>
<1>1. Listing(order, Player) /\ Len(order) = n /\ n \in Nat
  BY BelongingsAssumption, SetToSeqIsListing, ListingLen, FS_CardinalityType
<1>2. order \in Seq(Player) /\ DOMAIN order = 1 .. n BY <1>1, LenProperties DEF Listing
<1> HIDE DEF order, n
<1>3. ASSUME NEW i \in 1 .. 2 * n PROVE a[i] \in Write
  <2>1. (i + 1) \div 2 \in 1 .. n BY <1>1
  <2>2. order[(i + 1) \div 2] \in Player BY <1>1, <1>2, <2>1, ElementOfSeq
  <2> QED BY <2>2 DEF Write
<1>4. 2 * n \in Nat BY <1>1
<1>5. a \in Seq(Write) /\ Len(a) = 2 * n
  <2>1. a \in [1 .. 2 * n -> Write] BY <1>3
  <2> HIDE DEF a
  <2> QED BY <1>4, <2>1, SeqDef
<1>6. b \in Seq(Write) /\ Len(b) = 2 /\ b[2] = [table |-> "room items"] BY DEF Write
<1>7. WorldJob = a \o b BY DEF WorldJob, order, n
<1> DEFINE w == a \o b
<1>8. /\ w \in Seq(Write) /\ Len(w) = 2 * n + 2
      /\ \A i \in 1 .. 2 * n + 2 : w[i] = IF i <= 2 * n THEN a[i] ELSE b[i - 2 * n]
  <2> HIDE DEF a, b
  <2>1. a \in Seq(Write) /\ b \in Seq(Write) /\ Len(a) + Len(b) = 2 * n + 2
    BY <1>4, <1>5, <1>6
  <2>2. /\ w \in Seq(Write) /\ Len(w) = Len(a) + Len(b)
        /\ \A i \in 1 .. Len(a) + Len(b) : w[i] = IF i <= Len(a) THEN a[i] ELSE b[i - Len(a)]
    BY <2>1, ConcatProperties
  <2> HIDE DEF w
  <2> QED BY <1>5, <2>1, <2>2
<1>9. DOMAIN w = 1 .. 2 * n + 2 BY <1>8, LenProperties
<1>10. ASSUME NEW p \in Player, NEW t \in {"player", "inventory"}
       PROVE  \E i \in DOMAIN w : w[i] = [table |-> t, of |-> p]
  <2>1. PICK j \in 1 .. n : order[j] = p BY <1>1, <1>2 DEF Listing, ToSet
  <2> DEFINE i == IF t = "player" THEN 2 * j - 1 ELSE 2 * j
  <2>2. /\ i \in 1 .. 2 * n /\ i \in 1 .. 2 * n + 2 /\ i <= 2 * n
        /\ (i + 1) \div 2 = j /\ (i % 2 = 1 <=> t = "player")
    BY <1>1, <2>1
  <2> HIDE DEF i
  <2>3. a[i] = [table |-> t, of |-> p]
    BY <1>10, <2>1, <2>2
  <2> HIDE DEF a, w
  <2> QED BY <1>8, <1>9, <2>2, <2>3
<1>11. w[2 * n + 2] = [table |-> "room items"]
  <2>1. 2 * n + 2 \in 1 .. 2 * n + 2 /\ ~(2 * n + 2 <= 2 * n) /\ (2 * n + 2) - 2 * n = 2 BY <1>1
  <2> HIDE DEF a, b, w
  <2> QED BY <1>6, <1>8, <2>1
<1> HIDE DEF a, b, w
<1>12. w # <<>> BY <1>1, <1>8, EmptySeq
<1>13. WorldJob = w BY <1>7 DEF w
<1>14. w \in Seq(Write) /\ w[Len(w)].table = "room items"
  <2>1. w \in Seq(Write) /\ Len(w) = 2 * n + 2 BY <1>8
  <2>2. w[Len(w)] = [table |-> "room items"] BY <2>1, <1>11
  <2>3. w[Len(w)].table = "room items"
    <3> DEFINE x == w[Len(w)]
    <3>1. x = [table |-> "room items"] BY <2>2
    <3> HIDE DEF x
    <3>2. x.table = "room items" BY <3>1
    <3> QED BY <3>2 DEF x
  <2> QED BY <2>1, <2>3
<1> HIDE DEF n
<1>15. \A p \in Player : \A t \in {"player", "inventory"} :
         \E i \in DOMAIN w : w[i] = [table |-> t, of |-> p]
  BY <1>10
<1> QED BY <1>12, <1>13, <1>14, <1>15

-----------------------------------------------------------------------------
(* What things are worth. *)

Value(k) == IF k = None THEN 0 ELSE Price[k]
Values(items) == [i \in DOMAIN items |-> Value(items[i])]

LEMMA WorthIsSum ==
  ASSUME NEW items
  PROVE  Worth(items) = SumOver(Values(items), DOMAIN items)
<1>1. DOMAIN Values(items) = DOMAIN items BY DEF Values
<1>2. Worth(items) = SumFunction(Values(items)) BY Zenon DEF Worth, Values, Value
<1> QED BY <1>1, <1>2 DEF SumFunction, SumOver

LEMMA ValueIsNat ==
  ASSUME NEW k \in Item \cup {None}
  PROVE  Value(k) \in Nat /\ (k \in Item => Value(k) = Price[k])
BY BelongingsAssumption DEF Value

LEMMA SlotChanges ==
  ASSUME NEW slots \in [Slot -> Item \cup {None}], NEW i \in Slot, NEW k \in Item \cup {None}
  PROVE  /\ Worth(slots) \in Int
         /\ Worth([slots EXCEPT ![i] = k]) = Worth(slots) - Value(slots[i]) + Value(k)
<1> DEFINE other == [slots EXCEPT ![i] = k]
           f == Values(slots)
           g == Values(other)
<1>1. DOMAIN slots = Slot /\ other \in [Slot -> Item \cup {None}] OBVIOUS
<1>2. \A j \in Slot : other[j] = IF j = i THEN k ELSE slots[j] OBVIOUS
<1> HIDE DEF other
<1>3. \A j \in Slot : f[j] = Value(slots[j]) /\ g[j] = Value(other[j]) BY <1>1 DEF Values
<1> HIDE DEF f, g
<1>4. \A j \in Slot : f[j] \in Int /\ g[j] \in Int
  <2>1. \A j \in Slot : slots[j] \in Item \cup {None} /\ other[j] \in Item \cup {None} BY <1>1
  <2> QED BY <1>3, <2>1, ValueIsNat
<1>5. \A j \in Slot \ {i} : g[j] = f[j] BY <1>2, <1>3
<1>6. SumOver(f, Slot) \in Int /\ SumOver(g, Slot) = SumOver(f, Slot) - f[i] + g[i]
  <2>1. IsFiniteSet(Slot) BY SlotsAreNumbers
  <2>2. SumOver(f, Slot) \in Int BY <1>4, <2>1, SumType
  <2>3. SumOver(g, Slot) = SumOver(f, Slot) - f[i] + g[i]
    <3> DEFINE S == Slot
    <3>1. IsFiniteSet(S) BY <2>1
    <3>2. i \in S OBVIOUS
    <3>3. \A j \in S : f[j] \in Int /\ g[j] \in Int BY <1>4
    <3>4. \A j \in S \ {i} : g[j] = f[j] BY <1>5
    <3> HIDE DEF S
    <3>5. \A x \in S : (\A y \in S \ {x} : g[y] = f[y]) =>
                          SumOver(g, S) = SumOver(f, S) - f[x] + g[x]
      BY <3>1, <3>3, SumChange
    <3>6. SumOver(g, S) = SumOver(f, S) - f[i] + g[i] BY <3>2, <3>4, <3>5
    <3> QED BY <3>6 DEF S
  <2> QED BY <2>2, <2>3
<1>7. Worth(slots) = SumOver(f, Slot) /\ Worth(other) = SumOver(g, Slot)
  BY <1>1, WorthIsSum DEF f, g
<1> QED BY <1>2, <1>3, <1>6, <1>7 DEF other

LEMMA WorthWithout ==
  ASSUME NEW s \in Seq(Item), NEW r \in Seq(Item), NEW k, TakenAt(s, k, r)
  PROVE  /\ Worth(s) \in Int /\ Worth(r) \in Int
         /\ Worth(s) = Price[s[k]] + Worth(r)
<1> DEFINE f == Values(s)
           g == Values(r)
           n == Len(s)
<1>1. /\ n \in Nat /\ Len(r) = n - 1 /\ k \in 1 .. n /\ n - 1 \in Nat
      /\ \A i \in 1 .. n - 1 : r[i] = IF i < k THEN s[i] ELSE s[i + 1]
  BY LenProperties DEF TakenAt
<1>2. DOMAIN s = 1 .. n /\ DOMAIN r = 1 .. n - 1 BY <1>1, LenProperties
<1>3. \A i \in 1 .. n : s[i] \in Item /\ f[i] = Value(s[i]) BY <1>2, ElementOfSeq DEF Values
<1>4. \A i \in 1 .. n - 1 : r[i] \in Item /\ g[i] = Value(r[i])
  BY <1>1, <1>2, ElementOfSeq DEF Values
<1>5. (\A i \in 1 .. n : f[i] \in Int) /\ \A i \in 1 .. n - 1 : g[i] \in Int
  <2>1. \A x \in Item : Value(x) \in Int BY ValueIsNat
  <2> HIDE DEF f, g
  <2> QED BY <1>3, <1>4, <2>1
<1>6. Worth(s) = SumOver(f, 1 .. n) /\ Worth(r) = SumOver(g, 1 .. n - 1)
  BY <1>2, WorthIsSum
<1> HIDE DEF f, g, n
<1>7. \A i \in 1 .. n - 1 : g[i] = IF i < k THEN f[i] ELSE f[i + 1]
  <2> SUFFICES ASSUME NEW i \in 1 .. n - 1 PROVE g[i] = IF i < k THEN f[i] ELSE f[i + 1]
    OBVIOUS
  <2>1. i \in 1 .. n /\ i + 1 \in 1 .. n BY <1>1
  <2> QED BY <1>1, <1>3, <1>4, <2>1
<1>8. SumOver(f, 1 .. n) = f[k] + SumOver(g, 1 .. n - 1) BY <1>1, <1>5, <1>7, SumWithout
<1>9. IsFiniteSet(1 .. n) /\ IsFiniteSet(1 .. n - 1)
  <2>1. n \in Int /\ n - 1 \in Int BY <1>1
  <2> QED BY <2>1, FS_Interval
<1>10. SumOver(f, 1 .. n) \in Int /\ SumOver(g, 1 .. n - 1) \in Int BY <1>5, <1>9, SumType
<1>11. f[k] = Price[s[k]] BY <1>1, <1>3, ValueIsNat
<1> QED BY <1>6, <1>8, <1>10, <1>11

LEMMA WorthAppended ==
  ASSUME NEW s \in Seq(Item), NEW k \in Item
  PROVE  /\ Append(s, k) \in Seq(Item) /\ Len(Append(s, k)) = Len(s) + 1
         /\ Worth(s) \in Int /\ Worth(Append(s, k)) = Price[k] + Worth(s)
<1> DEFINE a == Append(s, k)
<1>1. /\ a \in Seq(Item) /\ Len(a) = Len(s) + 1 /\ a[Len(s) + 1] = k /\ Len(s) \in Nat
      /\ \A i \in 1 .. Len(s) : a[i] = s[i]
  BY AppendProperties, LenProperties
<1> HIDE DEF a
<1>2. TakenAt(a, Len(s) + 1, s) BY <1>1 DEF TakenAt
<1>3. Worth(s) \in Int /\ Worth(a) = Price[a[Len(s) + 1]] + Worth(s)
  BY <1>1, <1>2, WorthWithout
<1> QED BY <1>1, <1>3 DEF a

\* A room that is full gives up its oldest item, any other takes the new one.
LEMMA AddedWorth ==
  ASSUME NEW items, Pile(items), NEW k \in Item
  PROVE  /\ Worth(items) \in Int /\ Worth(AddItem(items, k)) \in Int
         /\ Worth(AddItem(items, k)) <= Worth(items) + Price[k]
         /\ \/ Worth(AddItem(items, k)) = Worth(items) + Price[k]
            \/ Len(AddItem(items, k)) = RoomItems
         /\ Len(items) = RoomItems => Len(AddItem(items, k)) = RoomItems
<1>1. Len(items) \in Nat /\ items \in Seq(Item) /\ Len(items) <= RoomItems /\ RoomItems \in Nat \ {0}
  BY BelongingsAssumption, LenProperties DEF Pile
<1>2. Price[k] \in Nat BY BelongingsAssumption
<1>3. CASE Len(items) >= RoomItems
  <2>1. items # <<>> BY <1>1, <1>3, EmptySeq
  <2>2. Tail(items) \in Seq(Item) /\ TakenAt(items, 1, Tail(items)) BY <1>1, <2>1, TailWithout
  <2>3. /\ Worth(items) \in Int /\ Worth(Tail(items)) \in Int
        /\ Worth(items) = Price[items[1]] + Worth(Tail(items))
    BY <1>1, <2>2, WorthWithout
  <2>4. Price[items[1]] \in Nat
    <3>1. items[1] \in Item BY <1>1, <1>3, ElementOfSeq
    <3> QED BY <3>1, BelongingsAssumption
  <2>5. Len(Tail(items)) = Len(items) - 1 BY <2>2 DEF TakenAt
  <2>6. AddItem(items, k) = Append(Tail(items), k) BY <1>3 DEF AddItem
  <2>7. /\ Worth(AddItem(items, k)) = Price[k] + Worth(Tail(items))
        /\ Len(AddItem(items, k)) = Len(Tail(items)) + 1
    BY <2>2, <2>6, WorthAppended
  <2>8. Len(AddItem(items, k)) = RoomItems BY <1>1, <1>3, <2>5, <2>7
  <2> DEFINE w == Worth(items)
             t == Worth(Tail(items))
             a == Worth(AddItem(items, k))
             c == Price[items[1]]
  <2>9. w \in Int /\ t \in Int /\ w = c + t /\ a = Price[k] + t /\ c \in Nat
    BY <2>3, <2>4, <2>7
  <2> HIDE DEF w, t, a, c
  <2>10. w \in Int /\ a \in Int /\ a <= w + Price[k] BY <1>2, <2>9
  <2> QED BY <2>8, <2>10 DEF w, a
<1>4. CASE ~(Len(items) >= RoomItems)
  <2>1. AddItem(items, k) = Append(items, k) BY <1>4 DEF AddItem
  <2>2. /\ Worth(items) \in Int /\ Worth(AddItem(items, k)) = Price[k] + Worth(items)
    BY <1>1, <2>1, WorthAppended
  <2> QED BY <1>1, <1>2, <1>4, <2>2
<1> QED BY <1>3, <1>4

\* However many items are laid down: nothing is lost unless the floor is full.
LEMMA LaidDownWorth ==
  ASSUME NEW items, Pile(items), NEW drops \in Seq(Item)
  PROVE  LET l == LaidDown(items, drops)
         IN  /\ Pile(l) /\ Worth(l) \in Int
             /\ Len(l) = RoomItems \/ Worth(items) <= Worth(l)
<1> DEFINE n == Len(drops)
           Step(laid) == [i \in 0 .. n |->
             IF i = 0 THEN items ELSE AddItem(laid[i - 1], drops[i])]
           h == CHOOSE laid : laid = Step(laid)
           V == {l \in Seq(Item) : Pile(l)}
           step == [kl \in (1 .. n) \X V |-> AddItem(kl[2], drops[kl[1]])]
<1>1. LaidDown(items, drops) = h[n] BY Zenon DEF LaidDown
<1>2. n \in Nat /\ \A k \in 1 .. n : drops[k] \in Item BY LenProperties, ElementOfSeq
<1>3. items \in V BY DEF Pile
<1>4. \A l \in V : \A k \in Item : Pile(l) /\ AddItem(l, k) \in V BY AddedItem DEF Pile
<1> HIDE DEF V
<1>5. PICK g \in [0 .. n -> V] : g[0] = items /\ \A k \in 1 .. n : g[k] = step[<<k, g[k - 1]>>]
  <2>1. \A k \in 1 .. n : \A l \in V : step[<<k, l>>] \in V BY <1>2, <1>4
  <2>2. n \in Nat BY <1>2
  <2> HIDE DEF n, step
  <2>3. \E g \in [0 .. n -> V] : Iteration(g, n, items, step) BY <1>3, <2>1, <2>2, Iterates
  <2> QED BY <2>3 DEF Iteration
<1>6. ASSUME NEW k \in 1 .. n
      PROVE  g[k - 1] \in V /\ g[k] = AddItem(g[k - 1], drops[k])
  <2>1. k - 1 \in 0 .. n BY <1>2
  <2>2. g[k - 1] \in V BY <2>1
  <2> QED BY <1>5, <2>2
<1>7. h = Step(h)
  <2>1. g = Step(g)
    <3> SUFFICES ASSUME NEW k \in 0 .. n
                 PROVE  g[k] = IF k = 0 THEN items ELSE AddItem(g[k - 1], drops[k])
      BY <1>5
    <3>1. k = 0 \/ k \in 1 .. n BY <1>2
    <3>2. k \in 1 .. n => k # 0 BY <1>2
    <3> QED BY <1>5, <1>6, <3>1, <3>2
  <2> HIDE DEF Step
  <2> QED BY <2>1
<1>8. \A k \in 0 .. n : h[k] = IF k = 0 THEN items ELSE AddItem(h[k - 1], drops[k])
  BY <1>7
<1> HIDE DEF h, Step, step
<1> DEFINE P == {k \in 0 .. n : /\ h[k] = g[k] /\ Worth(h[k]) \in Int
                                /\ Len(h[k]) = RoomItems \/ Worth(items) <= Worth(h[k])}
<1>9. 0 \in P
  <2>1. Worth(items) \in Int
    <3>1. items \in Seq(Item) BY DEF Pile
    <3>2. DOMAIN items = 1 .. Len(items) /\ IsFiniteSet(1 .. Len(items))
      BY <3>1, LenProperties, FS_Interval
    <3>3. \A i \in DOMAIN items : Values(items)[i] \in Int
      BY <3>1, <3>2, ElementOfSeq, ValueIsNat DEF Values
    <3> QED BY <3>2, <3>3, WorthIsSum, SumType
  <2>2. h[0] = items /\ g[0] = items /\ 0 \in 0 .. n BY <1>2, <1>5, <1>8
  <2> QED BY <2>1, <2>2
<1>10. ASSUME NEW k \in 0 .. n - 1, k \in P PROVE k + 1 \in P
  <2>1. k + 1 \in 0 .. n /\ k + 1 \in 1 .. n /\ (k + 1) - 1 = k /\ k + 1 # 0 BY <1>2
  <2>2. h[k + 1] = AddItem(h[k], drops[k + 1]) /\ g[k + 1] = AddItem(g[k], drops[k + 1])
    BY <1>6, <1>8, <2>1
  <2>3. Pile(h[k]) /\ drops[k + 1] \in Item
    <3>1. g[k] \in V BY <1>6, <2>1
    <3>2. h[k] = g[k] BY <1>10
    <3> QED BY <1>2, <1>4, <2>1, <3>1, <3>2, BelongingsAssumption DEF V
  <2> DEFINE was == Worth(h[k])
             now == Worth(h[k + 1])
             more == Price[drops[k + 1]]
  <2>4. /\ was \in Int /\ now \in Int
        /\ now = was + more \/ Len(h[k + 1]) = RoomItems
        /\ Len(h[k]) = RoomItems => Len(h[k + 1]) = RoomItems
    BY <2>2, <2>3, AddedWorth
  <2>5. more \in Nat /\ Worth(items) \in Int
    <3>1. more \in Nat BY <2>3, BelongingsAssumption
    <3>2. Worth(h[0]) \in Int BY <1>9
    <3> QED BY <1>2, <1>8, <3>1, <3>2
  <2>6. Len(h[k]) = RoomItems \/ Worth(items) <= was BY <1>10
  <2> HIDE DEF was, now, more
  <2>7. Len(h[k + 1]) = RoomItems \/ Worth(items) <= now BY <2>4, <2>5, <2>6
  <2>8. h[k + 1] = g[k + 1] BY <1>10, <2>2
  <2> QED BY <2>1, <2>4, <2>7, <2>8 DEF now
<1>11. n \in P
  <2>1. n \in Nat BY <1>2
  <2> HIDE DEF P, n
  <2>2. \A k \in 0 .. n : k \in P BY <1>9, <1>10, <2>1, NumbersUpTo
  <2> QED BY <2>1, <2>2
<1>12. Pile(h[n])
  <2>1. h[n] = g[n] /\ n \in 0 .. n BY <1>2, <1>11
  <2>2. g[n] \in V BY <2>1
  <2> QED BY <2>1, <2>2 DEF V
<1> QED BY <1>1, <1>11, <1>12

-----------------------------------------------------------------------------
(* The floor and the queue stay as they should. *)

LEMMA TailQueued ==
  ASSUME NEW q \in Seq(Write), q # <<>>, Ends(q[Len(q)])
  PROVE  /\ Tail(q) \in Seq(Write) /\ Head(q) \in Write
         /\ Tail(q) # <<>> => Ends(Tail(q)[Len(Tail(q))])
         /\ ~Ends(Head(q)) => Tail(q) # <<>>
<1>1. Len(q) \in Nat \ {0} BY EmptySeq, LenProperties
<1>2. /\ Head(q) = q[1] /\ Tail(q) \in Seq(Write) /\ Len(Tail(q)) = Len(q) - 1
      /\ \A i \in 1 .. Len(q) - 1 : Tail(q)[i] = q[i + 1]
  BY <1>1, HeadTailProperties
<1>3. q[1] \in Write BY <1>1, ElementOfSeq
<1>4. CASE Len(q) = 1
  <2>1. Tail(q) = <<>>
    <3>1. Tail(q) \in Seq(Write) /\ Len(Tail(q)) = 0 BY <1>2, <1>4
    <3> QED BY <3>1, EmptySeq
  <2> QED BY <1>2, <1>3, <1>4, <2>1
<1>5. CASE Len(q) # 1
  <2>1. Len(q) - 1 \in 1 .. Len(q) - 1 /\ (Len(q) - 1) + 1 = Len(q)
    <3> DEFINE n == Len(q)
    <3>1. n \in Nat /\ n # 0 /\ n # 1 BY <1>1, <1>5
    <3> HIDE DEF n
    <3>2. n - 1 \in 1 .. n - 1 /\ (n - 1) + 1 = n BY <3>1
    <3> QED BY <3>2 DEF n
  <2>2. Tail(q)[Len(Tail(q))] = q[Len(q)] BY <1>2, <2>1
  <2>3. Tail(q) # <<>> BY <1>2, <2>1, EmptySeq
  <2> QED BY <1>2, <1>3, <2>2, <2>3
<1> QED BY <1>4, <1>5

LEMMA CommitQueued == ASSUME Queued, Commit PROVE Queued'
<1>1. job # <<>> /\ job' = Tail(job) BY DEF Commit, Saving
<1> QED BY <1>1, TailQueued DEF Queued

LEMMA FailQueued == ASSUME Queued, Fail PROVE Queued'
<1>1. /\ job # <<>>
      /\ job' = IF ~Ends(Head(job)) THEN Tail(Tail(job)) ELSE Tail(job)
  BY DEF Fail, Saving, Ends
<1>2. /\ Tail(job) \in Seq(Write) /\ Head(job) \in Write
      /\ Tail(job) # <<>> => Ends(Tail(job)[Len(Tail(job))])
      /\ ~Ends(Head(job)) => Tail(job) # <<>>
  BY <1>1, TailQueued DEF Queued
<1>3. CASE ~Ends(Head(job))
  <2> DEFINE q == Tail(job)
  <2>1. /\ q \in Seq(Write) /\ q # <<>> /\ Ends(q[Len(q)])
        /\ job' = Tail(q)
    BY <1>1, <1>2, <1>3
  <2> HIDE DEF q
  <2> QED BY <2>1, TailQueued DEF Queued
<1>4. CASE Ends(Head(job)) BY <1>1, <1>2, <1>4 DEF Queued
<1> QED BY <1>3, <1>4

LEMMA JobsAreQueued ==
  /\ WorldJob \in Seq(Write) /\ WorldJob[Len(WorldJob)].table = "room items"
  /\ \A p \in Player : /\ PlayerJob(p) \in Seq(Write)
                       /\ PlayerJob(p)[Len(PlayerJob(p))].table = "inventory"
<1>1. ASSUME NEW p \in Player
      PROVE  /\ PlayerJob(p) \in Seq(Write)
             /\ PlayerJob(p)[Len(PlayerJob(p))].table = "inventory"
  <2>1. /\ [table |-> "player", of |-> p] \in Write
        /\ [table |-> "inventory", of |-> p] \in Write
    BY DEF Write
  <2> QED BY <2>1 DEF PlayerJob
<1> QED BY <1>1, WorldJobWrites

\* What a step does to the floor.
LEMMA RestSame ==
  ASSUME RestTyped, UNCHANGED <<mode, clean, job, online, roomRow, reloads>>,
         fault' \in {"none", "overrun"},
         NEW items, Pile(items), NEW m \in Nat, floor' = [items |-> items, money |-> m]
  PROVE  RestTyped'
<1>1. floor' \in [items : Seq(Item), money : Nat] /\ Pile(floor'.items) BY DEF Pile
<1> QED BY <1>1 DEF RestTyped, Queued

LEMMA FloorIsRecord ==
  ASSUME RestTyped
  PROVE  /\ floor = [items |-> floor.items, money |-> floor.money]
         /\ Pile(floor.items) /\ floor.money \in Nat /\ fault \in {"none", "overrun"}
BY DEF RestTyped

\* What is left of the floor without an item of it.
LEMMA TakenPile ==
  ASSUME NEW items, Pile(items), NEW k \in Item, Contains(items, k)
  PROVE  /\ Pile(RemoveFirst(items, k))
         /\ Worth(items) \in Int /\ Worth(RemoveFirst(items, k)) \in Int
         /\ Worth(items) = Price[k] + Worth(RemoveFirst(items, k))
<1> DEFINE r == RemoveFirst(items, k)
<1>1. items \in Seq(Item) /\ Len(items) \in Nat /\ Len(items) <= RoomItems /\ RoomItems \in Nat
  BY BelongingsAssumption, LenProperties DEF Pile
<1>2. k \in ToSet(items) BY <1>1, LenProperties DEF Contains, ToSet
<1>3. r \in Seq(Item) /\ \E i \in 1 .. Len(items) : items[i] = k /\ TakenAt(items, i, r)
  BY <1>1, <1>2, RemoveFirstWithout
<1>4. PICK i \in 1 .. Len(items) : items[i] = k /\ TakenAt(items, i, r) BY <1>3
<1> HIDE DEF r
<1>5. Len(r) = Len(items) - 1 BY <1>4 DEF TakenAt
<1>6. Pile(r) BY <1>1, <1>3, <1>5 DEF Pile
<1>7. /\ Worth(items) \in Int /\ Worth(r) \in Int
      /\ Worth(items) = Price[items[i]] + Worth(r)
  BY <1>1, <1>3, <1>4, WorthWithout
<1> QED BY <1>4, <1>6, <1>7 DEF r

LEMMA RestKeeps == ASSUME Sound, RestTyped, [Next]_vars PROVE RestTyped'
<1> USE DEF Command, disk, server
<1>1. /\ floor = [items |-> floor.items, money |-> floor.money]
      /\ Pile(floor.items) /\ floor.money \in Nat /\ fault \in {"none", "overrun"}
  BY FloorIsRecord
<1>2. ASSUME NEW p \in Player, NEW k \in Item, GetItem(p, k)
      PROVE  RestTyped'
  <2>1. Pile(RemoveFirst(floor.items, k)) BY <1>1, <1>2, TakenPile DEF GetItem
  <2>2. /\ fault' \in {"none", "overrun"}
        /\ UNCHANGED <<mode, clean, job, online, roomRow, reloads>>
        /\ \/ floor' = floor
           \/ floor' = [items |-> RemoveFirst(floor.items, k), money |-> floor.money]
    BY <1>1, <1>2 DEF GetItem, Carry
  <2> QED BY <1>1, <2>1, <2>2, RestSame
<1>3. ASSUME NEW p \in Player, NEW k \in Item, UseItem(p, k) \/ Buy(p, k) \/ Sell(p, k)
      PROVE  RestTyped'
  <2>1. /\ fault' \in {"none", "overrun"} /\ floor' = floor
        /\ UNCHANGED <<mode, clean, job, online, roomRow, reloads>>
    BY <1>1, <1>3 DEF UseItem, Buy, Sell, Carry
  <2> QED BY <1>1, <2>1, RestSame
<1>4. ASSUME NEW p \in Player, NEW k \in Item, DropItem(p, k)
      PROVE  RestTyped'
  <2>1. Pile(AddItem(floor.items, k)) BY <1>1, AddedItem
  <2>2. /\ fault' \in {"none", "overrun"}
        /\ UNCHANGED <<mode, clean, job, online, roomRow, reloads>>
        /\ floor' = [items |-> AddItem(floor.items, k), money |-> floor.money]
    BY <1>1, <1>4 DEF DropItem
  <2> QED BY <1>1, <2>1, <2>2, RestSame
<1>5. ASSUME NEW p \in Player, NEW m \in Amounts, GetMoney(p, m) \/ DropMoney(p, m)
      PROVE  RestTyped'
  <2>1. m \in Nat BY BelongingsAssumption
  <2>2. /\ fault' \in {"none", "overrun"}
        /\ UNCHANGED <<mode, clean, job, online, roomRow, reloads>>
    BY <1>1, <1>5 DEF GetMoney, DropMoney
  <2>3. \/ floor' = [items |-> floor.items, money |-> floor.money + m]
        \/ m <= floor.money /\ floor' = [items |-> floor.items, money |-> floor.money - m]
    BY <1>1, <1>5 DEF GetMoney, DropMoney
  <2>4. floor.money + m \in Nat /\ (m <= floor.money => floor.money - m \in Nat) BY <1>1, <2>1
  <2> QED BY <1>1, <2>2, <2>3, <2>4, RestSame
<1>6. ASSUME NEW p \in Player, NEW m \in LootMoney, NEW drops \in LootDrops, EnemyKilled(p, m, drops)
      PROVE  RestTyped'
  <2>1. m \in Nat /\ drops \in Seq(Item) BY BelongingsAssumption
  <2>2. Pile(LaidDown(floor.items, drops)) BY <1>1, <2>1, LaidDownWorth
  <2>3. /\ fault' \in {"none", "overrun"}
        /\ UNCHANGED <<mode, clean, job, online, roomRow, reloads>>
        /\ floor' = [items |-> LaidDown(floor.items, drops), money |-> floor.money + m]
    BY <1>1, <1>6 DEF EnemyKilled
  <2>4. floor.money + m \in Nat BY <1>1, <2>1
  <2> QED BY <2>2, <2>3, <2>4, RestSame
<1>7. ASSUME NEW p \in Player, RemoveItem(p) \/ Login(p)
      PROVE  RestTyped'
  BY <1>7 DEF RemoveItem, Login, RestTyped, Queued
<1>8. ASSUME NEW p \in Player, PlayerKilled(p)
      PROVE  RestTyped'
  <2> DEFINE lost == own[p].money \div DeathShare
  <2>1. lost \in Nat
    <3>1. own[p].money \in Nat /\ DeathShare \in Nat \ {0}
      BY BelongingsAssumption DEF Sound, Own
    <3> QED BY <3>1
  <2>2. /\ fault' \in {"none", "overrun"}
        /\ UNCHANGED <<mode, clean, job, online, roomRow, reloads>>
    BY <1>1, <1>8 DEF PlayerKilled
  <2>3. \/ floor' = [items |-> floor.items, money |-> floor.money + lost]
        \/ \E i \in Filled(own[p]) :
             floor' = [items |-> AddItem(floor.items, own[p].slots[i]),
                       money |-> floor.money + lost]
    BY <1>1, <1>8 DEF PlayerKilled
  <2> HIDE DEF lost
  <2>4. floor.money + lost \in Nat BY <1>1, <2>1
  <2>5. ASSUME NEW i \in Filled(own[p]) PROVE Pile(AddItem(floor.items, own[p].slots[i]))
    <3>1. own[p].slots[i] \in Item BY FilledIsFinite DEF Sound, Own, Filled
    <3> QED BY <1>1, <3>1, AddedItem
  <2> QED BY <1>1, <2>2, <2>3, <2>4, <2>5, RestSame
<1>9. ASSUME NEW p \in Player, Logout(p)
      PROVE  RestTyped'
  <2>1. Queued' BY <1>9, JobsAreQueued DEF Logout, Queued, Ends
  <2> QED BY <1>9, <2>1 DEF Logout, RestTyped
<1>10. ASSUME NEW p \in Player, Reload(p)
       PROVE  RestTyped'
  <2>1. reloads' \in 0 .. MaxReloads
    <3>1. reloads \in 0 .. MaxReloads /\ MaxReloads \in Nat BY BelongingsAssumption DEF RestTyped
    <3> QED BY <1>10, <3>1 DEF Reload
  <2> QED BY <1>10, <2>1 DEF Reload, RestTyped, Queued
<1>11. ASSUME SaveDatabases \/ Shutdown
       PROVE  RestTyped'
  <2>1. Queued' BY <1>11, JobsAreQueued DEF SaveDatabases, Shutdown, Queued, Ends
  <2> QED BY <1>11, <2>1 DEF SaveDatabases, Shutdown, RestTyped
<1>12. CASE Commit
  <2>1. Queued' BY <1>12, CommitQueued DEF RestTyped
  <2>2. /\ UNCHANGED <<mode, clean, reloads, online, floor, fault>> /\ Written(Head(job))
    BY <1>12 DEF Commit
  <2>3. RoomRows \subseteq Item /\ Cardinality(RoomRows) <= RoomItems BY <1>1, RoomRowsFit
  <2>4. \/ roomRow' = roomRow
        \/ roomRow' = [roomRow EXCEPT !.money = floor.money]
        \/ roomRow' = [roomRow EXCEPT !.items = RoomRows]
    BY <2>2 DEF Written
  <2>5. /\ roomRow' \in [items : SUBSET Item, money : Nat]
        /\ Cardinality(roomRow'.items) <= RoomItems
    BY <1>1, <2>3, <2>4 DEF RestTyped
  <2> QED BY <2>1, <2>2, <2>5 DEF RestTyped
<1>13. CASE Fail
  <2>1. Queued' BY <1>13, FailQueued DEF RestTyped
  <2> QED BY <1>13, <2>1 DEF Fail, RestTyped
<1>14. CASE Halt BY <1>14 DEF Halt, RestTyped, Queued
<1>15. CASE Crash
  <2>1. Queued'
    <3>1. <<>> \in Seq(Write) OBVIOUS
    <3> QED BY <1>15, <3>1 DEF Crash, Queued
  <2> QED BY <1>15, <2>1 DEF Crash, RestTyped
<1>16. CASE Start
  <2>1. PICK order \in SetToSeqs(roomRow.items) : floor' = [items |-> order, money |-> roomRow.money]
    BY <1>16 DEF Start
  <2>2. roomRow.items \subseteq Item /\ roomRow.money \in Nat /\ Cardinality(roomRow.items) <= RoomItems
    BY DEF RestTyped
  <2>3. IsFiniteSet(roomRow.items) BY <2>2, BelongingsAssumption, FS_Subset
  <2>4. Listing(order, roomRow.items) /\ Len(order) = Cardinality(roomRow.items)
    BY <2>3, OrderIsListing, ListingLen
  <2>5. Pile(order) BY <2>2, <2>4, ListingType DEF Pile
  <2> HIDE DEF disk, server
  <2>6. UNCHANGED <<job, online, roomRow, reloads, fault>> /\ mode' = "up" /\ clean' = FALSE
    BY <1>16 DEF Start, disk
  <2>7. floor' \in [items : Seq(Item), money : Nat] /\ Pile(floor'.items)
    BY <2>1, <2>2, <2>5 DEF Pile
  <2> QED BY <2>6, <2>7 DEF RestTyped, Queued
<1>17. CASE UNCHANGED vars BY <1>17 DEF vars, RestTyped, Queued
<1> QED BY <1>2, <1>3, <1>4, <1>5, <1>6, <1>7, <1>8, <1>9, <1>10, <1>11, <1>12, <1>13,
           <1>14, <1>15, <1>16, <1>17 DEF Next

LEMMA InitRest == Init => RestTyped
<1> SUFFICES ASSUME Init PROVE RestTyped OBVIOUS
<1>1. MaxReloads \in Nat /\ RoomItems \in Nat BY BelongingsAssumption
<1>2. <<>> \in Seq(Item) /\ <<>> \in Seq(Write) /\ Len(<<>>) = 0 OBVIOUS
<1>3. floor \in [items : Seq(Item), money : Nat] /\ Pile(floor.items)
  BY <1>1, <1>2 DEF Init, Pile
<1>4. roomRow \in [items : SUBSET Item, money : Nat] /\ Cardinality(roomRow.items) <= RoomItems
  BY <1>1, FS_EmptySet DEF Init
<1>5. Queued BY <1>2 DEF Init, Queued
<1>6. reloads \in 0 .. MaxReloads BY <1>1 DEF Init
<1> QED BY <1>3, <1>4, <1>5, <1>6 DEF Init, RestTyped

-----------------------------------------------------------------------------
(* Who gains and who loses. *)

Lying(f) == f.money + Worth(f.items)

LEMMA EstateIsInt ==
  ASSUME NEW b \in Own
  PROVE  Worth(b.slots) \in Int /\ b.money \in Int /\ Estate(b) \in Int
<1>1. b.slots \in [Slot -> Item \cup {None}] /\ b.money \in Int BY DEF Own
<1>2. \A i \in Slot : Values(b.slots)[i] \in Int /\ DOMAIN b.slots = Slot
  BY <1>1, ValueIsNat DEF Values
<1>3. Worth(b.slots) \in Int
  <2>1. DOMAIN b.slots = Slot BY <1>1
  <2>2. IsFiniteSet(Slot) BY SlotsAreNumbers
  <2>3. SumOver(Values(b.slots), Slot) \in Int BY <1>2, <2>2, SumType
  <2> QED BY <2>1, <2>3, WorthIsSum
<1> QED BY <1>1, <1>3 DEF Estate

LEMMA LyingIsInt ==
  ASSUME RestTyped
  PROVE  /\ Worth(floor.items) \in Int /\ floor.money \in Nat /\ Lying(floor) \in Int
         /\ Pile(floor.items)
<1>1. Pile(floor.items) /\ floor.money \in Nat /\ <<>> \in Seq(Item) BY DEF RestTyped
<1>2. Worth(floor.items) \in Int
  <2>1. floor.items \in Seq(Item) BY <1>1 DEF Pile
  <2>2. DOMAIN floor.items = 1 .. Len(floor.items) /\ IsFiniteSet(1 .. Len(floor.items))
    BY <2>1, LenProperties, FS_Interval
  <2>3. \A i \in DOMAIN floor.items : Values(floor.items)[i] \in Int
    BY <2>1, <2>2, ElementOfSeq, ValueIsNat DEF Values
  <2> QED BY <2>2, <2>3, WorthIsSum, SumType
<1> QED BY <1>1, <1>2 DEF Lying

\* The wealth of all, from that of one player and of the room.
LEMMA Balance ==
  ASSUME Sound, RestTyped, RestTyped', NEW p \in Player, NEW c \in Own, own' = [own EXCEPT ![p] = c]
  PROVE  /\ Wealth \in Int /\ Estate(own[p]) \in Int /\ Estate(c) \in Int
         /\ Lying(floor) \in Int /\ Lying(floor') \in Int
         /\ Wealth' = Wealth - Estate(own[p]) + Estate(c) - Lying(floor) + Lying(floor')
<1> DEFINE f == [q \in Player |-> Estate(own[q])]
           g == [q \in Player |-> Estate(own'[q])]
<1>1. \A q \in Player : own'[q] = IF q = p THEN c ELSE own[q] BY DEF Sound
<1>2. \A q \in Player : f[q] = Estate(own[q]) /\ g[q] = IF q = p THEN Estate(c) ELSE Estate(own[q])
  BY <1>1
<1>3. \A q \in Player : Estate(own[q]) \in Int BY EstateIsInt DEF Sound
<1>4. Estate(c) \in Int BY EstateIsInt
<1>5. Lying(floor) \in Int /\ Worth(floor.items) \in Int /\ floor.money \in Nat BY LyingIsInt
<1>6. Lying(floor') \in Int
  <2>1. /\ floor' \in [items : Seq(Item), money : Nat] /\ Pile(floor'.items) BY DEF RestTyped
  <2>2. floor'.items \in Seq(Item) /\ floor'.money \in Nat BY <2>1
  <2>3. DOMAIN floor'.items = 1 .. Len(floor'.items) /\ IsFiniteSet(1 .. Len(floor'.items))
    BY <2>2, LenProperties, FS_Interval
  <2>4. \A i \in DOMAIN floor'.items : Values(floor'.items)[i] \in Int
    BY <2>2, <2>3, ElementOfSeq, ValueIsNat DEF Values
  <2>5. Worth(floor'.items) \in Int BY <2>3, <2>4, WorthIsSum, SumType
  <2> QED BY <2>2, <2>5 DEF Lying
<1>7. Wealth = Lying(floor) + SumOver(f, Player)
  <2>1. DOMAIN f = Player OBVIOUS
  <2>2. SumFunction(f) = SumOver(f, Player) BY <2>1 DEF SumFunction, SumOver
  <2>3. Wealth = floor.money + Worth(floor.items) + SumFunction(f) BY DEF Wealth
  <2> QED BY <2>2, <2>3 DEF Lying
<1>8. Wealth' = Lying(floor') + SumOver(g, Player)
  <2>1. DOMAIN g = Player OBVIOUS
  <2>2. SumFunction(g) = SumOver(g, Player) BY <2>1 DEF SumFunction, SumOver
  <2>3. Wealth' = floor'.money + Worth(floor'.items) + SumFunction(g) BY DEF Wealth, Estate
  <2> QED BY <2>2, <2>3 DEF Lying
<1> HIDE DEF f, g
<1>9. IsFiniteSet(Player) BY BelongingsAssumption
<1>10. \A q \in Player : f[q] \in Int /\ g[q] \in Int BY <1>2, <1>3, <1>4
<1>11. SumOver(f, Player) \in Int BY <1>9, <1>10, SumType
<1>12. \A x \in Player : (\A y \in Player \ {x} : g[y] = f[y]) =>
                          SumOver(g, Player) = SumOver(f, Player) - f[x] + g[x]
  BY <1>9, <1>10, SumChange
<1>13. SumOver(g, Player) = SumOver(f, Player) - f[p] + g[p] BY <1>2, <1>12
<1> DEFINE sum == SumOver(f, Player)
           total == SumOver(g, Player)
           e == Estate(own[p])
           d == Estate(c)
           l == Lying(floor)
           k == Lying(floor')
           was == Wealth
           now == Wealth'
<1>14. /\ sum \in Int /\ e \in Int /\ d \in Int /\ l \in Int /\ k \in Int
       /\ was = l + sum /\ now = k + total /\ total = sum - e + d
  BY <1>2, <1>3, <1>4, <1>5, <1>6, <1>7, <1>8, <1>11, <1>13
<1> HIDE DEF sum, total, e, d, l, k, was, now
<1>15. was \in Int /\ e \in Int /\ d \in Int /\ l \in Int /\ k \in Int /\ now = was - e + d - l + k
  BY <1>14
<1> QED BY <1>15 DEF was, now, e, d, l, k

LEMMA PickedWorth ==
  ASSUME NEW b, Covered(b), ~Overruns(b), NEW k \in Item
  PROVE  /\ Worth(PickUpItem(b, k).slots) = Worth(b.slots) + Price[k]
         /\ PickUpItem(b, k).money = b.money
<1> DEFINE i == First(Slot \ Filled(b))
<1>1. b \in Own /\ b.slots \in [Slot -> Item \cup {None}] BY DEF Covered, Own
<1>2. i \in Slot \ Filled(b)
  <2>1. Slot \ Filled(b) # {} BY FilledIsFinite DEF Overruns
  <2>2. Slot \ Filled(b) \subseteq Nat BY SlotsAreNumbers
  <2> QED BY <2>1, <2>2, FirstIsLeast
<1>3. /\ PickUpItem(b, k).slots = [b.slots EXCEPT ![i] = k]
      /\ PickUpItem(b, k).money = b.money
  BY <1>1 DEF PickUpItem, Own
<1> HIDE DEF i
<1>4. b.slots[i] = None BY <1>2 DEF Filled
<1>5. Value(None) = 0 /\ Value(k) = Price[k] /\ Price[k] \in Nat
  BY ValueIsNat, BelongingsAssumption DEF Value
<1>6. /\ Worth(b.slots) \in Int
      /\ Worth([b.slots EXCEPT ![i] = k]) = Worth(b.slots) - Value(b.slots[i]) + Value(k)
  BY <1>1, <1>2, SlotChanges
<1> QED BY <1>3, <1>4, <1>5, <1>6

LEMMA DroppedWorth ==
  ASSUME NEW b \in Own, NEW i \in Filled(b)
  PROVE  /\ b.slots[i] \in Item
         /\ Worth(DropSlot(b, i).slots) = Worth(b.slots) - Price[b.slots[i]]
         /\ DropSlot(b, i).money = b.money
<1>1. b.slots \in [Slot -> Item \cup {None}] /\ i \in Slot BY FilledIsFinite DEF Own
<1>2. b.slots[i] \in Item BY <1>1 DEF Filled
<1>3. DropSlot(b, i).slots = [b.slots EXCEPT ![i] = None] /\ DropSlot(b, i).money = b.money
  BY DEF DropSlot, Own
<1>4. /\ Worth(b.slots) \in Int
      /\ Worth([b.slots EXCEPT ![i] = None]) = Worth(b.slots) - Value(b.slots[i]) + Value(None)
  BY <1>1, SlotChanges
<1>5. Value(None) = 0 /\ Value(b.slots[i]) = Price[b.slots[i]] /\ Price[b.slots[i]] \in Nat
  BY <1>2, ValueIsNat, BelongingsAssumption DEF Value
<1> QED BY <1>2, <1>3, <1>4, <1>5

\* All are as wealthy as before, or less so because something was used up or
\* fell from a full floor.
Lost == \/ \E p \in Player, k \in Healings : UseItem(p, k)
        \/ Len(floor'.items) = RoomItems
Fair == Wealth' = Wealth \/ (Wealth' <= Wealth /\ Lost)

LEMMA SameWealth == ASSUME UNCHANGED <<own, floor>> PROVE Wealth' = Wealth
BY DEF Wealth, Estate

\* How much richer a player is that changes one slot or his purse.
LEMMA CarryIsFair ==
  ASSUME Sound, RestTyped, RestTyped', NEW p \in Player, NEW k \in Item, NEW paid \in Nat,
         paid <= own[p].money, NEW left, Carry(p, k, paid, left),
         Lying(left) = Lying(floor) + paid - Price[k]
  PROVE  Wealth' = Wealth
<1>1. CASE Overruns(own[p]) BY <1>1, SameWealth DEF Carry
<1>2. CASE ~Overruns(own[p])
  <2> DEFINE b == PickUpItem(own[p], k)
             c == [b EXCEPT !.money = b.money - paid]
  <2>1. Covered(own[p]) /\ own[p] \in Own BY DEF Sound
  <2>2. Covered(b) BY <1>2, <2>1, PickedUp
  <2>3. Worth(b.slots) = Worth(own[p].slots) + Price[k] /\ b.money = own[p].money
    BY <1>2, <2>1, PickedWorth
  <2>4. own' = [own EXCEPT ![p] = c] /\ floor' = left BY <1>2 DEF Carry
  <2> HIDE DEF b
  <2>5. b.money - paid \in Nat /\ b \in Own BY <2>1, <2>2, <2>3 DEF Covered, Own
  <2>6. c \in Own /\ c.slots = b.slots /\ c.money = b.money - paid BY <2>5 DEF Own
  <2> HIDE DEF c
  <2> DEFINE e == Estate(own[p])
             d == Estate(c)
             l == Lying(floor)
             m == Lying(floor')
             was == Wealth
             now == Wealth'
             price == Price[k]
  <2>7. was \in Int /\ e \in Int /\ d \in Int /\ l \in Int /\ m \in Int /\ now = was - e + d - l + m
    BY <2>4, <2>6, Balance
  <2>8. price \in Nat BY BelongingsAssumption
  <2>9. Worth(own[p].slots) \in Int /\ own[p].money \in Int BY <2>1, EstateIsInt
  <2>10. d = e + price - paid BY <2>3, <2>6, <2>8, <2>9 DEF Estate
  <2>11. m = l + paid - price BY <2>4
  <2> HIDE DEF e, d, l, m, was, now, price
  <2>12. now = was BY <2>7, <2>8, <2>10, <2>11
  <2> QED BY <2>12 DEF now, was
<1> QED BY <1>1, <1>2

\* The purse of a player changes, and the money of the room.
LEMMA PayIsFair ==
  ASSUME Sound, RestTyped, RestTyped', NEW p \in Player, NEW c \in Own, own' = [own EXCEPT ![p] = c],
         NEW paid \in Int, c.slots = own[p].slots, c.money = own[p].money - paid,
         floor'.items = floor.items, floor'.money = floor.money + paid
  PROVE  Wealth' = Wealth
<1> DEFINE e == Estate(own[p])
           d == Estate(c)
           l == Lying(floor)
           m == Lying(floor')
           was == Wealth
           now == Wealth'
<1>1. was \in Int /\ e \in Int /\ d \in Int /\ l \in Int /\ m \in Int /\ now = was - e + d - l + m
  BY Balance
<1>2. own[p] \in Own BY DEF Sound
<1>3. Worth(own[p].slots) \in Int /\ own[p].money \in Int BY <1>2, EstateIsInt
<1>4. d = e - paid BY <1>3 DEF Estate
<1>5. m = l + paid
  <2>1. Worth(floor.items) \in Int /\ floor.money \in Nat BY LyingIsInt
  <2>2. Worth(floor'.items) = Worth(floor.items) OBVIOUS
  <2> QED BY <2>1, <2>2 DEF Lying
<1> HIDE DEF e, d, l, m, was, now
<1>6. now = was BY <1>1, <1>4, <1>5
<1> QED BY <1>6 DEF now, was

\* An item is laid down, with some money.
LEMMA LayIsFair ==
  ASSUME Sound, RestTyped, RestTyped', NEW p \in Player, NEW c \in Own, own' = [own EXCEPT ![p] = c],
         NEW paid \in Int, NEW i \in Filled(own[p]),
         Worth(c.slots) = Worth(own[p].slots) - Price[own[p].slots[i]],
         c.money = own[p].money - paid,
         floor'.items = AddItem(floor.items, own[p].slots[i]), floor'.money = floor.money + paid
  PROVE  Fair
<1> DEFINE e == Estate(own[p])
           d == Estate(c)
           l == Lying(floor)
           m == Lying(floor')
           was == Wealth
           now == Wealth'
           k == own[p].slots[i]
           price == Price[k]
           w == Worth(floor.items)
           v == Worth(floor'.items)
<1>1. was \in Int /\ e \in Int /\ d \in Int /\ l \in Int /\ m \in Int /\ now = was - e + d - l + m
  BY Balance
<1>2. own[p] \in Own BY DEF Sound
<1>3. k \in Item /\ price \in Nat BY <1>2, DroppedWorth, BelongingsAssumption
<1>4. Worth(own[p].slots) \in Int /\ own[p].money \in Int BY <1>2, EstateIsInt
<1>5. d = e - price - paid BY <1>3, <1>4 DEF Estate
<1>6. Pile(floor.items) /\ w \in Int /\ floor.money \in Nat BY LyingIsInt
<1>7. /\ v \in Int /\ v <= w + price
      /\ v = w + price \/ Len(floor'.items) = RoomItems
  <2> HIDE DEF k
  <2>1. /\ Worth(AddItem(floor.items, k)) \in Int
        /\ Worth(AddItem(floor.items, k)) <= Worth(floor.items) + Price[k]
        /\ \/ Worth(AddItem(floor.items, k)) = Worth(floor.items) + Price[k]
           \/ Len(AddItem(floor.items, k)) = RoomItems
    BY <1>3, <1>6, AddedWorth
  <2>2. floor'.items = AddItem(floor.items, k) BY DEF k
  <2> QED BY <2>1, <2>2
<1>8. m = floor.money + paid + v /\ l = floor.money + w BY DEF Lying
<1> DEFINE f == floor.money
<1>9. /\ was \in Int /\ e \in Int /\ now = was - e + d - l + m /\ price \in Nat /\ f \in Nat
      /\ d = e - price - paid /\ w \in Int /\ v \in Int /\ v <= w + price
      /\ m = f + paid + v /\ l = f + w
  BY <1>1, <1>3, <1>5, <1>6, <1>7, <1>8
<1> HIDE DEF e, d, l, m, was, now, price, w, v, f
<1>10. now = was + (v - (w + price)) BY <1>9
<1>11. now <= was /\ (v = w + price => now = was) BY <1>9, <1>10
<1> QED BY <1>7, <1>11 DEF now, was, Fair, Lost

LEMMA WealthIsInt == ASSUME Sound, RestTyped PROVE Wealth \in Int
<1> DEFINE f == [q \in Player |-> Estate(own[q])]
<1>1. \A q \in Player : f[q] \in Int BY EstateIsInt DEF Sound
<1>2. SumOver(f, Player) \in Int
  <2> HIDE DEF f
  <2>1. IsFiniteSet(Player) BY BelongingsAssumption
  <2> QED BY <1>1, <2>1, SumType
<1>3. DOMAIN f = Player OBVIOUS
<1>4. SumFunction(f) = SumOver(f, Player) BY <1>3 DEF SumFunction, SumOver
<1>5. Wealth = Lying(floor) + SumFunction(f) BY DEF Wealth, Lying
<1>6. Lying(floor) \in Int BY LyingIsInt
<1> HIDE DEF f
<1> QED BY <1>2, <1>4, <1>5, <1>6

\* Only a dead enemy brings something into the world, and no step takes any
\* of it away but by use and off a full floor.
LEMMA NextIsFair ==
  ASSUME Sound, RestTyped, Sound', RestTyped', [Next]_vars,
         mode = "up", mode' = "up", reloads' = reloads
  PROVE  \/ Fair
         \/ /\ \E p \in Player, m \in LootMoney, drops \in LootDrops : EnemyKilled(p, m, drops)
            /\ Wealth <= Wealth' \/ Lost
<1> USE DEF Command, disk, server
<1>1. ASSUME NEW p \in Player, NEW k \in Item, GetItem(p, k)
      PROVE  Fair
  <2> DEFINE left == [floor EXCEPT !.items = RemoveFirst(floor.items, k)]
  <2>1. Pile(floor.items) /\ Worth(floor.items) \in Int /\ floor.money \in Nat BY LyingIsInt
  <2>2. Contains(floor.items, k) /\ Carry(p, k, 0, left) BY <1>1 DEF GetItem
  <2>3. left.items = RemoveFirst(floor.items, k) /\ left.money = floor.money BY DEF RestTyped
  <2> HIDE DEF left
  <2>4. /\ Worth(left.items) \in Int
        /\ Worth(floor.items) = Price[k] + Worth(left.items)
    BY <2>1, <2>2, <2>3, TakenPile
  <2>5. 0 \in Nat /\ 0 <= own[p].money /\ Price[k] \in Nat
    BY BelongingsAssumption DEF Sound, Own
  <2>6. Lying(left) = Lying(floor) + 0 - Price[k]
    BY <2>1, <2>3, <2>4, <2>5 DEF Lying
  <2>7. Wealth' = Wealth BY <2>2, <2>5, <2>6, CarryIsFair
  <2> QED BY <2>7 DEF Fair
<1>2. ASSUME NEW p \in Player, NEW k \in Item, Buy(p, k)
      PROVE  Fair
  <2>1. Carry(p, k, Price[k], floor) /\ Price[k] <= own[p].money /\ Price[k] \in Nat
    BY <1>2, BelongingsAssumption DEF Buy, Sound, Own
  <2>2. Lying(floor) \in Int BY LyingIsInt
  <2>3. Lying(floor) = Lying(floor) + Price[k] - Price[k] BY <2>1, <2>2
  <2>4. Wealth' = Wealth BY <2>1, <2>3, CarryIsFair
  <2> QED BY <2>4 DEF Fair
<1>3. ASSUME NEW p \in Player, NEW m \in Amounts, GetMoney(p, m) \/ DropMoney(p, m)
      PROVE  Fair
  <2>1. m \in Nat /\ own[p].money \in Nat /\ own[p] \in Own /\ floor.money \in Nat
    BY BelongingsAssumption, LyingIsInt DEF Sound, Own
  <2>2. CASE GetMoney(p, m)
    <3> DEFINE c == [own[p] EXCEPT !.money = own[p].money + m]
    <3>1. own' = [own EXCEPT ![p] = c] BY <2>2 DEF GetMoney, Sound
    <3>2. c \in Own /\ c.slots = own[p].slots /\ c.money = own[p].money - (0 - m) BY <2>1 DEF Own
    <3>3. floor'.items = floor.items /\ floor'.money = floor.money + (0 - m) /\ 0 - m \in Int
      BY <2>1, <2>2 DEF GetMoney, RestTyped
    <3> HIDE DEF c
    <3>4. Wealth' = Wealth BY <3>1, <3>2, <3>3, PayIsFair
    <3> QED BY <3>4 DEF Fair
  <2>3. CASE DropMoney(p, m)
    <3> DEFINE c == [own[p] EXCEPT !.money = own[p].money - m]
    <3>1. own' = [own EXCEPT ![p] = c] /\ m <= own[p].money BY <2>3 DEF DropMoney, Sound
    <3>2. c \in Own /\ c.slots = own[p].slots /\ c.money = own[p].money - m
      BY <2>1, <3>1 DEF Own
    <3>3. floor'.items = floor.items /\ floor'.money = floor.money + m /\ m \in Int
      BY <2>1, <2>3 DEF DropMoney, RestTyped
    <3> HIDE DEF c
    <3>4. Wealth' = Wealth BY <3>1, <3>2, <3>3, PayIsFair
    <3> QED BY <3>4 DEF Fair
  <2> QED BY <1>3, <2>2, <2>3
<1>4. ASSUME NEW p \in Player, NEW k \in Item, DropItem(p, k)
      PROVE  Fair
  <2> DEFINE i == SlotOf(own[p], k)
             c == DropSlot(own[p], i)
  <2>1. own[p] \in Own /\ Covered(own[p]) BY DEF Sound
  <2>2. /\ k \in Held(own[p]) /\ own' = [own EXCEPT ![p] = c]
        /\ floor' = [floor EXCEPT !.items = AddItem(floor.items, k)]
    BY <1>4 DEF DropItem
  <2>3. i \in Filled(own[p]) /\ own[p].slots[i] = k BY <2>1, <2>2, FoundSlot
  <2> HIDE DEF i
  <2>4. /\ Worth(c.slots) = Worth(own[p].slots) - Price[own[p].slots[i]]
        /\ c.money = own[p].money
    BY <2>1, <2>3, DroppedWorth
  <2>5. c \in Own BY <2>1, <2>3, Dropped DEF Covered
  <2>6. own[p].money \in Nat /\ floor.money \in Nat BY LyingIsInt DEF Sound, Own
  <2> HIDE DEF c
  <2>7. c.money = own[p].money - 0 BY <2>4, <2>6
  <2>8. floor'.items = AddItem(floor.items, own[p].slots[i]) /\ floor'.money = floor.money + 0
    BY <2>2, <2>3, <2>6 DEF RestTyped
  <2>9. 0 \in Int OBVIOUS
  <2> QED BY <2>2, <2>3, <2>4, <2>5, <2>7, <2>8, <2>9, LayIsFair
<1>5. ASSUME NEW p \in Player, NEW k \in Item, UseItem(p, k)
      PROVE  Fair
  <2> DEFINE i == SlotOf(own[p], k)
             c == DropSlot(own[p], i)
  <2>1. own[p] \in Own /\ Covered(own[p]) BY DEF Sound
  <2>2. k \in Held(own[p]) /\ UNCHANGED floor BY <1>5 DEF UseItem
  <2>3. i \in Filled(own[p]) /\ own[p].slots[i] = k /\ i \in Slot
    BY <2>1, <2>2, FoundSlot, FilledIsFinite
  <2>4. Lying(floor) \in Int /\ floor.money \in Nat BY LyingIsInt
  <2>5. CASE k \in Weapons \/ k \in Armors
    <3> HIDE DEF i
    <3>1. \/ own' = [own EXCEPT ![p] = [own[p] EXCEPT !.weapon = i]]
          \/ own' = [own EXCEPT ![p] = [own[p] EXCEPT !.armor = i]]
      BY <1>5, <2>5 DEF UseItem, Sound, i
    <3>2. PICK b : /\ b \in Own /\ b.slots = own[p].slots /\ b.money = own[p].money
                   /\ own' = [own EXCEPT ![p] = b]
      BY <2>1, <2>3, <3>1 DEF Own
    <3>3. own[p].money \in Nat BY DEF Sound, Own
    <3>4. b.money = own[p].money - 0 /\ floor'.items = floor.items /\ floor'.money = floor.money + 0 /\ 0 \in Int
      BY <2>2, <2>4, <3>2, <3>3
    <3>5. Wealth' = Wealth BY <3>2, <3>4, PayIsFair
    <3> QED BY <3>5 DEF Fair
  <2>6. CASE ~(k \in Weapons \/ k \in Armors)
    <3>1. own' = [own EXCEPT ![p] = c] BY <1>5, <2>6 DEF UseItem
    <3>2. /\ Worth(c.slots) = Worth(own[p].slots) - Price[k]
          /\ c.money = own[p].money /\ c \in Own
      BY <2>1, <2>3, DroppedWorth, Dropped DEF Covered
    <3>3. Price[k] \in Nat BY BelongingsAssumption
    <3> HIDE DEF c, i
    <3> DEFINE e == Estate(own[p])
               d == Estate(c)
               was == Wealth
               now == Wealth'
               l == Lying(floor)
               price == Price[k]
    <3>4. was \in Int /\ e \in Int /\ d \in Int /\ l \in Int /\ now = was - e + d - l + l
      BY <2>2, <3>1, <3>2, Balance
    <3>5. Worth(own[p].slots) \in Int /\ own[p].money \in Int BY <2>1, EstateIsInt
    <3>6. d = e - price /\ price \in Nat BY <3>2, <3>3, <3>5 DEF Estate
    <3> HIDE DEF e, d, was, now, l, price
    <3>7. now <= was BY <3>4, <3>6
    <3>8. k \in Healings BY <2>6 DEF Item
    <3>9. Lost BY <1>5, <3>8 DEF Lost
    <3> QED BY <3>7, <3>9 DEF now, was, Fair
  <2> QED BY <2>5, <2>6
<1>6. ASSUME NEW p \in Player, NEW k \in Item, Sell(p, k)
      PROVE  Fair
  <2> DEFINE i == SlotOf(own[p], k)
             b == DropSlot(own[p], i)
             c == [b EXCEPT !.money = b.money + Price[k]]
  <2>1. own[p] \in Own /\ Covered(own[p]) BY DEF Sound
  <2>2. k \in Held(own[p]) /\ UNCHANGED floor /\ own' = [own EXCEPT ![p] = c] BY <1>6 DEF Sell
  <2>3. i \in Filled(own[p]) /\ own[p].slots[i] = k BY <2>1, <2>2, FoundSlot
  <2>4. /\ Worth(b.slots) = Worth(own[p].slots) - Price[k]
        /\ b.money = own[p].money /\ b \in Own
    BY <2>1, <2>3, DroppedWorth, Dropped DEF Covered
  <2>5. Price[k] \in Nat BY BelongingsAssumption
  <2> HIDE DEF b, i
  <2>6. b.money \in Nat BY <2>4 DEF Own
  <2>7. c \in Own /\ c.slots = b.slots /\ c.money = b.money + Price[k] BY <2>4, <2>5, <2>6 DEF Own
  <2> HIDE DEF c
  <2> DEFINE e == Estate(own[p])
             d == Estate(c)
             was == Wealth
             now == Wealth'
             l == Lying(floor)
  <2>8. was \in Int /\ e \in Int /\ d \in Int /\ l \in Int /\ now = was - e + d - l + l
    BY <2>2, <2>7, Balance
  <2>9. Worth(own[p].slots) \in Int /\ own[p].money \in Int BY <2>1, EstateIsInt
  <2>10. d = e BY <2>4, <2>5, <2>7, <2>9 DEF Estate
  <2> HIDE DEF e, d, was, now, l
  <2>11. now = was BY <2>8, <2>10
  <2> QED BY <2>11 DEF now, was, Fair
<1>7. ASSUME NEW p \in Player, RemoveItem(p)
      PROVE  Fair
  <2>1. own[p] \in Own BY DEF Sound
  <2>2. \/ own' = [own EXCEPT ![p] = [own[p] EXCEPT !.weapon = NoSlot]]
        \/ own' = [own EXCEPT ![p] = [own[p] EXCEPT !.armor = NoSlot]]
    BY <1>7 DEF RemoveItem, Sound
  <2>3. PICK b : /\ b \in Own /\ b.slots = own[p].slots /\ b.money = own[p].money
                 /\ own' = [own EXCEPT ![p] = b]
    BY <2>1, <2>2 DEF Own
  <2>4. own[p].money \in Nat /\ floor.money \in Nat /\ UNCHANGED floor
    BY <1>7, LyingIsInt DEF RemoveItem, Sound, Own
  <2>5. b.money = own[p].money - 0 /\ floor'.items = floor.items /\ floor'.money = floor.money + 0 /\ 0 \in Int
    BY <2>3, <2>4
  <2>6. Wealth' = Wealth BY <2>3, <2>5, PayIsFair
  <2> QED BY <2>6 DEF Fair
<1>8. ASSUME NEW p \in Player, PlayerKilled(p)
      PROVE  Fair
  <2> DEFINE b == own[p]
             lost == b.money \div DeathShare
             poorer == [b EXCEPT !.money = b.money - lost]
  <2>1. b \in Own /\ Covered(b) /\ b.money \in Nat BY DEF Sound, Own
  <2>2. lost \in Nat /\ b.money - lost \in Nat
    <3>1. DeathShare \in Nat \ {0} BY BelongingsAssumption
    <3> QED BY <2>1, <3>1
  <2>3. \/ /\ own' = [own EXCEPT ![p] = poorer]
           /\ floor' = [floor EXCEPT !.money = floor.money + lost]
        \/ \E i \in Filled(b) :
             /\ own' = [own EXCEPT ![p] = DropSlot(poorer, i)]
             /\ floor' = [items |-> AddItem(floor.items, b.slots[i]), money |-> floor.money + lost]
    BY <1>8 DEF PlayerKilled
  <2> HIDE DEF lost
  <2>4. Covered(poorer) /\ Filled(poorer) = Filled(b) BY <2>1, <2>2, Paid
  <2>5. poorer \in Own /\ poorer.slots = b.slots /\ poorer.money = b.money - lost
    BY <2>1, <2>2 DEF Own
  <2> HIDE DEF poorer
  <2>6. CASE /\ own' = [own EXCEPT ![p] = poorer]
             /\ floor' = [floor EXCEPT !.money = floor.money + lost]
    <3>1. floor'.items = floor.items /\ floor'.money = floor.money + lost /\ lost \in Int
      BY <2>2, <2>6 DEF RestTyped
    <3>2. Wealth' = Wealth BY <2>5, <2>6, <3>1, PayIsFair
    <3> QED BY <3>2 DEF Fair
  <2>7. ASSUME NEW i \in Filled(b), own' = [own EXCEPT ![p] = DropSlot(poorer, i)],
               floor' = [items |-> AddItem(floor.items, b.slots[i]), money |-> floor.money + lost]
        PROVE  Fair
    <3> DEFINE c == DropSlot(poorer, i)
    <3>1. /\ Worth(c.slots) = Worth(b.slots) - Price[b.slots[i]]
          /\ c.money = b.money - lost
      BY <2>4, <2>5, DroppedWorth
    <3>2. c \in Own BY <2>4, Dropped DEF Covered
    <3>3. floor'.items = AddItem(floor.items, b.slots[i]) /\ floor'.money = floor.money + lost
      BY <2>7
    <3>4. own' = [own EXCEPT ![p] = c] /\ lost \in Int BY <2>2, <2>7
    <3> HIDE DEF c
    <3> QED BY <3>1, <3>2, <3>3, <3>4, LayIsFair
  <2> QED BY <2>3, <2>6, <2>7
<1>9. ASSUME NEW p \in Player, NEW m \in LootMoney, NEW drops \in LootDrops, EnemyKilled(p, m, drops)
      PROVE  Wealth <= Wealth' \/ Lost
  <2>1. m \in Nat /\ drops \in Seq(Item) BY BelongingsAssumption
  <2>2. Pile(floor.items) /\ Worth(floor.items) \in Int /\ floor.money \in Nat BY LyingIsInt
  <2> DEFINE laid == LaidDown(floor.items, drops)
  <2>3. Worth(laid) \in Int /\ (Len(laid) = RoomItems \/ Worth(floor.items) <= Worth(laid))
    BY <2>1, <2>2, LaidDownWorth
  <2>4. floor'.items = laid /\ floor'.money = floor.money + m /\ UNCHANGED own
    BY <1>9 DEF EnemyKilled
  <2> HIDE DEF laid
  <2>5. Len(laid) = RoomItems => Lost BY <2>4 DEF Lost
  <2> DEFINE c == own[p]
             e == Estate(own[p])
             was == Wealth
             now == Wealth'
             l == Lying(floor)
             k == Lying(floor')
  <2>6. c \in Own /\ own' = [own EXCEPT ![p] = c] BY <2>4 DEF Sound
  <2>7. was \in Int /\ e \in Int /\ l \in Int /\ k \in Int /\ now = was - e + e - l + k
    BY <2>6, Balance
  <2>8. k = floor.money + m + Worth(laid) /\ l = floor.money + Worth(floor.items)
    BY <2>4 DEF Lying
  <2> HIDE DEF was, now, l, k, e
  <2>9. now = was + k - l BY <2>7
  <2>10. Worth(floor.items) <= Worth(laid) => was <= now
    <3> DEFINE v == Worth(laid)
               w == Worth(floor.items)
               f == floor.money
    <3>1. v \in Int /\ w \in Int /\ f \in Nat /\ k = f + m + v /\ l = f + w BY <2>2, <2>3, <2>8
    <3> HIDE DEF v, w, f
    <3>2. w <= v => was <= now BY <2>1, <2>7, <2>9, <3>1
    <3> QED BY <3>2 DEF w, v
  <2> QED BY <2>3, <2>5, <2>10 DEF was, now
<1>10. ASSUME \/ \E p \in Player : Login(p) \/ Logout(p)
              \/ SaveDatabases \/ Shutdown \/ Commit \/ Fail \/ Halt \/ Crash \/ UNCHANGED vars
       PROVE  Fair
  <2>1. UNCHANGED <<own, floor>>
    BY <1>10 DEF Login, Logout, SaveDatabases, Shutdown, Commit, Fail, Halt, Crash, vars
  <2> QED BY <2>1, SameWealth DEF Fair
<1>11. ASSUME NEW p \in Player, Reload(p) PROVE FALSE
  <2>1. reloads \in Nat BY BelongingsAssumption DEF RestTyped
  <2> QED BY <1>11, <2>1 DEF Reload
<1>12. ~Start BY DEF Start
<1> QED BY <1>1, <1>2, <1>3, <1>4, <1>5, <1>6, <1>7, <1>8, <1>9, <1>10, <1>11, <1>12 DEF Next

-----------------------------------------------------------------------------
(* A shutdown saves everyone. *)

\* A write that the queue still holds.
Ahead(t, p) == [table |-> t, of |-> p] \in ToSet(job)

HandsSaved(p) ==
  /\ row[p].weapon = InHand(own[p], own[p].weapon)
  /\ row[p].armor = InHand(own[p], own[p].armor)

\* From the shutdown command on, each row is as its player is or a write that
\* makes it so is still to come.
ToBeSaved ==
  mode = "stopping" \/ (mode = "down" /\ clean) =>
    \A p \in Player :
      /\ HandsSaved(p) \/ Ahead("player", p)
      /\ row[p].items = Held(own[p]) \/ Ahead("inventory", p)

NothingAhead == mode = "down" => job = <<>>

\* A new object is armed with what the row has in its hands.
LEMMA LoadedHands ==
  ASSUME NEW r \in Row, NEW order \in SetToSeqs(r.items),
         r.weapon \in r.items \cup {None}, r.armor \in r.items \cup {None}
  PROVE  LET c == ParseRow(Nothing, r, order)
         IN  InHand(c, c.weapon) = r.weapon /\ InHand(c, c.armor) = r.armor
<1> DEFINE slots == [i \in Slot |-> IF i \in DOMAIN order THEN order[i] ELSE Nothing.slots[i]]
           c == ParseRow(Nothing, r, order)
<1>1. r.items \subseteq Item BY DEF Row
<1>2. DOMAIN order \subseteq Slot /\ ToSet(order) = r.items BY <1>1, LoadFits, Enumerated
<1>3. /\ c.slots = slots
      /\ c.weapon = Armed(slots, r.weapon, NoSlot)
      /\ c.armor = Armed(slots, r.armor, NoSlot)
  BY DEF ParseRow, Nothing
<1>4. ASSUME NEW k \in r.items \cup {None}
      PROVE  InHand(c, Armed(slots, k, NoSlot)) = k
  <2> DEFINE at == {i \in Slot : slots[i] = k}
             a == Armed(slots, k, NoSlot)
  <2>1. at # {} => First(at) \in at BY FirstIsLeast, SlotsAreNumbers
  <2>2. a = IF k = None THEN NoSlot ELSE IF at = {} THEN NoSlot ELSE First(at)
    BY DEF Armed
  <2>3. CASE k = None BY <1>3, <2>2, <2>3 DEF InHand
  <2>4. CASE k # None
    <3>1. \E i \in DOMAIN order : order[i] = k BY <1>2, <1>4, <2>4 DEF ToSet
    <3>2. at # {} BY <1>2, <3>1
    <3>3. First(at) \in Slot /\ slots[First(at)] = k BY <2>1, <3>2
    <3>4. a = First(at) BY <2>2, <2>4, <3>2
    <3> HIDE DEF slots, at, c
    <3>5. a \in Slot /\ slots[a] = k BY <3>3, <3>4
    <3>6. a # NoSlot BY <3>5, SlotsAreNumbers
    <3> HIDE DEF a
    <3>7. InHand(c, a) = k BY <1>3, <3>5, <3>6 DEF InHand
    <3> QED BY <3>7 DEF a
  <2> QED BY <2>3, <2>4
<1> HIDE DEF c, slots
<1>5. InHand(c, c.weapon) = r.weapon /\ InHand(c, c.armor) = r.armor BY <1>3, <1>4
<1> QED BY <1>5 DEF c

LEMMA HandsHold ==
  ASSUME NEW b, b \in Own, NEW i \in Slot \cup {NoSlot}
  PROVE  InHand(b, i) \in Held(b) \cup {None}
BY DEF InHand, Held, Filled

\* A write is of a player or of the room.
LEMMA WriteOfPlayer ==
  ASSUME NEW w \in Write, w.table \in {"player", "inventory"}
  PROVE  w.of \in Player
<1> DEFINE rooms == {"room money", "room items"}
<1>1. w \in [table : {"player", "inventory"}, of : Player] \cup [table : rooms] BY DEF Write
<1>2. "player" \notin rooms /\ "inventory" \notin rooms BY Zenon
<1> HIDE DEF rooms
<1>3. w \in [table : rooms] => w.table \in rooms OBVIOUS
<1>4. w.table \notin rooms BY <1>2
<1> QED BY <1>1, <1>3, <1>4

\* What a transaction writes, and what it leaves.
LEMMA CommitWrites ==
  ASSUME Sound, RestTyped, Commit, NEW p \in Player
  PROVE  /\ HandsSaved(p) \/ Ahead("player", p) =>
              HandsSaved(p)' \/ Ahead("player", p)'
         /\ row[p].items = Held(own[p]) \/ Ahead("inventory", p) =>
              row'[p].items = Held(own'[p]) \/ Ahead("inventory", p)'
<1> DEFINE w == Head(job)
<1>1. job # <<>> /\ job' = Tail(job) /\ UNCHANGED own /\ Written(w) BY DEF Commit, Saving
<1>2. w \in Write /\ ToSet(job) = {w} \cup ToSet(job')
  BY <1>1, ToSetTail DEF RestTyped, Queued
<1> HIDE DEF w
<1>3. CASE w.table = "player"
  <2> DEFINE weapon == InHand(own[w.of], own[w.of].weapon)
             armor == InHand(own[w.of], own[w.of].armor)
             r == [row[w.of] EXCEPT !.weapon = weapon, !.armor = armor,
                                    !.money = SavedMoney]
  <2>1. row' = [row EXCEPT ![w.of] = r] BY <1>1, <1>3 DEF Written, Sound
  <2>2. w.of \in Player /\ w # [table |-> "inventory", of |-> p] BY <1>2, <1>3, WriteOfPlayer
  <2> HIDE DEF weapon, armor
  <2>3. r.weapon = weapon /\ r.armor = armor /\ r.items = row[w.of].items
    BY <2>2 DEF Sound, Row
  <2> HIDE DEF r
  <2>4. row' \in [Player -> {row'[q] : q \in Player}]
        /\ \A q \in Player : row'[q] = IF q = w.of THEN r ELSE row[q]
    BY <2>1 DEF Sound
  <2>5. w.of = p => HandsSaved(p)'
    BY <1>1, <2>3, <2>4 DEF HandsSaved, weapon, armor
  <2>6. w.of # p => row'[p] = row[p] /\ w # [table |-> "player", of |-> p] BY <2>4
  <2>7. row'[p].items = row[p].items BY <2>3, <2>4
  <2> QED BY <1>1, <1>2, <2>2, <2>5, <2>6, <2>7 DEF HandsSaved, Ahead
<1>4. CASE w.table = "inventory"
  <2> DEFINE r == [row[w.of] EXCEPT !.items = InventoryRows(w.of)]
  <2>1. row' = [row EXCEPT ![w.of] = r] BY <1>1, <1>4 DEF Written, Sound
  <2>2. w.of \in Player /\ w # [table |-> "player", of |-> p] BY <1>2, <1>4, WriteOfPlayer
  <2>3. /\ r.weapon = row[w.of].weapon /\ r.armor = row[w.of].armor
        /\ r.items = Held(own[w.of])
    BY <2>2 DEF Sound, Row, InventoryRows
  <2> HIDE DEF r
  <2>4. \A q \in Player : row'[q] = IF q = w.of THEN r ELSE row[q] BY <2>1 DEF Sound
  <2>5. w.of = p => row'[p].items = Held(own'[p]) BY <1>1, <2>3, <2>4
  <2>6. w.of # p => row'[p] = row[p] /\ w # [table |-> "inventory", of |-> p] BY <2>4
  <2>7. row'[p].weapon = row[p].weapon /\ row'[p].armor = row[p].armor BY <2>3, <2>4
  <2> QED BY <1>1, <1>2, <2>2, <2>5, <2>6, <2>7 DEF HandsSaved, Ahead
<1>5. CASE w.table # "player" /\ w.table # "inventory"
  <2>1. row' = row BY <1>1, <1>5 DEF Written
  <2>2. \A t \in {"player", "inventory"} : w # [table |-> t, of |-> p] BY <1>5
  <2> QED BY <1>1, <1>2, <2>1, <2>2 DEF HandsSaved, Ahead
<1> QED BY <1>3, <1>4, <1>5

\* With everyone armed with what he may be, a database that works refuses
\* nothing.
LEMMA NothingFails ==
  ASSUME Sound, RestTyped, AllArms, "fail" \notin Deeds
  PROVE  ~Fail
<1> SUFFICES ASSUME Fail PROVE FALSE OBVIOUS
<1> DEFINE w == Head(job)
<1>1. job # <<>> /\ ~Accepted(w) BY DEF Fail, Saving
<1>2. w \in Write BY <1>1, ToSetTail DEF RestTyped, Queued
<1> HIDE DEF w
<1>3. w.table = "player" => w.of \in Player BY <1>2, WriteOfPlayer
<1> QED BY <1>1, <1>3 DEF Accepted, InHand, AllArms, Arms

LEMMA ShutdownSaves ==
  ASSUME Sound, RestTyped, AllArms, ToBeSaved, NothingAhead, "fail" \notin Deeds,
         [Next]_vars
  PROVE  ToBeSaved' /\ NothingAhead'
<1> USE DEF Command, Idle, server, disk
<1>1. CASE Commit
  <2>1. UNCHANGED <<mode, clean>> /\ mode # "down" BY <1>1 DEF Commit, Saving
  <2> QED BY <1>1, <2>1, CommitWrites DEF ToBeSaved, NothingAhead
<1>2. CASE Shutdown
  <2>1. mode' = "stopping" /\ job' = WorldJob BY <1>2 DEF Shutdown
  <2>2. \A p \in Player : Ahead("player", p)' /\ Ahead("inventory", p)'
    BY <2>1, WorldJobWrites DEF Ahead, ToSet
  <2> QED BY <2>1, <2>2 DEF ToBeSaved, NothingAhead
<1>3. CASE Halt
  <2>1. mode = "stopping" /\ job = <<>> /\ UNCHANGED <<own, row, job>> BY <1>3 DEF Halt
  <2> QED BY <2>1 DEF ToBeSaved, NothingAhead, HandsSaved, Ahead
<1>4. CASE Crash BY <1>4 DEF Crash, ToBeSaved, NothingAhead
<1>5. CASE Start BY <1>5 DEF Start, ToBeSaved, NothingAhead
<1>6. CASE UNCHANGED vars BY <1>6 DEF vars, ToBeSaved, NothingAhead, HandsSaved, Ahead
<1>7. ASSUME mode = "up", UNCHANGED mode PROVE ToBeSaved' /\ NothingAhead'
  BY <1>7 DEF ToBeSaved, NothingAhead
<1>8. ASSUME NEW p \in Player, NEW deed, Command(p, deed) PROVE ToBeSaved' /\ NothingAhead'
  BY <1>7, <1>8
<1>9. ASSUME NEW p \in Player, NEW k \in Item,
             GetItem(p, k) \/ DropItem(p, k) \/ UseItem(p, k) \/ Buy(p, k) \/ Sell(p, k)
      PROVE  ToBeSaved' /\ NothingAhead'
  BY <1>8, <1>9 DEF GetItem, DropItem, UseItem, Buy, Sell
<1>10. ASSUME NEW p \in Player, NEW m, GetMoney(p, m) \/ DropMoney(p, m)
       PROVE  ToBeSaved' /\ NothingAhead'
  BY <1>8, <1>10 DEF GetMoney, DropMoney
<1>11. ASSUME NEW p \in Player, NEW m, NEW drops,
              EnemyKilled(p, m, drops) \/ RemoveItem(p) \/ PlayerKilled(p)
       PROVE  ToBeSaved' /\ NothingAhead'
  BY <1>8, <1>11 DEF EnemyKilled, RemoveItem, PlayerKilled
<1>12. ASSUME \/ \E p \in Player : Login(p) \/ Logout(p) \/ Reload(p)
              \/ SaveDatabases
       PROVE  ToBeSaved' /\ NothingAhead'
  BY <1>7, <1>12 DEF Login, Logout, Reload, SaveDatabases
<1> QED BY <1>1, <1>2, <1>3, <1>4, <1>5, <1>6, <1>9, <1>10, <1>11, <1>12, NothingFails
        DEF Next

\* What a start after a shutdown loads.
LEMMA StartRestores ==
  ASSUME Sound, ToBeSaved, NothingAhead, Start, clean, NEW p \in Player
  PROVE  /\ Held(own'[p]) = Held(own[p])
         /\ InHand(own'[p], own'[p].weapon) = InHand(own[p], own[p].weapon)
         /\ InHand(own'[p], own'[p].armor) = InHand(own[p], own[p].armor)
<1>1. mode = "down" /\ job = <<>> BY DEF Start, NothingAhead
<1>2. HandsSaved(p) /\ row[p].items = Held(own[p])
  BY <1>1 DEF ToBeSaved, Ahead, ToSet
<1>3. row[p] \in Row /\ own[p] \in Own BY DEF Sound
<1>4. row[p].weapon \in row[p].items \cup {None} /\ row[p].armor \in row[p].items \cup {None}
  BY <1>2, <1>3, HandsHold DEF HandsSaved, Own
<1>5. PICK orders \in [Player -> UNION {SetToSeqs(row[q].items) : q \in Player}] :
        /\ \A q \in Player : ToSet(orders[q]) = row[q].items
        /\ own' = [q \in Player |-> ParseRow(Nothing, row[q], orders[q])]
  BY DEF Start
<1>6. orders[p] \in SetToSeqs(row[p].items)
  <2>1. PICK q \in Player : orders[p] \in SetToSeqs(row[q].items) BY <1>5
  <2>2. row[q].items \subseteq Item BY DEF Sound, Row
  <2>3. ToSet(orders[p]) = row[q].items BY <2>1, <2>2, Enumerated
  <2> QED BY <1>5, <2>1, <2>3
<1>7. own'[p] = ParseRow(Nothing, row[p], orders[p]) BY <1>5
<1>8. /\ InHand(own'[p], own'[p].weapon) = row[p].weapon
      /\ InHand(own'[p], own'[p].armor) = row[p].armor
  BY <1>3, <1>4, <1>6, <1>7, LoadedHands
<1>9. Held(own'[p]) = row[p].items BY <1>3, <1>6, <1>7, Loaded
<1> QED BY <1>2, <1>8, <1>9 DEF HandsSaved

-----------------------------------------------------------------------------
(* The theorems. *)

\* Player::m_items counts no more than the slots hold, whatever is reloaded,
\* refused or lost: Game::PlayerKilled finds an item when it draws for one.
THEOREM DrawsEnd == Spec => []CountIsCovered
<1>1. Init => Sound BY InitSound
<1>2. Sound /\ [Next]_vars => Sound' BY NextKeeps
<1>3. Sound => CountIsCovered BY DEF Sound, Covered, CountIsCovered
<1> QED BY <1>1, <1>2, <1>3, PTL DEF Spec

\* Without the command reload, which belongings_unsaved is about, m_weapon and
\* m_armor always name a slot that holds a weapon, an armor, also after loads
\* from half-written rows.
THEOREM ArmsStayHeld ==
  ASSUME "reload" \notin Deeds
  PROVE  Spec => []ArmedIsHeld
<1>1. Init => Sound /\ AllArms BY InitSound
<1>2. Sound /\ AllArms /\ [Next]_vars => Sound' /\ AllArms' BY NextKeeps
<1>3. AllArms => ArmedIsHeld BY DEF AllArms, Arms, ArmedIsHeld
<1> QED BY <1>1, <1>2, <1>3, PTL DEF Spec

\* PlayerDatabase::Logout saves what the player left with, as long as the
\* database works and nobody is reloaded: the triggers refuse nothing, and a
\* crash before or between the writes leaves nobody worse off than his row.
THEOREM LogoutsAreDurable ==
  ASSUME "reload" \notin Deeds, "fail" \notin Deeds
  PROVE  Spec => []OfflineIsDurable
<1> DEFINE IInv == Sound /\ AllArms /\ Durable
<1>1. Init => IInv
  <2>1. ASSUME Init PROVE Durable
    <3>1. \A p \in Player : row[p].items = {} /\ Filled(own[p]) = {}
      BY <2>1 DEF Init, Nothing, Filled
    <3> QED BY <3>1 DEF Durable, Held
  <2> QED BY <2>1, InitSound
<1>2. IInv /\ [Next]_vars => IInv' BY NextKeeps, NextIsDurable
<1>3. IInv => OfflineIsDurable BY JobOfLogout DEF Durable, Owed, OfflineIsDurable
<1> QED BY <1>1, <1>2, <1>3, PTL DEF Spec

LEMMA NextIsTyped ==
  /\ Init => Sound /\ RestTyped
  /\ Sound /\ RestTyped /\ [Next]_vars => Sound' /\ RestTyped'
BY InitSound, InitRest, NextKeeps, RestKeeps

LEMMA WealthIsNumber ==
  /\ Sound /\ RestTyped => Wealth \in Int
  /\ Sound' /\ RestTyped' => Wealth' \in Int
<1>1. Sound /\ RestTyped => Wealth \in Int BY WealthIsInt
<1>2. (Sound /\ RestTyped => Wealth \in Int)' BY <1>1, PTL
<1> QED BY <1>1, <1>2

\* The types, and with them three bounds of the code: a room never holds more
\* than its 32 items, money is never negative, and the queue of a save is
\* never left with half a transaction that Fail would take apart.
THEOREM BelongingsTypeCorrect == Spec => []TypeOK
<1>1. ASSUME Sound, RestTyped PROVE TypeOK
  <2>1. own \in [Player -> Own] /\ row \in [Player -> Row] BY <1>1 DEF Sound
  <2>2. Len(floor.items) <= RoomItems /\ job \in Seq(Write)
    BY <1>1 DEF RestTyped, Pile, Queued
  <2> QED BY <1>1, <2>1, <2>2 DEF RestTyped, TypeOK
<1> QED BY NextIsTyped, <1>1, PTL DEF Spec

\* Whoever gets, drops, buys, sells or dies: players and room together are
\* richer afterwards only when an enemy left something.
THEOREM WealthIsEarned == Spec => NoFreeWealth
<1>1. ASSUME Sound, RestTyped, Sound', RestTyped', [Next]_vars
      PROVE  [mode = "up" /\ mode' = "up" /\ reloads' = reloads =>
                \/ Wealth' <= Wealth
                \/ \E p \in Player, m \in LootMoney, drops \in LootDrops :
                     EnemyKilled(p, m, drops)]_vars
  <2>1. Wealth \in Int /\ Wealth' \in Int BY <1>1, WealthIsNumber
  <2>2. Fair => Wealth' <= Wealth BY <2>1 DEF Fair
  <2> QED BY <1>1, <2>2, NextIsFair
<1> QED BY NextIsTyped, <1>1, PTL DEF Spec, NoFreeWealth

\* And they are poorer only when a healing item was used up or the room was so
\* full that its oldest item went.
THEOREM WealthIsKept == Spec => NothingIsLost
<1>1. ASSUME Sound, RestTyped, Sound', RestTyped', [Next]_vars
      PROVE  [mode = "up" /\ mode' = "up" /\ reloads' = reloads /\ Wealth' < Wealth =>
                \/ \E p \in Player, k \in Healings : UseItem(p, k)
                \/ Len(floor'.items) = RoomItems]_vars
  <2>1. Wealth \in Int /\ Wealth' \in Int BY <1>1, WealthIsNumber
  <2>2. Fair /\ Wealth' < Wealth => Lost BY <2>1 DEF Fair
  <2>3. Wealth <= Wealth' => ~(Wealth' < Wealth) BY <2>1
  <2> QED BY <1>1, <2>2, <2>3, NextIsFair DEF Lost
<1> QED BY NextIsTyped, <1>1, PTL DEF Spec, NothingIsLost

\* A shutdown and the next start change nobody's kinds of items nor what is in
\* his hands, as long as the database works and nobody was reloaded: each
\* transaction of SaveDatabases writes its row, and the row loads as what it
\* was written from.
THEOREM KindsAreKept ==
  ASSUME "reload" \notin Deeds, "fail" \notin Deeds
  PROVE  Spec => KindsSurvive
<1> DEFINE IInv == Sound /\ RestTyped /\ AllArms /\ ToBeSaved /\ NothingAhead
<1>1. Init => IInv
  <2>1. Init => ToBeSaved /\ NothingAhead BY DEF Init, ToBeSaved, NothingAhead
  <2> QED BY <2>1, InitSound, NextIsTyped
<1>2. IInv /\ [Next]_vars => IInv' BY NextIsTyped, NextKeeps, ShutdownSaves
<1>3. ASSUME IInv, [Next]_vars
      PROVE  [mode = "down" /\ mode' = "up" /\ clean =>
                \A p \in Player :
                  /\ Held(own'[p]) = Held(own[p])
                  /\ InHand(own'[p], own'[p].weapon) = InHand(own[p], own[p].weapon)
                  /\ InHand(own'[p], own'[p].armor) = InHand(own[p], own[p].armor)]_vars
  <2>1. ASSUME Next, mode = "down", mode' = "up" PROVE Start
    BY <2>1 DEF Next, Command, Idle, GetItem, DropItem, UseItem, Buy, Sell, GetMoney,
       DropMoney, EnemyKilled, RemoveItem, PlayerKilled, Login, Logout, Reload,
       SaveDatabases, Shutdown, Commit, Fail, Saving, Halt, Crash
  <2> QED BY <1>3, <2>1, StartRestores
<1> QED BY <1>1, <1>2, <1>3, PTL DEF Spec, KindsSurvive

=============================================================================
