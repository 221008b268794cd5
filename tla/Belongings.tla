----------------------------- MODULE Belongings -----------------------------
(***************************************************************************)
(* What the players of the SimpleMUD server own, in memory and in the      *)
(* database: the inventory slots of Player, the items and money that lie   *)
(* in a room, and the rows Player, Inventory, MapVolatile and              *)
(* MapVolatileGuardaItem of PostgreSQL that they are saved to and loaded   *)
(* from.                                                                   *)
(*                                                                         *)
(* Commands run to completion on the one thread of the server.  A save is  *)
(* a series of database transactions on that thread: each one is a step    *)
(* here, the process may die between two of them, and one may fail, which  *)
(* the code logs and forgets.  One room stands for all: every operation    *)
(* works on the room its player stands in.                                 *)
(***************************************************************************)
EXTENDS Integers, SequencesExt

CONSTANTS
  Player,       \* the accounts
  Weapons,      \* the items of type WEAPON,
  Armors,       \*   ARMOR
  Healings,     \*   and HEALING
  Price,        \* what each item costs in a store
  Store,        \* the items of the store list
  LootDrops,    \* what a dead enemy may leave: sequences of items
  LootMoney,    \* and amounts of money
  Amounts,      \* the amounts of money that are typed
  PlayerItems,  \* slots of an inventory (16 in the code)
  RoomItems,    \* items that a room holds (32)
  DeathShare,   \* the part of the money a death costs is one in DeathShare (10)
  SavedMoney,   \* the literal that DumpSQL writes for the money (100)
  Deeds,        \* the operations that happen
  MaxItems,     \* bound: items in the world when an enemy drops more
  MaxMoney,     \* bound: money in the world when an enemy drops more
  MaxReloads    \* bound: reload commands

AllDeeds == {"get", "drop", "use", "remove", "trade", "die", "loot", "quit",
             "reload", "timer", "shutdown", "crash", "fail"}

Item == Weapons \cup Armors \cup Healings
None == "none"                 \* an empty slot, a NULL column
NoSlot == -1

\* The row of a player lists each item once, so that a load never runs past
\* the slots: the shipped table has 11 items for 16 slots.
ASSUME BelongingsAssumption ==
  /\ IsFiniteSet(Player) /\ None \notin Item /\ Store \subseteq Item
  /\ Price \in [Item -> Nat]
  /\ IsFiniteSet(Item) /\ PlayerItems \in Nat /\ Cardinality(Item) < PlayerItems
  /\ RoomItems \in Nat \ {0} /\ DeathShare \in Nat \ {0}
  /\ SavedMoney \in Nat /\ MaxItems \in Nat /\ MaxMoney \in Nat /\ MaxReloads \in Nat
  /\ LootDrops \subseteq Seq(Item) /\ LootMoney \subseteq Nat /\ Amounts \subseteq Nat
  /\ Deeds \subseteq AllDeeds

VARIABLES
  mode,       \* up, stopping (the last save is under way) or down
  clean,      \* the server went down by its shutdown command
  job,        \* the database writes that are still to do
  online,     \* the players in the game
  own,        \* the belongings of every Player object
  floor,      \* the items and money that lie in the room
  row,        \* the tables Player and Inventory
  roomRow,    \* the tables MapVolatile and MapVolatileGuardaItem
  reloads,    \* reload commands so far
  fault       \* the first step that has no defined result

vars == <<mode, clean, job, online, own, floor, row, roomRow, reloads, fault>>
disk == <<row, roomRow>>
server == <<mode, clean, job, reloads>>

Slot == 0 .. PlayerItems - 1
Own ==
  [slots : [Slot -> Item \cup {None}],
   items : Int,                       \* m_items, kept apart from the slots
   weapon : Slot \cup {NoSlot},
   armor : Slot \cup {NoSlot},
   money : Nat]
Row ==
  [weapon : Weapons \cup {None}, armor : Armors \cup {None},
   money : Nat, items : SUBSET Item]

\* One transaction: the row of a player, his inventory, the money or the
\* items of the room.
Write == [table : {"player", "inventory"}, of : Player]
           \cup [table : {"room money", "room items"}]

TypeOK ==
  /\ mode \in {"up", "stopping", "down"} /\ clean \in BOOLEAN
  /\ job \in Seq(Write) /\ online \subseteq Player
  /\ own \in [Player -> Own]
  /\ floor \in [items : Seq(Item), money : Nat] /\ Len(floor.items) <= RoomItems
  /\ row \in [Player -> Row] /\ roomRow \in [items : SUBSET Item, money : Nat]
  /\ reloads \in 0 .. MaxReloads
  /\ fault \in {"none", "overrun"}

\* A Player object before anything is loaded into it.
Nothing ==
  [slots |-> [i \in Slot |-> None], items |-> 0, weapon |-> NoSlot,
   armor |-> NoSlot, money |-> 0]

Init ==
  /\ mode = "up" /\ clean = FALSE /\ job = <<>> /\ online = {}
  /\ own = [p \in Player |-> [Nothing EXCEPT !.money = SavedMoney]]
  /\ floor = [items |-> <<>>, money |-> 0]
  /\ row = [p \in Player |->
              [weapon |-> None, armor |-> None, money |-> SavedMoney, items |-> {}]]
  /\ roomRow = [items |-> {}, money |-> 0]
  /\ reloads = 0 /\ fault = "none"

-----------------------------------------------------------------------------
(* Player and Room. *)

Filled(b) == {i \in Slot : b.slots[i] # None}
Held(b) == {b.slots[i] : i \in Filled(b)}
First(S) == CHOOSE i \in S : \A j \in S : i <= j

\* What Weapon() and Armor() return.
InHand(b, i) == IF i = NoSlot THEN None ELSE b.slots[i]

\* Player::GetItemIndex: the first slot whose item has the name.
SlotOf(b, k) == First({i \in Slot : b.slots[i] = k})

\* PickUpItem takes a player whose m_items is below PlayerItems to have a
\* free slot, and looks for it without an end.
CanCarry(b) == b.items < PlayerItems
Overruns(b) == Filled(b) = Slot
PickUpItem(b, k) ==
  [b EXCEPT !.slots[First(Slot \ Filled(b))] = k, !.items = @ + 1]

\* Variant: what was armed stays armed.
DropSlotArmed(b, i) == [b EXCEPT !.slots[i] = None, !.items = @ - 1]

\* Player::DropItem.
DropSlot(b, i) ==
  [b EXCEPT !.slots[i] = None, !.items = @ - 1,
            !.weapon = IF @ = i THEN NoSlot ELSE @,
            !.armor = IF @ = i THEN NoSlot ELSE @]

\* Variant: a room takes any number of items.
AddItemUncapped(items, k) == Append(items, k)

\* Room::AddItem: the oldest item makes room.
AddItem(items, k) ==
  Append(IF Len(items) >= RoomItems THEN Tail(items) ELSE items, k)

TotalItems ==
  Len(floor.items) + SumFunction([p \in Player |-> Cardinality(Filled(own[p]))])
TotalMoney == floor.money + SumFunction([p \in Player |-> own[p].money])

-----------------------------------------------------------------------------
(* The commands of Game, for a player in the game. *)

Command(p, deed) ==
  /\ mode = "up" /\ job = <<>> /\ fault = "none"
  /\ p \in online /\ deed \in Deeds
  /\ UNCHANGED <<server, online, disk>>

\* The player takes k, or the search for a slot leaves the inventory.
Carry(p, k, paid, left) ==
  /\ CanCarry(own[p])
  /\ IF Overruns(own[p])
     THEN fault' = "overrun" /\ UNCHANGED <<own, floor>>
     ELSE /\ own' = [own EXCEPT ![p] = [PickUpItem(own[p], k) EXCEPT !.money = @ - paid]]
          /\ floor' = left
          /\ UNCHANGED fault

\* Variant: the item stays in the room.
GetItemLeft(p, k) ==
  /\ Command(p, "get") /\ Contains(floor.items, k)
  /\ Carry(p, k, 0, floor)

GetItem(p, k) ==
  /\ Command(p, "get") /\ Contains(floor.items, k)
  /\ Carry(p, k, 0, [floor EXCEPT !.items = RemoveFirst(@, k)])

\* An amount that is no number throws before anything is moved: the session
\* ends (Session), the belongings are as they were.
GetMoney(p, m) ==
  /\ Command(p, "get") /\ m <= floor.money
  /\ own' = [own EXCEPT ![p].money = @ + m]
  /\ floor' = [floor EXCEPT !.money = @ - m]
  /\ UNCHANGED fault

DropItem(p, k) ==
  /\ Command(p, "drop") /\ k \in Held(own[p])
  /\ floor' = [floor EXCEPT !.items = AddItem(@, k)]
  /\ own' = [own EXCEPT ![p] = DropSlot(@, SlotOf(@, k))]
  /\ UNCHANGED fault

\* Likewise.
DropMoney(p, m) ==
  /\ Command(p, "drop") /\ m <= own[p].money
  /\ own' = [own EXCEPT ![p].money = @ - m]
  /\ floor' = [floor EXCEPT !.money = @ + m]
  /\ UNCHANGED fault

\* Game::UseItem: arm the item or drink it up.
UseItem(p, k) ==
  /\ Command(p, "use") /\ k \in Held(own[p])
  /\ LET i == SlotOf(own[p], k)
     IN own' = [own EXCEPT ![p] =
          IF k \in Weapons THEN [@ EXCEPT !.weapon = i]
          ELSE IF k \in Armors THEN [@ EXCEPT !.armor = i]
          ELSE DropSlot(@, i)]
  /\ UNCHANGED <<floor, fault>>

RemoveItem(p) ==
  /\ Command(p, "remove")
  /\ \/ /\ InHand(own[p], own[p].weapon) # None
        /\ own' = [own EXCEPT ![p].weapon = NoSlot]
     \/ /\ InHand(own[p], own[p].armor) # None
        /\ own' = [own EXCEPT ![p].armor = NoSlot]
  /\ UNCHANGED <<floor, fault>>

\* Variant: who cannot carry the item has paid for it.
BuyPaidFirst(p, k) ==
  /\ Command(p, "trade") /\ k \in Store /\ own[p].money >= Price[k]
  /\ \/ Carry(p, k, Price[k], floor)
     \/ /\ ~CanCarry(own[p])
        /\ own' = [own EXCEPT ![p].money = @ - Price[k]]
        /\ UNCHANGED <<floor, fault>>

Buy(p, k) ==
  /\ Command(p, "trade") /\ k \in Store /\ own[p].money >= Price[k]
  /\ Carry(p, k, Price[k], floor)

Sell(p, k) ==
  /\ Command(p, "trade") /\ k \in Store /\ k \in Held(own[p])
  /\ LET b == DropSlot(own[p], SlotOf(own[p], k))
     IN own' = [own EXCEPT ![p] = [b EXCEPT !.money = @ + Price[k]]]
  /\ UNCHANGED <<floor, fault>>

\* Game::PlayerKilled.  A random slot is drawn until it holds an item.
PlayerKilled(p) ==
  LET b == own[p]
      lost == b.money \div DeathShare
      poorer == [b EXCEPT !.money = @ - lost]
  IN /\ Command(p, "die")
     /\ \/ /\ b.items <= 0
           /\ own' = [own EXCEPT ![p] = poorer]
           /\ floor' = [floor EXCEPT !.money = @ + lost]
        \/ /\ b.items > 0
           /\ \E i \in Filled(b) :
                /\ own' = [own EXCEPT ![p] = DropSlot(poorer, i)]
                /\ floor' = [items |-> AddItem(floor.items, b.slots[i]),
                             money |-> floor.money + lost]
     /\ UNCHANGED fault

\* What an enemy leaves is laid down piece by piece.
LaidDown(items, drops) ==
  LET laid[i \in 0 .. Len(drops)] ==
        IF i = 0 THEN items ELSE AddItem(laid[i - 1], drops[i])
  IN  laid[Len(drops)]

\* Game::EnemyKilled by player p.
EnemyKilled(p, m, drops) ==
  /\ Command(p, "loot")
  /\ TotalItems + Len(drops) <= MaxItems /\ TotalMoney + m <= MaxMoney
  /\ floor' = [items |-> LaidDown(floor.items, drops), money |-> floor.money + m]
  /\ UNCHANGED <<own, fault>>

-----------------------------------------------------------------------------
(* Saving. *)

\* SavePlayer is two transactions, SaveData two for each room.
PlayerJob(p) == <<[table |-> "player", of |-> p], [table |-> "inventory", of |-> p]>>
WorldJob ==
  [i \in 1 .. 2 * Cardinality(Player) |->
     [table |-> IF i % 2 = 1 THEN "player" ELSE "inventory",
      of |-> SetToSeq(Player)[(i + 1) \div 2]]]
    \o <<[table |-> "room money"], [table |-> "room items"]>>

Idle == mode = "up" /\ job = <<>> /\ fault = "none"

\* Game::Enter.
Login(p) ==
  /\ Idle /\ p \notin online
  /\ online' = online \cup {p}
  /\ UNCHANGED <<server, own, floor, disk, fault>>

\* Variant: PlayerDatabase::Logout does not save.
LogoutUnsaved(p) ==
  /\ Idle /\ "quit" \in Deeds /\ p \in online
  /\ online' = online \ {p} /\ UNCHANGED job
  /\ UNCHANGED <<mode, clean, reloads, own, floor, disk, fault>>

\* PlayerDatabase::Logout, the end of every connection in the game.
Logout(p) ==
  /\ Idle /\ "quit" \in Deeds /\ p \in online
  /\ online' = online \ {p} /\ job' = PlayerJob(p)
  /\ UNCHANGED <<mode, clean, reloads, own, floor, disk, fault>>

\* GameLoop::Loop every 15 minutes.
SaveDatabases ==
  /\ Idle /\ "timer" \in Deeds
  /\ job' = WorldJob
  /\ UNCHANGED <<mode, clean, reloads, online, own, floor, disk, fault>>

\* The shutdown command: main() ends and ~GameLoop saves the databases.
Shutdown ==
  /\ Idle /\ "shutdown" \in Deeds
  /\ mode' = "stopping" /\ job' = WorldJob
  /\ UNCHANGED <<clean, reloads, online, own, floor, disk, fault>>

\* Variant: rows of items the player has parted with are not deleted.
InventoryOnlyInserts(p) == row[p].items \cup Held(own[p])

\* SavePlayerInventory and SaveDataItems delete the rows of the items that are
\* gone and insert rows for those that have none: one row for each item that is
\* there, however many of it are.
InventoryRows(p) == Held(own[p])
RoomRows == {floor.items[i] : i \in DOMAIN floor.items}

Written(w) ==
  CASE w.table = "player" ->
         /\ row' = [row EXCEPT ![w.of].weapon = InHand(own[w.of], own[w.of].weapon),
                               ![w.of].armor = InHand(own[w.of], own[w.of].armor),
                               ![w.of].money = SavedMoney]
         /\ UNCHANGED roomRow
    [] w.table = "inventory" ->
         row' = [row EXCEPT ![w.of].items = InventoryRows(w.of)] /\ UNCHANGED roomRow
    [] w.table = "room money" ->
         roomRow' = [roomRow EXCEPT !.money = floor.money] /\ UNCHANGED row
    [] OTHER -> roomRow' = [roomRow EXCEPT !.items = RoomRows] /\ UNCHANGED row

Saving == mode # "down" /\ job # <<>>

\* The triggers of the table Player refuse a weapon or an armor that is none.
Accepted(w) ==
  w.table = "player" =>
    /\ InHand(own[w.of], own[w.of].weapon) \in Weapons \cup {None}
    /\ InHand(own[w.of], own[w.of].armor) \in Armors \cup {None}

Commit ==
  /\ Saving /\ Accepted(Head(job)) /\ Written(Head(job))
  /\ job' = Tail(job)
  /\ UNCHANGED <<mode, clean, reloads, online, own, floor, fault>>

\* An exception of the database is logged; SavePlayer and SaveData give up
\* what they would have saved next.
Fail ==
  /\ Saving /\ ("fail" \in Deeds \/ ~Accepted(Head(job)))
  /\ job' = IF Head(job).table \in {"player", "room money"}
            THEN Tail(Tail(job)) ELSE Tail(job)
  /\ UNCHANGED <<mode, clean, reloads, online, own, floor, disk, fault>>

Halt ==
  /\ mode = "stopping" /\ job = <<>>
  /\ mode' = "down" /\ clean' = TRUE /\ online' = {}
  /\ UNCHANGED <<job, reloads, own, floor, disk, fault>>

\* The process dies; what it owned is kept as what it knew last.
Crash ==
  /\ mode # "down" /\ "crash" \in Deeds
  /\ mode' = "down" /\ clean' = FALSE /\ job' = <<>> /\ online' = {}
  /\ UNCHANGED <<reloads, own, floor, disk, fault>>

-----------------------------------------------------------------------------
(* Loading. *)

\* Where ParseRow finds an item of the row armed, if it does.
Armed(slots, k, was) ==
  LET at == {i \in Slot : slots[i] = k}
  IN IF k = None THEN NoSlot ELSE IF at = {} THEN was ELSE First(at)

\* Variant: the loaded row leaves what was armed.
ParseRowUnarmed(b, r, order) ==
  [b EXCEPT !.slots = [i \in Slot |-> IF i \in DOMAIN order THEN order[i] ELSE b.slots[i]],
            !.money = r.money]

\* Variant: the items of the row are counted on top of those there were.
ParseRowCounting(b, r, order) ==
  LET slots == [i \in Slot |-> IF i \in DOMAIN order THEN order[i] ELSE b.slots[i]]
  IN [b EXCEPT !.slots = slots, !.items = @ + Len(order),
               !.weapon = Armed(slots, r.weapon, @),
               !.armor = Armed(slots, r.armor, @),
               !.money = r.money]

\* ParseRow on the object b.  The array of items arrives in any order and
\* fills the slots from 1 on (its first element is the opening brace); the
\* other slots and m_items are left alone.
ParseRow(b, r, order) ==
  LET slots == [i \in Slot |-> IF i \in DOMAIN order THEN order[i] ELSE b.slots[i]]
  IN [b EXCEPT !.slots = slots,
               !.weapon = Armed(slots, r.weapon, @),
               !.armor = Armed(slots, r.armor, @),
               !.money = r.money]

\* reload player, by an administrator.
Reload(p) ==
  /\ Idle /\ "reload" \in Deeds /\ reloads < MaxReloads
  /\ reloads' = reloads + 1
  /\ \E order \in SetToSeqs(row[p].items) :
       own' = [own EXCEPT ![p] = ParseRow(@, row[p], order)]
  /\ UNCHANGED <<mode, clean, job, online, floor, disk, fault>>

\* A new process loads new objects.
Start ==
  /\ mode = "down" /\ fault = "none"
  /\ mode' = "up" /\ clean' = FALSE
  /\ \E orders \in [Player -> UNION {SetToSeqs(row[p].items) : p \in Player}] :
       /\ \A p \in Player : ToSet(orders[p]) = row[p].items
       /\ own' = [p \in Player |-> ParseRow(Nothing, row[p], orders[p])]
  /\ \E order \in SetToSeqs(roomRow.items) :
       floor' = [items |-> order, money |-> roomRow.money]
  /\ UNCHANGED <<job, online, disk, reloads, fault>>

Next ==
  \/ \E p \in Player :
       \/ \E k \in Item :
            GetItem(p, k) \/ DropItem(p, k) \/ UseItem(p, k) \/ Buy(p, k) \/ Sell(p, k)
       \/ \E m \in Amounts : GetMoney(p, m) \/ DropMoney(p, m)
       \/ \E m \in LootMoney, drops \in LootDrops : EnemyKilled(p, m, drops)
       \/ RemoveItem(p) \/ PlayerKilled(p)
       \/ Login(p) \/ Logout(p) \/ Reload(p)
  \/ SaveDatabases \/ Shutdown \/ Commit \/ Fail \/ Halt \/ Crash \/ Start

Spec == Init /\ [][Next]_vars

-----------------------------------------------------------------------------
(* Properties. *)

\* Game::PlayerKilled draws slots until it hits an item as soon as m_items is
\* positive: m_items never exceeds the slots that are in use, whatever
\* commands, reloads, restarts and lost saves came before, so the draw ends.
CountIsCovered == \A p \in Player : own[p].items <= Cardinality(Filled(own[p]))

\* m_weapon and m_armor are indexes that other code follows without a look:
\* they are -1 or name a slot that holds a weapon, an armor.
ArmedIsHeld ==
  \A p \in Player :
    /\ own[p].weapon # NoSlot => own[p].slots[own[p].weapon] \in Weapons
    /\ own[p].armor # NoSlot => own[p].slots[own[p].armor] \in Armors

\* Trade and handing things over make no one richer: at store prices, all the
\* items and money of the players and the room together grow only when an
\* enemy dies, whoever gets, drops, buys, sells or is killed.
Worth(items) ==
  SumFunction([i \in DOMAIN items |-> IF items[i] = None THEN 0 ELSE Price[items[i]]])
Estate(b) == b.money + Worth(b.slots)
Wealth ==
  floor.money + Worth(floor.items) + SumFunction([p \in Player |-> Estate(own[p])])
NoFreeWealth ==
  [][mode = "up" /\ mode' = "up" /\ reloads' = reloads =>
       \/ Wealth' <= Wealth
       \/ \E p \in Player, m \in LootMoney, drops \in LootDrops : EnemyKilled(p, m, drops)]_vars

\* And they make no one poorer: wealth shrinks only when a healing item is used
\* up, or when the floor of the room is full and gives up its oldest item.
NothingIsLost ==
  [][mode = "up" /\ mode' = "up" /\ reloads' = reloads /\ Wealth' < Wealth =>
       \/ \E p \in Player, k \in Healings : UseItem(p, k)
       \/ Len(floor'.items) = RoomItems]_vars

\* A player who is not in the game is in the database with the items he left
\* with, so that no crash can take them from him.
OfflineIsDurable ==
  mode = "up" /\ job = <<>> =>
    \A p \in Player \ online : row[p].items = Held(own[p])

\* Across a shutdown and a start every player has the kinds of items he had,
\* and the same ones in his hands.
KindsSurvive ==
  [][mode = "down" /\ mode' = "up" /\ clean =>
       \A p \in Player :
         /\ Held(own'[p]) = Held(own[p])
         /\ InHand(own'[p], own'[p].weapon) = InHand(own[p], own[p].weapon)
         /\ InHand(own'[p], own'[p].armor) = InHand(own[p], own[p].armor)]_vars

\* PlayerDatabase.cpp:276, "make sure the player is saved to disk": with a
\* database that works, logging out does it.
LogoutSaves == OfflineIsDurable

=============================================================================
