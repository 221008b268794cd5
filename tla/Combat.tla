------------------------------- MODULE Combat -------------------------------
(***************************************************************************)
(* Combat in the SimpleMUD server: players and enemies with their hit      *)
(* points and attack times, the enemies that rooms list and spawn, the     *)
(* game clock with the four deadlines of GameLoop, and what of all that    *)
(* is saved (the file game.data, the tables Player and EnemyInstance) and  *)
(* comes back after a shutdown or a crash.                                 *)
(*                                                                         *)
(* main() repeats: handle lines, then GameLoop::Loop, whose four tests run *)
(* in the order round, regen, heal, save.  A round attacks with one enemy  *)
(* after the other, a save writes one row after the other; time passes and *)
(* the process may die anywhere.  Who is in a room is who plays and stands *)
(* there (the invariant RosterMatchesHandlers of Session).                 *)
(***************************************************************************)
EXTENDS Naturals, SequencesExt, Entities

CONSTANTS
  Player,
  Room,
  StartRoom,    \* room 1, where the dead come back
  MaxEnemies,   \* the enemies a room spawns up to, 0 where nothing spawns
  Corruption,   \* the hit points a line costs in a room
  PlayerHits,   \* MAXHITPOINTS of a player (10 and more in the code)
  EnemyHits,    \* hit points of a new enemy
  Damage,       \* what a hit may take
  Regeneration, \* HPREGEN
  PlayerSpeed,  \* time between two attacks of a player,
  EnemySpeed,   \*   of an enemy
  Period,       \* ROUNDTIME, REGENTIME, HEALTIME and DBSAVETIME
  MaxClock,     \* bound: the game time
  MaxCrashes    \* bound: crashes

Timers == {"round", "regen", "heal", "save"}
Id == Nat \ {0}

ASSUME CombatAssumption ==
  /\ StartRoom \in Room /\ IsFiniteSet(Room) /\ IsFiniteSet(Player)
  /\ MaxEnemies \in [Room -> Nat] /\ Corruption \in [Room -> Nat]
  /\ PlayerHits \in Nat /\ PlayerHits > 1 /\ EnemyHits \in Nat \ {0}
  /\ Damage \subseteq Nat \ {0} /\ Regeneration \in Nat
  /\ PlayerSpeed \in Nat /\ EnemySpeed \in Nat
  /\ Period \in [Timers -> Nat \ {0}]
  /\ MaxClock \in Nat /\ MaxCrashes \in Nat

VARIABLES
  mode,      \* up, stopping (the last loop and save are under way) or down
  clean,     \* the server went down by its shutdown command
  crashes,   \* history: how often the server has died
  pc,        \* where main() is
  now,       \* Game::GetTimer().GetMS()
  next,      \* m_nextround, m_nextregen, m_nextheal, m_savedatabases
  roundTime, \* `now' of PerformRound
  turns,     \* the enemies this round has not come to yet
  writes,    \* what the save under way has still to write
  playing,   \* the players in the game
  body,      \* hit points, room and attack time of every Player object
  enemy,     \* EnemyDatabase: a function on the ids in use
  listed,    \* Room::m_enemies
  gameData,  \* what loading the file game.data yields
  row,       \* the table Player
  enemyRow   \* the table EnemyInstance

vars == <<mode, clean, crashes, pc, now, next, roundTime, turns, writes, playing,
          body, enemy, listed, gameData, row, enemyRow>>
process == <<mode, clean, crashes>>
clock == <<now, next>>
round == <<roundTime, turns>>
world == <<playing, body, enemy, listed>>
disk == <<gameData, row, enemyRow>>

Body == [hits : 0 .. PlayerHits, room : Room, ready : Nat]
Enemy == [hits : 1 .. EnemyHits, room : Room, ready : Nat]
Deadlines == [Timers -> Nat]
EmptyFile == [time |-> 0, next |-> Period]

\* One write of a save: emptying game.data, writing it, the row of a player,
\* the row of an enemy, deleting the rows of the dead.
Write == [what : {"empty", "clock", "dead"}] \cup [what : {"player"}, of : Player]
           \cup [what : {"enemy"}, of : Id]

EnemiesOn(ids) == [ids -> Enemy]

TypeOK ==
  /\ mode \in {"up", "stopping", "down"} /\ clean \in BOOLEAN /\ crashes \in 0 .. MaxCrashes
  /\ pc \in {"lines", "round", "regen", "heal", "save", "saving", "end", "final"}
  /\ now \in Nat /\ next \in Deadlines /\ roundTime \in Nat
  /\ turns \in Seq(Id) /\ writes \in Seq(Write)
  /\ playing \subseteq Player /\ body \in [Player -> Body]
  /\ DOMAIN enemy \subseteq Id /\ enemy \in EnemiesOn(DOMAIN enemy)
  /\ listed \in [Room -> Seq(Id)]
  /\ gameData \in [time : Nat, next : Deadlines]
  /\ row \in [Player -> Body]
  /\ DOMAIN enemyRow \subseteq Id /\ enemyRow \in EnemiesOn(DOMAIN enemyRow)

Fresh == [hits |-> PlayerHits, room |-> StartRoom, ready |-> 0]

Init ==
  /\ mode = "up" /\ clean = FALSE /\ crashes = 0 /\ pc = "lines"
  /\ now = 0 /\ next = Period /\ roundTime = 0
  /\ turns = <<>> /\ writes = <<>> /\ playing = {}
  /\ body = [p \in Player |-> Fresh] /\ row = body
  /\ enemy = <<>> /\ enemyRow = <<>>
  /\ listed = [r \in Room |-> <<>>]
  /\ gameData = EmptyFile

-----------------------------------------------------------------------------
(* Hit points, deaths, enemies. *)

\* Player::AddHitpoints(-n).
Hurt(b, n) == [b EXCEPT !.hits = IF @ > n THEN @ - n ELSE 0]

\* Player::AddHitpoints.
Healed(b, n) == [b EXCEPT !.hits = IF @ + n > PlayerHits THEN PlayerHits ELSE @ + n]

\* Game::PlayerKilled, as far as combat goes.
PlayerKilled(b) == [hits |-> (PlayerHits * 7) \div 10, room |-> StartRoom, ready |-> b.ready]

\* Variant: a player falls when his hit points are below 0.
StruckBelow(b, n) == IF Hurt(b, n).hits < 0 THEN PlayerKilled(b) ELSE Hurt(b, n)

\* The end of Game::EnemyAttack: a hit for n.
Struck(b, n) == IF Hurt(b, n).hits <= 0 THEN PlayerKilled(b) ELSE Hurt(b, n)

InRoom(r) == {p \in playing : body[p].room = r}

Housed(e, r) == {i \in DOMAIN e : e[i].room = r}

Without(e, i) == [j \in DOMAIN e \ {i} |-> e[j]]

-----------------------------------------------------------------------------
(* Lines. *)

\* A line of player p; corruption takes its toll first.
Line(p) == mode # "down" /\ pc = "lines" /\ writes = <<>> /\ p \in playing
Eroded(p) == Hurt(body[p], Corruption[body[p].room])

\* Any command that has nothing to do with combat.
Idle(p) ==
  /\ Line(p)
  /\ body' = [body EXCEPT ![p] = Eroded(p)]
  /\ UNCHANGED <<process, pc, clock, round, writes, playing, enemy, listed, disk>>

Move(p, r) ==
  /\ Line(p)
  /\ body' = [body EXCEPT ![p] = [Eroded(p) EXCEPT !.room = r]]
  /\ UNCHANGED <<process, pc, clock, round, writes, playing, enemy, listed, disk>>

\* Variant: Game::EnemyKilled forgets the room's list.
StrikeUnlisted(i, n) ==
  IF enemy[i].hits <= n
  THEN enemy' = Without(enemy, i) /\ UNCHANGED listed
  ELSE enemy' = [enemy EXCEPT ![i].hits = @ - n] /\ UNCHANGED listed

\* A hit on enemy i: Game::EnemyKilled and EnemyDatabase::Delete, if it dies.
Strike(i, n) ==
  IF enemy[i].hits <= n
  THEN /\ listed' = [listed EXCEPT ![enemy[i].room] = RemoveFirst(@, i)]
       /\ enemy' = Without(enemy, i)
  ELSE enemy' = [enemy EXCEPT ![i].hits = @ - n] /\ UNCHANGED listed

\* Game::PlayerAttack.  The enemies of a room have one name, so that
\* FindEnemy finds the first of them.
PlayerAttack(p) ==
  LET r == body[p].room
  IN /\ Line(p) /\ now >= body[p].ready /\ listed[r] # <<>>
     /\ body' = [body EXCEPT ![p] = [Eroded(p) EXCEPT !.ready = now + PlayerSpeed]]
     /\ \/ UNCHANGED <<enemy, listed>>
        \/ \E n \in Damage : Strike(Head(listed[r]), n)
     /\ UNCHANGED <<process, pc, clock, round, writes, playing, disk>>

Enter(p) ==
  /\ mode # "down" /\ pc = "lines" /\ writes = <<>> /\ p \notin playing
  /\ playing' = playing \cup {p}
  /\ UNCHANGED <<process, pc, clock, round, writes, body, enemy, listed, disk>>

\* A session ends, with the line quit or without one; that saves the player.
Quit(p) ==
  /\ Line(p)
  /\ playing' = playing \ {p}
  /\ body' \in {body, [body EXCEPT ![p] = Eroded(p)]}
  /\ writes' = <<[what |-> "player", of |-> p]>>
  /\ UNCHANGED <<process, pc, clock, round, enemy, listed, disk>>

\* The line shutdown of an administrator.
Shutdown(p) ==
  /\ Line(p) /\ mode = "up"
  /\ mode' = "stopping"
  /\ body' = [body EXCEPT ![p] = Eroded(p)]
  /\ UNCHANGED <<clean, crashes, pc, clock, round, writes, playing, enemy, listed, disk>>

-----------------------------------------------------------------------------
(* GameLoop::Loop. *)

\* The ids of a map in their order.
Ids(e) == CHOOSE s \in SetToSeqs(DOMAIN e) : \A i, j \in DOMAIN s : i < j => s[i] < s[j]

Due(t) == now >= next[t]

\* Variant: the deadline is set from the clock as it is now.
LaterFromNow(t) == next' = [next EXCEPT ![t] = now + 2 * Period[t]]

Later(t) == next' = [next EXCEPT ![t] = @ + Period[t]]

BeginLoop ==
  /\ mode # "down" /\ pc = "lines" /\ writes = <<>>
  /\ IF Due("round")
     THEN pc' = "round" /\ turns' = Ids(enemy) /\ roundTime' = now
     ELSE pc' = "regen" /\ UNCHANGED round
  /\ UNCHANGED <<process, clock, writes, world, disk>>

\* Game::EnemyAttack on player p.
EnemyAttack(i, p) ==
  /\ enemy' = [enemy EXCEPT ![i].ready = now + EnemySpeed]
  /\ \/ UNCHANGED body
     \/ \E n \in Damage : body' = [body EXCEPT ![p] = Struck(@, n)]

\* PerformRound comes to its next enemy.
Fight ==
  /\ mode # "down" /\ pc = "round" /\ turns # <<>>
  /\ LET i == Head(turns)
         prey == InRoom(enemy[i].room)
     IN IF roundTime >= enemy[i].ready /\ prey # {}
        THEN \E p \in prey : EnemyAttack(i, p)
        ELSE UNCHANGED <<enemy, body>>
  /\ turns' = Tail(turns)
  /\ UNCHANGED <<process, pc, clock, roundTime, writes, playing, listed, disk>>

EndRound ==
  /\ mode # "down" /\ pc = "round" /\ turns = <<>>
  /\ Later("round") /\ pc' = "regen" /\ roundTime' = 0
  /\ UNCHANGED <<process, now, turns, writes, world, disk>>

Short(r) == Len(listed[r]) < MaxEnemies[r]

\* EnemyDatabase::Create.
Spawned(w, r) ==
  LET i == FindOpenID(DOMAIN w.enemy)
  IN [enemy |-> [j \in DOMAIN w.enemy \cup {i} |->
                   IF j = i THEN [hits |-> EnemyHits, room |-> r, ready |-> 0] ELSE w.enemy[j]],
      listed |-> [w.listed EXCEPT ![r] = Append(w.listed[r], i)]]

\* The enemies and the lists after a spawn in one of the rooms after the other.
SpawnedIn(rooms) ==
  LET after[k \in 0 .. Len(rooms)] ==
        IF k = 0 THEN [enemy |-> enemy, listed |-> listed]
                 ELSE Spawned(after[k - 1], rooms[k])
  IN  after[Len(rooms)]

\* Variant: every room with a spawn gets an enemy.
PerformRegenAlways ==
  LET w == SpawnedIn(SetToSeq({r \in Room : MaxEnemies[r] > 0}))
  IN enemy' = w.enemy /\ listed' = w.listed

PerformRegen ==
  LET w == SpawnedIn(SetToSeq({r \in Room : Short(r)}))
  IN enemy' = w.enemy /\ listed' = w.listed

Regen ==
  /\ mode # "down" /\ pc = "regen" /\ pc' = "heal"
  /\ IF Due("regen") THEN PerformRegen /\ Later("regen") ELSE UNCHANGED <<enemy, listed, next>>
  /\ UNCHANGED <<process, now, round, writes, playing, body, disk>>

PerformHeal ==
  body' = [p \in Player |-> IF p \in playing THEN Healed(body[p], Regeneration) ELSE body[p]]

Heal ==
  /\ mode # "down" /\ pc = "heal" /\ pc' = "save"
  /\ IF Due("heal") THEN PerformHeal /\ Later("heal") ELSE UNCHANGED <<body, next>>
  /\ UNCHANGED <<process, now, round, writes, playing, enemy, listed, disk>>

PlayerWrites(S) == LET s == SetToSeq(S) IN [k \in DOMAIN s |-> [what |-> "player", of |-> s[k]]]
EnemyWrites == [k \in DOMAIN Ids(enemy) |-> [what |-> "enemy", of |-> Ids(enemy)[k]]]

\* GameLoop::SaveDatabases.
SaveDatabases ==
  <<[what |-> "empty"], [what |-> "clock"]>> \o PlayerWrites(Player)
    \o EnemyWrites \o <<[what |-> "dead"]>>

Save ==
  /\ mode # "down" /\ pc = "save"
  /\ IF Due("save") THEN pc' = "saving" /\ writes' = SaveDatabases
                    ELSE pc' = "end" /\ UNCHANGED writes
  /\ UNCHANGED <<process, clock, round, world, disk>>

EndSave ==
  /\ mode # "down" /\ pc = "saving" /\ writes = <<>>
  /\ Later("save") /\ pc' = "end"
  /\ UNCHANGED <<process, now, round, writes, world, disk>>

\* main() goes on, or its objects are destroyed: the connections, which log
\* the players out, and the game loop, which saves.
EndLoop ==
  /\ mode # "down" /\ pc = "end"
  /\ IF mode = "up" THEN pc' = "lines" /\ UNCHANGED <<writes, playing>>
     ELSE /\ pc' = "final" /\ playing' = {}
          /\ writes' = PlayerWrites(playing) \o SaveDatabases
  /\ UNCHANGED <<process, clock, round, body, enemy, listed, disk>>

-----------------------------------------------------------------------------
(* Saving, dying, starting. *)

\* Variant: the deadlines are saved and the time is not.
GameDataTimeless == [time |-> 0, next |-> next]

\* GameLoop::Save.
GameData == [time |-> now, next |-> next]

\* Variant: the dead stay in the table.
DeadStay == enemyRow

DeadGone == [i \in DOMAIN enemyRow \cap DOMAIN enemy |-> enemyRow[i]]

Written(w) ==
  CASE w.what = "empty" -> gameData' = EmptyFile /\ UNCHANGED <<row, enemyRow>>
    [] w.what = "clock" -> gameData' = GameData /\ UNCHANGED <<row, enemyRow>>
    [] w.what = "player" ->
         row' = [row EXCEPT ![w.of] = body[w.of]] /\ UNCHANGED <<gameData, enemyRow>>
    [] w.what = "enemy" ->
         /\ enemyRow' = [i \in DOMAIN enemyRow \cup {w.of} |->
                           IF i = w.of THEN enemy[i] ELSE enemyRow[i]]
         /\ UNCHANGED <<gameData, row>>
    [] OTHER -> enemyRow' = DeadGone /\ UNCHANGED <<gameData, row>>

Commit ==
  /\ mode # "down" /\ pc \in {"lines", "saving", "final"} /\ writes # <<>>
  /\ Written(Head(writes)) /\ writes' = Tail(writes)
  /\ UNCHANGED <<process, pc, clock, round, world>>

Halt ==
  /\ mode = "stopping" /\ pc = "final" /\ writes = <<>>
  /\ mode' = "down" /\ clean' = TRUE
  /\ UNCHANGED <<crashes, pc, clock, round, writes, world, disk>>

\* The process dies and its memory with it.
Crash ==
  /\ mode # "down" /\ crashes < MaxCrashes
  /\ mode' = "down" /\ clean' = FALSE /\ crashes' = crashes + 1 /\ pc' = "final"
  /\ now' = 0 /\ next' = Period /\ roundTime' = 0 /\ turns' = <<>> /\ writes' = <<>>
  /\ playing' = {} /\ body' = [p \in Player |-> Fresh] /\ enemy' = <<>>
  /\ listed' = [r \in Room |-> <<>>]
  /\ UNCHANGED disk

\* What the rooms may list, one order or another, when the enemies are e.
Lists(e) ==
  {l \in [Room -> UNION {SetToSeqs(Housed(e, r)) : r \in Room}] :
     \A r \in Room : l[r] \in SetToSeqs(Housed(e, r))}

\* GameLoop::Load and the databases; the rows arrive in any order, which is
\* the order of the rooms' lists.
Start ==
  /\ mode = "down"
  /\ mode' = "up" /\ clean' = FALSE /\ pc' = "lines"
  /\ now' = gameData.time /\ next' = gameData.next
  /\ body' = row /\ enemy' = enemyRow
  /\ listed' \in Lists(enemyRow)
  /\ UNCHANGED <<crashes, round, writes, playing, disk>>

Tick ==
  /\ mode # "down" /\ now < MaxClock
  /\ now' = now + 1
  /\ UNCHANGED <<process, pc, next, round, writes, world, disk>>

Next ==
  \/ \E p \in Player :
       Idle(p) \/ PlayerAttack(p) \/ Enter(p) \/ Quit(p) \/ Shutdown(p)
       \/ \E r \in Room : Move(p, r)
  \/ BeginLoop \/ Fight \/ EndRound \/ Regen \/ Heal \/ Save \/ EndSave
  \/ EndLoop \/ Commit \/ Halt \/ Crash \/ Start \/ Tick

Spec == Init /\ [][Next]_vars

-----------------------------------------------------------------------------
(* Properties. *)

\* Room::RemoveEnemy erases what find returns, and a round attacks out of the
\* database while players attack out of the lists: every enemy is listed once,
\* in its room and nowhere else, also after a crash in the middle of a save.
ListsNameEnemies ==
  mode # "down" =>
    \A r \in Room :
      /\ ToSet(listed[r]) = Housed(enemy, r)
      /\ Len(listed[r]) = Cardinality(ToSet(listed[r]))

\* A room never has more enemies than its maximum, over kills, spawns, reused
\* ids and restarts, as long as no crash has cut a save in two.
RoomsKeepMaximum ==
  crashes = 0 => \A r \in Room : Len(listed[r]) <= MaxEnemies[r]

\* No deadline is ever more than one period ahead of the game clock, whatever
\* file a crash has left: a timer never sleeps through a restart.
DeadlinesAreNear == mode # "down" => \A t \in Timers : next[t] <= now + Period[t]

\* Nobody waits longer for his next attack than his weapon takes, as long as
\* no crash has set the clock back behind the attack times in the tables.
NobodyIsLocked ==
  mode # "down" /\ crashes = 0 =>
    /\ \A p \in Player : body[p].ready <= now + PlayerSpeed
    /\ \A i \in DOMAIN enemy : enemy[i].ready <= now + EnemySpeed

\* A round leaves nobody it has hit at 0 hit points: who falls is brought back
\* in the same step.
TheFallenRise ==
  [][pc = "round" /\ pc' = "round" =>
       \A p \in Player : body'[p].hits < body[p].hits => body'[p].hits > 0]_vars

\* After a shutdown and a start the world is as it was: the same enemies under
\* the same ids, the same players and deadlines, and a clock that is not ahead of
\* the one that was stopped.
CleanRestart ==
  [][mode = "down" /\ mode' = "up" /\ clean =>
       enemy' = enemy /\ body' = body /\ next' = next /\ now' <= now]_vars

=============================================================================
