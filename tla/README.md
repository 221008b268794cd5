# Decay / SimpleMUD: a verification project in TLA+

Decay is a text MUD: a C++ server (`src/MUDGameProgramming`), a PostgreSQL
database and a Unity client. The server is a single thread that polls sockets,
runs one handler per received line, and saves to the database on that same
thread. Its difficulty is therefore not data races but the order of calls: the
handlers of one connection change the state of others, the passes of the main
loop walk the list that those handlers change, several pieces of state say the
same thing in different places, and every save is a series of transactions.

## 1. The system

All paths are below `src/MUDGameProgramming` unless they say otherwise; game
files are in `SimpleMUD/SimpleMUD`, socket files in `Libraries/SocketLib`.

| Component | State | Operations | Correct when |
|---|---|---|---|
| **Connection list** `ConnectionManager.h`, `Connection.h` | list of connections; each has a handler stack, a closed flag, send buffer, data rate | accept, `Listen`, `Send`, `CloseConnections`, close on flood or failure | whoever is told to close is gone after the passes; no pass steps on an erased node |
| **Handlers** `Logon.cpp`, `Game.cpp`, `Train.cpp`, `TutorialTrain.cpp` | logon state, account, errors, last command | `Handle`, `Enter`, `Leave`, `Hungup`, `Flooded` | stacks, flags and lists agree whatever ends the session |
| **Accounts** `PlayerDatabase.cpp`, `Player.cpp` | map of `Player`: logged-in and active flags, connection pointer, room, rank | add, log out, save, load, reload, kick, change rank | one session per account; offline accounts are saved |
| **Rooms** `Room.cpp`, `RoomDatabase.cpp` | player list, enemy list, items, money | enter, leave, move, add and remove items | lists agree with the handlers; no list is searched for what it lacks |
| **Inventories** `Player.cpp` | slots, a separate count, indexes of the armed items, money | pick up, drop, arm, disarm, use, buy, sell, die | indexes name what they should; count and slots agree enough |
| **Persistence** `PlayerDatabase.cpp`, `RoomDatabase.cpp`, `EnemyDatabase.cpp`, `Database/*.sql` | tables Player, Inventory, MapVolatile, MapVolatileGuardaItem, EnemyInstance, triggers | save and load, each in several transactions | what was saved is what is loaded; a crash between transactions does bounded harm |
| **Combat and enemies** `Game.cpp`, `Enemy.cpp`, `EnemyDatabase.cpp` | enemies by id, hit points, attack times | attack, kill, spawn, regenerate, heal, corruption | no attack without a victim; who is at 0 dies; rooms keep their maximum |
| **Game loop** `GameLoop.cpp` | game clock, four deadlines, `game.data` | round, regeneration, healing, save | deadlines advance by one period each and are never lost |
| **Entity ids** `EntityDatabase.h`, `DatabasePointer.*` | map id to entity | `FindOpenID`, search by full and partial name | the free id is the least one; who bears the whole name goes before who bears part of it |
| **Statistics** `Player.cpp`, `PlayerClass.h`, `Train.cpp` | base and derived attributes, level, class | `RecalculateStats`, `Train`, `SetClass` | recalculating changes nothing that did not change |
| **Flow control, Telnet** `Connection.h`, `Telnet.cpp` | bytes per 16 s chunk, time of the last send, unfinished line | receive, send, translate | floods end, slow clients live, lines are not split |
| **Friends, messages** `FriendManager.cpp`, `MessageManager.cpp` | requests and friendships per handler, table Friendship | request, accept, list, message | a request that was made can be accepted |
| **Unity client** `src/Unity Scripts` | reader thread, dispatcher queue, silent-stats flags | read, enqueue, run, write | each line that can be parsed is shown or hidden once, in order |

How they interact. `main` (`SimpleMUD.cpp:47`) repeats: the listening manager
accepts and gives the connection a `Logon` handler; `Listen` receives a block
of 1024 bytes and has `Telnet::Translate` call the *top* handler for every full
line; `Send` flushes buffers; `CloseConnections` erases who was told to close;
`GameLoop::Loop` runs rounds, regeneration, healing and saves. A handler
reaches other sessions through the account: `Player::Conn()` is a raw pointer to
a list node, `Handler()` its top handler. `Game::Enter` and `Leave` write the
rooms' lists and the flags; `PlayerDatabase::Logout` clears the pointer and
saves. The database is reached by a new connection for every save.

What is hard, in short: a takeover of a session in whatever state; a second
handler above `Game`; lines of the same block after `quit`; failing sockets in
the pass after; a name registered twice; the reload of a live object; a crash
between two transactions; counts and indexes kept apart from what they count.
`PROJECT.json` lists these hazards one by one with their lines, and the
properties that speak of each.

Left aside: `src/dyrt_19` is a third-party MUD kept for study, with its own
copy of gdbm, which the server neither builds nor calls. `docs`, `Logs` and
`AnalysisLogs` are texts and tool output. BasicLib, the socket wrappers and the
logs keep no state that a property could be about; ThreadLib is used to yield.

## 2. Modules

| Module | What it is |
|---|---|
| `Session` | connections, handler stacks, accounts, room lists, one thread |
| `Seats` | the abstract specification that `Session` implements |
| `SessionProofs` | theorems about `Session`: those that hold for any commands, and, when nobody uses `editstats`, that it implements `Seats` and that nobody leaves the game without his row |
| `MCSession` | the constants of the instances for TLC |
| `Belongings` | inventories, floors, stores, database rows, saves, crashes |
| `BelongingsProofs` | theorems about `Belongings` |
| `MCBelongings` | the constants of its instances |
| `Combat` | fights, enemies by id, the game clock and its deadlines, what is saved of them |
| `CombatProofs` | theorems about `Combat`, and about the algorithms of `Entities` |
| `MCCombat` | the constants of its instance, and beside it the inputs of those algorithms |
| `Entities` | the least free id and the search for a name, extended by `Combat` |
| `Stats`, `MCStats` | a player's attributes, hit points, level and class, and what the row keeps of them |
| `StatsProofs` | theorems about `Stats` |
| `Telnet` | the line editor, instantiated by `FlowControl`, with a definition of the lines typed that knows no editor |
| `FlowControl`, `MCFlowControl` | the data rate, the send buffer and its timeout on one connection |
| `Meter` | the abstract specification that `FlowControl` implements: an allowance per period |
| `FlowProofs` | theorems about `FlowControl` and the line editor |
| `Friends` | friend requests in the managers of the handlers |
| `FriendsProofs` | theorems about `Friends` |
| `Client` | the Unity client's two threads, its chat and its silent request |
| `ClientProofs` | theorems about `Client` |
| `Induction` | lemmas on which the proofs of `Belongings`, `Combat` and `FlowControl` rest: induction over numbers and over finite sets, folds, sums, sequences that list a set |

The proof modules are checked by TLAPS (`tlapm <module>.tla`).

### Session

`phase` and `cur` are the program counter of `main`: the pass that is running
and the connection its iterator stands on. A connection is numbered when it is
accepted; the list is only appended to and erased from, so list order is the
order of the numbers, and a number is never reused, as a pointer to an erased
node must stay recognisable. `mud` is everything the handlers share. A handler
calls methods of other objects, so a line of input is a composition of
operators on `mud`, each named after the method it translates (`GameLeave`,
`Logout`, `ClearHandlers`, `GotoGame`...), and an action (`Quit`, `Kick`,
`Login`, `Register`...) is one branch of a `Handle`. A block is `BeginReceive`,
any number of lines, `EndReceive`; flooding, failing to receive and failing to
send can happen wherever the code tests or catches them.

`mud.fault` records the first step that C++ leaves undefined: a null or erased
connection followed, a null handler called, `erase(end())`. The model stops
there; the invariants are also checked on those states, and
session_relog_in_training is about reaching one.

A stack is a bottom handler plus a number of training handlers. `Train` and
`TutorialTrain` are one: their handlers call the same methods. Texts, the
one-second sleep of `Game::Enter`, what a training handler edits, the commands
that change no session (see Belongings) and passwords (right or wrong) are
abstracted. Broadcasts to *active* players (`SendGame`) are not steps: they
follow pointers of active players only, which `ActiveIsLive` shows to be live.
Broadcasts to all who are *logged in* (`SendGlobal`, announcements) are steps,
since they can follow a dead pointer.

`Seats` is the promise: a connection waits, sits in one account's seat or is
gone; taking a seat evicts whoever sat there in the same step; nobody comes
back. The refinement mapping `SeatOf` reads the seat off the bottom handler.

### Belongings

Per player: the slots, `m_items` apart from them, the armed indexes, money. One
room stands for all, as each command works on the room its player stands in.
Items are of three kinds (weapons, armors, healings), a name of an item is the
item. A save is a queue of transactions, `job`: two per player (row, inventory)
and two per room (money, items); while it is not empty nothing else happens,
because the thread is in it, except that the process may die (`Crash`), or that
a transaction fails (`Fail`), which is logged and skips the rest of that
player's or the rooms' save. `Accepted` is the triggers on the table Player. A
load fills the slots in any order the database returns, beginning with slot 1
(the first element the array parser yields is the opening brace) and never
touches `m_items`. `Start` loads new objects; `Reload` loads over a live one.
After a crash `own` keeps what the dead process knew, so that properties can
compare it; `Start` overwrites it. `Wealth` is what all `Estate`s and the floor are
worth at store prices.

Parts of a condition that the code tests against the text of a line (is there such
an item, is there enough money) are guards; an early return with only a message
is no step.

### Combat

`pc` is where `main` is in `GameLoop::Loop`, whose four tests run in the order
round, regeneration, healing, save and each read the clock anew, so `Tick` can
come between any two steps. A round takes one enemy per step (`Fight`, `turns`) and
compares attack times with the clock of its start (`roundTime`), while
`EnemyAttack` sets them from the clock as it is then. A save takes one row per
step (`Commit`, `writes`); opening `game.data` empties it first, so that a crash
may leave no clock at all. `enemy` is the `EnemyDatabase`, a function on the ids in
use; `listed` is what rooms list, kept apart from it, in the order in which spawns or
the database brought them (`SpawnedIn`, `Lists`). Ids are drawn by `FindOpenID` and have
no bound. `EndLoop` with `mode = "stopping"` is the end of
`main`: the connections go first, each logging its player out, then the game
loop, which saves.

Accuracy, dodging and absorption are the choice between a miss and a hit of any
amount in `Damage`. All enemies are of one kind, and so are the weapons.
Corruption is taken from the sender of every line before it is handled
(`Eroded`), and nothing looks whether he is at 0 then: `TheFallenRise` is about
the rounds only. Experience is left out; the money and the items of a death or a
kill are in `Belongings`, and healing items are there without hit points. Who
stands in a room is read off the players, which is what
`RosterMatchesHandlers` shows of `Session`'s lists.

### Entities

`FindOpenID(Ids)` is the loop of `EntityDatabase.h` as a recursive function over the
iterator's position; the property compares it with the least free id for every set of
ids up to `MaxEntities` = 6. The code has no test for the end of the map; the model answers 0
there, so that the property would see it.

`Match` is `Entity::Match`: does a word of this name begin with the text? It searches
the text from each place on and looks whether a space is in front of it. `DoubleFind` is
`double_find_if`, one pass over the entities for the whole name (`MatchFull`) and one
with `Match`, each over the entities that qualify (who is logged in, who plays).
`Reaches` says what is promised, from the words of the names and without passes: whoever
bears the whole name is reached, else the first with a word that begins so, else
nobody. Names and texts are sequences of characters in one case, as both sides are
lowered first.

`Combat` extends the module and draws the ids of spawned enemies by `FindOpenID`.
`MCCombat` tries both algorithms beside the game: its variable `trial` is an arbitrary
small input, chosen at the start and never changed (a set of ids; or two names, a text,
and which of the two qualify), and the two properties are invariants about it.

### Stats

One player as `me`, the row as `row`. `RecalculateStats` is translated statement by
statement as a function on the player, as the order is what matters: derived attributes
are computed from attributes that still carry what earlier calls added, the hit points
are cut before the class and the items are added, and only six of the nine
derived attributes start anew (Player.cpp:78-86), the other three and the base ones
keep what was added. `me.attributes` is therefore a cache with a memory. `CacheIsCurrent`
says that what is visible of it follows from base attributes, level, class, the worn
items and what items left behind; `LostOnlyByRestart` that class and left-behind bonuses
go away by a restart and by nothing else. Doubles are integer fractions: for levels
below 15 and attributes below 90 both give the same integers. Every save succeeds
here, as in `Session`: what a refused one leaves behind is in `Belongings`.
`StatsAssumption` asks for
items without penalties and healing items that raise no primary attribute or maximum,
which holds for the shipped table.

### Flow control and Telnet

One connection is followed through the passes, while the clock ticks between any two
steps. The code compares times of the wall clock; the model keeps what the comparisons
can tell: where in the chunk the clock is, whether the stamp lies in this chunk
(`fresh`), how long ago the last send was (`sendAge`); for the properties, the bytes
read in each of the last seconds (`bytes`). `Telnet` is the line editor on bytes of four
kinds: a fold over the input. Beside it stands a definition of what was typed without
any editor: a byte is `Kept` when every stretch of the same line that begins right after
it has at least as many printable bytes as backspaces, and a line is what is kept
between two newlines (`LineAt`). The two agree on inputs that never meet a full line
(`Fits`); `MCFlowControl` tries that on short inputs, beside the connection. A crashed
client (`gone`) sends and reads nothing and closes nothing, as one whose host lost
power. `Meter` is the promise in two lines: a period has an allowance, and the read that
exceeds it is the last. In the code nothing happens when a period ends: the count is
cleared by the first read of a later one. The refinement mapping is `used <- IF fresh
THEN rate ELSE 0`.

`m_lastdatarate`, `GetLastReceiveTime` and `GetCreationTime` are never read and not
modelled (the creation time is in milliseconds where its comment says seconds).

### Friends

Every `Game` handler has its own `FriendManager`, with a null database
connection from the default constructor. `pending[p]` and `friends[p]` are those
of the manager of p's handler, which lies under the training screen and is gone with
the handler. A self-accepted request is the one that is found: `AcceptFriend` makes it a
friendship in memory, and before the thread does anything else `AddFriendshipToDB` goes
through the null connection (`saving`): `Fault` ends the process.

### Client

The reader thread, the main thread and the server, as far as its answers differ for the
client, share nothing but the stream of lines `wire`, the dispatcher's queue, the writer
and `pendingSilentStats`. A line has a kind (what the texts `Your Stats`, `---`, an
empty line or `has entered` make of it) and, for the properties only, who asked for it.
In the game each message is followed by a status bar without a line end, so that the
header of the statistics never starts with dashes; on the training screen it does, which
ends the hidden block with its first line. A write takes two steps; when writes overlap,
what arrives is the command, nothing, the command twice or noise, or the write throws.
The dispatcher's `Update` runs all queued lines under its lock; the model runs one per
step, since a frame may end after any of them.

`SendMessageToChat` first runs the parsers of the bars and labels. They convert with
`int.Parse`, the one for labels whatever the label is, so that a line like
`Bob chats: 11987654321` throws (`Throws`). Nobody catches: the
dispatcher has dequeued the line by then and its frame ends, so the line is neither shown
nor hidden and, when a silent answer is awaited or being hidden, leaves that as it was
(`Lose`). For a line typed here the command has been sent by then and the text stays in
the input field. The values the parsers do read are left out.

`log` is a history of what the chat was given and of each line's fate. The properties
speak of it by index: the entries `Received` from the server, those `Hidden`, `Shown` and
`Lost`, and of the `Rank` of an entry among them, which is its line's place on the wire
or in the chat (`HoldsTheEnd`).

The user types one of seven inputs at any moment, `quit` (out of training, or out of the
game) and a long number among them; other players enter, quote the header and chat a
long number. `Init` is the moment when the password has been typed. Newcomers, who
are never told of a recovered session and begin on the training screen, are the other
initial state. The server ends with the session; that the reader polls the closed stream
from then on is left out.

## 3. What is checked

`tlc -config <cfg> <module>`; every instance is exhausted.

| Run | Instance | States | Shows |
|---|---|---|---|
| session_hazards | 3 connections, 2 accounts (1 known), quit kick announce changerank editstats | 523 983 | With everything that goes wrong included: room lists are exactly what the handlers say, an active player's connection is live, a pointer never leads to another account's connection, nobody told to close survives the passes |
| session_admin | 3 connections, 2 at a time, 2 rooms, 2 accounts (1 known); quit kick reload move shutdown, a failing accept, fairness | 109 777 | Without `editstats`: a connection that is read owns its account, active means listed in a room, `Seats` is implemented; room lists stay exact over moves, deaths, reloads, a full server and the destructors; who is offline has his room in the table; a playing session that was told to end ends |
| belongings_trade | 2 players, 3 slots, floor of 2, knife and potion for sale | 28 159 | Wealth comes from kills only, and goes by healing and overflow only; nothing that players own is lost in a trade, a fight or a death |
| belongings_restart | 1 player, knife and jacket, crashes anywhere | 234 346 | Armed indexes stay on a weapon and an armor, offline players are durable, clean restarts keep the kinds of items and what is armed |
| belongings_failures | 1 player, knife and potion, failures, crashes, 2 reloads | 2 325 336 | The count never exceeds the slots in use: the death lottery ends |
| combat_fights | 1 player, 2 rooms with 1 enemy each, corruption in one, clock to 2, a crash anywhere; ids up to 6, two names of up to 4 and 2 characters | 2 318 765 | Every enemy is listed once and in its room, rooms keep their maximum and nobody waits longer than his weapon takes until a crash, deadlines stay near even then, a hit of a round leaves nobody at 0, a clean restart brings back the same world; ids are the least free ones, a search reaches the bearer of the whole name before any other |
| wire | 1 connection, chunks of 2 s, 1 byte a second, reads of 2, timeout 1 s; the editor alone on all inputs of 6 bytes | 501 182 | `Meter` is implemented, two allowances bound any burst, a cut-off for silence is deserved, a crashed client is dropped, lines are what was typed |
| stats | 1 player, a baton, a jacket and a potion of the item table, a class, 2 levels, crashes and restarts | 236 132 | Hit points stay in range, the cache is current, growth is accounted for, the row is current, only a restart takes away |
| client | 1 input and 1 message of others at any moment, chat of 3 lines, queue of 2, a server that sends more when at most one line is unread | 563 979 | No line lost or overtaken on its way to the chat but those with a number too long to parse, one hidden stretch, the silent answer hidden unless interrupted, both threads catch up |

Three runs show a disagreement between the code and what it says of itself; each
has one property and is expected to fail.

| Run | Property | What happens |
|---|---|---|
| session_relog_in_training | `RelogSurvives` | Logging in while one's older session is training: its `Hungup` is `Logout`, which nulls the pointer that the next line of `GotoGame` follows |
| belongings_unsaved | `LogoutSaves` | A crash between the two transactions of a save, and a later reload, leave an armor index on another item; the trigger then refuses every save of that player |
| friends | `AnsweredAreFriends` | A request stays in the manager of the handler that sent it; the accepter looks in his own, finds nothing, and no friendship begins |

Met on the way, modelled, and without a run of their own:

- Two newcomers choose one name (`NameFree`, then `Register` twice): `AddPlayer` refuses
  the second, `Logon` does not look at the refusal, and he enters the first one's
  account with a password of his own (Logon.cpp:132).
- `quit` and `editstats` in one block leave a training handler on a logged-out
  connection, whose end logs out the *next* session of the account; a third login
  then plays next to it (Game.cpp:229). When the account then moves, the rooms' lists
  no longer agree with the handlers: TLC finds a trace of `RosterMatchesHandlers` with
  `quit`, `editstats` and `move`. session_hazards therefore has `editstats` and nobody
  moves; session_admin has `move` and `reload` and no `editstats`.
- Loaded items are not counted in `m_items`, so that after a start the search for a
  free slot can run past the inventory (`fault = "overrun"`, Player.cpp:384 and 156).
- An accept that fails, or a refused newcomer who cannot be told so, ends the server
  (`AcceptFails`): the destructors save everyone, but nobody is told.
- A client may send two allowances back to back, at the end of one chunk and at the
  beginning of the next, and gets a new allowance by reconnecting; all lines of the
  block that floods are handled before the rate is tested. A crashed client with
  half a line typed and no messages waiting is never ended, as status bars are not
  sent over a half-typed line; `CrashedAreDropped` says so in its condition.
- A class is lost at a restart although `DDL.sql:157` has a column for it and
  Player.cpp:42 says that it cannot be changed. Arming an item when another is worn
  recalculates twice, so that primary bonuses are added twice. A player who is
  reloaded from an older row can have a class below the level it needs.
- `acceptfriend` with one's own name, after `addfriend` with it, reaches the null
  connection and ends the process.
- While the client waits for its silent answer, a line that quotes `Your Stats`, or
  the answer to a `stats` typed by the user, is hidden in its place; a blank or dashed
  line typed in the middle ends the hiding, and the rest of the answer shows. What
  the user types inside the block is hidden too. After the server has closed the
  stream, `ReadLine` returns null and the reader polls every 20 ms without an end.
- A line with a label and a number that no `int` holds never reaches the chat of any
  client (GameManager.cs:473): the parsers throw after the dispatcher has dequeued it.
  When the user typed it himself, it was sent, is not echoed, and stays in the input
  field, so that Return sends it again. `OnlyNumbersAreLost` is what holds.
- A typed name reaches another player whose name begins with it once the one who
  bears it is gone (PlayerDatabase.h:51): `kick bo`, with bo just logged out, kicks bob.
- A player kicked while training stays logged in with a pointer to an erased
  connection (`Train::Leave` is empty and the `Game` below it never hears of the
  end). With `kick` among the commands that is another way to `RelogSurvives`.
- A taken-over connection keeps its place in the list with an empty stack until
  the close pass; when its socket fails in that round, `Handler()->Hungup()` is a
  call on null (`mud.fault = "null handler"`).
- A crash that leaves an older clock than the rows (the rows of a save follow the
  clock, and logouts save later still) locks players and enemies out of attacking
  until the clock has caught up; a crash between emptying and writing `game.data`
  sets it to 0. A crash before `RemoveDeadEnemies` leaves dead enemies in the table,
  so that a room comes back with more than its maximum. `NobodyIsLocked` and
  `RoomsKeepMaximum` therefore speak of the time before the first crash.
- `DumpSQL` writes 100 as everyone's money (`SavedMoney`), and saves an inventory as
  a *set* of ids (`InventoryRows`), so two items of a kind come back as one;
  `docs/Requirements/introspection.md:35` expects items and money to persist.
  `KindsSurvive` is what holds instead.

### The bounds

- Accounts: two, as all interference is between a session and at most one other
  account (kick, rename race, announcements); two connections of one account and
  one of another need three connections. The third in session_admin is refused
  or arrives after a close. `MaxOpen` = 2 there makes the manager full.
- `MaxErrors` = 1: the code's 5 only delays the same branch. `MaxTrains` = 1: a
  second training handler can be pushed only by another connection of the account,
  and its top looks like the first. `NewRanks` = {GOD}: the rank that can kick
  and be kicked but not announce. Both bounds are parameters
  of the proofs, which hold for all of them.
- Two rooms are enough to be in the wrong one. The start room is a training room.
- `PlayerItems` = 3 for at most two kinds of items: the code has 16 slots and
  the shipped table 11 kinds (DML.sql:5), and a row (one entry per kind) never fills the slots;
  `BelongingsAssumption` says so. `RoomItems` = 2 lets the floor overflow with
  `MaxItems` = 3 or 4 items in the world. `DeathShare` = 2 (10 in the code) lets
  small sums lose something.
- `MaxReloads` = 2: one to load a stale row, one more over what came of it.
- `MaxClock` = 2 with a period of 1 for regeneration and healing and 2 for rounds
  and saves: deadlines fall due one at a time and together, are missed by one
  period and caught up with, and the clock goes back by up to 2 in a crash.
  Players have 2 hit points and hits take 1, so that a player is struck down both
  from 1 and, after corruption, from 0. Two enemies are enough for ids to be freed
  and reused in another room; after a crash, rows of two generations meet. One
  player: players do not touch each other in a fight, and the choice of the one
  attacked is covered by the proof. `MaxCrashes` = 1; with 3 the
  instance has 8 051 376 states and holds as well.
- wire: chunks of 2 seconds, a rate of 1 and reads of up to 2 bytes give an
  allowance of 3, so that it is met exactly, exceeded by one and by two, in one read
  or several, in one chunk or across two. Timeout, heal time and `MaxBuffered` of 1
  and a `Backlog` of 2 let each limit be met and passed. Six bytes fill a line
  buffer of 2, overflow it, and take backspaces and newlines on both sides. There is one
  printable byte, as every line buffer multiplies the states of the connection; that the
  bytes of a line keep their order is proved for any of them (`EditorGivesWhatIsTyped`).
- stats: two levels with the class from the second; one amount of damage that
  strikes down and one less than the maximum; `MaxBonus`, `MaxBase`, `MaxExp`
  end the growth. All are parameters of the proofs.
- client: one input and one message of others meet every moment of the silent
  request; `MaxMessages` = 3 is shorter than the answer, `MaxQueue` = 2 lets lines
  wait. Two inputs exceed three million states. `MaxAhead` = 1 holds the server back
  while more than one line is unread. The client learns of the server by reading only, so
  that it cannot tell this one from a server far ahead; commands wait in `inbox` in the
  order in which they were written.
- Deeds are split over runs: each run has those that can disturb its
  properties. `crash` and `reload` together break `ArmedIsHeld` (that is the run
  belongings_unsaved), so the run that shows it has crashes and no reload.

`CHECK_DEADLOCK FALSE` stands where the system may stop: after a shutdown, at an
undefined step, at the bound on connections or on what is typed (client).
belongings_trade, combat_fights, wire and stats have no such end and check for
deadlock.

### Fairness

`FairSpec` is weak fairness of `PassStep`, the steps the main loop takes by
itself (next connection, end of a pass, end of a block). The loop of `main` waits
for nobody: sockets do not block, `select` has a zero timeout, and a block of 1024
bytes has a last line. No fairness is assumed of clients or sockets. It is enough
for `ClosedEnds`, whose consequent allows a fault, as the server may then be dead.

In `FlowControl`, weak fairness of `Pass` (the same loop) and of `Tick`: time goes on.
Nothing is assumed of the client. In `Client`, weak fairness of the reader's steps and
of the frames of the main thread: a thread and Unity's frame loop keep running;
nothing is assumed of the user, the server or other players.

## 4. What is proved

Every safety property of a passing run is a theorem as well, for every value of the
constants that the module's `ASSUME` admits: sets of accounts, players, rooms and items,
periods, limits and all the bounds of the instances. Where a theorem needs that a
command is not used, it says so as a hypothesis, and the run that checks the same
property leaves the same command out. The names in brackets are the properties of the
runs.

| Module | Theorem | States |
|---|---|---|
| `SessionProofs` | `TypeCorrect` | `Spec => []TypeOK` |
| | `PointersNeverCross` | `Spec => []ConnectionServesAccount` |
| | `ActiveAlwaysLive` | `Spec => []ActiveIsLive` |
| | `AlwaysSwept` | `Spec => []ClosedAreSwept` |
| | `RostersMatch` | without `editstats`: `Spec => []RosterMatchesHandlers` |
| | `ServedOwns` | likewise: `Spec => []ServedOwnsAccount` |
| | `WorldAgrees` | likewise: `Spec => []InWorldIffActive` |
| | `SeatsImplemented` | likewise, and no account is called like a state of `Seats`: `Spec => ImplementsSeats` |
| | `NobodyLeavesUnsaved` | likewise: `Spec => []OfflineIsSaved` |
| `BelongingsProofs` | `BelongingsTypeCorrect` | `Spec => []TypeOK` |
| | `DrawsEnd` | `Spec => []CountIsCovered` |
| | `WealthIsEarned` | `Spec => NoFreeWealth` |
| | `WealthIsKept` | `Spec => NothingIsLost` |
| | `ArmsStayHeld` | without `reload`: `Spec => []ArmedIsHeld` |
| | `LogoutsAreDurable` | without `reload` and `fail`: `Spec => []OfflineIsDurable` |
| | `KindsAreKept` | without `reload` and `fail`: `Spec => KindsSurvive` |
| `CombatProofs` | `CombatTypeCorrect` | `Spec => []TypeOK` |
| | `ListsAndTableAgree` | `Spec => []ListsNameEnemies` |
| | `MaximaAreKept` | `Spec => []RoomsKeepMaximum` |
| | `DeadlinesStayNear` | `Spec => []DeadlinesAreNear` |
| | `AttackTimesAreNear` | `Spec => []NobodyIsLocked` |
| | `HitsNeverLeaveTheDead` | `Spec => TheFallenRise` |
| | `ShutdownKeepsTheWorld` | `Spec => CleanRestart` |
| | `OpenIdsAreLeastFree` | `TrialSpec => []OpenIdIsLeastFree`, from a lemma about every finite set of ids |
| | `SearchesAreByName` | `TrialSpec => []SearchIsByName`, from a lemma about all databases, names and texts |
| `FlowProofs` | `FlowTypeCorrect` | `Spec => []TypeOK` |
| | `FlowImplementsMeter` | `Spec => ImplementsMeter` |
| | `SurvivorsWithinAllowance` | `Spec => []Meter!WithinAllowance` |
| | `BurstsAreBounded` | `Spec => []BurstBound` |
| | `CutOffsAreDeserved` | `Spec => TimeoutIsDeserved` |
| | `EditorGivesWhatIsTyped` | the editor's output is what was typed, for all sequences of bytes |
| | `TrialsGiveWhatIsTyped` | hence `TrialSpec => []LinesAreTyped` |
| `StatsProofs` | `TypesAreKept` | `Spec => []TypeOK` |
| | `HitPointsInRange` | `Spec => []HitsInRange` |
| | `GrowthIsKept` | `Spec => []GrowthIsAccounted` |
| | `RowsAreCurrent` | `Spec => []RowIsCurrent` |
| | `OnlyRestartsTake` | `Spec => LostOnlyByRestart` |
| | `CacheStaysCurrent` | `Spec => []CacheIsCurrent` |
| `ClientProofs` | `ClientTypeCorrect` | `Spec => [](TypeOK /\ Busy)` |
| | `NoOtherLineIsLost` | `Spec => []OnlyNumbersAreLost` |
| | `OneStretchIsHidden` | `Spec => []HidesOneStretch` |
| | `AnswersStayHidden` | `Spec => []SilentAnswerIsHidden` |
| `FriendsProofs` | `FriendshipNeverBegins` | no friendship of two players ever begins, in a list or in the table |
| | `OnlySelfAcceptanceEnds` | only who accepts his own request reaches the null connection |

### Session

`ConnectionServesAccount` and `ActiveIsLive` are not inductive. A takeover empties
the stack of a connection that stays in the list, a logout nulls a pointer under
a handler that stays, a training handler hides the `Game` below it; so the
invariant has to say which handlers a connection can have given its logon state,
that an erased connection has none, that a pointer to a listed connection leads to
one taken by that account and no longer at its logon, and that no pointer runs
ahead of the connections accepted so far (else a fresh connection would inherit
a dangling pointer). These are `HandlersServe`, `PointersServe` and `Born`; with
the types they are `Good(m, k)`, and `IInv` adds that a block is being received
from a listed connection. TLC's runs agree with each part.

A line of input runs a chain of methods, so the proof has a lemma for every
method: it takes a `Good` record to a `Good` record, and names in a frame what it
leaves alone. The lemmas fall into groups: methods that change nothing `Good`
reads (`SameSession`), those that only withdraw flags and pointers (`Retreat`),
those that take handlers away, and those that push or switch them. One step per
action of `Next` composes them. `AlwaysSwept` has an invariant of its own: during
the close pass every connection the iterator has passed is open and not closed.

The other five hold for every instance in which `editstats` is not among the
`Commands`. That command pushes a training handler on a connection that plays, with
the list and the flag in a state that a second login or a hang-up then meets (runs
`session_hazards` and `session_relog_in_training`); the training of a newcomer, the
same handler, is included. `Seated` strengthens `Good`: every connection past its logon owns
its account (`Owners`) and the lists are what the flags say (`Listed`). It holds between
steps only: a takeover logs a player out under a stack that is still there, and a receive
error tells a connection to close that is still at its logon. So the lemmas say what a
method leaves (`Left`, `Vacated`, `Evicted`) if it does not fault, and the step lemmas
compose them; a step that faults changes nothing but the fault. Two facts carry
it: nobody told to close is still at his logon with a chance to answer, or a newcomer
would be logged out while he is pushed into training; and `reload player` on a closing
connection always ends at the null pointer. For `NobodyLeavesUnsaved` every method keeps
the relation `Saves`: whoever is logged off afterwards has been saved where he stands or
is as he was. `ChangeRoom` keeps it only for somebody who is logged on, and that is what
`Seated` is needed for.

### Belongings

The lemmas follow the methods of `Player`: `PickUpItem` adds one slot and one to the
count, `DropItem` takes one of each and disarms, `ParseRow` fills slots and counts
nothing. `Sound` (types and `Covered`) is inductive for all deeds, `AllArms` without
`reload`, `RestTyped` types the rest of the state and says of a queue of writes that its
last is never the first of a pair, which is what `Fail` relies on.

`Durable` is the strengthening for `LogoutsAreDurable`: an offline player's row has his
items, or the queue of writes is what his logout left of it; the trigger cannot refuse
the first of them because of `ArmedIsHeld`, which is why `reload` is excluded.
`KindsAreKept` has `ToBeSaved`: from the shutdown command on, each row is as its player
is, or the write that makes it so still waits in the queue. A load fills as many slots
as the row has items, whatever their order, and arms the one that the row names
(`LoadedHands`).

`WealthIsEarned` and `WealthIsKept` need no invariant but the types; their work is in
sums. Each command is shown `Fair`: wealth stays as it is, or shrinks by something used
up or a full floor. A command changes the worth of one slot, of one end of the floor or
of one player's money, and `SumChange`, `SumWithout` and the like (in `Induction`) say
what that does to a sum.

### Combat

`CombatInv` has five parts. A deadline is moved after the work it announced, so
`ClockInv` carries that a round or a save under way was due, and that the file satisfies
what the memory does, the empty file included. `BodyInv` types bodies and rows: 70% of
the maximum is above 0 only because the maximum is at least 2, and stays so through
every load. `WorldInv` says that each list names just the enemies of its room, each once
(`WorldOK`), that those are finitely many, and that a round only waits for enemies in
the table; a load may list them in any order. `SavedInv` is about the last save: every
row is as the memory is, or the write that makes it so still waits (`LastSave`); the
clock is first emptied and then written; and whatever ends cleanly has nothing waiting.
`LockInv` says that nobody's attack time is further than his weapon's speed ahead of the
clock, of the memory and, after a clean end, of the file. It is claimed only up to the
first crash, and so is `MaximumInv`, as the findings above say why.

`FindOpenID` walks a recursive function; `OpenFrom` says what it answers from each position
on, proved by a minimal position for which it does not. `Match` is a recursive function over
the passes, likewise (`WordFrom`): it finds the beginnings of words (`MatchIsPrefix`), a
whole name among them (`WholeNameMatches`), and with that the two passes over the
entities give what `Reaches` says (`SearchReaches`).

### Flow control and Telnet

The refinement needs one lemma of arithmetic, `AverageAndSum`: the code divides
the count by the chunk and compares with the limit, `Meter` compares the count
with `Allowance`, and the two agree for integer division. `CutOffsAreDeserved` rests on
`WaitingIsUnread`: while data waits, the client has read nothing since the last send.

`BurstBound` is not inductive: it says nothing of where the bytes fell. `Metering` says
that the bytes of this chunk's seconds are what the code counted, at most one allowance, and
that those of the last `Chunk` seconds are at most one allowance more; when the
chunk ends, the first becomes the bound of the second.

For the editor, the lemma `TranslateEdits` unfolds the fold into a run of states, one
per byte, and `Edited` is an invariant over the bytes read so far: the line being typed
lists the kept bytes since the last newline, in increasing order, and the output lists
the nonempty lines. What makes it inductive is `Balance`: behind each byte of the line,
as many more bytes were typed than erased as follow it in the line, so that one more
backspace takes the last one. `Roomy` is the second half, that no line is empty or
longer than the buffer, for inputs that overflow it as well.

### Stats

Growth is accounted for in memory and in the table each by itself, since a reload or
a restart may set the one to the other (`IInv`). That hit points stay within a
maximum that is recomputed from a cache needs `Keeps`: what is cached never becomes
less while the process runs. That gives a lemma per method, and `StepKeeps` composes them.
`CacheStaysCurrent` needs no more than that a recalculation makes any player's cache
current (`RecalculateCached`) and that every other method leaves alone what it is made of.

### Client

Three invariants, each on top of the one before. `OrderInv`: the lines read are those in
the log, then those in the queue, then the one the reader works on (`InOrder`), the
chat holds the end of what was shown, and what was lost are numbers (`ChatInv`). `RequestInv` adds `OneRequest`: the silent request
is made once, before anything is hidden, so that what is hidden is one stretch and being
inside it means that the last entry was hidden. `AnswerInv` adds `SilentInv`: what is
asked silently is `stats`, or what a garbled write made of it (`SilentOrders`); its
answer's lines come header, body, footer (`AnswersInWire`); and as long as nothing but
the one answer was hidden, the flag is still set before the header and the chat still
hides after it (`Answered`).

### Friends

A manager only ever holds the requests of its owner, while an acceptance looks in the
accepter's. So the only friendship under way is that of a player with himself, which is
being saved, and both theorems follow.

### Induction, and what is out of reach

The library's induction theorems take a predicate as a parameter, which the installed
provers cannot instantiate. `Induction` states the same as facts about sets: a set of
numbers that contains 0 and every successor is all of them (`NumbersByStep`), a nonempty
family of subsets of a finite set has a minimal member (`MinimalSubset`). With them the
fold of the community modules unfolds (`FoldExists`), and with it sums (`SumElement`),
the order of `SetToSeqs` (`OrderIsListing`) and `FoldLeft` over an input can be reasoned
about. The models therefore use recursive functions, folds, index sets and
comprehensions, and neither RECURSIVE operators nor `SelectSeq` and `SortSeq`, whose
definitions the provers do not unfold.

Only model-checked:

- Liveness, and with it ENABLED, is outside the prover's reach: `ClosedEnds`,
  `CrashedAreDropped` and `CatchesUp`.
- `RosterMatchesHandlers` with `editstats` among the commands (session_hazards). What else
  `SessionProofs` proves without it is neither proved nor checked with it.
- The three disagreements are counterexamples and nothing to prove, though
  `FriendshipNeverBegins` proves for all players what the run friends shows for one
  instance.

## 5. Not modelled

- `src/dyrt_19` (Dyrt, a MUD in C, with a copy of gdbm): kept for study, neither built
  nor called by Decay. It is most of the lines of the repository.
- Loading of static tables (stores, items, enemy and room templates): read once
  at the start, with no state of their own afterwards. What of them a model depends on is
  a constant.
- BasicLib, ThreadLib, the loggers, the socket wrappers and the error tables: they pass
  calls on. What their errors do is in the models (`AcceptFails`, `Disconnect`,
  `SendFails`, `Crash`).
- Texts, colours and logs; the values the client's parsers put into bars and labels. The
  lines on which they throw are modelled.
- The client's own connection failures: a `ReadLine` that returns null or throws (the
  outer catch of `ListenForMessages`), and a write to a closed connection.
- A refused save (PlayerDatabase.cpp:112 logs and forgets it) in `Session` and `Stats`,
  whose saves succeed: what it does to the rows is modelled in `Belongings`, and
  `OfflineIsSaved` and `RowIsCurrent` hold for a database that accepts them.
- An exception that a handler throws in the middle of a block (`get $x`: an amount that is
  no number, BasicLibString.h:41) as a step of its own: `Listen` catches it and ends the
  connection, as `Flooding` does in `Session` after any line of the block. Belongings
  are as they were then, so `Belongings` has no step for it.
- `FriendManager::RemoveFriend` and `LoadFriendsFromDB`: without callers.
  `MessageManager`: keeps nothing and passes a text on.
- What several saves of players and rooms lose together when the process dies between
  them (RoomDatabase.cpp:118): an item dropped shortly before is in both places or
  in neither. Nothing in the code promises otherwise.

## 6. What is left

- A proof of `RosterMatchesHandlers` with `editstats` and without `move`, as
  session_hazards checks it (with both it is false): it needs an invariant for handlers
  that are pushed on a stack whose connection is already to be closed.
- Several rooms in `Belongings`, and a crash between the writes of two rooms.
- One model of sessions and belongings together: a takeover while a save is under way is in
  each of the two modules from its own side only.
