------------------------------ MODULE Session ------------------------------
(***************************************************************************)
(* The session core of the SimpleMUD server: the connection list of        *)
(* SocketLib's ConnectionManager, the stack of protocol handlers of every  *)
(* connection (Logon, Game, Train), the login state of every account in    *)
(* PlayerDatabase and the player lists of the rooms.                       *)
(*                                                                         *)
(* The server is one thread.  main() repeats                               *)
(*     accept -> listen -> send -> close -> loop                           *)
(* and the passes listen, send and close walk the connection list with an  *)
(* iterator, so the nondeterminism is which sockets have data, what the    *)
(* lines say, and which sockets fail.  A connection is named by the order  *)
(* of its arrival: the list is appended to and erased from, never          *)
(* reordered, so the list order is the order of the names.                 *)
(*                                                                         *)
(* The handlers call each other through shared objects, so what a line     *)
(* does is written as a composition of operators on one record, `mud',     *)
(* each the translation of one method.  A step of the C++ program that has *)
(* no defined result (a null or dangling pointer, erase(end())) sets       *)
(* mud.fault; nothing happens after it.                                    *)
(***************************************************************************)
EXTENDS Naturals, FiniteSets

CONSTANTS
  Account,       \* the acceptable account names
  Known,         \* the accounts already in the player table at start-up
  StartRank,     \* their ranks
  Room,          \* the rooms of the map
  StartRoom,     \* room 1, where characters are born and reborn
  TrainingRoom,  \* the rooms of type TRAININGROOM
  Exit,          \* the pairs of adjacent rooms
  Commands,      \* the Game commands that clients use
  NewRanks,      \* the ranks that changerank gives
  MaxConn,       \* bound: connections accepted in one run of the server
  MaxOpen,       \* MAX of SocketSet.h: connections the manager can hold
  MaxErrors,     \* wrong answers the logon handler takes (5 in the code)
  MaxTrains      \* bound: training handlers stacked on one connection

GameCommands == {"quit", "kick", "announce", "changerank", "reload",
                 "shutdown", "move", "editstats"}

\* PlayerRank of Attributes.h.
REGULAR == 0
GOD == 1
ADMIN == 2
Rank == REGULAR .. ADMIN

Conn == 1 .. MaxConn
NoConn == 0                 \* the null Connection pointer
NoAccount == "no account"

ASSUME ConstantsAssumption ==
  /\ Known \subseteq Account /\ StartRank \in [Account -> Rank]
  /\ NoAccount \notin Account
  /\ StartRoom \in Room /\ TrainingRoom \subseteq Room
  /\ Exit \subseteq Room \X Room
  /\ Commands \subseteq GameCommands /\ NewRanks \subseteq Rank
  /\ MaxConn \in Nat /\ MaxOpen \in Nat /\ MaxErrors \in Nat /\ MaxTrains \in Nat

VARIABLES
  phase,    \* what the main loop is doing
  cur,      \* the connection the pass iterator stands on; 0 before the first
  arrived,  \* connections accepted so far
  running,  \* Game::s_running
  mud       \* the connections, accounts and rooms

vars == <<phase, cur, arrived, running, mud>>

Phase == {"accept", "listen", "receive", "send", "close", "loop", "destroy", "down"}
LogonState == {"NEWCONNECTION", "NEWUSER", "ENTERNEWPASS", "ENTERPASS"}
Fault == {"none", "null connection", "dangling connection", "null handler",
          "erase end"}

\* A handler stack is its bottom handler and the training handlers above it;
\* base "none" is the empty stack.
Mud ==
  [open : SUBSET Conn,
   base : [Conn -> {"none", "Logon", "Game"}],
   trains : [Conn -> Nat],
   closed : [Conn -> BOOLEAN],
   logon : [Conn -> LogonState],
   errors : [Conn -> 0 .. MaxErrors],
   user : [Conn -> Account \cup {NoAccount}],
   registered : SUBSET Account,
   rank : [Account -> Rank],
   conn : [Account -> Conn \cup {NoConn}],
   loggedIn : [Account -> BOOLEAN],
   active : [Account -> BOOLEAN],
   room : [Account -> Room],
   saved : [Account -> [room : Room, rank : Rank]],
   roster : [Room -> [Account -> Nat]],
   fault : Fault]

TypeOK ==
  /\ phase \in Phase /\ cur \in 0 .. MaxConn
  /\ arrived \in 0 .. MaxConn /\ running \in BOOLEAN
  /\ mud \in Mud

Init ==
  /\ phase = "accept" /\ cur = 0 /\ arrived = 0 /\ running = TRUE
  /\ mud = [open |-> {},
            base |-> [c \in Conn |-> "none"],
            trains |-> [c \in Conn |-> 0],
            closed |-> [c \in Conn |-> FALSE],
            logon |-> [c \in Conn |-> "NEWCONNECTION"],
            errors |-> [c \in Conn |-> 0],
            user |-> [c \in Conn |-> NoAccount],
            registered |-> Known,
            rank |-> StartRank,
            conn |-> [p \in Account |-> NoConn],
            loggedIn |-> [p \in Account |-> FALSE],
            active |-> [p \in Account |-> FALSE],
            room |-> [p \in Account |-> StartRoom],
            saved |-> [p \in Account |-> [room |-> StartRoom, rank |-> StartRank[p]]],
            roster |-> [r \in Room |-> [p \in Account |-> 0]],
            fault |-> "none"]

-----------------------------------------------------------------------------
(* The methods of PlayerDatabase, Room and the handlers. *)

\* Connection::Handler.
Top(m, c) == IF m.trains[c] > 0 THEN "Train" ELSE m.base[c]

Crash(m, why) == [m EXCEPT !.fault = IF @ = "none" THEN why ELSE @]

\* Using the pointer Player::Conn(): c is null, erased or usable.
Deref(m, c) ==
  IF c = NoConn THEN Crash(m, "null connection")
  ELSE IF c \notin m.open THEN Crash(m, "dangling connection")
  ELSE m

\* A save that the database refuses is logged and forgotten; Belongings has
\* that, here every save succeeds.
SavePlayer(m, p) == [m EXCEPT !.saved[p] = [room |-> m.room[p], rank |-> m.rank[p]]]

\* Variant: the player is not saved.
LogoutUnsaved(m, p) ==
  [Deref(m, m.conn[p]) EXCEPT !.conn[p] = NoConn, !.loggedIn[p] = FALSE, !.active[p] = FALSE]

\* PlayerDatabase::Logout reads the address of the connection first.
Logout(m, p) ==
  SavePlayer([Deref(m, m.conn[p]) EXCEPT !.conn[p] = NoConn,
                                         !.loggedIn[p] = FALSE,
                                         !.active[p] = FALSE], p)

AddPlayerToRoom(m, p) == [m EXCEPT !.roster[m.room[p]][p] = @ + 1]

RemovePlayerFromRoom(m, p) ==
  IF m.roster[m.room[p]][p] = 0
  THEN Crash(m, "erase end")
  ELSE [m EXCEPT !.roster[m.room[p]][p] = @ - 1]

\* Player::SendString skips a null connection and writes to any other.
SendTo(m, players) ==
  IF \E p \in players : m.conn[p] \notin m.open \cup {NoConn}
  THEN Crash(m, "dangling connection") ELSE m

SendGlobal(m) == SendTo(m, {p \in Account : m.loggedIn[p]})
SendRoom(m, r) == SendTo(m, {p \in Account : m.roster[r][p] > 0})

\* Game::Move and the end of Game::PlayerKilled, with what both rooms are told.
ChangeRoom(m, p, r) ==
  LET gone == RemovePlayerFromRoom(m, p)
      moved == AddPlayerToRoom([gone EXCEPT !.room[p] = r], p)
  IN SendRoom(SendRoom(moved, m.room[p]), r)

GameEnter(m, p) ==
  [AddPlayerToRoom(m, p) EXCEPT !.active[p] = TRUE, !.loggedIn[p] = TRUE]

\* Variants: the room keeps the player; a closed connection is not logged out.
GameLeaveStays(m, c) ==
  LET left == [m EXCEPT !.active[m.user[c]] = FALSE]
  IN IF m.closed[c] THEN Logout(left, m.user[c]) ELSE left

GameLeaveLoggedIn(m, c) ==
  [RemovePlayerFromRoom(m, m.user[c]) EXCEPT !.active[m.user[c]] = FALSE]

GameLeave(m, c) ==
  LET p == m.user[c]
      left == [RemovePlayerFromRoom(m, p) EXCEPT !.active[p] = FALSE]
  IN IF m.closed[c] THEN Logout(left, p) ELSE left

\* Leave() of the top handler: empty for Logon and Train.
LeaveTop(m, c) == IF Top(m, c) = "Game" THEN GameLeave(m, c) ELSE m

\* Enter() of the top handler of c, for the account the handlers of c serve.
EnterTop(m, c) ==
  CASE Top(m, c) = "Game" -> GameEnter(m, m.user[c])
    [] Top(m, c) = "Train" -> [m EXCEPT !.active[m.user[c]] = FALSE]
    [] OTHER -> m

\* Variant: AddHandler does not leave the handler it covers.
GotoTrainOnTop(m, p) ==
  LET at == Deref([m EXCEPT !.active[p] = FALSE], m.conn[p])
  IN IF at.fault # "none" THEN at
     ELSE EnterTop([at EXCEPT !.trains[m.conn[p]] = @ + 1], m.conn[p])

\* GotoTrain and GotoTutorialTrain: push a training handler on the
\* connection of the account, which is not always the caller's.
GotoTrain(m, p) ==
  LET c == m.conn[p]
      at == Deref([m EXCEPT !.active[p] = FALSE], c)
  IN IF at.fault # "none" THEN at
     ELSE EnterTop([LeaveTop(at, c) EXCEPT !.trains[c] = @ + 1], c)

\* Connection::RemoveHandler, called on the connection of account p.
RemoveHandler(m, p) ==
  LET c == m.conn[p]
      at == Deref(m, c)
  IN IF at.fault # "none" THEN at
     ELSE CASE Top(m, c) = "none" -> Crash(m, "null handler")
            [] Top(m, c) = "Train" -> EnterTop([m EXCEPT !.trains[c] = @ - 1], c)
            [] OTHER -> [LeaveTop(m, c) EXCEPT !.base[c] = "none"]

ClearHandlers(m, c) ==
  [LeaveTop(m, c) EXCEPT !.base[c] = "none", !.trains[c] = 0]

\* Hungup() or Flooded() of the top handler: Game only tells the others.
TellGone(m, c) ==
  CASE Top(m, c) = "none" -> Crash(m, "null handler")
    [] Top(m, c) = "Train" -> Logout(m, m.user[c])
    [] OTHER -> m

\* Variant: the socket is closed and its handlers are not left.
EraseUnheard(m, c) ==
  [m EXCEPT !.open = @ \ {c}, !.base[c] = "none", !.trains[c] = 0, !.closed[c] = FALSE,
            !.logon[c] = "NEWCONNECTION", !.errors[c] = 0, !.user[c] = NoAccount]

\* ConnectionManager::Close: the list node is freed.
Erase(m, c) ==
  [ClearHandlers(m, c) EXCEPT !.open = @ \ {c}, !.closed[c] = FALSE,
                              !.logon[c] = "NEWCONNECTION", !.errors[c] = 0,
                              !.user[c] = NoAccount]

\* What Listen and Send do with a connection that floods or fails.
Expel(m, c) == Erase(TellGone([m EXCEPT !.closed[c] = TRUE], c), c)

\* Variant: a second login leaves the first alone.
LogOffNobody(m, p) == m

\* Logon::GotoGame, part one: log off the user if he is already connected.
LogOffPrevious(m, p) ==
  LET c == m.conn[p]
      at == Deref(m, c)
      told == TellGone([m EXCEPT !.closed[c] = TRUE], c)
  IN IF ~m.loggedIn[p] THEN m
     ELSE IF at.fault # "none" THEN at
     ELSE IF told.conn[p] = NoConn THEN Crash(told, "null connection")
     ELSE ClearHandlers(told, c)

\* Variant: the user's new connection is not recorded.
GotoGameUnrecorded(m, c, p, newbie) ==
  LET off == LogOffPrevious(m, p)
      in == GameEnter([off EXCEPT !.base[c] = "Game"], p)
  IN IF off.fault # "none" THEN off
     ELSE IF newbie THEN GotoTrain(in, p) ELSE in

\* Logon::GotoGame on connection c.
GotoGame(m, c, p, newbie) ==
  LET off == LogOffPrevious(m, p)
      in == GameEnter([off EXCEPT !.conn[p] = c, !.base[c] = "Game"], p)
  IN IF off.fault # "none" THEN off
     ELSE IF newbie THEN GotoTrain(in, p) ELSE in

\* PlayerDatabase::AddPlayer, which refuses a name that is taken.
AddPlayer(m, p) ==
  IF p \in m.registered THEN m
  ELSE SavePlayer([m EXCEPT !.registered = @ \cup {p},
                            !.rank[p] = IF m.registered = {} THEN ADMIN ELSE REGULAR,
                            !.room[p] = StartRoom], p)

-----------------------------------------------------------------------------
(* The steps of the main loop. *)

\* The handlers run to completion; an undefined step is the last one.
Set(m) == mud' = IF m.fault = "none" THEN m ELSE [mud EXCEPT !.fault = m.fault]

Up(ph) == phase = ph /\ mud.fault = "none"

\* The pass iterator moves to c, the next connection of the list.
Visit(c) ==
  /\ c \in mud.open /\ c > cur
  /\ \A d \in mud.open : d > cur => c <= d
  /\ cur' = c

\* The iterator is at the end of the list: the main loop goes on.
EndPass(ph, next) ==
  /\ Up(ph) /\ \A c \in mud.open : c <= cur
  /\ phase' = next /\ cur' = 0
  /\ UNCHANGED <<arrived, running, mud>>

\* ListeningManager::Listen and ConnectionManager::NewConnection.  Without
\* room for it the new socket is told so and closed.
Accept ==
  /\ Up("accept") /\ arrived < MaxConn
  /\ arrived' = arrived + 1
  /\ IF Cardinality(mud.open) >= MaxOpen
     THEN UNCHANGED mud
     ELSE Set([mud EXCEPT !.open = @ \cup {arrived'}, !.base[arrived'] = "Logon"])
  /\ phase' = "listen" /\ UNCHANGED <<cur, running>>

NoNewcomer ==
  /\ Up("accept") /\ phase' = "listen"
  /\ UNCHANGED <<cur, arrived, running, mud>>

\* Any error but EOperationWouldBlock, of accept() or of what the newcomer is
\* told, reaches main()'s handler: its locals are destroyed, nothing is told.
AcceptFails ==
  /\ Up("accept") /\ phase' = "destroy"
  /\ UNCHANGED <<cur, arrived, running, mud>>

\* ConnectionManager::Listen: no activity, data, or a receive that throws.
Quiet(c) ==
  /\ Up("listen") /\ Visit(c)
  /\ UNCHANGED <<phase, arrived, running, mud>>

BeginReceive(c) ==
  /\ Up("listen") /\ Visit(c) /\ phase' = "receive"
  /\ UNCHANGED <<arrived, running, mud>>

ReceiveFails(c) ==
  /\ Up("listen") /\ Visit(c) /\ Set(Expel(mud, c))
  /\ UNCHANGED <<phase, arrived, running>>

EndReceive ==
  /\ Up("receive") /\ phase' = "listen"
  /\ UNCHANGED <<cur, arrived, running, mud>>

\* The rate is tested after the block.  A handler that throws in the middle of
\* it (an amount that is no number) ends the connection here, too: Listen
\* catches everything and does what it does to a connection that fails.
Flooding ==
  /\ Up("receive") /\ phase' = "listen" /\ Set(Expel(mud, cur))
  /\ UNCHANGED <<cur, arrived, running>>

\* One complete line of the received block, handed to the top handler; a
\* block can hold many.  Telnet drops lines when there is no handler.
Line(handler) ==
  /\ Up("receive") /\ Top(mud, cur) = handler
  /\ UNCHANGED <<phase, cur, arrived>>

\* ConnectionManager::Send: the buffer goes out, or the client is dead.
Sent(c) ==
  /\ Up("send") /\ Visit(c)
  /\ UNCHANGED <<phase, arrived, running, mud>>

SendFails(c) ==
  /\ Up("send") /\ Visit(c) /\ Set(Expel(mud, c))
  /\ UNCHANGED <<phase, arrived, running>>

\* Variant: the iterator that erases steps over the next connection.
CloseVisitSkips(c) ==
  /\ Up("close") /\ c \in mud.open /\ c > cur
  /\ \A d \in mud.open : d > cur => c <= d
  /\ IF mud.closed[c]
     THEN Set(Erase(mud, c)) /\ cur' = IF c < MaxConn THEN c + 1 ELSE c
     ELSE UNCHANGED mud /\ cur' = c
  /\ UNCHANGED <<phase, arrived, running>>

\* ConnectionManager::CloseConnections.
CloseVisit(c) ==
  /\ Up("close") /\ Visit(c)
  /\ IF mud.closed[c] THEN Set(Erase(mud, c)) ELSE UNCHANGED mud
  /\ UNCHANGED <<phase, arrived, running>>

\* GameLoop::Loop as far as it touches sessions: an enemy kills a player who
\* stands in a room, the timer saves every player.
PlayerKilled(p) ==
  /\ Up("loop") /\ \E r \in Room : mud.roster[r][p] > 0
  /\ Set(ChangeRoom(mud, p, StartRoom))
  /\ UNCHANGED <<phase, cur, arrived, running>>

SaveAll(m) ==
  [m EXCEPT !.saved = [p \in Account |->
     IF p \in m.registered THEN [room |-> m.room[p], rank |-> m.rank[p]] ELSE @[p]]]

EndLoop(m) ==
  /\ Up("loop") /\ Set(m)
  /\ phase' = IF running THEN "accept" ELSE "destroy"
  /\ UNCHANGED <<cur, arrived, running>>

\* ~ConnectionManager closes every socket without marking it closed, then
\* ~GameLoop saves the databases.
Destroy(c) ==
  /\ Up("destroy") /\ Visit(c) /\ Set(Erase(mud, c))
  /\ UNCHANGED <<phase, arrived, running>>

Down ==
  /\ Up("destroy") /\ \A c \in mud.open : c <= cur
  /\ phase' = "down" /\ Set(SaveAll(mud))
  /\ UNCHANGED <<cur, arrived, running>>

-----------------------------------------------------------------------------
(* Logon::Handle. *)

\* Variant: wrong answers are not limited.
LogonLineAnyErrors(state) ==
  Line("Logon") /\ mud.logon[cur] = state /\ UNCHANGED running

LogonLine(state) ==
  /\ Line("Logon") /\ mud.errors[cur] # MaxErrors
  /\ mud.logon[cur] = state
  /\ UNCHANGED running

TooManyErrors ==
  /\ Line("Logon") /\ mud.errors[cur] = MaxErrors
  /\ Set([mud EXCEPT !.closed[cur] = TRUE])
  /\ UNCHANGED running

\* An unknown name, a name that is taken or unacceptable, a wrong password.
WrongAnswer ==
  /\ \E state \in LogonState : LogonLine(state)
  /\ Set([mud EXCEPT !.errors[cur] = @ + 1])

AskNew ==
  /\ LogonLine("NEWCONNECTION")
  /\ Set([mud EXCEPT !.logon[cur] = "NEWUSER"])

\* Variant: the connection is recorded before the password is known.
NameKnownEarly(p) ==
  /\ LogonLine("NEWCONNECTION") /\ p \in mud.registered
  /\ Set([mud EXCEPT !.logon[cur] = "ENTERPASS", !.user[cur] = p, !.conn[p] = cur])

NameKnown(p) ==
  /\ LogonLine("NEWCONNECTION") /\ p \in mud.registered
  /\ Set([mud EXCEPT !.logon[cur] = "ENTERPASS", !.user[cur] = p])

NameFree(p) ==
  /\ LogonLine("NEWUSER") /\ p \notin mud.registered
  /\ Set([mud EXCEPT !.logon[cur] = "ENTERNEWPASS", !.user[cur] = p])

\* The name may have been taken since it was found free.
Register ==
  /\ LogonLine("ENTERNEWPASS")
  /\ LET p == mud.user[cur] IN Set(GotoGame(AddPlayer(mud, p), cur, p, TRUE))

Login ==
  /\ LogonLine("ENTERPASS")
  /\ Set(GotoGame(mud, cur, mud.user[cur], FALSE))

-----------------------------------------------------------------------------
(* Game::Handle and Train::Handle. *)

\* A command of the account that the handler on cur serves.
Command(name, least) ==
  /\ Line("Game") /\ name \in Commands
  /\ mud.rank[mud.user[cur]] >= least

Quit ==
  /\ Command("quit", REGULAR)
  /\ Set([mud EXCEPT !.closed[cur] = TRUE])
  /\ UNCHANGED running

Kick(q) ==
  /\ Command("kick", GOD)
  /\ mud.loggedIn[q] /\ mud.rank[q] <= mud.rank[mud.user[cur]]
  /\ LET at == Deref(mud, mud.conn[q])
     IN Set(IF at.fault # "none" THEN at
            ELSE [mud EXCEPT !.closed[mud.conn[q]] = TRUE])
  /\ UNCHANGED running

Announce ==
  /\ Command("announce", ADMIN) /\ Set(SendGlobal(mud))
  /\ UNCHANGED running

Shutdown ==
  /\ Command("shutdown", ADMIN) /\ Set(SendGlobal(mud))
  /\ running' = FALSE

ChangeRank(q, k) ==
  /\ Command("changerank", ADMIN) /\ q \in mud.registered
  /\ Set([mud EXCEPT !.rank[q] = k])
  /\ UNCHANGED running

LoadPlayer(m, q) == [m EXCEPT !.room[q] = m.saved[q].room, !.rank[q] = m.saved[q].rank]

\* Variant: the player is reloaded where he stands.
ReloadPlayerInPlace(m, q) == LoadPlayer(m, q)

\* reload player: leave and re-enter the game around LoadPlayer.
ReloadPlayer(m, q) ==
  LET c == m.conn[q]
      loaded == LoadPlayer(LeaveTop(m, c), q)
  IN IF ~m.active[q] THEN LoadPlayer(m, q)
     ELSE IF Deref(m, c).fault # "none" THEN Deref(m, c)
     ELSE IF Deref(loaded, loaded.conn[q]).fault # "none"
          THEN Deref(loaded, loaded.conn[q])
     ELSE EnterTop(loaded, c)

Reload(q) ==
  /\ Command("reload", ADMIN) /\ q \in mud.registered
  /\ Set(ReloadPlayer(mud, q))
  /\ UNCHANGED running

Move(r) ==
  /\ Command("move", REGULAR)
  /\ LET p == mud.user[cur]
     IN /\ <<mud.room[p], r>> \in Exit
        /\ Set(ChangeRoom(mud, p, r))
  /\ UNCHANGED running

\* The bound MaxTrains cuts the stack of training handlers off.
EditStats ==
  /\ Command("editstats", REGULAR)
  /\ LET p == mud.user[cur]
     IN /\ mud.room[p] \in TrainingRoom
        /\ \A c \in Conn : mud.trains[c] < MaxTrains
        /\ Set(GotoTrain(mud, p))
  /\ UNCHANGED running

TrainQuit ==
  /\ Line("Train")
  /\ LET p == mud.user[cur] IN Set(RemoveHandler(SavePlayer(mud, p), p))
  /\ UNCHANGED running

-----------------------------------------------------------------------------
LogonStep ==
  \/ TooManyErrors \/ WrongAnswer \/ AskNew \/ Register \/ Login
  \/ \E p \in Account : NameKnown(p) \/ NameFree(p)

GameStep ==
  \/ Quit \/ Announce \/ Shutdown \/ EditStats \/ TrainQuit
  \/ \E q \in Account : Kick(q) \/ Reload(q) \/ \E k \in NewRanks : ChangeRank(q, k)
  \/ \E r \in Room : Move(r)

PassStep ==
  \/ Accept \/ NoNewcomer \/ AcceptFails \/ EndReceive \/ Flooding
  \/ EndPass("listen", "send") \/ EndPass("send", "close")
  \/ EndPass("close", "loop") \/ EndLoop(mud) \/ EndLoop(SaveAll(mud)) \/ Down
  \/ \E c \in Conn : \/ Quiet(c) \/ BeginReceive(c) \/ ReceiveFails(c)
                      \/ Sent(c) \/ SendFails(c) \/ CloseVisit(c) \/ Destroy(c)

TimerStep == \E p \in Account : PlayerKilled(p)

Next == LogonStep \/ GameStep \/ PassStep \/ TimerStep

Spec == Init /\ [][Next]_vars

\* The single thread keeps running: a handler returns, a block of 1024 bytes
\* has a last line, and main() goes from pass to pass.
FairSpec == Spec /\ WF_vars(PassStep)

-----------------------------------------------------------------------------
(* Properties. *)

\* The connections on which account p is at play: their top handler is a Game
\* made for p.
Playing(p) == {c \in mud.open : Top(mud, c) = "Game" /\ mud.user[c] = p}

\* The player lists of the rooms name an account once for each connection it
\* plays on, in the room it stands in, and nowhere else.  Every path in and
\* out of the Game handler (entering, training, moving, dying, reloading,
\* being taken over, quitting, failing) must keep the lists in step, or
\* Room::RemovePlayer erases end().
RosterMatchesHandlers ==
  \A r \in Room, p \in Account :
    mud.roster[r][p] = IF r = mud.room[p] THEN Cardinality(Playing(p)) ELSE 0

\* Game::SendGame and the timers write to every active player without a
\* check, so an active player has a connection that is in the list and whose
\* handler is his Game, whatever the other connections did in between.
ActiveIsLive ==
  \A p \in Account : mud.active[p] =>
    mud.loggedIn[p] /\ mud.conn[p] \in Playing(p)

\* The connection an account points at, while it is in the list, was taken by
\* that account and is past its logon: no takeover, race for a name or
\* training handler crosses two accounts.
ConnectionServesAccount ==
  \A p \in Account : mud.conn[p] \in mud.open =>
    mud.user[mud.conn[p]] = p /\ mud.base[mud.conn[p]] # "Logon"

\* When main() leaves the manager's passes, every connection that was told to
\* close in them is out of the list, so the game loop never meets one.
ClosedAreSwept ==
  phase \in {"loop", "accept"} => \A c \in mud.open : ~mud.closed[c]

\* A connection that is still read serves the account whose connection it is:
\* after a takeover the loser gets no further line through.
ServedOwnsAccount ==
  \A c \in mud.open :
    Top(mud, c) \in {"Game", "Train"} /\ ~mud.closed[c] =>
      mud.loggedIn[mud.user[c]] /\ mud.conn[mud.user[c]] = c

\* The room lists, which feed combat and room messages, and the active flag,
\* which feeds game messages and healing, agree on who is in the world.
InWorldIffActive ==
  \A p \in Account : mud.active[p] <=> \E r \in Room : mud.roster[r][p] > 0

\* A player who is offline is in the player table with the room he stood in,
\* however he left: Logon::GotoGame will put him back there.
OfflineIsSaved ==
  \A p \in mud.registered :
    ~mud.loggedIn[p] => mud.saved[p].room = mud.room[p]

\* Logon.cpp:178, "log off the user if he's already connected": logging in
\* ends the older session and goes on, whatever state that session is in.
RelogSurvives == mud.fault \notin {"null connection", "dangling connection"}

\* Every session that was told to end is over in the end: its connection
\* leaves the list and the account is no longer logged in on it.
ClosedEnds ==
  \A c \in Conn, p \in Account :
    mud.closed[c] /\ c \in Playing(p)
      ~> \/ c \notin mud.open /\ (mud.loggedIn[p] => mud.conn[p] # c)
         \/ mud.fault # "none"

\* The session core implements the seats.
SeatOf(c) ==
  IF c > arrived THEN "unborn"
  ELSE IF c \notin mud.open \/ mud.closed[c] \/ mud.base[c] = "none" THEN "gone"
  ELSE IF mud.base[c] = "Logon" THEN "lobby" ELSE mud.user[c]

SeatsOf == INSTANCE Seats WITH seat <- [c \in Conn |-> SeatOf(c)]
ImplementsSeats == SeatsOf!Spec

=============================================================================
