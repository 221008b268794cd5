--------------------------- MODULE SessionProofs ---------------------------
(***************************************************************************)
(* Theorems about Session for every set of accounts, rooms and commands    *)
(* and every bound: what holds whoever does what, and in the second half   *)
(* that it implements Seats when nobody uses editstats.                    *)
(*                                                                         *)
(* The inductive invariant is a predicate Good(m, k) on the record m and   *)
(* the number k of connections accepted so far.  A line of input runs a    *)
(* chain of methods, so every operator of Session gets a lemma: it takes a *)
(* Good record to a Good record and does not touch what Frame names.       *)
(***************************************************************************)
EXTENDS Session, FiniteSetTheorems, TLAPS

\* A connection that can run a handler knows its account, has handlers only
\* while it is in the list, and trains only past its logon.
HandlersServe(m) ==
  \A c \in Conn :
    /\ c \notin m.open =>
         m.base[c] = "none" /\ m.trains[c] = 0 /\ m.logon[c] = "NEWCONNECTION"
    /\ m.base[c] = "Game" \/ m.trains[c] > 0 => m.user[c] \in Account
    /\ m.base[c] = "Logon" => m.trains[c] = 0
    /\ m.base[c] = "Logon" /\ m.logon[c] \in {"ENTERNEWPASS", "ENTERPASS"}
         => m.user[c] \in Account

\* What an account's connection pointer promises.
PointersServe(m) ==
  \A p \in Account :
    /\ m.conn[p] \in m.open => m.user[m.conn[p]] = p /\ m.base[m.conn[p]] # "Logon"
    /\ m.active[p] => /\ m.loggedIn[p] /\ m.conn[p] \in m.open
                      /\ m.base[m.conn[p]] = "Game" /\ m.trains[m.conn[p]] = 0

Born(m, k) == m.open \subseteq 1 .. k /\ \A p \in Account : m.conn[p] <= k

Good(m, k) == m \in Mud /\ HandlersServe(m) /\ PointersServe(m) /\ Born(m, k)

\* n has the connections and the accounts of m.
Frame(m, n) == n.open = m.open /\ n.user = m.user

\* n has the stacks of m, too.
StackFrame(m, n) ==
  /\ Frame(m, n)
  /\ n.base = m.base /\ n.trains = m.trains /\ n.closed = m.closed /\ n.logon = m.logon

\* n differs from m in nothing that Good reads.
SameSession(m, n) ==
  /\ n \in Mud /\ StackFrame(m, n)
  /\ n.conn = m.conn /\ n.loggedIn = m.loggedIn /\ n.active = m.active

LEMMA ConnType == Conn \subseteq Nat \ {0} /\ NoConn \notin Conn /\ Conn \in SUBSET Nat
BY ConstantsAssumption DEF Conn, NoConn, ConstantsAssumption

-----------------------------------------------------------------------------
(* The methods that move no connection, handler, pointer or flag. *)

LEMMA SameSessionGood ==
  ASSUME NEW m, NEW k \in Nat, Good(m, k), NEW n, SameSession(m, n)
  PROVE  Good(n, k) /\ StackFrame(m, n)
BY DEF Good, HandlersServe, PointersServe, Born, SameSession, StackFrame, Frame

LEMMA SameSessionTrans ==
  ASSUME NEW m, NEW n, NEW o, SameSession(m, n), SameSession(n, o)
  PROVE  SameSession(m, o)
BY DEF SameSession, StackFrame, Frame

LEMMA CrashSame ==
  ASSUME NEW m \in Mud, NEW why \in Fault
  PROVE  SameSession(m, Crash(m, why))
BY DEF Mud, Crash, SameSession, StackFrame, Frame

LEMMA DerefSame ==
  ASSUME NEW m \in Mud, NEW c
  PROVE  /\ SameSession(m, Deref(m, c))
         /\ Deref(m, c).fault = "none" => c \in m.open
<1> "null connection" \in Fault /\ "dangling connection" \in Fault
  BY DEF Fault
<1>1. CASE c = NoConn
  BY <1>1, CrashSame DEF Deref, Crash, Mud
<1>2. CASE c # NoConn /\ c \notin m.open
  BY <1>2, CrashSame DEF Deref, Crash, Mud
<1>3. CASE c # NoConn /\ c \in m.open
  BY <1>3 DEF Deref, SameSession, StackFrame, Frame
<1> QED BY <1>1, <1>2, <1>3

LEMMA SavePlayerSame ==
  ASSUME NEW m \in Mud, NEW p \in Account
  PROVE  SameSession(m, SavePlayer(m, p))
<1> DEFINE s == [m.saved EXCEPT ![p] = [room |-> m.room[p], rank |-> m.rank[p]]]
<1>1. s \in [Account -> [room : Room, rank : Rank]]
  BY DEF Mud
<1>2. SavePlayer(m, p) = [m EXCEPT !.saved = s]
  BY DEF SavePlayer
<1> HIDE DEF s
<1> QED BY <1>1, <1>2 DEF Mud, SameSession, StackFrame, Frame

LEMMA SaveAllSame ==
  ASSUME NEW m \in Mud
  PROVE  SameSession(m, SaveAll(m))
<1> DEFINE s == [p \in Account |-> IF p \in m.registered
                   THEN [room |-> m.room[p], rank |-> m.rank[p]] ELSE m.saved[p]]
<1>1. s \in [Account -> [room : Room, rank : Rank]]
  BY DEF Mud
<1>2. SaveAll(m) = [m EXCEPT !.saved = s]
  BY DEF SaveAll
<1> HIDE DEF s
<1> QED BY <1>1, <1>2 DEF Mud, SameSession, StackFrame, Frame

LEMMA LoadPlayerSame ==
  ASSUME NEW m \in Mud, NEW p \in Account
  PROVE  SameSession(m, LoadPlayer(m, p))
<1>1. m.saved[p].room \in Room /\ m.saved[p].rank \in Rank
  BY DEF Mud
<1> QED BY <1>1 DEF LoadPlayer, Mud, SameSession, StackFrame, Frame

LEMMA AddPlayerToRoomSame ==
  ASSUME NEW m \in Mud, NEW p \in Account
  PROVE  SameSession(m, AddPlayerToRoom(m, p))
<1> DEFINE r == [m.roster EXCEPT ![m.room[p]][p] = @ + 1]
<1>1. r \in [Room -> [Account -> Nat]]
  BY DEF Mud
<1>2. AddPlayerToRoom(m, p) = [m EXCEPT !.roster = r]
  BY DEF AddPlayerToRoom
<1> HIDE DEF r
<1> QED BY <1>1, <1>2 DEF Mud, SameSession, StackFrame, Frame

LEMMA RemovePlayerFromRoomSame ==
  ASSUME NEW m \in Mud, NEW p \in Account
  PROVE  SameSession(m, RemovePlayerFromRoom(m, p))
<1>1. CASE m.roster[m.room[p]][p] = 0
  BY <1>1, CrashSame DEF RemovePlayerFromRoom, Fault
<1>2. CASE m.roster[m.room[p]][p] # 0
  <2> DEFINE r == [m.roster EXCEPT ![m.room[p]][p] = @ - 1]
  <2>1. m.room[p] \in Room /\ m.roster[m.room[p]][p] \in Nat
    BY DEF Mud
  <2>2. r \in [Room -> [Account -> Nat]]
    BY <1>2, <2>1 DEF Mud
  <2>3. RemovePlayerFromRoom(m, p) = [m EXCEPT !.roster = r]
    BY <1>2 DEF RemovePlayerFromRoom
  <2> HIDE DEF r
  <2> QED BY <2>2, <2>3 DEF Mud, SameSession, StackFrame, Frame
<1> QED BY <1>1, <1>2

LEMMA SendToSame ==
  ASSUME NEW m \in Mud, NEW players
  PROVE  SameSession(m, SendTo(m, players))
<1> "dangling connection" \in Fault
  BY DEF Fault
<1> QED BY CrashSame DEF SendTo, SameSession, StackFrame, Frame

LEMMA ChangeRoomSame ==
  ASSUME NEW m \in Mud, NEW p \in Account, NEW r \in Room
  PROVE  SameSession(m, ChangeRoom(m, p, r))
<1> DEFINE gone == RemovePlayerFromRoom(m, p)
           there == [gone EXCEPT !.room[p] = r]
           moved == AddPlayerToRoom(there, p)
           told == SendRoom(moved, m.room[p])
<1>1. SameSession(m, gone)
  BY RemovePlayerFromRoomSame
<1>2. SameSession(m, there)
  <2> HIDE DEF gone
  <2> QED BY <1>1 DEF SameSession, StackFrame, Frame, Mud
<1>3. SameSession(m, moved)
  <2> HIDE DEF there
  <2> QED BY <1>2, AddPlayerToRoomSame, SameSessionTrans DEF SameSession
<1>4. SameSession(m, told)
  <2> HIDE DEF moved
  <2> QED BY <1>3, SendToSame, SameSessionTrans DEF SameSession, SendRoom
<1>5. ChangeRoom(m, p, r) = SendRoom(told, r)
  BY DEF ChangeRoom
<1> HIDE DEF told
<1> QED BY <1>4, <1>5, SendToSame, SameSessionTrans DEF SameSession, SendRoom

LEMMA AddPlayerSame ==
  ASSUME NEW m \in Mud, NEW p \in Account
  PROVE  SameSession(m, AddPlayer(m, p))
<1> DEFINE n == [m EXCEPT !.registered = @ \cup {p},
                          !.rank[p] = IF m.registered = {} THEN ADMIN ELSE REGULAR,
                          !.room[p] = StartRoom]
<1>1. StartRoom \in Room /\ ADMIN \in Rank /\ REGULAR \in Rank
  BY ConstantsAssumption DEF ConstantsAssumption, ADMIN, REGULAR, Rank
<1>2. SameSession(m, n)
  BY <1>1 DEF SameSession, StackFrame, Frame, Mud
<1>3. CASE p \in m.registered
  BY <1>3 DEF AddPlayer, SameSession, StackFrame, Frame
<1>4. CASE p \notin m.registered
  <2>1. AddPlayer(m, p) = SavePlayer(n, p)
    BY <1>4 DEF AddPlayer
  <2> HIDE DEF n
  <2> QED BY <1>2, <2>1, SavePlayerSame, SameSessionTrans DEF SameSession
<1> QED BY <1>3, <1>4

-----------------------------------------------------------------------------
(* Entering, leaving and logging out. *)

\* n has the stacks of m and at most a shorter reach of pointers and flags.
Retreat(m, n) ==
  /\ n \in Mud /\ StackFrame(m, n)
  /\ \A p \in Account :
       /\ n.conn[p] \in {m.conn[p], NoConn}
       /\ n.active[p] => m.active[p] /\ n.loggedIn[p] /\ n.conn[p] = m.conn[p]

LEMMA RetreatGood ==
  ASSUME NEW m, NEW k \in Nat, Good(m, k), NEW n, Retreat(m, n)
  PROVE  Good(n, k) /\ StackFrame(m, n)
<1>1. NoConn \notin m.open /\ NoConn <= k
  BY ConnType DEF Good, Mud, NoConn
<1>2. HandlersServe(n)
  BY DEF Good, HandlersServe, Retreat, StackFrame, Frame
<1>3. PointersServe(n)
  BY <1>1 DEF Good, PointersServe, Retreat, StackFrame, Frame
<1>4. Born(n, k)
  BY <1>1 DEF Good, Born, Retreat, StackFrame, Frame
<1> QED BY <1>2, <1>3, <1>4 DEF Good, Retreat

LEMMA LogoutRetreats ==
  ASSUME NEW m \in Mud, NEW p \in Account,
         m.active[p] => m.loggedIn[p]
  PROVE  /\ Logout(m, p) \in Mud /\ StackFrame(m, Logout(m, p))
         /\ Logout(m, p).conn = [m.conn EXCEPT ![p] = NoConn]
         /\ Logout(m, p).loggedIn = [m.loggedIn EXCEPT ![p] = FALSE]
         /\ Logout(m, p).active = [m.active EXCEPT ![p] = FALSE]
<1> DEFINE d == Deref(m, m.conn[p])
           l == [d EXCEPT !.conn[p] = NoConn, !.loggedIn[p] = FALSE, !.active[p] = FALSE]
<1>1. SameSession(m, d)
  BY DerefSame
<1>2. /\ l \in Mud /\ StackFrame(m, l)
      /\ l.conn = [m.conn EXCEPT ![p] = NoConn]
      /\ l.loggedIn = [m.loggedIn EXCEPT ![p] = FALSE]
      /\ l.active = [m.active EXCEPT ![p] = FALSE]
  <2> HIDE DEF d
  <2> QED BY <1>1 DEF SameSession, StackFrame, Frame, Mud
<1>3. Logout(m, p) = SavePlayer(l, p)
  BY DEF Logout
<1> HIDE DEF l
<1> QED BY <1>2, <1>3, SavePlayerSame DEF SameSession, StackFrame, Frame

LEMMA GameLeaveRetreats ==
  ASSUME NEW m, NEW k \in Nat, Good(m, k), NEW c \in Conn, m.user[c] \in Account
  PROVE  /\ Retreat(m, GameLeave(m, c))
         /\ ~GameLeave(m, c).active[m.user[c]]
<1> DEFINE p == m.user[c]
           out == RemovePlayerFromRoom(m, p)
           left == [out EXCEPT !.active[p] = FALSE]
<1>1. m \in Mud /\ SameSession(m, out)
  BY RemovePlayerFromRoomSame DEF Good
<1>2. left \in Mud /\ StackFrame(m, left) /\ left.conn = m.conn
      /\ left.loggedIn = m.loggedIn /\ left.active = [m.active EXCEPT ![p] = FALSE]
  <2> HIDE DEF out
  <2> QED BY <1>1 DEF SameSession, StackFrame, Frame, Mud
<1>3. GameLeave(m, c) = IF m.closed[c] THEN Logout(left, p) ELSE left
  BY DEF GameLeave
<1>4. \A q \in Account : m.active[q] => m.loggedIn[q]
  BY DEF Good, PointersServe
<1>5. m.active \in [Account -> BOOLEAN] /\ m.conn \in [Account -> Conn \cup {NoConn}]
      /\ m.loggedIn \in [Account -> BOOLEAN]
  BY <1>1 DEF Mud
<1> HIDE DEF left
<1>6. CASE ~m.closed[c]
  BY <1>2, <1>3, <1>4, <1>5, <1>6 DEF Retreat
<1>7. CASE m.closed[c]
  <2> DEFINE n == Logout(left, p)
  <2>1. /\ n \in Mud /\ StackFrame(left, n)
        /\ n.conn = [left.conn EXCEPT ![p] = NoConn]
        /\ n.loggedIn = [left.loggedIn EXCEPT ![p] = FALSE]
        /\ n.active = [left.active EXCEPT ![p] = FALSE]
    BY <1>2, <1>5, LogoutRetreats
  <2> HIDE DEF n
  <2>2. Retreat(m, n) /\ ~n.active[p]
    BY <1>2, <1>4, <1>5, <2>1 DEF Retreat, StackFrame, Frame
  <2> QED BY <1>3, <1>7, <2>2 DEF n
<1> QED BY <1>6, <1>7

\* Once the top handler has been left, nobody is active on the connection.
LEMMA LeaveTopRetreats ==
  ASSUME NEW m, NEW k \in Nat, Good(m, k), NEW c \in Conn
  PROVE  /\ Retreat(m, LeaveTop(m, c))
         /\ \A q \in Account : LeaveTop(m, c).active[q] => LeaveTop(m, c).conn[q] # c
<1>1. CASE Top(m, c) = "Game"
  <2>1. m.base[c] = "Game" /\ m.user[c] \in Account
    BY <1>1 DEF Top, Good, HandlersServe
  <2>2. LeaveTop(m, c) = GameLeave(m, c)
    BY <1>1 DEF LeaveTop
  <2>3. Retreat(m, GameLeave(m, c)) /\ ~GameLeave(m, c).active[m.user[c]]
    BY <2>1, GameLeaveRetreats
  <2>4. ASSUME NEW q \in Account, GameLeave(m, c).active[q]
        PROVE  GameLeave(m, c).conn[q] # c
    BY <2>3, <2>4 DEF Retreat, Good, PointersServe
  <2> QED BY <2>2, <2>3, <2>4
<1>2. CASE Top(m, c) # "Game"
  <2>1. LeaveTop(m, c) = m
    BY <1>2 DEF LeaveTop
  <2>2. Retreat(m, m)
    BY DEF Retreat, StackFrame, Frame, Good, PointersServe
  <2>3. ASSUME NEW q \in Account, m.active[q] PROVE m.conn[q] # c
    BY <1>2, <2>3 DEF Good, PointersServe, Top
  <2> QED BY <2>1, <2>2, <2>3
<1> QED BY <1>1, <1>2

LEMMA GameEnterGood ==
  ASSUME NEW m, NEW k \in Nat, Good(m, k), NEW p \in Account, NEW c \in m.open,
         m.conn[p] = c, m.base[c] = "Game", m.trains[c] = 0
  PROVE  /\ Good(GameEnter(m, p), k) /\ StackFrame(m, GameEnter(m, p))
         /\ GameEnter(m, p).conn = m.conn
<1> DEFINE in == AddPlayerToRoom(m, p)
           n == [in EXCEPT !.active[p] = TRUE, !.loggedIn[p] = TRUE]
<1>1. SameSession(m, in)
  BY AddPlayerToRoomSame DEF Good
<1>2. n \in Mud /\ StackFrame(m, n) /\ n.conn = m.conn
      /\ n.loggedIn = [m.loggedIn EXCEPT ![p] = TRUE]
      /\ n.active = [m.active EXCEPT ![p] = TRUE]
  <2> HIDE DEF in
  <2> QED BY <1>1 DEF SameSession, StackFrame, Frame, Mud
<1>3. GameEnter(m, p) = n
  BY DEF GameEnter
<1>4. m.active \in [Account -> BOOLEAN] /\ m.loggedIn \in [Account -> BOOLEAN]
  BY DEF Good, Mud
<1> HIDE DEF n
<1>5. Good(n, k)
  BY <1>2, <1>4 DEF Good, HandlersServe, PointersServe, Born, StackFrame, Frame
<1> QED BY <1>2, <1>3, <1>5

LEMMA EnterTopGood ==
  ASSUME NEW m, NEW k \in Nat, Good(m, k), NEW c \in m.open,
         Top(m, c) = "Game" => m.conn[m.user[c]] = c
  PROVE  /\ Good(EnterTop(m, c), k) /\ StackFrame(m, EnterTop(m, c))
         /\ EnterTop(m, c).conn = m.conn
<1>0. c \in Conn /\ m \in Mud
  BY DEF Good, Mud
<1>1. CASE Top(m, c) = "Game"
  <2>1. m.base[c] = "Game" /\ m.trains[c] = 0 /\ m.user[c] \in Account
    BY <1>0, <1>1 DEF Top, Good, Mud, HandlersServe
  <2>2. EnterTop(m, c) = GameEnter(m, m.user[c])
    BY <1>1 DEF EnterTop
  <2> QED BY <1>1, <2>1, <2>2, GameEnterGood
<1>2. CASE Top(m, c) = "Train"
  <2> DEFINE n == [m EXCEPT !.active[m.user[c]] = FALSE]
  <2>1. m.active \in [Account -> BOOLEAN]
    BY <1>0 DEF Mud
  <2>2. /\ n \in Mud /\ StackFrame(m, n) /\ n.conn = m.conn
        /\ n.loggedIn = m.loggedIn /\ n.active = [m.active EXCEPT ![m.user[c]] = FALSE]
    BY <1>0 DEF Mud, StackFrame, Frame
  <2>3. EnterTop(m, c) = n
    BY <1>2 DEF EnterTop
  <2> HIDE DEF n
  <2>4. Retreat(m, n)
    BY <2>1, <2>2 DEF Retreat, Good, PointersServe
  <2> QED BY <2>2, <2>3, <2>4, RetreatGood
<1>3. CASE Top(m, c) \notin {"Game", "Train"}
  <2>1. EnterTop(m, c) = m
    BY <1>3 DEF EnterTop
  <2> QED BY <2>1 DEF StackFrame, Frame
<1> QED BY <1>1, <1>2, <1>3

-----------------------------------------------------------------------------
(* The methods that change stacks and the list. *)

\* n has the list and the accounts of m, and no stack or pointer that m lacks.
Shrink(m, n) ==
  /\ n.open = m.open /\ n.user = m.user /\ n.logon = m.logon /\ n.closed = m.closed
  /\ \A c \in Conn : n.base[c] \in {m.base[c], "none"}
  /\ \A p \in Account : n.conn[p] \in {m.conn[p], NoConn}

LEMMA ClearHandlersGood ==
  ASSUME NEW m, NEW k \in Nat, Good(m, k), NEW c \in Conn
  PROVE  LET n == ClearHandlers(m, c)
         IN /\ Good(n, k) /\ Shrink(m, n)
            /\ n.base = [m.base EXCEPT ![c] = "none"]
            /\ n.trains = [m.trains EXCEPT ![c] = 0]
            /\ \A q \in Account : n.active[q] => n.conn[q] # c
<1> DEFINE l == LeaveTop(m, c)
           n == [l EXCEPT !.base[c] = "none", !.trains[c] = 0]
<1>1. Retreat(m, l) /\ \A q \in Account : l.active[q] => l.conn[q] # c
  BY LeaveTopRetreats
<1>2. Good(l, k) /\ StackFrame(m, l)
  <2> HIDE DEF l
  <2> QED BY <1>1, RetreatGood
<1> HIDE DEF l
<1>3. /\ n \in Mud /\ Frame(l, n) /\ n.logon = l.logon /\ n.closed = l.closed
      /\ n.conn = l.conn /\ n.loggedIn = l.loggedIn /\ n.active = l.active
      /\ n.base = [l.base EXCEPT ![c] = "none"]
      /\ n.trains = [l.trains EXCEPT ![c] = 0]
  BY <1>2 DEF Good, Mud, Frame
<1>4. ClearHandlers(m, c) = n
  BY DEF ClearHandlers, l
<1>5. l.base \in [Conn -> {"none", "Logon", "Game"}] /\ l.trains \in [Conn -> Nat]
      /\ l.conn \in [Account -> Conn \cup {NoConn}]
  BY <1>2 DEF Good, Mud
<1> HIDE DEF n
<1>6. HandlersServe(n)
  BY <1>2, <1>3, <1>5 DEF Good, HandlersServe, Frame
<1>7. PointersServe(n)
  BY <1>1, <1>2, <1>3, <1>5 DEF Good, PointersServe, Frame
<1>8. Good(n, k)
  BY <1>2, <1>3, <1>6, <1>7 DEF Good, Born, Frame
<1>9. Shrink(m, n)
  BY <1>1, <1>2, <1>3, <1>5 DEF Shrink, Frame, StackFrame, Retreat
<1> QED BY <1>1, <1>2, <1>3, <1>4, <1>8, <1>9 DEF StackFrame

LEMMA CloseGood ==
  ASSUME NEW m, NEW k \in Nat, Good(m, k), NEW c \in Conn
  PROVE  LET n == [m EXCEPT !.closed[c] = TRUE]
         IN /\ Good(n, k) /\ Frame(m, n)
            /\ n.base = m.base /\ n.trains = m.trains /\ n.logon = m.logon
            /\ n.conn = m.conn /\ n.closed = [m.closed EXCEPT ![c] = TRUE]
<1> DEFINE n == [m EXCEPT !.closed[c] = TRUE]
<1>1. /\ n \in Mud /\ Frame(m, n) /\ n.base = m.base /\ n.trains = m.trains
      /\ n.logon = m.logon /\ n.conn = m.conn /\ n.loggedIn = m.loggedIn
      /\ n.active = m.active /\ n.closed = [m.closed EXCEPT ![c] = TRUE]
  BY DEF Good, Mud, Frame
<1> HIDE DEF n
<1>2. Good(n, k)
  BY <1>1 DEF Good, HandlersServe, PointersServe, Born, Frame
<1> QED BY <1>1, <1>2 DEF n

LEMMA TellGoneRetreats ==
  ASSUME NEW m, NEW k \in Nat, Good(m, k), NEW c \in Conn
  PROVE  Retreat(m, TellGone(m, c))
<1>0. m \in Mud /\ \A p \in Account : m.active[p] => m.loggedIn[p]
  BY DEF Good, PointersServe
<1>1. CASE Top(m, c) = "none"
  <2>1. SameSession(m, Crash(m, "null handler"))
    BY <1>0, CrashSame DEF Fault
  <2> QED BY <1>0, <1>1, <2>1 DEF TellGone, SameSession, Retreat
<1>2. CASE Top(m, c) = "Train"
  <2>1. m.user[c] \in Account
    <3>1. m.base[c] # "Train"
      BY <1>0 DEF Mud
    <3> QED BY <1>2, <3>1 DEF Top, Good, HandlersServe
  <2> DEFINE p == m.user[c]
             n == Logout(m, p)
  <2>2. /\ n \in Mud /\ StackFrame(m, n)
        /\ n.conn = [m.conn EXCEPT ![p] = NoConn]
        /\ n.loggedIn = [m.loggedIn EXCEPT ![p] = FALSE]
        /\ n.active = [m.active EXCEPT ![p] = FALSE]
    BY <1>0, <2>1, LogoutRetreats
  <2>3. TellGone(m, c) = n
    BY <1>2 DEF TellGone
  <2>4. m.active \in [Account -> BOOLEAN] /\ m.conn \in [Account -> Conn \cup {NoConn}]
        /\ m.loggedIn \in [Account -> BOOLEAN]
    BY <1>0 DEF Mud
  <2> HIDE DEF n
  <2> QED BY <1>0, <2>2, <2>3, <2>4 DEF Retreat
<1>3. CASE Top(m, c) \notin {"none", "Train"}
  BY <1>0, <1>3 DEF TellGone, Retreat, StackFrame, Frame
<1> QED BY <1>1, <1>2, <1>3

LEMMA EraseGood ==
  ASSUME NEW m, NEW k \in Nat, Good(m, k), NEW c \in Conn
  PROVE  /\ Good(Erase(m, c), k)
         /\ Erase(m, c).open = m.open \ {c}
         /\ Erase(m, c).closed = [m.closed EXCEPT ![c] = FALSE]
<1> DEFINE l == ClearHandlers(m, c)
           n == [l EXCEPT !.open = @ \ {c}, !.closed[c] = FALSE,
                          !.logon[c] = "NEWCONNECTION", !.errors[c] = 0,
                          !.user[c] = NoAccount]
<1>1. /\ Good(l, k) /\ Shrink(m, l)
      /\ l.base = [m.base EXCEPT ![c] = "none"]
      /\ l.trains = [m.trains EXCEPT ![c] = 0]
      /\ \A q \in Account : l.active[q] => l.conn[q] # c
  BY ClearHandlersGood
<1>2. Erase(m, c) = n
  BY DEF Erase
<1> HIDE DEF l
<1>3. /\ n \in Mud /\ n.open = l.open \ {c} /\ n.base = l.base /\ n.trains = l.trains
      /\ n.conn = l.conn /\ n.loggedIn = l.loggedIn /\ n.active = l.active
      /\ n.user = [l.user EXCEPT ![c] = NoAccount]
      /\ n.logon = [l.logon EXCEPT ![c] = "NEWCONNECTION"]
      /\ n.closed = [l.closed EXCEPT ![c] = FALSE]
  <2>1. 0 \in 0 .. MaxErrors
    BY ConstantsAssumption DEF ConstantsAssumption
  <2> QED BY <1>1, <2>1 DEF Good, Mud, LogonState
<1>4. l \in Mud /\ m \in Mud /\ l.base[c] = "none" /\ l.trains[c] = 0
  BY <1>1 DEF Good, Mud
<1>5. l.user \in [Conn -> Account \cup {NoAccount}] /\ l.logon \in [Conn -> LogonState]
  BY <1>4 DEF Mud
<1> HIDE DEF n
<1>6. HandlersServe(n)
  BY <1>1, <1>3, <1>4, <1>5 DEF Good, HandlersServe
<1>7. PointersServe(n)
  BY <1>1, <1>3, <1>4, <1>5 DEF Good, PointersServe
<1>8. Born(n, k)
  BY <1>1, <1>3 DEF Good, Born
<1>9. Good(n, k)
  BY <1>3, <1>6, <1>7, <1>8 DEF Good
<1>10. n.open = m.open \ {c} /\ n.closed = [m.closed EXCEPT ![c] = FALSE]
  BY <1>1, <1>3 DEF Shrink
<1> QED BY <1>2, <1>9, <1>10

LEMMA ExpelGood ==
  ASSUME NEW m, NEW k \in Nat, Good(m, k), NEW c \in Conn
  PROVE  Good(Expel(m, c), k) /\ Expel(m, c).open = m.open \ {c}
<1> DEFINE n == [m EXCEPT !.closed[c] = TRUE]
           told == TellGone(n, c)
<1>1. Good(n, k) /\ Frame(m, n)
  BY CloseGood
<1> HIDE DEF n
<1>2. Good(told, k) /\ Frame(m, told)
  <2>1. Retreat(n, told)
    BY <1>1, TellGoneRetreats
  <2> HIDE DEF told
  <2> QED BY <1>1, <2>1, RetreatGood DEF StackFrame, Frame
<1>3. Expel(m, c) = Erase(told, c)
  BY DEF Expel, n
<1> HIDE DEF told
<1>4. Good(Erase(told, c), k) /\ Erase(told, c).open = told.open \ {c}
  BY <1>2, EraseGood
<1> QED BY <1>2, <1>3, <1>4 DEF Frame

LEMMA GotoTrainGood ==
  ASSUME NEW m, NEW k \in Nat, Good(m, k), NEW p \in Account
  PROVE  Good(GotoTrain(m, p), k) /\ Frame(m, GotoTrain(m, p))
<1> DEFINE c == m.conn[p]
           n == [m EXCEPT !.active[p] = FALSE]
           at == Deref(n, c)
           left == LeaveTop(at, c)
           pushed == [left EXCEPT !.trains[c] = @ + 1]
<1>1. Good(n, k) /\ StackFrame(m, n) /\ n.conn = m.conn
  <2>1. m \in Mud /\ m.active \in [Account -> BOOLEAN]
    BY DEF Good, Mud
  <2>2. /\ n \in Mud /\ StackFrame(m, n) /\ n.conn = m.conn
        /\ n.loggedIn = m.loggedIn /\ n.active = [m.active EXCEPT ![p] = FALSE]
    BY <2>1 DEF Mud, StackFrame, Frame
  <2> HIDE DEF n
  <2>3. Retreat(m, n)
    BY <2>1, <2>2 DEF Retreat, Good, PointersServe
  <2> QED BY <2>2, <2>3, RetreatGood
<1> HIDE DEF n
<1>2. /\ Good(at, k) /\ StackFrame(m, at) /\ at.conn = m.conn
      /\ at.fault = "none" => c \in m.open
  <2>1. SameSession(n, at) /\ (at.fault = "none" => c \in n.open)
    BY <1>1, DerefSame DEF Good
  <2> HIDE DEF at
  <2> QED BY <1>1, <2>1, SameSessionGood DEF SameSession, StackFrame, Frame
<1>3. GotoTrain(m, p) = IF at.fault # "none" THEN at ELSE EnterTop(pushed, c)
  BY DEF GotoTrain, n
<1> HIDE DEF at
<1>4. CASE at.fault # "none"
  BY <1>2, <1>3, <1>4 DEF StackFrame
<1>5. CASE at.fault = "none"
  <2>1. c \in m.open /\ c \in Conn /\ m.user[c] = p /\ m.base[c] # "Logon"
    BY <1>2, <1>5 DEF Good, Mud, PointersServe
  <2>2. /\ Retreat(at, left) /\ Good(left, k) /\ StackFrame(at, left)
        /\ \A q \in Account : left.active[q] => left.conn[q] # c
    <3>1. Retreat(at, left) /\ \A q \in Account : left.active[q] => left.conn[q] # c
      BY <1>2, <2>1, LeaveTopRetreats
    <3> HIDE DEF left
    <3> QED BY <1>2, <3>1, RetreatGood
  <2> HIDE DEF left
  <2>3. /\ left.trains \in [Conn -> Nat] /\ left \in Mud
        /\ [left.trains EXCEPT ![c] = @ + 1] \in [Conn -> Nat]
    BY <2>1, <2>2 DEF Good, Mud
  <2>4. /\ pushed \in Mud /\ Frame(left, pushed) /\ pushed.base = left.base
        /\ pushed.logon = left.logon /\ pushed.conn = left.conn
        /\ pushed.loggedIn = left.loggedIn /\ pushed.active = left.active
        /\ pushed.trains = [left.trains EXCEPT ![c] = @ + 1]
    BY <2>1, <2>3 DEF Mud, Frame
  <2> HIDE DEF pushed
  <2>5. left.user[c] = p /\ left.base[c] # "Logon" /\ c \in left.open
    BY <1>2, <2>1, <2>2 DEF StackFrame, Frame
  <2>6. HandlersServe(pushed)
    BY <2>1, <2>2, <2>3, <2>4, <2>5 DEF Good, HandlersServe, Frame
  <2>7. PointersServe(pushed)
    BY <2>1, <2>2, <2>3, <2>4 DEF Good, PointersServe, Frame
  <2>8. Good(pushed, k)
    BY <2>2, <2>4, <2>6, <2>7 DEF Good, Born, Frame
  <2>9. Top(pushed, c) = "Train" /\ c \in pushed.open /\ Frame(m, pushed)
    BY <1>2, <2>1, <2>2, <2>3, <2>4 DEF Top, StackFrame, Frame
  <2>10. Good(EnterTop(pushed, c), k) /\ StackFrame(pushed, EnterTop(pushed, c))
    BY <2>8, <2>9, EnterTopGood
  <2> QED BY <1>3, <1>5, <2>9, <2>10 DEF StackFrame, Frame
<1> QED BY <1>4, <1>5

LEMMA RemoveHandlerGood ==
  ASSUME NEW m, NEW k \in Nat, Good(m, k), NEW p \in Account
  PROVE  Good(RemoveHandler(m, p), k) /\ Frame(m, RemoveHandler(m, p))
<1> DEFINE c == m.conn[p]
           at == Deref(m, c)
           popped == [m EXCEPT !.trains[c] = @ - 1]
           left == LeaveTop(m, c)
           bare == [left EXCEPT !.base[c] = "none"]
<1>0. m \in Mud /\ m.trains \in [Conn -> Nat]
  BY DEF Good, Mud
<1>1. SameSession(m, at) /\ (at.fault = "none" => c \in m.open)
  BY <1>0, DerefSame
<1>2. CASE at.fault # "none"
  <2>1. RemoveHandler(m, p) = at
    BY <1>2 DEF RemoveHandler
  <2> HIDE DEF at
  <2> QED BY <1>1, <2>1, SameSessionGood DEF StackFrame
<1>3. CASE at.fault = "none"
  <2>1. c \in m.open /\ c \in Conn /\ m.user[c] = p /\ m.base[c] # "Logon"
    BY <1>0, <1>1, <1>3 DEF Good, Mud, PointersServe
  <2>2. CASE Top(m, c) = "none"
    <3>1. RemoveHandler(m, p) = Crash(m, "null handler")
      BY <1>3, <2>2 DEF RemoveHandler
    <3> QED BY <1>0, <3>1, CrashSame, SameSessionGood DEF Fault, StackFrame
  <2>3. CASE Top(m, c) = "Train"
    <3>1. m.trains[c] \in Nat \ {0} /\ m.trains[c] - 1 \in Nat
      <4>1. m.base[c] # "Train" /\ m.trains[c] \in Nat
        BY <1>0, <2>1 DEF Mud
      <4> QED BY <2>3, <4>1 DEF Top
    <3>2. /\ popped \in Mud /\ Frame(m, popped) /\ popped.base = m.base
          /\ popped.logon = m.logon /\ popped.conn = m.conn
          /\ popped.loggedIn = m.loggedIn /\ popped.active = m.active
          /\ popped.trains = [m.trains EXCEPT ![c] = @ - 1]
      <4>1. [m.trains EXCEPT ![c] = @ - 1] \in [Conn -> Nat]
        BY <1>0, <2>1, <3>1
      <4> QED BY <1>0, <4>1 DEF Mud, Frame
    <3>3. RemoveHandler(m, p) = EnterTop(popped, c)
      BY <1>3, <2>3 DEF RemoveHandler
    <3> HIDE DEF popped
    <3>4. HandlersServe(popped)
      BY <1>0, <2>1, <3>1, <3>2 DEF Good, HandlersServe, Frame
    <3>5. PointersServe(popped)
      BY <1>0, <2>1, <3>1, <3>2 DEF Good, PointersServe, Frame
    <3>6. Good(popped, k)
      BY <3>2, <3>4, <3>5 DEF Good, Born, Frame
    <3>7. c \in popped.open /\ popped.conn[popped.user[c]] = c
      BY <2>1, <3>2 DEF Frame
    <3>8. Good(EnterTop(popped, c), k) /\ StackFrame(popped, EnterTop(popped, c))
      BY <3>6, <3>7, EnterTopGood
    <3> QED BY <3>2, <3>3, <3>8 DEF StackFrame, Frame
  <2>4. CASE Top(m, c) \notin {"none", "Train"}
    <3>1. /\ Retreat(m, left) /\ Good(left, k) /\ StackFrame(m, left)
          /\ \A q \in Account : left.active[q] => left.conn[q] # c
      <4>1. Retreat(m, left) /\ \A q \in Account : left.active[q] => left.conn[q] # c
        BY <2>1, LeaveTopRetreats
      <4> HIDE DEF left
      <4> QED BY <4>1, RetreatGood
    <3>2. RemoveHandler(m, p) = bare
      BY <1>3, <2>4 DEF RemoveHandler
    <3> HIDE DEF left
    <3>3. /\ bare \in Mud /\ Frame(left, bare) /\ bare.trains = left.trains
          /\ bare.logon = left.logon /\ bare.conn = left.conn
          /\ bare.loggedIn = left.loggedIn /\ bare.active = left.active
          /\ bare.base = [left.base EXCEPT ![c] = "none"]
      BY <3>1 DEF Good, Mud, Frame
    <3>4. left.base \in [Conn -> {"none", "Logon", "Game"}]
      BY <3>1 DEF Good, Mud
    <3> HIDE DEF bare
    <3>5. HandlersServe(bare)
      BY <3>1, <3>3, <3>4 DEF Good, HandlersServe, Frame
    <3>6. PointersServe(bare)
      BY <2>1, <3>1, <3>3, <3>4 DEF Good, PointersServe, Frame
    <3>7. Good(bare, k)
      BY <3>1, <3>3, <3>5, <3>6 DEF Good, Born, Frame
    <3> QED BY <3>1, <3>2, <3>3, <3>7 DEF StackFrame, Frame
  <2> QED BY <2>2, <2>3, <2>4
<1> QED BY <1>2, <1>3

LEMMA LogOffPreviousGood ==
  ASSUME NEW m, NEW k \in Nat, Good(m, k), NEW p \in Account
  PROVE  LET n == LogOffPrevious(m, p)
         IN /\ Good(n, k) /\ Frame(m, n)
            /\ \A d \in Conn : m.base[d] = "Logon" => n.base[d] = "Logon"
<1> DEFINE c == m.conn[p]
           at == Deref(m, c)
           shut == [m EXCEPT !.closed[c] = TRUE]
           told == TellGone(shut, c)
           none == Crash(told, "null connection")
<1>0. m \in Mud
  BY DEF Good
<1>1. CASE ~m.loggedIn[p]
  BY <1>1 DEF LogOffPrevious, Frame
<1>2. SameSession(m, at) /\ (at.fault = "none" => c \in m.open)
  BY <1>0, DerefSame
<1>3. CASE m.loggedIn[p] /\ at.fault # "none"
  <2>1. LogOffPrevious(m, p) = at
    BY <1>3 DEF LogOffPrevious
  <2> HIDE DEF at
  <2> QED BY <1>2, <2>1, SameSessionGood DEF StackFrame
<1>4. CASE m.loggedIn[p] /\ at.fault = "none"
  <2>1. c \in m.open /\ c \in Conn /\ m.base[c] # "Logon"
    BY <1>0, <1>2, <1>4 DEF Good, Mud, PointersServe
  <2>2. LogOffPrevious(m, p) = IF told.conn[p] = NoConn THEN none ELSE ClearHandlers(told, c)
    BY <1>4 DEF LogOffPrevious
  <2>3. Good(shut, k) /\ Frame(m, shut) /\ shut.base = m.base
    BY <2>1, CloseGood
  <2> HIDE DEF shut
  <2>4. Good(told, k) /\ StackFrame(shut, told)
    <3>1. Retreat(shut, told)
      BY <2>1, <2>3, TellGoneRetreats
    <3> HIDE DEF told
    <3> QED BY <2>3, <3>1, RetreatGood
  <2> HIDE DEF told
  <2>5. Good(none, k) /\ StackFrame(told, none)
    <3>1. SameSession(told, none)
      BY <2>4, CrashSame DEF Good, Fault
    <3> HIDE DEF none
    <3> QED BY <2>4, <3>1, SameSessionGood
  <2>6. /\ Good(ClearHandlers(told, c), k) /\ Shrink(told, ClearHandlers(told, c))
        /\ ClearHandlers(told, c).base = [told.base EXCEPT ![c] = "none"]
    BY <2>1, <2>4, ClearHandlersGood
  <2>7. told.base \in [Conn -> {"none", "Logon", "Game"}]
    BY <2>4 DEF Good, Mud
  <2> HIDE DEF none
  <2> QED BY <2>1, <2>2, <2>3, <2>4, <2>5, <2>6, <2>7 DEF StackFrame, Frame, Shrink
<1> QED BY <1>1, <1>3, <1>4

\* The connection takes the account whose older session was logged off.
LEMMA SeatGood ==
  ASSUME NEW off, NEW k \in Nat, Good(off, k), NEW c \in off.open,
         NEW p \in Account, off.base[c] = "Logon", off.user[c] = p
  PROVE  LET sat == [off EXCEPT !.conn[p] = c, !.base[c] = "Game"]
         IN  Good(sat, k) /\ Good(GameEnter(sat, p), k) /\ StackFrame(sat, GameEnter(sat, p))
<1> DEFINE sat == [off EXCEPT !.conn[p] = c, !.base[c] = "Game"]
           in == GameEnter(sat, p)
<1>0. c \in Conn
  BY DEF Good, Mud
<1>1. /\ sat \in Mud /\ Frame(off, sat) /\ sat.trains = off.trains
      /\ sat.logon = off.logon /\ sat.loggedIn = off.loggedIn /\ sat.active = off.active
      /\ sat.conn = [off.conn EXCEPT ![p] = c]
      /\ sat.base = [off.base EXCEPT ![c] = "Game"]
  BY <1>0 DEF Good, Mud, Frame
<1>2. /\ off.base \in [Conn -> {"none", "Logon", "Game"}]
      /\ off.conn \in [Account -> Conn \cup {NoConn}]
      /\ off.trains[c] = 0
      /\ c <= k /\ c \in off.open /\ off.user[c] = p
  BY <1>0 DEF Good, Mud, HandlersServe, Born, Frame
<1> HIDE DEF sat
<1>3. HandlersServe(sat)
  BY <1>1, <1>2 DEF Good, HandlersServe, Frame
<1>4. PointersServe(sat)
  <2>1. sat.conn[p] = c /\ sat.base[c] = "Game" /\ sat.trains[c] = 0 /\ sat.user[c] = p
        /\ c \in sat.open
    BY <1>0, <1>1, <1>2 DEF Frame
  <2>2. sat.active[p] => sat.loggedIn[p]
    BY <1>1 DEF Good, PointersServe
  <2>3. ASSUME NEW q \in Account, q # p
        PROVE  /\ sat.conn[q] = off.conn[q]
               /\ off.conn[q] \in off.open => off.conn[q] # c /\ off.conn[q] \in Conn
    BY <1>1, <1>2, <2>3 DEF Good, PointersServe, Mud
  <2>4. ASSUME NEW d \in Conn, d # c PROVE sat.base[d] = off.base[d]
    BY <1>1, <1>2, <2>4
  <2>5. ASSUME NEW q \in Account, q # p
        PROVE  /\ sat.conn[q] \in sat.open =>
                    sat.user[sat.conn[q]] = q /\ sat.base[sat.conn[q]] # "Logon"
               /\ sat.active[q] => /\ sat.loggedIn[q] /\ sat.conn[q] \in sat.open
                                   /\ sat.base[sat.conn[q]] = "Game"
                                   /\ sat.trains[sat.conn[q]] = 0
    BY <1>1, <2>3, <2>4, <2>5 DEF Good, PointersServe, Frame
  <2> QED BY <2>1, <2>2, <2>5 DEF PointersServe
<1>5. Good(sat, k)
  BY <1>1, <1>2, <1>3, <1>4 DEF Good, Born, Frame
<1>6. sat.conn[p] = c /\ sat.base[c] = "Game" /\ sat.trains[c] = 0 /\ c \in sat.open
  BY <1>0, <1>1, <1>2 DEF Frame
<1>7. Good(in, k) /\ StackFrame(sat, in)
  BY <1>5, <1>6, GameEnterGood
<1> QED BY <1>5, <1>7 DEF sat

LEMMA GotoGameGood ==
  ASSUME NEW m, NEW k \in Nat, Good(m, k), NEW c \in m.open,
         NEW p \in Account, NEW newbie \in BOOLEAN,
         m.base[c] = "Logon", m.user[c] = p
  PROVE  Good(GotoGame(m, c, p, newbie), k) /\ Frame(m, GotoGame(m, c, p, newbie))
<1> DEFINE off == LogOffPrevious(m, p)
           sat == [off EXCEPT !.conn[p] = c, !.base[c] = "Game"]
           in == GameEnter(sat, p)
<1>0. c \in Conn
  BY DEF Good, Mud
<1>1. Good(off, k) /\ Frame(m, off) /\ off.base[c] = "Logon"
  BY <1>0, LogOffPreviousGood
<1>2. GotoGame(m, c, p, newbie) =
        IF off.fault # "none" THEN off ELSE IF newbie THEN GotoTrain(in, p) ELSE in
  BY DEF GotoGame
<1> HIDE DEF off
<1>3. Frame(off, sat)
  BY <1>0, <1>1 DEF Good, Mud, Frame
<1>4. Good(in, k) /\ StackFrame(sat, in)
  <2>1. c \in off.open /\ off.user[c] = p
    BY <1>1 DEF Frame
  <2> QED BY <1>1, <2>1, SeatGood
<1> HIDE DEF in, sat
<1>5. Good(GotoTrain(in, p), k) /\ Frame(in, GotoTrain(in, p))
  BY <1>4, GotoTrainGood
<1> QED BY <1>1, <1>2, <1>3, <1>4, <1>5 DEF StackFrame, Frame

LEMMA ReloadPlayerGood ==
  ASSUME NEW m, NEW k \in Nat, Good(m, k), NEW q \in Account
  PROVE  Good(ReloadPlayer(m, q), k) /\ Frame(m, ReloadPlayer(m, q))
<1> DEFINE c == m.conn[q]
           left == LeaveTop(m, c)
           loaded == LoadPlayer(left, q)
           gone == Deref(loaded, loaded.conn[q])
<1>0. m \in Mud
  BY DEF Good
<1>1. CASE ~m.active[q]
  <2>1. ReloadPlayer(m, q) = LoadPlayer(m, q)
    BY <1>1 DEF ReloadPlayer
  <2> QED BY <1>0, <2>1, LoadPlayerSame, SameSessionGood DEF StackFrame
<1>2. CASE m.active[q]
  <2>1. c \in m.open /\ c \in Conn /\ m.user[c] = q /\ c # NoConn
    BY <1>0, <1>2, ConnType DEF Good, Mud, PointersServe
  <2>2. SameSession(m, Deref(m, c))
    BY <1>0, DerefSame
  <2>3. Good(left, k) /\ StackFrame(m, left) /\ left.conn[q] \in {c, NoConn}
    <3>1. Retreat(m, left)
      BY <2>1, LeaveTopRetreats
    <3> HIDE DEF left
    <3> QED BY <3>1, RetreatGood DEF Retreat
  <2>4. ReloadPlayer(m, q) =
          IF Deref(m, c).fault # "none" THEN Deref(m, c)
          ELSE IF gone.fault # "none" THEN gone ELSE EnterTop(loaded, c)
    BY <1>2 DEF ReloadPlayer
  <2> HIDE DEF left
  <2>5. SameSession(left, loaded) /\ Good(loaded, k)
    BY <2>3, LoadPlayerSame, SameSessionGood DEF Good
  <2> HIDE DEF loaded
  <2>6. SameSession(loaded, gone) /\ (gone.fault = "none" => loaded.conn[q] \in loaded.open)
    BY <2>5, DerefSame DEF Good
  <2>7. CASE Deref(m, c).fault # "none"
    BY <2>2, <2>4, <2>7, SameSessionGood DEF StackFrame
  <2>8. CASE Deref(m, c).fault = "none" /\ gone.fault # "none"
    <3> HIDE DEF gone
    <3> QED BY <2>3, <2>4, <2>5, <2>6, <2>8, SameSessionGood
            DEF SameSession, StackFrame, Frame
  <2>9. CASE Deref(m, c).fault = "none" /\ gone.fault = "none"
    <3>1. loaded.conn[q] = c /\ c \in loaded.open /\ loaded.user[c] = q
      BY <2>1, <2>3, <2>5, <2>6, <2>9, ConnType
         DEF SameSession, StackFrame, Frame, Good, Mud
    <3>2. Good(EnterTop(loaded, c), k) /\ StackFrame(loaded, EnterTop(loaded, c))
      BY <2>5, <3>1, EnterTopGood
    <3>3. ReloadPlayer(m, q) = EnterTop(loaded, c)
      BY <2>4, <2>9
    <3> QED BY <2>3, <2>5, <3>2, <3>3 DEF SameSession, StackFrame, Frame
  <2> QED BY <2>7, <2>8, <2>9
<1> QED BY <1>0, <1>1, <1>2 DEF Mud

-----------------------------------------------------------------------------
(* The inductive invariant. *)

\* While a block is handled its connection stays in the list.
IInv ==
  /\ phase \in Phase /\ cur \in 0 .. MaxConn
  /\ arrived \in 0 .. MaxConn /\ running \in BOOLEAN
  /\ phase = "receive" => cur \in mud.open
  /\ Good(mud, arrived)

LEMMA SetGood ==
  ASSUME NEW k \in Nat, Good(mud, k), NEW m, Good(m, k), Set(m)
  PROVE  Good(mud', k) /\ mud'.open \in {m.open, mud.open}
<1>1. CASE m.fault = "none"
  BY <1>1 DEF Set
<1>2. CASE m.fault # "none"
  <2> DEFINE n == [mud EXCEPT !.fault = m.fault]
  <2>1. mud' = n
    BY <1>2 DEF Set
  <2>2. SameSession(mud, n)
    BY DEF Good, Mud, SameSession, StackFrame, Frame
  <2> HIDE DEF n
  <2> QED BY <2>1, <2>2, SameSessionGood DEF StackFrame, Frame
<1> QED BY <1>1, <1>2

\* A line that is handled by a method that keeps the list.
LEMMA LineGood ==
  ASSUME IInv, phase = "receive", UNCHANGED <<phase, cur, arrived>>,
         running' \in BOOLEAN, NEW m, Good(m, arrived), m.open = mud.open, Set(m)
  PROVE  IInv'
BY SetGood DEF IInv

LEMMA InitInductive == Init => IInv
<1> SUFFICES ASSUME Init PROVE IInv
  OBVIOUS
<1>0. /\ 0 \in 0 .. MaxConn /\ StartRoom \in Room /\ Known \subseteq Account
      /\ StartRank \in [Account -> Rank] /\ 0 \notin Conn /\ 0 \in 0 .. MaxErrors
  BY ConstantsAssumption DEF ConstantsAssumption, Conn
<1>1. mud \in Mud
  BY <1>0 DEF Init, Mud, LogonState, Fault, NoConn, NoAccount
<1>2. /\ mud.open = {} /\ mud.base = [c \in Conn |-> "none"]
      /\ mud.trains = [c \in Conn |-> 0] /\ mud.conn = [p \in Account |-> 0]
      /\ mud.active = [p \in Account |-> FALSE]
      /\ mud.logon = [c \in Conn |-> "NEWCONNECTION"]
  BY DEF Init, NoConn
<1>3. HandlersServe(mud) /\ PointersServe(mud) /\ Born(mud, 0)
  BY <1>2 DEF HandlersServe, PointersServe, Born
<1> QED BY <1>0, <1>1, <1>3 DEF Init, IInv, Good, Phase

LEMMA LogonInductive ==
  ASSUME IInv, LogonStep
  PROVE  IInv'
<1>0. mud \in Mud /\ Good(mud, arrived) /\ arrived \in Nat /\ running \in BOOLEAN
  BY DEF IInv, Good
<1>1. /\ phase = "receive" /\ cur \in mud.open /\ cur \in Conn
      /\ mud.base[cur] = "Logon" /\ mud.trains[cur] = 0
      /\ UNCHANGED <<phase, cur, arrived, running>>
  <2>1. Line("Logon") /\ UNCHANGED running
    BY DEF LogonStep, TooManyErrors, WrongAnswer, AskNew, Register, Login,
           NameKnown, NameFree, LogonLine
  <2> QED BY <1>0, <2>1 DEF Line, Up, IInv, Top, Mud, Good
\* The answers that only move the logon's own state.
<1>2. ASSUME NEW l \in LogonState, NEW u \in Account \cup {NoAccount},
             l \in {"ENTERNEWPASS", "ENTERPASS"} => u \in Account,
             NEW n \in Mud, n.open = mud.open, n.base = mud.base, n.trains = mud.trains,
             n.conn = mud.conn, n.loggedIn = mud.loggedIn, n.active = mud.active,
             n.logon = [mud.logon EXCEPT ![cur] = l],
             n.user = [mud.user EXCEPT ![cur] = u]
      PROVE  Good(n, arrived)
  <2>1. mud.logon \in [Conn -> LogonState] /\ mud.user \in [Conn -> Account \cup {NoAccount}]
    BY <1>0 DEF Mud
  <2>2. HandlersServe(n)
    BY <1>0, <1>1, <1>2, <2>1 DEF Good, HandlersServe
  <2>3. PointersServe(n)
    BY <1>0, <1>1, <1>2, <2>1 DEF Good, PointersServe
  <2> QED BY <1>0, <1>2, <2>2, <2>3 DEF Good, Born
<1>3. CASE TooManyErrors
  <2> DEFINE n == [mud EXCEPT !.closed[cur] = TRUE]
  <2>1. Good(n, arrived) /\ n.open = mud.open
    BY <1>0, <1>1, CloseGood DEF Frame
  <2>2. Set(n)
    BY <1>3 DEF TooManyErrors
  <2> HIDE DEF n
  <2> QED BY <1>0, <1>1, <2>1, <2>2, LineGood
<1>4. CASE WrongAnswer
  <2> DEFINE e == [mud.errors EXCEPT ![cur] = @ + 1]
             n == [mud EXCEPT !.errors = e]
  <2>1. Set(n)
    BY <1>4 DEF WrongAnswer
  <2>2. e \in [Conn -> 0 .. MaxErrors]
    <3>1. mud.errors[cur] # MaxErrors
      BY <1>4 DEF WrongAnswer, LogonLine
    <3>2. mud.errors \in [Conn -> 0 .. MaxErrors] /\ MaxErrors \in Nat
      BY <1>0, ConstantsAssumption DEF Mud, ConstantsAssumption
    <3>3. mud.errors[cur] + 1 \in 0 .. MaxErrors
      BY <1>1, <3>1, <3>2
    <3> QED BY <3>2, <3>3
  <2> HIDE DEF e
  <2>3. SameSession(mud, n)
    BY <1>0, <2>2 DEF Mud, SameSession, StackFrame, Frame
  <2> HIDE DEF n
  <2> QED BY <1>0, <1>1, <2>1, <2>3, SameSessionGood, LineGood DEF StackFrame, Frame
<1>5. CASE AskNew
  <2> DEFINE n == [mud EXCEPT !.logon[cur] = "NEWUSER"]
  <2>1. Set(n)
    BY <1>5 DEF AskNew
  <2>2. "NEWUSER" \in LogonState /\ mud.user[cur] \in Account \cup {NoAccount}
        /\ mud.user = [mud.user EXCEPT ![cur] = mud.user[cur]]
    BY <1>0, <1>1 DEF Mud, LogonState
  <2>3. /\ n \in Mud /\ n.open = mud.open /\ n.base = mud.base /\ n.trains = mud.trains
        /\ n.conn = mud.conn /\ n.loggedIn = mud.loggedIn /\ n.active = mud.active
        /\ n.logon = [mud.logon EXCEPT ![cur] = "NEWUSER"] /\ n.user = mud.user
    BY <1>0, <2>2 DEF Mud
  <2> HIDE DEF n
  <2>4. Good(n, arrived)
    BY <1>2, <2>2, <2>3
  <2> QED BY <1>0, <1>1, <2>1, <2>3, <2>4, LineGood
<1>6. ASSUME NEW p \in Account, NameKnown(p) \/ NameFree(p) PROVE IInv'
  <2>1. PICK l \in {"ENTERNEWPASS", "ENTERPASS"} :
          Set([mud EXCEPT !.logon[cur] = l, !.user[cur] = p])
    BY <1>6 DEF NameKnown, NameFree
  <2> DEFINE n == [mud EXCEPT !.logon[cur] = l, !.user[cur] = p]
  <2>2. l \in LogonState
    BY DEF LogonState
  <2>3. /\ n \in Mud /\ n.open = mud.open /\ n.base = mud.base /\ n.trains = mud.trains
        /\ n.conn = mud.conn /\ n.loggedIn = mud.loggedIn /\ n.active = mud.active
        /\ n.logon = [mud.logon EXCEPT ![cur] = l]
        /\ n.user = [mud.user EXCEPT ![cur] = p]
    BY <1>0, <2>2 DEF Mud
  <2>4. Set(n)
    BY <2>1
  <2> HIDE DEF n
  <2>5. Good(n, arrived)
    BY <1>2, <2>2, <2>3
  <2> QED BY <1>0, <1>1, <2>3, <2>4, <2>5, LineGood
<1>7. CASE Register
  <2> DEFINE p == mud.user[cur]
             added == AddPlayer(mud, p)
             n == GotoGame(added, cur, p, TRUE)
  <2>1. Set(n) /\ p \in Account
    BY <1>0, <1>1, <1>7 DEF Register, LogonLine, Good, HandlersServe
  <2>2. SameSession(mud, added) /\ Good(added, arrived)
    BY <1>0, <2>1, AddPlayerSame, SameSessionGood
  <2> HIDE DEF added
  <2>3. cur \in added.open /\ added.base[cur] = "Logon" /\ added.user[cur] = p
    BY <1>1, <2>2 DEF SameSession, StackFrame, Frame
  <2>4. Good(n, arrived) /\ Frame(added, n)
    BY <1>0, <2>1, <2>2, <2>3, GotoGameGood
  <2> HIDE DEF n
  <2> QED BY <1>0, <1>1, <2>1, <2>2, <2>4, LineGood DEF SameSession, StackFrame, Frame
<1>8. CASE Login
  <2> DEFINE p == mud.user[cur]
             n == GotoGame(mud, cur, p, FALSE)
  <2>1. Set(n) /\ p \in Account
    BY <1>0, <1>1, <1>8 DEF Login, LogonLine, Good, HandlersServe
  <2>2. Good(n, arrived) /\ Frame(mud, n)
    BY <1>0, <1>1, <2>1, GotoGameGood
  <2> HIDE DEF n
  <2> QED BY <1>0, <1>1, <2>1, <2>2, LineGood DEF Frame
<1> QED BY <1>3, <1>4, <1>5, <1>6, <1>7, <1>8 DEF LogonStep

LEMMA GameInductive ==
  ASSUME IInv, GameStep
  PROVE  IInv'
<1>0. mud \in Mud /\ Good(mud, arrived) /\ arrived \in Nat /\ running \in BOOLEAN
  BY DEF IInv, Good
<1>1. /\ phase = "receive" /\ cur \in mud.open /\ cur \in Conn
      /\ mud.user[cur] \in Account /\ running' \in BOOLEAN
      /\ UNCHANGED <<phase, cur, arrived>>
  <2>1. /\ \E h \in {"Game", "Train"} : Line(h)
        /\ running' \in BOOLEAN
    BY <1>0 DEF GameStep, Quit, Announce, Shutdown, EditStats, TrainQuit, Kick, Reload,
                ChangeRank, Move, Command
  <2>2. /\ phase = "receive" /\ cur \in mud.open /\ UNCHANGED <<phase, cur, arrived>>
        /\ Top(mud, cur) \in {"Game", "Train"}
    BY <2>1 DEF Line, Up, IInv
  <2>3. cur \in Conn /\ mud.base[cur] # "Train" /\ mud.trains[cur] \in Nat
    BY <1>0, <2>2 DEF Mud
  <2> QED BY <1>0, <2>1, <2>2, <2>3 DEF Top, Good, HandlersServe
<1>2. ASSUME NEW n, Good(n, arrived), n.open = mud.open, Set(n) PROVE IInv'
  BY <1>0, <1>1, <1>2, LineGood
<1>3. CASE Quit
  <2> DEFINE n == [mud EXCEPT !.closed[cur] = TRUE]
  <2>1. Good(n, arrived) /\ n.open = mud.open
    BY <1>0, <1>1, CloseGood DEF Frame
  <2>2. Set(n)
    BY <1>3 DEF Quit
  <2> HIDE DEF n
  <2> QED BY <1>2, <2>1, <2>2
<1>4. CASE Announce \/ Shutdown
  <2> DEFINE n == SendGlobal(mud)
  <2>1. Good(n, arrived) /\ n.open = mud.open
    BY <1>0, SendToSame, SameSessionGood DEF SendGlobal, StackFrame, Frame
  <2>2. Set(n)
    BY <1>4 DEF Announce, Shutdown
  <2> HIDE DEF n
  <2> QED BY <1>2, <2>1, <2>2
<1>5. CASE EditStats
  <2> DEFINE n == GotoTrain(mud, mud.user[cur])
  <2>1. Good(n, arrived) /\ n.open = mud.open
    BY <1>0, <1>1, GotoTrainGood DEF Frame
  <2>2. Set(n)
    BY <1>5 DEF EditStats
  <2> HIDE DEF n
  <2> QED BY <1>2, <2>1, <2>2
<1>6. CASE TrainQuit
  <2> DEFINE s == SavePlayer(mud, mud.user[cur])
             n == RemoveHandler(s, mud.user[cur])
  <2>1. Good(s, arrived) /\ s.open = mud.open
    BY <1>0, <1>1, SavePlayerSame, SameSessionGood DEF StackFrame, Frame
  <2>2. Set(n)
    BY <1>6 DEF TrainQuit
  <2> HIDE DEF s
  <2>3. Good(n, arrived) /\ n.open = mud.open
    BY <1>0, <1>1, <2>1, RemoveHandlerGood DEF Frame
  <2> HIDE DEF n
  <2> QED BY <1>2, <2>2, <2>3
<1>7. ASSUME NEW q \in Account, Kick(q) PROVE IInv'
  <2> DEFINE c == mud.conn[q]
             at == Deref(mud, c)
             shut == [mud EXCEPT !.closed[c] = TRUE]
  <2>1. SameSession(mud, at) /\ (at.fault = "none" => c \in mud.open)
    BY <1>0, DerefSame
  <2>2. Set(IF at.fault # "none" THEN at ELSE shut)
    BY <1>7 DEF Kick
  <2>3. CASE at.fault # "none"
    <3> HIDE DEF at
    <3>1. Good(at, arrived) /\ at.open = mud.open
      BY <1>0, <2>1, SameSessionGood DEF StackFrame, Frame
    <3> QED BY <1>2, <2>2, <2>3, <3>1
  <2>4. CASE at.fault = "none"
    <3>1. c \in Conn
      BY <1>0, <2>1, <2>4 DEF Mud
    <3>2. Good(shut, arrived) /\ shut.open = mud.open
      BY <1>0, <3>1, CloseGood DEF Frame
    <3>3. Set(shut)
      BY <2>2, <2>4
    <3> HIDE DEF shut
    <3> QED BY <1>2, <3>2, <3>3
  <2> QED BY <2>3, <2>4
<1>8. ASSUME NEW q \in Account, Reload(q) PROVE IInv'
  <2> DEFINE n == ReloadPlayer(mud, q)
  <2>1. Good(n, arrived) /\ n.open = mud.open
    BY <1>0, ReloadPlayerGood DEF Frame
  <2>2. Set(n)
    BY <1>8 DEF Reload
  <2> HIDE DEF n
  <2> QED BY <1>2, <2>1, <2>2
<1>9. ASSUME NEW q \in Account, NEW r \in Rank, ChangeRank(q, r) PROVE IInv'
  <2> DEFINE n == [mud EXCEPT !.rank[q] = r]
  <2>1. SameSession(mud, n)
    BY <1>0 DEF Mud, SameSession, StackFrame, Frame
  <2>2. Set(n)
    BY <1>9 DEF ChangeRank
  <2> HIDE DEF n
  <2> QED BY <1>0, <1>2, <2>1, <2>2, SameSessionGood DEF StackFrame, Frame
<1>10. ASSUME NEW r \in Room, Move(r) PROVE IInv'
  <2> DEFINE n == ChangeRoom(mud, mud.user[cur], r)
  <2>1. SameSession(mud, n)
    BY <1>0, <1>1, ChangeRoomSame
  <2>2. Set(n)
    BY <1>10 DEF Move
  <2> HIDE DEF n
  <2> QED BY <1>0, <1>2, <2>1, <2>2, SameSessionGood DEF StackFrame, Frame
<1>11. NewRanks \subseteq Rank
  BY ConstantsAssumption DEF ConstantsAssumption
<1> QED BY <1>3, <1>4, <1>5, <1>6, <1>7, <1>8, <1>9, <1>10, <1>11 DEF GameStep

LEMMA PassInductive ==
  ASSUME IInv, PassStep
  PROVE  IInv'
<1>0. /\ mud \in Mud /\ Good(mud, arrived) /\ arrived \in Nat /\ running \in BOOLEAN
      /\ MaxConn \in Nat /\ Conn = 1 .. MaxConn /\ cur \in 0 .. MaxConn
      /\ phase \in Phase /\ arrived \in 0 .. MaxConn
      /\ {"accept", "listen", "receive", "send", "close", "loop", "destroy", "down"} = Phase
  BY ConstantsAssumption DEF IInv, Good, ConstantsAssumption, Conn, Phase
<1>1. CASE Accept
  <2> DEFINE k == arrived + 1
             n == [mud EXCEPT !.open = @ \cup {k}, !.base[k] = "Logon"]
  <2>1. k \in Conn /\ arrived' = k /\ phase' = "listen" /\ UNCHANGED <<cur, running>>
    BY <1>0, <1>1 DEF Accept
  <2>2. Good(mud, k)
    <3>1. \A p \in Account : mud.conn[p] \in Nat
      BY <1>0 DEF Mud, NoConn
    <3> QED BY <1>0, <3>1 DEF Good, Born
  <2>3. CASE UNCHANGED mud
    BY <1>0, <2>1, <2>2, <2>3 DEF IInv
  <2>4. CASE Set(n)
    <3>1. /\ n \in Mud /\ n.open = mud.open \cup {k} /\ n.base = [mud.base EXCEPT ![k] = "Logon"]
          /\ n.trains = mud.trains /\ n.conn = mud.conn /\ n.loggedIn = mud.loggedIn
          /\ n.active = mud.active /\ n.logon = mud.logon /\ n.user = mud.user
      BY <1>0, <2>1 DEF Mud
    <3>2. /\ mud.base \in [Conn -> {"none", "Logon", "Game"}]
          /\ k \notin mud.open /\ mud.trains[k] = 0
          /\ \A p \in Account : mud.conn[p] # k
          /\ mud.user[k] = NoAccount \/ mud.user[k] \in Account
      BY <1>0, <2>1 DEF Mud, Good, Born, HandlersServe
    <3>3. Set(n)
      BY <2>4
    <3> HIDE DEF n
    <3>4. HandlersServe(n)
      BY <1>0, <2>1, <3>1, <3>2 DEF Good, HandlersServe
    <3>5. PointersServe(n)
      BY <1>0, <2>1, <3>1, <3>2 DEF Good, PointersServe
    <3>6. Good(n, k)
      BY <1>0, <2>1, <2>2, <3>1, <3>4, <3>5 DEF Good, Born
    <3>7. Good(mud', k)
      BY <1>0, <2>1, <2>2, <3>3, <3>6, SetGood
    <3> QED BY <1>0, <2>1, <3>7 DEF IInv
  <2> QED BY <1>1, <2>3, <2>4 DEF Accept
\* The steps that change neither the list nor what is in it.
<1>2. ASSUME UNCHANGED <<arrived, running, mud>>, phase' \in Phase, cur' \in 0 .. MaxConn,
             phase' = "receive" => cur' \in mud.open
      PROVE  IInv'
  BY <1>0, <1>2 DEF IInv
<1>3. CASE NoNewcomer \/ AcceptFails \/ EndReceive
  BY <1>0, <1>2, <1>3 DEF NoNewcomer, AcceptFails, EndReceive
<1>4. ASSUME NEW ph \in Phase, NEW next \in Phase \ {"receive"}, EndPass(ph, next) PROVE IInv'
  BY <1>0, <1>2, <1>4 DEF EndPass
<1>5. ASSUME NEW c \in Conn, Quiet(c) \/ BeginReceive(c) \/ Sent(c) PROVE IInv'
  BY <1>0, <1>2, <1>5 DEF Quiet, BeginReceive, Sent, Visit, Up
\* The steps that run a method outside a block.
<1>6. ASSUME NEW n, Good(n, arrived), Set(n), phase' \in Phase \ {"receive"},
             cur' \in 0 .. MaxConn, UNCHANGED <<arrived, running>>
      PROVE  IInv'
  BY <1>0, <1>6, SetGood DEF IInv
<1>7. ASSUME NEW c \in Conn, ReceiveFails(c) \/ SendFails(c) PROVE IInv'
  <2>1. Good(Expel(mud, c), arrived)
    BY <1>0, ExpelGood
  <2>2. /\ Set(Expel(mud, c)) /\ phase' \in Phase \ {"receive"} /\ cur' = c
        /\ UNCHANGED <<arrived, running>>
    BY <1>0, <1>7 DEF ReceiveFails, SendFails, Visit, Up
  <2> QED BY <1>0, <1>6, <2>1, <2>2
<1>8. CASE Flooding
  <2>1. cur \in Conn /\ phase' = "listen" /\ UNCHANGED <<cur, arrived, running>>
        /\ Set(Expel(mud, cur))
    BY <1>0, <1>8 DEF Flooding, Up, IInv, Good, Mud
  <2>2. Good(Expel(mud, cur), arrived)
    BY <1>0, <2>1, ExpelGood
  <2> QED BY <1>0, <1>6, <2>1, <2>2
<1>9. ASSUME NEW c \in Conn, CloseVisit(c) \/ Destroy(c) PROVE IInv'
  <2>1. /\ Set(Erase(mud, c)) \/ UNCHANGED mud
        /\ phase' \in Phase \ {"receive"} /\ cur' = c /\ UNCHANGED <<arrived, running>>
    BY <1>0, <1>9 DEF CloseVisit, Destroy, Visit, Up
  <2>2. Good(Erase(mud, c), arrived)
    BY <1>0, EraseGood
  <2>3. CASE UNCHANGED mud
    BY <1>0, <1>2, <2>1, <2>3
  <2>4. CASE Set(Erase(mud, c))
    BY <1>0, <1>6, <2>1, <2>2, <2>4
  <2> QED BY <2>1, <2>3, <2>4
<1>10. CASE EndLoop(mud) \/ EndLoop(SaveAll(mud)) \/ Down
  <2>1. Good(SaveAll(mud), arrived)
    BY <1>0, SaveAllSame, SameSessionGood
  <2>2. /\ Set(mud) \/ Set(SaveAll(mud))
        /\ phase' \in Phase \ {"receive"} /\ UNCHANGED <<cur, arrived, running>>
    BY <1>0, <1>10 DEF EndLoop, Down
  <2> QED BY <1>0, <1>6, <2>1, <2>2
<1> QED
  BY <1>0, <1>1, <1>3, <1>4, <1>5, <1>7, <1>8, <1>9, <1>10 DEF PassStep

LEMMA TimerInductive ==
  ASSUME IInv, TimerStep
  PROVE  IInv'
<1>0. mud \in Mud /\ Good(mud, arrived) /\ arrived \in Nat /\ StartRoom \in Room
  BY ConstantsAssumption DEF IInv, Good, ConstantsAssumption
<1>1. PICK p \in Account : PlayerKilled(p)
  BY DEF TimerStep
<1> DEFINE n == ChangeRoom(mud, p, StartRoom)
<1>2. SameSession(mud, n)
  BY <1>0, ChangeRoomSame
<1>3. Set(n) /\ phase = "loop" /\ UNCHANGED <<phase, cur, arrived, running>>
  BY <1>1 DEF PlayerKilled, Up
<1> HIDE DEF n
<1>4. Good(n, arrived)
  BY <1>0, <1>2, SameSessionGood
<1> QED BY <1>0, <1>3, <1>4, SetGood DEF IInv

LEMMA NextInductive == IInv /\ [Next]_vars => IInv'
<1> SUFFICES ASSUME IInv, [Next]_vars PROVE IInv'
  OBVIOUS
<1>1. CASE UNCHANGED vars
  BY <1>1 DEF vars, IInv
<1> QED BY <1>1, LogonInductive, GameInductive, PassInductive, TimerInductive DEF Next

THEOREM Inductive == Spec => []IInv
BY InitInductive, NextInductive, PTL DEF Spec

-----------------------------------------------------------------------------
(* What follows from it. *)

\* Every step of the server keeps its state typed, however many connections,
\* accounts, rooms and stacked training handlers there are.
THEOREM TypeCorrect == Spec => []TypeOK
<1>1. IInv => TypeOK
  BY DEF IInv, TypeOK, Good
<1> QED BY <1>1, Inductive, PTL

\* An account's connection pointer never reaches another account's handlers
\* (ConnectionServesAccount): logins, takeovers, races for a name, training
\* and failing sockets included.
THEOREM PointersNeverCross == Spec => []ConnectionServesAccount
<1>1. IInv => ConnectionServesAccount
  BY DEF IInv, Good, PointersServe, ConnectionServesAccount
<1> QED BY <1>1, Inductive, PTL

\* An active player can be written to and heard (ActiveIsLive), so the
\* unchecked writes of SendGame and of the healing timer are defined.
THEOREM ActiveAlwaysLive == Spec => []ActiveIsLive
<1>1. IInv => ActiveIsLive
  <2> SUFFICES ASSUME IInv, NEW p \in Account, mud.active[p]
               PROVE  mud.loggedIn[p] /\ mud.conn[p] \in Playing(p)
    BY DEF ActiveIsLive
  <2> QED BY DEF IInv, Good, Mud, PointersServe, Playing, Top
<1> QED BY <1>1, Inductive, PTL

-----------------------------------------------------------------------------
(* The sweep. *)

\* The close pass has nothing closed behind it, unless its last step was
\* undefined.
Sweeping ==
  /\ phase = "close" /\ mud.fault = "none" =>
       \A c \in mud.open : c <= cur => ~mud.closed[c]
  /\ ClosedAreSwept

LEMMA SetSweep ==
  ASSUME mud \in Mud, NEW m, Set(m)
  PROVE  \/ mud'.open = m.open /\ mud'.closed = m.closed
         \/ /\ mud'.open = mud.open /\ mud'.closed = mud.closed
            /\ mud'.fault # "none"
BY DEF Set, Mud

LEMMA SweepingInductive ==
  ASSUME IInv, Sweeping, [Next]_vars
  PROVE  Sweeping'
<1>0. /\ mud \in Mud /\ Good(mud, arrived) /\ MaxConn \in Nat /\ Conn = 1 .. MaxConn
      /\ mud.open \subseteq Conn /\ mud.closed \in [Conn -> BOOLEAN]
      /\ StartRoom \in Room
  BY ConstantsAssumption DEF IInv, Good, ConstantsAssumption, Conn, Mud
<1>1. CASE UNCHANGED vars
  BY <1>1 DEF vars, Sweeping, ClosedAreSwept
\* While connections are accepted or read and while data is sent, nothing is
\* claimed of the next state.
<1>2. ASSUME phase' \notin {"close", "loop", "accept"} PROVE Sweeping'
  BY <1>2 DEF Sweeping, ClosedAreSwept
<1>3. CASE LogonStep \/ GameStep
  <2>1. phase' = "receive"
    BY <1>3 DEF LogonStep, TooManyErrors, WrongAnswer, AskNew, Register, Login, NameKnown,
                NameFree, LogonLine, GameStep, Quit, Announce, Shutdown, EditStats,
                TrainQuit, Kick, Reload, ChangeRank, Move, Command, Line, Up
  <2> QED BY <1>2, <2>1
<1>4. CASE TimerStep
  <2>1. PICK p \in Account : PlayerKilled(p)
    BY <1>4 DEF TimerStep
  <2> DEFINE n == ChangeRoom(mud, p, StartRoom)
  <2>2. SameSession(mud, n)
    BY <1>0, ChangeRoomSame
  <2>3. Set(n) /\ phase = "loop" /\ UNCHANGED <<phase, cur>>
    BY <2>1 DEF PlayerKilled, Up
  <2> HIDE DEF n
  <2>4. mud'.open = mud.open /\ mud'.closed = mud.closed
    BY <1>0, <2>2, <2>3, SetSweep DEF SameSession, StackFrame, Frame
  <2> QED BY <2>3, <2>4 DEF Sweeping, ClosedAreSwept
<1>5. CASE PassStep
  <2>1. CASE Accept \/ NoNewcomer \/ AcceptFails \/ EndReceive \/ Flooding
    BY <1>2, <2>1 DEF Accept, NoNewcomer, AcceptFails, EndReceive, Flooding
  <2>2. CASE EndPass("listen", "send") \/ Down
    BY <1>2, <2>2 DEF EndPass, Down
  <2>4. CASE EndPass("send", "close")
    BY <1>0, <2>4 DEF EndPass, Sweeping, ClosedAreSwept
  <2>5. CASE EndPass("close", "loop")
    BY <1>0, <2>5 DEF EndPass, Up, Sweeping, ClosedAreSwept
  <2>6. CASE EndLoop(mud) \/ EndLoop(SaveAll(mud))
    <3>1. SameSession(mud, SaveAll(mud))
      BY <1>0, SaveAllSame
    <3>2. /\ phase = "loop" /\ phase' # "close"
          /\ Set(mud) \/ Set(SaveAll(mud))
      BY <2>6 DEF EndLoop, Up
    <3>3. mud'.open = mud.open /\ mud'.closed = mud.closed
      BY <1>0, <3>1, <3>2, SetSweep DEF SameSession, StackFrame, Frame
    <3> QED BY <3>2, <3>3 DEF Sweeping, ClosedAreSwept
  <2>7. ASSUME NEW c \in Conn,
               \/ Quiet(c) \/ BeginReceive(c) \/ ReceiveFails(c)
               \/ Sent(c) \/ SendFails(c) \/ Destroy(c)
        PROVE  Sweeping'
    BY <1>2, <2>7 DEF Quiet, BeginReceive, ReceiveFails, Sent, SendFails, Destroy, Up
  <2>8. ASSUME NEW c \in Conn, CloseVisit(c) PROVE Sweeping'
    <3>1. /\ phase = "close" /\ phase' = "close" /\ cur' = c /\ c \in mud.open
          /\ \A d \in mud.open : d > cur => c <= d
          /\ IF mud.closed[c] THEN Set(Erase(mud, c)) ELSE UNCHANGED mud
      BY <2>8 DEF CloseVisit, Visit, Up
    <3>2. cur \in Nat /\ \A d \in mud.open : d \in Nat /\ (d <= c => d <= cur \/ d = c)
      BY <1>0, <3>1 DEF IInv
    <3>3. CASE ~mud.closed[c]
      BY <1>0, <3>1, <3>2, <3>3 DEF Sweeping, ClosedAreSwept
    <3>4. CASE mud.closed[c]
      <4>1. /\ Erase(mud, c).open = mud.open \ {c}
            /\ Erase(mud, c).closed = [mud.closed EXCEPT ![c] = FALSE]
        BY <1>0, EraseGood DEF IInv
      <4>2. Set(Erase(mud, c))
        BY <3>1, <3>4
      <4>3. CASE mud'.open = mud.open \ {c} /\ mud'.closed = [mud.closed EXCEPT ![c] = FALSE]
        <5> SUFFICES ASSUME NEW d \in mud'.open, d <= c PROVE ~mud'.closed[d]
          BY <3>1 DEF Sweeping, ClosedAreSwept
        <5>1. d \in mud.open /\ d # c /\ d <= cur /\ mud'.closed[d] = mud.closed[d]
          BY <1>0, <3>2, <4>3
        <5>2. mud.fault = "none"
          BY <2>8 DEF CloseVisit, Up
        <5> QED BY <3>1, <5>1, <5>2 DEF Sweeping
      <4>4. CASE mud'.fault # "none"
        BY <3>1, <4>4 DEF Sweeping, ClosedAreSwept
      <4> QED BY <1>0, <4>1, <4>2, <4>3, <4>4, SetSweep
    <3> QED BY <3>3, <3>4
  <2> QED BY <1>5, <2>1, <2>2, <2>4, <2>5, <2>6, <2>7, <2>8 DEF PassStep
<1> QED BY <1>1, <1>3, <1>4, <1>5 DEF Next

\* The game loop and the next accept never see a connection that was told to
\* close (ClosedAreSwept).
THEOREM AlwaysSwept == Spec => []ClosedAreSwept
<1>1. Init => Sweeping
  BY DEF Init, Sweeping, ClosedAreSwept
<1>2. Sweeping => ClosedAreSwept
  BY DEF Sweeping
<1>3. IInv /\ Sweeping /\ [Next]_vars => Sweeping'
  BY SweepingInductive
<1> QED BY <1>1, <1>2, <1>3, Inductive, PTL DEF Spec

-----------------------------------------------------------------------------
(* What holds when nobody opens the training screen from inside the game   *)
(* (editstats): one connection per account, room lists that agree with the *)
(* handlers and the flags, the refinement of Seats, and that nobody leaves *)
(* without his row.                                                        *)

\* Who has entered owns his account and is registered; out of training he is
\* active.  A logon that is asked for a password knows an account.  Whom the
\* logon has told to close gets no further line.
Owns(m, c) ==
  /\ m.base[c] = "Game" =>
       /\ m.user[c] \in m.registered /\ m.conn[m.user[c]] = c
       /\ m.loggedIn[m.user[c]]
       /\ m.trains[c] = 0 => m.active[m.user[c]]
  /\ m.trains[c] > 0 => m.base[c] = "Game"
  /\ m.base[c] = "Logon" /\ m.logon[c] = "ENTERPASS" => m.user[c] \in m.registered
  /\ m.closed[c] => c \in m.open
  /\ m.base[c] = "Logon" /\ m.closed[c] => m.errors[c] = MaxErrors

Owners(m) == \A c \in Conn : Owns(m, c)

\* The lists name whom the flags call active.
Listed(m) ==
  \A r \in Room, p \in Account :
    m.roster[r][p] = IF r = m.room[p] /\ m.active[p] THEN 1 ELSE 0

Seated(m) == Owners(m) /\ Listed(m)

\* n has of account q what m has.
SameFor(m, n, q) ==
  /\ n.conn[q] = m.conn[q] /\ n.loggedIn[q] = m.loggedIn[q]
  /\ n.active[q] = m.active[q] /\ n.room[q] = m.room[q]
  /\ \A r \in Room : n.roster[r][q] = m.roster[r][q]

\* n has the stacks, the logons and the register of m.
SameStacks(m, n) ==
  n \in Mud /\ StackFrame(m, n) /\ n.errors = m.errors /\ n.registered = m.registered

\* n differs from m in nothing that Seated reads.
SameSeats(m, n) == SameStacks(m, n) /\ \A q \in Account : SameFor(m, n, q)

-----------------------------------------------------------------------------
(* What the methods do when they do not fault. *)

LEMMA SameSeatsSeated ==
  ASSUME NEW m \in Mud, Seated(m), NEW n, SameSeats(m, n)
  PROVE  Seated(n)
<1>1. \A c \in Conn : m.user[c] \in Account \cup {NoAccount} BY DEF Mud
<1>2. m.registered \subseteq Account BY DEF Mud
<1> QED BY <1>1, <1>2 DEF Seated, Owners, Owns, Listed, SameSeats, SameStacks, SameFor, StackFrame, Frame

LEMMA CrashFaults ==
  ASSUME NEW m \in Mud, NEW why, why # "none"
  PROVE  Crash(m, why).fault # "none"
BY DEF Crash, Mud

LEMMA DerefFaultless ==
  ASSUME NEW m \in Mud, NEW c, Deref(m, c).fault = "none"
  PROVE  Deref(m, c) = m /\ c \in m.open
BY CrashFaults DEF Deref

LEMMA SavePlayerSeats ==
  ASSUME NEW m \in Mud, NEW p \in Account
  PROVE  SameSeats(m, SavePlayer(m, p)) /\ SavePlayer(m, p).fault = m.fault
<1>1. SameSession(m, SavePlayer(m, p)) BY SavePlayerSame
<1>2. /\ SavePlayer(m, p).errors = m.errors /\ SavePlayer(m, p).registered = m.registered
      /\ SavePlayer(m, p).room = m.room /\ SavePlayer(m, p).roster = m.roster
      /\ SavePlayer(m, p).fault = m.fault
  BY DEF SavePlayer, Mud
<1> QED BY <1>1, <1>2 DEF SameSeats, SameStacks, SameFor, SameSession

LEMMA SaveAllSeats ==
  ASSUME NEW m \in Mud
  PROVE  SameSeats(m, SaveAll(m))
<1>1. SameSession(m, SaveAll(m)) BY SaveAllSame
<1>2. /\ SaveAll(m).errors = m.errors /\ SaveAll(m).registered = m.registered
      /\ SaveAll(m).room = m.room /\ SaveAll(m).roster = m.roster
  BY DEF SaveAll, Mud
<1> QED BY <1>1, <1>2 DEF SameSeats, SameStacks, SameFor, SameSession

LEMMA SendToFaultless ==
  ASSUME NEW m \in Mud, NEW players, SendTo(m, players).fault = "none"
  PROVE  SendTo(m, players) = m
BY CrashFaults DEF SendTo

\* RemovePlayer and AddPlayer of Room change one count.
LEMMA RemovedFromRoom ==
  ASSUME NEW m \in Mud, NEW p \in Account, RemovePlayerFromRoom(m, p).fault = "none"
  PROVE  LET n == RemovePlayerFromRoom(m, p)
         IN  /\ SameStacks(m, n) /\ m.fault = "none"
             /\ m.roster[m.room[p]][p] > 0
             /\ n.conn = m.conn /\ n.loggedIn = m.loggedIn /\ n.active = m.active
             /\ n.room = m.room
             /\ \A r \in Room, q \in Account :
                  n.roster[r][q] = IF r = m.room[p] /\ q = p THEN m.roster[r][q] - 1
                                   ELSE m.roster[r][q]
<1> DEFINE n == RemovePlayerFromRoom(m, p)
<1>1. m.roster[m.room[p]][p] # 0 BY CrashFaults DEF RemovePlayerFromRoom
<1>2. m.room[p] \in Room /\ m.roster \in [Room -> [Account -> Nat]] BY DEF Mud
<1>3. m.roster[m.room[p]][p] > 0 BY <1>1, <1>2
<1> DEFINE ros == [m.roster EXCEPT ![m.room[p]][p] = @ - 1]
<1>4. n = [m EXCEPT !.roster = ros] BY <1>1 DEF RemovePlayerFromRoom
<1>5. \A r \in Room, q \in Account :
        ros[r][q] = IF r = m.room[p] /\ q = p THEN m.roster[r][q] - 1 ELSE m.roster[r][q]
  BY <1>2
<1>6. SameSession(m, n) BY RemovePlayerFromRoomSame
<1> HIDE DEF ros
<1>7. /\ n.roster = ros /\ n.errors = m.errors /\ n.registered = m.registered
      /\ n.room = m.room /\ n.fault = m.fault
  BY <1>4 DEF Mud
<1> QED BY <1>3, <1>5, <1>6, <1>7 DEF SameStacks, SameSession

LEMMA AddedToRoom ==
  ASSUME NEW m \in Mud, NEW p \in Account
  PROVE  LET n == AddPlayerToRoom(m, p)
         IN  /\ SameStacks(m, n) /\ n.fault = m.fault
             /\ n.conn = m.conn /\ n.loggedIn = m.loggedIn /\ n.active = m.active
             /\ n.room = m.room
             /\ \A r \in Room, q \in Account :
                  n.roster[r][q] = IF r = m.room[p] /\ q = p THEN m.roster[r][q] + 1
                                   ELSE m.roster[r][q]
<1> DEFINE n == AddPlayerToRoom(m, p)
           ros == [m.roster EXCEPT ![m.room[p]][p] = @ + 1]
<1>2. m.room[p] \in Room /\ m.roster \in [Room -> [Account -> Nat]] BY DEF Mud
<1>4. n = [m EXCEPT !.roster = ros] BY DEF AddPlayerToRoom
<1>5. \A r \in Room, q \in Account :
        ros[r][q] = IF r = m.room[p] /\ q = p THEN m.roster[r][q] + 1 ELSE m.roster[r][q]
  BY <1>2
<1>6. SameSession(m, n) BY AddPlayerToRoomSame
<1> HIDE DEF ros
<1>7. /\ n.roster = ros /\ n.errors = m.errors /\ n.registered = m.registered
      /\ n.room = m.room /\ n.fault = m.fault
  BY <1>4 DEF Mud
<1> QED BY <1>5, <1>6, <1>7 DEF SameStacks, SameSession

LEMMA LoggedOut ==
  ASSUME NEW m \in Mud, NEW p \in Account, m.active[p] => m.loggedIn[p],
         Logout(m, p).fault = "none"
  PROVE  LET n == Logout(m, p)
         IN  /\ SameStacks(m, n) /\ m.fault = "none" /\ ~n.active[p]
             /\ n.conn[p] = NoConn /\ n.room = m.room /\ n.roster = m.roster
             /\ \A q \in Account \ {p} : SameFor(m, n, q)
<1> DEFINE n == Logout(m, p)
           d == Deref(m, m.conn[p])
           l == [d EXCEPT !.conn[p] = NoConn, !.loggedIn[p] = FALSE, !.active[p] = FALSE]
<1>1. n = SavePlayer(l, p) BY DEF Logout
<1>2. SameSession(m, d) BY DerefSame
<1>3. l \in Mud /\ l.fault = d.fault
  <2> HIDE DEF d
  <2> QED BY <1>2 DEF SameSession, Mud
<1>4. n.fault = d.fault
  <2> HIDE DEF l
  <2> QED BY <1>1, <1>3, SavePlayerSeats
<1>5. d = m /\ m.fault = "none" BY <1>4, DerefFaultless
<1>6. /\ l.errors = m.errors /\ l.registered = m.registered
      /\ l.room = m.room /\ l.roster = m.roster
  <2> HIDE DEF d
  <2> QED BY <1>5 DEF Mud
<1>7. /\ n.errors = l.errors /\ n.registered = l.registered /\ n.room = l.room
      /\ n.roster = l.roster
  <2> HIDE DEF l
  <2> QED BY <1>1, <1>3 DEF SavePlayer, Mud
<1>8. /\ n \in Mud /\ StackFrame(m, n) /\ n.conn = [m.conn EXCEPT ![p] = NoConn]
      /\ n.loggedIn = [m.loggedIn EXCEPT ![p] = FALSE]
      /\ n.active = [m.active EXCEPT ![p] = FALSE]
  BY LogoutRetreats
<1>9. /\ m.conn \in [Account -> Conn \cup {NoConn}] /\ m.loggedIn \in [Account -> BOOLEAN]
      /\ m.active \in [Account -> BOOLEAN]
  BY DEF Mud
<1> HIDE DEF n, l, d
<1> QED BY <1>5, <1>6, <1>7, <1>8, <1>9 DEF SameStacks, SameFor, n

\* n has of account p what a player has who left the game: nothing.
Absent(n, p) == ~n.active[p] /\ \A r \in Room : n.roster[r][p] = 0

\* n is m without the player of c.
Left(m, n, c) ==
  /\ SameStacks(m, n) /\ n.room = m.room
  /\ \A q \in Account :
       IF m.base[c] = "Game" /\ q = m.user[c] THEN Absent(n, q) ELSE SameFor(m, n, q)

\* Game::Leave takes the player off the list and, when the connection was told
\* to close, logs him out.
LEMMA GameLeft ==
  ASSUME NEW m, NEW k \in Nat, Good(m, k), Listed(m), NEW c \in Conn,
         m.base[c] = "Game", GameLeave(m, c).fault = "none"
  PROVE  /\ Left(m, GameLeave(m, c), c)
         /\ ~m.closed[c] => /\ GameLeave(m, c).conn = m.conn
                            /\ GameLeave(m, c).loggedIn = m.loggedIn
<1> DEFINE p == m.user[c]
           out == RemovePlayerFromRoom(m, p)
           left == [out EXCEPT !.active[p] = FALSE]
           n == GameLeave(m, c)
<1>1. m \in Mud /\ p \in Account BY DEF Good, HandlersServe
<1>2. n = IF m.closed[c] THEN Logout(left, p) ELSE left BY DEF GameLeave
<1>3. out \in Mud BY <1>1, RemovePlayerFromRoomSame DEF SameSession
<1>4. left \in Mud /\ left.fault = out.fault /\ left.active = [out.active EXCEPT ![p] = FALSE]
      /\ left.conn = out.conn /\ left.loggedIn = out.loggedIn /\ left.room = out.room
      /\ left.roster = out.roster /\ left.errors = out.errors
      /\ left.registered = out.registered /\ StackFrame(out, left)
  <2> HIDE DEF out
  <2> QED BY <1>3 DEF Mud, StackFrame, Frame
<1>5. ~left.active[p]
  <2> HIDE DEF out, left
  <2> QED BY <1>1, <1>3, <1>4 DEF Mud
<1>6. left.fault = "none"
  <2> HIDE DEF left, p
  <2>1. ASSUME Logout(left, p).fault = "none" PROVE left.fault = "none"
    BY <1>1, <1>4, <1>5, <2>1, LoggedOut
  <2>2. n.fault = "none" OBVIOUS
  <2> QED BY <1>2, <2>1, <2>2
<1>7. /\ SameStacks(m, out) /\ m.roster[m.room[p]][p] > 0
      /\ out.conn = m.conn /\ out.loggedIn = m.loggedIn /\ out.active = m.active
      /\ out.room = m.room
      /\ \A r \in Room, q \in Account :
           out.roster[r][q] = IF r = m.room[p] /\ q = p THEN m.roster[r][q] - 1
                              ELSE m.roster[r][q]
  <2>1. out.fault = "none" BY <1>4, <1>6
  <2> QED BY <1>1, <2>1, RemovedFromRoom
<1> HIDE DEF out
<1>8. m.room[p] \in Room /\ m.active \in [Account -> BOOLEAN] BY <1>1 DEF Mud
<1>9. Absent(left, p) BY <1>1, <1>4, <1>5, <1>7, <1>8 DEF Absent, Listed
<1>10. ASSUME NEW q \in Account \ {p} PROVE SameFor(m, left, q)
  <2> HIDE DEF p
  <2> QED BY <1>4, <1>7, <1>8 DEF SameFor
<1>11. SameStacks(m, left) /\ left.room = m.room BY <1>4, <1>7 DEF SameStacks, StackFrame, Frame
<1> HIDE DEF left
<1>12. CASE ~m.closed[c]
  BY <1>2, <1>4, <1>7, <1>9, <1>10, <1>11, <1>12 DEF Left
<1>13. CASE m.closed[c]
  <2> DEFINE o == Logout(left, p)
  <2>1. /\ SameStacks(left, o) /\ ~o.active[p] /\ o.room = left.room /\ o.roster = left.roster
        /\ \A q \in Account \ {p} : SameFor(left, o, q)
    <3> HIDE DEF p
    <3>1. o.fault = "none" BY <1>2, <1>13
    <3> QED BY <1>1, <1>4, <1>5, <3>1, LoggedOut
  <2> HIDE DEF o
  <2>2. Left(m, o, c)
    BY <1>9, <1>10, <1>11, <2>1 DEF Left, Absent, SameFor, SameStacks, StackFrame, Frame
  <2> QED BY <1>2, <1>13, <2>2 DEF o
<1> QED BY <1>12, <1>13

\* Leave() of whatever handler is on top: a player who trains has left before.
LEMMA TopLeft ==
  ASSUME NEW m, NEW k \in Nat, Good(m, k), Seated(m), NEW c \in Conn,
         LeaveTop(m, c).fault = "none"
  PROVE  Left(m, LeaveTop(m, c), c)
<1>1. m \in Mud /\ m.trains[c] \in Nat BY DEF Good, Mud
<1>2. CASE Top(m, c) = "Game"
  <2>1. m.base[c] = "Game" BY <1>2 DEF Top
  <2> QED BY <1>2, <2>1, GameLeft DEF LeaveTop, Seated
<1>3. CASE Top(m, c) # "Game"
  <2>1. LeaveTop(m, c) = m BY <1>3 DEF LeaveTop
  <2>2. m.base[c] = "Game" => Absent(m, m.user[c])
    <3> SUFFICES ASSUME m.base[c] = "Game" PROVE Absent(m, m.user[c]) OBVIOUS
    <3>1. m.trains[c] > 0 /\ m.user[c] \in Account /\ m.conn[m.user[c]] = c
      BY <1>1, <1>3 DEF Top, Seated, Owners, Owns, Good, HandlersServe
    <3>2. ~m.active[m.user[c]] BY <3>1 DEF Good, PointersServe
    <3> QED BY <3>1, <3>2 DEF Seated, Listed, Absent
  <2>3. SameStacks(m, m) /\ \A q \in Account : SameFor(m, m, q)
    BY <1>1 DEF SameStacks, SameFor, StackFrame, Frame
  <2> QED BY <2>1, <2>2, <2>3 DEF Left
<1> QED BY <1>2, <1>3

\* n is m without the player and the stack of c; the rest of c does not matter
\* except that it is not told to close when it is out of the list.
Vacated(m, n, c) ==
  /\ n \in Mud /\ n.registered = m.registered /\ n.room = m.room
  /\ n.base = [m.base EXCEPT ![c] = "none"] /\ n.trains = [m.trains EXCEPT ![c] = 0]
  /\ n.closed[c] => c \in n.open
  /\ \A d \in Conn \ {c} :
       /\ n.user[d] = m.user[d] /\ n.logon[d] = m.logon[d] /\ n.closed[d] = m.closed[d]
       /\ n.errors[d] = m.errors[d] /\ (d \in n.open <=> d \in m.open)
  /\ \A q \in Account :
       IF m.base[c] = "Game" /\ q = m.user[c] THEN Absent(n, q) ELSE SameFor(m, n, q)

LEMMA VacatedSeated ==
  ASSUME NEW m, NEW k \in Nat, Good(m, k), Seated(m), NEW c \in Conn, NEW n, Vacated(m, n, c)
  PROVE  Seated(n)
<1>0. m \in Mud /\ m.base \in [Conn -> {"none", "Logon", "Game"}] /\ m.trains \in [Conn -> Nat]
  BY DEF Good, Mud
<1>1. n.base[c] = "none" /\ n.trains[c] = 0 BY <1>0 DEF Vacated
<1>2. ASSUME NEW d \in Conn \ {c}
      PROVE  /\ n.base[d] = m.base[d] /\ n.trains[d] = m.trains[d] /\ n.user[d] = m.user[d]
             /\ n.logon[d] = m.logon[d] /\ n.closed[d] = m.closed[d]
             /\ n.errors[d] = m.errors[d] /\ (d \in n.open <=> d \in m.open)
  BY <1>0 DEF Vacated
<1>3. ASSUME NEW d \in Conn \ {c}, m.base[d] = "Game"
      PROVE  /\ m.user[d] \in Account /\ SameFor(m, n, m.user[d])
  <2>1. m.user[d] \in Account /\ m.conn[m.user[d]] = d
    BY <1>3 DEF Seated, Owners, Owns, Good, HandlersServe
  <2>2. m.base[c] = "Game" => m.user[c] # m.user[d]
    BY <2>1 DEF Seated, Owners, Owns
  <2> QED BY <2>1, <2>2 DEF Vacated
<1>4. Owners(n)
  <2> SUFFICES ASSUME NEW d \in Conn PROVE Owns(n, d) BY DEF Owners
  <2>1. CASE d = c BY <1>1, <2>1 DEF Owns, Vacated
  <2>2. CASE d # c
    <3>1. n.registered = m.registered BY DEF Vacated
    <3> QED BY <1>2, <1>3, <2>2, <3>1 DEF Seated, Owners, Owns, SameFor
  <2> QED BY <2>1, <2>2
<1>5. Listed(n) BY DEF Vacated, Absent, SameFor, Seated, Listed
<1> QED BY <1>4, <1>5 DEF Seated

LEMMA Cleared ==
  ASSUME NEW m, NEW k \in Nat, Good(m, k), Seated(m), NEW c \in Conn,
         ClearHandlers(m, c).fault = "none"
  PROVE  LET n == ClearHandlers(m, c)
         IN  Vacated(m, n, c) /\ n.open = m.open /\ n.closed = m.closed /\ n.user = m.user
<1> DEFINE l == LeaveTop(m, c)
           n == [l EXCEPT !.base[c] = "none", !.trains[c] = 0]
<1>0. ClearHandlers(m, c) = n BY DEF ClearHandlers
<1>1. l \in Mud BY LeaveTopRetreats DEF Retreat
<1>2. /\ n \in Mud /\ n.fault = l.fault /\ n.base = [l.base EXCEPT ![c] = "none"]
      /\ n.trains = [l.trains EXCEPT ![c] = 0] /\ n.open = l.open /\ n.closed = l.closed
      /\ n.user = l.user /\ n.logon = l.logon /\ n.errors = l.errors
      /\ n.registered = l.registered /\ n.room = l.room /\ n.roster = l.roster
      /\ n.conn = l.conn /\ n.loggedIn = l.loggedIn /\ n.active = l.active
  <2> HIDE DEF l
  <2> QED BY <1>1 DEF Mud
<1>3. Left(m, l, c) BY <1>0, <1>2, TopLeft
<1>4. \A d \in Conn : m.closed[d] => d \in m.open BY DEF Seated, Owners, Owns
<1> HIDE DEF l, n
<1>5. Vacated(m, n, c)
  BY <1>2, <1>3, <1>4 DEF Vacated, Left, Absent, SameFor, SameStacks, StackFrame, Frame
<1> QED BY <1>0, <1>2, <1>3, <1>5 DEF Left, SameStacks, StackFrame, Frame

-----------------------------------------------------------------------------
(* Closing, erasing and logging off. *)

\* Who enters is told to close only at the end of a pass.
LEMMA ShutSeated ==
  ASSUME NEW m \in Mud, Seated(m), NEW c \in m.open,
         m.base[c] = "Logon" => m.errors[c] = MaxErrors
  PROVE  Seated([m EXCEPT !.closed[c] = TRUE])
<1> DEFINE n == [m EXCEPT !.closed[c] = TRUE]
<1>1. c \in Conn /\ m.closed \in [Conn -> BOOLEAN] BY DEF Mud
<1>2. /\ n.open = m.open /\ n.base = m.base /\ n.trains = m.trains /\ n.user = m.user
      /\ n.logon = m.logon /\ n.errors = m.errors /\ n.registered = m.registered
      /\ n.conn = m.conn /\ n.loggedIn = m.loggedIn /\ n.active = m.active
      /\ n.room = m.room /\ n.roster = m.roster
      /\ n.closed = [m.closed EXCEPT ![c] = TRUE]
  BY DEF Mud
<1> HIDE DEF n
<1> QED BY <1>1, <1>2 DEF Seated, Owners, Owns, Listed

\* Left, when c may have been told to close.
LeftShut(m, l, c) ==
  /\ l \in Mud /\ Frame(m, l) /\ l.base = m.base /\ l.trains = m.trains
  /\ l.logon = m.logon /\ l.errors = m.errors /\ l.registered = m.registered
  /\ l.room = m.room /\ \A d \in Conn \ {c} : l.closed[d] = m.closed[d]
  /\ \A q \in Account :
       IF m.base[c] = "Game" /\ q = m.user[c] THEN Absent(l, q) ELSE SameFor(m, l, q)

\* The list node is freed after the top handler has been left.
LEMMA NodeFreed ==
  ASSUME NEW m \in Mud, NEW o \in Mud, NEW c \in Conn, LeftShut(m, LeaveTop(o, c), c)
  PROVE  Vacated(m, Erase(o, c), c) /\ Erase(o, c).fault = LeaveTop(o, c).fault
<1> DEFINE l == LeaveTop(o, c)
           b == [l EXCEPT !.base[c] = "none", !.trains[c] = 0]
           n == [b EXCEPT !.open = @ \ {c}, !.closed[c] = FALSE,
                          !.logon[c] = "NEWCONNECTION", !.errors[c] = 0,
                          !.user[c] = NoAccount]
<1>1. Erase(o, c) = n BY DEF Erase, ClearHandlers
<1>2. l \in Mud BY DEF LeftShut
<1> HIDE DEF l
<1>3. /\ b \in Mud /\ b.fault = l.fault /\ b.base = [l.base EXCEPT ![c] = "none"]
      /\ b.trains = [l.trains EXCEPT ![c] = 0] /\ b.open = l.open /\ b.closed = l.closed
      /\ b.user = l.user /\ b.logon = l.logon /\ b.errors = l.errors
      /\ b.registered = l.registered /\ b.room = l.room /\ b.roster = l.roster
      /\ b.conn = l.conn /\ b.loggedIn = l.loggedIn /\ b.active = l.active
  BY <1>2 DEF Mud
<1> HIDE DEF b
<1>4. 0 \in 0 .. MaxErrors /\ "NEWCONNECTION" \in LogonState
  BY ConstantsAssumption DEF ConstantsAssumption, LogonState
<1>5. /\ n \in Mud /\ n.fault = b.fault /\ n.base = b.base /\ n.trains = b.trains
      /\ n.open = b.open \ {c} /\ n.closed = [b.closed EXCEPT ![c] = FALSE]
      /\ n.user = [b.user EXCEPT ![c] = NoAccount]
      /\ n.logon = [b.logon EXCEPT ![c] = "NEWCONNECTION"]
      /\ n.errors = [b.errors EXCEPT ![c] = 0]
      /\ n.registered = b.registered /\ n.room = b.room /\ n.roster = b.roster
      /\ n.conn = b.conn /\ n.loggedIn = b.loggedIn /\ n.active = b.active
  BY <1>3, <1>4 DEF Mud
<1> HIDE DEF n
<1>6. /\ l.closed \in [Conn -> BOOLEAN] /\ l.user \in [Conn -> Account \cup {NoAccount}]
      /\ l.logon \in [Conn -> LogonState] /\ l.errors \in [Conn -> 0 .. MaxErrors]
  BY <1>2 DEF Mud
<1>7. \A d \in Conn \ {c} :
        /\ n.user[d] = m.user[d] /\ n.logon[d] = m.logon[d] /\ n.closed[d] = m.closed[d]
        /\ n.errors[d] = m.errors[d] /\ (d \in n.open <=> d \in m.open)
  BY <1>3, <1>5, <1>6 DEF LeftShut, Frame, l
<1>8. ~n.closed[c] BY <1>3, <1>5, <1>6
<1>9. \A q \in Account :
        IF m.base[c] = "Game" /\ q = m.user[c] THEN Absent(n, q) ELSE SameFor(m, n, q)
  BY <1>3, <1>5 DEF LeftShut, Absent, SameFor, l
<1>10. /\ n.registered = m.registered /\ n.room = m.room
       /\ n.base = [m.base EXCEPT ![c] = "none"] /\ n.trains = [m.trains EXCEPT ![c] = 0]
  BY <1>3, <1>5 DEF LeftShut, l
<1> QED BY <1>1, <1>3, <1>5, <1>7, <1>8, <1>9, <1>10 DEF Vacated, l

LEMMA Erased ==
  ASSUME NEW m, NEW k \in Nat, Good(m, k), Seated(m), NEW c \in Conn,
         Erase(m, c).fault = "none"
  PROVE  Vacated(m, Erase(m, c), c)
<1>1. m \in Mud /\ LeaveTop(m, c) \in Mud BY LeaveTopRetreats DEF Good, Retreat
<1>2. LeaveTop(m, c).fault = "none"
  <2> DEFINE l == LeaveTop(m, c)
             b == [l EXCEPT !.base[c] = "none", !.trains[c] = 0]
  <2>1. Erase(m, c) = [b EXCEPT !.open = @ \ {c}, !.closed[c] = FALSE,
                          !.logon[c] = "NEWCONNECTION", !.errors[c] = 0,
                          !.user[c] = NoAccount]
    BY DEF Erase, ClearHandlers
  <2> HIDE DEF l
  <2>2. b \in Mud /\ b.fault = l.fault BY <1>1 DEF Mud, l
  <2> HIDE DEF b
  <2>3. b.fault = "none" BY <2>1, <2>2 DEF Mud
  <2> QED BY <2>2, <2>3 DEF l
<1>3. Left(m, LeaveTop(m, c), c) BY <1>2, TopLeft
<1>4. LeftShut(m, LeaveTop(m, c), c) BY <1>3 DEF Left, LeftShut, SameStacks, StackFrame
<1> QED BY <1>1, <1>4, NodeFreed

\* What Listen and Send do with a connection, whatever runs on it.
LEMMA Expelled ==
  ASSUME NEW m, NEW k \in Nat, Good(m, k), Seated(m), NEW c \in m.open,
         Expel(m, c).fault = "none"
  PROVE  Vacated(m, Expel(m, c), c)
<1> DEFINE shut == [m EXCEPT !.closed[c] = TRUE]
           told == TellGone(shut, c)
<1>0. c \in Conn /\ m \in Mud BY DEF Good, Mud
<1>1. Expel(m, c) = Erase(told, c) BY DEF Expel
<1>2. /\ shut \in Mud /\ Frame(m, shut) /\ shut.base = m.base /\ shut.trains = m.trains
      /\ shut.logon = m.logon /\ shut.errors = m.errors /\ shut.registered = m.registered
      /\ shut.room = m.room /\ shut.roster = m.roster /\ shut.conn = m.conn
      /\ shut.loggedIn = m.loggedIn /\ shut.active = m.active
      /\ shut.closed = [m.closed EXCEPT ![c] = TRUE] /\ shut.fault = m.fault
  BY <1>0 DEF Mud, Frame
<1>3. Good(shut, k) BY <1>0, CloseGood
<1> HIDE DEF shut
<1>4. Top(shut, c) = Top(m, c) /\ m.closed \in [Conn -> BOOLEAN] /\ m.trains[c] \in Nat
      /\ m.base[c] \in {"none", "Logon", "Game"}
  BY <1>0, <1>2 DEF Top, Mud
<1>5. told \in Mud BY <1>0, <1>3, TellGoneRetreats DEF Retreat
<1>6. CASE Top(m, c) = "none"
  <2>1. told = Crash(shut, "null handler") BY <1>4, <1>6 DEF TellGone
  <2>2. told.fault # "none"
    <3> HIDE DEF told
    <3>1. Crash(shut, "null handler").fault # "none" BY <1>2, CrashFaults
    <3> QED BY <2>1, <3>1
  <2>3. told.base = shut.base /\ told.trains = shut.trains BY <1>2, <2>1 DEF Crash, Mud
  <2>4. LeaveTop(told, c) = told BY <1>4, <1>6, <2>3 DEF LeaveTop, Top
  <2> DEFINE b == [told EXCEPT !.base[c] = "none", !.trains[c] = 0]
  <2>5. Erase(told, c) = [b EXCEPT !.open = @ \ {c}, !.closed[c] = FALSE,
                          !.logon[c] = "NEWCONNECTION", !.errors[c] = 0,
                          !.user[c] = NoAccount]
    BY <2>4 DEF Erase, ClearHandlers
  <2> HIDE DEF told
  <2>6. b \in Mud /\ b.fault = told.fault BY <1>5 DEF Mud
  <2> HIDE DEF b
  <2>7. Erase(told, c).fault = b.fault BY <2>5, <2>6 DEF Mud
  <2> QED BY <1>1, <2>2, <2>6, <2>7
<1>7. CASE Top(m, c) = "Logon"
  <2>1. told = shut /\ LeaveTop(shut, c) = shut BY <1>4, <1>7 DEF TellGone, LeaveTop
  <2>2. m.base[c] # "Game" BY <1>4, <1>7, <1>0 DEF Top, Good, HandlersServe
  <2>3. LeftShut(m, shut, c) BY <1>2, <1>4, <2>2 DEF LeftShut, SameFor
  <2> QED BY <1>0, <1>1, <1>2, <2>1, <2>3, NodeFreed
<1>8. CASE Top(m, c) = "Game"
  <2>1. told = shut BY <1>4, <1>8 DEF TellGone
  <2>2. m.base[c] = "Game" BY <1>4, <1>8 DEF Top
  <2>3. Seated(shut) BY <1>0, <2>2, ShutSeated DEF shut
  <2>4. Vacated(shut, Erase(shut, c), c) BY <1>0, <1>1, <1>3, <2>1, <2>3, Erased
  <2>5. \A d \in Conn \ {c} : shut.closed[d] = m.closed[d] BY <1>2, <1>4
  <2> QED BY <1>1, <1>2, <2>1, <2>4, <2>5 DEF Vacated, Frame, SameFor
<1>9. CASE Top(m, c) = "Train"
  <2> DEFINE p == m.user[c]
  <2>1. m.trains[c] > 0 BY <1>4, <1>9 DEF Top
  <2>2. m.base[c] = "Game" /\ p \in Account /\ m.conn[p] = c
    BY <1>0, <2>1 DEF Seated, Owners, Owns, Good, HandlersServe
  <2>3. ~m.active[p] BY <1>0, <2>1, <2>2 DEF Good, PointersServe
  <2>4. told = Logout(shut, p) BY <1>2, <1>4, <1>9 DEF TellGone, Frame
  <2>5. Retreat(shut, told) BY <1>0, <1>3, TellGoneRetreats
  <2>6. Top(told, c) = "Train" BY <1>4, <1>9, <2>5 DEF Top, Retreat, StackFrame
  <2>7. LeaveTop(told, c) = told BY <2>6 DEF LeaveTop
  <2>8. told.fault = "none"
    <3> DEFINE b == [told EXCEPT !.base[c] = "none", !.trains[c] = 0]
    <3>1. Erase(told, c) = [b EXCEPT !.open = @ \ {c}, !.closed[c] = FALSE,
                            !.logon[c] = "NEWCONNECTION", !.errors[c] = 0,
                            !.user[c] = NoAccount]
      BY <2>7 DEF Erase, ClearHandlers
    <3> HIDE DEF told
    <3>2. b \in Mud /\ b.fault = told.fault BY <1>5 DEF Mud
    <3> HIDE DEF b
    <3>3. Erase(told, c).fault = b.fault BY <3>1, <3>2 DEF Mud
    <3> QED BY <1>1, <3>2, <3>3
  <2> HIDE DEF told, p
  <2>9. /\ SameStacks(shut, told) /\ ~told.active[p] /\ told.room = shut.room
        /\ told.roster = shut.roster /\ \A q \in Account \ {p} : SameFor(shut, told, q)
    <3>1. shut.active[p] => shut.loggedIn[p] BY <1>2, <2>3
    <3>2. Logout(shut, p).fault = "none" BY <2>4, <2>8
    <3> QED BY <1>2, <2>2, <2>4, <3>1, <3>2, LoggedOut
  <2>10. Absent(told, p)
    BY <1>2, <2>2, <2>3, <2>9 DEF Absent, Seated, Listed
  <2>11. \A d \in Conn \ {c} : told.closed[d] = m.closed[d]
    BY <1>2, <1>4, <2>9 DEF SameStacks, StackFrame
  <2>12. LeftShut(m, told, c)
    BY <1>2, <1>5, <2>2, <2>9, <2>10, <2>11
    DEF LeftShut, SameStacks, StackFrame, Frame, SameFor, p
  <2> QED BY <1>0, <1>1, <1>5, <2>7, <2>12, NodeFreed
<1> QED BY <1>4, <1>6, <1>7, <1>8, <1>9 DEF Top

\* n is m without whoever played account p, told to close and off the stack;
\* he is still in the list.
Evicted(m, n, p) ==
  /\ Absent(n, p) /\ n.registered = m.registered
  /\ \A d \in Conn :
       IF m.base[d] = "Game" /\ m.user[d] = p
       THEN n.base[d] = "none" /\ n.trains[d] = 0
       ELSE /\ n.base[d] = m.base[d] /\ n.trains[d] = m.trains[d]
            /\ n.closed[d] = m.closed[d] /\ n.logon[d] = m.logon[d]
            /\ n.errors[d] = m.errors[d]

\* The account that logs in is free when the older session has been logged off.
LEMMA LoggedOff ==
  ASSUME NEW m, NEW k \in Nat, Good(m, k), Seated(m), NEW p \in Account,
         LogOffPrevious(m, p).fault = "none"
  PROVE  Seated(LogOffPrevious(m, p)) /\ Evicted(m, LogOffPrevious(m, p), p)
<1> DEFINE c == m.conn[p]
           at == Deref(m, c)
           shut == [m EXCEPT !.closed[c] = TRUE]
           told == TellGone(shut, c)
<1>0. m \in Mud BY DEF Good
<1>1. LogOffPrevious(m, p) = IF ~m.loggedIn[p] THEN m
                             ELSE IF at.fault # "none" THEN at
                             ELSE IF told.conn[p] = NoConn
                                  THEN Crash(told, "null connection")
                             ELSE ClearHandlers(told, c)
  BY DEF LogOffPrevious
<1>2. CASE ~m.loggedIn[p]
  <2>1. ~m.active[p] BY <1>2 DEF Good, PointersServe
  <2>2. Absent(m, p) BY <2>1 DEF Absent, Seated, Listed
  <2>3. \A d \in Conn : ~(m.base[d] = "Game" /\ m.user[d] = p)
    BY <1>2 DEF Seated, Owners, Owns
  <2> QED BY <1>1, <1>2, <2>2, <2>3 DEF Evicted
<1>3. CASE m.loggedIn[p]
  <2>1. at.fault = "none" BY <1>1, <1>3
  <2>2. c \in m.open /\ c \in Conn BY <1>0, <2>1, DerefFaultless DEF Mud
  <2>3. m.user[c] = p /\ m.base[c] \in {"none", "Game"}
    BY <1>0, <2>2 DEF Good, PointersServe, Mud
  <2>4. /\ shut \in Mud /\ shut.user = m.user /\ shut.base = m.base /\ shut.trains = m.trains
        /\ shut.logon = m.logon /\ shut.errors = m.errors /\ shut.registered = m.registered
        /\ shut.room = m.room /\ shut.roster = m.roster /\ shut.conn = m.conn
        /\ shut.loggedIn = m.loggedIn /\ shut.active = m.active
        /\ shut.closed = [m.closed EXCEPT ![c] = TRUE] /\ shut.fault = m.fault
    <3> HIDE DEF c
    <3> QED BY <1>0, <2>2 DEF Mud
  <2>5. Good(shut, k) BY <2>2, CloseGood
  <2> HIDE DEF at, shut
  <2>6. told \in Mud BY <2>2, <2>5, TellGoneRetreats DEF Retreat
  <2>7. m.trains[c] \in Nat /\ m.closed \in [Conn -> BOOLEAN] /\ Top(shut, c) = Top(m, c)
    BY <1>0, <2>2, <2>4 DEF Mud, Top
  <2>8. told.conn[p] # NoConn /\ ClearHandlers(told, c).fault = "none"
    <3>1. Crash(told, "null connection").fault # "none"
      <4> HIDE DEF told
      <4> QED BY <2>6, CrashFaults
    <3> QED BY <1>1, <1>3, <2>1, <3>1
  <2>9. CASE Top(m, c) = "none"
    <3>1. told = Crash(shut, "null handler") BY <2>7, <2>9 DEF TellGone
    <3>2. told.fault # "none"
      <4>1. Crash(shut, "null handler").fault # "none" BY <2>4, CrashFaults
      <4> HIDE DEF told
      <4> QED BY <3>1, <4>1
    <3>3. told.base = shut.base /\ told.trains = shut.trains BY <2>4, <3>1 DEF Crash, Mud
    <3>4. LeaveTop(told, c) = told BY <2>7, <2>9, <3>3 DEF LeaveTop, Top
    <3>5. ClearHandlers(told, c) = [told EXCEPT !.base[c] = "none", !.trains[c] = 0]
      BY <3>4 DEF ClearHandlers
    <3> HIDE DEF told
    <3>6. ClearHandlers(told, c).fault = told.fault BY <2>6, <3>5 DEF Mud
    <3> QED BY <2>8, <3>2, <3>6
  <2>10. CASE Top(m, c) = "Train"
    <3>1. told = Logout(shut, p) BY <2>3, <2>4, <2>7, <2>10 DEF TellGone
    <3>2. shut.active[p] => shut.loggedIn[p] BY <2>5 DEF Good, PointersServe
    <3>3. told.conn = [shut.conn EXCEPT ![p] = NoConn]
      <4> HIDE DEF told
      <4> QED BY <2>4, <3>1, <3>2, LogoutRetreats
    <3>4. shut.conn \in [Account -> Conn \cup {NoConn}] BY <2>4 DEF Mud
    <3> HIDE DEF told
    <3> QED BY <2>8, <3>3, <3>4
  <2>11. CASE Top(m, c) = "Game"
    <3>1. told = shut /\ m.base[c] = "Game" BY <2>7, <2>11 DEF TellGone, Top
    <3>2. Seated(shut) BY <1>0, <2>2, <3>1, ShutSeated DEF shut
    <3> DEFINE n == ClearHandlers(shut, c)
    <3>3. Vacated(shut, n, c) /\ n.closed = shut.closed
      BY <2>2, <2>5, <2>8, <3>1, <3>2, Cleared
    <3>4. Seated(n) BY <2>2, <2>5, <3>2, <3>3, VacatedSeated
    <3>5. LogOffPrevious(m, p) = n BY <1>1, <1>3, <2>1, <2>8, <3>1
    <3> HIDE DEF n
    <3>6. \A d \in Conn : m.base[d] = "Game" /\ m.user[d] = p => d = c
      BY DEF Seated, Owners, Owns
    <3>7. m.base \in [Conn -> {"none", "Logon", "Game"}] /\ m.trains \in [Conn -> Nat]
      BY <1>0 DEF Mud
    <3>8. n.registered = m.registered /\ Absent(n, p)
      BY <2>3, <2>4, <3>1, <3>3 DEF Vacated
    <3>9. n.base[c] = "none" /\ n.trains[c] = 0 BY <2>2, <2>4, <3>3, <3>7 DEF Vacated
    <3>10. ASSUME NEW d \in Conn \ {c}
           PROVE  /\ n.base[d] = m.base[d] /\ n.trains[d] = m.trains[d]
                  /\ n.closed[d] = m.closed[d] /\ n.logon[d] = m.logon[d]
                  /\ n.errors[d] = m.errors[d]
      <4>1. n.closed[d] = shut.closed[d] /\ n.logon[d] = shut.logon[d]
            /\ n.errors[d] = shut.errors[d]
        BY <3>3 DEF Vacated
      <4>2. n.base = [shut.base EXCEPT ![c] = "none"]
            /\ n.trains = [shut.trains EXCEPT ![c] = 0]
        BY <3>3 DEF Vacated
      <4> HIDE DEF c
      <4> QED BY <2>4, <2>7, <3>7, <4>1, <4>2
    <3>11. Evicted(m, n, p)
      <4> HIDE DEF c
      <4> QED BY <2>3, <3>1, <3>6, <3>8, <3>9, <3>10 DEF Evicted
    <3> QED BY <3>4, <3>5, <3>11
  <2> QED BY <2>3, <2>4, <2>7, <2>9, <2>10, <2>11 DEF Top
<1> QED BY <1>2, <1>3

\* Entering the Game handler puts one more of the player on his room's list.
LEMMA Entered ==
  ASSUME NEW m \in Mud, NEW p \in Account
  PROVE  LET n == GameEnter(m, p)
         IN  /\ SameStacks(m, n) /\ n.fault = m.fault
             /\ n.conn = m.conn /\ n.room = m.room
             /\ n.loggedIn = [m.loggedIn EXCEPT ![p] = TRUE]
             /\ n.active = [m.active EXCEPT ![p] = TRUE]
             /\ \A r \in Room, q \in Account :
                  n.roster[r][q] = IF r = m.room[p] /\ q = p THEN m.roster[r][q] + 1
                                   ELSE m.roster[r][q]
<1> DEFINE in == AddPlayerToRoom(m, p)
           n == [in EXCEPT !.active[p] = TRUE, !.loggedIn[p] = TRUE]
<1>1. /\ SameStacks(m, in) /\ in.fault = m.fault
      /\ in.conn = m.conn /\ in.loggedIn = m.loggedIn /\ in.active = m.active
      /\ in.room = m.room
      /\ \A r \in Room, q \in Account :
           in.roster[r][q] = IF r = m.room[p] /\ q = p THEN m.roster[r][q] + 1
                             ELSE m.roster[r][q]
  BY AddedToRoom
<1>2. GameEnter(m, p) = n BY DEF GameEnter
<1> HIDE DEF in
<1>3. /\ n \in Mud /\ StackFrame(in, n) /\ n.errors = in.errors
      /\ n.registered = in.registered /\ n.fault = in.fault /\ n.conn = in.conn
      /\ n.room = in.room /\ n.roster = in.roster
      /\ n.loggedIn = [in.loggedIn EXCEPT ![p] = TRUE]
      /\ n.active = [in.active EXCEPT ![p] = TRUE]
  BY <1>1 DEF SameStacks, StackFrame, Frame, Mud
<1> HIDE DEF n
<1> QED BY <1>1, <1>2, <1>3 DEF SameStacks, StackFrame, Frame

\* A player who is sent to train while nobody told his connection to close.
LEMMA Trained ==
  ASSUME NEW m, NEW k \in Nat, Good(m, k), Seated(m), NEW p \in Account, NEW c \in Conn,
         c = m.conn[p], m.base[c] = "Game", m.user[c] = p, m.trains[c] = 0, ~m.closed[c],
         GotoTrain(m, p).fault = "none"
  PROVE  LET n == GotoTrain(m, p)
         IN  /\ Seated(n) /\ n.base = m.base /\ n.closed = m.closed
             /\ n.user = m.user /\ n.open = m.open
<1> DEFINE off == [m EXCEPT !.active[p] = FALSE]
           at == Deref(off, c)
           out == RemovePlayerFromRoom(off, p)
           left == [out EXCEPT !.active[p] = FALSE]
           pushed == [left EXCEPT !.trains[c] = @ + 1]
           n == [pushed EXCEPT !.active[p] = FALSE]
<1>0. m \in Mud BY DEF Good
<1>1. /\ off \in Mud /\ off.active = [m.active EXCEPT ![p] = FALSE]
      /\ StackFrame(m, off) /\ off.errors = m.errors /\ off.registered = m.registered
      /\ off.conn = m.conn /\ off.loggedIn = m.loggedIn /\ off.room = m.room
      /\ off.roster = m.roster /\ off.fault = m.fault
  BY <1>0 DEF Mud, StackFrame, Frame
<1>2. GotoTrain(m, p) = IF at.fault # "none" THEN at
                        ELSE EnterTop([LeaveTop(at, c) EXCEPT !.trains[c] = @ + 1], c)
  BY DEF GotoTrain
<1> HIDE DEF off
<1>3. at.fault = "none" BY <1>2
<1>4. at = off /\ c \in off.open BY <1>1, <1>3, DerefFaultless
<1>5. Top(off, c) = "Game" /\ ~off.closed[c] /\ off.user[c] = p
  BY <1>1 DEF StackFrame, Frame, Top
<1>6. LeaveTop(off, c) = left BY <1>5 DEF LeaveTop, GameLeave
<1>7. GotoTrain(m, p) = EnterTop(pushed, c) BY <1>2, <1>3, <1>4, <1>6
<1>8. SameSession(off, out) BY <1>1, RemovePlayerFromRoomSame
<1> HIDE DEF out
<1>9. /\ left \in Mud /\ StackFrame(off, left) /\ left.active = [out.active EXCEPT ![p] = FALSE]
      /\ left.conn = out.conn /\ left.loggedIn = out.loggedIn /\ left.room = out.room
      /\ left.roster = out.roster /\ left.errors = out.errors
      /\ left.registered = out.registered /\ left.fault = out.fault
  BY <1>8 DEF SameSession, StackFrame, Frame, Mud
<1> HIDE DEF left
<1>10. /\ pushed \in Mud /\ pushed.trains = [left.trains EXCEPT ![c] = @ + 1]
       /\ Frame(left, pushed) /\ pushed.base = left.base /\ pushed.closed = left.closed
       /\ pushed.logon = left.logon /\ pushed.active = left.active
       /\ pushed.conn = left.conn /\ pushed.loggedIn = left.loggedIn
       /\ pushed.room = left.room /\ pushed.roster = left.roster
       /\ pushed.errors = left.errors /\ pushed.registered = left.registered
       /\ pushed.fault = left.fault
  <2> DEFINE t == [left.trains EXCEPT ![c] = @ + 1]
  <2>1. t \in [Conn -> Nat] BY <1>9 DEF Mud
  <2>2. pushed = [left EXCEPT !.trains = t] OBVIOUS
  <2> HIDE DEF t, pushed
  <2>3. /\ pushed \in Mud /\ pushed.trains = t
        /\ Frame(left, pushed) /\ pushed.base = left.base /\ pushed.closed = left.closed
        /\ pushed.logon = left.logon /\ pushed.active = left.active
        /\ pushed.conn = left.conn /\ pushed.loggedIn = left.loggedIn
        /\ pushed.room = left.room /\ pushed.roster = left.roster
        /\ pushed.errors = left.errors /\ pushed.registered = left.registered
        /\ pushed.fault = left.fault
    BY <1>9, <2>1, <2>2 DEF Frame, Mud
  <2> QED BY <2>3 DEF t
<1> HIDE DEF pushed
<1>11. left.trains = m.trains /\ m.trains[c] \in Nat /\ m.trains \in [Conn -> Nat]
  BY <1>0, <1>1, <1>9 DEF StackFrame, Mud
<1>12. pushed.trains[c] = 1 BY <1>10, <1>11
<1>13. pushed.user[c] = p BY <1>1, <1>9, <1>10 DEF StackFrame, Frame
<1>14. GotoTrain(m, p) = n BY <1>7, <1>12, <1>13 DEF EnterTop, Top
<1>15. /\ n \in Mud /\ n.trains = pushed.trains /\ n.open = pushed.open
       /\ n.user = pushed.user /\ n.base = pushed.base /\ n.closed = pushed.closed
       /\ n.logon = pushed.logon /\ n.active = [pushed.active EXCEPT ![p] = FALSE]
       /\ n.conn = pushed.conn /\ n.loggedIn = pushed.loggedIn
       /\ n.room = pushed.room /\ n.roster = pushed.roster
       /\ n.errors = pushed.errors /\ n.registered = pushed.registered
       /\ n.fault = pushed.fault
  BY <1>10 DEF Mud
<1> HIDE DEF n
<1>16. out.fault = "none" BY <1>9, <1>10, <1>14, <1>15
<1>17. /\ SameStacks(off, out) /\ out.conn = off.conn /\ out.loggedIn = off.loggedIn
       /\ out.active = off.active /\ out.room = off.room
       /\ \A r \in Room, q \in Account :
            out.roster[r][q] = IF r = off.room[p] /\ q = p THEN off.roster[r][q] - 1
                               ELSE off.roster[r][q]
       /\ off.roster[off.room[p]][p] > 0
  <2>1. RemovePlayerFromRoom(off, p).fault = "none" BY <1>16 DEF out
  <2> QED BY <1>1, <2>1, RemovedFromRoom DEF out
<1>18. /\ n.base = m.base /\ n.closed = m.closed /\ n.user = m.user /\ n.open = m.open
       /\ n.logon = m.logon /\ n.errors = m.errors /\ n.registered = m.registered
       /\ n.conn = m.conn /\ n.loggedIn = m.loggedIn /\ n.room = m.room
       /\ n.trains = [m.trains EXCEPT ![c] = 1]
  <2>1. n.trains = [m.trains EXCEPT ![c] = 1] BY <1>10, <1>11, <1>15
  <2> QED BY <1>1, <1>9, <1>10, <1>15, <1>17, <2>1 DEF SameStacks, StackFrame, Frame
<1>19. /\ ~n.active[p] /\ \A q \in Account \ {p} : n.active[q] = m.active[q]
  <2>1. m.active \in [Account -> BOOLEAN] BY <1>0 DEF Mud
  <2>2. off.active \in [Account -> BOOLEAN] BY <1>1 DEF Mud
  <2> QED BY <1>1, <1>9, <1>10, <1>15, <1>17, <2>1, <2>2
<1>20. \A r \in Room, q \in Account :
         n.roster[r][q] = IF r = m.room[p] /\ q = p THEN m.roster[r][q] - 1
                          ELSE m.roster[r][q]
  BY <1>1, <1>9, <1>10, <1>15, <1>17
<1>21. Listed(n)
  <2>1. m.room[p] \in Room /\ m.roster[m.room[p]][p] > 0
    BY <1>0, <1>1, <1>17 DEF Mud
  <2>2. m.active[p] BY <2>1 DEF Seated, Listed
  <2> SUFFICES ASSUME NEW r \in Room, NEW q \in Account
               PROVE  n.roster[r][q] = IF r = n.room[q] /\ n.active[q] THEN 1 ELSE 0
    BY DEF Listed
  <2>3. m.roster[r][q] = IF r = m.room[q] /\ m.active[q] THEN 1 ELSE 0
    BY DEF Seated, Listed
  <2>4. CASE q = p BY <1>18, <1>19, <1>20, <2>2, <2>3, <2>4
  <2>5. CASE q # p BY <1>18, <1>19, <1>20, <2>3, <2>5
  <2> QED BY <2>4, <2>5
<1>22. Owners(n)
  <2>1. \A d \in Conn \ {c} : m.base[d] = "Game" => m.user[d] # p /\ m.user[d] \in Account
    BY DEF Seated, Owners, Owns, Good, HandlersServe
  <2>2. n.trains[c] = 1 /\ \A d \in Conn \ {c} : n.trains[d] = m.trains[d] BY <1>11, <1>18
  <2> SUFFICES ASSUME NEW d \in Conn PROVE Owns(n, d) BY DEF Owners
  <2>3. CASE d = c BY <1>18, <2>2, <2>3 DEF Seated, Owners, Owns
  <2>4. CASE d # c BY <1>18, <1>19, <2>1, <2>2, <2>4 DEF Seated, Owners, Owns
  <2> QED BY <2>3, <2>4
<1> QED BY <1>14, <1>18, <1>21, <1>22 DEF Seated

\* Logon::GotoGame: the account has one connection afterwards, the caller's.
LEMMA TookSeat ==
  ASSUME NEW m, NEW k \in Nat, Good(m, k), Seated(m), NEW c \in m.open,
         NEW p \in Account, NEW newbie \in BOOLEAN, p \in m.registered,
         m.base[c] = "Logon", m.user[c] = p, ~m.closed[c],
         GotoGame(m, c, p, newbie).fault = "none"
  PROVE  LET n == GotoGame(m, c, p, newbie)
         IN  /\ Seated(n) /\ n.open = m.open /\ n.user = m.user
             /\ n.base[c] = "Game" /\ ~n.closed[c]
             /\ \A d \in Conn \ {c} :
                  IF m.base[d] = "Game" /\ m.user[d] = p THEN n.base[d] = "none"
                  ELSE n.base[d] = m.base[d] /\ n.closed[d] = m.closed[d]
<1> DEFINE off == LogOffPrevious(m, p)
           sat == [off EXCEPT !.conn[p] = c, !.base[c] = "Game"]
           in == GameEnter(sat, p)
<1>0. c \in Conn /\ m \in Mud BY DEF Good, Mud
<1>1. Good(off, k) /\ Frame(m, off) /\ off.base[c] = "Logon"
  BY <1>0, LogOffPreviousGood
<1>2. GotoGame(m, c, p, newbie) =
        IF off.fault # "none" THEN off ELSE IF newbie THEN GotoTrain(in, p) ELSE in
  BY DEF GotoGame
<1>3. off.fault = "none" BY <1>2
<1>4. Seated(off) /\ Evicted(m, off, p)
  <2> HIDE DEF off
  <2>1. LogOffPrevious(m, p).fault = "none" BY <1>3 DEF off
  <2> QED BY <2>1, LoggedOff DEF off
<1> HIDE DEF off
<1>5. /\ off \in Mud /\ c \in off.open /\ off.user[c] = p /\ ~off.closed[c]
      /\ off.registered = m.registered /\ off.trains[c] = 0
  BY <1>0, <1>1, <1>4 DEF Evicted, Frame, Good, HandlersServe
<1>6. /\ sat \in Mud /\ Frame(off, sat) /\ sat.trains = off.trains /\ sat.closed = off.closed
      /\ sat.logon = off.logon /\ sat.loggedIn = off.loggedIn /\ sat.active = off.active
      /\ sat.errors = off.errors /\ sat.registered = off.registered
      /\ sat.room = off.room /\ sat.roster = off.roster
      /\ sat.conn = [off.conn EXCEPT ![p] = c]
      /\ sat.base = [off.base EXCEPT ![c] = "Game"]
  BY <1>0, <1>5 DEF Mud, Frame
<1>7. Good(sat, k) /\ Good(in, k) BY <1>1, <1>5, SeatGood
<1> HIDE DEF sat
<1>8. /\ SameStacks(sat, in) /\ in.conn = sat.conn /\ in.room = sat.room
      /\ in.loggedIn = [sat.loggedIn EXCEPT ![p] = TRUE]
      /\ in.active = [sat.active EXCEPT ![p] = TRUE]
      /\ \A r \in Room, q \in Account :
           in.roster[r][q] = IF r = sat.room[p] /\ q = p THEN sat.roster[r][q] + 1
                             ELSE sat.roster[r][q]
  BY <1>6, Entered
<1> HIDE DEF in
<1>9. /\ off.base \in [Conn -> {"none", "Logon", "Game"}]
      /\ off.conn \in [Account -> Conn \cup {NoConn}]
      /\ off.loggedIn \in [Account -> BOOLEAN] /\ off.active \in [Account -> BOOLEAN]
      /\ off.room[p] \in Room
  BY <1>5 DEF Mud
<1>10. /\ in.open = off.open /\ in.user = off.user /\ in.trains = off.trains
       /\ in.closed = off.closed /\ in.logon = off.logon /\ in.errors = off.errors
       /\ in.registered = off.registered /\ in.room = off.room
       /\ in.base[c] = "Game" /\ \A d \in Conn \ {c} : in.base[d] = off.base[d]
       /\ in.conn[p] = c /\ in.loggedIn[p] /\ in.active[p]
       /\ \A q \in Account \ {p} : /\ in.conn[q] = off.conn[q] /\ in.active[q] = off.active[q]
                                   /\ in.loggedIn[q] = off.loggedIn[q]
  BY <1>0, <1>6, <1>8, <1>9 DEF SameStacks, StackFrame, Frame
<1>11. \A d \in Conn : off.base[d] = "Game" => off.user[d] # p /\ off.user[d] \in Account
  <2> SUFFICES ASSUME NEW d \in Conn, off.base[d] = "Game"
               PROVE  off.user[d] # p /\ off.user[d] \in Account
    OBVIOUS
  <2>1. off.user[d] \in Account BY <1>1 DEF Good, HandlersServe
  <2>2. ~(m.base[d] = "Game" /\ m.user[d] = p) /\ m.base[d] = "Game"
    BY <1>4 DEF Evicted
  <2>3. off.user[d] = m.user[d] BY <1>1 DEF Frame
  <2> QED BY <2>1, <2>2, <2>3
<1>12. Owners(in)
  <2> SUFFICES ASSUME NEW d \in Conn PROVE Owns(in, d) BY DEF Owners
  <2>1. CASE d = c BY <1>5, <1>10, <2>1 DEF Owns
  <2>2. CASE d # c BY <1>4, <1>10, <1>11, <2>2 DEF Seated, Owners, Owns
  <2> QED BY <2>1, <2>2
<1>13. Listed(in)
  <2> SUFFICES ASSUME NEW r \in Room, NEW q \in Account
               PROVE  in.roster[r][q] = IF r = in.room[q] /\ in.active[q] THEN 1 ELSE 0
    BY DEF Listed
  <2>1. in.roster[r][q] = IF r = off.room[p] /\ q = p THEN off.roster[r][q] + 1
                          ELSE off.roster[r][q]
    BY <1>6, <1>8
  <2>2. CASE q = p
    <3>1. off.roster[r][q] = 0 BY <1>4, <2>2 DEF Evicted, Absent
    <3> QED BY <1>10, <2>1, <2>2, <3>1
  <2>3. CASE q # p
    <3>1. off.roster[r][q] = IF r = off.room[q] /\ off.active[q] THEN 1 ELSE 0
      BY <1>4 DEF Seated, Listed
    <3> QED BY <1>10, <2>1, <2>3, <3>1
  <2> QED BY <2>2, <2>3
<1>14. \A d \in Conn \ {c} :
         IF m.base[d] = "Game" /\ m.user[d] = p THEN in.base[d] = "none"
         ELSE in.base[d] = m.base[d] /\ in.closed[d] = m.closed[d]
  BY <1>4, <1>10 DEF Evicted
<1>15. in.open = m.open /\ in.user = m.user /\ ~in.closed[c]
  BY <1>1, <1>5, <1>10 DEF Frame
<1>16. CASE ~newbie
  BY <1>2, <1>3, <1>10, <1>12, <1>13, <1>14, <1>15, <1>16 DEF Seated
<1>17. CASE newbie
  <2> DEFINE n == GotoTrain(in, p)
  <2>1. n.fault = "none" /\ GotoGame(m, c, p, newbie) = n BY <1>2, <1>3, <1>17
  <2>2. in.user[c] = p /\ in.trains[c] = 0 BY <1>5, <1>10
  <2>3. /\ Seated(n) /\ n.base = in.base /\ n.closed = in.closed
        /\ n.user = in.user /\ n.open = in.open
    BY <1>0, <1>7, <1>10, <1>12, <1>13, <1>15, <2>1, <2>2, Trained DEF Seated
  <2> HIDE DEF n
  <2> QED BY <1>10, <1>14, <1>15, <2>1, <2>3
<1> QED BY <1>16, <1>17

\* n keeps the seats of m and its stacks, but for trains and logons.
SeatFrame(m, n) ==
  n.open = m.open /\ n.user = m.user /\ n.base = m.base /\ n.closed = m.closed

\* Train::Handle puts the player back into his room when the last training
\* handler is taken off.
LEMMA Untrained ==
  ASSUME NEW m, NEW k \in Nat, Good(m, k), Seated(m), NEW c \in Conn, m.trains[c] > 0,
         RemoveHandler(m, m.user[c]).fault = "none"
  PROVE  Seated(RemoveHandler(m, m.user[c])) /\ SeatFrame(m, RemoveHandler(m, m.user[c]))
<1> DEFINE p == m.user[c]
           popped == [m EXCEPT !.trains[c] = @ - 1]
           n == RemoveHandler(m, p)
<1>0. /\ m \in Mud /\ m.trains \in [Conn -> Nat] /\ m.active \in [Account -> BOOLEAN]
      /\ m.loggedIn \in [Account -> BOOLEAN] /\ p \in Account /\ m.base[c] = "Game"
      /\ m.conn[p] = c /\ p \in m.registered /\ m.loggedIn[p]
  BY DEF Good, Mud, HandlersServe, Seated, Owners, Owns
<1>1. ~m.active[p] BY <1>0 DEF Good, PointersServe
<1>2. Top(m, c) = "Train" BY DEF Top
<1> HIDE DEF p
<1>3. n = IF Deref(m, c).fault # "none" THEN Deref(m, c) ELSE EnterTop(popped, c)
  BY <1>0, <1>2 DEF RemoveHandler
<1>4. n = EnterTop(popped, c) BY <1>3 DEF p
<1>5. /\ popped \in Mud /\ popped.trains = [m.trains EXCEPT ![c] = @ - 1]
      /\ popped.open = m.open /\ popped.user = m.user /\ popped.base = m.base
      /\ popped.closed = m.closed /\ popped.logon = m.logon /\ popped.errors = m.errors
      /\ popped.registered = m.registered /\ popped.conn = m.conn
      /\ popped.loggedIn = m.loggedIn /\ popped.active = m.active
      /\ popped.room = m.room /\ popped.roster = m.roster
  <2> DEFINE t == [m.trains EXCEPT ![c] = @ - 1]
  <2>1. m.trains[c] - 1 \in Nat BY <1>0
  <2>2. t \in [Conn -> Nat] BY <1>0, <2>1
  <2>3. popped = [m EXCEPT !.trains = t] OBVIOUS
  <2> HIDE DEF t, popped
  <2>4. popped.trains = t BY <1>0, <2>3 DEF Mud
  <2> QED BY <1>0, <2>2, <2>3, <2>4 DEF Mud, t
<1> HIDE DEF popped
<1>6. \A d \in Conn \ {c} : m.base[d] = "Game" => m.user[d] \in Account /\ m.user[d] # p
  BY <1>0 DEF Seated, Owners, Owns, Good, HandlersServe
<1>7. \A d \in Conn \ {c} : popped.trains[d] = m.trains[d]
  BY <1>0, <1>5
<1>8. CASE popped.trains[c] = 0
  <2>1. Top(popped, c) = "Game" BY <1>0, <1>5, <1>8 DEF Top
  <2>2. n = GameEnter(popped, p) BY <1>4, <1>5, <2>1 DEF EnterTop, p
  <2>3. /\ SameStacks(popped, n) /\ n.conn = popped.conn /\ n.room = popped.room
        /\ n.loggedIn = [popped.loggedIn EXCEPT ![p] = TRUE]
        /\ n.active = [popped.active EXCEPT ![p] = TRUE]
        /\ \A r \in Room, q \in Account :
             n.roster[r][q] = IF r = popped.room[p] /\ q = p THEN popped.roster[r][q] + 1
                              ELSE popped.roster[r][q]
    BY <1>0, <1>5, <2>2, Entered
  <2> HIDE DEF n
  <2>4. n.active[p] /\ n.loggedIn[p]
        /\ \A q \in Account \ {p} : n.active[q] = m.active[q] /\ n.loggedIn[q] = m.loggedIn[q]
    BY <1>0, <1>5, <2>3
  <2>5. Owners(n)
    <3> SUFFICES ASSUME NEW d \in Conn PROVE Owns(n, d) BY DEF Owners
    <3>1. CASE d = c
      BY <1>0, <1>5, <1>8, <2>3, <2>4, <3>1
      DEF Seated, Owners, Owns, SameStacks, StackFrame, Frame, p
    <3>2. CASE d # c
      BY <1>5, <1>6, <1>7, <2>3, <2>4, <3>2
      DEF Seated, Owners, Owns, SameStacks, StackFrame, Frame
    <3> QED BY <3>1, <3>2
  <2>6. Listed(n)
    <3> SUFFICES ASSUME NEW r \in Room, NEW q \in Account
                 PROVE  n.roster[r][q] = IF r = n.room[q] /\ n.active[q] THEN 1 ELSE 0
      BY DEF Listed
    <3>1. m.roster[r][q] = IF r = m.room[q] /\ m.active[q] THEN 1 ELSE 0
      BY DEF Seated, Listed
    <3> QED BY <1>1, <1>5, <2>3, <2>4, <3>1
  <2> QED BY <1>5, <2>3, <2>5, <2>6 DEF Seated, SeatFrame, SameStacks, StackFrame, Frame, n, p
<1>9. CASE popped.trains[c] # 0
  <2>1. popped.trains[c] > 0
    <3>1. popped.trains \in [Conn -> Nat] BY <1>5 DEF Mud
    <3> QED BY <1>9, <3>1
  <2>2. Top(popped, c) = "Train" BY <2>1 DEF Top
  <2>3. n = [popped EXCEPT !.active[p] = FALSE] BY <1>4, <1>5, <2>2 DEF EnterTop, p
  <2> HIDE DEF n
  <2>4. /\ n.active = [popped.active EXCEPT ![p] = FALSE] /\ n.trains = popped.trains
        /\ n.open = popped.open /\ n.user = popped.user /\ n.base = popped.base
        /\ n.closed = popped.closed /\ n.logon = popped.logon /\ n.errors = popped.errors
        /\ n.registered = popped.registered /\ n.conn = popped.conn
        /\ n.loggedIn = popped.loggedIn /\ n.room = popped.room /\ n.roster = popped.roster
    BY <1>5, <2>3 DEF Mud
  <2>5. \A q \in Account : n.active[q] <=> m.active[q] BY <1>0, <1>1, <1>5, <2>4
  <2>6. Owners(n)
    <3> SUFFICES ASSUME NEW d \in Conn PROVE Owns(n, d) BY DEF Owners
    <3>1. CASE d = c
      BY <1>0, <1>5, <1>9, <2>4, <2>5, <3>1 DEF Seated, Owners, Owns, p
    <3>2. CASE d # c
      BY <1>5, <1>6, <1>7, <2>4, <2>5, <3>2 DEF Seated, Owners, Owns
    <3> QED BY <3>1, <3>2
  <2>7. Listed(n) BY <1>5, <2>4, <2>5 DEF Seated, Listed
  <2> QED BY <1>5, <2>4, <2>6, <2>7 DEF Seated, SeatFrame, n, p
<1> QED BY <1>8, <1>9

LEMMA PlayerLoaded ==
  ASSUME NEW m \in Mud, NEW q \in Account
  PROVE  LET n == LoadPlayer(m, q)
         IN  /\ SameStacks(m, n) /\ n.fault = m.fault /\ n.conn = m.conn
             /\ n.loggedIn = m.loggedIn /\ n.active = m.active /\ n.roster = m.roster
             /\ \A p \in Account \ {q} : n.room[p] = m.room[p]
<1> DEFINE n == LoadPlayer(m, q)
           room == [m.room EXCEPT ![q] = m.saved[q].room]
           rank == [m.rank EXCEPT ![q] = m.saved[q].rank]
<1>1. SameSession(m, n) BY LoadPlayerSame
<1>2. m.room \in [Account -> Room] BY DEF Mud
<1>3. n = [m EXCEPT !.room = room, !.rank = rank] BY DEF LoadPlayer
<1>4. \A p \in Account \ {q} : room[p] = m.room[p] BY <1>2
<1> HIDE DEF room, rank, n
<1>5. /\ n.errors = m.errors /\ n.registered = m.registered /\ n.fault = m.fault
      /\ n.roster = m.roster /\ n.room = room
  BY <1>3 DEF Mud
<1> QED BY <1>1, <1>4, <1>5 DEF SameSession, SameStacks, n

\* reload player: the player is back on the list of the room he is read into,
\* unless his connection is closing: then he is logged out on the way and the
\* second use of his connection faults.
LEMMA Reloaded ==
  ASSUME NEW m, NEW k \in Nat, Good(m, k), Seated(m), NEW q \in Account,
         ReloadPlayer(m, q).fault = "none"
  PROVE  Seated(ReloadPlayer(m, q)) /\ SeatFrame(m, ReloadPlayer(m, q))
<1> DEFINE c == m.conn[q]
           left == LeaveTop(m, c)
           loaded == LoadPlayer(left, q)
           n == ReloadPlayer(m, q)
<1>0. /\ m \in Mud /\ m.active \in [Account -> BOOLEAN] /\ m.loggedIn \in [Account -> BOOLEAN]
      /\ m.conn \in [Account -> Conn \cup {NoConn}]
  BY DEF Good, Mud
<1>1. CASE ~m.active[q]
  <2>1. n = LoadPlayer(m, q) BY <1>1 DEF ReloadPlayer
  <2>2. /\ SameStacks(m, n) /\ n.conn = m.conn
        /\ n.loggedIn = m.loggedIn /\ n.active = m.active /\ n.roster = m.roster
        /\ \A p \in Account \ {q} : n.room[p] = m.room[p]
    BY <1>0, <2>1, PlayerLoaded
  <2> HIDE DEF n
  <2>3. Owners(n) BY <2>2 DEF Seated, Owners, Owns, SameStacks, StackFrame, Frame
  <2>4. Listed(n)
    <3> SUFFICES ASSUME NEW r \in Room, NEW p \in Account
                 PROVE  n.roster[r][p] = IF r = n.room[p] /\ n.active[p] THEN 1 ELSE 0
      BY DEF Listed
    <3>1. m.roster[r][p] = IF r = m.room[p] /\ m.active[p] THEN 1 ELSE 0
      BY DEF Seated, Listed
    <3> QED BY <1>1, <2>2, <3>1
  <2> QED BY <2>2, <2>3, <2>4 DEF Seated, SeatFrame, SameStacks, StackFrame, Frame, n
<1>2. CASE m.active[q]
  <2>1. /\ m.loggedIn[q] /\ c \in m.open /\ m.base[c] = "Game" /\ m.trains[c] = 0
        /\ m.user[c] = q /\ c \in Conn
    BY <1>0, <1>2 DEF Good, PointersServe, Mud
  <2>2. n = IF Deref(m, c).fault # "none" THEN Deref(m, c)
            ELSE IF Deref(loaded, loaded.conn[q]).fault # "none"
                 THEN Deref(loaded, loaded.conn[q])
            ELSE EnterTop(loaded, c)
    BY <1>2 DEF ReloadPlayer
  <2>3. Deref(loaded, loaded.conn[q]).fault = "none" /\ n = EnterTop(loaded, c)
    BY <2>2
  <2>4. Top(m, c) = "Game" BY <2>1 DEF Top
  <2>5. left = GameLeave(m, c) /\ Retreat(m, left)
    BY <2>1, <2>4, LeaveTopRetreats DEF LeaveTop
  <2> HIDE DEF left, c
  <2>6. /\ SameStacks(left, loaded) /\ loaded.fault = left.fault /\ loaded.conn = left.conn
        /\ loaded.loggedIn = left.loggedIn /\ loaded.active = left.active
        /\ loaded.roster = left.roster
        /\ \A p \in Account \ {q} : loaded.room[p] = left.room[p]
    BY <2>5, PlayerLoaded DEF Retreat
  <2>7. loaded \in Mud BY <2>6 DEF SameStacks
  <2> HIDE DEF loaded
  <2>8. Top(loaded, c) = "Game" /\ loaded.user[c] = q
    BY <2>1, <2>5, <2>6 DEF Retreat, SameStacks, StackFrame, Frame, Top
  <2>9. n = GameEnter(loaded, q) BY <2>3, <2>8 DEF EnterTop
  <2>10. /\ SameStacks(loaded, n) /\ n.fault = loaded.fault
         /\ n.conn = loaded.conn /\ n.room = loaded.room
         /\ n.loggedIn = [loaded.loggedIn EXCEPT ![q] = TRUE]
         /\ n.active = [loaded.active EXCEPT ![q] = TRUE]
         /\ \A r \in Room, p \in Account :
              n.roster[r][p] = IF r = loaded.room[q] /\ p = q THEN loaded.roster[r][p] + 1
                               ELSE loaded.roster[r][p]
    BY <2>7, <2>9, Entered
  <2>11. GameLeave(m, c).fault = "none" BY <2>5, <2>6, <2>10
  <2>12. Left(m, left, c) /\ (~m.closed[c] => left.conn = m.conn /\ left.loggedIn = m.loggedIn)
    BY <2>1, <2>5, <2>11, GameLeft DEF Seated
  <2>13. ~m.closed[c]
    <3> SUFFICES ASSUME m.closed[c] PROVE FALSE OBVIOUS
    <3> DEFINE out == RemovePlayerFromRoom(m, q)
               gone == [out EXCEPT !.active[q] = FALSE]
    <3>1. left = Logout(gone, q) BY <2>1, <2>5 DEF GameLeave
    <3>2. out \in Mud BY <1>0, RemovePlayerFromRoomSame DEF SameSession
    <3> HIDE DEF out
    <3>3. gone \in Mud /\ gone.active = [out.active EXCEPT ![q] = FALSE] BY <3>2 DEF Mud
    <3>4. out.active \in [Account -> BOOLEAN] BY <3>2 DEF Mud
    <3>5. gone.active[q] => gone.loggedIn[q] BY <3>3, <3>4
    <3> HIDE DEF gone
    <3>6. left.conn = [gone.conn EXCEPT ![q] = NoConn] BY <3>1, <3>3, <3>5, LogoutRetreats
    <3>7. gone.conn \in [Account -> Conn \cup {NoConn}] BY <3>3 DEF Mud
    <3>8. loaded.conn[q] = NoConn BY <2>6, <3>6, <3>7
    <3>9. Deref(loaded, NoConn) = Crash(loaded, "null connection") BY DEF Deref
    <3>10. Crash(loaded, "null connection").fault # "none" BY <2>7, CrashFaults
    <3> QED BY <2>3, <3>8, <3>9, <3>10
  <2> HIDE DEF n
  <2>14. /\ n.open = m.open /\ n.user = m.user /\ n.base = m.base /\ n.closed = m.closed
         /\ n.trains = m.trains /\ n.logon = m.logon /\ n.errors = m.errors
         /\ n.registered = m.registered /\ n.conn = m.conn
    BY <2>6, <2>10, <2>12, <2>13 DEF Left, SameStacks, StackFrame, Frame
  <2>15. /\ n.active[q] /\ n.loggedIn[q]
         /\ \A p \in Account \ {q} : /\ n.active[p] = left.active[p]
                                     /\ n.loggedIn[p] = m.loggedIn[p]
                                     /\ n.room[p] = m.room[p]
    <3>1. loaded.active \in [Account -> BOOLEAN] /\ loaded.loggedIn \in [Account -> BOOLEAN]
      BY <2>7 DEF Mud
    <3> QED BY <2>6, <2>10, <2>12, <2>13, <3>1 DEF Left
  <2>16. /\ Absent(left, q)
         /\ \A p \in Account \ {q} : SameFor(m, left, p)
    BY <2>1, <2>12 DEF Left
  <2>17. Owners(n)
    <3> SUFFICES ASSUME NEW d \in Conn PROVE Owns(n, d) BY DEF Owners
    <3>1. CASE n.base[d] = "Game" /\ n.user[d] # q
      <4>1. n.user[d] \in Account BY <2>14, <3>1 DEF Good, HandlersServe
      <4> QED BY <2>14, <2>15, <2>16, <3>1, <4>1 DEF Seated, Owners, Owns, SameFor
    <3>2. CASE ~(n.base[d] = "Game" /\ n.user[d] # q)
      BY <2>14, <2>15, <3>2 DEF Seated, Owners, Owns
    <3> QED BY <3>1, <3>2
  <2>18. Listed(n)
    <3> SUFFICES ASSUME NEW r \in Room, NEW p \in Account
                 PROVE  n.roster[r][p] = IF r = n.room[p] /\ n.active[p] THEN 1 ELSE 0
      BY DEF Listed
    <3>1. m.roster[r][p] = IF r = m.room[p] /\ m.active[p] THEN 1 ELSE 0
      BY DEF Seated, Listed
    <3>2. n.roster[r][p] = IF r = n.room[q] /\ p = q THEN left.roster[r][p] + 1
                           ELSE left.roster[r][p]
      BY <2>6, <2>10
    <3>3. CASE p = q
      <4>1. left.roster[r][p] = 0 BY <2>16, <3>3 DEF Absent
      <4> QED BY <2>15, <3>2, <3>3, <4>1
    <3>4. CASE p # q
      <4>1. left.roster[r][p] = m.roster[r][p] /\ n.active[p] = m.active[p]
        BY <2>15, <2>16, <3>4 DEF SameFor
      <4> QED BY <2>15, <3>1, <3>2, <3>4, <4>1
    <3> QED BY <3>3, <3>4
  <2> QED BY <2>14, <2>17, <2>18 DEF Seated, SeatFrame, n
<1> QED BY <1>1, <1>2

\* Game::Move and Game::PlayerKilled take a player from one list to another.
LEMMA RoomChanged ==
  ASSUME NEW m, NEW k \in Nat, Good(m, k), Seated(m), NEW p \in Account, NEW r \in Room,
         ChangeRoom(m, p, r).fault = "none"
  PROVE  Seated(ChangeRoom(m, p, r)) /\ SeatFrame(m, ChangeRoom(m, p, r))
<1> DEFINE gone == RemovePlayerFromRoom(m, p)
           there == [gone EXCEPT !.room[p] = r]
           moved == AddPlayerToRoom(there, p)
           told == SendRoom(moved, m.room[p])
           n == ChangeRoom(m, p, r)
<1>0. m \in Mud BY DEF Good
<1>1. n = SendRoom(told, r) BY DEF ChangeRoom
<1>2. gone \in Mud BY <1>0, RemovePlayerFromRoomSame DEF SameSession
<1> HIDE DEF gone
<1>3. /\ there \in Mud /\ StackFrame(gone, there) /\ there.errors = gone.errors
      /\ there.registered = gone.registered /\ there.fault = gone.fault
      /\ there.conn = gone.conn /\ there.loggedIn = gone.loggedIn
      /\ there.active = gone.active /\ there.roster = gone.roster
      /\ there.room = [gone.room EXCEPT ![p] = r]
  BY <1>2 DEF Mud, StackFrame, Frame
<1> HIDE DEF there
<1>4. /\ SameStacks(there, moved) /\ moved.fault = there.fault
      /\ moved.conn = there.conn /\ moved.loggedIn = there.loggedIn
      /\ moved.active = there.active /\ moved.room = there.room
      /\ \A x \in Room, q \in Account :
           moved.roster[x][q] = IF x = there.room[p] /\ q = p THEN there.roster[x][q] + 1
                                ELSE there.roster[x][q]
  BY <1>3, AddedToRoom
<1>5. moved \in Mud BY <1>4 DEF SameStacks
<1> HIDE DEF moved
<1>6. told \in Mud BY <1>5, SendToSame DEF SendRoom, SameSession
<1>7. n = told
  <2> HIDE DEF told
  <2>1. SendTo(told, {q \in Account : told.roster[r][q] > 0}).fault = "none"
    BY <1>1 DEF SendRoom
  <2> QED BY <1>1, <1>6, <2>1, SendToFaultless DEF SendRoom
<1>8. n = moved
  <2>1. SendTo(moved, {q \in Account : moved.roster[m.room[p]][q] > 0}).fault = "none"
    BY <1>7 DEF SendRoom
  <2> QED BY <1>5, <1>7, <2>1, SendToFaultless DEF SendRoom
<1> HIDE DEF n
<1>9. RemovePlayerFromRoom(m, p).fault = "none" BY <1>3, <1>4, <1>8 DEF n, gone
<1>10. /\ SameStacks(m, gone) /\ m.roster[m.room[p]][p] > 0
       /\ gone.conn = m.conn /\ gone.loggedIn = m.loggedIn /\ gone.active = m.active
       /\ gone.room = m.room
       /\ \A x \in Room, q \in Account :
            gone.roster[x][q] = IF x = m.room[p] /\ q = p THEN m.roster[x][q] - 1
                                ELSE m.roster[x][q]
  BY <1>0, <1>9, RemovedFromRoom DEF gone
<1>11. /\ n.open = m.open /\ n.user = m.user /\ n.base = m.base /\ n.closed = m.closed
       /\ n.trains = m.trains /\ n.logon = m.logon /\ n.errors = m.errors
       /\ n.registered = m.registered /\ n.conn = m.conn /\ n.loggedIn = m.loggedIn
       /\ n.active = m.active
  BY <1>3, <1>4, <1>8, <1>10 DEF SameStacks, StackFrame, Frame
<1>12. m.room \in [Account -> Room] BY <1>0 DEF Mud
<1>13. n.room[p] = r /\ \A q \in Account \ {p} : n.room[q] = m.room[q]
  BY <1>3, <1>4, <1>8, <1>10, <1>12
<1>14. m.active[p] BY <1>10, <1>12 DEF Seated, Listed
<1>15. Owners(n) BY <1>11 DEF Seated, Owners, Owns
<1>16. Listed(n)
  <2> SUFFICES ASSUME NEW x \in Room, NEW q \in Account
               PROVE  n.roster[x][q] = IF x = n.room[q] /\ n.active[q] THEN 1 ELSE 0
    BY DEF Listed
  <2>1. m.roster[x][q] = IF x = m.room[q] /\ m.active[q] THEN 1 ELSE 0
    BY DEF Seated, Listed
  <2>2. gone.roster[x][q] = IF x = m.room[p] /\ q = p THEN m.roster[x][q] - 1
                            ELSE m.roster[x][q]
    BY <1>10
  <2>3. n.roster[x][q] = IF x = r /\ q = p THEN gone.roster[x][q] + 1 ELSE gone.roster[x][q]
    <3>1. there.room[p] = r BY <1>4, <1>8, <1>13
    <3>2. there.roster[x][q] = gone.roster[x][q] BY <1>3
    <3>3. n.roster[x][q] = IF x = there.room[p] /\ q = p THEN there.roster[x][q] + 1
                           ELSE there.roster[x][q]
      BY <1>4, <1>8
    <3> QED BY <3>1, <3>2, <3>3
  <2>4. CASE q = p
    <3>1. gone.roster[x][q] = 0 BY <1>14, <2>1, <2>2, <2>4
    <3> QED BY <1>11, <1>13, <1>14, <2>3, <2>4, <3>1
  <2>5. CASE q # p BY <1>11, <1>13, <2>1, <2>2, <2>3, <2>5
  <2> QED BY <2>4, <2>5
<1> QED BY <1>11, <1>15, <1>16 DEF Seated, SeatFrame, n

\* PlayerDatabase::AddPlayer moves only an account that nobody has entered.
LEMMA PlayerAdded ==
  ASSUME NEW m, NEW k \in Nat, Good(m, k), Seated(m), NEW p \in Account
  PROVE  LET n == AddPlayer(m, p)
         IN  Seated(n) /\ Good(n, k) /\ StackFrame(m, n) /\ p \in n.registered
<1> DEFINE new == [m EXCEPT !.registered = @ \cup {p},
                            !.rank[p] = IF m.registered = {} THEN ADMIN ELSE REGULAR,
                            !.room[p] = StartRoom]
           n == AddPlayer(m, p)
<1>0. m \in Mud BY DEF Good
<1>1. Good(n, k) /\ StackFrame(m, n) BY <1>0, AddPlayerSame, SameSessionGood
<1>2. CASE p \in m.registered
  <2>1. n = m BY <1>2 DEF AddPlayer
  <2> QED BY <1>1, <1>2, <2>1
<1>3. CASE p \notin m.registered
  <2>1. n = SavePlayer(new, p) BY <1>3 DEF AddPlayer
  <2>2. StartRoom \in Room /\ ADMIN \in Rank /\ REGULAR \in Rank
    BY ConstantsAssumption DEF ConstantsAssumption, ADMIN, REGULAR, Rank
  <2>3. /\ new \in Mud /\ StackFrame(m, new) /\ new.errors = m.errors
        /\ new.registered = m.registered \cup {p} /\ new.conn = m.conn
        /\ new.loggedIn = m.loggedIn /\ new.active = m.active /\ new.roster = m.roster
        /\ new.room = [m.room EXCEPT ![p] = StartRoom]
    BY <1>0, <2>2 DEF Mud, StackFrame, Frame
  <2> HIDE DEF new
  <2>4. m.room \in [Account -> Room] BY <1>0 DEF Mud
  <2>5. ~m.active[p]
    <3> SUFFICES ASSUME m.active[p] PROVE FALSE OBVIOUS
    <3>1. m.conn[p] \in m.open /\ m.base[m.conn[p]] = "Game" /\ m.user[m.conn[p]] = p
      BY DEF Good, PointersServe
    <3>2. m.conn[p] \in Conn BY <1>0, <3>1 DEF Mud
    <3> QED BY <1>3, <3>1, <3>2 DEF Seated, Owners, Owns
  <2>6. Owners(new) BY <2>3 DEF Seated, Owners, Owns, StackFrame, Frame
  <2>7. Listed(new)
    <3> SUFFICES ASSUME NEW x \in Room, NEW q \in Account
                 PROVE  new.roster[x][q] = IF x = new.room[q] /\ new.active[q] THEN 1 ELSE 0
      BY DEF Listed
    <3>1. m.roster[x][q] = IF x = m.room[q] /\ m.active[q] THEN 1 ELSE 0
      BY DEF Seated, Listed
    <3> QED BY <2>3, <2>4, <2>5, <3>1
  <2>8. SameSeats(new, SavePlayer(new, p)) BY <2>3, SavePlayerSeats
  <2>9. Seated(n) /\ n.registered = new.registered
    BY <2>1, <2>3, <2>6, <2>7, <2>8, SameSeatsSeated DEF Seated, SameSeats, SameStacks
  <2> QED BY <1>1, <2>3, <2>9
<1> QED BY <1>2, <1>3

-----------------------------------------------------------------------------
(* The seats that Seats speaks of, of a record and a number of arrivals. *)

SeatIn(m, k, c) ==
  IF c > k THEN "unborn"
  ELSE IF c \notin m.open \/ m.closed[c] \/ m.base[c] = "none" THEN "gone"
  ELSE IF m.base[c] = "Logon" THEN "lobby" ELSE m.user[c]

Kept(m, n, k) == \A c \in Conn : SeatIn(n, k, c) = SeatIn(m, k, c)

Gone(m, n, k, c) ==
  /\ SeatIn(m, k, c) # "unborn" /\ SeatIn(n, k, c) = "gone"
  /\ \A d \in Conn \ {c} : SeatIn(n, k, d) = SeatIn(m, k, d)

Taken(m, n, k, c, p) ==
  /\ SeatIn(m, k, c) = "lobby" /\ SeatIn(n, k, c) = p
  /\ \A d \in Conn \ {c} :
       SeatIn(n, k, d) = IF SeatIn(m, k, d) = p THEN "gone" ELSE SeatIn(m, k, d)

\* No account has the name of a state of Seats.
Apart == Account \cap SeatsOf!Outside = {}

\* From m to n is a step of Seats.
SeatStep(m, n, k) ==
  Apart => \/ Kept(m, n, k)
           \/ \E c \in Conn : Gone(m, n, k, c) \/ \E p \in Account : Taken(m, n, k, c, p)

LEMMA FrameStep ==
  ASSUME NEW m, NEW n, NEW k, SeatFrame(m, n)
  PROVE  SeatStep(m, n, k)
BY DEF SeatFrame, SeatStep, Kept, SeatIn

LEMMA Unborn ==
  ASSUME NEW m, NEW k \in Nat, Good(m, k), NEW c \in m.open, Apart
  PROVE  c \in Conn /\ ~(c > k) /\ SeatIn(m, k, c) # "unborn"
<1>1. c \in Conn /\ c \in Nat /\ c <= k BY ConnType DEF Good, Born, Mud
<1>2. m.user[c] \in Account \cup {NoAccount} BY <1>1 DEF Good, Mud
<1>3. ~(c > k) BY <1>1
<1>4. "unborn" \notin Account BY DEF Apart, SeatsOf!Outside
<1>5. m.user[c] # "unborn" BY <1>2, <1>4 DEF NoAccount
<1>6. SeatIn(m, k, c) # "unborn" BY <1>3, <1>5 DEF SeatIn
<1> QED BY <1>1, <1>3, <1>6

LEMMA ShutStep ==
  ASSUME NEW m, NEW k \in Nat, Good(m, k), NEW c \in m.open
  PROVE  SeatStep(m, [m EXCEPT !.closed[c] = TRUE], k)
<1> DEFINE n == [m EXCEPT !.closed[c] = TRUE]
<1> SUFFICES ASSUME Apart PROVE Gone(m, n, k, c) /\ c \in Conn
  BY DEF SeatStep
<1>1. c \in Conn /\ ~(c > k) /\ SeatIn(m, k, c) # "unborn" BY Unborn
<1>2. /\ n.open = m.open /\ n.user = m.user /\ n.base = m.base
      /\ n.closed = [m.closed EXCEPT ![c] = TRUE] /\ m.closed \in [Conn -> BOOLEAN]
  BY <1>1 DEF Good, Mud
<1> HIDE DEF n
<1> QED BY <1>1, <1>2 DEF Gone, SeatIn

LEMMA VacatedStep ==
  ASSUME NEW m, NEW k \in Nat, Good(m, k), NEW c \in m.open, NEW n, Vacated(m, n, c)
  PROVE  SeatStep(m, n, k)
<1> SUFFICES ASSUME Apart PROVE Gone(m, n, k, c) /\ c \in Conn
  BY DEF SeatStep
<1>1. c \in Conn /\ ~(c > k) /\ SeatIn(m, k, c) # "unborn" BY Unborn
<1>2. m.base \in [Conn -> {"none", "Logon", "Game"}] BY DEF Good, Mud
<1>3. n.base[c] = "none" BY <1>1, <1>2 DEF Vacated
<1>4. ASSUME NEW d \in Conn \ {c} PROVE SeatIn(n, k, d) = SeatIn(m, k, d)
  <2>1. n.base[d] = m.base[d] BY <1>2 DEF Vacated
  <2>2. n.user[d] = m.user[d] /\ n.closed[d] = m.closed[d] /\ (d \in n.open <=> d \in m.open)
    BY DEF Vacated
  <2> QED BY <2>1, <2>2 DEF SeatIn
<1>5. SeatIn(n, k, c) = "gone" BY <1>1, <1>3 DEF SeatIn
<1> QED BY <1>1, <1>4, <1>5 DEF Gone

LEMMA TakenStep ==
  ASSUME NEW m, NEW k \in Nat, Good(m, k), NEW c \in m.open, NEW p \in Account,
         m.base[c] = "Logon", ~m.closed[c], m.user[c] = p, NEW n,
         n.open = m.open, n.user = m.user, n.base[c] = "Game", ~n.closed[c],
         \A d \in Conn \ {c} :
           IF m.base[d] = "Game" /\ m.user[d] = p THEN n.base[d] = "none"
           ELSE n.base[d] = m.base[d] /\ n.closed[d] = m.closed[d]
  PROVE  SeatStep(m, n, k)
<1> SUFFICES ASSUME Apart PROVE Taken(m, n, k, c, p) /\ c \in Conn
  BY DEF SeatStep
<1>1. c \in Conn /\ ~(c > k) BY Unborn
<1>2. p \notin {"unborn", "lobby", "gone"} BY DEF Apart, SeatsOf!Outside
<1>3. ASSUME NEW d \in Conn \ {c}
      PROVE  SeatIn(n, k, d) = IF SeatIn(m, k, d) = p THEN "gone" ELSE SeatIn(m, k, d)
  <2>1. m.base[d] \in {"none", "Logon", "Game"} BY DEF Good, Mud
  <2>2. CASE m.base[d] = "Game" /\ m.user[d] = p
    <3>1. d \in m.open BY <2>2 DEF Good, HandlersServe
    <3>2. ~(d > k) BY <3>1, Unborn
    <3>3. n.base[d] = "none" BY <2>2
    <3>4. SeatIn(n, k, d) = "gone" BY <3>2, <3>3 DEF SeatIn
    <3>5. SeatIn(m, k, d) \in {p, "gone"} BY <2>2, <3>2 DEF SeatIn
    <3> QED BY <3>4, <3>5
  <2>3. CASE ~(m.base[d] = "Game" /\ m.user[d] = p)
    <3>1. n.base[d] = m.base[d] /\ n.closed[d] = m.closed[d] BY <2>3
    <3>2. SeatIn(n, k, d) = SeatIn(m, k, d) BY <3>1 DEF SeatIn
    <3>3. SeatIn(m, k, d) # p BY <1>2, <2>1, <2>3 DEF SeatIn
    <3> QED BY <3>2, <3>3
  <2> QED BY <2>2, <2>3
<1> QED BY <1>1, <1>3 DEF Taken, SeatIn

-----------------------------------------------------------------------------
(* Every step keeps Seated and is a step of Seats. *)

SeatsKept == Seated(mud') /\ SeatStep(mud, mud', arrived)

\* The handlers ran to completion, or the step was the last one.
LEMMA SetSeats ==
  ASSUME IInv, Seated(mud), NEW m, Set(m),
         m.fault = "none" => Seated(m) /\ SeatStep(mud, m, arrived)
  PROVE  SeatsKept
<1>1. CASE m.fault = "none" BY <1>1 DEF Set, SeatsKept
<1>2. CASE m.fault # "none"
  <2> DEFINE n == [mud EXCEPT !.fault = m.fault]
  <2>1. mud' = n BY <1>2 DEF Set
  <2>2. mud \in Mud BY DEF IInv, Good
  <2>3. /\ n.open = mud.open /\ n.base = mud.base /\ n.trains = mud.trains
        /\ n.closed = mud.closed /\ n.logon = mud.logon /\ n.errors = mud.errors
        /\ n.user = mud.user /\ n.registered = mud.registered /\ n.conn = mud.conn
        /\ n.loggedIn = mud.loggedIn /\ n.active = mud.active /\ n.room = mud.room
        /\ n.roster = mud.roster
    BY <2>2 DEF Mud
  <2> HIDE DEF n
  <2>4. SeatStep(mud, n, arrived) BY <2>3, FrameStep DEF SeatFrame
  <2>5. Seated(n) BY <2>3 DEF Seated, Owners, Owns, Listed
  <2> QED BY <2>1, <2>4, <2>5 DEF SeatsKept
<1> QED BY <1>1, <1>2

LEMMA SetSameSeats ==
  ASSUME IInv, Seated(mud), NEW m, Set(m), SameSeats(mud, m)
  PROVE  SeatsKept
<1>1. mud \in Mud BY DEF IInv, Good
<1>2. Seated(m) BY <1>1, SameSeatsSeated
<1>3. SeatStep(mud, m, arrived)
  BY FrameStep DEF SameSeats, SameStacks, StackFrame, Frame, SeatFrame
<1> QED BY <1>2, <1>3, SetSeats

LEMMA StillSeats ==
  ASSUME Seated(mud), UNCHANGED mud
  PROVE  SeatsKept
BY FrameStep DEF SeatsKept, SeatFrame

\* Logon::Handle.
LEMMA LogonSeats ==
  ASSUME IInv, Seated(mud), LogonStep
  PROVE  SeatsKept
<1>0. mud \in Mud /\ Good(mud, arrived) /\ arrived \in Nat BY DEF IInv, Good
<1>1. cur \in mud.open /\ cur \in Conn /\ mud.base[cur] = "Logon"
  <2>1. Line("Logon")
    BY DEF LogonStep, TooManyErrors, WrongAnswer, AskNew, Register, Login,
           NameKnown, NameFree, LogonLine
  <2> QED BY <1>0, <2>1 DEF Line, Up, IInv, Top, Mud
<1>2. CASE TooManyErrors
  <2> DEFINE n == [mud EXCEPT !.closed[cur] = TRUE]
  <2>1. Set(n) /\ mud.errors[cur] = MaxErrors BY <1>2 DEF TooManyErrors
  <2>2. Seated(n) BY <1>0, <1>1, <2>1, ShutSeated
  <2>3. SeatStep(mud, n, arrived) BY <1>0, <1>1, ShutStep
  <2> HIDE DEF n
  <2> QED BY <2>1, <2>2, <2>3, SetSeats
\* The answers that only move the logon's own state.
<1>3. ASSUME NEW n, n.open = mud.open, n.base = mud.base, n.trains = mud.trains,
             n.closed = mud.closed, n.registered = mud.registered, n.conn = mud.conn,
             n.loggedIn = mud.loggedIn, n.active = mud.active, n.room = mud.room,
             n.roster = mud.roster, mud.errors[cur] # MaxErrors, Set(n),
             \A d \in Conn \ {cur} : /\ n.user[d] = mud.user[d] /\ n.logon[d] = mud.logon[d]
                                     /\ n.errors[d] = mud.errors[d],
             n.logon[cur] = "ENTERPASS" => n.user[cur] \in mud.registered
      PROVE  SeatsKept
  <2>1. ~mud.closed[cur] /\ mud.trains[cur] = 0
    BY <1>0, <1>1, <1>3 DEF Seated, Owners, Owns, Good, HandlersServe
  <2>2. Owners(n)
    <3> SUFFICES ASSUME NEW d \in Conn PROVE Owns(n, d) BY DEF Owners
    <3>1. CASE d = cur BY <1>1, <1>3, <2>1, <3>1 DEF Owns
    <3>2. CASE d # cur BY <1>3, <3>2 DEF Seated, Owners, Owns
    <3> QED BY <3>1, <3>2
  <2>3. Listed(n) BY <1>3 DEF Seated, Listed
  <2>4. SeatStep(mud, n, arrived)
    <3>1. Kept(mud, n, arrived)
      <4> SUFFICES ASSUME NEW d \in Conn PROVE SeatIn(n, arrived, d) = SeatIn(mud, arrived, d)
        BY DEF Kept
      <4>1. CASE d = cur BY <1>1, <1>3, <4>1 DEF SeatIn
      <4>2. CASE d # cur BY <1>3, <4>2 DEF SeatIn
      <4> QED BY <4>1, <4>2
    <3> QED BY <3>1 DEF SeatStep
  <2> QED BY <1>3, <2>2, <2>3, <2>4, SetSeats DEF Seated
<1>4. CASE WrongAnswer
  <2> DEFINE e == [mud.errors EXCEPT ![cur] = @ + 1]
             n == [mud EXCEPT !.errors = e]
  <2>1. Set(n) /\ mud.errors[cur] # MaxErrors
    BY <1>4 DEF WrongAnswer, LogonLine
  <2>2. \A d \in Conn \ {cur} : e[d] = mud.errors[d] BY <1>0 DEF Mud
  <2>3. mud.logon[cur] = "ENTERPASS" => mud.user[cur] \in mud.registered
    BY <1>1 DEF Seated, Owners, Owns
  <2> HIDE DEF e
  <2>4. /\ n.open = mud.open /\ n.base = mud.base /\ n.trains = mud.trains
        /\ n.closed = mud.closed /\ n.registered = mud.registered /\ n.conn = mud.conn
        /\ n.loggedIn = mud.loggedIn /\ n.active = mud.active /\ n.room = mud.room
        /\ n.roster = mud.roster /\ n.user = mud.user /\ n.logon = mud.logon /\ n.errors = e
    BY <1>0 DEF Mud
  <2> HIDE DEF n
  <2> QED BY <1>3, <2>1, <2>2, <2>3, <2>4
<1>5. ASSUME NEW l \in LogonState, NEW u \in Account \cup {NoAccount},
             mud.errors[cur] # MaxErrors, l = "ENTERPASS" => u \in mud.registered,
             Set([mud EXCEPT !.logon[cur] = l, !.user[cur] = u])
      PROVE  SeatsKept
  <2> DEFINE n == [mud EXCEPT !.logon[cur] = l, !.user[cur] = u]
  <2>1. /\ n.open = mud.open /\ n.base = mud.base /\ n.trains = mud.trains
        /\ n.closed = mud.closed /\ n.registered = mud.registered /\ n.conn = mud.conn
        /\ n.loggedIn = mud.loggedIn /\ n.active = mud.active /\ n.room = mud.room
        /\ n.roster = mud.roster /\ n.errors = mud.errors
        /\ n.user = [mud.user EXCEPT ![cur] = u] /\ n.logon = [mud.logon EXCEPT ![cur] = l]
    BY <1>0 DEF Mud
  <2>2. /\ mud.logon \in [Conn -> LogonState]
        /\ mud.user \in [Conn -> Account \cup {NoAccount}]
    BY <1>0 DEF Mud
  <2> HIDE DEF n
  <2>3. /\ n.user[cur] = u /\ n.logon[cur] = l
        /\ \A d \in Conn \ {cur} : n.user[d] = mud.user[d] /\ n.logon[d] = mud.logon[d]
    BY <1>1, <2>1, <2>2
  <2>4. Set(n) BY <1>5 DEF n
  <2> QED BY <1>3, <1>5, <2>1, <2>3, <2>4
<1>6. CASE AskNew
  <2> DEFINE n == [mud EXCEPT !.logon[cur] = "NEWUSER"]
  <2>1. Set(n) /\ mud.errors[cur] # MaxErrors BY <1>6 DEF AskNew, LogonLine
  <2>2. /\ n.open = mud.open /\ n.base = mud.base /\ n.trains = mud.trains
        /\ n.closed = mud.closed /\ n.registered = mud.registered /\ n.conn = mud.conn
        /\ n.loggedIn = mud.loggedIn /\ n.active = mud.active /\ n.room = mud.room
        /\ n.roster = mud.roster /\ n.errors = mud.errors /\ n.user = mud.user
        /\ n.logon = [mud.logon EXCEPT ![cur] = "NEWUSER"]
    BY <1>0 DEF Mud
  <2>3. mud.logon \in [Conn -> LogonState] BY <1>0 DEF Mud
  <2> HIDE DEF n
  <2>4. n.logon[cur] = "NEWUSER" /\ \A d \in Conn \ {cur} : n.logon[d] = mud.logon[d]
    BY <1>1, <2>2, <2>3
  <2> QED BY <1>3, <2>1, <2>2, <2>4
<1>7. ASSUME NEW p \in Account, NameKnown(p) \/ NameFree(p) PROVE SeatsKept
  <2>1. CASE NameKnown(p)
    <3>1. /\ mud.errors[cur] # MaxErrors /\ p \in mud.registered
          /\ Set([mud EXCEPT !.logon[cur] = "ENTERPASS", !.user[cur] = p])
      BY <2>1 DEF NameKnown, LogonLine
    <3>2. "ENTERPASS" \in LogonState BY DEF LogonState
    <3> QED BY <1>5, <3>1, <3>2
  <2>2. CASE NameFree(p)
    <3>1. /\ mud.errors[cur] # MaxErrors
          /\ Set([mud EXCEPT !.logon[cur] = "ENTERNEWPASS", !.user[cur] = p])
      BY <2>2 DEF NameFree, LogonLine
    <3>2. "ENTERNEWPASS" \in LogonState BY DEF LogonState
    <3> QED BY <1>5, <3>1, <3>2
  <2> QED BY <1>7, <2>1, <2>2
\* The answers that enter the game.
<1>8. ASSUME NEW m, Good(m, arrived), Seated(m), StackFrame(mud, m), NEW newbie \in BOOLEAN,
             mud.errors[cur] # MaxErrors, mud.user[cur] \in m.registered,
             Set(GotoGame(m, cur, mud.user[cur], newbie))
      PROVE  SeatsKept
  <2> DEFINE p == mud.user[cur]
             n == GotoGame(m, cur, p, newbie)
  <2>1. /\ cur \in m.open /\ m.base[cur] = "Logon" /\ m.user[cur] = p
        /\ p \in Account /\ ~m.closed[cur]
    <3>1. ~mud.closed[cur] BY <1>1, <1>8 DEF Seated, Owners, Owns
    <3>2. p \in Account BY <1>8 DEF Good, Mud
    <3> QED BY <1>1, <1>8, <3>1, <3>2 DEF StackFrame, Frame
  <2>2. ASSUME n.fault = "none" PROVE Seated(n) /\ SeatStep(mud, n, arrived)
    <3>1. /\ Seated(n) /\ n.open = m.open /\ n.user = m.user
          /\ n.base[cur] = "Game" /\ ~n.closed[cur]
          /\ \A d \in Conn \ {cur} :
               IF m.base[d] = "Game" /\ m.user[d] = p THEN n.base[d] = "none"
               ELSE n.base[d] = m.base[d] /\ n.closed[d] = m.closed[d]
      <4> HIDE DEF p
      <4> QED BY <1>0, <1>8, <2>1, <2>2, TookSeat DEF p
    <3> HIDE DEF n, p
    <3>2. SeatStep(m, n, arrived) BY <1>0, <1>8, <2>1, <3>1, TakenStep
    <3>3. ASSUME NEW d PROVE SeatIn(m, arrived, d) = SeatIn(mud, arrived, d)
      BY <1>8 DEF StackFrame, Frame, SeatIn
    <3>4. SeatStep(mud, n, arrived)
      <4>1. \A d \in Conn : SeatIn(m, arrived, d) = SeatIn(mud, arrived, d) BY <3>3
      <4> QED BY <3>2, <4>1 DEF SeatStep, Kept, Gone, Taken
    <3> QED BY <3>1, <3>4
  <2> HIDE DEF n
  <2>3. Set(n) BY <1>8 DEF n
  <2> QED BY <2>2, <2>3, SetSeats
<1>9. CASE Register
  <2>1. /\ mud.errors[cur] # MaxErrors /\ mud.user[cur] \in Account
        /\ Set(GotoGame(AddPlayer(mud, mud.user[cur]), cur, mud.user[cur], TRUE))
    BY <1>0, <1>1, <1>9 DEF Register, LogonLine, Good, HandlersServe
  <2> DEFINE m == AddPlayer(mud, mud.user[cur])
  <2>2. Seated(m) /\ Good(m, arrived) /\ StackFrame(mud, m) /\ mud.user[cur] \in m.registered
    BY <1>0, <2>1, PlayerAdded
  <2> HIDE DEF m
  <2>3. Set(GotoGame(m, cur, mud.user[cur], TRUE)) BY <2>1 DEF m
  <2> QED BY <1>8, <2>1, <2>2, <2>3
<1>10. CASE Login
  <2>1. /\ mud.errors[cur] # MaxErrors /\ mud.logon[cur] = "ENTERPASS"
        /\ Set(GotoGame(mud, cur, mud.user[cur], FALSE))
    BY <1>10 DEF Login, LogonLine
  <2>2. mud.user[cur] \in mud.registered BY <1>1, <2>1 DEF Seated, Owners, Owns
  <2>3. StackFrame(mud, mud) BY DEF StackFrame, Frame
  <2> QED BY <1>0, <1>8, <2>1, <2>2, <2>3
<1> QED BY <1>2, <1>4, <1>6, <1>7, <1>9, <1>10 DEF LogonStep

\* Game::Handle and Train::Handle.
LEMMA GameSeats ==
  ASSUME IInv, Seated(mud), GameStep, "editstats" \notin Commands
  PROVE  SeatsKept
<1>0. mud \in Mud /\ Good(mud, arrived) /\ arrived \in Nat BY DEF IInv, Good
<1>1. cur \in mud.open /\ cur \in Conn /\ mud.user[cur] \in Account
  <2>1. \E h \in {"Game", "Train"} : Line(h)
    BY DEF GameStep, Quit, Announce, Shutdown, EditStats, TrainQuit, Kick, Reload,
           ChangeRank, Move, Command
  <2>2. cur \in mud.open /\ Top(mud, cur) \in {"Game", "Train"} BY <2>1 DEF Line, Up, IInv
  <2>3. cur \in Conn /\ mud.base[cur] # "Train" /\ mud.trains[cur] \in Nat
    BY <1>0, <2>2 DEF Mud
  <2> QED BY <1>0, <2>2, <2>3 DEF Top, Good, HandlersServe
<1>2. ASSUME NEW c \in mud.open, mud.base[c] # "Logon",
             Set([mud EXCEPT !.closed[c] = TRUE])
      PROVE  SeatsKept
  <2> DEFINE n == [mud EXCEPT !.closed[c] = TRUE]
  <2>1. Seated(n) BY <1>0, <1>2, ShutSeated
  <2>2. SeatStep(mud, n, arrived) BY <1>0, ShutStep
  <2> HIDE DEF n
  <2>3. Set(n) BY <1>2 DEF n
  <2> QED BY <2>1, <2>2, <2>3, SetSeats
<1>3. CASE Quit
  <2>1. Top(mud, cur) = "Game" /\ Set([mud EXCEPT !.closed[cur] = TRUE])
    BY <1>3 DEF Quit, Command, Line
  <2>2. mud.base[cur] = "Game" BY <2>1 DEF Top
  <2> QED BY <1>1, <1>2, <2>1, <2>2
<1>4. CASE Announce \/ Shutdown
  <2> DEFINE n == SendGlobal(mud)
  <2>1. Set(n) BY <1>4 DEF Announce, Shutdown
  <2>2. n.fault = "none" => n = mud BY <1>0, SendToFaultless DEF SendGlobal
  <2>3. SeatStep(mud, mud, arrived) BY FrameStep DEF SeatFrame
  <2> HIDE DEF n
  <2> QED BY <2>1, <2>2, <2>3, SetSeats
<1>5. CASE TrainQuit
  <2> DEFINE p == mud.user[cur]
             s == SavePlayer(mud, p)
             n == RemoveHandler(s, p)
  <2>1. Set(n) /\ Top(mud, cur) = "Train" BY <1>5 DEF TrainQuit, Line
  <2>2. mud.trains[cur] > 0
    <3>1. mud.base[cur] # "Train" BY <1>0, <1>1 DEF Mud
    <3> QED BY <2>1, <3>1 DEF Top
  <2>3. SameSeats(mud, s) /\ Seated(s) BY <1>0, <1>1, SavePlayerSeats, SameSeatsSeated
  <2>4. Good(s, arrived) BY <1>0, <1>1, SavePlayerSame, SameSessionGood
  <2> HIDE DEF s
  <2>5. s.trains[cur] > 0 /\ s.user[cur] = p /\ SeatFrame(mud, s)
    BY <2>2, <2>3 DEF SameSeats, SameStacks, StackFrame, Frame, SeatFrame
  <2>6. n.fault = "none" => Seated(n) /\ SeatFrame(s, n)
    <3> HIDE DEF p
    <3> QED BY <1>0, <1>1, <2>3, <2>4, <2>5, Untrained
  <2> HIDE DEF n
  <2>7. n.fault = "none" => Seated(n) /\ SeatStep(mud, n, arrived)
    BY <2>5, <2>6, FrameStep DEF SeatFrame
  <2> QED BY <2>1, <2>7, SetSeats
<1>6. ASSUME NEW q \in Account, Kick(q) PROVE SeatsKept
  <2> DEFINE c == mud.conn[q]
             at == Deref(mud, c)
  <2>1. Set(IF at.fault # "none" THEN at ELSE [mud EXCEPT !.closed[c] = TRUE])
    BY <1>6 DEF Kick
  <2>2. CASE at.fault # "none"
    <3>1. Set(at) BY <2>1, <2>2
    <3> HIDE DEF at
    <3> QED BY <2>2, <3>1, SetSeats
  <2>3. CASE at.fault = "none"
    <3>1. c \in mud.open BY <1>0, <2>3, DerefSame
    <3>2. mud.base[c] # "Logon" BY <1>0, <3>1 DEF Good, PointersServe
    <3>3. Set([mud EXCEPT !.closed[c] = TRUE]) BY <2>1, <2>3
    <3> HIDE DEF c
    <3> QED BY <1>2, <3>1, <3>2, <3>3
  <2> QED BY <2>2, <2>3
<1>7. ASSUME NEW q \in Account, Reload(q) PROVE SeatsKept
  <2> DEFINE n == ReloadPlayer(mud, q)
  <2>1. Set(n) BY <1>7 DEF Reload
  <2>2. n.fault = "none" => Seated(n) /\ SeatFrame(mud, n) BY <1>0, Reloaded
  <2> HIDE DEF n
  <2> QED BY <2>1, <2>2, FrameStep, SetSeats
<1>8. ASSUME NEW q \in Account, NEW r \in Rank, ChangeRank(q, r) PROVE SeatsKept
  <2> DEFINE n == [mud EXCEPT !.rank[q] = r]
  <2>1. Set(n) BY <1>8 DEF ChangeRank
  <2>2. SameSeats(mud, n)
    BY <1>0 DEF Mud, SameSeats, SameStacks, SameFor, StackFrame, Frame
  <2> HIDE DEF n
  <2> QED BY <2>1, <2>2, SetSameSeats
<1>9. ASSUME NEW r \in Room, Move(r) PROVE SeatsKept
  <2> DEFINE n == ChangeRoom(mud, mud.user[cur], r)
  <2>1. Set(n) BY <1>9 DEF Move
  <2>2. n.fault = "none" => Seated(n) /\ SeatFrame(mud, n) BY <1>0, <1>1, RoomChanged
  <2> HIDE DEF n
  <2> QED BY <2>1, <2>2, FrameStep, SetSeats
<1>10. ~EditStats BY DEF EditStats, Command
<1>11. NewRanks \subseteq Rank
  BY ConstantsAssumption DEF ConstantsAssumption
<1> QED BY <1>3, <1>4, <1>5, <1>6, <1>7, <1>8, <1>9, <1>10, <1>11 DEF GameStep

\* The passes of main() over the list, but for the arrival of a connection.
LEMMA PassSeats ==
  ASSUME IInv, Seated(mud), PassStep, ~Accept
  PROVE  SeatsKept
<1>0. mud \in Mud /\ Good(mud, arrived) /\ arrived \in Nat BY DEF IInv, Good
<1>1. ASSUME UNCHANGED mud PROVE SeatsKept BY <1>1, StillSeats
<1>2. ASSUME NEW c \in mud.open, NEW n, Set(n), n \in {Expel(mud, c), Erase(mud, c)}
      PROVE  SeatsKept
  <2>1. n.fault = "none" => Vacated(mud, n, c)
    <3>1. c \in Conn BY <1>0 DEF Mud
    <3>2. Expel(mud, c).fault = "none" => Vacated(mud, Expel(mud, c), c)
      BY <1>0, Expelled
    <3>3. Erase(mud, c).fault = "none" => Vacated(mud, Erase(mud, c), c)
      BY <1>0, <3>1, Erased
    <3> QED BY <1>2, <3>2, <3>3
  <2>2. c \in Conn BY <1>0 DEF Mud
  <2>3. n.fault = "none" => Seated(n) /\ SeatStep(mud, n, arrived)
    BY <1>0, <2>1, <2>2, VacatedSeated, VacatedStep
  <2> QED BY <1>2, <2>3, SetSeats
<1>3. ASSUME NEW c \in Conn, ReceiveFails(c) \/ SendFails(c) PROVE SeatsKept
  <2>1. c \in mud.open /\ Set(Expel(mud, c)) BY <1>3 DEF ReceiveFails, SendFails, Visit
  <2> QED BY <1>2, <2>1
<1>4. ASSUME NEW c \in Conn, CloseVisit(c) \/ Destroy(c) PROVE SeatsKept
  <2>1. c \in mud.open /\ (Set(Erase(mud, c)) \/ UNCHANGED mud)
    BY <1>4 DEF CloseVisit, Destroy, Visit
  <2> QED BY <1>1, <1>2, <2>1
<1>5. CASE Flooding
  <2>1. cur \in mud.open /\ Set(Expel(mud, cur)) BY <1>5 DEF Flooding, Up, IInv
  <2> QED BY <1>2, <2>1
<1>6. CASE EndLoop(mud) \/ EndLoop(SaveAll(mud)) \/ Down
  <2>1. Set(mud) \/ Set(SaveAll(mud)) BY <1>6 DEF EndLoop, Down
  <2>2. SameSeats(mud, SaveAll(mud)) BY <1>0, SaveAllSeats
  <2>3. SameSeats(mud, mud)
    BY <1>0 DEF SameSeats, SameStacks, SameFor, StackFrame, Frame
  <2> QED BY <2>1, <2>2, <2>3, SetSameSeats
<1>7. CASE \/ NoNewcomer \/ AcceptFails \/ EndReceive
           \/ EndPass("listen", "send") \/ EndPass("send", "close") \/ EndPass("close", "loop")
           \/ \E c \in Conn : Quiet(c) \/ BeginReceive(c) \/ Sent(c)
  <2>1. UNCHANGED mud
    BY <1>7 DEF NoNewcomer, AcceptFails, EndReceive, EndPass, Quiet, BeginReceive, Sent
  <2> QED BY <1>1, <2>1
<1> QED BY <1>3, <1>4, <1>5, <1>6, <1>7 DEF PassStep

LEMMA TimerSeats ==
  ASSUME IInv, Seated(mud), TimerStep
  PROVE  SeatsKept
<1>0. mud \in Mud /\ Good(mud, arrived) /\ arrived \in Nat /\ StartRoom \in Room
  BY ConstantsAssumption DEF IInv, Good, ConstantsAssumption
<1>1. PICK p \in Account : PlayerKilled(p) BY DEF TimerStep
<1> DEFINE n == ChangeRoom(mud, p, StartRoom)
<1>2. Set(n) BY <1>1 DEF PlayerKilled
<1>3. n.fault = "none" => Seated(n) /\ SeatFrame(mud, n) BY <1>0, RoomChanged
<1> HIDE DEF n
<1> QED BY <1>2, <1>3, FrameStep, SetSeats

\* ConnectionManager::NewConnection: the newcomer waits in the lobby or is refused.
LEMMA AcceptSeats ==
  ASSUME IInv, Seated(mud), Accept
  PROVE  /\ Seated(mud')
         /\ LET k == arrived + 1
            IN  /\ k \in Conn /\ SeatIn(mud, arrived, k) = "unborn"
                /\ SeatIn(mud', arrived', k) \in {"lobby", "gone"}
                /\ \A d \in Conn \ {k} :
                     SeatIn(mud', arrived', d) = SeatIn(mud, arrived, d)
<1> DEFINE k == arrived + 1
           n == [mud EXCEPT !.open = @ \cup {k}, !.base[k] = "Logon"]
<1>0. mud \in Mud /\ Good(mud, arrived) /\ arrived \in Nat /\ MaxConn \in Nat
  BY ConstantsAssumption DEF IInv, Good, ConstantsAssumption
<1>1. k \in Conn /\ arrived' = k /\ mud.fault = "none" /\ (UNCHANGED mud \/ Set(n))
  BY <1>0 DEF Accept, Up, Conn
<1>2. k \notin mud.open BY <1>0 DEF Good, Born
<1>3. ~(k > k) /\ k > arrived /\ \A d \in Conn \ {k} : d > k <=> d > arrived
  BY <1>0, ConnType
<1>4. SeatIn(mud, arrived, k) = "unborn" BY <1>3 DEF SeatIn
<1>5. CASE UNCHANGED mud
  <2>1. SeatIn(mud', arrived', k) = "gone" BY <1>1, <1>2, <1>3, <1>5 DEF SeatIn
  <2>2. \A d \in Conn \ {k} : SeatIn(mud', arrived', d) = SeatIn(mud, arrived, d)
    BY <1>1, <1>3, <1>5 DEF SeatIn
  <2> QED BY <1>1, <1>4, <1>5, <2>1, <2>2
<1>6. CASE Set(n)
  <2>1. /\ n.open = mud.open \cup {k} /\ n.base = [mud.base EXCEPT ![k] = "Logon"]
        /\ n.trains = mud.trains /\ n.closed = mud.closed /\ n.logon = mud.logon
        /\ n.errors = mud.errors /\ n.user = mud.user /\ n.registered = mud.registered
        /\ n.conn = mud.conn /\ n.loggedIn = mud.loggedIn /\ n.active = mud.active
        /\ n.room = mud.room /\ n.roster = mud.roster /\ n.fault = mud.fault
    BY <1>0 DEF Mud
  <2>2. mud.base \in [Conn -> {"none", "Logon", "Game"}] BY <1>0 DEF Mud
  <2> HIDE DEF n
  <2>3. mud' = n BY <1>1, <1>6, <2>1 DEF Set
  <2> HIDE DEF k
  <2>4. /\ mud.trains[k] = 0 /\ mud.logon[k] = "NEWCONNECTION" /\ ~mud.closed[k]
    BY <1>0, <1>1, <1>2 DEF Good, HandlersServe, Seated, Owners, Owns
  <2>5. n.base[k] = "Logon" /\ \A d \in Conn \ {k} : n.base[d] = mud.base[d]
    BY <1>1, <2>1, <2>2
  <2>6. Owners(n)
    <3> SUFFICES ASSUME NEW d \in Conn PROVE Owns(n, d) BY DEF Owners
    <3>1. CASE d = k BY <2>1, <2>4, <2>5, <3>1 DEF Owns
    <3>2. CASE d # k BY <2>1, <2>5, <3>2 DEF Seated, Owners, Owns
    <3> QED BY <3>1, <3>2
  <2>7. Listed(n) BY <2>1 DEF Seated, Listed
  <2>8. SeatIn(n, k, k) = "lobby" BY <1>3, <2>1, <2>4, <2>5 DEF SeatIn
  <2>9. ASSUME NEW d \in Conn \ {k} PROVE SeatIn(n, k, d) = SeatIn(mud, arrived, d)
    BY <1>3, <2>1, <2>5 DEF SeatIn
  <2> QED BY <1>1, <1>4, <2>3, <2>6, <2>7, <2>8, <2>9 DEF Seated, k
<1> QED BY <1>1, <1>5, <1>6

LEMMA InitSeated == Init => Seated(mud)
<1> SUFFICES ASSUME Init PROVE Seated(mud) OBVIOUS
<1>1. /\ mud.open = {} /\ mud.base = [c \in Conn |-> "none"]
      /\ mud.trains = [c \in Conn |-> 0] /\ mud.closed = [c \in Conn |-> FALSE]
      /\ mud.active = [p \in Account |-> FALSE]
      /\ mud.roster = [r \in Room |-> [p \in Account |-> 0]]
  BY DEF Init
<1> QED BY <1>1 DEF Seated, Owners, Owns, Listed

LEMMA NextSeated ==
  ASSUME IInv, Seated(mud), [Next]_vars, "editstats" \notin Commands
  PROVE  SeatsKept \/ (Accept /\ Seated(mud'))
<1>1. CASE UNCHANGED vars BY <1>1, StillSeats DEF vars
<1>2. CASE Accept BY <1>2, AcceptSeats
<1>3. CASE Next /\ ~Accept
  BY <1>3, LogonSeats, GameSeats, PassSeats, TimerSeats DEF Next
<1> QED BY <1>1, <1>2, <1>3

-----------------------------------------------------------------------------
(* What follows from it. *)

LEMMA AlwaysSeated ==
  ASSUME "editstats" \notin Commands
  PROVE  Spec => [](IInv /\ Seated(mud))
<1>1. IInv /\ Seated(mud) /\ [Next]_vars => Seated(mud)'
  BY NextSeated DEF SeatsKept
<1> QED BY <1>1, InitSeated, Inductive, PTL DEF Spec

\* The room lists name a player once for each connection he plays on
\* (RosterMatchesHandlers), so Room::RemovePlayer finds whom it erases: when
\* he enters, trains as a newcomer, moves, dies, is reloaded, is taken over,
\* quits or fails.
THEOREM RostersMatch ==
  ASSUME "editstats" \notin Commands
  PROVE  Spec => []RosterMatchesHandlers
<1>1. ASSUME IInv, Seated(mud) PROVE RosterMatchesHandlers
  <2>0. mud \in Mud /\ Good(mud, arrived) BY <1>1 DEF IInv, Good
  <2> SUFFICES ASSUME NEW r \in Room, NEW p \in Account
               PROVE  mud.roster[r][p] =
                        IF r = mud.room[p] THEN Cardinality(Playing(p)) ELSE 0
    BY DEF RosterMatchesHandlers
  <2>1. mud.roster[r][p] = IF r = mud.room[p] /\ mud.active[p] THEN 1 ELSE 0
    BY <1>1 DEF Seated, Listed
  <2>2. ASSUME NEW c \in Playing(p) PROVE mud.conn[p] = c /\ mud.active[p]
    <3>1. c \in Conn /\ Top(mud, c) = "Game" /\ mud.user[c] = p
      BY <2>0, <2>2 DEF Playing, Mud
    <3>2. mud.base[c] = "Game" /\ mud.trains[c] = 0
      BY <2>0, <3>1 DEF Top, Mud
    <3> QED BY <1>1, <3>1, <3>2 DEF Seated, Owners, Owns
  <2>3. CASE mud.active[p]
    <3>1. mud.conn[p] \in Playing(p)
      BY <2>0, <2>3 DEF Good, PointersServe, Playing, Top
    <3>2. Playing(p) = {mud.conn[p]} BY <2>2, <3>1
    <3>3. Cardinality({mud.conn[p]}) = 1 BY FS_Singleton
    <3> QED BY <2>1, <2>3, <3>2, <3>3
  <2>4. CASE ~mud.active[p]
    <3>1. Playing(p) = {} BY <2>2, <2>4
    <3> QED BY <2>1, <2>4, <3>1, FS_EmptySet
  <2> QED BY <2>3, <2>4
<1> QED BY <1>1, AlwaysSeated, PTL

\* A connection that is still read serves the account whose connection it is
\* (ServedOwnsAccount): the loser of a takeover gets no line through.
THEOREM ServedOwns ==
  ASSUME "editstats" \notin Commands
  PROVE  Spec => []ServedOwnsAccount
<1>1. ASSUME IInv, Seated(mud) PROVE ServedOwnsAccount
  <2>0. mud \in Mud BY <1>1 DEF IInv, Good
  <2> SUFFICES ASSUME NEW c \in mud.open, Top(mud, c) \in {"Game", "Train"}
               PROVE  mud.loggedIn[mud.user[c]] /\ mud.conn[mud.user[c]] = c
    BY DEF ServedOwnsAccount
  <2>1. c \in Conn /\ mud.base[c] # "Train" /\ mud.trains[c] \in Nat BY <2>0 DEF Mud
  <2>2. mud.base[c] = "Game" BY <1>1, <2>1 DEF Top, Seated, Owners, Owns
  <2> QED BY <1>1, <2>1, <2>2 DEF Seated, Owners, Owns
<1> QED BY <1>1, AlwaysSeated, PTL

\* The room lists, which feed combat, and the active flags, which feed
\* messages and healing, agree (InWorldIffActive).
THEOREM WorldAgrees ==
  ASSUME "editstats" \notin Commands
  PROVE  Spec => []InWorldIffActive
<1>1. ASSUME IInv, Seated(mud) PROVE InWorldIffActive
  <2> SUFFICES ASSUME NEW p \in Account
               PROVE  mud.active[p] <=> \E r \in Room : mud.roster[r][p] > 0
    BY DEF InWorldIffActive
  <2>1. mud.room[p] \in Room BY <1>1 DEF IInv, Good, Mud
  <2> QED BY <1>1, <2>1 DEF Seated, Listed
<1> QED BY <1>1, AlwaysSeated, PTL

\* The session core implements Seats: an account is taken and whoever played
\* it is evicted in one step, and who is gone does not come back.
THEOREM SeatsImplemented ==
  ASSUME "editstats" \notin Commands, Account \cap SeatsOf!Outside = {}
  PROVE  Spec => ImplementsSeats
<1> DEFINE S == [c \in Conn |-> SeatOf(c)]
<1>0. Apart BY DEF Apart
<1>1. Init => SeatsOf!Init
  <2> SUFFICES ASSUME Init PROVE S = [c \in Conn |-> "unborn"]
    BY DEF SeatsOf!Init
  <2>1. ASSUME NEW c \in Conn PROVE SeatOf(c) = "unborn"
    <3>1. c \in Nat \ {0} /\ arrived = 0 BY ConnType DEF Init
    <3>2. c > arrived BY <3>1
    <3> QED BY <3>2 DEF SeatOf
  <2> QED BY <2>1
<1>2. ASSUME IInv, Seated(mud), [Next]_vars PROVE [SeatsOf!Next]_S
  <2> DEFINE s(c) == SeatIn(mud, arrived, c)
             t(c) == SeatIn(mud', arrived', c)
  <2>1. /\ S = [c \in Conn |-> s(c)] /\ S' = [c \in Conn |-> t(c)]
    BY DEF SeatOf, SeatIn
  <2>2. CASE Accept
    <3> DEFINE k == arrived + 1
    <3>1. /\ k \in Conn /\ s(k) = "unborn" /\ t(k) \in {"lobby", "gone"}
          /\ \A d \in Conn \ {k} : t(d) = s(d)
      BY <1>2, <2>2, AcceptSeats
    <3> HIDE DEF k, s, t, S
    <3>2. S[k] = "unborn" /\ S' = [S EXCEPT ![k] = t(k)] BY <2>1, <3>1
    <3>3. SeatsOf!Arrive(k) BY <3>1, <3>2 DEF SeatsOf!Arrive, S
    <3> QED BY <3>1, <3>3 DEF SeatsOf!Next
  <2>3. CASE ~Accept
    <3>1. arrived' = arrived
      <4>1. CASE UNCHANGED vars BY <4>1 DEF vars
      <4>2. CASE LogonStep
        BY <4>2 DEF LogonStep, TooManyErrors, WrongAnswer, AskNew, Register, Login,
                    NameKnown, NameFree, LogonLine, Line
      <4>3. CASE GameStep
        BY <4>3 DEF GameStep, Quit, Announce, Shutdown, EditStats, TrainQuit, Kick, Reload,
                    ChangeRank, Move, Command, Line
      <4>4. CASE PassStep
        BY <2>3, <4>4 DEF PassStep, NoNewcomer, AcceptFails, EndReceive, Flooding, EndPass,
                          EndLoop, Down, Quiet, BeginReceive, ReceiveFails, Sent, SendFails,
                          CloseVisit, Destroy
      <4>5. CASE TimerStep BY <4>5 DEF TimerStep, PlayerKilled
      <4> QED BY <1>2, <4>1, <4>2, <4>3, <4>4, <4>5 DEF Next
    <3>2. SeatStep(mud, mud', arrived) BY <1>2, <2>3, NextSeated DEF SeatsKept
    <3>3. CASE Kept(mud, mud', arrived)
      <4>1. \A c \in Conn : t(c) = s(c) BY <3>1, <3>3 DEF Kept
      <4> HIDE DEF s, t, S
      <4>2. S' = S BY <2>1, <4>1
      <4> QED BY <4>2 DEF S
    <3>4. ASSUME NEW c \in Conn, Gone(mud, mud', arrived, c) PROVE SeatsOf!Next
      <4>1. s(c) # "unborn" /\ t(c) = "gone" /\ \A d \in Conn \ {c} : t(d) = s(d)
        BY <3>1, <3>4 DEF Gone
      <4> HIDE DEF s, t, S
      <4>2. S[c] # "unborn" /\ S' = [S EXCEPT ![c] = "gone"] BY <2>1, <4>1
      <4>3. SeatsOf!Leave(c) BY <4>2 DEF SeatsOf!Leave, S
      <4> QED BY <4>3 DEF SeatsOf!Next
    <3>5. ASSUME NEW c \in Conn, NEW p \in Account, Taken(mud, mud', arrived, c, p)
          PROVE  SeatsOf!Next
      <4>1. /\ s(c) = "lobby" /\ t(c) = p
            /\ \A d \in Conn \ {c} : t(d) = IF s(d) = p THEN "gone" ELSE s(d)
        BY <3>1, <3>5 DEF Taken
      <4> HIDE DEF s, t, S
      <4>2. /\ S[c] = "lobby"
            /\ S' = [d \in Conn |-> IF d = c THEN p ELSE IF S[d] = p THEN "gone" ELSE S[d]]
        BY <2>1, <4>1
      <4>3. SeatsOf!TakeSeat(c, p) BY <4>2 DEF SeatsOf!TakeSeat, S
      <4> QED BY <4>3 DEF SeatsOf!Next
    <3> QED BY <1>0, <3>2, <3>3, <3>4, <3>5 DEF SeatStep
  <2> QED BY <2>2, <2>3
<1>3. Spec => [](IInv /\ Seated(mud)) BY AlwaysSeated
<1> QED BY <1>1, <1>2, <1>3, PTL DEF Spec, ImplementsSeats, SeatsOf!Spec

-----------------------------------------------------------------------------
(* Nobody leaves the game without his row: OfflineIsSaved, likewise.       *)
(* Every method keeps the relation Saves between the record it takes and   *)
(* the one it returns.                                                     *)

\* Whoever is logged off in n was saved where he stands, or is as he was in m.
Saves(m, n) ==
  /\ n.registered = m.registered
  /\ \A p \in Account :
       \/ n.loggedIn[p]
       \/ n.saved[p].room = n.room[p]
       \/ /\ n.loggedIn[p] = m.loggedIn[p]
          /\ n.saved[p] = m.saved[p] /\ n.room[p] = m.room[p]

\* n has all that Saves reads as m has it.
SameSaves(m, n) ==
  /\ n.registered = m.registered /\ n.loggedIn = m.loggedIn
  /\ n.saved = m.saved /\ n.room = m.room

AllSaved(m) ==
  \A p \in m.registered : ~m.loggedIn[p] => m.saved[p].room = m.room[p]

LEMMA SavesKeeps ==
  ASSUME NEW m \in Mud, NEW n, AllSaved(m), Saves(m, n)
  PROVE  AllSaved(n)
<1>1. m.registered \subseteq Account BY DEF Mud
<1> QED BY <1>1 DEF AllSaved, Saves

LEMMA SavesTrans ==
  ASSUME NEW m, NEW n, NEW o, Saves(m, n), Saves(n, o)
  PROVE  Saves(m, o)
BY DEF Saves

LEMMA SameSavesSaves ==
  ASSUME NEW m, NEW n, NEW o, SameSaves(m, n)
  PROVE  /\ Saves(m, n)
         /\ Saves(n, o) => Saves(m, o)
         /\ Saves(o, m) => Saves(o, n)
BY DEF Saves, SameSaves

-----------------------------------------------------------------------------
(* The methods. *)

LEMMA CrashSaves ==
  ASSUME NEW m \in Mud, NEW why
  PROVE  SameSaves(m, Crash(m, why))
BY DEF Crash, SameSaves, Mud

LEMMA DerefSaves ==
  ASSUME NEW m \in Mud, NEW c
  PROVE  SameSaves(m, Deref(m, c))
BY CrashSaves DEF Deref, SameSaves

LEMMA SavePlayerSaves ==
  ASSUME NEW m \in Mud, NEW p \in Account
  PROVE  LET n == SavePlayer(m, p)
         IN  /\ Saves(m, n) /\ n.saved[p].room = n.room[p]
             /\ n.registered = m.registered /\ n.loggedIn = m.loggedIn /\ n.room = m.room
             /\ \A q \in Account \ {p} : n.saved[q] = m.saved[q]
<1> DEFINE s == [m.saved EXCEPT ![p] = [room |-> m.room[p], rank |-> m.rank[p]]]
           n == SavePlayer(m, p)
<1>1. n = [m EXCEPT !.saved = s] BY DEF SavePlayer
<1>2. s[p].room = m.room[p] /\ \A q \in Account \ {p} : s[q] = m.saved[q]
  BY DEF Mud
<1> HIDE DEF s
<1>3. /\ n.saved = s /\ n.room = m.room /\ n.loggedIn = m.loggedIn
      /\ n.registered = m.registered
  BY <1>1 DEF Mud
<1> QED BY <1>2, <1>3 DEF Saves

LEMMA LogoutSaves ==
  ASSUME NEW m \in Mud, NEW p \in Account
  PROVE  Saves(m, Logout(m, p))
<1> DEFINE d == Deref(m, m.conn[p])
           l == [d EXCEPT !.conn[p] = NoConn, !.loggedIn[p] = FALSE, !.active[p] = FALSE]
           n == SavePlayer(l, p)
<1>1. d \in Mud /\ SameSaves(m, d) BY DerefSame, DerefSaves DEF SameSession
<1>2. Logout(m, p) = n BY DEF Logout
<1> HIDE DEF d
<1>3. /\ l \in Mud /\ l.saved = d.saved /\ l.room = d.room /\ l.registered = d.registered
      /\ l.loggedIn = [d.loggedIn EXCEPT ![p] = FALSE]
  BY <1>1 DEF Mud
<1>4. d.loggedIn \in [Account -> BOOLEAN] BY <1>1 DEF Mud
<1> HIDE DEF l
<1>5. /\ n.saved[p].room = n.room[p] /\ n.registered = l.registered
      /\ n.loggedIn = l.loggedIn /\ n.room = l.room
      /\ \A q \in Account \ {p} : n.saved[q] = l.saved[q]
  BY <1>3, SavePlayerSaves
<1> HIDE DEF n
<1>6. n.registered = m.registered BY <1>1, <1>3, <1>5 DEF SameSaves
<1>7. ASSUME NEW q \in Account \ {p}
      PROVE  n.loggedIn[q] = m.loggedIn[q] /\ n.saved[q] = m.saved[q] /\ n.room[q] = m.room[q]
  BY <1>1, <1>3, <1>4, <1>5, <1>7 DEF SameSaves
<1>8. Saves(m, n) BY <1>5, <1>6, <1>7 DEF Saves
<1> QED BY <1>2, <1>8

LEMMA RoomListSaves ==
  ASSUME NEW m \in Mud, NEW p \in Account
  PROVE  SameSaves(m, AddPlayerToRoom(m, p)) /\ SameSaves(m, RemovePlayerFromRoom(m, p))
<1> DEFINE a == [m.roster EXCEPT ![m.room[p]][p] = @ + 1]
           b == [m.roster EXCEPT ![m.room[p]][p] = @ - 1]
<1>1. AddPlayerToRoom(m, p) = [m EXCEPT !.roster = a] BY DEF AddPlayerToRoom
<1>2. RemovePlayerFromRoom(m, p) \in {Crash(m, "erase end"), [m EXCEPT !.roster = b]}
  BY DEF RemovePlayerFromRoom
<1> HIDE DEF a, b
<1>3. SameSaves(m, [m EXCEPT !.roster = a]) /\ SameSaves(m, [m EXCEPT !.roster = b])
  BY DEF SameSaves, Mud
<1> QED BY <1>1, <1>2, <1>3, CrashSaves

LEMMA GameEnterSaves ==
  ASSUME NEW m \in Mud, NEW p \in Account
  PROVE  Saves(m, GameEnter(m, p))
<1> DEFINE in == AddPlayerToRoom(m, p)
           n == [in EXCEPT !.active[p] = TRUE, !.loggedIn[p] = TRUE]
<1>1. in \in Mud /\ SameSaves(m, in) BY AddPlayerToRoomSame, RoomListSaves DEF SameSession
<1>2. GameEnter(m, p) = n BY DEF GameEnter
<1> HIDE DEF in
<1>3. /\ n.saved = in.saved /\ n.room = in.room /\ n.registered = in.registered
      /\ n.loggedIn = [in.loggedIn EXCEPT ![p] = TRUE]
      /\ in.loggedIn \in [Account -> BOOLEAN]
  BY <1>1 DEF Mud
<1> HIDE DEF n
<1> QED BY <1>1, <1>2, <1>3 DEF Saves, SameSaves

LEMMA EnterTopSaves ==
  ASSUME NEW m, NEW k \in Nat, Good(m, k), NEW c \in Conn
  PROVE  Saves(m, EnterTop(m, c))
<1>0. m \in Mud /\ Saves(m, m) BY DEF Good, Saves
<1>1. CASE Top(m, c) = "Game"
  <2>1. m.user[c] \in Account
    <3>1. m.base[c] = "Game" BY <1>1 DEF Top
    <3> QED BY <3>1 DEF Good, HandlersServe
  <2> QED BY <1>0, <1>1, <2>1, GameEnterSaves DEF EnterTop
<1>2. CASE Top(m, c) = "Train"
  <2>1. EnterTop(m, c) = [m EXCEPT !.active[m.user[c]] = FALSE] BY <1>2 DEF EnterTop
  <2>2. SameSaves(m, [m EXCEPT !.active[m.user[c]] = FALSE]) BY <1>0 DEF SameSaves, Mud
  <2> QED BY <2>1, <2>2, SameSavesSaves
<1>3. CASE Top(m, c) \notin {"Game", "Train"}
  BY <1>0, <1>3 DEF EnterTop
<1> QED BY <1>1, <1>2, <1>3

LEMMA LeaveTopSaves ==
  ASSUME NEW m, NEW k \in Nat, Good(m, k), NEW c \in Conn
  PROVE  Saves(m, LeaveTop(m, c))
<1>0. m \in Mud /\ Saves(m, m) BY DEF Good, Saves
<1>1. CASE Top(m, c) = "Game"
  <2> DEFINE p == m.user[c]
             out == RemovePlayerFromRoom(m, p)
             left == [out EXCEPT !.active[p] = FALSE]
  <2>1. p \in Account
    <3>1. m.base[c] = "Game" BY <1>1 DEF Top
    <3> QED BY <3>1 DEF Good, HandlersServe
  <2>2. LeaveTop(m, c) = IF m.closed[c] THEN Logout(left, p) ELSE left
    BY <1>1 DEF LeaveTop, GameLeave
  <2>3. out \in Mud /\ SameSaves(m, out)
    BY <1>0, <2>1, RemovePlayerFromRoomSame, RoomListSaves DEF SameSession
  <2> HIDE DEF out
  <2>4. left \in Mud /\ SameSaves(out, left) BY <2>3 DEF SameSaves, Mud
  <2> HIDE DEF left, p
  <2>5. Saves(m, left) BY <2>3, <2>4, SameSavesSaves DEF SameSaves
  <2>6. Saves(left, Logout(left, p)) BY <2>1, <2>4, LogoutSaves
  <2> QED BY <2>2, <2>5, <2>6, SavesTrans
<1>2. CASE Top(m, c) # "Game"
  BY <1>0, <1>2 DEF LeaveTop
<1> QED BY <1>1, <1>2


LEMMA ClearHandlersSaves ==
  ASSUME NEW m, NEW k \in Nat, Good(m, k), NEW c \in Conn
  PROVE  Saves(m, ClearHandlers(m, c))
<1> DEFINE l == LeaveTop(m, c)
           n == [l EXCEPT !.base[c] = "none", !.trains[c] = 0]
<1>1. l \in Mud BY LeaveTopRetreats DEF Good, Retreat
<1>2. Saves(m, l) BY LeaveTopSaves
<1>3. ClearHandlers(m, c) = n BY DEF ClearHandlers
<1> HIDE DEF l
<1>4. SameSaves(l, n) BY <1>1 DEF SameSaves, Mud
<1> HIDE DEF n
<1> QED BY <1>2, <1>3, <1>4, SameSavesSaves

LEMMA EraseSaves ==
  ASSUME NEW m, NEW k \in Nat, Good(m, k), NEW c \in Conn
  PROVE  Saves(m, Erase(m, c))
<1> DEFINE l == ClearHandlers(m, c)
           n == [l EXCEPT !.open = @ \ {c}, !.closed[c] = FALSE,
                          !.logon[c] = "NEWCONNECTION", !.errors[c] = 0,
                          !.user[c] = NoAccount]
<1>1. l \in Mud BY ClearHandlersGood DEF Good
<1>2. Saves(m, l) BY ClearHandlersSaves
<1>3. Erase(m, c) = n BY DEF Erase
<1> HIDE DEF l
<1>4. SameSaves(l, n) BY <1>1 DEF SameSaves, Mud
<1> HIDE DEF n
<1> QED BY <1>2, <1>3, <1>4, SameSavesSaves

LEMMA ShutSaves ==
  ASSUME NEW m \in Mud, NEW c \in Conn
  PROVE  SameSaves(m, [m EXCEPT !.closed[c] = TRUE])
BY DEF SameSaves, Mud

LEMMA TellGoneSaves ==
  ASSUME NEW m, NEW k \in Nat, Good(m, k), NEW c \in Conn
  PROVE  Saves(m, TellGone(m, c))
<1>0. m \in Mud /\ Saves(m, m) BY DEF Good, Saves
<1>1. CASE Top(m, c) = "none"
  <2>1. TellGone(m, c) = Crash(m, "null handler") BY <1>1 DEF TellGone
  <2> QED BY <1>0, <2>1, CrashSaves, SameSavesSaves
<1>2. CASE Top(m, c) = "Train"
  <2>1. m.user[c] \in Account
    <3>1. m.base[c] # "Train" BY <1>0 DEF Mud
    <3> QED BY <1>2, <3>1 DEF Top, Good, HandlersServe
  <2>2. TellGone(m, c) = Logout(m, m.user[c]) BY <1>2 DEF TellGone
  <2> QED BY <1>0, <2>1, <2>2, LogoutSaves
<1>3. CASE Top(m, c) \notin {"none", "Train"}
  BY <1>0, <1>3 DEF TellGone
<1> QED BY <1>1, <1>2, <1>3

\* The list tells the handler that the connection is gone, as it stands in n.
LEMMA ToldGood ==
  ASSUME NEW m, NEW k \in Nat, Good(m, k), NEW c \in Conn
  PROVE  LET told == TellGone([m EXCEPT !.closed[c] = TRUE], c)
         IN  Good(told, k) /\ Saves(m, told)
<1> DEFINE shut == [m EXCEPT !.closed[c] = TRUE]
           told == TellGone(shut, c)
<1>1. Good(shut, k) BY CloseGood
<1>2. SameSaves(m, shut) BY ShutSaves DEF Good
<1> HIDE DEF shut
<1>3. Retreat(shut, told) BY <1>1, TellGoneRetreats
<1>4. Saves(shut, told) BY <1>1, TellGoneSaves
<1> HIDE DEF told
<1>5. Good(told, k) BY <1>1, <1>3, RetreatGood
<1>6. Saves(m, told) BY <1>2, <1>4, SameSavesSaves
<1> QED BY <1>5, <1>6 DEF told, shut

LEMMA ExpelSaves ==
  ASSUME NEW m, NEW k \in Nat, Good(m, k), NEW c \in Conn
  PROVE  Saves(m, Expel(m, c))
<1> DEFINE told == TellGone([m EXCEPT !.closed[c] = TRUE], c)
<1>1. Good(told, k) /\ Saves(m, told) BY ToldGood
<1>2. Expel(m, c) = Erase(told, c) BY DEF Expel
<1> HIDE DEF told
<1>3. Saves(told, Erase(told, c)) BY <1>1, EraseSaves
<1> QED BY <1>1, <1>2, <1>3, SavesTrans

LEMMA LogOffPreviousSaves ==
  ASSUME NEW m, NEW k \in Nat, Good(m, k), NEW p \in Account
  PROVE  Saves(m, LogOffPrevious(m, p))
<1> DEFINE c == m.conn[p]
           at == Deref(m, c)
           told == TellGone([m EXCEPT !.closed[c] = TRUE], c)
<1>0. m \in Mud /\ Saves(m, m) BY DEF Good, Saves
<1>1. LogOffPrevious(m, p) = IF ~m.loggedIn[p] THEN m
                             ELSE IF at.fault # "none" THEN at
                             ELSE IF told.conn[p] = NoConn
                                  THEN Crash(told, "null connection")
                             ELSE ClearHandlers(told, c)
  BY DEF LogOffPrevious
<1>2. Saves(m, at)
  <2>1. SameSaves(m, at) BY <1>0, DerefSaves
  <2> QED BY <2>1, SameSavesSaves
<1>3. CASE at.fault = "none"
  <2>1. c \in Conn BY <1>0, <1>3, DerefFaultless DEF Mud
  <2>2. Good(told, k) /\ Saves(m, told) BY <2>1, ToldGood
  <2> HIDE DEF told, c
  <2>3. Saves(told, ClearHandlers(told, c)) BY <2>1, <2>2, ClearHandlersSaves
  <2>4. SameSaves(told, Crash(told, "null connection")) BY <2>2, CrashSaves DEF Good
  <2>5. Saves(m, ClearHandlers(told, c)) BY <2>2, <2>3, SavesTrans
  <2>6. Saves(m, Crash(told, "null connection")) BY <2>2, <2>4, SameSavesSaves
  <2> QED BY <1>0, <1>1, <1>3, <2>5, <2>6
<1> QED BY <1>0, <1>1, <1>2, <1>3

LEMMA GotoTrainSaves ==
  ASSUME NEW m, NEW k \in Nat, Good(m, k), NEW p \in Account
  PROVE  Saves(m, GotoTrain(m, p))
<1> DEFINE c == m.conn[p]
           off == [m EXCEPT !.active[p] = FALSE]
           at == Deref(off, c)
           left == LeaveTop(at, c)
           pushed == [left EXCEPT !.trains[c] = @ + 1]
<1>0. m \in Mud BY DEF Good
<1>1. GotoTrain(m, p) = IF at.fault # "none" THEN at ELSE EnterTop(pushed, c)
  BY DEF GotoTrain
<1>2. Good(off, k) /\ SameSaves(m, off)
  <2>1. /\ off \in Mud /\ StackFrame(m, off) /\ off.conn = m.conn
        /\ off.loggedIn = m.loggedIn /\ off.active = [m.active EXCEPT ![p] = FALSE]
    BY <1>0 DEF Mud, StackFrame, Frame
  <2>2. m.active \in [Account -> BOOLEAN] BY <1>0 DEF Mud
  <2>3. SameSaves(m, off) BY <1>0 DEF SameSaves, Mud
  <2> HIDE DEF off
  <2>4. Retreat(m, off) BY <2>1, <2>2 DEF Retreat, Good, PointersServe
  <2> QED BY <2>3, <2>4, RetreatGood
<1> HIDE DEF off
<1>3. SameSession(off, at) /\ SameSaves(off, at)
  BY <1>2, DerefSame, DerefSaves DEF Good
<1>4. at.fault = "none" => c \in off.open BY <1>2, DerefFaultless DEF Good
<1> HIDE DEF at
<1>5. Good(at, k) BY <1>2, <1>3, SameSessionGood
<1>6. Saves(m, at) BY <1>2, <1>3 DEF Saves, SameSaves
<1>7. CASE at.fault = "none"
  <2>1. c \in Conn BY <1>2, <1>4, <1>7 DEF Good, Mud
  <2>2. Retreat(at, left) BY <1>5, <2>1, LeaveTopRetreats
  <2>3. Saves(at, left) BY <1>5, <2>1, LeaveTopSaves
  <2> HIDE DEF left
  <2>4. left \in Mud BY <1>5, <2>2, RetreatGood DEF Good
  <2>5. SameSaves(left, pushed)
    <3> DEFINE t == [left.trains EXCEPT ![c] = @ + 1]
    <3>1. pushed = [left EXCEPT !.trains = t] OBVIOUS
    <3> HIDE DEF t, pushed
    <3> QED BY <2>4, <3>1 DEF SameSaves, Mud
  <2>6. pushed.trains[c] > 0 /\ Top(pushed, c) = "Train"
    <3>1. left.trains[c] \in Nat /\ left.trains \in [Conn -> Nat] BY <2>1, <2>4 DEF Mud
    <3>2. pushed.trains = [left.trains EXCEPT ![c] = left.trains[c] + 1] BY <2>4 DEF Mud
    <3> HIDE DEF pushed
    <3>3. pushed.trains[c] > 0 BY <2>1, <3>1, <3>2
    <3> QED BY <3>3 DEF Top
  <2>7. pushed.active = left.active /\ DOMAIN pushed = DOMAIN left BY <2>4 DEF Mud
  <2>8. SameSaves(pushed, EnterTop(pushed, c))
    <3> HIDE DEF pushed
    <3> DEFINE a == [pushed.active EXCEPT ![pushed.user[c]] = FALSE]
    <3>1. EnterTop(pushed, c) = [pushed EXCEPT !.active = a] BY <2>6 DEF EnterTop
    <3> HIDE DEF a
    <3>2. SameSaves(pushed, [pushed EXCEPT !.active = a]) BY <2>4, <2>7 DEF SameSaves, Mud
    <3> QED BY <3>1, <3>2
  <2> HIDE DEF pushed
  <2>9. Saves(m, pushed) BY <1>6, <2>3, <2>5, SavesTrans, SameSavesSaves
  <2>10. Saves(m, EnterTop(pushed, c)) BY <2>8, <2>9, SameSavesSaves
  <2> QED BY <1>1, <1>7, <2>10
<1> QED BY <1>1, <1>6, <1>7

LEMMA RemoveHandlerSaves ==
  ASSUME NEW m, NEW k \in Nat, Good(m, k), NEW p \in Account
  PROVE  Saves(m, RemoveHandler(m, p))
<1> DEFINE c == m.conn[p]
           at == Deref(m, c)
           popped == [m EXCEPT !.trains[c] = @ - 1]
           left == LeaveTop(m, c)
           bare == [left EXCEPT !.base[c] = "none"]
<1>0. m \in Mud /\ m.trains \in [Conn -> Nat] BY DEF Good, Mud
<1>1. SameSaves(m, at) /\ (at.fault = "none" => c \in m.open)
  BY <1>0, DerefSaves, DerefFaultless
<1>2. CASE at.fault # "none"
  <2>1. RemoveHandler(m, p) = at BY <1>2 DEF RemoveHandler
  <2> QED BY <1>1, <2>1, SameSavesSaves
<1>3. CASE at.fault = "none"
  <2>1. c \in m.open /\ c \in Conn /\ m.user[c] = p /\ m.base[c] # "Logon"
    BY <1>0, <1>1, <1>3 DEF Good, Mud, PointersServe
  <2>2. CASE Top(m, c) = "none"
    <3>1. RemoveHandler(m, p) = Crash(m, "null handler")
      BY <1>3, <2>2 DEF RemoveHandler
    <3> QED BY <1>0, <3>1, CrashSaves, SameSavesSaves
  <2>3. CASE Top(m, c) = "Train"
    <3> DEFINE t == [m.trains EXCEPT ![c] = @ - 1]
    <3>1. RemoveHandler(m, p) = EnterTop(popped, c) BY <1>3, <2>3 DEF RemoveHandler
    <3>2. popped = [m EXCEPT !.trains = t] OBVIOUS
    <3> HIDE DEF popped, t
    <3>3. SameSaves(m, popped) BY <1>0, <3>2 DEF SameSaves, Mud
    <3>4. popped.user = m.user BY <1>0, <3>2 DEF Mud
    <3>5. CASE Top(popped, c) = "Game"
      <4>1. SameSaves(m, popped) BY <3>3
      <4>2. EnterTop(popped, c) = GameEnter(popped, p) BY <2>1, <3>4, <3>5 DEF EnterTop
      <4>3. popped \in Mud
        <5>1. m.trains[c] > 0
          <6>1. m.base[c] # "Train" /\ m.trains[c] \in Nat BY <1>0, <2>1 DEF Mud
          <6> QED BY <2>3, <6>1 DEF Top
        <5>2. t \in [Conn -> Nat] BY <1>0, <2>1, <5>1 DEF t
        <5> QED BY <1>0, <3>2, <5>2 DEF Mud
      <4>4. Saves(popped, GameEnter(popped, p)) BY <4>3, GameEnterSaves
      <4> QED BY <3>1, <4>1, <4>2, <4>4, SameSavesSaves
    <3>6. CASE Top(popped, c) = "Train"
      <4> DEFINE a == [popped.active EXCEPT ![popped.user[c]] = FALSE]
      <4>1. EnterTop(popped, c) = [popped EXCEPT !.active = a] BY <3>6 DEF EnterTop
      <4> HIDE DEF a
      <4>2. SameSaves(popped, [popped EXCEPT !.active = a])
        BY <1>0, <3>2 DEF SameSaves, Mud
      <4>3. Saves(m, popped) BY <3>3, SameSavesSaves
      <4> QED BY <3>1, <4>1, <4>2, <4>3, SameSavesSaves
    <3>7. CASE Top(popped, c) \notin {"Game", "Train"}
      <4>1. EnterTop(popped, c) = popped BY <3>7 DEF EnterTop
      <4> QED BY <3>1, <3>3, <4>1, SameSavesSaves
    <3> QED BY <3>5, <3>6, <3>7
  <2>4. CASE Top(m, c) \notin {"none", "Train"}
    <3>1. RemoveHandler(m, p) = bare BY <1>3, <2>4 DEF RemoveHandler
    <3>2. Retreat(m, left) BY <2>1, LeaveTopRetreats
    <3>3. Saves(m, left) BY <2>1, LeaveTopSaves
    <3> HIDE DEF left
    <3>4. left \in Mud BY <3>2, RetreatGood DEF Good
    <3>5. SameSaves(left, bare) BY <3>4 DEF SameSaves, Mud
    <3> HIDE DEF bare
    <3> QED BY <3>1, <3>3, <3>5, SameSavesSaves
  <2> QED BY <2>2, <2>3, <2>4
<1> QED BY <1>2, <1>3

LEMMA GotoGameSaves ==
  ASSUME NEW m, NEW k \in Nat, Good(m, k), NEW c \in m.open,
         NEW p \in Account, NEW newbie \in BOOLEAN,
         m.base[c] = "Logon", m.user[c] = p
  PROVE  Saves(m, GotoGame(m, c, p, newbie))
<1> DEFINE off == LogOffPrevious(m, p)
           sat == [off EXCEPT !.conn[p] = c, !.base[c] = "Game"]
           in == GameEnter(sat, p)
<1>0. c \in Conn BY DEF Good, Mud
<1>1. Good(off, k) /\ Frame(m, off) /\ off.base[c] = "Logon"
  BY <1>0, LogOffPreviousGood
<1>2. GotoGame(m, c, p, newbie) =
        IF off.fault # "none" THEN off ELSE IF newbie THEN GotoTrain(in, p) ELSE in
  BY DEF GotoGame
<1>3. Saves(m, off) BY LogOffPreviousSaves
<1> HIDE DEF off
<1>4. SameSaves(off, sat) BY <1>1 DEF Good, Mud, SameSaves
<1>5. Good(sat, k) /\ Good(in, k)
  <2>1. c \in off.open /\ off.user[c] = p BY <1>1 DEF Frame
  <2> QED BY <1>1, <2>1, SeatGood
<1> HIDE DEF sat
<1>6. Saves(sat, in) BY <1>5, GameEnterSaves DEF Good
<1> HIDE DEF in
<1>7. Saves(in, GotoTrain(in, p)) BY <1>5, GotoTrainSaves
<1>8. Saves(m, sat) BY <1>3, <1>4, SameSavesSaves
<1>9. Saves(m, in) BY <1>6, <1>8, SavesTrans
<1>10. Saves(m, GotoTrain(in, p)) BY <1>7, <1>9, SavesTrans
<1> QED BY <1>2, <1>3, <1>9, <1>10

LEMMA LoadPlayerSaves ==
  ASSUME NEW m \in Mud, NEW q \in Account
  PROVE  Saves(m, LoadPlayer(m, q))
<1> DEFINE room == [m.room EXCEPT ![q] = m.saved[q].room]
           rank == [m.rank EXCEPT ![q] = m.saved[q].rank]
           n == [m EXCEPT !.room = room, !.rank = rank]
<1>1. LoadPlayer(m, q) = n BY DEF LoadPlayer
<1>2. room[q] = m.saved[q].room /\ \A p \in Account \ {q} : room[p] = m.room[p]
  BY DEF Mud
<1> HIDE DEF room, rank
<1>3. n.registered = m.registered /\ n.loggedIn = m.loggedIn /\ n.saved = m.saved
      /\ n.room = room
  BY DEF Mud
<1> HIDE DEF n
<1> QED BY <1>1, <1>2, <1>3 DEF Saves

LEMMA ReloadPlayerSaves ==
  ASSUME NEW m, NEW k \in Nat, Good(m, k), NEW q \in Account
  PROVE  Saves(m, ReloadPlayer(m, q))
<1> DEFINE c == m.conn[q]
           left == LeaveTop(m, c)
           loaded == LoadPlayer(left, q)
           gone == Deref(loaded, loaded.conn[q])
<1>0. m \in Mud BY DEF Good
<1>1. CASE ~m.active[q]
  <2>1. ReloadPlayer(m, q) = LoadPlayer(m, q) BY <1>1 DEF ReloadPlayer
  <2> QED BY <1>0, <2>1, LoadPlayerSaves
<1>2. CASE m.active[q]
  <2>1. c \in Conn BY <1>0, <1>2 DEF Good, Mud, PointersServe
  <2>2. ReloadPlayer(m, q) =
          IF Deref(m, c).fault # "none" THEN Deref(m, c)
          ELSE IF gone.fault # "none" THEN gone ELSE EnterTop(loaded, c)
    BY <1>2 DEF ReloadPlayer
  <2>3. Saves(m, Deref(m, c))
    <3>1. SameSaves(m, Deref(m, c)) BY <1>0, DerefSaves
    <3> QED BY <3>1, SameSavesSaves
  <2>4. Retreat(m, left) BY <2>1, LeaveTopRetreats
  <2>5. Saves(m, left) BY <2>1, LeaveTopSaves
  <2> HIDE DEF left
  <2>6. Good(left, k) BY <2>4, RetreatGood
  <2>7. Good(loaded, k) BY <2>6, LoadPlayerSame, SameSessionGood DEF Good
  <2>8. Saves(left, loaded) BY <2>6, LoadPlayerSaves DEF Good
  <2> HIDE DEF loaded
  <2>9. SameSaves(loaded, gone) BY <2>7, DerefSaves DEF Good
  <2>10. Saves(loaded, EnterTop(loaded, c)) BY <2>1, <2>7, EnterTopSaves
  <2> HIDE DEF gone, c
  <2>11. Saves(m, loaded) BY <2>5, <2>8, SavesTrans
  <2>12. Saves(m, gone) BY <2>9, <2>11, SameSavesSaves
  <2>13. Saves(m, EnterTop(loaded, c)) BY <2>10, <2>11, SavesTrans
  <2> QED BY <2>2, <2>3, <2>12, <2>13
<1>3. m.active[q] \in BOOLEAN BY <1>0 DEF Mud
<1> QED BY <1>1, <1>2, <1>3

\* Whoever is taken to another room is logged on, so that his row is still to
\* be written.
LEMMA ChangeRoomSaves ==
  ASSUME NEW m \in Mud, NEW p \in Account, NEW r \in Room, m.loggedIn[p]
  PROVE  Saves(m, ChangeRoom(m, p, r))
<1> DEFINE gone == RemovePlayerFromRoom(m, p)
           there == [gone EXCEPT !.room[p] = r]
           moved == AddPlayerToRoom(there, p)
           told == SendRoom(moved, m.room[p])
<1>1. gone \in Mud /\ SameSaves(m, gone)
  BY RemovePlayerFromRoomSame, RoomListSaves DEF SameSession
<1>2. ChangeRoom(m, p, r) = SendRoom(told, r) BY DEF ChangeRoom
<1> HIDE DEF gone
<1>3. /\ there \in Mud /\ there.registered = gone.registered
      /\ there.loggedIn = gone.loggedIn /\ there.saved = gone.saved
      /\ there.room = [gone.room EXCEPT ![p] = r]
  BY <1>1 DEF Mud
<1>4. gone.room \in [Account -> Room] BY <1>1 DEF Mud
<1> HIDE DEF there
<1>5. Saves(m, there) BY <1>1, <1>3, <1>4 DEF Saves, SameSaves
<1>6. moved \in Mud /\ SameSaves(there, moved)
  BY <1>3, AddPlayerToRoomSame, RoomListSaves DEF SameSession
<1> HIDE DEF moved
<1>7. told \in Mud /\ SameSaves(moved, told)
  BY <1>6, SendToSame, CrashSaves DEF SendRoom, SendTo, SameSession, SameSaves
<1> HIDE DEF told
<1>8. SameSaves(told, SendRoom(told, r))
  BY <1>7, CrashSaves DEF SendRoom, SendTo, SameSaves
<1>9. Saves(m, moved) BY <1>5, <1>6, SameSavesSaves
<1>10. Saves(m, told) BY <1>7, <1>9, SameSavesSaves
<1> QED BY <1>2, <1>8, <1>10, SameSavesSaves

LEMMA AddPlayerSaves ==
  ASSUME NEW m \in Mud, AllSaved(m), NEW p \in Account
  PROVE  AllSaved(AddPlayer(m, p))
<1> DEFINE new == [m EXCEPT !.registered = @ \cup {p},
                            !.rank[p] = IF m.registered = {} THEN ADMIN ELSE REGULAR,
                            !.room[p] = StartRoom]
           n == SavePlayer(new, p)
<1>1. CASE p \in m.registered BY <1>1 DEF AddPlayer
<1>2. CASE p \notin m.registered
  <2>1. AddPlayer(m, p) = n BY <1>2 DEF AddPlayer
  <2>2. StartRoom \in Room /\ ADMIN \in Rank /\ REGULAR \in Rank
    BY ConstantsAssumption DEF ConstantsAssumption, ADMIN, REGULAR, Rank
  <2>3. /\ new \in Mud /\ new.registered = m.registered \cup {p}
        /\ new.loggedIn = m.loggedIn /\ new.saved = m.saved
        /\ new.room = [m.room EXCEPT ![p] = StartRoom]
    BY <2>2 DEF Mud
  <2>4. m.room \in [Account -> Room] /\ m.registered \subseteq Account BY DEF Mud
  <2> HIDE DEF new
  <2>5. /\ n.saved[p].room = n.room[p] /\ n.registered = new.registered
        /\ n.loggedIn = new.loggedIn /\ n.room = new.room
        /\ \A q \in Account \ {p} : n.saved[q] = new.saved[q]
    BY <2>3, SavePlayerSaves
  <2> HIDE DEF n
  <2> SUFFICES ASSUME NEW q \in n.registered, ~n.loggedIn[q]
               PROVE  n.saved[q].room = n.room[q]
    BY <2>1 DEF AllSaved
  <2>6. CASE q = p BY <2>5, <2>6
  <2>7. CASE q # p BY <2>3, <2>4, <2>5, <2>7 DEF AllSaved
  <2> QED BY <2>6, <2>7
<1> QED BY <1>1, <1>2

LEMMA SaveAllSaves ==
  ASSUME NEW m \in Mud
  PROVE  AllSaved(SaveAll(m))
<1> DEFINE s == [p \in Account |-> IF p \in m.registered
                                   THEN [room |-> m.room[p], rank |-> m.rank[p]]
                                   ELSE m.saved[p]]
           n == [m EXCEPT !.saved = s]
<1>1. SaveAll(m) = n BY DEF SaveAll
<1>2. m.registered \subseteq Account BY DEF Mud
<1>3. \A p \in m.registered : s[p].room = m.room[p] BY <1>2
<1> HIDE DEF s
<1>4. n.registered = m.registered /\ n.saved = s /\ n.room = m.room BY DEF Mud
<1> HIDE DEF n
<1> QED BY <1>1, <1>3, <1>4 DEF AllSaved

-----------------------------------------------------------------------------
(* The steps. *)

\* The handlers ran to completion, or the step was the last one.
LEMMA SetAllSaved ==
  ASSUME mud \in Mud, AllSaved(mud), NEW m, Set(m), m.fault = "none" => AllSaved(m)
  PROVE  AllSaved(mud')
<1>1. CASE m.fault = "none" BY <1>1 DEF Set
<1>2. CASE m.fault # "none"
  <2> DEFINE n == [mud EXCEPT !.fault = m.fault]
  <2>1. mud' = n BY <1>2 DEF Set
  <2>2. /\ n.registered = mud.registered /\ n.loggedIn = mud.loggedIn
        /\ n.saved = mud.saved /\ n.room = mud.room
    BY DEF Mud
  <2> HIDE DEF n
  <2> QED BY <2>1, <2>2 DEF AllSaved
<1> QED BY <1>1, <1>2

LEMMA SetSaves ==
  ASSUME mud \in Mud, AllSaved(mud), NEW m, Set(m), Saves(mud, m)
  PROVE  AllSaved(mud')
BY SavesKeeps, SetAllSaved

LEMMA LogonSaves ==
  ASSUME IInv, AllSaved(mud), LogonStep
  PROVE  AllSaved(mud')
<1>0. mud \in Mud /\ Good(mud, arrived) /\ arrived \in Nat BY DEF IInv, Good
<1>1. cur \in mud.open /\ cur \in Conn /\ mud.base[cur] = "Logon"
  <2>1. Line("Logon")
    BY DEF LogonStep, TooManyErrors, WrongAnswer, AskNew, Register, Login,
           NameKnown, NameFree, LogonLine
  <2> QED BY <1>0, <2>1 DEF Line, Up, IInv, Top, Mud
\* The answers that only move the logon's own state.
<1>2. ASSUME NEW n, Set(n), SameSaves(mud, n) PROVE AllSaved(mud')
  BY <1>0, <1>2, SameSavesSaves, SetSaves
<1>3. CASE TooManyErrors
  <2> DEFINE n == [mud EXCEPT !.closed[cur] = TRUE]
  <2>1. Set(n) BY <1>3 DEF TooManyErrors
  <2>2. SameSaves(mud, n) BY <1>0, <1>1, ShutSaves
  <2> HIDE DEF n
  <2> QED BY <1>2, <2>1, <2>2
<1>4. CASE WrongAnswer
  <2> DEFINE e == [mud.errors EXCEPT ![cur] = @ + 1]
             n == [mud EXCEPT !.errors = e]
  <2>1. Set(n) BY <1>4 DEF WrongAnswer
  <2> HIDE DEF e
  <2>2. SameSaves(mud, n) BY <1>0 DEF SameSaves, Mud
  <2> HIDE DEF n
  <2> QED BY <1>2, <2>1, <2>2
<1>5. CASE AskNew
  <2> DEFINE n == [mud EXCEPT !.logon[cur] = "NEWUSER"]
  <2>1. Set(n) BY <1>5 DEF AskNew
  <2>2. SameSaves(mud, n) BY <1>0 DEF SameSaves, Mud
  <2> HIDE DEF n
  <2> QED BY <1>2, <2>1, <2>2
<1>6. ASSUME NEW p \in Account, NameKnown(p) \/ NameFree(p) PROVE AllSaved(mud')
  <2>1. PICK l \in LogonState : Set([mud EXCEPT !.logon[cur] = l, !.user[cur] = p])
    BY <1>6 DEF NameKnown, NameFree, LogonState
  <2> DEFINE n == [mud EXCEPT !.logon[cur] = l, !.user[cur] = p]
  <2>2. Set(n) BY <2>1
  <2>3. SameSaves(mud, n) BY <1>0 DEF SameSaves, Mud
  <2> HIDE DEF n
  <2> QED BY <1>2, <2>2, <2>3
\* The answers that enter the game.
<1>7. ASSUME NEW m, Good(m, arrived), AllSaved(m), StackFrame(mud, m), NEW newbie \in BOOLEAN,
             mud.user[cur] \in Account, Set(GotoGame(m, cur, mud.user[cur], newbie))
      PROVE  AllSaved(mud')
  <2> DEFINE p == mud.user[cur]
             n == GotoGame(m, cur, p, newbie)
  <2>1. cur \in m.open /\ m.base[cur] = "Logon" /\ m.user[cur] = p
    BY <1>1, <1>7 DEF StackFrame, Frame
  <2>2. Saves(m, n)
    <3> HIDE DEF p
    <3>1. p \in Account BY <1>7 DEF p
    <3> QED BY <1>0, <1>7, <2>1, <3>1, GotoGameSaves
  <2> HIDE DEF n
  <2>3. Set(n) BY <1>7 DEF n
  <2>4. AllSaved(n) BY <1>7, <2>2, SavesKeeps DEF Good
  <2> QED BY <1>0, <2>3, <2>4, SetAllSaved
<1>8. CASE Register
  <2> DEFINE m == AddPlayer(mud, mud.user[cur])
  <2>1. mud.user[cur] \in Account /\ Set(GotoGame(m, cur, mud.user[cur], TRUE))
    BY <1>0, <1>1, <1>8 DEF Register, LogonLine, Good, HandlersServe
  <2>2. SameSession(mud, m) /\ AllSaved(m) BY <1>0, <2>1, AddPlayerSame, AddPlayerSaves
  <2> HIDE DEF m
  <2>3. Good(m, arrived) /\ StackFrame(mud, m) BY <1>0, <2>2, SameSessionGood
  <2> QED BY <1>7, <2>1, <2>2, <2>3
<1>9. CASE Login
  <2>1. mud.user[cur] \in Account /\ Set(GotoGame(mud, cur, mud.user[cur], FALSE))
    BY <1>0, <1>1, <1>9 DEF Login, LogonLine, Good, HandlersServe
  <2>2. StackFrame(mud, mud) BY DEF StackFrame, Frame
  <2> QED BY <1>0, <1>7, <2>1, <2>2
<1> QED BY <1>3, <1>4, <1>5, <1>6, <1>8, <1>9 DEF LogonStep

LEMMA GameSaves ==
  ASSUME IInv, Seated(mud), AllSaved(mud), GameStep
  PROVE  AllSaved(mud')
<1>0. mud \in Mud /\ Good(mud, arrived) /\ arrived \in Nat BY DEF IInv, Good
<1>1. cur \in mud.open /\ cur \in Conn /\ mud.user[cur] \in Account
  <2>1. \E h \in {"Game", "Train"} : Line(h)
    BY DEF GameStep, Quit, Announce, Shutdown, EditStats, TrainQuit, Kick, Reload,
           ChangeRank, Move, Command
  <2>2. cur \in mud.open /\ Top(mud, cur) \in {"Game", "Train"} BY <2>1 DEF Line, Up, IInv
  <2>3. cur \in Conn /\ mud.base[cur] # "Train" /\ mud.trains[cur] \in Nat
    BY <1>0, <2>2 DEF Mud
  <2> QED BY <1>0, <2>2, <2>3 DEF Top, Good, HandlersServe
<1>2. ASSUME NEW n, Set(n), SameSaves(mud, n) PROVE AllSaved(mud')
  BY <1>0, <1>2, SameSavesSaves, SetSaves
<1>3. CASE Quit
  <2> DEFINE n == [mud EXCEPT !.closed[cur] = TRUE]
  <2>1. Set(n) BY <1>3 DEF Quit
  <2>2. SameSaves(mud, n) BY <1>0, <1>1, ShutSaves
  <2> HIDE DEF n
  <2> QED BY <1>2, <2>1, <2>2
<1>4. CASE Announce \/ Shutdown
  <2> DEFINE n == SendGlobal(mud)
  <2>1. Set(n) BY <1>4 DEF Announce, Shutdown
  <2>2. SameSaves(mud, n) BY <1>0, CrashSaves DEF SendGlobal, SendTo, SameSaves
  <2> HIDE DEF n
  <2> QED BY <1>2, <2>1, <2>2
<1>5. CASE EditStats
  <2> DEFINE n == GotoTrain(mud, mud.user[cur])
  <2>1. Set(n) BY <1>5 DEF EditStats
  <2>2. Saves(mud, n) BY <1>0, <1>1, GotoTrainSaves
  <2> HIDE DEF n
  <2> QED BY <1>0, <2>1, <2>2, SetSaves
<1>6. CASE TrainQuit
  <2> DEFINE p == mud.user[cur]
             s == SavePlayer(mud, p)
             n == RemoveHandler(s, p)
  <2>1. Set(n) BY <1>6 DEF TrainQuit
  <2>2. Saves(mud, s) BY <1>0, <1>1, SavePlayerSaves
  <2>3. Good(s, arrived) BY <1>0, <1>1, SavePlayerSame, SameSessionGood
  <2> HIDE DEF s
  <2>4. Saves(s, n) BY <1>0, <1>1, <2>3, RemoveHandlerSaves
  <2> HIDE DEF n
  <2>5. Saves(mud, n) BY <2>2, <2>4, SavesTrans
  <2> QED BY <1>0, <2>1, <2>5, SetSaves
<1>7. ASSUME NEW q \in Account, Kick(q) PROVE AllSaved(mud')
  <2> DEFINE c == mud.conn[q]
             at == Deref(mud, c)
  <2>1. Set(IF at.fault # "none" THEN at ELSE [mud EXCEPT !.closed[c] = TRUE])
    BY <1>7 DEF Kick
  <2>2. CASE at.fault # "none"
    <3>1. Set(at) /\ SameSaves(mud, at) BY <1>0, <2>1, <2>2, DerefSaves
    <3> HIDE DEF at
    <3> QED BY <1>2, <3>1
  <2>3. CASE at.fault = "none"
    <3>1. c \in Conn BY <1>0, <2>3, DerefFaultless DEF Mud
    <3> HIDE DEF c
    <3>2. SameSaves(mud, [mud EXCEPT !.closed[c] = TRUE]) BY <1>0, <3>1, ShutSaves
    <3>3. Set([mud EXCEPT !.closed[c] = TRUE]) BY <2>1, <2>3
    <3> QED BY <1>2, <3>2, <3>3
  <2> QED BY <2>2, <2>3
<1>8. ASSUME NEW q \in Account, Reload(q) PROVE AllSaved(mud')
  <2> DEFINE n == ReloadPlayer(mud, q)
  <2>1. Set(n) BY <1>8 DEF Reload
  <2>2. Saves(mud, n) BY <1>0, ReloadPlayerSaves
  <2> HIDE DEF n
  <2> QED BY <1>0, <2>1, <2>2, SetSaves
<1>9. ASSUME NEW q \in Account, NEW k, ChangeRank(q, k) PROVE AllSaved(mud')
  <2> DEFINE n == [mud EXCEPT !.rank[q] = k]
  <2>1. Set(n) BY <1>9 DEF ChangeRank
  <2>2. SameSaves(mud, n) BY <1>0 DEF SameSaves, Mud
  <2> HIDE DEF n
  <2> QED BY <1>2, <2>1, <2>2
<1>10. ASSUME NEW r \in Room, Move(r) PROVE AllSaved(mud')
  <2> DEFINE p == mud.user[cur]
             n == ChangeRoom(mud, p, r)
  <2>1. Set(n) /\ Top(mud, cur) = "Game" BY <1>10 DEF Move, Command, Line
  <2>2. mud.loggedIn[p]
    <3>1. mud.base[cur] = "Game" BY <2>1 DEF Top
    <3> QED BY <1>1, <3>1 DEF Seated, Owners, Owns
  <2>3. Saves(mud, n)
    <3> HIDE DEF p
    <3>1. p \in Account BY <1>1 DEF p
    <3> QED BY <1>0, <2>2, <3>1, ChangeRoomSaves
  <2> HIDE DEF n
  <2> QED BY <1>0, <2>1, <2>3, SetSaves
<1> QED BY <1>3, <1>4, <1>5, <1>6, <1>7, <1>8, <1>9, <1>10 DEF GameStep

LEMMA PassSaves ==
  ASSUME IInv, AllSaved(mud), PassStep
  PROVE  AllSaved(mud')
<1>0. mud \in Mud /\ Good(mud, arrived) /\ arrived \in Nat BY DEF IInv, Good
<1>1. ASSUME NEW c \in mud.open, NEW n, Set(n), n \in {Expel(mud, c), Erase(mud, c)}
      PROVE  AllSaved(mud')
  <2>1. c \in Conn BY <1>0 DEF Mud
  <2>2. Saves(mud, n)
    <3>1. Saves(mud, Expel(mud, c)) BY <1>0, <2>1, ExpelSaves
    <3>2. Saves(mud, Erase(mud, c)) BY <1>0, <2>1, EraseSaves
    <3> QED BY <1>1, <3>1, <3>2
  <2> QED BY <1>0, <1>1, <2>2, SetSaves
<1>2. ASSUME NEW c \in Conn,
             ReceiveFails(c) \/ SendFails(c) \/ CloseVisit(c) \/ Destroy(c)
      PROVE  AllSaved(mud')
  <2>1. /\ c \in mud.open
        /\ Set(Expel(mud, c)) \/ Set(Erase(mud, c)) \/ UNCHANGED mud
    BY <1>2 DEF ReceiveFails, SendFails, CloseVisit, Destroy, Visit
  <2>2. CASE Set(Expel(mud, c)) BY <1>1, <2>1, <2>2
  <2>3. CASE Set(Erase(mud, c)) BY <1>1, <2>1, <2>3
  <2>4. CASE UNCHANGED mud BY <2>4
  <2> QED BY <2>1, <2>2, <2>3, <2>4
<1>3. CASE Flooding
  <2>1. cur \in mud.open /\ Set(Expel(mud, cur)) BY <1>3 DEF Flooding, Up, IInv
  <2> QED BY <1>1, <2>1
<1>4. CASE EndLoop(mud) \/ EndLoop(SaveAll(mud)) \/ Down
  <2>1. Set(mud) \/ Set(SaveAll(mud)) BY <1>4 DEF EndLoop, Down
  <2>2. AllSaved(SaveAll(mud)) BY <1>0, SaveAllSaves
  <2> QED BY <1>0, <2>1, <2>2, SetAllSaved
<1>5. CASE Accept
  <2> DEFINE k == arrived + 1
             n == [mud EXCEPT !.open = @ \cup {k}, !.base[k] = "Logon"]
  <2>1. UNCHANGED mud \/ Set(n) BY <1>5 DEF Accept
  <2>2. SameSaves(mud, n) BY <1>0 DEF SameSaves, Mud
  <2> HIDE DEF n
  <2>3. CASE Set(n) BY <1>0, <2>2, <2>3, SameSavesSaves, SetSaves
  <2>4. CASE UNCHANGED mud BY <2>4
  <2> QED BY <2>1, <2>3, <2>4
<1>6. CASE \/ NoNewcomer \/ AcceptFails \/ EndReceive
           \/ EndPass("listen", "send") \/ EndPass("send", "close") \/ EndPass("close", "loop")
           \/ \E c \in Conn : Quiet(c) \/ BeginReceive(c) \/ Sent(c)
  <2>1. UNCHANGED mud
    BY <1>6 DEF NoNewcomer, AcceptFails, EndReceive, EndPass, Quiet, BeginReceive, Sent
  <2> QED BY <2>1
<1> QED BY <1>2, <1>3, <1>4, <1>5, <1>6 DEF PassStep

LEMMA TimerSaves ==
  ASSUME IInv, Seated(mud), AllSaved(mud), TimerStep
  PROVE  AllSaved(mud')
<1>0. mud \in Mud /\ Good(mud, arrived) /\ StartRoom \in Room
  BY ConstantsAssumption DEF IInv, Good, ConstantsAssumption
<1>1. PICK p \in Account : PlayerKilled(p) BY DEF TimerStep
<1> DEFINE n == ChangeRoom(mud, p, StartRoom)
<1>2. Set(n) /\ \E r \in Room : mud.roster[r][p] > 0 BY <1>1 DEF PlayerKilled
<1>3. mud.active[p] BY <1>2 DEF Seated, Listed
<1>4. mud.loggedIn[p] BY <1>0, <1>3 DEF Good, PointersServe
<1>5. Saves(mud, n) BY <1>0, <1>4, ChangeRoomSaves
<1> HIDE DEF n
<1> QED BY <1>0, <1>2, <1>5, SetSaves

\* Whoever is not logged on has his row in the room where he stands
\* (OfflineIsSaved): quitting, a failure, a takeover, a kick and the
\* destruction of the manager all go through Logout, and nobody is moved while
\* he is away.
THEOREM NobodyLeavesUnsaved ==
  ASSUME "editstats" \notin Commands
  PROVE  Spec => []OfflineIsSaved
<1>1. Init => AllSaved(mud)
  <2> SUFFICES ASSUME Init PROVE AllSaved(mud) OBVIOUS
  <2>1. /\ mud.registered = Known /\ mud.room = [p \in Account |-> StartRoom]
        /\ mud.saved = [p \in Account |-> [room |-> StartRoom, rank |-> StartRank[p]]]
    BY DEF Init
  <2> QED BY <2>1, ConstantsAssumption DEF AllSaved, ConstantsAssumption
<1>2. IInv /\ Seated(mud) /\ AllSaved(mud) /\ [Next]_vars => AllSaved(mud)'
  <2> SUFFICES ASSUME IInv, Seated(mud), AllSaved(mud), [Next]_vars
               PROVE  AllSaved(mud')
    OBVIOUS
  <2>1. CASE UNCHANGED vars BY <2>1 DEF vars
  <2>2. CASE Next BY <2>2, LogonSaves, GameSaves, PassSaves, TimerSaves DEF Next
  <2> QED BY <2>1, <2>2
<1>3. AllSaved(mud) => OfflineIsSaved BY DEF AllSaved, OfflineIsSaved
<1>4. Spec => [](IInv /\ Seated(mud)) BY AlwaysSeated
<1> QED BY <1>1, <1>2, <1>3, <1>4, PTL DEF Spec

=============================================================================
