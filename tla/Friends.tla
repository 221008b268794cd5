------------------------------ MODULE Friends ------------------------------
(***************************************************************************)
(* Friend requests.  Every Game handler has a FriendManager of its own: it *)
(* is born with the handler, lies under the training screen, and is gone   *)
(* when the handler is.  Its connection to the database is null, because   *)
(* the default constructor made it.  RemoveFriend and LoadFriendsFromDB    *)
(* have no caller.                                                         *)
(***************************************************************************)
CONSTANT Player

VARIABLES
  up,        \* whether the server runs
  mode,      \* every player: "out", "playing" or "training"
  pending,   \* pending of the manager of a player's handler: <<sender, target>>
  friends,   \* friendships of that manager: <<player, friend>>
  saving,    \* the <<player, friend>> AddFriendshipToDB is called with, if it is
  table,     \* the Friendship table
  answered   \* history: <<player, requester>> of the requests a player accepted

vars == <<up, mode, pending, friends, saving, table, answered>>

Pair == Player \X Player

Init ==
  /\ up = TRUE
  /\ mode = [p \in Player |-> "out"]
  /\ pending = [p \in Player |-> {}]
  /\ friends = [p \in Player |-> {}]
  /\ saving = {} /\ table = {} /\ answered = {}

LoggedIn(p) == mode[p] # "out"

\* One thread handles every line: none while another is in AddFriendshipToDB.
Serving == up /\ saving = {}

\* A new Game handler, also when it takes the place of another.
Enter(p) ==
  /\ Serving
  /\ mode' = [mode EXCEPT ![p] = "playing"]
  /\ pending' = [pending EXCEPT ![p] = {}]
  /\ friends' = [friends EXCEPT ![p] = {}]
  /\ UNCHANGED <<up, saving, table, answered>>

Leave(p) ==
  /\ Serving /\ LoggedIn(p)
  /\ mode' = [mode EXCEPT ![p] = "out"]
  /\ pending' = [pending EXCEPT ![p] = {}]
  /\ friends' = [friends EXCEPT ![p] = {}]
  /\ UNCHANGED <<up, saving, table, answered>>

\* editstats, and quit on the training screen: the handler beneath stays.
GotoTrain(p) ==
  /\ Serving /\ mode[p] = "playing"
  /\ mode' = [mode EXCEPT ![p] = "training"]
  /\ UNCHANGED <<up, saving, pending, friends, table, answered>>

EndTraining(p) ==
  /\ Serving /\ mode[p] = "training"
  /\ mode' = [mode EXCEPT ![p] = "playing"]
  /\ UNCHANGED <<up, saving, pending, friends, table, answered>>

\* addfriend: the target is anyone logged in, the sender himself included.
AddFriendRequest(p, target) ==
  /\ Serving /\ mode[p] = "playing" /\ LoggedIn(target)
  /\ pending' = [pending EXCEPT ![p] = @ \cup {<<p, target>>}]
  /\ UNCHANGED <<up, saving, mode, friends, table, answered>>

\* acceptfriend looks in the manager of the one who accepts.  A request found
\* there becomes a friendship of both in that manager, and then one to save.
AcceptFriend(p, requester) ==
  /\ Serving /\ mode[p] = "playing" /\ LoggedIn(requester)
  /\ answered' = IF <<requester, p>> \in pending[requester]
                 THEN answered \cup {<<p, requester>>} ELSE answered
  /\ IF <<requester, p>> \in pending[p]
     THEN /\ pending' = [pending EXCEPT ![p] = @ \ {<<requester, p>>}]
          /\ friends' = [friends EXCEPT ![p] = @ \cup {<<p, requester>>, <<requester, p>>}]
          /\ saving' = {<<p, requester>>}
     ELSE UNCHANGED <<pending, friends, saving>>
  /\ UNCHANGED <<up, mode, table>>

\* AddFriendshipToDB goes through the null connection before anything is
\* written: the process ends with all it had in memory.
Fault ==
  /\ up /\ saving # {}
  /\ up' = FALSE /\ saving' = {}
  /\ mode' = [q \in Player |-> "out"]
  /\ pending' = [q \in Player |-> {}]
  /\ friends' = [q \in Player |-> {}]
  /\ UNCHANGED <<table, answered>>

\* The server is started again.
Restart == ~up /\ up' = TRUE /\ UNCHANGED <<mode, pending, friends, saving, table, answered>>

Next ==
  \/ \E p \in Player : Enter(p) \/ Leave(p) \/ GotoTrain(p) \/ EndTraining(p)
  \/ \E p, q \in Player : AddFriendRequest(p, q) \/ AcceptFriend(p, q)
  \/ Fault \/ Restart

Spec == Init /\ [][Next]_vars

-----------------------------------------------------------------------------
(* Properties. *)

TypeOK ==
  /\ up \in BOOLEAN
  /\ mode \in [Player -> {"out", "playing", "training"}]
  /\ pending \in [Player -> SUBSET Pair]
  /\ friends \in [Player -> SUBSET Pair]
  /\ saving \subseteq Pair /\ table \subseteq Pair /\ answered \subseteq Pair

\* What the help says of addfriend and acceptfriend: who accepts the request
\* of another has a friend, in his list or in the table.
AnsweredAreFriends ==
  \A a \in answered : a[1] # a[2] => a \in friends[a[1]] \/ a \in table

\* What the code does: a manager holds its owner's requests only, so that
\* nobody ever finds a request of another.  No row comes of it, and the only
\* entry of a list is that of a player with himself, while it is being saved.
NobodyHasFriends ==
  /\ table = {}
  /\ \A p \in Player :
       /\ pending[p] \subseteq {p} \X Player
       /\ friends[p] # {} => friends[p] = {<<p, p>>} /\ saving = {<<p, p>>}

\* The server ends only under one who accepts himself: no request of another
\* can reach the null connection.
EndsOfSelfAcceptance == [][up /\ ~up' => \E p \in Player : saving = {<<p, p>>}]_vars
=============================================================================
