--------------------------- MODULE FriendsProofs ---------------------------
(***************************************************************************)
(* For any number of players and any order of commands, logins, takeovers  *)
(* and restarts: no request is ever found by the one it was sent to.       *)
(***************************************************************************)
EXTENDS Friends, TLAPS

IInv ==
  /\ up \in BOOLEAN
  /\ pending \in [Player -> SUBSET Pair]
  /\ friends \in [Player -> SUBSET Pair]
  /\ saving = {} \/ \E p \in Player : saving = {<<p, p>>}
  /\ NobodyHasFriends

LEMMA InvariantInit == Init => IInv
BY DEF Init, IInv, NobodyHasFriends, Pair

LEMMA InvariantStep == IInv /\ [Next]_vars => IInv'
<1> SUFFICES ASSUME IInv, [Next]_vars PROVE IInv' OBVIOUS
<1> USE DEF IInv, NobodyHasFriends, Pair
<1>1. CASE UNCHANGED vars BY <1>1 DEF vars
<1>2. ASSUME NEW p \in Player, Enter(p) \/ Leave(p) PROVE IInv'
  BY <1>2 DEF Enter, Leave, Serving
<1>3. ASSUME NEW p \in Player, GotoTrain(p) \/ EndTraining(p) PROVE IInv'
  BY <1>3 DEF GotoTrain, EndTraining, Serving
<1>4. ASSUME NEW p \in Player, NEW q \in Player, AddFriendRequest(p, q) PROVE IInv'
  BY <1>4 DEF AddFriendRequest, Serving
<1>5. ASSUME NEW p \in Player, NEW q \in Player, AcceptFriend(p, q) PROVE IInv'
  <2>1. CASE <<q, p>> \in pending[p]
    <3>1. q = p BY <2>1
    <3>2. friends[p] = {} BY <1>5 DEF AcceptFriend, Serving
    <3> QED BY <1>5, <2>1, <3>1, <3>2 DEF AcceptFriend, Serving
  <2>2. CASE <<q, p>> \notin pending[p] BY <1>5, <2>2 DEF AcceptFriend, Serving
  <2> QED BY <2>1, <2>2
<1>6. CASE Fault BY <1>6 DEF Fault
<1>7. CASE Restart BY <1>7 DEF Restart
<1> QED BY <1>1, <1>2, <1>3, <1>4, <1>5, <1>6, <1>7 DEF Next

LEMMA Invariant == Spec => []IInv
BY InvariantInit, InvariantStep, PTL DEF Spec

\* No row of the table and no entry of a list ever joins two players: what
\* FriendManager offers works for no two of them.
THEOREM FriendshipNeverBegins == Spec => []NobodyHasFriends
<1>1. IInv => NobodyHasFriends BY DEF IInv
<1> QED BY <1>1, Invariant, PTL

\* Only the acceptance of one's own request reaches the null connection.
THEOREM OnlySelfAcceptanceEnds == Spec => EndsOfSelfAcceptance
<1> DEFINE A == up /\ ~up' => \E p \in Player : saving = {<<p, p>>}
<1>1. IInv /\ [Next]_vars => [A]_vars
  <2> SUFFICES ASSUME IInv, Next, up, ~up' PROVE \E p \in Player : saving = {<<p, p>>}
    OBVIOUS
  <2>1. Fault
    BY DEF Next, Enter, Leave, GotoTrain, EndTraining, AddFriendRequest, AcceptFriend, Restart
  <2> QED BY <2>1 DEF Fault, IInv
<1> QED BY <1>1, Invariant, PTL DEF Spec, EndsOfSelfAcceptance
=============================================================================
