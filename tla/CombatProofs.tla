---------------------------- MODULE CombatProofs ----------------------------
(***************************************************************************)
(* Theorems about Combat, and about the algorithms of Entities.            *)
(***************************************************************************)
EXTENDS MCCombat, Induction

-----------------------------------------------------------------------------
(* Deadlines. *)

Near(deadlines, time) == \A t \in Timers : deadlines[t] <= time + Period[t]

\* The file is as good as the memory it was written from, and a round or a
\* save under way is one that was due.
ClockInv ==
  /\ now \in Nat /\ next \in Deadlines
  /\ gameData \in [time : Nat, next : Deadlines]
  /\ Near(next, now) /\ Near(gameData.next, gameData.time)
  /\ pc = "round" => Due("round")
  /\ pc = "saving" => Due("save")

\* A deadline that is due is near again when it has been moved.
LEMMA LaterIsNear ==
  ASSUME ClockInv, NEW t \in Timers, Due(t), Later(t), now' = now
  PROVE  next' \in Deadlines /\ \A u \in Timers : next'[u] <= now + Period[u]
<1>1. /\ now \in Nat /\ next \in [Timers -> Nat] /\ Period \in [Timers -> Nat]
      /\ \A u \in Timers : next[u] <= now + Period[u]
  BY CombatAssumption DEF ClockInv, Near, Deadlines
<1>2. next' = [next EXCEPT ![t] = next[t] + Period[t]] /\ next[t] <= now
  BY <1>1 DEF Later, Due
<1>3. next' \in Deadlines
  BY <1>1, <1>2 DEF Deadlines
<1>4. ASSUME NEW u \in Timers PROVE next'[u] <= now + Period[u]
  <2>1. CASE u = t
    BY <1>1, <1>2, <2>1
  <2>2. CASE u # t
    BY <1>1, <1>2, <2>2
  <2> QED
    BY <2>1, <2>2
<1> QED
  BY <1>3, <1>4

LEMMA ClockInit == ASSUME Init PROVE ClockInv
  BY CombatAssumption DEF Init, ClockInv, Near, EmptyFile, Deadlines, Due

LEMMA ClockStep == ASSUME ClockInv, [Next]_vars PROVE ClockInv'
<1> USE DEF ClockInv
<1>1. CASE UNCHANGED <<now, next, gameData, pc>>
  BY <1>1 DEF Near, Due
<1>2. CASE \E p \in Player : Idle(p) \/ PlayerAttack(p) \/ Enter(p) \/ Quit(p)
                               \/ Shutdown(p) \/ \E r \in Room : Move(p, r)
  BY <1>1, <1>2 DEF Idle, PlayerAttack, Enter, Quit, Shutdown, Move, clock, disk, world
<1>3. CASE BeginLoop
  BY <1>3 DEF BeginLoop, Near, Due, clock, disk
<1>4. CASE Fight
  BY <1>1, <1>4 DEF Fight, clock, disk
<1>5. CASE EndRound
  <2>1. now' = now /\ gameData' = gameData /\ pc' = "regen"
    BY <1>5 DEF EndRound, disk
  <2> QED
    BY <1>5, <2>1, LaterIsNear DEF EndRound, Timers, Near
<1>6. CASE Regen
  <2>1. now' = now /\ gameData' = gameData /\ pc' = "heal"
    BY <1>6 DEF Regen, disk
  <2> QED
    BY <1>6, <2>1, LaterIsNear DEF Regen, Timers, Near
<1>7. CASE Heal
  <2>1. now' = now /\ gameData' = gameData /\ pc' = "save"
    BY <1>7 DEF Heal, disk
  <2> QED
    BY <1>7, <2>1, LaterIsNear DEF Heal, Timers, Near
<1>8. CASE Save
  BY <1>8 DEF Save, Near, Due, clock, disk
<1>9. CASE EndSave
  <2>1. now' = now /\ gameData' = gameData /\ pc' = "end"
    BY <1>9 DEF EndSave, disk
  <2> QED
    BY <1>9, <2>1, LaterIsNear DEF EndSave, Timers, Near
<1>10. CASE EndLoop
  BY <1>10 DEF EndLoop, Near, Due, clock, disk
<1>11. CASE Commit
  <2>1. UNCHANGED <<now, next, pc>>
    BY <1>11 DEF Commit, clock
  <2>2. gameData' \in {gameData, EmptyFile, GameData}
    BY <1>11 DEF Commit, Written
  <2>3. /\ gameData' \in [time : Nat, next : Deadlines]
        /\ Near(gameData'.next, gameData'.time)
    BY <2>2, CombatAssumption DEF EmptyFile, GameData, Near, Deadlines
  <2> QED
    BY <2>1, <2>3 DEF Near, Due
<1>12. CASE Halt
  BY <1>1, <1>12 DEF Halt, clock, disk
<1>13. CASE Crash
  BY <1>13, CombatAssumption DEF Crash, Near, Deadlines, disk
<1>14. CASE Start
  BY <1>14 DEF Start, Near, disk
<1>15. CASE Tick
  <2>1. now' = now + 1 /\ UNCHANGED <<pc, next, gameData>>
    BY <1>15 DEF Tick, disk
  <2>2. now' \in Nat /\ Near(next', now')
    BY <2>1, CombatAssumption DEF Near, Deadlines
  <2>3. \A t \in Timers : Due(t) => Due(t)'
    BY <2>1 DEF Due, Deadlines
  <2> QED
    BY <2>1, <2>2, <2>3 DEF Near, Timers
<1>16. CASE UNCHANGED vars
  BY <1>1, <1>16 DEF vars
<1> QED
  BY <1>2, <1>3, <1>4, <1>5, <1>6, <1>7, <1>8, <1>9, <1>10, <1>11, <1>12, <1>13,
     <1>14, <1>15, <1>16 DEF Next

\* No timer sleeps for longer than its period, over rounds, saves, shutdowns
\* and crashes, whatever the periods are.
THEOREM DeadlinesStayNear == Spec => []DeadlinesAreNear
<1>1. ClockInv => DeadlinesAreNear
  BY DEF ClockInv, Near, DeadlinesAreNear
<1> QED
  BY ClockInit, ClockStep, <1>1, PTL DEF Spec

-----------------------------------------------------------------------------
(* Hit points. *)

BodyInv == now \in Nat /\ body \in [Player -> Body] /\ row \in [Player -> Body]

LEMMA HurtIsBody ==
  ASSUME NEW b \in Body, NEW n \in Nat
  PROVE  Hurt(b, n) \in Body
  BY CombatAssumption DEF Hurt, Body

LEMMA HealedIsBody ==
  ASSUME NEW b \in Body, NEW n \in Nat
  PROVE  Healed(b, n) \in Body
  BY CombatAssumption DEF Healed, Body

\* 70% of two hit points or more is at least one.
LEMMA KilledIsBody ==
  ASSUME NEW b \in Body
  PROVE  PlayerKilled(b) \in Body /\ PlayerKilled(b).hits > 0
<1>1. (PlayerHits * 7) \div 10 \in 1 .. PlayerHits
  BY CombatAssumption
<1>2. b.ready \in Nat /\ StartRoom \in Room
  BY CombatAssumption DEF Body
<1> QED
  BY <1>1, <1>2, CombatAssumption DEF PlayerKilled, Body

LEMMA StruckIsBody ==
  ASSUME NEW b \in Body, NEW n \in Nat
  PROVE  Struck(b, n) \in Body /\ Struck(b, n).hits > 0
<1>1. Hurt(b, n) \in Body
  BY HurtIsBody
<1>2. PlayerKilled(b) \in Body /\ PlayerKilled(b).hits > 0
  BY KilledIsBody
<1>3. Hurt(b, n).hits \in Nat
  BY <1>1, CombatAssumption DEF Body
<1>4. CASE Hurt(b, n).hits <= 0
  BY <1>2, <1>4 DEF Struck
<1>5. CASE Hurt(b, n).hits > 0
  BY <1>1, <1>3, <1>5 DEF Struck
<1> QED
  BY <1>3, <1>4, <1>5

LEMMA ErodedIsBody ==
  ASSUME BodyInv, NEW p \in Player
  PROVE  Eroded(p) \in Body
<1>1. body[p] \in Body /\ Corruption[body[p].room] \in Nat
  BY CombatAssumption DEF BodyInv, Body
<1> QED
  BY <1>1, HurtIsBody DEF Eroded

LEMMA BodyInit == ASSUME Init PROVE BodyInv
  BY CombatAssumption DEF Init, BodyInv, Body, Fresh

\* What a line does to the one who sends it.
LEMMA LineStep ==
  ASSUME BodyInv, NEW p \in Player,
         Idle(p) \/ PlayerAttack(p) \/ Enter(p) \/ Quit(p) \/ Shutdown(p)
           \/ \E r \in Room : Move(p, r)
  PROVE  BodyInv'
<1> DEFINE e == Eroded(p)
<1>1. e \in Body
  BY ErodedIsBody
<1>2. /\ [e EXCEPT !.ready = now + PlayerSpeed] \in Body
      /\ \A r \in Room : [e EXCEPT !.room = r] \in Body
  <2>1. now + PlayerSpeed \in Nat
    BY CombatAssumption DEF BodyInv
  <2> QED
    BY <1>1, <2>1 DEF Body
<1>3. UNCHANGED <<now, row>>
  BY DEF Idle, PlayerAttack, Enter, Quit, Shutdown, Move, clock, disk
<1>4. \/ body' = body
      \/ \E b \in Body : body' = [body EXCEPT ![p] = b]
  BY <1>1, <1>2 DEF Idle, PlayerAttack, Enter, Quit, Shutdown, Move
<1> HIDE DEF e
<1> QED
  BY <1>3, <1>4 DEF BodyInv

\* A turn of a round.
LEMMA FightStep ==
  ASSUME BodyInv, Fight
  PROVE  /\ BodyInv'
         /\ \A p \in Player : body'[p].hits < body[p].hits => body'[p].hits > 0
<1>1. UNCHANGED <<now, row>>
  BY DEF Fight, clock, disk
<1>2. \/ body' = body
      \/ \E p : \E n \in Nat : body' = [body EXCEPT ![p] = Struck(body[p], n)]
  BY CombatAssumption DEF Fight, EnemyAttack
<1>3. \A p \in Player, n \in Nat :
        Struck(body[p], n) \in Body /\ Struck(body[p], n).hits > 0
  BY StruckIsBody DEF BodyInv
<1>4. \A p \in Player : body[p] \in Body /\ body[p].hits \in Nat
  BY CombatAssumption DEF BodyInv, Body
<1>5. CASE body' = body
  BY <1>1, <1>4, <1>5 DEF BodyInv
<1>6. ASSUME NEW p, NEW n \in Nat, body' = [body EXCEPT ![p] = Struck(body[p], n)]
      PROVE  /\ BodyInv'
             /\ \A q \in Player : body'[q].hits < body[q].hits => body'[q].hits > 0
  <2>1. ASSUME NEW q \in Player
        PROVE  /\ body'[q] \in Body
               /\ body'[q].hits < body[q].hits => body'[q].hits > 0
    <3>1. body'[q] = IF q = p THEN Struck(body[q], n) ELSE body[q]
      BY <1>6 DEF BodyInv
    <3> QED
      BY <1>3, <1>4, <3>1
  <2>2. body' = [q \in Player |-> body'[q]]
    BY <1>6 DEF BodyInv
  <2> QED
    BY <1>1, <2>1, <2>2 DEF BodyInv
<1> QED
  BY <1>2, <1>5, <1>6

LEMMA BodyStep == ASSUME ClockInv, BodyInv, [Next]_vars PROVE BodyInv'
<1>1. CASE UNCHANGED <<now, body, row>>
  BY <1>1 DEF BodyInv
<1>2. CASE \E p \in Player : Idle(p) \/ PlayerAttack(p) \/ Enter(p) \/ Quit(p)
                               \/ Shutdown(p) \/ \E r \in Room : Move(p, r)
  BY <1>2, LineStep
<1>3. CASE BeginLoop \/ EndRound \/ Regen \/ Save \/ EndSave \/ EndLoop \/ Halt
  BY <1>1, <1>3 DEF BeginLoop, EndRound, Regen, Save, EndSave, EndLoop, Halt, clock, disk, world
<1>4. CASE Fight
  BY <1>4, FightStep
<1>5. CASE Heal
  <2>1. UNCHANGED <<now, row>> /\ (body' = body \/ PerformHeal)
    BY <1>5 DEF Heal, disk
  <2>2. \A p \in Player : Healed(body[p], Regeneration) \in Body
    BY HealedIsBody, CombatAssumption DEF BodyInv
  <2> QED
    BY <2>1, <2>2 DEF BodyInv, PerformHeal
<1>6. CASE Commit
  <2>1. UNCHANGED <<now, body>>
    BY <1>6 DEF Commit, clock, world
  <2>2. \/ row' = row
        \/ \E p : row' = [row EXCEPT ![p] = body[p]]
    BY <1>6 DEF Commit, Written
  <2> QED
    BY <2>1, <2>2 DEF BodyInv
<1>7. CASE Crash
  BY <1>7, CombatAssumption DEF Crash, BodyInv, Body, Fresh, disk
<1>8. CASE Start
  BY <1>8 DEF Start, BodyInv, ClockInv, disk
<1>9. CASE Tick
  BY <1>9 DEF Tick, BodyInv, disk, world
<1>10. CASE UNCHANGED vars
  BY <1>1, <1>10 DEF vars
<1> QED
  BY <1>2, <1>3, <1>4, <1>5, <1>6, <1>7, <1>8, <1>9, <1>10 DEF Next

\* In a round, a hit that takes hit points leaves some: who falls to an enemy
\* is back with 70% in the same step, whatever the damage.
THEOREM HitsNeverLeaveTheDead == Spec => TheFallenRise
<1>1. ASSUME BodyInv, [Next]_vars
      PROVE  [pc = "round" /\ pc' = "round" =>
                \A p \in Player : body'[p].hits < body[p].hits => body'[p].hits > 0]_vars
  <2>1. ASSUME Next, pc = "round", pc' = "round" PROVE Fight \/ body' = body
    BY <2>1 DEF Next, Idle, PlayerAttack, Enter, Quit, Shutdown, Move, Line, BeginLoop,
       EndRound, Regen, Heal, Save, EndSave, EndLoop, Commit, Halt, Crash, Start, Tick, world
  <2>2. \A p \in Player : body[p].hits \in Nat
    BY <1>1, CombatAssumption DEF BodyInv, Body
  <2> QED
    BY <1>1, <2>1, <2>2, FightStep
<1> QED
  BY ClockInit, ClockStep, BodyInit, BodyStep, <1>1, PTL DEF Spec, TheFallenRise


-----------------------------------------------------------------------------
(* FindOpenID. *)

\* What the walk through the map comes to from `previous' on.
OpenFrom(ids, previous) ==
  LET gaps == {p \in previous .. Max(ids) - 1 : p + 1 \notin ids}
  IN  IF gaps = {} THEN 0 ELSE Min(gaps) + 1

LEMMA WalkFindsGap ==
  ASSUME NEW ids \in SUBSET (Nat \ {0}), IsFiniteSet(ids), ids # {}
  PROVE  OpenAfter(ids) = OpenFrom(ids, 0)
<1> DEFINE m == Max(ids)
           Step(walk) == [previous \in 0 .. m |->
             IF previous = m THEN 0
             ELSE IF Min({i \in ids : i > previous}) # previous + 1 THEN previous + 1
             ELSE walk[previous + 1]]
           g == [previous \in 0 .. m |-> OpenFrom(ids, previous)]
           h == CHOOSE walk : walk = Step(walk)
<1>1. m \in ids /\ m \in Nat \ {0} /\ \A i \in ids : i <= m
  BY GreatestIsMax
<1>2. OpenAfter(ids) = h[0]
  BY Zenon DEF OpenAfter
<1> HIDE DEF m
<1>3. ASSUME NEW p \in 0 .. m, p # m
      PROVE  Min({i \in ids : i > p}) # p + 1 <=> p + 1 \notin ids
  <2> DEFINE above == {i \in ids : i > p}
  <2>0. ids \subseteq Nat /\ p \in Nat /\ m > p BY <1>1, <1>3
  <2>1. above \in SUBSET Nat /\ above # {} BY <1>1, <2>0
  <2> HIDE DEF above
  <2>2. Min(above) \in above /\ \A i \in above : Min(above) <= i BY <2>1, LeastIsMin
  <2>3. Min(above) \in ids /\ Min(above) > p BY <2>2 DEF above
  <2>4. p + 1 \in ids => p + 1 \in above BY <1>1 DEF above
  <2>5. p + 1 \in ids => Min(above) <= p + 1 BY <2>2, <2>4
  <2>6. p \in Nat /\ Min(above) \in Nat BY <2>0, <2>3
  <2>7. Min(above) # p + 1 <=> p + 1 \notin ids BY <2>3, <2>5, <2>6
  <2> QED BY <2>7 DEF above
<1>4. ASSUME NEW p \in 0 .. m
      PROVE  OpenFrom(ids, p) = IF p = m THEN 0
                                ELSE IF Min({i \in ids : i > p}) # p + 1 THEN p + 1
                                ELSE OpenFrom(ids, p + 1)
  <2> DEFINE gaps(k) == {q \in k .. m - 1 : q + 1 \notin ids}
  <2>1. \A k : OpenFrom(ids, k) = IF gaps(k) = {} THEN 0 ELSE Min(gaps(k)) + 1
    BY DEF OpenFrom, m
  <2>2. CASE p = m
    <3>1. gaps(p) = {} BY <1>1, <2>2
    <3> QED BY <2>1, <2>2, <3>1
  <2>3. CASE p # m /\ p + 1 \notin ids
    <3>1. p \in gaps(p) /\ gaps(p) \in SUBSET Nat /\ \A q \in gaps(p) : p <= q
      BY <1>1, <2>3
    <3> HIDE DEF gaps
    <3>2. Min(gaps(p)) \in gaps(p) /\ \A q \in gaps(p) : Min(gaps(p)) <= q
      BY <3>1, LeastIsMin
    <3>3. Min(gaps(p)) = p BY <3>1, <3>2
    <3>4. OpenFrom(ids, p) = p + 1 BY <2>1, <3>1, <3>3
    <3> QED BY <1>3, <2>3, <3>4
  <2>4. CASE p # m /\ p + 1 \in ids
    <3>1. gaps(p) = gaps(p + 1) BY <1>1, <2>4
    <3> HIDE DEF gaps
    <3>2. OpenFrom(ids, p) = OpenFrom(ids, p + 1) BY <2>1, <3>1
    <3> QED BY <1>3, <2>4, <3>2
  <2> QED BY <2>2, <2>3, <2>4
<1>5. h = Step(h)
  <2>1. g = Step(g)
    <3> SUFFICES ASSUME NEW p \in 0 .. m PROVE g[p] = Step(g)[p] OBVIOUS
    <3>1. g[p] = OpenFrom(ids, p) OBVIOUS
    <3>2. p # m => g[p + 1] = OpenFrom(ids, p + 1)
      <4>1. p # m => p + 1 \in 0 .. m BY <1>1
      <4> QED BY <4>1
    <3> HIDE DEF g
    <3> QED BY <1>4, <3>1, <3>2
  <2> HIDE DEF g, Step
  <2> QED BY <2>1
<1> HIDE DEF h
<1> DEFINE D == {p \in 0 .. m : h[p] # OpenFrom(ids, p)}
<1>6. D = {}
  <2> SUFFICES ASSUME D # {} PROVE FALSE OBVIOUS
  <2>1. D \in SUBSET Nat /\ IsFiniteSet(D)
    <3>1. D \in SUBSET (0 .. m) /\ IsFiniteSet(0 .. m) BY <1>1, FS_Interval
    <3> HIDE DEF D
    <3>2. IsFiniteSet(D) BY <3>1, FS_Subset
    <3> QED BY <3>1, <3>2
  <2> DEFINE p == Max(D)
  <2>2. p \in D /\ \A q \in D : q <= p
    <3> HIDE DEF D
    <3> QED BY <2>1, GreatestIsMax
  <2> HIDE DEF p
  <2>3. p \in 0 .. m /\ h[p] # OpenFrom(ids, p) BY <2>2
  <2>4. p # m => h[p + 1] = OpenFrom(ids, p + 1)
    <3>1. p # m => p + 1 \in 0 .. m /\ ~(p + 1 <= p) BY <1>1, <2>3
    <3> QED BY <2>2, <3>1
  <2>5. h[p] = Step(h)[p] BY <1>5
  <2>6. h[p] = IF p = m THEN 0
               ELSE IF Min({i \in ids : i > p}) # p + 1 THEN p + 1
               ELSE h[p + 1]
    BY <2>3, <2>5
  <2> HIDE DEF D, Step
  <2> QED BY <1>4, <2>3, <2>4, <2>6
<1>7. 0 \in 0 .. m BY <1>1
<1> QED BY <1>2, <1>6, <1>7

\* The id is nobody's and there is no smaller one that is.
LEMMA OpenIdIsFree ==
  ASSUME NEW ids \in SUBSET (Nat \ {0}), IsFiniteSet(ids)
  PROVE  /\ FindOpenID(ids) \in Nat \ {0} /\ FindOpenID(ids) \notin ids
         /\ \A k \in 1 .. FindOpenID(ids) - 1 : k \in ids
<1>1. CASE ids = {} BY <1>1 DEF FindOpenID
<1>2. CASE ids # {}
  <2> DEFINE m == Max(ids)
  <2>1. m \in ids /\ m \in Nat \ {0} /\ \A i \in ids : i <= m BY <1>2, GreatestIsMax
  <2>2. FindOpenID(ids) = IF Cardinality(ids) = m THEN Cardinality(ids) + 1 ELSE OpenAfter(ids)
    BY <1>2 DEF FindOpenID
  <2> HIDE DEF m
  <2>3. /\ ids \in SUBSET (1 .. m) /\ IsFiniteSet(1 .. m) /\ Cardinality(1 .. m) = m
    BY <2>1, FS_Interval
  <2>4. CASE Cardinality(ids) = m
    <3>1. ids = 1 .. m BY <2>3, <2>4, FS_Subset
    <3> QED BY <2>1, <2>2, <2>4, <3>1
  <2>5. CASE Cardinality(ids) # m
    <3> DEFINE gaps == {p \in 0 .. m - 1 : p + 1 \notin ids}
    <3>1. gaps # {}
      <4> SUFFICES ASSUME gaps = {} PROVE FALSE OBVIOUS
      <4>1. ASSUME NEW k \in 1 .. m PROVE k \in ids
        <5>1. k - 1 \in 0 .. m - 1 /\ (k - 1) + 1 = k BY <2>1
        <5> QED BY <5>1
      <4>2. ids = 1 .. m BY <2>3, <4>1
      <4> QED BY <2>3, <2>5, <4>2
    <3>2. OpenFrom(ids, 0) = Min(gaps) + 1 BY <3>1 DEF OpenFrom, m
    <3>3. gaps \in SUBSET Nat BY <2>1
    <3>4. Min(gaps) \in gaps /\ \A p \in gaps : Min(gaps) <= p
      <4> HIDE DEF gaps
      <4> QED BY <3>1, <3>3, LeastIsMin
    <3> DEFINE n == Min(gaps)
    <3>5. FindOpenID(ids) = n + 1 BY <1>2, <2>2, <2>5, <3>2, WalkFindsGap
    <3>6. n \in 0 .. m - 1 /\ n + 1 \notin ids /\ \A p \in 0 .. m - 1 : p + 1 \notin ids => n <= p
      BY <3>4
    <3> HIDE DEF n, gaps
    <3>7. ASSUME NEW k \in 1 .. n PROVE k \in ids
      <4>1. k - 1 \in 0 .. m - 1 /\ (k - 1) + 1 = k /\ ~(n <= k - 1) BY <2>1, <3>6
      <4> QED BY <3>6, <4>1
    <3>8. n \in Nat BY <3>6
    <3> QED BY <3>5, <3>6, <3>7, <3>8
  <2> QED BY <2>4, <2>5
<1> QED BY <1>1, <1>2

\* A spawn finds a free id, whatever ids the kills before it have left.
THEOREM OpenIdsAreLeastFree == TrialSpec => []OpenIdIsLeastFree
<1> DEFINE Ids6 == trial \in Trial \cup [of : {"game"}]
<1>1. TrialInit => Ids6
  BY DEF TrialInit
<1>2. Ids6 /\ [TrialNext]_<<vars, trial>> => Ids6'
  BY DEF TrialNext
<1>3. Ids6 => OpenIdIsLeastFree
  <2> SUFFICES ASSUME Ids6, trial.of = "ids"
               PROVE  FindOpenID(trial.ids) = Min((1 .. MaxEntities + 1) \ trial.ids)
    BY DEF OpenIdIsLeastFree
  <2>1. trial.ids \in SUBSET (1 .. 6) BY DEF Trial, MaxEntities
  <2> DEFINE ids == trial.ids
             free == (1 .. 7) \ ids
             n == FindOpenID(ids)
  <2>2. ids \in SUBSET (Nat \ {0}) /\ IsFiniteSet(ids)
    <3> DEFINE six == 6
    <3>1. six \in Int /\ 1 \in Int /\ ids \in SUBSET (1 .. six) BY <2>1
    <3> HIDE DEF six
    <3>2. IsFiniteSet(1 .. six) BY <3>1, FS_Interval
    <3>3. IsFiniteSet(ids) BY <3>1, <3>2, FS_Subset
    <3> QED BY <2>1, <3>3
  <2>3. n \in Nat \ {0} /\ n \notin ids /\ \A k \in 1 .. n - 1 : k \in ids
    <3> HIDE DEF ids
    <3> QED BY <2>2, OpenIdIsFree
  <2>4. 7 \in free BY <2>1
  <2> HIDE DEF n
  <2>5. n \in free
    <3>1. n <= 7 BY <2>3, <2>4
    <3> QED BY <2>3, <3>1
  <2>6. \A k \in free : n <= k BY <2>3
  <2> HIDE DEF free
  <2>7. free \in SUBSET Nat BY DEF free
  <2>8. Min(free) \in free /\ \A k \in free : Min(free) <= k BY <2>5, <2>7, LeastIsMin
  <2>9. Min(free) = n
    <3> DEFINE k == Min(free)
    <3>1. k \in Nat /\ n \in Nat /\ n <= k /\ k <= n BY <2>5, <2>6, <2>7, <2>8
    <3> HIDE DEF k
    <3>2. k = n BY <3>1
    <3> QED BY <3>2 DEF k
  <2> QED BY <2>9 DEF free, n, MaxEntities
<1> QED
  BY <1>1, <1>2, <1>3, PTL DEF TrialSpec

-----------------------------------------------------------------------------
(* Entity::Match. *)

\* What the passes from a place on come to.
WordFrom(name, search, from) ==
  \E i \in Positions(name, search) : i >= from /\ WordStart(name, i)

LEMMA PassFindsWord ==
  ASSUME NEW name, Len(name) \in Nat, NEW search, Len(search) \in Nat \ {0}
  PROVE  Match(name, search) <=> search = <<>> \/ WordFrom(name, search, 1)
<1> DEFINE n == Len(name)
           P == Positions(name, search)
           Step(pass) == [from \in 1 .. n + 1 |->
             LET found == {i \in P : i >= from}
             IN  found # {} /\ (WordStart(name, Min(found)) \/ pass[Min(found) + 1])]
           g == [from \in 1 .. n + 1 |-> WordFrom(name, search, from)]
           h == CHOOSE pass : pass = Step(pass)
<1>1. Match(name, search) <=> search = <<>> \/ h[1]
  BY Zenon DEF Match
<1>2. n \in Nat /\ P \in SUBSET (1 .. n)
  BY DEF Positions
<1>3. ASSUME NEW from \in 1 .. n + 1, {i \in P : i >= from} # {}
      PROVE  /\ Min({i \in P : i >= from}) \in P
             /\ Min({i \in P : i >= from}) \in from .. n
             /\ \A j \in P : j >= from => Min({i \in P : i >= from}) <= j
  <2> DEFINE found == {i \in P : i >= from}
  <2>1. found \in SUBSET Nat /\ found # {} BY <1>2, <1>3
  <2> HIDE DEF found, P
  <2>2. Min(found) \in found /\ \A i \in found : Min(found) <= i BY <2>1, LeastIsMin
  <2>3. Min(found) \in P /\ Min(found) >= from /\ \A i \in P : i >= from => Min(found) <= i
    BY <2>2 DEF found
  <2>4. Min(found) \in from .. n
    <3>1. Min(found) \in 1 .. n BY <1>2, <2>3
    <3> HIDE DEF n
    <3> QED BY <1>2, <2>3, <3>1
  <2> QED BY <2>3, <2>4 DEF found
<1>4. ASSUME NEW from \in 1 .. n + 1
      PROVE  WordFrom(name, search, from)
               <=> LET found == {i \in P : i >= from}
                   IN  found # {} /\ (WordStart(name, Min(found))
                                        \/ WordFrom(name, search, Min(found) + 1))
  <2> DEFINE found == {i \in P : i >= from}
             m == Min(found)
  <2>1. CASE found = {}
    <3>1. ~WordFrom(name, search, from) BY <2>1 DEF WordFrom
    <3> QED BY <2>1, <3>1
  <2>2. CASE found # {}
    <3>1. m \in P /\ m \in from .. n /\ \A i \in P : i >= from => m <= i BY <1>3, <2>2
    <3> HIDE DEF m, P
    <3>2. ASSUME NEW i \in P, i >= from PROVE i = m \/ i >= m + 1
      BY <1>2, <3>1, <3>2
    <3>3. WordFrom(name, search, from) <=> WordStart(name, m) \/ WordFrom(name, search, m + 1)
      BY <1>2, <3>1, <3>2 DEF WordFrom, P
    <3> QED BY <2>2, <3>3 DEF m, P
  <2> QED BY <2>1, <2>2
<1> HIDE DEF P
<1>5. h = Step(h)
  <2>1. g = Step(g)
    <3> SUFFICES ASSUME NEW from \in 1 .. n + 1
                 PROVE  g[from] = Step(g)[from] OBVIOUS
    <3> DEFINE found == {i \in P : i >= from}
    <3>1. g[from] = WordFrom(name, search, from) OBVIOUS
    <3>2. found # {} => g[Min(found) + 1] = WordFrom(name, search, Min(found) + 1)
      <4>1. found # {} => Min(found) + 1 \in 1 .. n + 1 BY <1>2, <1>3
      <4> HIDE DEF found
      <4> QED BY <4>1
    <3>3. Step(g)[from] = (found # {} /\ (WordStart(name, Min(found)) \/ g[Min(found) + 1]))
      OBVIOUS
    <3>4. WordFrom(name, search, from)
            = (found # {} /\ (WordStart(name, Min(found)) \/ WordFrom(name, search, Min(found) + 1)))
      <4>1. WordFrom(name, search, from) \in BOOLEAN BY DEF WordFrom
      <4> QED BY <1>4, <4>1
    <3> HIDE DEF g, Step, found
    <3> QED BY Zenon, <3>1, <3>2, <3>3, <3>4
  <2> HIDE DEF g, Step
  <2> QED BY <2>1
<1> HIDE DEF h
<1> DEFINE D == {from \in 1 .. n + 1 : ~(h[from] <=> WordFrom(name, search, from))}
<1>6. D = {}
  <2> SUFFICES ASSUME D # {} PROVE FALSE OBVIOUS
  <2>1. D \in SUBSET Nat /\ IsFiniteSet(D)
    <3>1. D \in SUBSET (1 .. n + 1) /\ IsFiniteSet(1 .. n + 1) BY <1>2, FS_Interval
    <3> HIDE DEF D
    <3>2. IsFiniteSet(D) BY <3>1, FS_Subset
    <3> QED BY <3>1, <3>2
  <2> DEFINE from == Max(D)
             found == {i \in P : i >= from}
             m == Min(found)
  <2>2. from \in D /\ \A k \in D : k <= from
    <3> HIDE DEF D
    <3> QED BY <2>1, GreatestIsMax
  <2> HIDE DEF from
  <2>3. from \in 1 .. n + 1 /\ ~(h[from] <=> WordFrom(name, search, from)) BY <2>2
  <2>4. h[from] = Step(h)[from] BY <1>5
  <2>5. h[from] = (found # {} /\ (WordStart(name, m) \/ h[m + 1])) BY <2>3, <2>4
  <2>6. found # {} => m + 1 \in 1 .. n + 1 /\ ~(m + 1 <= from) BY <1>2, <1>3, <2>3
  <2> HIDE DEF m, Step
  <2>7. found # {} => (h[m + 1] <=> WordFrom(name, search, m + 1)) BY <2>2, <2>6
  <2>8. WordFrom(name, search, from)
          <=> (found # {} /\ (WordStart(name, m) \/ WordFrom(name, search, m + 1)))
    BY <1>4, <2>3 DEF m
  <2> HIDE DEF D, found
  <2> QED BY Zenon, <2>3, <2>5, <2>7, <2>8
<1>7. 1 \in 1 .. n + 1 BY <1>2
<1>8. h[1] <=> WordFrom(name, search, 1) BY <1>6, <1>7
<1> HIDE DEF n
<1> QED BY Zenon, <1>1, <1>8

\* A match is the beginning of a word.
LEMMA MatchIsPrefix ==
  ASSUME NEW S, NEW name \in Seq(S), NEW search \in Seq(S)
  PROVE  Match(name, search) <=> BeginsWord(search, name)
<1> USE DEF BeginsWord
<1> DEFINE n == Len(name)
           k == Len(search)
<1>1. n \in Nat /\ k \in Nat BY LenProperties
<1>2. CASE search = <<>> BY <1>2 DEF Match
<1>3. CASE search # <<>>
  <2>1. k \in Nat \ {0} BY <1>1, <1>3, EmptySeq
  <2>2. ASSUME NEW i \in 1 .. n
        PROVE  i \in Positions(name, search) <=> IsPrefix(search, SubSeq(name, i, n))
    <3> DEFINE w == SubSeq(name, i, n)
    <3>1. /\ w \in Seq(S) /\ Len(w) = n - i + 1
          /\ \A j \in 1 .. n - i + 1 : w[j] = name[i + j - 1]
      <4>1. \A j \in i .. n : name[j] \in S BY <1>1, ElementOfSeq
      <4>2. i <= n /\ i \in Int /\ n \in Int BY <1>1
      <4> HIDE DEF n
      <4> QED BY <4>1, <4>2, SubSeqProperties
    <3>2. i \in Positions(name, search)
            <=> i + k - 1 <= n /\ SubSeq(name, i, i + k - 1) = search
      BY <1>1 DEF Positions
    <3>3. IsPrefix(search, w) <=> k <= Len(w) /\ SubSeq(search, 1, k) = SubSeq(w, 1, k)
      BY DEF IsPrefix
    <3>4. SubSeq(search, 1, k) = search BY SubSeqFull
    <3>5. k <= Len(w) <=> i + k - 1 <= n
      <4> HIDE DEF w
      <4> QED BY <1>1, <3>1
    <3>6. i + k - 1 <= n => SubSeq(w, 1, k) = SubSeq(name, i, i + k - 1)
      <4> SUFFICES ASSUME i + k - 1 <= n PROVE SubSeq(w, 1, k) = SubSeq(name, i, i + k - 1)
        OBVIOUS
      <4> DEFINE a == SubSeq(w, 1, k)
                 b == SubSeq(name, i, i + k - 1)
      <4> HIDE DEF w
      <4>1. \A j \in 1 .. k : w[j] \in S BY <1>1, <3>1, ElementOfSeq
      <4>2. a \in Seq(S) /\ Len(a) = k /\ \A j \in 1 .. k : a[j] = w[j]
        <5>1. 1 \in Int /\ k \in Int /\ 1 <= k /\ k - 1 + 1 = k /\ \A j \in 1 .. k : 1 + j - 1 = j
          BY <2>1
        <5> HIDE DEF k
        <5> QED BY <4>1, <5>1, SubSeqProperties
      <4>3. \A j \in i .. i + k - 1 : name[j] \in S BY <1>1, ElementOfSeq
      <4>4. b \in Seq(S) /\ Len(b) = k /\ \A j \in 1 .. k : b[j] = name[i + j - 1]
        <5> DEFINE e == i + k - 1
        <5>1. i \in Int /\ e \in Int /\ i <= e /\ e - i + 1 = k BY <1>1, <2>1
        <5>2. \A j \in i .. e : name[j] \in S BY <4>3
        <5> HIDE DEF e, k
        <5>3. SubSeq(name, i, e) \in Seq(S) /\ Len(SubSeq(name, i, e)) = k
              /\ \A j \in 1 .. k : SubSeq(name, i, e)[j] = name[i + j - 1]
          BY <5>1, <5>2, SubSeqProperties
        <5> QED BY <5>3 DEF e
      <4>5. \A j \in 1 .. k : a[j] = b[j]
        <5>1. \A j \in 1 .. k : j \in 1 .. n - i + 1 BY <1>1
        <5> HIDE DEF a, b
        <5> QED BY <3>1, <4>2, <4>4, <5>1
      <4> HIDE DEF a, b
      <4>6. a = b BY <4>2, <4>4, <4>5, SeqEqual
      <4> QED BY <4>6 DEF a, b
    <3> HIDE DEF w
    <3> QED BY <3>2, <3>3, <3>4, <3>5, <3>6 DEF w
  <2>3. Positions(name, search) \in SUBSET (1 .. n) BY <1>1, <2>1 DEF Positions
  <2>4. WordFrom(name, search, 1) <=> \E w \in Words(name) : IsPrefix(search, w)
    <3>1. WordFrom(name, search, 1) <=> \E i \in Positions(name, search) : WordStart(name, i)
      BY <2>3 DEF WordFrom
    <3>2. (\E w \in Words(name) : IsPrefix(search, w))
            <=> \E i \in 1 .. n : WordStart(name, i) /\ IsPrefix(search, SubSeq(name, i, n))
      BY DEF Words
    <3> QED BY <2>2, <2>3, <3>1, <3>2
  <2> QED BY <1>1, <2>1, <2>4, PassFindsWord
<1> QED BY <1>2, <1>3

\* A name begins with itself.
LEMMA WholeNameMatches ==
  ASSUME NEW S, NEW name \in Seq(S)
  PROVE  BeginsWord(name, name)
<1>1. CASE name = <<>> BY <1>1 DEF BeginsWord
<1>2. CASE name # <<>>
  <2> DEFINE n == Len(name)
  <2>1. n \in Nat \ {0} BY <1>2, EmptySeq, LenProperties
  <2>2. SubSeq(name, 1, n) = name BY SubSeqFull
  <2>3. 1 \in 1 .. n /\ WordStart(name, 1) BY <2>1 DEF WordStart
  <2>4. SubSeq(name, 1, n) \in Words(name) BY <2>3 DEF Words
  <2>5. IsPrefix(name, name) BY <2>1 DEF IsPrefix
  <2> QED BY <2>2, <2>4, <2>5 DEF BeginsWord
<1> QED BY <1>1, <1>2

\* The two passes, for any entities, names and qualification.
LEMMA SearchReaches ==
  ASSUME NEW S, NEW n \in Nat, NEW names, \A i \in 1 .. n : names[i] \in Seq(S),
         NEW search \in Seq(S), NEW qualified \in SUBSET (1 .. n)
  PROVE  Reaches(DoubleFind(names, search, qualified), names, search, qualified)
<1> DEFINE named == {i \in qualified : names[i] = search}
           begun == {i \in qualified : BeginsWord(search, names[i])}
           found == DoubleFind(names, search, qualified)
<1>1. named = {i \in qualified : MatchFull(names[i], search)} BY DEF MatchFull
<1>2. begun = {i \in qualified : Match(names[i], search)} BY MatchIsPrefix
<1>3. found = IF named # {} THEN Min(named) ELSE IF begun # {} THEN Min(begun) ELSE 0
  BY <1>1, <1>2 DEF DoubleFind
<1>4. named \subseteq begun BY WholeNameMatches
<1>5. named \in SUBSET Nat /\ begun \in SUBSET Nat /\ 0 \notin begun
  <2>1. qualified \in SUBSET Nat /\ 0 \notin qualified OBVIOUS
  <2>2. named \subseteq qualified /\ begun \subseteq qualified OBVIOUS
  <2> HIDE DEF named, begun
  <2> QED BY <2>1, <2>2
<1> HIDE DEF named, begun, found
<1>6. named # {} => Min(named) \in named /\ \A i \in named : Min(named) <= i
  BY <1>5, LeastIsMin
<1>7. begun # {} => Min(begun) \in begun /\ \A i \in begun : Min(begun) <= i
  BY <1>5, LeastIsMin
<1>8. /\ found = 0 <=> begun = {}
      /\ found # 0 => found \in begun
      /\ named # {} => found \in named /\ \A i \in named : found <= i
      /\ named = {} => \A i \in begun : found <= i
  BY <1>3, <1>4, <1>5, <1>6, <1>7
<1> QED BY <1>8 DEF Reaches, named, begun, found

\* A search reaches the first who has the name, and otherwise the first with a
\* word that begins so.
THEOREM SearchesAreByName == TrialSpec => []SearchIsByName
<1> DEFINE Tried == trial \in Trial \cup [of : {"game"}]
<1>1. TrialInit => Tried
  BY DEF TrialInit
<1>2. Tried /\ [TrialNext]_<<vars, trial>> => Tried'
  BY DEF TrialNext
<1>3. Tried => SearchIsByName
  <2> SUFFICES ASSUME Tried, trial.of = "name"
               PROVE  Reaches(DoubleFind(trial.names, trial.search, trial.qualified),
                              trial.names, trial.search, trial.qualified)
    BY DEF SearchIsByName
  <2>1. /\ trial.names \in Texts(1 .. 4) \X Texts(1 .. 2) /\ trial.search \in Texts(0 .. 2)
        /\ trial.qualified \in SUBSET (1 .. 2)
    BY DEF Trial
  <2>2. ASSUME NEW lengths \in SUBSET Nat, NEW t \in Texts(lengths) PROVE t \in Seq(Chars)
    <3>1. PICK n \in lengths : t \in [1 .. n -> Chars] BY <2>2 DEF Texts
    <3> QED BY <3>1, SeqDef
  <2>3. 1 .. 4 \in SUBSET Nat /\ 1 .. 2 \in SUBSET Nat /\ 0 .. 2 \in SUBSET Nat OBVIOUS
  <2>4. trial.search \in Seq(Chars) BY <2>1, <2>2, <2>3
  <2>5. trial.names[1] \in Texts(1 .. 4) /\ trial.names[2] \in Texts(1 .. 2) BY <2>1
  <2>6. trial.names[1] \in Seq(Chars) /\ trial.names[2] \in Seq(Chars) BY <2>2, <2>3, <2>5
  <2>7. \A i \in 1 .. 2 : trial.names[i] \in Seq(Chars) BY <2>6
  <2> DEFINE two == 2
  <2>8. two \in Nat /\ \A i \in 1 .. two : trial.names[i] \in Seq(Chars) BY <2>7
  <2>9. trial.qualified \in SUBSET (1 .. two) BY <2>1
  <2> HIDE DEF two
  <2> QED BY <2>4, <2>8, <2>9, SearchReaches
<1> QED
  BY <1>1, <1>2, <1>3, PTL DEF TrialSpec

-----------------------------------------------------------------------------
(* Enemies and the lists of the rooms. *)

EnemiesOK(e) ==
  DOMAIN e \in SUBSET Id /\ IsFiniteSet(DOMAIN e) /\ e \in [DOMAIN e -> Enemy]

\* Every enemy is listed once, in its room and nowhere else.
WorldOK(e, l) ==
  /\ EnemiesOK(e) /\ l \in [Room -> Seq(Id)]
  /\ \A r \in Room : Listing(l[r], Housed(e, r))

LEMMA IdsAreListed == ASSUME NEW e, EnemiesOK(e) PROVE Listing(Ids(e), DOMAIN e)
<1> DEFINE D == DOMAIN e
<1>1. D \subseteq Nat /\ IsFiniteSet(D) BY DEF EnemiesOK, Id
<1>2. Ids(e) = CHOOSE s \in SetToSeqs(D) : Increasing(s)
  BY Zenon DEF Ids, Increasing
<1> HIDE DEF D
<1>3. \E s \in SetToSeqs(D) : Increasing(s) BY <1>1, IncreasingListing
<1>4. Ids(e) \in SetToSeqs(D) BY <1>2, <1>3
<1>5. Listing(Ids(e), D) BY <1>1, <1>4, OrderIsListing
<1> QED BY <1>5 DEF D

LEMMA HousedIsFinite ==
  ASSUME NEW e, EnemiesOK(e), NEW r \in Room
  PROVE  IsFiniteSet(Housed(e, r)) /\ Housed(e, r) \subseteq Id
<1>1. Housed(e, r) \in SUBSET (DOMAIN e) BY DEF Housed
<1>2. IsFiniteSet(Housed(e, r)) BY <1>1, FS_Subset DEF EnemiesOK
<1> QED BY <1>1, <1>2 DEF EnemiesOK

\* The same enemies in the same rooms have the same lists.
LEMMA WorldSame ==
  ASSUME NEW e, NEW l, WorldOK(e, l), NEW f, EnemiesOK(f), DOMAIN f = DOMAIN e,
         \A i \in DOMAIN e : f[i].room = e[i].room
  PROVE  WorldOK(f, l)
<1>1. \A r \in Room : Housed(f, r) = Housed(e, r) BY DEF Housed
<1> QED BY <1>1 DEF WorldOK

LEMMA StrikeKeepsWorld ==
  ASSUME WorldOK(enemy, listed), NEW r \in Room, listed[r] # <<>>, NEW n \in Damage,
         Strike(Head(listed[r]), n)
  PROVE  /\ WorldOK(enemy', listed')
         /\ DOMAIN enemy' \subseteq DOMAIN enemy
         /\ \A i \in DOMAIN enemy' : enemy'[i].ready = enemy[i].ready
         /\ \A q \in Room : Len(listed'[q]) <= Len(listed[q])
<1> DEFINE i == Head(listed[r])
<1>1. i \in Housed(enemy, r)
  <2>1. Listing(listed[r], Housed(enemy, r)) BY DEF WorldOK
  <2> HIDE DEF i
  <2> QED BY <2>1, ListingTail DEF i
<1> HIDE DEF i
<1>2. i \in DOMAIN enemy /\ enemy[i].room = r /\ enemy[i] \in Enemy
  BY <1>1 DEF Housed, WorldOK, EnemiesOK
<1>3. enemy[i].hits \in 1 .. EnemyHits /\ n \in Nat \ {0} /\ EnemyHits \in Nat
  BY <1>2, CombatAssumption DEF Enemy
<1>4. \A q \in Room : Len(listed[q]) \in Nat BY LenProperties DEF WorldOK
<1>5. CASE enemy[i].hits <= n
  <2>1. /\ enemy' = Without(enemy, i)
        /\ listed' = [listed EXCEPT ![r] = RemoveFirst(listed[r], i)]
    BY <1>2, <1>5 DEF Strike, i, WorldOK
  <2>2. /\ DOMAIN enemy' = DOMAIN enemy \ {i}
        /\ \A j \in DOMAIN enemy \ {i} : enemy'[j] = enemy[j]
    BY <2>1 DEF Without
  <2>3. EnemiesOK(enemy')
    <3>1. IsFiniteSet(DOMAIN enemy \ {i}) BY FS_RemoveElement DEF WorldOK, EnemiesOK
    <3>2. enemy' \in [DOMAIN enemy \ {i} -> Enemy] BY <2>1 DEF Without, WorldOK, EnemiesOK
    <3> QED BY <2>2, <3>1, <3>2 DEF WorldOK, EnemiesOK
  <2>4. Housed(enemy', r) = Housed(enemy, r) \ {i} BY <1>1, <2>2 DEF Housed
  <2>5. \A q \in Room \ {r} : Housed(enemy', q) = Housed(enemy, q) BY <1>2, <2>2 DEF Housed
  <2>6. /\ Listing(RemoveFirst(listed[r], i), Housed(enemy', r))
        /\ Len(RemoveFirst(listed[r], i)) = Len(listed[r]) - 1
    <3> DEFINE S == Housed(enemy, r)
               l == listed[r]
    <3>1. Listing(l, S) /\ i \in S BY <1>1 DEF WorldOK
    <3> HIDE DEF S, l
    <3>2. Listing(RemoveFirst(l, i), S \ {i}) /\ Len(RemoveFirst(l, i)) = Len(l) - 1
      BY <3>1, ListingRemove
    <3> QED BY <2>4, <3>2 DEF S, l
  <2>7. /\ listed'[r] = RemoveFirst(listed[r], i)
        /\ \A q \in Room \ {r} : listed'[q] = listed[q]
    BY <2>1 DEF WorldOK
  <2>8. \A q \in Room : Listing(listed'[q], Housed(enemy', q))
    BY <2>5, <2>6, <2>7 DEF WorldOK
  <2>9. listed' \in [Room -> Seq(Id)]
    <3>1. Housed(enemy', r) \subseteq Id BY <2>3, HousedIsFinite
    <3>2. RemoveFirst(listed[r], i) \in Seq(Id) BY <2>6, <3>1, ListingType
    <3> QED BY <2>1, <3>2 DEF WorldOK
  <2>10. \A q \in Room : Len(listed'[q]) <= Len(listed[q])
    BY <1>4, <2>6, <2>7
  <2> QED BY <2>2, <2>3, <2>8, <2>9, <2>10 DEF WorldOK
<1>6. CASE ~(enemy[i].hits <= n)
  <2>1. enemy' = [enemy EXCEPT ![i].hits = enemy[i].hits - n] /\ listed' = listed
    BY <1>2, <1>6 DEF Strike, i, WorldOK, EnemiesOK
  <2>2. enemy[i].hits - n \in 1 .. EnemyHits BY <1>3, <1>6
  <2>3. [enemy[i] EXCEPT !.hits = enemy[i].hits - n] \in Enemy BY <1>2, <2>2 DEF Enemy
  <2>4. /\ DOMAIN enemy' = DOMAIN enemy
        /\ enemy'[i] = [enemy[i] EXCEPT !.hits = enemy[i].hits - n]
        /\ \A j \in DOMAIN enemy \ {i} : enemy'[j] = enemy[j]
    BY <1>2, <2>1 DEF WorldOK, EnemiesOK
  <2>5. EnemiesOK(enemy') BY <2>1, <2>3, <2>4 DEF WorldOK, EnemiesOK
  <2>6. \A j \in DOMAIN enemy : enemy'[j].room = enemy[j].room /\ enemy'[j].ready = enemy[j].ready
    BY <1>2, <2>4 DEF Enemy
  <2>7. WorldOK(enemy', listed) BY <2>4, <2>5, <2>6, WorldSame
  <2> QED BY <1>4, <2>1, <2>4, <2>6, <2>7
<1> QED BY <1>5, <1>6

\* One spawn.
LEMMA SpawnedKeepsWorld ==
  ASSUME NEW w, w = [enemy |-> w.enemy, listed |-> w.listed], WorldOK(w.enemy, w.listed),
         NEW r \in Room
  PROVE  LET v == Spawned(w, r)
         IN  /\ v = [enemy |-> v.enemy, listed |-> v.listed]
             /\ WorldOK(v.enemy, v.listed)
             /\ \A i \in DOMAIN v.enemy : v.enemy[i].ready = 0 \/ (i \in DOMAIN w.enemy /\ v.enemy[i] = w.enemy[i])
             /\ Len(v.listed[r]) = Len(w.listed[r]) + 1
             /\ \A q \in Room \ {r} : v.listed[q] = w.listed[q]
<1> DEFINE i == FindOpenID(DOMAIN w.enemy)
           v == Spawned(w, r)
           e == w.enemy
           l == w.listed
           f == [j \in DOMAIN e \cup {i} |->
                   IF j = i THEN [hits |-> EnemyHits, room |-> r, ready |-> 0] ELSE e[j]]
           m == [l EXCEPT ![r] = Append(l[r], i)]
<1>1. v = [enemy |-> f, listed |-> m] BY DEF Spawned
<1>2. i \in Id /\ i \notin DOMAIN e
  <2>1. DOMAIN e \in SUBSET (Nat \ {0}) /\ IsFiniteSet(DOMAIN e) BY DEF WorldOK, EnemiesOK, Id
  <2> HIDE DEF e
  <2> QED BY <2>1, OpenIdIsFree DEF e, Id
<1> HIDE DEF i
<1>3. /\ DOMAIN f = DOMAIN e \cup {i} /\ f[i].room = r /\ f[i].ready = 0
      /\ \A j \in DOMAIN e : f[j] = e[j]
  BY <1>2
<1>4. EnemiesOK(f)
  <2>1. IsFiniteSet(DOMAIN e \cup {i}) BY FS_AddElement DEF WorldOK, EnemiesOK
  <2>2. [hits |-> EnemyHits, room |-> r, ready |-> 0] \in Enemy BY CombatAssumption DEF Enemy
  <2>3. f \in [DOMAIN e \cup {i} -> Enemy] BY <2>2 DEF WorldOK, EnemiesOK
  <2> QED BY <1>2, <1>3, <2>1, <2>3 DEF WorldOK, EnemiesOK
<1> HIDE DEF f
<1>5. Housed(f, r) = Housed(e, r) \cup {i} /\ i \notin Housed(e, r)
      /\ \A q \in Room \ {r} : Housed(f, q) = Housed(e, q)
  BY <1>2, <1>3 DEF Housed
<1>6. /\ Listing(Append(l[r], i), Housed(f, r)) /\ Len(Append(l[r], i)) = Len(l[r]) + 1
  <2>1. Listing(l[r], Housed(e, r)) BY DEF WorldOK
  <2> HIDE DEF e, l
  <2> QED BY <1>5, <2>1, ListingAppend
<1>7. m[r] = Append(l[r], i) /\ \A q \in Room \ {r} : m[q] = l[q] BY DEF WorldOK
<1>8. m \in [Room -> Seq(Id)]
  <2>1. Append(l[r], i) \in Seq(Id) BY <1>2, AppendProperties DEF WorldOK
  <2> QED BY <2>1 DEF WorldOK
<1>9. \A q \in Room : Listing(m[q], Housed(f, q)) BY <1>5, <1>6, <1>7 DEF WorldOK
<1>10. WorldOK(f, m) BY <1>4, <1>8, <1>9 DEF WorldOK
<1>11. v.enemy = f /\ v.listed = m BY <1>1
<1> HIDE DEF v, m, e, l
<1>12. v = [enemy |-> v.enemy, listed |-> v.listed] BY <1>1, <1>11
<1>13. \A j \in DOMAIN f : f[j].ready = 0 \/ (j \in DOMAIN e /\ f[j] = e[j]) BY <1>3
<1> QED BY <1>6, <1>7, <1>10, <1>11, <1>12, <1>13 DEF v, e, l

\* A spawn in each of the rooms that a sequence lists.
LEMMA SpawnsKeepWorld ==
  ASSUME WorldOK(enemy, listed), NEW rooms, NEW R \in SUBSET Room, Listing(rooms, R)
  PROVE  LET w == SpawnedIn(rooms)
         IN  /\ WorldOK(w.enemy, w.listed)
             /\ \A i \in DOMAIN w.enemy : w.enemy[i].ready = 0 \/ (i \in DOMAIN enemy /\ w.enemy[i] = enemy[i])
             /\ \A q \in Room : Len(w.listed[q]) = Len(listed[q]) + IF q \in R THEN 1 ELSE 0
<1> DEFINE n == Len(rooms)
           start == [enemy |-> enemy, listed |-> listed]
           Step(after) == [k \in 0 .. n |->
             IF k = 0 THEN start ELSE Spawned(after[k - 1], rooms[k])]
           h == CHOOSE after : after = Step(after)
           V == {w \in [enemy : UNION {[D -> Enemy] : D \in SUBSET Id}, listed : [Room -> Seq(Id)]] :
                   WorldOK(w.enemy, w.listed)}
           step == [kw \in (1 .. n) \X V |-> Spawned(kw[2], rooms[kw[1]])]
<1>1. SpawnedIn(rooms) = h[n] BY Zenon DEF SpawnedIn
<1>2. n \in Nat /\ \A k \in 1 .. n : rooms[k] \in R /\ rooms[k] \in Room
  BY LenProperties, ElementOfSeq DEF Listing
<1>3. start \in V BY DEF WorldOK, EnemiesOK
<1>4. ASSUME NEW w \in V PROVE w = [enemy |-> w.enemy, listed |-> w.listed] /\ WorldOK(w.enemy, w.listed)
  OBVIOUS
<1>5. ASSUME NEW w, w = [enemy |-> w.enemy, listed |-> w.listed], WorldOK(w.enemy, w.listed)
      PROVE  w \in V
  <2>1. w.enemy \in UNION {[D -> Enemy] : D \in SUBSET Id} BY <1>5 DEF WorldOK, EnemiesOK
  <2> QED BY <1>5, <2>1 DEF WorldOK
<1> HIDE DEF V
<1>6. ASSUME NEW w \in V, NEW r \in Room
      PROVE  /\ Spawned(w, r) \in V
             /\ \A i \in DOMAIN Spawned(w, r).enemy :
                  \/ Spawned(w, r).enemy[i].ready = 0
                  \/ i \in DOMAIN w.enemy /\ Spawned(w, r).enemy[i] = w.enemy[i]
             /\ Len(Spawned(w, r).listed[r]) = Len(w.listed[r]) + 1
             /\ \A q \in Room \ {r} : Spawned(w, r).listed[q] = w.listed[q]
  <2> DEFINE v == Spawned(w, r)
  <2>1. /\ v = [enemy |-> v.enemy, listed |-> v.listed]
        /\ WorldOK(v.enemy, v.listed)
        /\ \A i \in DOMAIN v.enemy : v.enemy[i].ready = 0 \/ (i \in DOMAIN w.enemy /\ v.enemy[i] = w.enemy[i])
        /\ Len(v.listed[r]) = Len(w.listed[r]) + 1
        /\ \A q \in Room \ {r} : v.listed[q] = w.listed[q]
    BY <1>4, SpawnedKeepsWorld
  <2> HIDE DEF v
  <2>2. v \in V BY <1>5, <2>1
  <2> QED BY <2>1, <2>2 DEF v
<1>7. PICK g \in [0 .. n -> V] : g[0] = start /\ \A k \in 1 .. n : g[k] = step[<<k, g[k - 1]>>]
  <2>1. \A k \in 1 .. n : \A w \in V : step[<<k, w>>] \in V BY <1>2, <1>6
  <2>2. n \in Nat BY <1>2
  <2> HIDE DEF n, start, step
  <2>3. \E g \in [0 .. n -> V] : Iteration(g, n, start, step) BY <1>3, <2>1, <2>2, Iterates
  <2> QED BY <2>3 DEF Iteration
<1>8. h = Step(h)
  <2>1. g = Step(g)
    <3> SUFFICES ASSUME NEW k \in 0 .. n
                 PROVE  g[k] = IF k = 0 THEN start ELSE Spawned(g[k - 1], rooms[k])
      BY <1>7
    <3>1. CASE k = 0 BY <1>7, <3>1
    <3>2. CASE k # 0
      <4>1. k \in 1 .. n /\ k - 1 \in 0 .. n BY <1>2, <3>2
      <4>2. g[k] = step[<<k, g[k - 1]>>] /\ g[k - 1] \in V BY <1>7, <4>1
      <4>3. <<k, g[k - 1]>> \in (1 .. n) \X V BY <4>1, <4>2
      <4> QED BY <3>2, <4>2, <4>3
    <3> QED BY <3>1, <3>2
  <2> HIDE DEF Step
  <2> QED BY <2>1
<1>9. /\ h[0] = start
      /\ \A k \in 1 .. n : h[k] = Spawned(h[k - 1], rooms[k])
  <2>1. \A k \in 0 .. n : h[k] = Step(h)[k] BY <1>8
  <2>2. 0 \in 0 .. n /\ \A k \in 1 .. n : k \in 0 .. n /\ k # 0 BY <1>2
  <2> HIDE DEF h
  <2> QED BY <2>1, <2>2
<1> HIDE DEF h, Step, step
<1> DEFINE P == {k \in 0 .. n :
                   /\ h[k] \in V
                   /\ \A i \in DOMAIN h[k].enemy :
                        h[k].enemy[i].ready = 0 \/ (i \in DOMAIN enemy /\ h[k].enemy[i] = enemy[i])
                   /\ \A q \in Room : Len(h[k].listed[q])
                        = Len(listed[q]) + IF \E j \in 1 .. k : rooms[j] = q THEN 1 ELSE 0}
<1>10. \A q \in Room : Len(listed[q]) \in Nat BY LenProperties DEF WorldOK
<1>11. 0 \in P
  <2>1. h[0].enemy = enemy /\ h[0].listed = listed /\ h[0] \in V BY <1>3, <1>9
  <2>2. 0 \in 0 .. n /\ \A q : ~\E j \in 1 .. 0 : rooms[j] = q BY <1>2
  <2>3. \A q \in Room : Len(h[0].listed[q])
          = Len(listed[q]) + IF \E j \in 1 .. 0 : rooms[j] = q THEN 1 ELSE 0
    BY <1>10, <2>1, <2>2
  <2> HIDE DEF n
  <2> QED BY <2>1, <2>2, <2>3
<1>12. ASSUME NEW k \in 0 .. n - 1, k \in P PROVE k + 1 \in P
  <2> DEFINE w == h[k]
             r == rooms[k + 1]
             v == Spawned(w, r)
  <2>1. k \in Nat /\ k + 1 \in 1 .. n /\ k + 1 \in 0 .. n /\ (k + 1) - 1 = k BY <1>2, <1>12
  <2>2. r \in Room /\ h[k + 1] = v BY <1>2, <1>9, <2>1
  <2>3. /\ w \in V
        /\ \A i \in DOMAIN w.enemy : w.enemy[i].ready = 0 \/ (i \in DOMAIN enemy /\ w.enemy[i] = enemy[i])
        /\ \A q \in Room : Len(w.listed[q])
             = Len(listed[q]) + IF \E j \in 1 .. k : rooms[j] = q THEN 1 ELSE 0
    BY <1>12
  <2>4. /\ v \in V
        /\ \A i \in DOMAIN v.enemy : v.enemy[i].ready = 0 \/ (i \in DOMAIN w.enemy /\ v.enemy[i] = w.enemy[i])
        /\ Len(v.listed[r]) = Len(w.listed[r]) + 1
        /\ \A q \in Room \ {r} : v.listed[q] = w.listed[q]
    <3> HIDE DEF w, r
    <3> QED BY <1>6, <2>2, <2>3
  <2>5. ~\E j \in 1 .. k : rooms[j] = r
    BY <2>1 DEF Listing
  <2>6. \A q : (\E j \in 1 .. k + 1 : rooms[j] = q) <=> q = r \/ \E j \in 1 .. k : rooms[j] = q
    BY <2>1
  <2> HIDE DEF P, w, v, r
  <2>7. \A i \in DOMAIN v.enemy : v.enemy[i].ready = 0 \/ (i \in DOMAIN enemy /\ v.enemy[i] = enemy[i])
    BY <2>3, <2>4
  <2>8. ASSUME NEW q \in Room
        PROVE  Len(v.listed[q]) = Len(listed[q]) + IF \E j \in 1 .. k + 1 : rooms[j] = q THEN 1 ELSE 0
    <3>1. CASE q = r
      <4>1. Len(w.listed[r]) = Len(listed[r]) + 0 BY <2>2, <2>3, <2>5
      <4>2. Len(v.listed[r]) = Len(listed[r]) + 1 BY <1>10, <2>2, <2>4, <4>1
      <4> QED BY <2>6, <3>1, <4>2
    <3>2. CASE q # r BY <2>3, <2>4, <2>6, <3>2
    <3> QED BY <3>1, <3>2
  <2> QED BY <2>1, <2>2, <2>4, <2>7, <2>8 DEF P
<1>13. n \in P
  <2> HIDE DEF P, n
  <2>1. n \in 0 .. n BY <1>2
  <2> QED BY <1>2, <1>11, <1>12, <2>1, NumbersUpTo
<1>14. \A q : (\E j \in 1 .. n : rooms[j] = q) <=> q \in R
  <2>1. DOMAIN rooms = 1 .. n /\ ToSet(rooms) = R BY LenProperties DEF Listing
  <2> QED BY <2>1 DEF ToSet
<1> DEFINE u == h[n]
<1>15. /\ u \in V
       /\ \A i \in DOMAIN u.enemy : u.enemy[i].ready = 0 \/ (i \in DOMAIN enemy /\ u.enemy[i] = enemy[i])
       /\ \A q \in Room : Len(u.listed[q])
            = Len(listed[q]) + IF \E j \in 1 .. n : rooms[j] = q THEN 1 ELSE 0
  BY <1>13
<1>16. WorldOK(u.enemy, u.listed) BY <1>4, <1>15
<1> HIDE DEF u, P, n
<1> QED BY <1>1, <1>14, <1>15, <1>16 DEF u

LEMMA RegenKeepsWorld ==
  ASSUME WorldOK(enemy, listed), PerformRegen
  PROVE  /\ WorldOK(enemy', listed')
         /\ \A i \in DOMAIN enemy' : enemy'[i].ready = 0 \/ (i \in DOMAIN enemy /\ enemy'[i] = enemy[i])
         /\ \A q \in Room : Len(listed'[q]) <= Len(listed[q]) \/ Len(listed'[q]) <= MaxEnemies[q]
<1> DEFINE R == {r \in Room : Short(r)}
           rooms == SetToSeq(R)
           w == SpawnedIn(rooms)
<1>1. Listing(rooms, R)
  <2>1. R \in SUBSET Room OBVIOUS
  <2> HIDE DEF R
  <2>2. IsFiniteSet(R) BY <2>1, FS_Subset, CombatAssumption
  <2> QED BY <2>2, SetToSeqIsListing
<1>2. enemy' = w.enemy /\ listed' = w.listed BY Zenon DEF PerformRegen
<1>3. R \in SUBSET Room /\ \A q \in R : Len(listed[q]) < MaxEnemies[q] BY DEF Short
<1>4. \A q \in Room : Len(listed[q]) \in Nat /\ MaxEnemies[q] \in Nat
  BY LenProperties, CombatAssumption DEF WorldOK
<1> HIDE DEF rooms, R
<1>5. /\ WorldOK(w.enemy, w.listed)
      /\ \A i \in DOMAIN w.enemy : w.enemy[i].ready = 0 \/ (i \in DOMAIN enemy /\ w.enemy[i] = enemy[i])
      /\ \A q \in Room : Len(w.listed[q]) = Len(listed[q]) + IF q \in R THEN 1 ELSE 0
  BY <1>1, <1>3, SpawnsKeepWorld
<1> HIDE DEF w
<1>6. ASSUME NEW q \in Room
      PROVE  Len(listed'[q]) <= Len(listed[q]) \/ Len(listed'[q]) <= MaxEnemies[q]
  <2> DEFINE k == Len(listed[q])
  <2>0. k \in Nat /\ MaxEnemies[q] \in Nat /\ Len(w.listed[q]) = k + IF q \in R THEN 1 ELSE 0
    BY <1>4, <1>5
  <2>1. CASE q \in R
    <3>1. k < MaxEnemies[q] BY <1>3, <2>1
    <3> HIDE DEF k
    <3> QED BY <1>2, <2>0, <2>1, <3>1
  <2>2. CASE q \notin R
    <3>1. Len(w.listed[q]) = k BY <2>0, <2>2
    <3>2. k <= k BY <2>0
    <3> QED BY <1>2, <3>1, <3>2
  <2> QED BY <2>1, <2>2
<1> QED BY <1>2, <1>5, <1>6

-----------------------------------------------------------------------------
(* What a save has to write. *)

Pending ==
  [what : {"empty", "clock", "dead"}] \cup [what : {"player"}, of : Player]
    \cup [what : {"enemy"}, of : DOMAIN enemy]

PlayerWrite(p) == [what |-> "player", of |-> p]
EnemyWrite(i) == [what |-> "enemy", of |-> i]

\* An emptied game.data is always written again.
ClockAfterEmpty(s) ==
  \A k \in DOMAIN s : s[k].what = "empty" =>
    \E j \in DOMAIN s : k < j /\ s[j] = [what |-> "clock"]

LEMMA PlayerWritesName ==
  ASSUME NEW S \in SUBSET Player
  PROVE  /\ PlayerWrites(S) \in Seq(Pending)
         /\ ToSet(PlayerWrites(S)) = {PlayerWrite(p) : p \in S}
         /\ ClockAfterEmpty(PlayerWrites(S))
<1> DEFINE s == SetToSeq(S)
           t == [k \in DOMAIN s |-> PlayerWrite(s[k])]
<1>1. PlayerWrites(S) = t BY DEF PlayerWrites, PlayerWrite
<1>2. Listing(s, S)
  <2>1. IsFiniteSet(S) BY FS_Subset, CombatAssumption
  <2> QED BY <2>1, SetToSeqIsListing
<1> HIDE DEF s
<1>3. DOMAIN s = 1 .. Len(s) /\ Len(s) \in Nat /\ {s[k] : k \in DOMAIN s} = S
  BY <1>2, LenProperties DEF Listing, ToSet
<1>4. \A p \in S : PlayerWrite(p) \in Pending BY DEF PlayerWrite, Pending
<1>5. t \in Seq(Pending)
  <2>1. t \in [1 .. Len(s) -> Pending] BY <1>3, <1>4
  <2> HIDE DEF t
  <2> QED BY <1>3, <2>1, SeqDef
<1>6. ToSet(t) = {PlayerWrite(p) : p \in S}
  <2>1. ToSet(t) = {PlayerWrite(s[k]) : k \in DOMAIN s} BY DEF ToSet
  <2> QED BY <1>3, <2>1
<1>7. ClockAfterEmpty(t)
  <2>1. \A k \in DOMAIN t : t[k].what = "player" BY DEF PlayerWrite
  <2> HIDE DEF t
  <2> QED BY <2>1 DEF ClockAfterEmpty
<1> QED BY <1>1, <1>5, <1>6, <1>7

LEMMA EnemyWritesName ==
  ASSUME EnemiesOK(enemy)
  PROVE  /\ EnemyWrites \in Seq(Pending)
         /\ ToSet(EnemyWrites) = {EnemyWrite(i) : i \in DOMAIN enemy}
         /\ ClockAfterEmpty(EnemyWrites)
<1> DEFINE s == Ids(enemy)
           t == [k \in DOMAIN s |-> EnemyWrite(s[k])]
<1>1. EnemyWrites = t BY DEF EnemyWrites, EnemyWrite
<1>2. Listing(s, DOMAIN enemy) BY IdsAreListed
<1> HIDE DEF s
<1>3. DOMAIN s = 1 .. Len(s) /\ Len(s) \in Nat /\ {s[k] : k \in DOMAIN s} = DOMAIN enemy
  BY <1>2, LenProperties DEF Listing, ToSet
<1>4. \A i \in DOMAIN enemy : EnemyWrite(i) \in Pending BY DEF EnemyWrite, Pending
<1>5. t \in Seq(Pending)
  <2>1. t \in [1 .. Len(s) -> Pending] BY <1>3, <1>4
  <2> HIDE DEF t
  <2> QED BY <1>3, <2>1, SeqDef
<1>6. ToSet(t) = {EnemyWrite(i) : i \in DOMAIN enemy}
  <2>1. ToSet(t) = {EnemyWrite(s[k]) : k \in DOMAIN s} BY DEF ToSet
  <2> QED BY <1>3, <2>1
<1>7. ClockAfterEmpty(t)
  <2>1. \A k \in DOMAIN t : t[k].what = "enemy" BY DEF EnemyWrite
  <2> HIDE DEF t
  <2> QED BY <2>1 DEF ClockAfterEmpty
<1> QED BY <1>1, <1>5, <1>6, <1>7

LEMMA ClockAfterConcat ==
  ASSUME NEW S, NEW a \in Seq(S), NEW b \in Seq(S), ClockAfterEmpty(a), ClockAfterEmpty(b)
  PROVE  ClockAfterEmpty(a \o b)
<1> DEFINE c == a \o b
<1>1. /\ c \in Seq(S) /\ Len(c) = Len(a) + Len(b)
      /\ \A i \in 1 .. Len(a) + Len(b) : c[i] = IF i <= Len(a) THEN a[i] ELSE b[i - Len(a)]
  BY ConcatProperties
<1> HIDE DEF c
<1>2. /\ DOMAIN a = 1 .. Len(a) /\ DOMAIN b = 1 .. Len(b) /\ DOMAIN c = 1 .. Len(a) + Len(b)
      /\ Len(a) \in Nat /\ Len(b) \in Nat
  BY <1>1, LenProperties
<1>3. \A i \in DOMAIN a : i \in DOMAIN c /\ c[i] = a[i] BY <1>1, <1>2
<1>4. ASSUME NEW i \in DOMAIN b PROVE i + Len(a) \in DOMAIN c /\ c[i + Len(a)] = b[i]
  <2>1. i + Len(a) \in 1 .. Len(a) + Len(b) /\ ~(i + Len(a) <= Len(a)) /\ (i + Len(a)) - Len(a) = i
    BY <1>2
  <2> QED BY <1>1, <1>2, <2>1
<1>5. ASSUME NEW k \in DOMAIN c, c[k].what = "empty"
      PROVE  \E j \in DOMAIN c : k < j /\ c[j] = [what |-> "clock"]
  <2>1. CASE k \in DOMAIN a
    <3>1. PICK j \in DOMAIN a : k < j /\ a[j] = [what |-> "clock"]
      BY <1>3, <1>5, <2>1 DEF ClockAfterEmpty
    <3> QED BY <1>3, <3>1
  <2>2. CASE k \notin DOMAIN a
    <3>1. k - Len(a) \in DOMAIN b /\ c[k] = b[k - Len(a)] /\ k \in Nat BY <1>1, <1>2, <2>2
    <3>2. PICK j \in DOMAIN b : k - Len(a) < j /\ b[j] = [what |-> "clock"]
      BY <1>5, <3>1 DEF ClockAfterEmpty
    <3>3. k < j + Len(a) BY <1>2, <3>1, <3>2
    <3> QED BY <1>4, <3>2, <3>3
  <2> QED BY <2>1, <2>2
<1> QED BY <1>5 DEF ClockAfterEmpty, c

LEMMA ClockAfterTail ==
  ASSUME NEW S, NEW s \in Seq(S), s # <<>>, ClockAfterEmpty(s)
  PROVE  /\ ClockAfterEmpty(Tail(s))
         /\ Head(s).what = "empty" => [what |-> "clock"] \in ToSet(Tail(s))
<1> DEFINE t == Tail(s)
<1>1. Len(s) \in Nat \ {0} /\ DOMAIN s = 1 .. Len(s) BY EmptySeq, LenProperties
<1>2. /\ Head(s) = s[1] /\ t \in Seq(S) /\ Len(t) = Len(s) - 1
      /\ \A i \in 1 .. Len(s) - 1 : t[i] = s[i + 1]
  BY <1>1, HeadTailProperties
<1>3. DOMAIN t = 1 .. Len(s) - 1 BY <1>2, LenProperties
<1> HIDE DEF t
<1>4. ASSUME NEW j \in DOMAIN s, j > 1 PROVE j - 1 \in DOMAIN t /\ t[j - 1] = s[j]
  <2>1. j - 1 \in 1 .. Len(s) - 1 /\ (j - 1) + 1 = j BY <1>1, <1>4
  <2> QED BY <1>2, <1>3, <2>1
<1>5. ASSUME NEW k \in DOMAIN t, t[k].what = "empty"
      PROVE  \E j \in DOMAIN t : k < j /\ t[j] = [what |-> "clock"]
  <2>1. k + 1 \in DOMAIN s /\ s[k + 1].what = "empty" /\ k \in Nat \ {0} BY <1>1, <1>2, <1>3, <1>5
  <2>2. PICK j \in DOMAIN s : k + 1 < j /\ s[j] = [what |-> "clock"]
    BY <2>1 DEF ClockAfterEmpty
  <2>3. j > 1 /\ k < j - 1 BY <1>1, <2>1, <2>2
  <2> QED BY <1>4, <2>2, <2>3
<1>6. ASSUME Head(s).what = "empty" PROVE [what |-> "clock"] \in ToSet(t)
  <2>1. 1 \in DOMAIN s BY <1>1
  <2>2. PICK j \in DOMAIN s : 1 < j /\ s[j] = [what |-> "clock"]
    BY <1>2, <1>6, <2>1 DEF ClockAfterEmpty
  <2>3. j - 1 \in DOMAIN t /\ t[j - 1] = s[j] BY <1>1, <1>4, <2>2
  <2> QED BY <2>2, <2>3 DEF ToSet
<1> QED BY <1>5, <1>6 DEF ClockAfterEmpty, t

\* A save writes everything there is.
LEMMA SaveNames ==
  ASSUME EnemiesOK(enemy)
  PROVE  /\ SaveDatabases \in Seq(Pending) /\ ClockAfterEmpty(SaveDatabases)
         /\ ToSet(SaveDatabases) = [what : {"empty", "clock", "dead"}]
              \cup {PlayerWrite(p) : p \in Player} \cup {EnemyWrite(i) : i \in DOMAIN enemy}
<1> DEFINE a == <<[what |-> "empty"], [what |-> "clock"]>>
           b == PlayerWrites(Player)
           c == EnemyWrites
           d == <<[what |-> "dead"]>>
<1>1. [what : {"empty", "clock", "dead"}] = {[what |-> "empty"], [what |-> "clock"], [what |-> "dead"]}
  <2>1. ASSUME NEW w \in [what : {"empty", "clock", "dead"}]
        PROVE  w \in {[what |-> "empty"], [what |-> "clock"], [what |-> "dead"]}
    <3>1. w = [what |-> w.what] /\ w.what \in {"empty", "clock", "dead"} OBVIOUS
    <3> QED BY <3>1
  <2>2. /\ [what |-> "empty"] \in [what : {"empty", "clock", "dead"}]
        /\ [what |-> "clock"] \in [what : {"empty", "clock", "dead"}]
        /\ [what |-> "dead"] \in [what : {"empty", "clock", "dead"}]
    OBVIOUS
  <2> QED BY <2>1, <2>2
<1>2. /\ a \in Seq(Pending) /\ ToSet(a) = {[what |-> "empty"], [what |-> "clock"]}
      /\ ClockAfterEmpty(a)
  <2>1. [what |-> "empty"] \in Pending /\ [what |-> "clock"] \in Pending BY <1>1 DEF Pending
  <2>2. DOMAIN a = {1, 2} /\ a[1] = [what |-> "empty"] /\ a[2] = [what |-> "clock"] OBVIOUS
  <2>3. a \in Seq(Pending) BY <2>1
  <2> HIDE DEF a
  <2>4. ToSet(a) = {a[1], a[2]} BY <2>2 DEF ToSet
  <2>5. ClockAfterEmpty(a)
    <3> SUFFICES ASSUME NEW k \in DOMAIN a, a[k].what = "empty"
                 PROVE  \E j \in DOMAIN a : k < j /\ a[j] = [what |-> "clock"]
      BY DEF ClockAfterEmpty
    <3>1. k = 1
      <4>1. a[2].what # "empty" BY <2>2
      <4> QED BY <2>2, <4>1
    <3>2. 2 \in DOMAIN a /\ 1 < 2 BY <2>2
    <3> QED BY <2>2, <3>1, <3>2
  <2> QED BY <2>2, <2>3, <2>4, <2>5
<1>3. d \in Seq(Pending) /\ ToSet(d) = {[what |-> "dead"]} /\ ClockAfterEmpty(d)
  <2>1. [what |-> "dead"] \in Pending BY <1>1 DEF Pending
  <2>2. DOMAIN d = {1} /\ d[1] = [what |-> "dead"] OBVIOUS
  <2>3. d \in Seq(Pending) BY <2>1
  <2> HIDE DEF d
  <2>4. ToSet(d) = {d[1]} BY <2>2 DEF ToSet
  <2>5. ClockAfterEmpty(d)
    <3>1. \A k \in DOMAIN d : d[k].what # "empty" BY <2>2
    <3> QED BY <3>1 DEF ClockAfterEmpty
  <2> QED BY <2>2, <2>3, <2>4, <2>5
<1>4. b \in Seq(Pending) /\ ToSet(b) = {PlayerWrite(p) : p \in Player} /\ ClockAfterEmpty(b)
  <2>1. Player \in SUBSET Player OBVIOUS
  <2> QED BY <2>1, PlayerWritesName
<1>5. /\ c \in Seq(Pending) /\ ToSet(c) = {EnemyWrite(i) : i \in DOMAIN enemy}
      /\ ClockAfterEmpty(c)
  BY EnemyWritesName
<1>6. SaveDatabases = ((a \o b) \o c) \o d BY DEF SaveDatabases
<1> HIDE DEF a, b, c, d
<1>7. a \o b \in Seq(Pending) /\ ToSet(a \o b) = ToSet(a) \cup ToSet(b) /\ ClockAfterEmpty(a \o b)
  BY <1>2, <1>4, ConcatProperties, ToSetConcat, ClockAfterConcat
<1> DEFINE ab == a \o b
<1> HIDE DEF ab
<1>8. ab \o c \in Seq(Pending) /\ ToSet(ab \o c) = ToSet(ab) \cup ToSet(c) /\ ClockAfterEmpty(ab \o c)
  <2>1. ab \in Seq(Pending) /\ ClockAfterEmpty(ab) BY <1>7 DEF ab
  <2> QED BY <2>1, <1>5, ConcatProperties, ToSetConcat, ClockAfterConcat
<1> DEFINE abc == ab \o c
<1> HIDE DEF abc
<1>9. abc \o d \in Seq(Pending) /\ ToSet(abc \o d) = ToSet(abc) \cup ToSet(d) /\ ClockAfterEmpty(abc \o d)
  <2>1. abc \in Seq(Pending) /\ ClockAfterEmpty(abc) BY <1>8 DEF abc
  <2> QED BY <2>1, <1>3, ConcatProperties, ToSetConcat, ClockAfterConcat
<1>10. SaveDatabases = abc \o d BY <1>6 DEF abc, ab
<1>11. ToSet(SaveDatabases) = ToSet(a) \cup ToSet(b) \cup ToSet(c) \cup ToSet(d)
  BY <1>7, <1>8, <1>9, <1>10 DEF abc, ab
<1> QED BY <1>1, <1>2, <1>3, <1>4, <1>5, <1>9, <1>10, <1>11

-----------------------------------------------------------------------------
(* The world in memory and on disk. *)

WorldInv ==
  /\ mode \in {"up", "stopping", "down"} /\ clean \in BOOLEAN /\ crashes \in 0 .. MaxCrashes
  /\ pc \in {"lines", "round", "regen", "heal", "save", "saving", "end", "final"}
  /\ roundTime \in Nat /\ playing \subseteq Player
  /\ WorldOK(enemy, listed) /\ EnemiesOK(enemyRow)
  /\ turns \in Seq(DOMAIN enemy) /\ (turns # <<>> => pc = "round")
  /\ writes \in Seq(Pending) /\ (writes # <<>> => pc \in {"lines", "saving", "final"})
  /\ mode = "down" => pc = "final" /\ writes = <<>>

LEMMA WorldInit == ASSUME Init PROVE WorldInv
<1>1. EnemiesOK(<<>>)
  <2>1. IsFiniteSet({}) BY FS_EmptySet
  <2>2. DOMAIN <<>> = {} /\ <<>> \in [{} -> Enemy] OBVIOUS
  <2> QED BY <2>1, <2>2 DEF EnemiesOK
<1>2. WorldOK(enemy, listed)
  <2>1. \A r \in Room : Housed(<<>>, r) = {} BY DEF Housed
  <2>2. listed \in [Room -> Seq(Id)] /\ \A r \in Room : listed[r] = <<>> BY DEF Init
  <2> QED BY <1>1, <2>1, <2>2, EmptyIsListing DEF Init, WorldOK
<1>3. <<>> \in Seq(DOMAIN enemy) /\ <<>> \in Seq(Pending) OBVIOUS
<1>4. 0 \in 0 .. MaxCrashes BY CombatAssumption
<1> QED BY <1>1, <1>2, <1>3, <1>4 DEF Init, WorldInv

\* What leaves the enemies, the rows and the queues alone.
LEMMA WorldStutter ==
  ASSUME WorldInv, UNCHANGED <<crashes, pc, roundTime, enemy, listed, enemyRow, turns, writes>>,
         playing' \subseteq Player, clean' \in BOOLEAN,
         mode' \in {"up", "stopping", "down"}, mode' = "down" => mode = "down"
  PROVE  WorldInv'
<1>1. WorldOK(enemy, listed)' /\ EnemiesOK(enemyRow)' /\ Pending' = Pending
  BY DEF WorldInv, WorldOK, EnemiesOK, Housed, Listing, Pending
<1> QED BY <1>1 DEF WorldInv

LEMMA WorldLine ==
  ASSUME WorldInv, BodyInv, NEW p \in Player,
         Idle(p) \/ PlayerAttack(p) \/ Enter(p) \/ Quit(p) \/ Shutdown(p)
           \/ \E r \in Room : Move(p, r)
  PROVE  WorldInv'
<1>1. CASE Idle(p) \/ Enter(p) \/ Shutdown(p) \/ \E r \in Room : Move(p, r)
  <2>1. UNCHANGED <<crashes, pc, roundTime, enemy, listed, enemyRow, turns, writes, clean>>
    BY <1>1 DEF Idle, Enter, Shutdown, Move, process, clock, round, disk
  <2>2. playing' \subseteq Player /\ mode' \in {mode, "stopping"}
    BY <1>1 DEF Idle, Enter, Shutdown, Move, process, clock, round, disk, WorldInv
  <2> QED BY <2>1, <2>2, WorldStutter DEF WorldInv
<1>2. CASE PlayerAttack(p)
  <2>1. UNCHANGED <<mode, clean, crashes, pc, roundTime, playing, enemyRow, turns, writes>>
        /\ pc = "lines" /\ writes = <<>>
    BY <1>2 DEF PlayerAttack, Line, process, round, disk
  <2>2. WorldOK(enemy, listed)'
    <3>1. CASE UNCHANGED <<enemy, listed>>
      BY <3>1 DEF WorldInv, WorldOK, EnemiesOK, Housed, Listing
    <3>2. CASE ~UNCHANGED <<enemy, listed>>
      <4> DEFINE r == body[p].room
      <4>1. PICK n \in Damage : Strike(Head(listed[r]), n) /\ listed[r] # <<>>
        BY <1>2, <3>2 DEF PlayerAttack
      <4>2. r \in Room BY DEF BodyInv, Body
      <4> HIDE DEF r
      <4> QED BY <4>1, <4>2, StrikeKeepsWorld DEF WorldInv
    <3> QED BY <3>1, <3>2
  <2>3. turns = <<>> BY <2>1 DEF WorldInv
  <2>4. EnemiesOK(enemyRow)' BY <2>1 DEF WorldInv, EnemiesOK
  <2>5. <<>> \in Seq(DOMAIN enemy') /\ <<>> \in Seq(Pending') OBVIOUS
  <2> QED BY <2>1, <2>2, <2>3, <2>4, <2>5 DEF WorldInv
<1>3. CASE Quit(p)
  <2>1. UNCHANGED <<mode, clean, crashes, pc, roundTime, enemy, listed, enemyRow, turns>>
        /\ pc = "lines" /\ mode # "down" /\ writes' = <<PlayerWrite(p)>> /\ playing' \subseteq playing
    BY <1>3 DEF Quit, Line, process, clock, round, disk, PlayerWrite
  <2>2. WorldOK(enemy, listed)' /\ EnemiesOK(enemyRow)' /\ Pending' = Pending
    BY <2>1 DEF WorldInv, WorldOK, EnemiesOK, Housed, Listing, Pending
  <2>3. PlayerWrite(p) \in Pending BY DEF PlayerWrite, Pending
  <2>4. writes' \in Seq(Pending') BY <2>1, <2>2, <2>3
  <2> QED BY <2>1, <2>2, <2>4 DEF WorldInv
<1> QED BY <1>1, <1>2, <1>3

\* A start puts the enemies of the table into the lists, in any order.
LEMMA StartWorld ==
  ASSUME WorldInv, Start
  PROVE  /\ WorldOK(enemy', listed') /\ enemy' = enemyRow
         /\ \A r \in Room : Listing(listed'[r], Housed(enemyRow, r))
<1>1. enemy' = enemyRow /\ listed' \in Lists(enemyRow) BY DEF Start
<1>2. EnemiesOK(enemyRow) BY DEF WorldInv
<1>3. ASSUME NEW r \in Room PROVE Listing(listed'[r], Housed(enemyRow, r)) /\ listed'[r] \in Seq(Id)
  <2> DEFINE S == Housed(enemyRow, r)
             s == listed'[r]
  <2>1. IsFiniteSet(S) /\ S \subseteq Id BY <1>2, HousedIsFinite
  <2>2. s \in SetToSeqs(S) BY <1>1 DEF Lists
  <2> HIDE DEF S, s
  <2>3. Listing(s, S) BY <2>1, <2>2, OrderIsListing
  <2>4. s \in Seq(Id) BY <2>1, <2>3, ListingType
  <2> QED BY <2>3, <2>4 DEF S, s
<1>4. listed' \in [Room -> Seq(Id)]
  <2>1. listed' = [r \in Room |-> listed'[r]] BY <1>1 DEF Lists
  <2> QED BY <1>3, <2>1
<1> QED BY <1>1, <1>2, <1>3, <1>4 DEF WorldOK

LEMMA WorldStep == ASSUME ClockInv, BodyInv, WorldInv, [Next]_vars PROVE WorldInv'
<1>1. CASE UNCHANGED vars
  <2>1. WorldInv' BY <1>1, WorldStutter DEF vars, WorldInv
  <2> QED BY <2>1
<1>2. CASE \E p \in Player : Idle(p) \/ PlayerAttack(p) \/ Enter(p) \/ Quit(p)
                               \/ Shutdown(p) \/ \E r \in Room : Move(p, r)
  BY <1>2, WorldLine
<1>3. CASE Heal \/ EndRound \/ EndSave
  <2>1. UNCHANGED <<mode, clean, crashes, playing, enemy, listed, enemyRow, turns, writes>>
        /\ turns = <<>> /\ writes = <<>>
    BY <1>3 DEF Heal, EndRound, EndSave, process, round, disk, world, WorldInv
  <2>2. pc' \in {"regen", "save", "end"} /\ roundTime' \in Nat /\ mode # "down"
    BY <1>3 DEF Heal, EndRound, EndSave, round, WorldInv
  <2>3. WorldOK(enemy, listed)' /\ EnemiesOK(enemyRow)' /\ Pending' = Pending
    BY <2>1 DEF WorldInv, WorldOK, EnemiesOK, Housed, Listing, Pending
  <2> QED BY <2>1, <2>2, <2>3 DEF WorldInv
<1>4. CASE Tick
  <2>1. UNCHANGED <<crashes, pc, roundTime, enemy, listed, enemyRow, turns, writes, mode, clean, playing>>
    BY <1>4 DEF Tick, process, round, disk, world
  <2> QED BY <2>1, WorldStutter DEF WorldInv
<1>5. CASE BeginLoop
  <2>1. UNCHANGED <<mode, clean, crashes, playing, enemy, listed, enemyRow, writes>>
        /\ writes = <<>> /\ mode # "down"
    BY <1>5 DEF BeginLoop, process, world, disk
  <2>2. \/ pc' = "round" /\ turns' = Ids(enemy) /\ roundTime' = now
        \/ pc' = "regen" /\ UNCHANGED round
    BY <1>5 DEF BeginLoop
  <2>3. WorldOK(enemy, listed)' /\ EnemiesOK(enemyRow)' /\ Pending' = Pending
    BY <2>1 DEF WorldInv, WorldOK, EnemiesOK, Housed, Listing, Pending
  <2>4. Ids(enemy) \in Seq(DOMAIN enemy)
    <3>1. EnemiesOK(enemy) BY DEF WorldInv, WorldOK
    <3> QED BY <3>1, IdsAreListed DEF Listing
  <2>5. turns = <<>> BY <1>5 DEF BeginLoop, WorldInv
  <2>6. turns' \in Seq(DOMAIN enemy') /\ (turns' # <<>> => pc' = "round") /\ roundTime' \in Nat
    BY <2>1, <2>2, <2>4, <2>5 DEF round, WorldInv, ClockInv
  <2> QED BY <2>1, <2>2, <2>3, <2>6 DEF WorldInv
<1>6. CASE Fight
  <2> DEFINE i == Head(turns)
  <2>1. UNCHANGED <<mode, clean, crashes, pc, roundTime, playing, listed, enemyRow, writes>>
        /\ pc = "round" /\ turns' = Tail(turns) /\ turns # <<>> /\ writes = <<>> /\ mode # "down"
    BY <1>6 DEF Fight, process, disk, WorldInv
  <2>2. i \in DOMAIN enemy /\ Tail(turns) \in Seq(DOMAIN enemy)
    BY <2>1, ToSetTail DEF WorldInv
  <2> HIDE DEF i
  <2>3. enemy' = enemy \/ enemy' = [enemy EXCEPT ![i].ready = now + EnemySpeed]
    BY <1>6 DEF Fight, EnemyAttack, i
  <2>4. WorldOK(enemy', listed) /\ DOMAIN enemy' = DOMAIN enemy
    <3>1. CASE enemy' = enemy BY <3>1 DEF WorldInv
    <3>2. CASE enemy' = [enemy EXCEPT ![i].ready = now + EnemySpeed]
      <4>1. now + EnemySpeed \in Nat BY CombatAssumption DEF ClockInv
      <4>2. enemy[i] \in Enemy /\ [enemy[i] EXCEPT !.ready = now + EnemySpeed] \in Enemy
        BY <2>2, <4>1 DEF WorldInv, WorldOK, EnemiesOK, Enemy
      <4>3. /\ DOMAIN enemy' = DOMAIN enemy
            /\ enemy'[i] = [enemy[i] EXCEPT !.ready = now + EnemySpeed]
            /\ \A j \in DOMAIN enemy \ {i} : enemy'[j] = enemy[j]
            /\ enemy' \in [DOMAIN enemy -> Enemy]
        BY <2>2, <3>2, <4>2 DEF WorldInv, WorldOK, EnemiesOK
      <4>4. EnemiesOK(enemy') BY <4>3 DEF WorldInv, WorldOK, EnemiesOK
      <4>5. \A j \in DOMAIN enemy : enemy'[j].room = enemy[j].room
        BY <4>2, <4>3 DEF Enemy
      <4> QED BY <4>3, <4>4, <4>5, WorldSame DEF WorldInv
    <3> QED BY <2>3, <3>1, <3>2
  <2>5. EnemiesOK(enemyRow)' /\ <<>> \in Seq(Pending') BY <2>1 DEF WorldInv, EnemiesOK
  <2> QED BY <2>1, <2>2, <2>4, <2>5 DEF WorldInv
<1>7. CASE Regen
  <2>1. UNCHANGED <<mode, clean, crashes, roundTime, playing, enemyRow, turns, writes>>
        /\ pc' = "heal" /\ mode # "down" /\ turns = <<>> /\ writes = <<>>
    BY <1>7 DEF Regen, process, round, disk, WorldInv
  <2>2. WorldOK(enemy', listed')
    <3>1. CASE UNCHANGED <<enemy, listed>> BY <3>1 DEF WorldInv
    <3>2. CASE PerformRegen BY <3>2, RegenKeepsWorld DEF WorldInv
    <3> QED BY <1>7, <3>1, <3>2 DEF Regen
  <2>3. EnemiesOK(enemyRow)' /\ <<>> \in Seq(Pending') /\ <<>> \in Seq(DOMAIN enemy')
    BY <2>1 DEF WorldInv, EnemiesOK
  <2> QED BY <2>1, <2>2, <2>3 DEF WorldInv
<1>8. CASE Save
  <2>1. UNCHANGED <<mode, clean, crashes, roundTime, playing, enemy, listed, enemyRow, turns>>
        /\ mode # "down" /\ turns = <<>> /\ writes = <<>>
    BY <1>8 DEF Save, process, round, disk, world, WorldInv
  <2>2. (pc' = "saving" /\ writes' = SaveDatabases) \/ (pc' = "end" /\ writes' = <<>>)
    BY <1>8, <2>1 DEF Save
  <2>3. WorldOK(enemy, listed)' /\ EnemiesOK(enemyRow)' /\ Pending' = Pending
    BY <2>1 DEF WorldInv, WorldOK, EnemiesOK, Housed, Listing, Pending
  <2>4. SaveDatabases \in Seq(Pending) BY SaveNames DEF WorldInv, WorldOK
  <2>5. writes' \in Seq(Pending')
    <3>1. <<>> \in Seq(Pending) OBVIOUS
    <3> QED BY Zenon, <2>2, <2>3, <2>4, <3>1
  <2> QED BY <2>1, <2>2, <2>3, <2>5 DEF WorldInv
<1>9. CASE EndLoop
  <2>1. UNCHANGED <<mode, clean, crashes, roundTime, enemy, listed, enemyRow, turns>>
        /\ mode # "down" /\ turns = <<>> /\ writes = <<>>
    BY <1>9 DEF EndLoop, process, round, disk, WorldInv
  <2>2. \/ pc' = "lines" /\ writes' = <<>> /\ playing' = playing
        \/ pc' = "final" /\ playing' = {} /\ writes' = PlayerWrites(playing) \o SaveDatabases
    BY <1>9, <2>1 DEF EndLoop
  <2>3. WorldOK(enemy, listed)' /\ EnemiesOK(enemyRow)' /\ Pending' = Pending
    BY <2>1 DEF WorldInv, WorldOK, EnemiesOK, Housed, Listing, Pending
  <2>4. PlayerWrites(playing) \o SaveDatabases \in Seq(Pending)
    <3>1. SaveDatabases \in Seq(Pending) BY SaveNames DEF WorldInv, WorldOK
    <3>2. PlayerWrites(playing) \in Seq(Pending) BY PlayerWritesName DEF WorldInv
    <3> QED BY <3>1, <3>2, ConcatProperties
  <2>5. writes' \in Seq(Pending') /\ playing' \subseteq Player
    <3>1. <<>> \in Seq(Pending) OBVIOUS
    <3>2. writes' \in Seq(Pending') BY Zenon, <2>2, <2>3, <2>4, <3>1
    <3> QED BY <2>2, <3>2 DEF WorldInv
  <2> QED BY <2>1, <2>2, <2>3, <2>5 DEF WorldInv
<1>10. CASE Commit
  <2> DEFINE w == Head(writes)
  <2>1. UNCHANGED <<mode, clean, crashes, pc, roundTime, playing, enemy, listed, turns>>
        /\ mode # "down" /\ writes # <<>> /\ pc \in {"lines", "saving", "final"}
        /\ writes' = Tail(writes)
    BY <1>10 DEF Commit, process, round, world
  <2>2. w \in Pending /\ Tail(writes) \in Seq(Pending) BY <2>1, ToSetTail DEF WorldInv
  <2> HIDE DEF w
  <2>3. Written(w) BY <1>10 DEF Commit, w
  <2>4. EnemiesOK(enemyRow')
    <3>1. CASE w.what \in {"empty", "clock", "player"}
      BY <2>3, <3>1 DEF Written, WorldInv, EnemiesOK
    <3>2. CASE w.what = "enemy"
      <4>1. w.of \in DOMAIN enemy BY <2>2, <3>2 DEF Pending
      <4>2. enemyRow' = [i \in DOMAIN enemyRow \cup {w.of} |->
                           IF i = w.of THEN enemy[i] ELSE enemyRow[i]]
        BY <2>3, <3>2 DEF Written
      <4>3. IsFiniteSet(DOMAIN enemyRow \cup {w.of}) BY FS_AddElement DEF WorldInv, EnemiesOK
      <4>4. enemyRow' \in [DOMAIN enemyRow \cup {w.of} -> Enemy]
        BY <4>1, <4>2 DEF WorldInv, WorldOK, EnemiesOK
      <4>5. w.of \in Id BY <4>1 DEF WorldInv, WorldOK, EnemiesOK
      <4> QED BY <4>2, <4>3, <4>4, <4>5 DEF WorldInv, EnemiesOK
    <3>3. CASE w.what = "dead"
      <4>1. enemyRow' = DeadGone BY <2>3, <3>3 DEF Written
      <4>2. IsFiniteSet(DOMAIN enemyRow \cap DOMAIN enemy)
        BY FS_Intersection DEF WorldInv, EnemiesOK
      <4> QED BY <4>1, <4>2 DEF DeadGone, WorldInv, EnemiesOK
    <3>4. w.what \in {"empty", "clock", "player", "enemy", "dead"} BY <2>2 DEF Pending
    <3> QED BY <3>1, <3>2, <3>3, <3>4
  <2>5. WorldOK(enemy, listed)' /\ Pending' = Pending
    BY <2>1 DEF WorldInv, WorldOK, EnemiesOK, Housed, Listing, Pending
  <2> QED BY <2>1, <2>2, <2>4, <2>5 DEF WorldInv
<1>11. CASE Halt
  <2>1. UNCHANGED <<crashes, pc, roundTime, enemy, listed, enemyRow, turns, writes, playing>>
        /\ pc = "final" /\ writes = <<>> /\ mode' = "down" /\ clean' = TRUE
    BY <1>11 DEF Halt, round, world, disk
  <2>2. WorldOK(enemy, listed)' /\ EnemiesOK(enemyRow)' /\ Pending' = Pending
    BY <2>1 DEF WorldInv, WorldOK, EnemiesOK, Housed, Listing, Pending
  <2> QED BY <2>1, <2>2 DEF WorldInv
<1>12. CASE Crash
  <2>1. /\ mode' = "down" /\ clean' = FALSE /\ crashes' = crashes + 1 /\ pc' = "final"
        /\ roundTime' = 0 /\ turns' = <<>> /\ writes' = <<>> /\ playing' = {}
        /\ enemy' = <<>> /\ listed' = [r \in Room |-> <<>>] /\ enemyRow' = enemyRow
        /\ crashes < MaxCrashes
    BY <1>12 DEF Crash, disk
  <2>2. EnemiesOK(<<>>)
    <3>1. IsFiniteSet({}) BY FS_EmptySet
    <3>2. DOMAIN <<>> = {} /\ <<>> \in [{} -> Enemy] OBVIOUS
    <3> QED BY <3>1, <3>2 DEF EnemiesOK
  <2>3. WorldOK(enemy', listed')
    <3>1. \A r \in Room : Housed(<<>>, r) = {} BY DEF Housed
    <3>2. listed' \in [Room -> Seq(Id)] /\ \A r \in Room : listed'[r] = <<>> BY <2>1
    <3> QED BY <2>1, <2>2, <3>1, <3>2, EmptyIsListing DEF WorldOK
  <2>4. EnemiesOK(enemyRow)' BY <2>1 DEF WorldInv, EnemiesOK
  <2>5. <<>> \in Seq(DOMAIN enemy') /\ <<>> \in Seq(Pending') OBVIOUS
  <2>6. crashes' \in 0 .. MaxCrashes BY <2>1, CombatAssumption DEF WorldInv
  <2> QED BY <2>1, <2>3, <2>4, <2>5, <2>6 DEF WorldInv
<1>13. CASE Start
  <2>1. UNCHANGED <<crashes, roundTime, playing, enemyRow, turns, writes>>
        /\ mode = "down" /\ mode' = "up" /\ clean' = FALSE /\ pc' = "lines"
    BY <1>13 DEF Start, round, disk
  <2>2. turns = <<>> /\ writes = <<>> BY <2>1 DEF WorldInv
  <2>3. WorldOK(enemy', listed') BY <1>13, StartWorld
  <2>4. EnemiesOK(enemyRow)' BY <2>1 DEF WorldInv, EnemiesOK
  <2>5. <<>> \in Seq(DOMAIN enemy') /\ <<>> \in Seq(Pending') OBVIOUS
  <2> QED BY <2>1, <2>2, <2>3, <2>4, <2>5 DEF WorldInv
<1> QED
  BY <1>1, <1>2, <1>3, <1>4, <1>5, <1>6, <1>7, <1>8, <1>9, <1>10, <1>11, <1>12, <1>13 DEF Next

\* The variables have the types their declarations promise.
THEOREM CombatTypeCorrect == Spec => []TypeOK
<1>1. ClockInv /\ BodyInv /\ WorldInv => TypeOK
  <2> SUFFICES ASSUME ClockInv, BodyInv, WorldInv PROVE TypeOK OBVIOUS
  <2>1. DOMAIN enemy \subseteq Id /\ Pending \subseteq Write
    BY DEF WorldInv, WorldOK, EnemiesOK, Pending, Write
  <2>2. turns \in Seq(Id) /\ writes \in Seq(Write)
    BY <2>1, SeqDef DEF WorldInv
  <2>3. DOMAIN enemyRow \subseteq Id /\ enemy \in EnemiesOn(DOMAIN enemy)
        /\ enemyRow \in EnemiesOn(DOMAIN enemyRow) /\ listed \in [Room -> Seq(Id)]
    BY DEF WorldInv, WorldOK, EnemiesOK, EnemiesOn
  <2> QED BY <2>1, <2>2, <2>3 DEF TypeOK, ClockInv, BodyInv, WorldInv
<1> QED
  BY ClockInit, ClockStep, BodyInit, BodyStep, WorldInit, WorldStep, <1>1, PTL DEF Spec

\* Every enemy is in the list of its room, once, and in no other: over kills,
\* spawns under ids used before, restarts, and crashes in the middle of a save,
\* for any number of rooms, enemies and crashes.
THEOREM ListsAndTableAgree == Spec => []ListsNameEnemies
<1>1. WorldInv => ListsNameEnemies
  <2> SUFFICES ASSUME WorldInv, NEW r \in Room
               PROVE  /\ ToSet(listed[r]) = Housed(enemy, r)
                      /\ Len(listed[r]) = Cardinality(ToSet(listed[r]))
    BY DEF ListsNameEnemies
  <2>1. Listing(listed[r], Housed(enemy, r)) /\ EnemiesOK(enemy) BY DEF WorldInv, WorldOK
  <2>2. IsFiniteSet(Housed(enemy, r)) BY <2>1, HousedIsFinite
  <2>3. Len(listed[r]) = Cardinality(Housed(enemy, r)) BY <2>1, <2>2, ListingLen
  <2> QED BY <2>1, <2>3 DEF Listing
<1> QED
  BY ClockInit, ClockStep, BodyInit, BodyStep, WorldInit, WorldStep, <1>1, PTL DEF Spec

-----------------------------------------------------------------------------
(* Clean restarts. *)

ReadyBy(time) ==
  /\ \A p \in Player : body[p].ready <= time + PlayerSpeed
  /\ \A i \in DOMAIN enemy : enemy[i].ready <= time + EnemySpeed

ClockSaved ==
  gameData.next = next /\ gameData.time <= now /\ (crashes = 0 => ReadyBy(gameData.time))

Waits(w) == w \in ToSet(writes)

\* The last save: what it has not written yet still waits.
LastSave ==
  /\ \A p \in Player : row[p] = body[p] \/ Waits(PlayerWrite(p))
  /\ \A i \in DOMAIN enemy :
       (i \in DOMAIN enemyRow /\ enemyRow[i] = enemy[i]) \/ Waits(EnemyWrite(i))
  /\ DOMAIN enemyRow \subseteq DOMAIN enemy \/ Waits([what |-> "dead"])
  /\ ClockSaved \/ Waits([what |-> "clock"])
  /\ ClockAfterEmpty(writes)

SavedInv ==
  /\ clean => mode = "down"
  /\ mode = "down" /\ crashes = 0 => clean
  /\ pc = "final" => mode # "up"
  /\ pc = "final" /\ mode = "stopping" => LastSave
  /\ clean => row = body /\ enemyRow = enemy /\ ClockSaved

LockInv == crashes = 0 => ReadyBy(now)

LEMMA RestartInit == ASSUME Init PROVE SavedInv /\ LockInv
  BY CombatAssumption DEF Init, SavedInv, LockInv, ReadyBy, Fresh

LEMMA LockStep ==
  ASSUME ClockInv, BodyInv, WorldInv, SavedInv, LockInv, [Next]_vars
  PROVE  LockInv'
<1>1. /\ now \in Nat /\ PlayerSpeed \in Nat /\ EnemySpeed \in Nat
      /\ \A p \in Player : body[p].ready \in Nat
      /\ \A i \in DOMAIN enemy : enemy[i].ready \in Nat
  BY CombatAssumption DEF ClockInv, BodyInv, WorldInv, WorldOK, EnemiesOK, Body, Enemy
<1>2. SUFFICES ASSUME crashes' = 0 PROVE ReadyBy(now)' BY DEF LockInv
<1>3. crashes = 0 /\ ReadyBy(now)
  <2>1. crashes \in Nat BY CombatAssumption DEF WorldInv
  <2>2. crashes' = crashes \/ crashes' = crashes + 1
    BY DEF Next, vars, Idle, PlayerAttack, Enter, Quit, Shutdown, Move, BeginLoop, Fight,
       EndRound, Regen, Heal, Save, EndSave, EndLoop, Commit, Halt, Crash, Start, Tick, process
  <2> QED BY <1>2, <2>1, <2>2 DEF LockInv
<1> DEFINE SameReady ==
      /\ now' = now
      /\ \A p \in Player : body'[p].ready = body[p].ready \/ body'[p].ready <= now + PlayerSpeed
      /\ \A i \in DOMAIN enemy' :
           \/ enemy'[i].ready <= now + EnemySpeed
           \/ i \in DOMAIN enemy /\ enemy'[i].ready = enemy[i].ready
<1>4. ASSUME SameReady PROVE ReadyBy(now)'
  BY <1>3, <1>4 DEF ReadyBy
<1>5. CASE UNCHANGED <<now, body, enemy>> BY <1>4, <1>5
<1>6. CASE \E p \in Player : Idle(p) \/ PlayerAttack(p) \/ Enter(p) \/ Quit(p)
                               \/ Shutdown(p) \/ \E r \in Room : Move(p, r)
  <2>1. PICK p \in Player : Idle(p) \/ PlayerAttack(p) \/ Enter(p) \/ Quit(p)
                               \/ Shutdown(p) \/ \E r \in Room : Move(p, r)
    BY <1>6
  <2>2. now' = now BY <2>1 DEF Idle, PlayerAttack, Enter, Quit, Shutdown, Move, clock
  <2>3. Eroded(p) \in Body /\ Eroded(p).ready = body[p].ready
    <3>1. Eroded(p) \in Body BY ErodedIsBody
    <3>2. body[p] \in Body BY DEF BodyInv
    <3> QED BY <3>1, <3>2 DEF Eroded, Hurt, Body
  <2>4. ASSUME NEW q \in Player
        PROVE  body'[q].ready = body[q].ready \/ body'[q].ready <= now + PlayerSpeed
    <3> DEFINE e == Eroded(p)
    <3>1. \/ body' = body
          \/ body' = [body EXCEPT ![p] = e]
          \/ body' = [body EXCEPT ![p] = [e EXCEPT !.ready = now + PlayerSpeed]]
          \/ \E r \in Room : body' = [body EXCEPT ![p] = [e EXCEPT !.room = r]]
      BY <2>1 DEF Idle, PlayerAttack, Enter, Quit, Shutdown, Move
    <3>2. /\ e \in Body /\ e.ready = body[p].ready BY <2>3
    <3> HIDE DEF e
    <3>3. /\ [e EXCEPT !.ready = now + PlayerSpeed].ready = now + PlayerSpeed
          /\ \A r \in Room : [e EXCEPT !.room = r].ready = e.ready
      BY <3>2 DEF Body
    <3>4. now + PlayerSpeed <= now + PlayerSpeed BY <1>1
    <3> QED BY <3>1, <3>2, <3>3, <3>4 DEF BodyInv
  <2>5. \A i \in DOMAIN enemy' : i \in DOMAIN enemy /\ enemy'[i].ready = enemy[i].ready
    <3>1. CASE UNCHANGED enemy BY <3>1
    <3>2. CASE PlayerAttack(p) /\ ~UNCHANGED <<enemy, listed>>
      <4> DEFINE r == body[p].room
      <4>1. PICK n \in Damage : Strike(Head(listed[r]), n) /\ listed[r] # <<>>
        BY <3>2 DEF PlayerAttack
      <4>2. r \in Room BY DEF BodyInv, Body
      <4> HIDE DEF r
      <4> QED BY <4>1, <4>2, StrikeKeepsWorld DEF WorldInv
    <3> QED BY <2>1, <3>1, <3>2 DEF Idle, PlayerAttack, Enter, Quit, Shutdown, Move
  <2> QED BY <1>4, <2>2, <2>4, <2>5
<1>7. CASE Fight
  <2> DEFINE i == Head(turns)
  <2>1. now' = now /\ turns # <<>> BY <1>7 DEF Fight, clock
  <2>2. i \in DOMAIN enemy BY <2>1, ToSetTail DEF WorldInv
  <2> HIDE DEF i
  <2>3. enemy' = enemy \/ enemy' = [enemy EXCEPT ![i].ready = now + EnemySpeed]
    BY <1>7 DEF Fight, EnemyAttack, i
  <2>4. \A j \in DOMAIN enemy' :
           \/ enemy'[j].ready <= now + EnemySpeed
           \/ j \in DOMAIN enemy /\ enemy'[j].ready = enemy[j].ready
    <3>1. CASE enemy' = enemy BY <3>1
    <3>2. CASE enemy' = [enemy EXCEPT ![i].ready = now + EnemySpeed]
      <4>1. DOMAIN enemy' = DOMAIN enemy /\ \A j \in DOMAIN enemy \ {i} : enemy'[j] = enemy[j]
        BY <3>2 DEF WorldInv, WorldOK, EnemiesOK
      <4>2. enemy'[i].ready = now + EnemySpeed
        BY <2>2, <3>2 DEF WorldInv, WorldOK, EnemiesOK, Enemy
      <4>3. now + EnemySpeed <= now + EnemySpeed BY <1>1
      <4> QED BY <4>1, <4>2, <4>3
    <3> QED BY <2>3, <3>1, <3>2
  <2>5. ASSUME NEW q \in Player PROVE body'[q].ready = body[q].ready
    <3>1. \/ body' = body
          \/ \E p : \E n \in Nat : body' = [body EXCEPT ![p] = Struck(body[p], n)]
      BY <1>7, CombatAssumption DEF Fight, EnemyAttack
    <3>2. \A n : Struck(body[q], n).ready = body[q].ready
      <4>1. body[q] \in Body BY DEF BodyInv
      <4> QED BY <4>1 DEF Struck, Hurt, PlayerKilled, Body
    <3> QED BY <3>1, <3>2 DEF BodyInv
  <2> QED BY <1>4, <2>1, <2>4, <2>5
<1>8. CASE Regen
  <2>1. UNCHANGED <<now, body>> BY <1>8 DEF Regen
  <2>2. \A i \in DOMAIN enemy' : enemy'[i].ready = 0 \/ (i \in DOMAIN enemy /\ enemy'[i] = enemy[i])
    <3>1. CASE UNCHANGED enemy BY <3>1
    <3>2. CASE PerformRegen BY <3>2, RegenKeepsWorld DEF WorldInv
    <3> QED BY <1>8, <3>1, <3>2 DEF Regen
  <2>3. 0 <= now + EnemySpeed BY <1>1
  <2> QED BY <1>4, <2>1, <2>2, <2>3
<1>9. CASE Heal
  <2>1. UNCHANGED <<now, enemy>> /\ (body' = body \/ PerformHeal) BY <1>9 DEF Heal
  <2>2. \A p \in Player : body'[p].ready = body[p].ready
    <3>1. \A p \in Player : Healed(body[p], Regeneration).ready = body[p].ready
      BY DEF Healed, BodyInv, Body
    <3> QED BY <2>1, <3>1 DEF PerformHeal
  <2> QED BY <1>4, <2>1, <2>2
<1>10. CASE BeginLoop \/ EndRound \/ Save \/ EndSave \/ EndLoop \/ Commit \/ Halt
  BY <1>5, <1>10 DEF BeginLoop, EndRound, Save, EndSave, EndLoop, Commit, Halt, clock, world
<1>11. CASE Crash
  <2>1. crashes' = crashes + 1 BY <1>11 DEF Crash
  <2> QED BY <1>2, <1>3, <2>1
<1>12. CASE Start
  <2>1. now' = gameData.time /\ body' = row /\ enemy' = enemyRow /\ mode = "down"
    BY <1>12 DEF Start
  <2>2. row = body /\ enemyRow = enemy /\ ReadyBy(gameData.time)
    BY <1>3, <2>1 DEF SavedInv, ClockSaved
  <2> QED BY <2>1, <2>2 DEF ReadyBy
<1>13. CASE Tick
  <2>1. now' = now + 1 /\ UNCHANGED <<body, enemy>> BY <1>13 DEF Tick, world
  <2> QED BY <1>1, <1>3, <2>1 DEF ReadyBy
<1>14. CASE UNCHANGED vars BY <1>5, <1>14 DEF vars
<1> QED
  BY <1>6, <1>7, <1>8, <1>9, <1>10, <1>11, <1>12, <1>13, <1>14 DEF Next

\* The last save begins with everything still to be written.
LEMMA LastSaveBegins ==
  ASSUME WorldInv, EndLoop, mode # "up"
  PROVE  LastSave'
<1>1. UNCHANGED <<body, enemy, row, enemyRow>>
      /\ writes' = PlayerWrites(playing) \o SaveDatabases
  BY DEF EndLoop, disk
<1>2. SaveDatabases \in Seq(Pending) /\ ClockAfterEmpty(SaveDatabases)
      /\ ToSet(SaveDatabases) = [what : {"empty", "clock", "dead"}]
              \cup {PlayerWrite(p) : p \in Player} \cup {EnemyWrite(i) : i \in DOMAIN enemy}
  BY SaveNames DEF WorldInv, WorldOK
<1>3. PlayerWrites(playing) \in Seq(Pending) /\ ClockAfterEmpty(PlayerWrites(playing))
  BY PlayerWritesName DEF WorldInv
<1>4. ToSet(SaveDatabases) \subseteq ToSet(writes') /\ ClockAfterEmpty(writes')
  <2> DEFINE a == PlayerWrites(playing)
             b == SaveDatabases
  <2>1. a \in Seq(Pending) /\ b \in Seq(Pending) /\ ClockAfterEmpty(a) /\ ClockAfterEmpty(b)
    BY <1>2, <1>3
  <2> HIDE DEF a, b
  <2>2. ToSet(a \o b) = ToSet(a) \cup ToSet(b) /\ ClockAfterEmpty(a \o b)
    BY <2>1, ToSetConcat, ClockAfterConcat
  <2> QED BY <1>1, <2>2 DEF a, b
<1>5. ClockAfterEmpty(writes)'
  BY <1>4 DEF ClockAfterEmpty
<1>6. /\ \A p \in Player : PlayerWrite(p) \in ToSet(writes')
      /\ \A i \in DOMAIN enemy : EnemyWrite(i) \in ToSet(writes')
      /\ [what |-> "dead"] \in ToSet(writes') /\ [what |-> "clock"] \in ToSet(writes')
  <2>1. [what |-> "dead"] \in [what : {"empty", "clock", "dead"}]
        /\ [what |-> "clock"] \in [what : {"empty", "clock", "dead"}]
    OBVIOUS
  <2> QED BY <1>2, <1>4, <2>1
<1> QED BY <1>1, <1>5, <1>6 DEF LastSave, Waits, PlayerWrite, EnemyWrite

\* One write of the last save.
LEMMA LastSaveGoesOn ==
  ASSUME ClockInv, BodyInv, WorldInv, LockInv, LastSave, Commit, pc = "final"
  PROVE  LastSave'
<1> DEFINE w == Head(writes)
           t == Tail(writes)
<1>1. UNCHANGED <<body, enemy, now, next, crashes>> /\ writes' = t /\ writes # <<>>
  BY DEF Commit, clock, process, world
<1>2. /\ w \in Pending /\ t \in Seq(Pending) /\ ToSet(writes) = {w} \cup ToSet(t)
      /\ ClockAfterEmpty(t) /\ (w.what = "empty" => [what |-> "clock"] \in ToSet(t))
  BY <1>1, ToSetTail, ClockAfterTail DEF WorldInv, LastSave
<1>3. Written(w) BY DEF Commit
<1> HIDE DEF w, t
<1>4. \A v : Waits(v) => v = w \/ Waits(v)'
  BY <1>1, <1>2 DEF Waits
<1>5. w.what \in {"empty", "clock", "player", "enemy", "dead"} BY <1>2 DEF Pending
<1>6. ASSUME NEW p \in Player PROVE row'[p] = body'[p] \/ Waits(PlayerWrite(p))'
  <2>1. CASE w.what = "player"
    <3>1. row' = [row EXCEPT ![w.of] = body[w.of]] BY <1>3, <2>1 DEF Written
    <3>2. CASE w.of = p BY <1>1, <3>1, <3>2 DEF BodyInv
    <3>3. CASE w.of # p
      <4>1. row'[p] = row[p] /\ PlayerWrite(p) # w BY <3>1, <3>3 DEF BodyInv, PlayerWrite
      <4> QED BY <1>1, <1>4, <4>1 DEF LastSave, PlayerWrite
    <3> QED BY <3>2, <3>3
  <2>2. CASE w.what # "player"
    <3>1. row' = row BY <1>3, <1>5, <2>2 DEF Written
    <3>2. PlayerWrite(p) # w BY <2>2 DEF PlayerWrite
    <3> QED BY <1>1, <1>4, <3>1, <3>2 DEF LastSave, PlayerWrite
  <2> QED BY <2>1, <2>2
<1>7. ASSUME NEW i \in DOMAIN enemy
      PROVE  (i \in DOMAIN enemyRow' /\ enemyRow'[i] = enemy'[i]) \/ Waits(EnemyWrite(i))'
  <2>1. CASE w.what = "enemy"
    <3>1. enemyRow' = [j \in DOMAIN enemyRow \cup {w.of} |->
                         IF j = w.of THEN enemy[j] ELSE enemyRow[j]]
      BY <1>3, <2>1 DEF Written
    <3>2. CASE w.of = i BY <1>1, <3>1, <3>2
    <3>3. CASE w.of # i
      <4>1. EnemyWrite(i) # w BY <3>3 DEF EnemyWrite
      <4>2. i \in DOMAIN enemyRow => i \in DOMAIN enemyRow' /\ enemyRow'[i] = enemyRow[i]
        BY <3>1, <3>3
      <4> QED BY <1>1, <1>4, <4>1, <4>2 DEF LastSave, EnemyWrite
    <3> QED BY <3>2, <3>3
  <2>2. CASE w.what # "enemy"
    <3>1. EnemyWrite(i) # w BY <2>2 DEF EnemyWrite
    <3>2. i \in DOMAIN enemyRow => i \in DOMAIN enemyRow' /\ enemyRow'[i] = enemyRow[i]
      BY <1>3, <1>5, <2>2 DEF Written, DeadGone
    <3> QED BY <1>1, <1>4, <3>1, <3>2 DEF LastSave, EnemyWrite
  <2> QED BY <2>1, <2>2
<1>8. DOMAIN enemyRow' \subseteq DOMAIN enemy' \/ Waits([what |-> "dead"])'
  <2>1. CASE w.what = "dead"
    <3>1. enemyRow' = DeadGone BY <1>3, <2>1 DEF Written
    <3> QED BY <1>1, <3>1 DEF DeadGone
  <2>2. CASE w.what # "dead"
    <3>1. [what |-> "dead"] # w BY <2>2
    <3>2. DOMAIN enemyRow' \subseteq DOMAIN enemyRow \cup DOMAIN enemy
      <4>1. CASE w.what = "enemy"
        <5>1. w.of \in DOMAIN enemy BY <1>2, <4>1 DEF Pending
        <5>2. DOMAIN enemyRow' = DOMAIN enemyRow \cup {w.of} BY <1>3, <4>1 DEF Written
        <5> QED BY <5>1, <5>2
      <4>2. CASE w.what # "enemy"
        <5>1. enemyRow' = enemyRow BY <1>3, <1>5, <2>2, <4>2 DEF Written
        <5> QED BY <5>1
      <4> QED BY <4>1, <4>2
    <3> QED BY <1>1, <1>4, <3>1, <3>2 DEF LastSave
  <2> QED BY <2>1, <2>2
<1>9. ClockSaved' \/ Waits([what |-> "clock"])'
  <2>1. CASE w.what = "empty"
    BY <1>1, <1>2, <2>1 DEF Waits
  <2>2. CASE w.what = "clock"
    <3>1. gameData' = GameData BY <1>3, <2>2 DEF Written
    <3>2. gameData'.time = now /\ gameData'.next = next BY <3>1 DEF GameData
    <3>3. now <= now BY DEF ClockInv
    <3> QED BY <1>1, <3>2, <3>3 DEF ClockSaved, LockInv, ReadyBy
  <2>3. CASE w.what \notin {"empty", "clock"}
    <3>1. gameData' = gameData BY <1>3, <1>5, <2>3 DEF Written
    <3>2. [what |-> "clock"] # w BY <2>3
    <3>3. ClockSaved => ClockSaved' BY <1>1, <3>1 DEF ClockSaved, ReadyBy
    <3> QED BY <1>4, <3>2, <3>3 DEF LastSave
  <2> QED BY <2>1, <2>2, <2>3
<1>10. ClockAfterEmpty(writes)' BY <1>1, <1>2 DEF ClockAfterEmpty
<1> QED BY <1>1, <1>6, <1>7, <1>8, <1>9, <1>10 DEF LastSave, PlayerWrite, EnemyWrite

\* When nothing waits, the tables hold the world.
LEMMA LastSaveEnds ==
  ASSUME BodyInv, WorldInv, LastSave, writes = <<>>
  PROVE  row = body /\ enemyRow = enemy /\ ClockSaved
<1>1. \A w : ~Waits(w) BY DEF Waits, ToSet
<1>2. row = body
  <2>1. row = [p \in Player |-> row[p]] /\ body = [p \in Player |-> body[p]] BY DEF BodyInv
  <2>2. \A p \in Player : row[p] = body[p] BY <1>1 DEF LastSave
  <2> HIDE DEF LastSave
  <2> QED BY <2>1, <2>2
<1>3. enemyRow = enemy
  <2>1. DOMAIN enemyRow = DOMAIN enemy /\ \A i \in DOMAIN enemy : enemyRow[i] = enemy[i]
    BY <1>1 DEF LastSave
  <2>2. enemyRow = [i \in DOMAIN enemyRow |-> enemyRow[i]] /\ enemy = [i \in DOMAIN enemy |-> enemy[i]]
    BY DEF WorldInv, WorldOK, EnemiesOK
  <2> QED BY <2>1, <2>2
<1> QED BY <1>1, <1>2, <1>3 DEF LastSave

LEMMA SavedStep ==
  ASSUME ClockInv, BodyInv, WorldInv, SavedInv, LockInv, [Next]_vars
  PROVE  SavedInv'
<1> USE DEF SavedInv
<1>1. CASE UNCHANGED vars
  BY <1>1 DEF vars, LastSave, ClockSaved, ReadyBy, Waits, ClockAfterEmpty, PlayerWrite, EnemyWrite
<1>2. CASE \E p \in Player : Idle(p) \/ PlayerAttack(p) \/ Enter(p) \/ Quit(p)
                               \/ Shutdown(p) \/ \E r \in Room : Move(p, r)
  <2>1. pc = "lines" /\ pc' = pc /\ mode # "down" /\ mode' # "down" /\ clean' = clean
    BY <1>2 DEF Idle, PlayerAttack, Enter, Quit, Shutdown, Move, Line, process
  <2> QED BY <2>1
<1>3. CASE BeginLoop \/ Fight \/ EndRound \/ Regen \/ Heal \/ Save \/ EndSave
  <2>1. pc' # "final" /\ mode # "down" /\ UNCHANGED <<mode, clean, crashes>>
    BY <1>3 DEF BeginLoop, Fight, EndRound, Regen, Heal, Save, EndSave, process
  <2> QED BY <2>1
<1>4. CASE EndLoop
  <2>1. UNCHANGED <<mode, clean, crashes>> /\ mode # "down" /\ (mode = "up" => pc' = "lines")
    BY <1>4 DEF EndLoop, process
  <2>2. mode # "up" => LastSave' BY <1>4, LastSaveBegins
  <2> QED BY <2>1, <2>2
<1>5. CASE Commit
  <2>1. UNCHANGED <<mode, clean, crashes, pc>> /\ mode # "down" BY <1>5 DEF Commit, process
  <2>2. pc = "final" /\ mode = "stopping" => LastSave' BY <1>5, LastSaveGoesOn
  <2> QED BY <2>1, <2>2
<1>6. CASE Halt
  <2>1. /\ mode = "stopping" /\ pc = "final" /\ writes = <<>> /\ mode' = "down" /\ clean' = TRUE
        /\ UNCHANGED <<crashes, pc, now, next, body, enemy, gameData, row, enemyRow>>
    BY <1>6 DEF Halt, clock, world, disk
  <2>2. row = body /\ enemyRow = enemy /\ ClockSaved BY <2>1, LastSaveEnds
  <2>3. ClockSaved' BY <2>1, <2>2 DEF ClockSaved, ReadyBy
  <2> QED BY <2>1, <2>2, <2>3
<1>7. CASE Crash
  <2>1. mode' = "down" /\ clean' = FALSE /\ crashes' = crashes + 1 BY <1>7 DEF Crash
  <2>2. crashes' # 0 BY <2>1, CombatAssumption DEF WorldInv
  <2> QED BY <2>1, <2>2
<1>8. CASE Start
  <2>1. mode' = "up" /\ clean' = FALSE /\ pc' = "lines" BY <1>8 DEF Start
  <2> QED BY <2>1
<1>9. CASE Tick
  <2>1. /\ now' = now + 1 /\ mode # "down"
        /\ UNCHANGED <<mode, clean, crashes, pc, next, writes, body, enemy, gameData, row, enemyRow>>
    BY <1>9 DEF Tick, process, world, disk
  <2>2. ClockSaved => ClockSaved'
    <3>1. now \in Nat /\ gameData.time \in Nat BY DEF ClockInv
    <3>2. gameData.time <= now => gameData.time <= now + 1 BY <3>1
    <3> QED BY <2>1, <3>2 DEF ClockSaved, ReadyBy
  <2>3. LastSave => LastSave'
    BY <2>1, <2>2 DEF LastSave, Waits, ClockAfterEmpty, PlayerWrite, EnemyWrite
  <2> QED BY <2>1, <2>3
<1> QED
  BY <1>1, <1>2, <1>3, <1>4, <1>5, <1>6, <1>7, <1>8, <1>9 DEF Next

CombatInv == ClockInv /\ BodyInv /\ WorldInv /\ SavedInv /\ LockInv

LEMMA CombatInvInit == ASSUME Init PROVE CombatInv
  BY ClockInit, BodyInit, WorldInit, RestartInit DEF CombatInv

LEMMA CombatInvStep == ASSUME CombatInv, [Next]_vars PROVE CombatInv'
  BY ClockStep, BodyStep, WorldStep, SavedStep, LockStep DEF CombatInv

\* Nobody waits longer than his weapon takes, for all speeds, fights and clean
\* restarts: the attack times saved never outrun the clock saved with them.
THEOREM AttackTimesAreNear == Spec => []NobodyIsLocked
<1>1. CombatInv => NobodyIsLocked
  BY DEF CombatInv, LockInv, ReadyBy, NobodyIsLocked
<1> QED
  BY CombatInvInit, CombatInvStep, <1>1, PTL DEF Spec

\* A shutdown and a start bring back the same world, whatever was killed,
\* spawned and saved before.
THEOREM ShutdownKeepsTheWorld == Spec => CleanRestart
<1>1. ASSUME CombatInv, [Next]_vars
      PROVE  [mode = "down" /\ mode' = "up" /\ clean =>
                enemy' = enemy /\ body' = body /\ next' = next /\ now' <= now]_vars
  <2>1. ASSUME Next, mode = "down", mode' = "up" PROVE Start
    BY <2>1 DEF Next, Idle, PlayerAttack, Enter, Quit, Shutdown, Move, Line, BeginLoop, Fight,
       EndRound, Regen, Heal, Save, EndSave, EndLoop, Commit, Halt, Crash, Tick
  <2>2. ASSUME Start, clean
        PROVE  enemy' = enemy /\ body' = body /\ next' = next /\ now' <= now
    <3>1. now' = gameData.time /\ next' = gameData.next /\ body' = row /\ enemy' = enemyRow
      BY <2>2 DEF Start
    <3> QED BY <1>1, <2>2, <3>1 DEF CombatInv, SavedInv, ClockSaved
  <2> QED BY <1>1, <2>1, <2>2
<1> QED
  BY CombatInvInit, CombatInvStep, <1>1, PTL DEF Spec, CleanRestart

-----------------------------------------------------------------------------
(* Maxima. *)

MaximumInv == crashes = 0 => \A r \in Room : Len(listed[r]) <= MaxEnemies[r]

LEMMA MaximumStep ==
  ASSUME CombatInv, MaximumInv, [Next]_vars
  PROVE  MaximumInv'
<1>1. /\ \A r \in Room : Len(listed[r]) \in Nat /\ MaxEnemies[r] \in Nat
      /\ crashes \in Nat /\ WorldOK(enemy, listed)
  BY LenProperties, CombatAssumption DEF CombatInv, WorldInv, WorldOK
<1>2. SUFFICES ASSUME crashes' = 0, NEW r \in Room PROVE Len(listed'[r]) <= MaxEnemies[r]
  BY DEF MaximumInv
<1>3. crashes = 0 /\ Len(listed[r]) <= MaxEnemies[r]
  <2>1. crashes' = crashes \/ crashes' = crashes + 1
    BY DEF Next, vars, Idle, PlayerAttack, Enter, Quit, Shutdown, Move, BeginLoop, Fight,
       EndRound, Regen, Heal, Save, EndSave, EndLoop, Commit, Halt, Crash, Start, Tick, process
  <2>2. crashes = 0 BY <1>1, <1>2, <2>1
  <2> QED BY <2>2 DEF MaximumInv
<1>4. CASE listed' = listed BY <1>3, <1>4
<1>5. CASE \E p \in Player : PlayerAttack(p)
  <2>1. PICK p \in Player : PlayerAttack(p) BY <1>5
  <2> DEFINE q == body[p].room
  <2>2. CASE ~UNCHANGED <<enemy, listed>>
    <3>1. PICK n \in Damage : Strike(Head(listed[q]), n) /\ listed[q] # <<>>
      BY <2>1, <2>2 DEF PlayerAttack
    <3>2. q \in Room BY DEF CombatInv, BodyInv, Body
    <3> HIDE DEF q
    <3>3. Len(listed'[r]) <= Len(listed[r]) /\ WorldOK(enemy', listed')
      BY <1>1, <3>1, <3>2, StrikeKeepsWorld
    <3>4. Len(listed'[r]) \in Nat BY <3>3, LenProperties DEF WorldOK
    <3> QED BY <1>1, <1>3, <3>3, <3>4
  <2> QED BY <1>4, <2>2
<1>6. CASE Regen
  <2>1. CASE PerformRegen
    <3>1. WorldOK(enemy', listed')
          /\ (Len(listed'[r]) <= Len(listed[r]) \/ Len(listed'[r]) <= MaxEnemies[r])
      BY <1>1, <2>1, RegenKeepsWorld
    <3>2. Len(listed'[r]) \in Nat BY <3>1, LenProperties DEF WorldOK
    <3> QED BY <1>1, <1>3, <3>1, <3>2
  <2> QED BY <1>4, <1>6, <2>1 DEF Regen
<1>7. CASE Crash
  <2>1. crashes' = crashes + 1 BY <1>7 DEF Crash
  <2> QED BY <1>1, <1>2, <2>1
<1>8. CASE Start
  <2>1. enemyRow = enemy BY <1>3, <1>8 DEF Start, CombatInv, SavedInv
  <2> DEFINE S == Housed(enemy, r)
             s == listed[r]
             t == listed'[r]
  <2>2. Listing(t, S) BY <1>8, <2>1, StartWorld DEF CombatInv
  <2>3. Listing(s, S) BY <1>1 DEF WorldOK
  <2>4. IsFiniteSet(S) BY <1>1, HousedIsFinite DEF WorldOK
  <2>5. Len(t) = Len(s)
    <3> HIDE DEF S, s, t
    <3> QED BY <2>2, <2>3, <2>4, ListingLen
  <2> QED BY <1>3, <2>5
<1>9. CASE ~(Crash \/ Start \/ Regen \/ \E p \in Player : PlayerAttack(p))
  <2>1. listed' = listed
    BY <1>9 DEF Next, vars, Idle, Enter, Quit, Shutdown, Move, BeginLoop, Fight,
       EndRound, Heal, Save, EndSave, EndLoop, Commit, Halt, Tick, world
  <2> QED BY <1>4, <2>1
<1> QED BY <1>5, <1>6, <1>7, <1>8, <1>9

\* No room exceeds its maximum, over kills, spawns and clean restarts, for any
\* maxima and any order in which the rows come back.
THEOREM MaximaAreKept == Spec => []RoomsKeepMaximum
<1>1. Init => MaximumInv
  <2> SUFFICES ASSUME Init, NEW r \in Room PROVE Len(listed[r]) <= MaxEnemies[r]
    BY DEF MaximumInv
  <2>1. listed[r] = <<>> /\ MaxEnemies[r] \in Nat BY CombatAssumption DEF Init
  <2> QED BY <2>1
<1>2. MaximumInv => RoomsKeepMaximum
  BY DEF MaximumInv, RoomsKeepMaximum
<1> QED
  BY CombatInvInit, CombatInvStep, MaximumStep, <1>1, <1>2, PTL DEF Spec

=============================================================================
