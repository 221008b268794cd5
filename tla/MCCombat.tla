------------------------------ MODULE MCCombat ------------------------------
(***************************************************************************)
(* A small instance of Combat for TLC, and beside it the algorithms of     *)
(* Entities on small inputs: `trial' is the game or one of those inputs.   *)
(***************************************************************************)
EXTENDS Combat

CONSTANTS p1, r1, r2

OneEachRoom == [r \in Room |-> 1]
CorruptAway == [r \in Room |-> IF r = r1 THEN 0 ELSE 1]
Ticks == [t \in Timers |-> IF t \in {"round", "save"} THEN 2 ELSE 1]

VARIABLE trial

MaxEntities == 6
Chars == {"s", "t", Space}
Texts(lengths) == UNION {[1 .. n -> Chars] : n \in lengths}
Trial ==
  [of : {"ids"}, ids : SUBSET (1 .. MaxEntities)]
    \cup [of : {"name"}, names : Texts(1 .. 4) \X Texts(1 .. 2), search : Texts(0 .. 2),
          qualified : SUBSET (1 .. 2)]

TrialNext ==
  /\ UNCHANGED trial
  /\ IF trial.of = "game" THEN Next ELSE UNCHANGED vars

TrialInit == Init /\ trial \in Trial \cup [of : {"game"}]

TrialSpec == TrialInit /\ [][TrialNext]_<<vars, trial>>

\* The id given to a new entity is the least one not in use: it is nobody's,
\* and the walk never runs off the end of the map.
OpenIdIsLeastFree ==
  trial.of = "ids" => FindOpenID(trial.ids) = Min((1 .. MaxEntities + 1) \ trial.ids)

\* What is typed reaches the first of those in question who is called so, and
\* only if nobody is the first with a word that begins so, how often the letters
\* may come up inside words before.
SearchIsByName ==
  trial.of = "name" =>
    Reaches(DoubleFind(trial.names, trial.search, trial.qualified),
            trial.names, trial.search, trial.qualified)
=============================================================================
