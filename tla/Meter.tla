-------------------------------- MODULE Meter --------------------------------
(***************************************************************************)
(* What the connection manager promises about input: in one period a       *)
(* client is given an allowance of bytes, and the read that exceeds it is  *)
(* its last.                                                               *)
(***************************************************************************)
EXTENDS Naturals

CONSTANTS Allowance, MaxRead

VARIABLES connected, used

metered == <<connected, used>>

MeterTypeOK == connected \in BOOLEAN /\ used \in Nat

Init == connected = FALSE /\ used = 0

Join == ~connected /\ connected' = TRUE /\ used' = 0

Take(n) == connected /\ used + n <= Allowance /\ used' = used + n /\ UNCHANGED connected

Refuse(n) == connected /\ used + n > Allowance /\ used' = used + n /\ connected' = FALSE

\* Quitting, hanging up, being kicked.
Leave == connected /\ connected' = FALSE /\ UNCHANGED used

Period == used' = 0 /\ UNCHANGED connected

Next ==
  \/ Join \/ Leave \/ Period
  \/ \E n \in 1 .. MaxRead : Take(n) \/ Refuse(n)

Spec == Init /\ [][Next]_metered

WithinAllowance == connected => used <= Allowance
=============================================================================
