------------------------------- MODULE Seats -------------------------------
(***************************************************************************)
(* What the session core promises, without handlers, flags or passes:      *)
(* every connection waits in the lobby, sits in the seat of one account,   *)
(* or is gone.  Taking a seat evicts whoever sat in it in the same step,   *)
(* and a connection that is gone never plays again.                        *)
(***************************************************************************)
EXTENDS Naturals

CONSTANTS Account, Conn

VARIABLE seat

Outside == {"unborn", "lobby", "gone"}

SeatsTypeOK == seat \in [Conn -> Account \cup Outside]

Init == seat = [c \in Conn |-> "unborn"]

Arrive(c) ==
  /\ seat[c] = "unborn"
  /\ \E s \in {"lobby", "gone"} : seat' = [seat EXCEPT ![c] = s]

\* A login, or a takeover when somebody plays the account already.
TakeSeat(c, p) ==
  /\ seat[c] = "lobby"
  /\ seat' = [d \in Conn |-> IF d = c THEN p
                             ELSE IF seat[d] = p THEN "gone" ELSE seat[d]]

\* Quitting, being kicked, hanging up, flooding.
Leave(c) == seat[c] # "unborn" /\ seat' = [seat EXCEPT ![c] = "gone"]

Next == \E c \in Conn : Arrive(c) \/ Leave(c) \/ \E p \in Account : TakeSeat(c, p)

Spec == Init /\ [][Next]_seat

\* Two connections never sit in the seat of one account.
OneSeatPerAccount ==
  \A c, d \in Conn : seat[c] = seat[d] /\ seat[c] \in Account => c = d
=============================================================================
