----------------------------- MODULE MCSession -----------------------------
EXTENDS Session, TLC

CONSTANTS a1, a2, r1, r2
OneAdmin == (a1 :> ADMIN) @@ [p \in Account |-> REGULAR]
TwoWay == {e \in Room \X Room : e[1] # e[2]}
============================================================================
