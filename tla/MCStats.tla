------------------------------ MODULE MCStats ------------------------------
EXTENDS Stats, TLC

CONSTANTS baton, jacket, potion

With(f) == f @@ [a \in Attribute |-> 0]

\* Stability Baton, Sync Jacket and Quick Restore Shot of the item table.
Shipped ==
  (baton :> With(("HEALTH" :> 1) @@ ("ACCURACY" :> 10) @@ ("DAMAGEABSORB" :> 1)))
  @@ (jacket :> With("DODGING" :> 10))
  @@ (potion :> [a \in Attribute |-> 0])

Levels == <<0, 1, 2>>
============================================================================
