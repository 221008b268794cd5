---------------------------- MODULE MCBelongings ----------------------------
(* Small instances of Belongings for TLC. *)
EXTENDS Belongings

CONSTANTS p1, p2, knife, jacket, potion

OneEach == [k \in Item |-> 1]
NoDrop == {<<>>}
Drops == {<<>>} \cup {<<k>> : k \in Item} \cup {<<k, k>> : k \in Weapons}
=============================================================================
