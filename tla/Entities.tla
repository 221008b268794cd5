------------------------------ MODULE Entities ------------------------------
(***************************************************************************)
(* What every database of entities offers: a free id, and the search for   *)
(* an entity by its name or by the beginning of a word of it.              *)
(***************************************************************************)
EXTENDS Integers, SequencesExt

Space == " "   \* the character between words

-----------------------------------------------------------------------------
(* Ids. *)

\* Variant: the walk answers with the last id of the run.
OpenAfterLast(ids) ==
  LET walk[previous \in 0 .. Max(ids)] ==
        IF previous = Max(ids) THEN 0
        ELSE IF Min({i \in ids : i > previous}) # previous + 1 THEN previous
        ELSE walk[previous + 1]
  IN  walk[0]

\* The walk through the map up to the first id that does not follow the one
\* before it.  There is no test for the end of the map: 0 is to have gone
\* beyond it.
OpenAfter(ids) ==
  LET walk[previous \in 0 .. Max(ids)] ==
        IF previous = Max(ids) THEN 0
        ELSE IF Min({i \in ids : i > previous}) # previous + 1 THEN previous + 1
        ELSE walk[previous + 1]
  IN  walk[0]

FindOpenID(ids) ==
  IF ids = {} THEN 1
  ELSE IF Cardinality(ids) = Max(ids) THEN Cardinality(ids) + 1
  ELSE OpenAfter(ids)

-----------------------------------------------------------------------------
(* Names, as sequences of characters in one case. *)

\* Where search begins in name.
Positions(name, search) ==
  {i \in 1 .. Len(name) - Len(search) + 1 : SubSeq(name, i, i + Len(search) - 1) = search}

WordStart(name, i) == i = 1 \/ name[i - 1] = Space

MatchFull(name, search) == name = search

\* Entity::Match: as many passes as it takes.
Match(name, search) ==
  LET pass[from \in 1 .. Len(name) + 1] ==
        LET found == {i \in Positions(name, search) : i >= from}
        IN  found # {} /\ (WordStart(name, Min(found)) \/ pass[Min(found) + 1])
  IN  search = <<>> \/ pass[1]

\* Variant: the first that matches at all.
FindOnce(names, search, qualified) ==
  LET matching == {i \in qualified : MatchFull(names[i], search) \/ Match(names[i], search)}
  IN  IF matching = {} THEN 0 ELSE Min(matching)

\* double_find_if: a pass for the whole name and one for its parts, over the
\* entities in their order.  0 is the end.
DoubleFind(names, search, qualified) ==
  LET full == {i \in qualified : MatchFull(names[i], search)}
      partial == {i \in qualified : Match(names[i], search)}
  IN  IF full # {} THEN Min(full) ELSE IF partial # {} THEN Min(partial) ELSE 0

-----------------------------------------------------------------------------
(* What a search promises. *)

\* The words of a name: from its start, and after every space.
Words(name) == {SubSeq(name, i, Len(name)) : i \in {k \in 1 .. Len(name) : WordStart(name, k)}}

BeginsWord(search, name) == search = <<>> \/ \E w \in Words(name) : IsPrefix(search, w)

\* The first that has the name, and if none has it the first with a word that
\* begins so.
Reaches(found, names, search, qualified) ==
  LET named == {i \in qualified : names[i] = search}
      begun == {i \in qualified : BeginsWord(search, names[i])}
  IN  /\ found = 0 <=> begun = {}
      /\ found # 0 => found \in begun
      /\ named # {} => found \in named /\ \A i \in named : found <= i
      /\ named = {} => \A i \in begun : found <= i
=============================================================================
