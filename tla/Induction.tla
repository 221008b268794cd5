----------------------------- MODULE Induction -----------------------------
(***************************************************************************)
(* Induction without a predicate as a parameter: over a set of numbers and *)
(* over the subsets of a finite set, each as a fact about a set that is    *)
(* closed under the step.  From that: what the folds of the community      *)
(* modules compute, and sequences that enumerate a finite set.             *)
(***************************************************************************)
EXTENDS Integers, SequencesExt, SequenceTheorems, FiniteSetTheorems, WellFoundedInduction, TLAPS

-----------------------------------------------------------------------------
(* Least elements and closed sets. *)

LEMMA MinimalSubset ==
  ASSUME NEW S, IsFiniteSet(S), NEW C \in SUBSET SUBSET S, C # {}
  PROVE  \E t \in C : \A u \in C : u \subseteq t => u = t
<1>1. IsWellFoundedOn(StrictSubsetOrdering(S), SUBSET S)
  BY FS_StrictSubsetOrderingWellFounded, FS_FiniteSubsetsOfFinite
<1>2. PICK t \in C : \A u \in C : ~ (<<u, t>> \in StrictSubsetOrdering(S))
  <2> DEFINE R == StrictSubsetOrdering(S)
  <2>1. IsWellFoundedOn(R, SUBSET S) BY <1>1
  <2> HIDE DEF R
  <2>2. \E t \in C : \A u \in C : ~ (<<u, t>> \in R) BY <2>1, WFMin
  <2> QED BY <2>2 DEF R
<1>3. \A u \in C : u \subseteq t => u = t BY <1>2 DEF StrictSubsetOrdering
<1> QED BY <1>3

LEMMA LeastNumber ==
  ASSUME NEW S \in SUBSET Nat, S # {}
  PROVE  \E n \in S : \A m \in S : n <= m
<1>1. PICK k \in S : TRUE OBVIOUS
<1> DEFINE C == {0 .. n : n \in {m \in S : m <= k}}
<1>2. IsFiniteSet(0 .. k) BY FS_Interval
<1>3. C \in SUBSET SUBSET (0 .. k) /\ C # {} BY <1>1
<1>4. PICK t \in C : \A u \in C : u \subseteq t => u = t
  <2> DEFINE I == 0 .. k
  <2>1. IsFiniteSet(I) /\ C \in SUBSET SUBSET I /\ C # {} BY <1>2, <1>3
  <2> HIDE DEF C, I
  <2> QED BY <2>1, MinimalSubset
<1>5. PICK n \in S : n <= k /\ t = 0 .. n BY <1>4
<1>6. ASSUME NEW m \in S, m < n PROVE FALSE
  <2>1. 0 .. m \in C /\ 0 .. m \subseteq 0 .. n BY <1>5, <1>6
  <2>2. 0 .. m = 0 .. n BY <1>4, <1>5, <2>1
  <2>3. n \in 0 .. m BY <2>2
  <2> QED BY <1>6, <2>3
<1> QED BY <1>5, <1>6

LEMMA NumbersByStep ==
  ASSUME NEW P \in SUBSET Nat, 0 \in P, \A n \in P : n + 1 \in P
  PROVE  P = Nat
<1> SUFFICES ASSUME P # Nat PROVE FALSE OBVIOUS
<1>1. PICK n \in Nat \ P : \A m \in Nat \ P : n <= m BY LeastNumber
<1>2. n # 0 /\ n - 1 \in Nat /\ ~ (n <= n - 1) BY <1>1
<1>3. n - 1 \in P BY <1>1, <1>2
<1>4. (n - 1) + 1 = n BY <1>1
<1> QED BY <1>1, <1>3, <1>4

LEMMA NumbersUpTo ==
  ASSUME NEW n \in Nat, NEW P, 0 \in P, \A k \in 0 .. n - 1 : k \in P => k + 1 \in P
  PROVE  \A k \in 0 .. n : k \in P
<1> DEFINE Q == {k \in Nat : k <= n => k \in P}
<1>1. 0 \in Q OBVIOUS
<1>2. ASSUME NEW k \in Q PROVE k + 1 \in Q
  <2>1. k \in Nat OBVIOUS
  <2>2. CASE k + 1 <= n
    <3>1. k \in 0 .. n - 1 /\ k \in P BY <2>1, <2>2
    <3> QED BY <2>1, <3>1
  <2>3. CASE ~(k + 1 <= n) BY <2>1, <2>3
  <2> QED BY <2>2, <2>3
<1>3. Q = Nat
  <2>1. Q \in SUBSET Nat OBVIOUS
  <2> HIDE DEF Q
  <2> QED BY <1>1, <1>2, <2>1, NumbersByStep
<1> QED BY <1>3

\* Recursion over numbers: step says how the value at k comes from the one
\* before it.
Iteration(g, n, base, step) ==
  g[0] = base /\ \A k \in 1 .. n : g[k] = step[<<k, g[k - 1]>>]

LEMMA Iterates ==
  ASSUME NEW n \in Nat, NEW V, NEW base \in V, NEW step,
         \A k \in 1 .. n : \A v \in V : step[<<k, v>>] \in V
  PROVE  \E g \in [0 .. n -> V] : Iteration(g, n, base, step)
<1> DEFINE Good(k, g) == g[0] = base /\ \A i \in 1 .. k : g[i] = step[<<i, g[i - 1]>>]
           P == {k \in 0 .. n : \E g \in [0 .. k -> V] : Good(k, g)}
<1>1. 0 \in P
  <2> DEFINE b == [i \in 0 .. 0 |-> base]
  <2>1. b \in [0 .. 0 -> V] /\ Good(0, b) /\ 0 \in 0 .. n OBVIOUS
  <2> HIDE DEF b
  <2> QED BY <2>1
<1>2. ASSUME NEW k \in 0 .. n - 1, k \in P PROVE k + 1 \in P
  <2>1. PICK g \in [0 .. k -> V] : Good(k, g) BY <1>2
  <2> DEFINE h == [i \in 0 .. k + 1 |-> IF i = k + 1 THEN step[<<k + 1, g[k]>>] ELSE g[i]]
  <2>2. k \in Nat /\ k + 1 \in 1 .. n OBVIOUS
  <2>3. h \in [0 .. k + 1 -> V]
    <3> SUFFICES ASSUME NEW i \in 0 .. k + 1 PROVE h[i] \in V OBVIOUS
    <3>1. CASE i = k + 1
      <4>1. g[k] \in V BY <2>2
      <4> QED BY <2>2, <3>1, <4>1
    <3>2. CASE i # k + 1
      <4>1. i \in 0 .. k BY <2>2, <3>2
      <4> QED BY <3>2, <4>1
    <3> QED BY <3>1, <3>2
  <2>4. h[0] = base BY <2>1, <2>2
  <2>5. ASSUME NEW i \in 1 .. k + 1 PROVE h[i] = step[<<i, h[i - 1]>>]
    <3>1. i - 1 \in 0 .. k /\ i - 1 # k + 1 /\ h[i - 1] = g[i - 1] BY <2>2
    <3>2. CASE i = k + 1
      <4>1. i - 1 = k /\ h[i] = step[<<k + 1, g[k]>>] BY <2>2, <3>2
      <4> HIDE DEF h
      <4> QED BY <3>1, <3>2, <4>1
    <3>3. CASE i # k + 1
      <4>1. i \in 1 .. k /\ h[i] = g[i] BY <2>2, <3>3
      <4> HIDE DEF h
      <4> QED BY <2>1, <3>1, <4>1
    <3> QED BY <3>2, <3>3
  <2> HIDE DEF h
  <2>6. k + 1 \in 0 .. n BY <2>2
  <2> QED BY <2>3, <2>4, <2>5, <2>6
<1>3. n \in P
  <2> HIDE DEF P
  <2> QED BY <1>1, <1>2, NumbersUpTo
<1> QED BY <1>3 DEF Iteration

LEMMA SetsByElement ==
  ASSUME NEW S, IsFiniteSet(S), NEW C \in SUBSET SUBSET S, {} \in C,
         \A t \in C : \A x \in S \ t : t \cup {x} \in C
  PROVE  S \in C
<1> DEFINE D == {t \in SUBSET S : S \ t \in C}
<1>1. S \in D
  <2>1. S \ S = {} OBVIOUS
  <2> QED BY <2>1
<1>2. PICK t \in D : \A u \in D : u \subseteq t => u = t
  <2>1. D \in SUBSET SUBSET S /\ D # {} BY <1>1
  <2> HIDE DEF D
  <2> QED BY <2>1, MinimalSubset
<1>3. CASE t = {}
  <2>1. S \ {} = S OBVIOUS
  <2> QED BY <1>2, <1>3, <2>1
<1>4. ASSUME NEW x \in t PROVE FALSE
  <2>1. S \ (t \ {x}) = (S \ t) \cup {x} BY <1>4, <1>2
  <2>2. x \in S /\ x \notin S \ t /\ S \ t \in C BY <1>4, <1>2
  <2>3. (S \ t) \cup {x} \in C BY <2>2
  <2>4. t \ {x} \in D BY <1>2, <2>1, <2>3
  <2>5. t \ {x} = t BY <1>2, <2>4
  <2> QED BY <1>4, <2>5
<1> QED BY <1>3, <1>4

-----------------------------------------------------------------------------
(* Recursion over subsets.  pick chooses an element of a subset, and step   *)
(* says what it adds to the value of the rest.                              *)

Unfolds(g, S, base, pick, step) ==
  \A t \in SUBSET S :
    g[t] = IF t = {} THEN base ELSE step[<<pick[t], g[t \ {pick[t]}]>>]

LEMMA UnfoldsOnce ==
  ASSUME NEW S, IsFiniteSet(S), NEW base, NEW pick, NEW step, NEW g, NEW h,
         \A t \in SUBSET S : t # {} => pick[t] \in t,
         Unfolds(g, S, base, pick, step), Unfolds(h, S, base, pick, step)
  PROVE  g[S] = h[S]
<1> DEFINE D == {t \in SUBSET S : g[t] # h[t]}
<1> SUFFICES ASSUME D # {} PROVE FALSE OBVIOUS
<1>1. PICK t \in D : \A u \in D : u \subseteq t => u = t
  <2>1. D \in SUBSET SUBSET S OBVIOUS
  <2> HIDE DEF D
  <2> QED BY <2>1, MinimalSubset
<1>2. t # {} BY <1>1 DEF Unfolds
<1>3. pick[t] \in t BY <1>1, <1>2
<1>4. t \ {pick[t]} \in SUBSET S /\ t \ {pick[t]} \notin D BY <1>1, <1>3
<1>5. g[t \ {pick[t]}] = h[t \ {pick[t]}] BY <1>4
<1> QED BY <1>1, <1>2, <1>5 DEF Unfolds

LEMMA FoldExists ==
  ASSUME NEW S, IsFiniteSet(S), NEW V, NEW base \in V, NEW pick, NEW step,
         \A t \in SUBSET S : t # {} => pick[t] \in t,
         \A x \in S : \A v \in V : step[<<x, v>>] \in V
  PROVE  \E g \in [SUBSET S -> V] : Unfolds(g, S, base, pick, step)
<1> DEFINE Good(t) == \E g \in [SUBSET t -> V] : Unfolds(g, t, base, pick, step)
           D == {t \in SUBSET S : ~Good(t)}
<1> SUFFICES ASSUME D # {} PROVE FALSE OBVIOUS
<1>1. PICK t \in D : \A u \in D : u \subseteq t => u = t
  <2>1. D \in SUBSET SUBSET S OBVIOUS
  <2> HIDE DEF D
  <2> QED BY <2>1, MinimalSubset
<1> DEFINE G(u) == CHOOSE g \in [SUBSET u -> V] : Unfolds(g, u, base, pick, step)
           h == [u \in SUBSET t |->
                   IF u = {} THEN base ELSE step[<<pick[u], G(u \ {pick[u]})[u \ {pick[u]}]>>]]
<1>2. ASSUME NEW u \in SUBSET t, u # t
      PROVE  G(u) \in [SUBSET u -> V] /\ Unfolds(G(u), u, base, pick, step)
  <2>1. u \in SUBSET S /\ u \notin D BY <1>1, <1>2
  <2>2. Good(u) BY <2>1
  <2> QED BY <2>2
<1> HIDE DEF G
<1>3. ASSUME NEW u \in SUBSET t, u # {}
      PROVE  pick[u] \in u /\ u \ {pick[u]} \in SUBSET t /\ u \ {pick[u]} # t
  BY <1>1, <1>3
<1>4. ASSUME NEW u \in SUBSET t, u # {}
      PROVE  G(u \ {pick[u]})[u \ {pick[u]}] \in V
  <2> DEFINE r == u \ {pick[u]}
  <2>1. r \in SUBSET t /\ r # t BY <1>3, <1>4
  <2> HIDE DEF r
  <2>2. G(r) \in [SUBSET r -> V] BY <1>2, <2>1
  <2>3. G(r)[r] \in V BY <2>2
  <2> QED BY <2>3 DEF r
<1>5. h \in [SUBSET t -> V]
  <2> SUFFICES ASSUME NEW u \in SUBSET t PROVE h[u] \in V OBVIOUS
  <2>1. CASE u = {} BY <2>1
  <2>2. CASE u # {}
    <3>1. pick[u] \in S BY <1>1, <1>3, <2>2
    <3>2. h[u] = step[<<pick[u], G(u \ {pick[u]})[u \ {pick[u]}]>>] BY <2>2
    <3> QED BY <1>4, <2>2, <3>1, <3>2
  <2> QED BY <2>1, <2>2
<1>6. ASSUME NEW u \in SUBSET t, u # t PROVE h[u] = G(u)[u]
  <2>1. Unfolds(G(u), u, base, pick, step) BY <1>2, <1>6
  <2>2. CASE u = {} BY <2>1, <2>2 DEF Unfolds
  <2>3. CASE u # {}
    <3> DEFINE r == u \ {pick[u]}
    <3>1. r \in SUBSET t /\ r # t /\ r \in SUBSET u BY <1>3, <2>3
    <3>2. Unfolds(G(r), r, base, pick, step) BY <1>2, <3>1
    <3>3. Unfolds(G(u), r, base, pick, step) BY <2>1, <3>1 DEF Unfolds
    <3>4. IsFiniteSet(r) /\ \A s \in SUBSET r : s # {} => pick[s] \in s
      BY <1>1, <3>1, FS_Subset
    <3>5. h[u] = step[<<pick[u], G(r)[r]>>] BY <2>3
    <3>6. G(u)[u] = step[<<pick[u], G(u)[r]>>] BY <2>1, <2>3 DEF Unfolds
    <3> HIDE DEF r
    <3>7. G(r)[r] = G(u)[r] BY <3>2, <3>3, <3>4, UnfoldsOnce
    <3> QED BY <3>5, <3>6, <3>7
  <2> QED BY <2>2, <2>3
<1>7. Unfolds(h, t, base, pick, step)
  <2> SUFFICES ASSUME NEW u \in SUBSET t
               PROVE  h[u] = IF u = {} THEN base ELSE step[<<pick[u], h[u \ {pick[u]}]>>]
    BY DEF Unfolds
  <2>1. CASE u = {} BY <2>1
  <2>2. CASE u # {}
    <3>1. h[u \ {pick[u]}] = G(u \ {pick[u]})[u \ {pick[u]}] BY <1>3, <1>6, <2>2
    <3>2. h[u] = step[<<pick[u], G(u \ {pick[u]})[u \ {pick[u]}]>>] BY <2>2
    <3> QED BY <2>2, <3>1, <3>2
  <2> QED BY <2>1, <2>2
<1> HIDE DEF h
<1> QED BY <1>1, <1>5, <1>7
-----------------------------------------------------------------------------
(* Sums over finite sets. *)

SumOver(f, S) == SumFunctionOnSet(f, S)
IntegersOn(f, S) == \A x \in S : f[x] \in Int
Totals(g, f, S) ==
  /\ g \in [SUBSET S -> Int] /\ g[{}] = 0
  /\ \A t \in SUBSET S : t # {} => \E x \in t : g[t] = f[x] + g[t \ {x}]
  /\ \A t \in SUBSET S : SumOver(f, t) = g[t]

\* One function has the sums over all subsets of a set.
LEMMA SumsOfSubsets ==
  ASSUME NEW S, IsFiniteSet(S), NEW f, IntegersOn(f, S)
  PROVE  \E g : Totals(g, f, S)
<1> DEFINE pick == [t \in SUBSET S |-> CHOOSE x \in t : TRUE]
           step == [xv \in S \X Int |-> f[xv[1]] + xv[2]]
<1>1. \A t \in SUBSET S : t # {} => pick[t] \in t OBVIOUS
<1>2. \A x \in S : \A v \in Int : step[<<x, v>>] = f[x] + v /\ step[<<x, v>>] \in Int
  BY DEF IntegersOn
<1>3. PICK g \in [SUBSET S -> Int] : Unfolds(g, S, 0, pick, step)
  <2> DEFINE V == Int
  <2>1. 0 \in V /\ \A x \in S : \A v \in V : step[<<x, v>>] \in V
    <3>1. 0 \in Int OBVIOUS
    <3> HIDE DEF step
    <3> QED BY <1>2, <3>1
  <2> HIDE DEF pick, step, V
  <2>2. \E g \in [SUBSET S -> V] : Unfolds(g, S, 0, pick, step) BY <1>1, <2>1, FoldExists
  <2> QED BY <2>2 DEF V
<1>4. ASSUME NEW t \in SUBSET S
      PROVE  g[t] = IF t = {} THEN 0
                    ELSE f[CHOOSE x \in t : TRUE] + g[t \ {CHOOSE x \in t : TRUE}]
  <2>1. CASE t = {} BY <1>3, <2>1 DEF Unfolds
  <2>2. CASE t # {}
    <3>1. pick[t] = (CHOOSE x \in t : TRUE) /\ pick[t] \in S BY <1>1, <2>2
    <3>2. g[t] = step[<<pick[t], g[t \ {pick[t]}]>>] BY <1>3, <2>2 DEF Unfolds
    <3>3. t \ {pick[t]} \in SUBSET S OBVIOUS
    <3>4. g[t \ {pick[t]}] \in Int BY <3>3
    <3> HIDE DEF pick, step
    <3>5. g[t] = f[pick[t]] + g[t \ {pick[t]}] BY <1>2, <3>1, <3>2, <3>4
    <3> QED BY <2>2, <3>1, <3>5
  <2> QED BY <2>1, <2>2
<1>5. ASSUME NEW u \in SUBSET S PROVE SumOver(f, u) = g[u]
  <2> DEFINE F(h) == [t \in SUBSET u |->
                        IF t = {} THEN 0
                        ELSE f[CHOOSE x \in t : TRUE] + h[t \ {CHOOSE x \in t : TRUE}]]
             k == [t \in SUBSET u |-> g[t]]
             h == CHOOSE h : h = F(h)
  <2>1. SumOver(f, u) = h[u]
    BY Zenon DEF SumOver, SumFunctionOnSet, FoldFunctionOnSet, MapThenFoldSet
  <2>2. k = F(k)
    <3> SUFFICES ASSUME NEW t \in SUBSET u PROVE k[t] = F(k)[t] OBVIOUS
    <3>1. t \in SUBSET S /\ k[t] = g[t] OBVIOUS
    <3>2. t \ {CHOOSE x \in t : TRUE} \in SUBSET u OBVIOUS
    <3>3. k[t \ {CHOOSE x \in t : TRUE}] = g[t \ {CHOOSE x \in t : TRUE}] BY <3>2
    <3> HIDE DEF k
    <3> QED BY <1>4, <3>1, <3>3
  <2>3. h = F(h) BY <2>2
  <2> HIDE DEF h, k
  <2> DEFINE D == {t \in SUBSET u : h[t] # g[t]}
  <2>4. SUFFICES ASSUME D # {} PROVE FALSE BY <2>1
  <2>5. PICK t \in D : \A w \in D : w \subseteq t => w = t
    <3>1. D \in SUBSET SUBSET u /\ IsFiniteSet(u) BY FS_Subset
    <3> HIDE DEF D
    <3> QED BY <2>4, <3>1, MinimalSubset
  <2>6. t \in SUBSET S /\ t \in SUBSET u /\ h[t] # g[t] BY <2>5
  <2>7. h[t] = IF t = {} THEN 0
               ELSE f[CHOOSE x \in t : TRUE] + h[t \ {CHOOSE x \in t : TRUE}]
    <3>1. h[t] = F(h)[t] BY <2>3
    <3> QED BY <2>6, <3>1
  <2>8. t # {} BY <1>4, <2>6, <2>7
  <2>9. PICK x \in t : x = CHOOSE y \in t : TRUE BY <2>8
  <2>10. t \ {x} \in SUBSET u /\ t \ {x} \notin D BY <2>5
  <2>11. h[t \ {x}] = g[t \ {x}] BY <2>10
  <2> QED BY <1>4, <2>6, <2>7, <2>8, <2>9, <2>11
<1>6. g[{}] = 0 BY <1>4
<1>7. \A t \in SUBSET S : t # {} => \E x \in t : g[t] = f[x] + g[t \ {x}]
  <2> SUFFICES ASSUME NEW t \in SUBSET S, t # {} PROVE \E x \in t : g[t] = f[x] + g[t \ {x}]
    OBVIOUS
  <2>1. PICK x \in t : x = CHOOSE y \in t : TRUE OBVIOUS
  <2> QED BY <1>4, <2>1
<1> QED BY <1>5, <1>6, <1>7 DEF Totals

LEMMA SumEmpty == ASSUME NEW f PROVE SumOver(f, {}) = 0
<1>1. IsFiniteSet({}) BY FS_EmptySet
<1>2. IntegersOn(f, {}) BY DEF IntegersOn
<1>3. {} \in SUBSET {} OBVIOUS
<1>4. PICK g : Totals(g, f, {}) BY <1>1, <1>2, SumsOfSubsets
<1> QED BY <1>3, <1>4 DEF Totals

\* Any element may be taken out first.
LEMMA SumElement ==
  ASSUME NEW S, IsFiniteSet(S), NEW f, \A x \in S : f[x] \in Int, NEW x \in S
  PROVE  SumOver(f, S) = f[x] + SumOver(f, S \ {x})
<1>1. PICK g \in [SUBSET S -> Int] :
        /\ \A t \in SUBSET S : t # {} => \E y \in t : g[t] = f[y] + g[t \ {y}]
        /\ \A t \in SUBSET S : SumOver(f, t) = g[t]
  <2>1. IntegersOn(f, S) BY DEF IntegersOn
  <2>2. \E g : Totals(g, f, S) BY <2>1, SumsOfSubsets
  <2> QED BY <2>2 DEF Totals
<1> DEFINE D == {t \in SUBSET S : \E y \in t : g[t] # f[y] + g[t \ {y}]}
<1>2. D = {}
  <2> SUFFICES ASSUME D # {} PROVE FALSE OBVIOUS
  <2>1. PICK t \in D : \A w \in D : w \subseteq t => w = t
    <3>1. D \in SUBSET SUBSET S OBVIOUS
    <3> HIDE DEF D
    <3> QED BY <3>1, MinimalSubset
  <2>2. PICK z \in t : g[t] # f[z] + g[t \ {z}] BY <2>1
  <2>3. PICK y \in t : g[t] = f[y] + g[t \ {y}] BY <1>1, <2>1
  <2>4. y # z BY <2>2, <2>3
  <2>5. t \ {y} \notin D /\ t \ {z} \notin D BY <2>1
  <2>6. t \in SUBSET S BY <2>1
  <2>7. g[t \ {y}] = f[z] + g[(t \ {y}) \ {z}] BY <2>4, <2>5, <2>6
  <2>8. g[t \ {z}] = f[y] + g[(t \ {z}) \ {y}] BY <2>4, <2>5, <2>6
  <2>9. (t \ {z}) \ {y} = (t \ {y}) \ {z} OBVIOUS
  <2>10. f[y] \in Int /\ f[z] \in Int BY <2>6
  <2>11. g[(t \ {y}) \ {z}] \in Int
    <3>1. (t \ {y}) \ {z} \in SUBSET S BY <2>6
    <3> QED BY <3>1
  <2> DEFINE a == f[y]
             b == f[z]
             c == g[(t \ {y}) \ {z}]
  <2>12. a \in Int /\ b \in Int /\ c \in Int BY <2>10, <2>11
  <2>13. g[t] = a + (b + c) BY <2>3, <2>7
  <2>14. g[t] # b + (a + c) BY <2>2, <2>8, <2>9
  <2> HIDE DEF a, b, c, D
  <2> QED BY <2>12, <2>13, <2>14
<1>3. S \in SUBSET S /\ S \ {x} \in SUBSET S OBVIOUS
<1>4. S \notin D BY <1>2
<1>5. g[S] = f[x] + g[S \ {x}] BY <1>3, <1>4
<1> QED BY <1>1, <1>3, <1>5

LEMMA SumType ==
  ASSUME NEW S, IsFiniteSet(S), NEW f, \A x \in S : f[x] \in Int
  PROVE  SumOver(f, S) \in Int
<1>1. IntegersOn(f, S) BY DEF IntegersOn
<1>2. PICK g : Totals(g, f, S) BY <1>1, SumsOfSubsets
<1>3. S \in SUBSET S OBVIOUS
<1> QED BY <1>2, <1>3 DEF Totals

LEMMA SumSame ==
  ASSUME NEW S, IsFiniteSet(S), NEW f, NEW g,
         \A x \in S : f[x] \in Int /\ g[x] = f[x]
  PROVE  SumOver(g, S) = SumOver(f, S)
<1> DEFINE C == {t \in SUBSET S : SumOver(g, t) = SumOver(f, t)}
<1>1. {} \in C BY SumEmpty
<1>2. ASSUME NEW t \in C, NEW x \in S \ t PROVE t \cup {x} \in C
  <2> DEFINE u == t \cup {x}
  <2>1. u \in SUBSET S /\ x \in u /\ u \ {x} = t BY <1>2
  <2>2. IsFiniteSet(u) BY <2>1, FS_Subset
  <2> HIDE DEF u
  <2>3. SumOver(f, u) = f[x] + SumOver(f, t) BY <2>1, <2>2, SumElement
  <2>4. \A y \in u : g[y] \in Int BY <2>1
  <2>5. SumOver(g, u) = g[x] + SumOver(g, t) BY <2>1, <2>2, <2>4, SumElement
  <2>6. SumOver(g, u) = SumOver(f, u) BY <1>2, <2>3, <2>5
  <2> QED BY <2>1, <2>6 DEF u
<1>3. S \in C
  <2> HIDE DEF C
  <2>1. C \in SUBSET SUBSET S BY DEF C
  <2> QED BY <1>1, <1>2, <2>1, SetsByElement
<1> QED BY <1>3

\* A change at one place.
LEMMA SumChange ==
  ASSUME NEW S, IsFiniteSet(S), NEW f, NEW g, NEW x \in S,
         \A y \in S : f[y] \in Int /\ g[y] \in Int,
         \A y \in S \ {x} : g[y] = f[y]
  PROVE  SumOver(g, S) = SumOver(f, S) - f[x] + g[x]
<1>1. IsFiniteSet(S \ {x}) BY FS_Subset
<1>2. SumOver(g, S \ {x}) = SumOver(f, S \ {x}) BY <1>1, SumSame
<1>3. SumOver(f, S) = f[x] + SumOver(f, S \ {x}) BY SumElement
<1>4. SumOver(g, S) = g[x] + SumOver(g, S \ {x}) BY SumElement
<1>5. SumOver(f, S \ {x}) \in Int BY <1>1, SumType
<1>6. f[x] \in Int /\ g[x] \in Int OBVIOUS
<1> QED BY <1>2, <1>3, <1>4, <1>5, <1>6

\* The same summands under other names.
LEMMA SumRenamed ==
  ASSUME NEW S, IsFiniteSet(S), NEW T, NEW f, NEW g, NEW b \in [S -> T],
         \A x, y \in S : b[x] = b[y] => x = y,
         \A z \in T : \E x \in S : b[x] = z,
         \A x \in S : f[x] \in Int /\ g[b[x]] = f[x]
  PROVE  SumOver(g, T) = SumOver(f, S)
<1> DEFINE C == {t \in SUBSET S : SumOver(g, {b[x] : x \in t}) = SumOver(f, t)}
<1>1. {} \in C
  <2>1. {b[x] : x \in {}} = {} OBVIOUS
  <2> QED BY <2>1, SumEmpty
<1>2. ASSUME NEW t \in C, NEW x \in S \ t PROVE t \cup {x} \in C
  <2> DEFINE u == t \cup {x}
             v == {b[y] : y \in u}
  <2>1. u \in SUBSET S /\ x \in u /\ u \ {x} = t BY <1>2
  <2>2. IsFiniteSet(u) BY <2>1, FS_Subset
  <2>3. b[x] \in v /\ v \ {b[x]} = {b[y] : y \in t} BY <2>1, <1>2
  <2>4. IsFiniteSet(v)
    <3>1. [y \in u |-> b[y]] \in Surjection(u, v) BY DEF Surjection
    <3> QED BY <2>2, <3>1, FS_Surjection
  <2>5. \A z \in v : g[z] \in Int BY <2>1
  <2>6. SumOver(f, u) = f[x] + SumOver(f, t)
    <3> HIDE DEF u, v
    <3> QED BY <2>1, <2>2, SumElement
  <2>7. SumOver(g, v) = g[b[x]] + SumOver(g, v \ {b[x]})
    <3> HIDE DEF u, v
    <3> QED BY <2>3, <2>4, <2>5, SumElement
  <2>8. SumOver(g, v) = SumOver(f, u) BY <1>2, <2>3, <2>6, <2>7
  <2> QED BY <2>1, <2>8
<1>3. S \in C
  <2> HIDE DEF C
  <2>1. C \in SUBSET SUBSET S BY DEF C
  <2> QED BY <1>1, <1>2, <2>1, SetsByElement
<1>4. {b[x] : x \in S} = T OBVIOUS
<1> QED BY <1>3, <1>4

-----------------------------------------------------------------------------
(* Sequences that list a finite set. *)

\* s names every element of S once.
Listing(s, S) ==
  /\ s \in Seq(S) /\ ToSet(s) = S
  /\ \A i, j \in 1 .. Len(s) : s[i] = s[j] => i = j

LEMMA LeastIsMin ==
  ASSUME NEW S \in SUBSET Nat, S # {}
  PROVE  Min(S) \in S /\ \A m \in S : Min(S) <= m
BY LeastNumber DEF Min

LEMMA GreatestIsMax ==
  ASSUME NEW S \in SUBSET Nat, IsFiniteSet(S), S # {}
  PROVE  Max(S) \in S /\ \A m \in S : m <= Max(S)
<1> DEFINE C == {t \in SUBSET S : t = {} \/ \E n \in t : \A m \in t : m <= n}
<1>1. {} \in C OBVIOUS
<1>2. ASSUME NEW t \in C, NEW x \in S \ t PROVE t \cup {x} \in C
  <2>1. CASE t = {} BY <1>2, <2>1
  <2>2. ASSUME NEW n \in t, \A m \in t : m <= n PROVE t \cup {x} \in C
    <3>1. n \in Nat /\ x \in Nat /\ t \subseteq Nat BY <1>2
    <3>2. CASE x <= n BY <2>2, <3>1, <3>2
    <3>3. CASE n < x BY <2>2, <3>1, <3>3
    <3> QED BY <3>1, <3>2, <3>3
  <2> QED BY <1>2, <2>1, <2>2
<1>3. S \in C
  <2>1. C \in SUBSET SUBSET S OBVIOUS
  <2> HIDE DEF C
  <2> QED BY <1>1, <1>2, <2>1, SetsByElement
<1>4. \E n \in S : \A m \in S : m <= n BY <1>3
<1> QED BY <1>4 DEF Max

LEMMA ListingLen ==
  ASSUME NEW S, IsFiniteSet(S), NEW s, Listing(s, S)
  PROVE  Len(s) = Cardinality(S)
<1>1. s \in Seq(S) /\ Len(s) \in Nat /\ s \in [1 .. Len(s) -> S] BY LenProperties DEF Listing
<1>2. s \in Bijection(1 .. Len(s), S)
  BY <1>1 DEF Listing, ToSet, Bijection, Injection, Surjection, IsInjective
<1>3. ExistsBijection(1 .. Len(s), S) BY <1>2 DEF ExistsBijection
<1>4. IsFiniteSet(1 .. Len(s)) /\ Cardinality(1 .. Len(s)) = Len(s) BY <1>1, FS_Interval
<1> QED BY <1>3, <1>4, FS_Bijection

LEMMA OrderIsListing ==
  ASSUME NEW S, IsFiniteSet(S), NEW s \in SetToSeqs(S)
  PROVE  Listing(s, S)
<1> DEFINE n == Cardinality(S)
<1>1. n \in Nat BY FS_CardinalityType
<1>2. s \in [1 .. n -> S] /\ \A i, j \in 1 .. n : i # j => s[i] # s[j] BY DEF SetToSeqs
<1> HIDE DEF n
<1>3. s \in Seq(S) /\ Len(s) = n BY <1>1, <1>2, SeqDef
<1>4. s \in Injection(1 .. n, S) BY <1>2 DEF Injection, IsInjective
<1>5. IsFiniteSet(1 .. n) /\ Cardinality(1 .. n) = n BY <1>1, FS_Interval
<1>6. s \in Surjection(1 .. n, S) BY <1>4, <1>5, FS_Injection DEF n
<1>7. ToSet(s) = S BY <1>2, <1>6 DEF ToSet, Surjection
<1> QED BY <1>2, <1>3, <1>7 DEF Listing

LEMMA ListingIsOrder ==
  ASSUME NEW S, IsFiniteSet(S), NEW s, Listing(s, S)
  PROVE  s \in SetToSeqs(S)
<1>1. s \in [1 .. Len(s) -> S] BY LenProperties DEF Listing
<1> QED BY <1>1, ListingLen DEF Listing, SetToSeqs

LEMMA SetToSeqIsListing ==
  ASSUME NEW S, IsFiniteSet(S)
  PROVE  Listing(SetToSeq(S), S)
<1> DEFINE n == Cardinality(S)
<1>1. n \in Nat /\ ExistsBijection(1 .. n, S) BY FS_CardinalityType
<1>2. \E f \in [1 .. n -> S] : IsInjective(f)
  BY <1>1 DEF ExistsBijection, Bijection, Injection
<1>3. SetToSeq(S) \in [1 .. n -> S] /\ IsInjective(SetToSeq(S)) BY <1>2 DEF SetToSeq
<1>4. SetToSeq(S) \in SetToSeqs(S) BY <1>3 DEF SetToSeqs, IsInjective
<1> QED BY <1>4, OrderIsListing

LEMMA ListingEmpty == ASSUME NEW s, Listing(s, {}) PROVE s = <<>>
BY EmptySeq, LenProperties DEF Listing

LEMMA EmptyIsListing == Listing(<<>>, {})
BY DEF Listing, ToSet

LEMMA ListingAppend ==
  ASSUME NEW S, NEW s, Listing(s, S), NEW x, x \notin S
  PROVE  Listing(Append(s, x), S \cup {x}) /\ Len(Append(s, x)) = Len(s) + 1
<1> DEFINE T == S \cup {x}
           a == Append(s, x)
<1>1. s \in Seq(S) /\ s \in Seq(T) /\ x \in T /\ Len(s) \in Nat
  BY SeqDef, LenProperties DEF Listing
<1>2. /\ a \in Seq(T) /\ Len(a) = Len(s) + 1 /\ a[Len(s) + 1] = x
      /\ \A i \in 1 .. Len(s) : a[i] = s[i]
  BY <1>1, AppendProperties
<1> HIDE DEF a
<1>3. \A i \in 1 .. Len(s) : s[i] \in S BY <1>1, ElementOfSeq
<1>4. DOMAIN s = 1 .. Len(s) /\ DOMAIN a = 1 .. Len(s) + 1 BY <1>1, <1>2, LenProperties
<1>5. ToSet(a) = T
  <2>1. \A i \in 1 .. Len(s) + 1 : a[i] \in T BY <1>1, <1>2, <1>3
  <2>2. ASSUME NEW y \in S PROVE y \in ToSet(a)
    <3>1. PICK i \in 1 .. Len(s) : y = s[i] BY <1>4 DEF Listing, ToSet
    <3>2. i \in 1 .. Len(s) + 1 /\ a[i] = y BY <1>1, <1>2, <3>1
    <3> QED BY <1>4, <3>2 DEF ToSet
  <2>3. x \in ToSet(a)
    <3>1. Len(s) + 1 \in 1 .. Len(s) + 1 BY <1>1
    <3> QED BY <1>2, <1>4, <3>1 DEF ToSet
  <2> QED BY <1>4, <2>1, <2>2, <2>3 DEF ToSet
<1>6. ASSUME NEW i \in 1 .. Len(s) + 1, NEW j \in 1 .. Len(s) + 1, a[i] = a[j] PROVE i = j
  <2>1. CASE i \in 1 .. Len(s) /\ j \in 1 .. Len(s) BY <1>2, <1>6, <2>1 DEF Listing
  <2>2. CASE i = Len(s) + 1 \/ j = Len(s) + 1 BY <1>1, <1>2, <1>3, <1>6, <2>2
  <2> QED BY <1>1, <2>1, <2>2
<1>7. Listing(a, T) BY <1>2, <1>5, <1>6 DEF Listing
<1> QED BY <1>2, <1>7 DEF a

LEMMA ListingTail ==
  ASSUME NEW S, NEW s, Listing(s, S), s # <<>>
  PROVE  Head(s) \in S /\ Listing(Tail(s), S \ {Head(s)})
<1>1. s \in Seq(S) /\ Len(s) \in Nat \ {0} /\ DOMAIN s = 1 .. Len(s)
  BY EmptySeq, LenProperties DEF Listing
<1>2. Head(s) = s[1] /\ s[1] \in S BY <1>1, ElementOfSeq, HeadTailProperties
<1>3. Tail(s) \in Seq(S) /\ Len(Tail(s)) = Len(s) - 1 /\ \A i \in 1 .. Len(s) - 1 : Tail(s)[i] = s[i + 1]
  BY <1>1, HeadTailProperties
<1> DEFINE t == Tail(s)
<1>4. DOMAIN t = 1 .. Len(s) - 1 BY <1>3, LenProperties
<1> HIDE DEF t
<1>5. ToSet(t) = S \ {s[1]}
  <2>1. ASSUME NEW i \in 1 .. Len(s) - 1 PROVE t[i] \in S \ {s[1]}
    <3>1. t[i] = s[i + 1] /\ i + 1 \in 1 .. Len(s) /\ i + 1 # 1 /\ 1 \in 1 .. Len(s)
      BY <1>1, <1>3 DEF t
    <3> QED BY <1>1, <3>1, ElementOfSeq DEF Listing
  <2>2. ASSUME NEW y \in S \ {s[1]} PROVE \E i \in 1 .. Len(s) - 1 : y = t[i]
    <3>1. PICK i \in 1 .. Len(s) : y = s[i] BY <1>1 DEF Listing, ToSet
    <3>2. i - 1 \in 1 .. Len(s) - 1 /\ (i - 1) + 1 = i BY <1>1, <2>2, <3>1
    <3>3. t[i - 1] = s[i] BY <1>3, <3>2 DEF t
    <3> QED BY <3>1, <3>2, <3>3
  <2> QED BY <1>4, <2>1, <2>2 DEF ToSet
<1>6. t \in Seq(S \ {s[1]})
  <2>1. \A i \in 1 .. Len(t) : t[i] \in S \ {s[1]}
    BY <1>3, <1>4, <1>5 DEF ToSet, t
  <2>2. t \in Seq(S) BY <1>3 DEF t
  <2> QED BY <2>1, <2>2, SeqDef, LenProperties
<1>7. \A i, j \in 1 .. Len(t) : t[i] = t[j] => i = j
  <2> SUFFICES ASSUME NEW i \in 1 .. Len(s) - 1, NEW j \in 1 .. Len(s) - 1, t[i] = t[j]
               PROVE  i = j
    BY <1>3 DEF t
  <2>1. s[i + 1] = s[j + 1] BY <1>3 DEF t
  <2>2. i + 1 \in 1 .. Len(s) /\ j + 1 \in 1 .. Len(s) BY <1>1
  <2>3. i + 1 = j + 1 BY <2>1, <2>2 DEF Listing
  <2> QED BY <2>3
<1> QED BY <1>2, <1>5, <1>6, <1>7 DEF Listing, t

\* r is s without its entry k.
TakenAt(s, k, r) ==
  /\ k \in 1 .. Len(s) /\ Len(r) = Len(s) - 1
  /\ \A i \in 1 .. Len(s) - 1 : r[i] = IF i < k THEN s[i] ELSE s[i + 1]

LEMMA RemoveAtWithout ==
  ASSUME NEW S, NEW s \in Seq(S), NEW k \in 1 .. Len(s)
  PROVE  RemoveAt(s, k) \in Seq(S) /\ TakenAt(s, k, RemoveAt(s, k))
<1> DEFINE n == Len(s)
           r == RemoveAt(s, k)
<1>1. Len(s) \in Nat /\ DOMAIN s = 1 .. Len(s) BY LenProperties
<1>2. k \in 1 .. Len(s) OBVIOUS
<1>7. SubSeq(s, 1, k - 1) \in Seq(S) /\ Len(SubSeq(s, 1, k - 1)) = k - 1
      /\ \A i \in 1 .. k - 1 : SubSeq(s, 1, k - 1)[i] = s[i]
  BY <1>1, <1>2, SubSeqProperties
<1>8. SubSeq(s, k + 1, n) \in Seq(S) /\ Len(SubSeq(s, k + 1, n)) = n - k
      /\ \A i \in 1 .. n - k : SubSeq(s, k + 1, n)[i] = s[k + i]
  <2>1. k + 1 \in 1 .. n + 1 /\ k \in Nat /\ n \in Nat BY <1>1, <1>2
  <2>2. \A j \in k + 1 .. n : s[j] \in S BY <1>1, <2>1, ElementOfSeq
  <2>3. n - (k + 1) + 1 = n - k /\ \A i \in 1 .. n - k : (k + 1) + i - 1 = k + i BY <2>1
  <2>4. CASE k = n
    <3>1. k + 1 > n /\ n - k = 0 BY <2>1, <2>4
    <3>2. SubSeq(s, k + 1, n) = <<>> BY <1>1, <2>1, <3>1, SubSeqProperties
    <3> QED BY <3>1, <3>2
  <2>5. CASE k < n
    <3>1. k + 1 \in 1 .. n /\ n \in k + 1 .. n BY <2>1, <2>5
    <3> HIDE DEF n
    <3> QED BY <1>1, <2>1, <2>2, <2>3, <3>1, SubSeqProperties DEF n
  <2>6. k = n \/ k < n BY <1>2, <2>1
  <2> HIDE DEF n
  <2> QED BY <2>4, <2>5, <2>6
<1>9. /\ r \in Seq(S) /\ Len(r) = n - 1
      /\ \A i \in 1 .. n - 1 : r[i] = IF i < k THEN s[i] ELSE s[i + 1]
  <2> DEFINE a == SubSeq(s, 1, k - 1)
             b == SubSeq(s, k + 1, n)
  <2>1. r = a \o b BY DEF RemoveAt
  <2> HIDE DEF r
  <2>2. a \in Seq(S) /\ Len(a) = k - 1 /\ \A i \in 1 .. k - 1 : a[i] = s[i] BY <1>7
  <2>3. b \in Seq(S) /\ Len(b) = n - k /\ \A i \in 1 .. n - k : b[i] = s[k + i] BY <1>8
  <2> HIDE DEF a, b
  <2>4. /\ r \in Seq(S) /\ Len(r) = Len(a) + Len(b)
        /\ \A i \in 1 .. Len(a) + Len(b) : r[i] = IF i <= Len(a) THEN a[i] ELSE b[i - Len(a)]
    BY <2>1, <2>2, <2>3, ConcatProperties
  <2>5. Len(r) = n - 1 BY <1>1, <2>2, <2>3, <2>4
  <2>6. ASSUME NEW i \in 1 .. n - 1 PROVE r[i] = IF i < k THEN s[i] ELSE s[i + 1]
    <3>0. i \in 1 .. Len(a) + Len(b) /\ k \in Nat /\ n \in Nat BY <1>1, <1>2, <2>2, <2>3
    <3>1. CASE i < k
      <4>1. i <= Len(a) /\ i \in 1 .. k - 1 BY <2>2, <3>0, <3>1
      <4> QED BY <2>2, <2>4, <3>0, <3>1, <4>1
    <3>2. CASE ~(i < k)
      <4>1. i - (k - 1) \in 1 .. n - k /\ k + (i - (k - 1)) = i + 1 BY <1>1, <3>2
      <4>2. ~(i <= Len(a)) BY <2>2, <3>0, <3>2
      <4>5. r[i] = b[i - (k - 1)] BY <2>2, <2>4, <3>0, <4>2
      <4>3. b[i - (k - 1)] = s[k + (i - (k - 1))] BY <2>3, <4>1
      <4> QED BY <3>2, <4>1, <4>5, <4>3
    <3> QED BY <3>1, <3>2
  <2> QED BY <2>4, <2>5, <2>6
<1> QED BY <1>9 DEF r, TakenAt

LEMMA TailWithout ==
  ASSUME NEW S, NEW s \in Seq(S), s # <<>>
  PROVE  Tail(s) \in Seq(S) /\ TakenAt(s, 1, Tail(s))
<1>1. Len(s) \in Nat \ {0} BY EmptySeq, LenProperties
<1>2. /\ Tail(s) \in Seq(S) /\ Len(Tail(s)) = Len(s) - 1
      /\ \A i \in 1 .. Len(s) - 1 : Tail(s)[i] = s[i + 1]
  BY <1>1, HeadTailProperties
<1> QED BY <1>1, <1>2 DEF TakenAt

LEMMA RemoveFirstWithout ==
  ASSUME NEW S, NEW s \in Seq(S), NEW x \in ToSet(s)
  PROVE  RemoveFirst(s, x) \in Seq(S) /\ \E k \in 1 .. Len(s) : s[k] = x /\ TakenAt(s, k, RemoveFirst(s, x))
<1> DEFINE I == {i \in 1 .. Len(s) : s[i] = x}
           k == SelectInSeq(s, LAMBDA v : v = x)
<1>1. Len(s) \in Nat /\ DOMAIN s = 1 .. Len(s) BY LenProperties
<1>2. I # {} /\ I \in SUBSET Nat BY <1>1 DEF ToSet
<1>3. k = IF I # {} THEN Min(I) ELSE 0 BY Zenon DEF SelectInSeq
<1>4. Min(I) \in I
  <2> HIDE DEF I
  <2> QED BY <1>2, LeastIsMin
<1>5. RemoveFirst(s, x) = RemoveAt(s, k) BY <1>2 DEF RemoveFirst
<1>6. k \in 1 .. Len(s) /\ s[k] = x
  <2> HIDE DEF k
  <2> QED BY <1>2, <1>3, <1>4
<1> HIDE DEF k
<1> QED BY <1>5, <1>6, RemoveAtWithout

LEMMA SumWithout ==
  ASSUME NEW n \in Nat, NEW k \in 1 .. n, NEW f, NEW g,
         \A i \in 1 .. n : f[i] \in Int,
         \A i \in 1 .. n - 1 : g[i] = IF i < k THEN f[i] ELSE f[i + 1]
  PROVE  SumOver(f, 1 .. n) = f[k] + SumOver(g, 1 .. n - 1)
<1> DEFINE S == 1 .. n - 1
           T == (1 .. n) \ {k}
           b == [i \in S |-> IF i < k THEN i ELSE i + 1]
<1>1. IsFiniteSet(1 .. n) /\ IsFiniteSet(S) BY FS_Interval
<1>2. SumOver(f, 1 .. n) = f[k] + SumOver(f, T) BY <1>1, SumElement
<1>3. b \in [S -> T] OBVIOUS
<1>4. \A i, j \in S : b[i] = b[j] => i = j OBVIOUS
<1>5. ASSUME NEW j \in T PROVE \E i \in S : b[i] = j
  <2>1. CASE j < k
    <3>1. j \in S /\ b[j] = j BY <2>1
    <3> QED BY <3>1
  <2>2. CASE ~(j < k)
    <3>1. j - 1 \in S /\ b[j - 1] = j BY <2>2
    <3> QED BY <3>1
  <2> QED BY <2>1, <2>2
<1>6. \A i \in S : g[i] \in Int /\ f[b[i]] = g[i] OBVIOUS
<1>7. SumOver(f, T) = SumOver(g, S)
  <2> HIDE DEF S, T, b
  <2> QED BY <1>1, <1>3, <1>4, <1>5, <1>6, SumRenamed
<1> QED BY <1>2, <1>7

\* What erases the first x erases all there is of it.
LEMMA ListingRemove ==
  ASSUME NEW S, NEW s, Listing(s, S), NEW x \in S
  PROVE  Listing(RemoveFirst(s, x), S \ {x}) /\ Len(RemoveFirst(s, x)) = Len(s) - 1
<1> DEFINE n == Len(s)
           r == RemoveFirst(s, x)
<1>1. s \in Seq(S) /\ Len(s) \in Nat /\ DOMAIN s = 1 .. Len(s) BY LenProperties DEF Listing
<1>2. r \in Seq(S) /\ \E k \in 1 .. Len(s) : s[k] = x /\ TakenAt(s, k, r)
  BY <1>1, RemoveFirstWithout DEF Listing
<1>3. PICK k \in 1 .. Len(s) : s[k] = x /\ TakenAt(s, k, r) BY <1>2
<1> HIDE DEF r
<1>9. /\ r \in Seq(S) /\ Len(r) = n - 1
      /\ \A i \in 1 .. n - 1 : r[i] = IF i < k THEN s[i] ELSE s[i + 1]
  BY <1>2, <1>3 DEF TakenAt
<1>10. DOMAIN r = 1 .. n - 1 BY <1>9, LenProperties
<1>11. ASSUME NEW i \in 1 .. n - 1 PROVE r[i] \in S \ {x}
  <2>1. CASE i < k
    <3>1. r[i] = s[i] /\ i \in 1 .. n /\ i # k BY <1>1, <1>9, <2>1
    <3> QED BY <1>1, <1>3, <3>1, ElementOfSeq DEF Listing
  <2>2. CASE ~(i < k)
    <3>1. r[i] = s[i + 1] /\ i + 1 \in 1 .. n /\ i + 1 # k BY <1>1, <1>9, <2>2
    <3> QED BY <1>1, <1>3, <3>1, ElementOfSeq DEF Listing
  <2> QED BY <2>1, <2>2
<1>12. ASSUME NEW y \in S \ {x} PROVE \E i \in 1 .. n - 1 : r[i] = y
  <2>1. PICK j \in 1 .. n : s[j] = y BY <1>1 DEF Listing, ToSet
  <2>2. j # k BY <1>3, <1>12, <2>1
  <2>3. CASE j < k
    <3>1. j \in 1 .. n - 1 BY <1>1, <2>3
    <3> QED BY <1>9, <2>1, <2>3, <3>1
  <2>4. CASE j > k
    <3>1. j - 1 \in 1 .. n - 1 /\ ~(j - 1 < k) /\ (j - 1) + 1 = j BY <1>1, <2>4
    <3>2. r[j - 1] = s[(j - 1) + 1] BY <1>9, <3>1
    <3> QED BY <2>1, <3>1, <3>2
  <2> QED BY <1>1, <2>2, <2>3, <2>4
<1>13. ToSet(r) = S \ {x} BY <1>10, <1>11, <1>12 DEF ToSet
<1>14. r \in Seq(S \ {x})
  <2>1. r \in [1 .. n - 1 -> S \ {x}]
    <3>1. r \in [1 .. Len(r) -> S] BY <1>9, LenProperties
    <3>2. r \in [1 .. n - 1 -> S] BY <1>9, <3>1
    <3> QED BY <1>11, <3>2
  <2>2. n - 1 \in Nat BY <1>1, <1>3
  <2> HIDE DEF n
  <2> QED BY <2>1, <2>2, SeqDef
<1>15. ASSUME NEW i \in 1 .. n - 1, NEW j \in 1 .. n - 1, r[i] = r[j] PROVE i = j
  <2> DEFINE at(m) == IF m < k THEN m ELSE m + 1
  <2>1. at(i) \in 1 .. n /\ at(j) \in 1 .. n /\ r[i] = s[at(i)] /\ r[j] = s[at(j)]
    BY <1>1, <1>9
  <2>2. at(i) = at(j)
    <3> HIDE DEF at
    <3> QED BY <1>15, <2>1 DEF Listing
  <2> QED BY <1>1, <2>2
<1> QED BY <1>9, <1>13, <1>14, <1>15 DEF Listing, r

\* A finite set of numbers can be listed in increasing order.
Increasing(s) == \A i, j \in DOMAIN s : i < j => s[i] < s[j]

LEMMA IncreasingListing ==
  ASSUME NEW S, S \subseteq Nat, IsFiniteSet(S)
  PROVE  \E s \in SetToSeqs(S) : Increasing(s)
<1> DEFINE D == {t \in SUBSET S : ~\E s : Listing(s, t) /\ Increasing(s)}
<1>1. D = {}
  <2> SUFFICES ASSUME D # {} PROVE FALSE OBVIOUS
  <2>1. PICK t \in D : \A u \in D : u \subseteq t => u = t
    <3> DEFINE T == S
    <3>1. IsFiniteSet(T) /\ D \in SUBSET SUBSET T /\ D # {} OBVIOUS
    <3> HIDE DEF D, T
    <3> QED BY <3>1, MinimalSubset
  <2>2. t # {}
    <3>1. Listing(<<>>, {}) /\ Increasing(<<>>) BY EmptyIsListing DEF Increasing
    <3> QED BY <2>1, <3>1
  <2> DEFINE m == Max(t)
             u == t \ {m}
  <2>3. t \in SUBSET Nat /\ IsFiniteSet(t) BY <2>1, FS_Subset
  <2>4. m \in t /\ \A k \in t : k <= m BY <2>2, <2>3, GreatestIsMax
  <2> HIDE DEF m
  <2>5. u \notin D /\ u \in SUBSET S BY <2>1, <2>4
  <2>6. PICK s : Listing(s, u) /\ Increasing(s) BY <2>5
  <2>7. u \cup {m} = t /\ m \notin u /\ \A k \in u : k < m BY <2>3, <2>4
  <2> HIDE DEF u
  <2> DEFINE a == Append(s, m)
  <2>8. Listing(a, t) /\ Len(a) = Len(s) + 1 BY <2>6, <2>7, ListingAppend
  <2>9. Increasing(a)
    <3>1. s \in Seq(u) /\ Len(s) \in Nat BY <2>6, LenProperties DEF Listing
    <3>2. /\ a[Len(s) + 1] = m /\ \A i \in 1 .. Len(s) : a[i] = s[i] /\ s[i] \in u
          /\ DOMAIN a = 1 .. Len(s) + 1 /\ DOMAIN s = 1 .. Len(s)
      BY <2>8, <3>1, AppendProperties, ElementOfSeq, LenProperties DEF Listing
    <3> HIDE DEF a
    <3> SUFFICES ASSUME NEW i \in 1 .. Len(s) + 1, NEW j \in 1 .. Len(s) + 1, i < j
                 PROVE  a[i] < a[j]
      BY <3>2 DEF Increasing
    <3>3. i \in 1 .. Len(s) BY <3>1
    <3>4. CASE j = Len(s) + 1 BY <2>7, <3>2, <3>3, <3>4
    <3>5. CASE j \in 1 .. Len(s) BY <2>6, <3>2, <3>3, <3>5 DEF Increasing
    <3> QED BY <3>1, <3>4, <3>5
  <2> HIDE DEF a
  <2> QED BY <2>1, <2>8, <2>9
<1>2. PICK s : Listing(s, S) /\ Increasing(s) BY <1>1
<1> QED BY <1>2, ListingIsOrder

LEMMA ListingType ==
  ASSUME NEW S, NEW s, Listing(s, S), NEW T, S \subseteq T
  PROVE  s \in Seq(T)
BY SeqDef DEF Listing

LEMMA ToSetConcat ==
  ASSUME NEW S, NEW a \in Seq(S), NEW b \in Seq(S)
  PROVE  ToSet(a \o b) = ToSet(a) \cup ToSet(b)
<1> DEFINE c == a \o b
<1>1. /\ c \in Seq(S) /\ Len(c) = Len(a) + Len(b)
      /\ \A i \in 1 .. Len(a) + Len(b) : c[i] = IF i <= Len(a) THEN a[i] ELSE b[i - Len(a)]
  BY ConcatProperties
<1> HIDE DEF c
<1>2. /\ DOMAIN a = 1 .. Len(a) /\ DOMAIN b = 1 .. Len(b) /\ DOMAIN c = 1 .. Len(c)
      /\ Len(a) \in Nat /\ Len(b) \in Nat
  BY <1>1, LenProperties
<1>3. ASSUME NEW i \in DOMAIN c PROVE c[i] \in ToSet(a) \cup ToSet(b)
  <2>1. CASE i <= Len(a)
    <3>1. i \in DOMAIN a /\ c[i] = a[i] BY <1>1, <1>2, <2>1
    <3> QED BY <3>1 DEF ToSet
  <2>2. CASE ~(i <= Len(a))
    <3>1. i - Len(a) \in DOMAIN b /\ c[i] = b[i - Len(a)] BY <1>1, <1>2, <2>2
    <3> QED BY <3>1 DEF ToSet
  <2> QED BY <2>1, <2>2
<1>4. ASSUME NEW i \in DOMAIN a PROVE a[i] \in ToSet(c)
  <2>1. i \in DOMAIN c /\ c[i] = a[i] BY <1>1, <1>2
  <2> QED BY <2>1 DEF ToSet
<1>5. ASSUME NEW i \in DOMAIN b PROVE b[i] \in ToSet(c)
  <2>1. i + Len(a) \in DOMAIN c /\ c[i + Len(a)] = b[i]
    <3>1. i + Len(a) \in 1 .. Len(a) + Len(b) /\ ~(i + Len(a) <= Len(a)) /\ (i + Len(a)) - Len(a) = i
      BY <1>2
    <3> QED BY <1>1, <1>2, <3>1
  <2> QED BY <2>1 DEF ToSet
<1>6. ToSet(c) = ToSet(a) \cup ToSet(b) BY <1>3, <1>4, <1>5 DEF ToSet
<1> QED BY <1>6 DEF c

LEMMA ToSetTail ==
  ASSUME NEW S, NEW s \in Seq(S), s # <<>>
  PROVE  /\ Head(s) \in S /\ Tail(s) \in Seq(S)
         /\ ToSet(s) = {Head(s)} \cup ToSet(Tail(s))
<1> DEFINE t == Tail(s)
<1>1. Len(s) \in Nat \ {0} /\ DOMAIN s = 1 .. Len(s) BY EmptySeq, LenProperties
<1>2. /\ Head(s) = s[1] /\ s[1] \in S /\ t \in Seq(S) /\ Len(t) = Len(s) - 1
      /\ \A i \in 1 .. Len(s) - 1 : t[i] = s[i + 1]
  BY <1>1, ElementOfSeq, HeadTailProperties
<1>3. DOMAIN t = 1 .. Len(s) - 1 BY <1>2, LenProperties
<1> HIDE DEF t
<1>4. ASSUME NEW i \in DOMAIN s, i # 1 PROVE s[i] \in ToSet(t)
  <2>1. i - 1 \in DOMAIN t /\ t[i - 1] = s[i]
    <3>1. i - 1 \in 1 .. Len(s) - 1 /\ (i - 1) + 1 = i BY <1>1, <1>4
    <3> QED BY <1>2, <1>3, <3>1
  <2> QED BY <2>1 DEF ToSet
<1>5. ASSUME NEW i \in DOMAIN t PROVE t[i] \in ToSet(s)
  <2>1. i + 1 \in DOMAIN s /\ t[i] = s[i + 1] BY <1>1, <1>2, <1>3
  <2> QED BY <2>1 DEF ToSet
<1>6. 1 \in DOMAIN s BY <1>1
<1>7. ToSet(s) = {s[1]} \cup ToSet(t) BY <1>4, <1>5, <1>6 DEF ToSet
<1> QED BY <1>2, <1>7 DEF t
=============================================================================
