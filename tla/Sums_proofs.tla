------------------------------- MODULE Sums_proofs -------------------------------
(***************************************************************************)
(* What a sum over a finite set is, and the income report as a sum over    *)
(* the chains.  The proofs about RollChains, Income and NetWorth use it.   *)
(***************************************************************************)
EXTENDS IncomeReport, FiniteSetTheorems, TLAPS

(***************************************************************************)
(* Sums.  The community modules' SumFunctionOnSet is a recursive function   *)
(* on the subsets of a set: that there is one, and what it adds up, comes   *)
(* from the well-foundedness of strict inclusion.                           *)
(***************************************************************************)
\* Induction over the subsets of a finite set, by a least counterexample.
LEMMA LeastSubset ==
  ASSUME NEW S, IsFiniteSet(S), NEW T, T \subseteq SUBSET S, T # {}
  PROVE \E m \in T : \A t \in T : t \subseteq m => t = m
<1>1. IsWellFoundedOn(StrictSubsetOrdering(S), SUBSET S)
  BY FS_StrictSubsetOrderingWellFounded, FS_FiniteSubsetsOfFinite
<1>2. \E m \in T : \A t \in T : ~(<<t, m>> \in StrictSubsetOrdering(S))
  BY <1>1, WFMin
<1>3. ASSUME NEW m \in T, NEW t \in T, t \subseteq m, t # m
      PROVE <<t, m>> \in StrictSubsetOrdering(S)
  BY <1>3 DEF StrictSubsetOrdering
<1> QED BY <1>2, <1>3

AnyOf(s) == CHOOSE x \in s : TRUE

\* g gives every subset of S the sum of f over it.
Adds(g, f, S) ==
  g = [s \in SUBSET S |-> IF s = {} THEN 0 ELSE f[AnyOf(s)] + g[s \ {AnyOf(s)}]]

\* SumFunctionOnSet, unfolded, is such a function's value at S.
LEMMA SumIsChosen ==
  ASSUME NEW f, NEW S PROVE SumFunctionOnSet(f, S) = (CHOOSE g : Adds(g, f, S))[S]
BY DEF SumFunctionOnSet, FoldFunctionOnSet, MapThenFoldSet, Adds, AnyOf

\* What AnyOf picks can be taken away.
LEMMA Picked == ASSUME NEW s, s # {} PROVE AnyOf(s) \in s /\ s \ {AnyOf(s)} \subseteq s /\ s \ {AnyOf(s)} # s
<1>1. AnyOf(s) \in s BY DEF AnyOf
<1> QED BY <1>1

\* A function that adds up over S does so over every subset.
LEMMA AddsBelow ==
  ASSUME NEW f, NEW S, NEW R \in SUBSET S, NEW g, Adds(g, f, S)
  PROVE Adds([s \in SUBSET R |-> g[s]], f, R)
<1> DEFINE h == [s \in SUBSET R |-> g[s]]
<1>1. ASSUME NEW s \in SUBSET R
      PROVE h[s] = IF s = {} THEN 0 ELSE f[AnyOf(s)] + h[s \ {AnyOf(s)}]
  <2>1. s \in SUBSET S OBVIOUS
  <2>2. g[s] = IF s = {} THEN 0 ELSE f[AnyOf(s)] + g[s \ {AnyOf(s)}] BY <2>1 DEF Adds
  <2>3. s \ {AnyOf(s)} \in SUBSET R OBVIOUS
  <2> QED BY <2>2, <2>3
<1> HIDE DEF AnyOf
<1> QED BY <1>1 DEF Adds

\* There is at most one.
LEMMA AddsOnce ==
  ASSUME NEW f, NEW S, IsFiniteSet(S), NEW g, NEW h, Adds(g, f, S), Adds(h, f, S)
  PROVE g = h
<1> DEFINE T == {s \in SUBSET S : g[s] # h[s]}
<1>1. ASSUME T # {} PROVE FALSE
  <2>0. T \subseteq SUBSET S OBVIOUS
  <2>1. PICK m \in T : \A t \in T : t \subseteq m => t = m
    <3> HIDE DEF T
    <3> QED BY <1>1, <2>0, LeastSubset
  <2>2. /\ g[m] = IF m = {} THEN 0 ELSE f[AnyOf(m)] + g[m \ {AnyOf(m)}]
        /\ h[m] = IF m = {} THEN 0 ELSE f[AnyOf(m)] + h[m \ {AnyOf(m)}]
    BY DEF Adds
  <2>3. CASE m = {} BY <2>2, <2>3
  <2>4. CASE m # {}
    <3>1. m \ {AnyOf(m)} \in SUBSET S /\ m \ {AnyOf(m)} \notin T BY <2>1, <2>4, Picked
    <3> QED BY <2>2, <2>4, <3>1
  <2> QED BY <2>3, <2>4
<1>2. \A s \in SUBSET S : g[s] = h[s] BY <1>1
<1>3. g = [s \in SUBSET S |-> g[s]] /\ h = [s \in SUBSET S |-> h[s]] BY DEF Adds
<1> QED BY <1>2, <1>3

\* There is one: built from those of the smaller sets.
LEMMA AddsExists ==
  ASSUME NEW f, NEW S, IsFiniteSet(S) PROVE \E g : Adds(g, f, S)
<1> DEFINE T == {s \in SUBSET S : ~ \E g : Adds(g, f, s)}
<1>1. ASSUME T # {} PROVE FALSE
  <2>0. T \subseteq SUBSET S OBVIOUS
  <2>1. PICK m \in T : \A t \in T : t \subseteq m => t = m
    <3> HIDE DEF T
    <3> QED BY <1>1, <2>0, LeastSubset
  <2> DEFINE G(s) == CHOOSE g : Adds(g, f, s)
             g == [s \in SUBSET m |-> IF s = {} THEN 0 ELSE f[AnyOf(s)] + G(s \ {AnyOf(s)})[s \ {AnyOf(s)}]]
  <2>2. ASSUME NEW s \in SUBSET m, s # m PROVE Adds(G(s), f, s)
    <3>1. s \in SUBSET S /\ s \notin T BY <2>1, <2>2
    <3>2. \E k : Adds(k, f, s) BY <3>1
    <3> QED BY <3>2
  <2>3. ASSUME NEW s \in SUBSET m, s # m PROVE G(s)[s] = g[s]
    <3>1. G(s)[s] = IF s = {} THEN 0 ELSE f[AnyOf(s)] + G(s)[s \ {AnyOf(s)}]
      <4> DEFINE h == G(s)
      <4>1. Adds(h, f, s) BY <2>2, <2>3
      <4> HIDE DEF h
      <4> QED BY <4>1 DEF Adds
    <3>2. CASE s = {} BY <3>1, <3>2
    <3>3. CASE s # {}
      <4> DEFINE r == s \ {AnyOf(s)}
      <4>1. r \in SUBSET s /\ r \in SUBSET m /\ r # m BY <2>3, <3>3, Picked
      <4>2. Adds([q \in SUBSET r |-> G(s)[q]], f, r) BY <4>1, <2>2, <2>3, AddsBelow
      <4>3. Adds(G(r), f, r) BY <4>1, <2>2
      <4>4. IsFiniteSet(r) BY <4>1, FS_Subset
      <4>5. G(r) = [q \in SUBSET r |-> G(s)[q]] BY <4>2, <4>3, <4>4, AddsOnce
      <4>6. G(r)[r] = G(s)[r] BY <4>5
      <4> QED BY <3>1, <3>3, <4>6
    <3> QED BY <3>2, <3>3
  <2>4. ASSUME NEW s \in SUBSET m
        PROVE g[s] = IF s = {} THEN 0 ELSE f[AnyOf(s)] + g[s \ {AnyOf(s)}]
    <3>1. CASE s = {} BY <3>1
    <3>2. CASE s # {}
      <4> DEFINE r == s \ {AnyOf(s)}
      <4>1. r \in SUBSET m /\ r # m BY <3>2, Picked
      <4>2. G(r)[r] = g[r] BY <4>1, <2>3
      <4>3. g[s] = f[AnyOf(s)] + G(r)[r] BY <3>2
      <4> QED BY <3>2, <4>2, <4>3
    <3> QED BY <3>1, <3>2
  <2>5. Adds(g, f, m)
    <3>1. [s \in SUBSET m |-> IF s = {} THEN 0 ELSE f[AnyOf(s)] + g[s \ {AnyOf(s)}]] = [s \in SUBSET m |-> g[s]]
      BY <2>4
    <3> QED BY <3>1 DEF Adds
  <2> QED BY <2>5
<1> QED BY <1>1

\* The recursion the sum is defined by.
LEMMA SumEmpty == ASSUME NEW f PROVE SumFunctionOnSet(f, {}) = 0
<1> DEFINE g == CHOOSE g : Adds(g, f, {})
<1>1. Adds(g, f, {}) BY AddsExists, FS_EmptySet
<1>2. SumFunctionOnSet(f, {}) = g[{}] BY SumIsChosen
<1> HIDE DEF g
<1> QED BY <1>1, <1>2 DEF Adds

\* A sum is one value and the sum of the others.
LEMMA SumAnyOf ==
  ASSUME NEW f, NEW S, IsFiniteSet(S), S # {}
  PROVE SumFunctionOnSet(f, S) = f[AnyOf(S)] + SumFunctionOnSet(f, S \ {AnyOf(S)})
<1> DEFINE R == S \ {AnyOf(S)}
           g == CHOOSE g : Adds(g, f, S)
           h == CHOOSE h : Adds(h, f, R)
<1>1. R \in SUBSET S /\ IsFiniteSet(R) BY FS_Subset
<1>2. Adds(g, f, S) /\ Adds(h, f, R) BY <1>1, AddsExists
<1>3. SumFunctionOnSet(f, S) = g[S] /\ SumFunctionOnSet(f, R) = h[R] BY SumIsChosen
<1> HIDE DEF g, h
<1>4. h = [s \in SUBSET R |-> g[s]]
  <2>1. Adds([s \in SUBSET R |-> g[s]], f, R) BY <1>1, <1>2, AddsBelow
  <2> QED BY <1>1, <1>2, <2>1, AddsOnce
<1>5. h[R] = g[R] BY <1>4
<1>6. g[S] = f[AnyOf(S)] + g[R] BY <1>2 DEF Adds
<1> QED BY <1>3, <1>5, <1>6

\* A sum of integers is one.
LEMMA SumInt ==
  ASSUME NEW f, NEW S, IsFiniteSet(S), \A x \in S : f[x] \in Int
  PROVE SumFunctionOnSet(f, S) \in Int
<1> DEFINE T == {s \in SUBSET S : SumFunctionOnSet(f, s) \notin Int}
<1>0. T \subseteq SUBSET S OBVIOUS
<1>1. ASSUME T # {} PROVE FALSE
  <2>1. PICK m \in T : \A t \in T : t \subseteq m => t = m
    <3> HIDE DEF T
    <3> QED BY <1>0, <1>1, LeastSubset
  <2>2. m # {} BY SumEmpty
  <2>3. IsFiniteSet(m) BY FS_Subset
  <2>4. SumFunctionOnSet(f, m) = f[AnyOf(m)] + SumFunctionOnSet(f, m \ {AnyOf(m)}) BY <2>2, <2>3, SumAnyOf
  <2>5. AnyOf(m) \in S /\ m \ {AnyOf(m)} \in SUBSET S /\ m \ {AnyOf(m)} \notin T BY <2>1, <2>2, Picked
  <2>6. SumFunctionOnSet(f, m \ {AnyOf(m)}) \in Int BY <2>5
  <2> QED BY <2>4, <2>5, <2>6
<1> QED BY <1>1

\* A sum of naturals is one.
LEMMA SumNat ==
  ASSUME NEW f, NEW S, IsFiniteSet(S), \A x \in S : f[x] \in Nat
  PROVE SumFunctionOnSet(f, S) \in Nat
<1> DEFINE T == {s \in SUBSET S : SumFunctionOnSet(f, s) \notin Nat}
<1>0. T \subseteq SUBSET S OBVIOUS
<1>1. ASSUME T # {} PROVE FALSE
  <2>1. PICK m \in T : \A t \in T : t \subseteq m => t = m
    <3> HIDE DEF T
    <3> QED BY <1>0, <1>1, LeastSubset
  <2>2. m # {} BY SumEmpty
  <2>3. IsFiniteSet(m) BY FS_Subset
  <2>4. SumFunctionOnSet(f, m) = f[AnyOf(m)] + SumFunctionOnSet(f, m \ {AnyOf(m)}) BY <2>2, <2>3, SumAnyOf
  <2>5. AnyOf(m) \in S /\ m \ {AnyOf(m)} \in SUBSET S /\ m \ {AnyOf(m)} \notin T BY <2>1, <2>2, Picked
  <2>6. SumFunctionOnSet(f, m \ {AnyOf(m)}) \in Nat BY <2>5
  <2> QED BY <2>4, <2>5, <2>6
<1> QED BY <1>1

\* Any element can be taken out first.
LEMMA SumRemove ==
  ASSUME NEW f, NEW S, IsFiniteSet(S), \A y \in S : f[y] \in Int, NEW x \in S
  PROVE SumFunctionOnSet(f, S) = f[x] + SumFunctionOnSet(f, S \ {x})
<1> DEFINE Sum(s) == SumFunctionOnSet(f, s)
           T == {s \in SUBSET S : \E y \in s : Sum(s) # f[y] + Sum(s \ {y})}
<1>0. T \subseteq SUBSET S OBVIOUS
<1>1. ASSUME T # {} PROVE FALSE
  <2>1. PICK m \in T : \A t \in T : t \subseteq m => t = m
    <3> HIDE DEF T
    <3> QED BY <1>0, <1>1, LeastSubset
  <2> DEFINE p == AnyOf(m)
  <2>2. PICK y \in m : Sum(m) # f[y] + Sum(m \ {y}) OBVIOUS
  <2>3. m \in SUBSET S /\ IsFiniteSet(m) BY FS_Subset
  <2>4. p \in m BY <2>2, Picked
  <2>5. Sum(m) = f[p] + Sum(m \ {p}) BY <2>2, <2>3, SumAnyOf
  <2> HIDE DEF p
  <2>6. y # p BY <2>2, <2>5
  <2>7. Sum(m \ {p}) = f[y] + Sum((m \ {p}) \ {y})
    <3>1. m \ {p} \in SUBSET S /\ m \ {p} \notin T BY <2>1, <2>3, <2>4
    <3> QED BY <3>1, <2>6
  <2>8. Sum(m \ {y}) = f[p] + Sum((m \ {y}) \ {p})
    <3>1. m \ {y} \in SUBSET S /\ m \ {y} \notin T BY <2>1, <2>3
    <3> QED BY <3>1, <2>4, <2>6
  <2>9. (m \ {p}) \ {y} = (m \ {y}) \ {p} /\ IsFiniteSet((m \ {y}) \ {p})
    BY <2>3, FS_RemoveElement
  <2>10. Sum((m \ {y}) \ {p}) \in Int
    <3> HIDE DEF Sum
    <3>1. \A z \in (m \ {y}) \ {p} : f[z] \in Int BY <2>3
    <3> QED BY <2>9, <3>1, SumInt DEF Sum
  <2>11. f[p] \in Int /\ f[y] \in Int BY <2>3, <2>4
  <2>12. Sum((m \ {p}) \ {y}) = Sum((m \ {y}) \ {p}) BY <2>9
  <2> HIDE DEF Sum, T
  <2>13. \A a, b, c \in Int : a + (b + c) = b + (a + c) OBVIOUS
  <2> QED BY <2>2, <2>5, <2>7, <2>8, <2>10, <2>11, <2>12, <2>13
<1> QED BY <1>1

\* Only the values on the set count.
LEMMA SumAgrees ==
  ASSUME NEW f, NEW g, NEW S, IsFiniteSet(S), \A x \in S : f[x] = g[x]
  PROVE SumFunctionOnSet(f, S) = SumFunctionOnSet(g, S)
<1> DEFINE T == {s \in SUBSET S : SumFunctionOnSet(f, s) # SumFunctionOnSet(g, s)}
<1>0. T \subseteq SUBSET S OBVIOUS
<1>1. ASSUME T # {} PROVE FALSE
  <2>1. PICK m \in T : \A t \in T : t \subseteq m => t = m
    <3> HIDE DEF T
    <3> QED BY <1>0, <1>1, LeastSubset
  <2>2. m # {} BY SumEmpty
  <2>3. IsFiniteSet(m) BY FS_Subset
  <2>4. /\ SumFunctionOnSet(f, m) = f[AnyOf(m)] + SumFunctionOnSet(f, m \ {AnyOf(m)})
        /\ SumFunctionOnSet(g, m) = g[AnyOf(m)] + SumFunctionOnSet(g, m \ {AnyOf(m)})
    BY <2>2, <2>3, SumAnyOf
  <2>5. AnyOf(m) \in S /\ m \ {AnyOf(m)} \in SUBSET S /\ m \ {AnyOf(m)} \notin T BY <2>1, <2>2, Picked
  <2> QED BY <2>4, <2>5
<1> QED BY <1>1

\* Sums over disjoint sets add up.
LEMMA SumUnion ==
  ASSUME NEW f, NEW S, NEW R, IsFiniteSet(S), IsFiniteSet(R), S \cap R = {},
         \A x \in S \cup R : f[x] \in Int
  PROVE SumFunctionOnSet(f, S \cup R) = SumFunctionOnSet(f, S) + SumFunctionOnSet(f, R)
<1> DEFINE Sum(s) == SumFunctionOnSet(f, s)
           T == {s \in SUBSET S : Sum(s \cup R) # Sum(s) + Sum(R)}
<1>0. T \subseteq SUBSET S OBVIOUS
<1>1. ASSUME T # {} PROVE FALSE
  <2>1. PICK m \in T : \A t \in T : t \subseteq m => t = m
    <3> HIDE DEF T
    <3> QED BY <1>0, <1>1, LeastSubset
  <2>2. m \in SUBSET S /\ IsFiniteSet(m) /\ IsFiniteSet(m \cup R) BY FS_Subset, FS_Union
  <2>3. Sum(R) \in Int BY SumInt
  <2>4. m # {}
    <3>1. Sum({}) = 0 /\ {} \cup R = R BY SumEmpty
    <3>2. Sum({} \cup R) = Sum({}) + Sum(R) BY <2>3, <3>1
    <3> QED BY <3>2
  <2>5. PICK p \in m : TRUE BY <2>4
  <2> DEFINE q == m \ {p}
  <2>6. q \in SUBSET S /\ q \notin T /\ (m \cup R) \ {p} = q \cup R
    BY <2>1, <2>2
  <2>7. IsFiniteSet(q) BY <2>2, FS_RemoveElement
  <2>8. Sum(m) = f[p] + Sum(q)
    <3>1. \A y \in m : f[y] \in Int BY <2>2
    <3> QED BY <2>2, <3>1, SumRemove
  <2>9. Sum(m \cup R) = f[p] + Sum(q \cup R)
    <3>1. \A y \in m \cup R : f[y] \in Int BY <2>2
    <3>2. Sum(m \cup R) = f[p] + Sum((m \cup R) \ {p}) BY <2>2, <3>1, SumRemove
    <3> QED BY <3>2, <2>6
  <2>10. Sum(q) \in Int
    <3>1. \A y \in q : f[y] \in Int BY <2>6
    <3> QED BY <2>7, <3>1, SumInt
  <2>11. Sum(q \cup R) = Sum(q) + Sum(R) BY <2>6
  <2>12. f[p] \in Int BY <2>2
  <2>13. Sum(m \cup R) # Sum(m) + Sum(R) OBVIOUS
  <2> HIDE DEF Sum, T, q
  <2> QED BY <2>3, <2>8, <2>9, <2>10, <2>11, <2>12, <2>13
<1> QED BY <1>1

\* A sum over an image, when no two elements have the same one.
LEMMA SumImage ==
  ASSUME NEW S, IsFiniteSet(S), NEW f, NEW b, NEW g,
         \A x \in S : f[x] \in Int /\ g[b[x]] = f[x],
         \A x, y \in S : b[x] = b[y] => x = y
  PROVE /\ IsFiniteSet({b[x] : x \in S})
        /\ SumFunctionOnSet(g, {b[x] : x \in S}) = SumFunctionOnSet(f, S)
<1> DEFINE Im(s) == {b[x] : x \in s}
           Same(s) == SumFunctionOnSet(g, Im(s)) = SumFunctionOnSet(f, s)
           T == {s \in SUBSET S : ~(IsFiniteSet(Im(s)) /\ Same(s))}
<1>0. T \subseteq SUBSET S OBVIOUS
<1>1. ASSUME T # {} PROVE FALSE
  <2>1. PICK m \in T : \A t \in T : t \subseteq m => t = m
    <3> HIDE DEF T
    <3> QED BY <1>0, <1>1, LeastSubset
  <2>2. m \in SUBSET S /\ IsFiniteSet(m) BY FS_Subset
  <2>3. m # {}
    <3>1. Im({}) = {} OBVIOUS
    <3>2. IsFiniteSet(Im({})) /\ Same({})
      <4> HIDE DEF Im
      <4> QED BY <3>1, SumEmpty, FS_EmptySet
    <3> QED BY <3>2
  <2>4. PICK p \in m : TRUE BY <2>3
  <2> DEFINE q == m \ {p}
  <2>5. q \in SUBSET S /\ q \notin T BY <2>1, <2>2
  <2>6. IsFiniteSet(Im(q)) /\ Same(q) BY <2>5
  <2>7. Im(m) = Im(q) \cup {b[p]} /\ Im(m) \ {b[p]} = Im(q) /\ b[p] \in Im(m)
    BY <2>2
  <2>8. IsFiniteSet(Im(m))
    <3> HIDE DEF Im, q, Same, T
    <3> QED BY <2>6, <2>7, FS_AddElement
  <2>9. SumFunctionOnSet(f, m) = f[p] + SumFunctionOnSet(f, q)
    <3>1. \A y \in m : f[y] \in Int BY <2>2
    <3> QED BY <2>2, <3>1, SumRemove
  <2>10. SumFunctionOnSet(g, Im(m)) = g[b[p]] + SumFunctionOnSet(g, Im(q))
    <3>1. \A z \in Im(m) : g[z] \in Int BY <2>2
    <3> HIDE DEF Im, q, Same, T
    <3> QED BY <2>7, <2>8, <3>1, SumRemove
  <2>11. g[b[p]] = f[p] BY <2>2
  <2>12. Same(m) BY <2>6, <2>9, <2>10, <2>11
  <2> HIDE DEF Im, Same, q
  <2> QED BY <2>8, <2>12
<1>2. IsFiniteSet(Im(S)) /\ Same(S) BY <1>1
<1> QED BY <1>2

\* Zeros add up to zero.
LEMMA SumZero ==
  ASSUME NEW f, NEW S, IsFiniteSet(S), \A x \in S : f[x] = 0
  PROVE SumFunctionOnSet(f, S) = 0
<1> DEFINE T == {s \in SUBSET S : SumFunctionOnSet(f, s) # 0}
<1>0. T \subseteq SUBSET S OBVIOUS
<1>1. ASSUME T # {} PROVE FALSE
  <2>1. PICK m \in T : \A t \in T : t \subseteq m => t = m
    <3> HIDE DEF T
    <3> QED BY <1>0, <1>1, LeastSubset
  <2>2. m # {} BY SumEmpty
  <2>3. IsFiniteSet(m) BY FS_Subset
  <2>4. SumFunctionOnSet(f, m) = f[AnyOf(m)] + SumFunctionOnSet(f, m \ {AnyOf(m)})
    BY <2>2, <2>3, SumAnyOf
  <2>5. AnyOf(m) \in S /\ m \ {AnyOf(m)} \in SUBSET S /\ m \ {AnyOf(m)} \notin T BY <2>1, <2>2, Picked
  <2>6. SumFunctionOnSet(f, m \ {AnyOf(m)}) = 0 /\ f[AnyOf(m)] = 0 BY <2>5
  <2> QED BY <2>4, <2>6
<1> QED BY <1>1

\* A sum with one value that is not zero.
LEMMA SumSingle ==
  ASSUME NEW f, NEW S, IsFiniteSet(S), NEW p \in S, f[p] \in Int, \A x \in S \ {p} : f[x] = 0
  PROVE SumFunctionOnSet(f, S) = f[p]
<1>1. \A x \in S : f[x] \in Int OBVIOUS
<1>2. SumFunctionOnSet(f, S) = f[p] + SumFunctionOnSet(f, S \ {p}) BY <1>1, SumRemove
<1>3. IsFiniteSet(S \ {p}) BY FS_Subset
<1>4. SumFunctionOnSet(f, S \ {p}) = 0 BY <1>3, SumZero
<1> QED BY <1>2, <1>4

\* A sum of differences is the difference of the sums.
LEMMA SumMinus ==
  ASSUME NEW f, NEW g, NEW h, NEW S, IsFiniteSet(S),
         \A x \in S : f[x] \in Int /\ g[x] \in Int /\ h[x] = f[x] - g[x]
  PROVE SumFunctionOnSet(h, S) = SumFunctionOnSet(f, S) - SumFunctionOnSet(g, S)
<1> DEFINE T == {s \in SUBSET S : SumFunctionOnSet(h, s) # SumFunctionOnSet(f, s) - SumFunctionOnSet(g, s)}
<1>0. T \subseteq SUBSET S OBVIOUS
<1>1. ASSUME T # {} PROVE FALSE
  <2>1. PICK m \in T : \A t \in T : t \subseteq m => t = m
    <3> HIDE DEF T
    <3> QED BY <1>0, <1>1, LeastSubset
  <2>2. m # {}
    <3>1. 0 = 0 - 0 OBVIOUS
    <3> QED BY <3>1, SumEmpty
  <2> DEFINE p == AnyOf(m)
             q == m \ {AnyOf(m)}
  <2>3. IsFiniteSet(m) BY FS_Subset
  <2>4. /\ SumFunctionOnSet(f, m) = f[p] + SumFunctionOnSet(f, q)
        /\ SumFunctionOnSet(g, m) = g[p] + SumFunctionOnSet(g, q)
        /\ SumFunctionOnSet(h, m) = h[p] + SumFunctionOnSet(h, q)
    BY <2>2, <2>3, SumAnyOf
  <2>5. p \in S /\ q \in SUBSET S /\ q \notin T BY <2>1, <2>2, Picked
  <2>6. SumFunctionOnSet(f, q) \in Int /\ SumFunctionOnSet(g, q) \in Int
    <3>1. IsFiniteSet(q) /\ \A x \in q : f[x] \in Int /\ g[x] \in Int BY <2>5, FS_Subset
    <3> QED BY <3>1, SumInt
  <2>7. SumFunctionOnSet(h, q) = SumFunctionOnSet(f, q) - SumFunctionOnSet(g, q) BY <2>5
  <2>8. f[p] \in Int /\ g[p] \in Int /\ h[p] = f[p] - g[p] BY <2>5
  <2> HIDE DEF p, q
  <2>9. SumFunctionOnSet(h, m) = SumFunctionOnSet(f, m) - SumFunctionOnSet(g, m)
    BY <2>4, <2>6, <2>7, <2>8
  <2> QED BY <2>9
<1> QED BY <1>1

\* A sum when one value changes.
LEMMA SumExcept ==
  ASSUME NEW f, NEW g, NEW S, IsFiniteSet(S), NEW p \in S,
         \A x \in S : f[x] \in Int, \A x \in S : g[x] \in Int, \A x \in S \ {p} : f[x] = g[x]
  PROVE SumFunctionOnSet(g, S) = SumFunctionOnSet(f, S) - f[p] + g[p]
<1> DEFINE R == S \ {p}
<1>1. SumFunctionOnSet(f, S) = f[p] + SumFunctionOnSet(f, R) BY SumRemove
<1>2. SumFunctionOnSet(g, S) = g[p] + SumFunctionOnSet(g, R) BY SumRemove
<1>3. IsFiniteSet(R) BY FS_Subset
<1>4. SumFunctionOnSet(f, R) = SumFunctionOnSet(g, R) BY <1>3, SumAgrees
<1>5. SumFunctionOnSet(f, R) \in Int BY <1>3, SumInt
<1>6. \A a, b, c \in Int : b + c = ((a + c) - a) + b OBVIOUS
<1> HIDE DEF R
<1> QED BY <1>1, <1>2, <1>4, <1>5, <1>6

\* A common factor can be taken out of a sum.
LEMMA SumScaled ==
  ASSUME NEW f, NEW g, NEW c \in Int, NEW S, IsFiniteSet(S),
         \A x \in S : f[x] \in Int /\ g[x] = f[x] * c
  PROVE SumFunctionOnSet(g, S) = SumFunctionOnSet(f, S) * c
<1> DEFINE T == {s \in SUBSET S : SumFunctionOnSet(g, s) # SumFunctionOnSet(f, s) * c}
<1>0. T \subseteq SUBSET S OBVIOUS
<1>1. ASSUME T # {} PROVE FALSE
  <2>1. PICK m \in T : \A t \in T : t \subseteq m => t = m
    <3> HIDE DEF T
    <3> QED BY <1>0, <1>1, LeastSubset
  <2>2. m # {}
    <3>1. 0 = 0 * c OBVIOUS
    <3> QED BY <3>1, SumEmpty
  <2> DEFINE p == AnyOf(m)
             q == m \ {AnyOf(m)}
  <2>3. IsFiniteSet(m) BY FS_Subset
  <2>4. /\ SumFunctionOnSet(f, m) = f[p] + SumFunctionOnSet(f, q)
        /\ SumFunctionOnSet(g, m) = g[p] + SumFunctionOnSet(g, q)
    BY <2>2, <2>3, SumAnyOf
  <2>5. p \in S /\ q \in SUBSET S /\ q \notin T BY <2>1, <2>2, Picked
  <2>6. SumFunctionOnSet(f, q) \in Int
    <3>1. IsFiniteSet(q) /\ \A x \in q : f[x] \in Int BY <2>5, FS_Subset
    <3> QED BY <3>1, SumInt
  <2>7. \A x, y \in Int : x * c + y * c = (x + y) * c OBVIOUS
  <2>8. SumFunctionOnSet(g, q) = SumFunctionOnSet(f, q) * c BY <2>5
  <2>9. f[p] \in Int /\ g[p] = f[p] * c BY <2>5
  <2> HIDE DEF p, q
  <2>10. SumFunctionOnSet(g, m) = SumFunctionOnSet(f, m) * c BY <2>4, <2>6, <2>7, <2>8, <2>9
  <2> QED BY <2>10
<1> QED BY <1>1

\* The elements that k puts in a group, or in one of several.
Group(S, k, a)  == {x \in S : k[x] = a}
Groups(S, k, E) == {x \in S : k[x] \in E}

\* Summed group by group.
LEMMA SumGrouped ==
  ASSUME NEW S, IsFiniteSet(S), NEW E, IsFiniteSet(E), NEW f, NEW k, NEW part,
         \A x \in S : f[x] \in Int,
         \A a \in E : part[a] = SumFunctionOnSet(f, Group(S, k, a))
  PROVE SumFunctionOnSet(part, E) = SumFunctionOnSet(f, Groups(S, k, E))
<1> DEFINE In(s) == {x \in S : k[x] \in s}
           T == {s \in SUBSET E : SumFunctionOnSet(part, s) # SumFunctionOnSet(f, In(s))}
<1>0. T \subseteq SUBSET E OBVIOUS
<1>1. ASSUME T # {} PROVE FALSE
  <2>1. PICK m \in T : \A t \in T : t \subseteq m => t = m
    <3> HIDE DEF T
    <3> QED BY <1>0, <1>1, LeastSubset
  <2>2. m # {}
    <3>1. In({}) = {} OBVIOUS
    <3>2. SumFunctionOnSet(part, {}) = SumFunctionOnSet(f, In({})) BY <3>1, SumEmpty
    <3> QED BY <3>2
  <2> DEFINE p == AnyOf(m)
             q == m \ {AnyOf(m)}
             here == {x \in S : k[x] = p}
  <2>3. IsFiniteSet(m) BY FS_Subset
  <2>4. SumFunctionOnSet(part, m) = part[p] + SumFunctionOnSet(part, q)
    BY <2>2, <2>3, SumAnyOf
  <2>5. p \in m /\ p \in E /\ q \in SUBSET E /\ q \notin T BY <2>1, <2>2, Picked
  <2>6. part[p] = SumFunctionOnSet(f, here) BY <2>5 DEF Group
  <2>7. SumFunctionOnSet(part, q) = SumFunctionOnSet(f, In(q)) BY <2>5
  <2> HIDE DEF p
  <2>8. In(m) = here \cup In(q) /\ here \cap In(q) = {} BY <2>5 DEF p
  <2>9. IsFiniteSet(here) /\ IsFiniteSet(In(q)) BY FS_Subset
  <2>10. \A x \in here \cup In(q) : f[x] \in Int OBVIOUS
  <2>11. SumFunctionOnSet(f, here \cup In(q)) = SumFunctionOnSet(f, here) + SumFunctionOnSet(f, In(q))
    <3> HIDE DEF here, In
    <3> QED BY <2>8, <2>9, <2>10, SumUnion
  <2>12. SumFunctionOnSet(part, m) = SumFunctionOnSet(f, In(m))
    <3> HIDE DEF here, In, q, T
    <3> QED BY <2>4, <2>6, <2>7, <2>8, <2>11
  <2> QED BY <2>12
<1> QED BY <1>1 DEF Groups

\* The months of a report: those of its chains and those of the overlay.
ReportMonths(chs, overlay) == {chs[n].opened_at : n \in DOMAIN chs} \cup DOMAIN overlay

LEMMA MonthsAreFinite ==
  ASSUME NEW chs, IsFiniteSet(DOMAIN chs), NEW overlay, IsFiniteSet(DOMAIN overlay)
  PROVE IsFiniteSet(ReportMonths(chs, overlay))
<1> DEFINE S == DOMAIN chs
           k == [n \in S |-> chs[n].opened_at]
           E == {chs[n].opened_at : n \in S}
<1>1. k \in Surjection(S, E) BY DEF Surjection
<1> HIDE DEF S, k, E
<1>2. IsFiniteSet(S) BY DEF S
<1>3. IsFiniteSet(E) BY <1>1, <1>2, FS_Surjection
<1> QED BY <1>3, FS_Union DEF ReportMonths, E, S

\* The income of all months is that of all chains.
LEMMA AllTime ==
  ASSUME NEW chs, IsFiniteSet(DOMAIN chs), \A n \in DOMAIN chs : Counted(chs[n]) \in Int,
         NEW overlay, IsFiniteSet(DOMAIN overlay)
  PROVE ComputeIncome(chs, overlay).all_time =
        SumFunctionOnSet([n \in DOMAIN chs |-> Counted(chs[n])], DOMAIN chs)
<1> DEFINE S == DOMAIN chs
           f == [n \in S |-> Counted(chs[n])]
           k == [n \in S |-> chs[n].opened_at]
           E == ReportMonths(chs, overlay)
           months == IncomeMonths(chs, overlay)
           part == [m \in E |-> months[m].pnl]
<1>1. E = {chs[n].opened_at : n \in S} \cup DOMAIN overlay BY DEF ReportMonths
<1>2. DOMAIN months = E BY <1>1 DEF IncomeMonths
<1>3. \A m \in E : months[m].pnl = SumOf(LAMBDA n : Counted(chs[n]), {n \in S : chs[n].opened_at = m})
  BY <1>1 DEF IncomeMonths
<1>4. ASSUME NEW m \in E PROVE part[m] = SumFunctionOnSet(f, Group(S, k, m))
  <2> DEFINE G == {n \in S : chs[n].opened_at = m}
             g == [n \in G |-> Counted(chs[n])]
  <2>1. SumOf(LAMBDA n : Counted(chs[n]), G) = SumFunctionOnSet(g, G) BY DEF SumOf, SumFunction
  <2>2. \A n \in G : g[n] = f[n] OBVIOUS
  <2>3. G = Group(S, k, m) BY DEF Group
  <2>4. IsFiniteSet(G) BY FS_Subset
  <2>5. part[m] = SumOf(LAMBDA n : Counted(chs[n]), G) BY <1>3
  <2> HIDE DEF G, g, f, k, part, E
  <2>6. SumFunctionOnSet(g, G) = SumFunctionOnSet(f, G) BY <2>2, <2>4, SumAgrees
  <2> QED BY <2>1, <2>3, <2>5, <2>6
<1>5. Groups(S, k, E) = S BY <1>1 DEF Groups
<1>6. \A n \in S : f[n] \in Int OBVIOUS
<1>7. ComputeIncome(chs, overlay).all_time = SumFunctionOnSet(part, E)
  <2>1. ComputeIncome(chs, overlay).all_time = SumOf(LAMBDA m : months[m].pnl, DOMAIN months)
    BY DEF ComputeIncome
  <2>2. SumOf(LAMBDA m : months[m].pnl, DOMAIN months)
        = SumFunctionOnSet([m \in DOMAIN months |-> months[m].pnl], DOMAIN months)
    BY DEF SumOf, SumFunction
  <2> QED BY <1>2, <2>1, <2>2
<1>8. IsFiniteSet(E) BY MonthsAreFinite
<1> HIDE DEF S, f, k, E, months, part
<1>9. IsFiniteSet(S) BY DEF S
<1>10. SumFunctionOnSet(part, E) = SumFunctionOnSet(f, Groups(S, k, E))
  BY <1>4, <1>6, <1>8, <1>9, SumGrouped
<1> QED BY <1>5, <1>7, <1>10 DEF f, S

\* What was withdrawn is a natural number.
LEMMA WithdrawnNat ==
  ASSUME NEW chs, IsFiniteSet(DOMAIN chs),
         NEW overlay, IsFiniteSet(DOMAIN overlay), \A m \in DOMAIN overlay : overlay[m] \in Nat
  PROVE ComputeIncome(chs, overlay).withdrawn \in Nat
<1> DEFINE E == ReportMonths(chs, overlay)
           months == IncomeMonths(chs, overlay)
           taken == [m \in DOMAIN months |-> months[m].withdrawal]
<1>1. DOMAIN months = E BY DEF IncomeMonths, ReportMonths
<1>2. ASSUME NEW m \in E PROVE taken[m] \in Nat
  <2>1. taken[m] = IF m \in DOMAIN overlay THEN overlay[m] ELSE 0 BY <1>1, <1>2 DEF IncomeMonths, ReportMonths
  <2> QED BY <2>1
<1>3. ComputeIncome(chs, overlay).withdrawn = SumFunctionOnSet(taken, DOMAIN months)
  <2>1. ComputeIncome(chs, overlay).withdrawn = SumOf(LAMBDA m : months[m].withdrawal, DOMAIN months)
    BY DEF ComputeIncome
  <2> QED BY <2>1 DEF SumOf, SumFunction
<1>4. IsFiniteSet(E) BY MonthsAreFinite
<1> HIDE DEF E, months, taken
<1> QED BY <1>1, <1>2, <1>3, <1>4, SumNat
=============================================================================
