------------------------- MODULE RollChains_proofs -------------------------
(***************************************************************************)
(* Proofs about the roll-chain builder: on every history it follows, what  *)
(* it stores agrees with the account whose rows it read.  The inductive    *)
(* invariant (Inv, below) says what the chains, the account and the rows   *)
(* still to be read have to do with each other after every single row.     *)
(***************************************************************************)
EXTENDS RollChains, Sums_proofs, SequenceTheorems

(***************************************************************************)
(* Totals over a sequence, of the rows or of the chains.                   *)
(***************************************************************************)
\* The sum over the elements of s of what f gives for each.
Total(f, s) == SumFunctionOnSet([i \in 1..Len(s) |-> f[s[i]]], 1..Len(s))

\* A total of integers is one.
LEMMA TotalInt ==
  ASSUME NEW D, NEW f \in [D -> Int], NEW s \in Seq(D)
  PROVE Total(f, s) \in Int
<1> DEFINE g == [i \in 1..Len(s) |-> f[s[i]]]
           S == 1..Len(s)
<1>1. \A i \in S : g[i] \in Int OBVIOUS
<1>2. IsFiniteSet(S) BY FS_Interval
<1>3. Total(f, s) = SumFunctionOnSet(g, S) BY DEF Total
<1> HIDE DEF g, S
<1> QED BY <1>1, <1>2, <1>3, SumInt

\* Nothing adds up to zero.
LEMMA TotalEmpty == ASSUME NEW f PROVE Total(f, <<>>) = 0
<1>1. 1..Len(<<>>) = {} OBVIOUS
<1> QED BY <1>1, SumEmpty DEF Total

\* The total of one element.
LEMMA TotalOne ==
  ASSUME NEW D, NEW f \in [D -> Int], NEW r \in D
  PROVE Total(f, <<r>>) = f[r]
<1> DEFINE g == [i \in 1..Len(<<r>>) |-> f[<<r>>[i]]]
           S == 1..Len(<<r>>)
<1>1. S = {1} /\ g[1] = f[r] OBVIOUS
<1>2. Total(f, <<r>>) = SumFunctionOnSet(g, S) BY DEF Total
<1>3. \A y \in {1} : g[y] \in Int BY <1>1
<1>4. IsFiniteSet({1}) BY FS_Singleton
<1>5. {1} \ {1} = {} OBVIOUS
<1> HIDE DEF g, S
<1>6. SumFunctionOnSet(g, {1}) = g[1] + SumFunctionOnSet(g, {1} \ {1})
  BY <1>3, <1>4, SumRemove
<1>7. SumFunctionOnSet(g, {1} \ {1}) = 0 BY <1>5, SumEmpty
<1> QED BY <1>1, <1>2, <1>6, <1>7

\* What b makes of the elements of S.
Image(b, S) == {b[x] : x \in S}

\* A sum over the image of a set under a function that tells its elements apart.
LEMMA SumOverImage ==
  ASSUME NEW S, IsFiniteSet(S), NEW f, NEW b, NEW g,
         \A x \in S : f[x] \in Int /\ g[b[x]] = f[x],
         \A x, y \in S : b[x] = b[y] => x = y
  PROVE IsFiniteSet(Image(b, S)) /\ SumFunctionOnSet(g, Image(b, S)) = SumFunctionOnSet(f, S)
BY SumImage DEF Image

\* The total of two sequences put together.
LEMMA TotalConcat ==
  ASSUME NEW D, NEW f \in [D -> Int], NEW s \in Seq(D), NEW t \in Seq(D)
  PROVE Total(f, s \o t) = Total(f, s) + Total(f, t)
<1> DEFINE u == s \o t
           g == [i \in 1..Len(u) |-> f[u[i]]]
           gs == [i \in 1..Len(s) |-> f[s[i]]]
           gt == [i \in 1..Len(t) |-> f[t[i]]]
           b == [i \in 1..Len(t) |-> i + Len(s)]
           S == 1..Len(s)
           T == 1..Len(t)
           R == Image(b, T)
<1>1. /\ u \in Seq(D) /\ Len(u) = Len(s) + Len(t) /\ Len(s) \in Nat /\ Len(t) \in Nat
      /\ \A i \in 1..Len(s) : u[i] = s[i]
      /\ \A i \in 1..Len(t) : u[i + Len(s)] = t[i]
  BY ConcatProperties
<1>2. IsFiniteSet(S) /\ IsFiniteSet(T) BY <1>1, FS_Interval
<1>3. R = (Len(s) + 1)..Len(u)
  <2>1. ASSUME NEW x \in R PROVE x \in (Len(s) + 1)..Len(u)
    BY <1>1 DEF Image
  <2>2. ASSUME NEW x \in (Len(s) + 1)..Len(u) PROVE x \in R
    <3>1. x - Len(s) \in T /\ b[x - Len(s)] = x BY <1>1
    <3> QED BY <3>1 DEF Image
  <2> QED BY <2>1, <2>2
<1>4. 1..Len(u) = S \cup R /\ S \cap R = {}
  <2> HIDE DEF R, u
  <2> QED BY <1>1, <1>3
<1>5. \A i \in T : gt[i] \in Int /\ g[b[i]] = gt[i] BY <1>1
<1>6. \A x, y \in T : b[x] = b[y] => x = y BY <1>1
<1>7. \A i \in S : gs[i] = g[i] BY <1>1
<1>8. \A i \in S \cup R : g[i] \in Int
  <2>1. \A i \in 1..Len(u) : u[i] \in D BY <1>1
  <2>2. \A i \in 1..Len(u) : g[i] \in Int BY <2>1
  <2> QED BY <1>4, <2>2
<1>9. /\ Total(f, u) = SumFunctionOnSet(g, 1..Len(u))
      /\ Total(f, s) = SumFunctionOnSet(gs, S)
      /\ Total(f, t) = SumFunctionOnSet(gt, T)
  BY DEF Total
<1> HIDE DEF g, gs, gt, b, S, T, u
<1>10. IsFiniteSet(R) /\ SumFunctionOnSet(g, R) = SumFunctionOnSet(gt, T)
  BY <1>2, <1>5, <1>6, SumOverImage
<1>11. SumFunctionOnSet(gs, S) = SumFunctionOnSet(g, S) BY <1>2, <1>7, SumAgrees
<1> HIDE DEF R
<1>12. SumFunctionOnSet(g, S \cup R) = SumFunctionOnSet(g, S) + SumFunctionOnSet(g, R)
  BY <1>2, <1>4, <1>8, <1>10, SumUnion
<1> QED BY <1>4, <1>9, <1>10, <1>11, <1>12 DEF u

\* The total of a sequence with one element more.
LEMMA TotalAppend ==
  ASSUME NEW D, NEW f \in [D -> Int], NEW s \in Seq(D), NEW r \in D
  PROVE Total(f, s \o <<r>>) = Total(f, s) + f[r] /\ Total(f, Append(s, r)) = Total(f, s) + f[r]
<1>1. <<r>> \in Seq(D) /\ Append(s, r) = s \o <<r>> OBVIOUS
<1>2. Total(f, s \o <<r>>) = Total(f, s) + Total(f, <<r>>) BY <1>1, TotalConcat
<1> QED BY <1>1, <1>2, TotalOne

\* One element taken out.
LEMMA RemovedParts ==
  ASSUME NEW D, NEW s \in Seq(D), NEW i \in 1..Len(s)
  PROVE /\ SubSeq(s, 1, i - 1) \in Seq(D) /\ SubSeq(s, i + 1, Len(s)) \in Seq(D)
        /\ s[i] \in D
        /\ RemoveAt(s, i) = SubSeq(s, 1, i - 1) \o SubSeq(s, i + 1, Len(s))
        /\ s = (SubSeq(s, 1, i - 1) \o <<s[i]>>) \o SubSeq(s, i + 1, Len(s))
        /\ RemoveAt(s, i) \in Seq(D) /\ Len(RemoveAt(s, i)) = Len(s) - 1
        /\ \A j \in 1..(Len(s) - 1) : RemoveAt(s, i)[j] = IF j < i THEN s[j] ELSE s[j + 1]
<1> DEFINE u == SubSeq(s, 1, i - 1)
           v == SubSeq(s, i + 1, Len(s))
           x == u \o <<s[i]>>
           w == x \o v
<1>1. Len(s) \in Nat /\ i \in Int /\ \A j \in 1..Len(s) : s[j] \in D OBVIOUS
<1>2. /\ u \in Seq(D) /\ Len(u) = i - 1 /\ \A j \in 1..(i - 1) : u[j] = s[j]
  <2>1. \A j \in 1..(i - 1) : s[j] \in D BY <1>1
  <2>2. i - 1 \in Int /\ 1 \in Int BY <1>1
  <2> QED BY <1>1, <2>1, <2>2, SubSeqProperties
<1>3. /\ v \in Seq(D) /\ Len(v) = Len(s) - i /\ \A j \in 1..(Len(s) - i) : v[j] = s[i + j]
  <2>1. \A j \in (i + 1)..Len(s) : s[j] \in D BY <1>1
  <2>2. i + 1 \in Int /\ Len(s) \in Int BY <1>1
  <2>3. /\ v \in Seq(D) /\ Len(v) = IF i + 1 <= Len(s) THEN Len(s) - (i + 1) + 1 ELSE 0
        /\ \A j \in 1..(Len(s) - (i + 1) + 1) : v[j] = s[i + 1 + j - 1]
    BY <2>1, <2>2, SubSeqProperties
  <2>4. \A j \in 1..(Len(s) - i) : v[j] = s[i + j]
    <3> HIDE DEF v
    <3>1. ASSUME NEW j \in 1..(Len(s) - i)
          PROVE j \in 1..(Len(s) - (i + 1) + 1) /\ i + 1 + j - 1 = i + j
      BY <1>1
    <3> QED BY <2>3, <3>1
  <2>5. Len(v) = Len(s) - i BY <1>1, <2>3
  <2> QED BY <2>3, <2>4, <2>5
<1>4. RemoveAt(s, i) = u \o v BY DEF RemoveAt
<1> HIDE DEF u, v
<1>5. /\ u \o v \in Seq(D) /\ Len(u \o v) = Len(u) + Len(v)
      /\ \A j \in 1..Len(u) + Len(v) : (u \o v)[j] = IF j <= Len(u) THEN u[j] ELSE v[j - Len(u)]
  BY <1>2, <1>3, ConcatProperties
<1>6. ASSUME NEW j \in 1..(Len(s) - 1) PROVE (u \o v)[j] = IF j < i THEN s[j] ELSE s[j + 1]
  <2>1. (u \o v)[j] = IF j <= i - 1 THEN u[j] ELSE v[j - (i - 1)] BY <1>1, <1>2, <1>3, <1>5
  <2>2. CASE j < i BY <1>1, <1>2, <2>1, <2>2
  <2>3. CASE ~(j < i)
    <3>1. j - (i - 1) \in 1..(Len(s) - i) /\ i + (j - (i - 1)) = j + 1 /\ ~(j <= i - 1) BY <1>1, <2>3
    <3> QED BY <1>3, <2>1, <2>3, <3>1
  <2> QED BY <2>2, <2>3
<1>7. x \in Seq(D) /\ Len(x) = i /\ \A j \in 1..i : x[j] = s[j]
  <2>1. <<s[i]>> \in Seq(D) /\ Len(<<s[i]>>) = 1 /\ <<s[i]>>[1] = s[i] BY <1>1
  <2>2. /\ x \in Seq(D) /\ Len(x) = Len(u) + 1
        /\ \A j \in 1..Len(u) + 1 : x[j] = IF j <= Len(u) THEN u[j] ELSE <<s[i]>>[j - Len(u)]
    BY <1>2, <2>1, ConcatProperties
  <2> HIDE DEF x
  <2>3. Len(x) = i BY <1>1, <1>2, <2>2
  <2>4. ASSUME NEW j \in 1..i PROVE x[j] = s[j]
    <3>1. x[j] = IF j <= i - 1 THEN u[j] ELSE <<s[i]>>[j - (i - 1)] BY <1>1, <1>2, <2>2
    <3>2. CASE j = i
      <4>1. j - (i - 1) = 1 /\ ~(j <= i - 1) BY <1>1, <3>2
      <4> QED BY <2>1, <3>1, <3>2, <4>1
    <3>3. CASE j # i
      <4>1. j \in 1..(i - 1) /\ j <= i - 1 BY <1>1, <3>3
      <4> QED BY <1>2, <3>1, <4>1
    <3> QED BY <3>2, <3>3
  <2> QED BY <2>2, <2>3, <2>4
<1> HIDE DEF x
<1>8. /\ w \in Seq(D) /\ Len(w) = Len(s)
      /\ \A j \in 1..Len(s) : w[j] = IF j <= i THEN x[j] ELSE v[j - i]
  <2>1. /\ w \in Seq(D) /\ Len(w) = Len(x) + Len(v)
        /\ \A j \in 1..Len(x) + Len(v) : w[j] = IF j <= Len(x) THEN x[j] ELSE v[j - Len(x)]
    BY <1>3, <1>7, ConcatProperties
  <2>2. Len(x) + Len(v) = Len(s) BY <1>1, <1>3, <1>7
  <2> HIDE DEF w
  <2> QED BY <1>7, <2>1, <2>2
<1>9. ASSUME NEW j \in 1..Len(s) PROVE w[j] = s[j]
  <2>1. CASE j <= i
    <3>1. w[j] = x[j] /\ j \in 1..i BY <1>1, <1>8, <2>1
    <3> HIDE DEF w
    <3> QED BY <1>7, <3>1
  <2>2. CASE ~(j <= i)
    <3>1. w[j] = v[j - i] /\ j - i \in 1..(Len(s) - i) /\ i + (j - i) = j BY <1>1, <1>8, <2>2
    <3> HIDE DEF w
    <3> QED BY <1>3, <3>1
  <2> QED BY <2>1, <2>2
<1>10. s = w
  <2> HIDE DEF w
  <2> QED BY <1>8, <1>9
<1>11. s = (u \o <<s[i]>>) \o v BY <1>10 DEF x
<1>12. /\ RemoveAt(s, i) \in Seq(D) /\ Len(RemoveAt(s, i)) = Len(s) - 1
       /\ \A j \in 1..(Len(s) - 1) : RemoveAt(s, i)[j] = IF j < i THEN s[j] ELSE s[j + 1]
  <2>1. Len(u) + Len(v) = Len(s) - 1 BY <1>1, <1>2, <1>3
  <2> QED BY <1>4, <1>5, <1>6, <2>1
<1>13. u \in Seq(D) /\ v \in Seq(D) /\ s[i] \in D BY <1>1, <1>2, <1>3
<1> QED BY <1>4, <1>11, <1>12, <1>13 DEF u, v

\* The total of a sequence with one element less.
LEMMA TotalRemove ==
  ASSUME NEW D, NEW f \in [D -> Int], NEW s \in Seq(D), NEW i \in 1..Len(s)
  PROVE Total(f, RemoveAt(s, i)) = Total(f, s) - f[s[i]]
<1> DEFINE u == SubSeq(s, 1, i - 1)
           v == SubSeq(s, i + 1, Len(s))
<1>1. u \in Seq(D) /\ v \in Seq(D) /\ s[i] \in D BY RemovedParts
<1>2. s = (u \o <<s[i]>>) \o v /\ RemoveAt(s, i) = u \o v BY RemovedParts
<1> HIDE DEF u, v
<1>3. u \o <<s[i]>> \in Seq(D) BY <1>1
<1>4. Total(f, (u \o <<s[i]>>) \o v) = Total(f, u \o <<s[i]>>) + Total(f, v) BY <1>1, <1>3, TotalConcat
<1>5. Total(f, u \o <<s[i]>>) = Total(f, u) + f[s[i]] BY <1>1, TotalAppend
<1>6. Total(f, u \o v) = Total(f, u) + Total(f, v) BY <1>1, TotalConcat
<1>7. Total(f, u) \in Int /\ Total(f, v) \in Int /\ f[s[i]] \in Int BY <1>1, TotalInt
<1>8. Total(f, s) = Total(f, (u \o <<s[i]>>) \o v) BY <1>2
<1>9. Total(f, RemoveAt(s, i)) = Total(f, u \o v) BY <1>2
<1>10. \A a, b, c \in Int : a + c = ((a + b) + c) - b OBVIOUS
<1> QED BY <1>4, <1>5, <1>6, <1>7, <1>8, <1>9, <1>10

\* One element replaced.
LEMMA TotalExcept ==
  ASSUME NEW D, NEW f \in [D -> Int], NEW s \in Seq(D), NEW e \in D
  PROVE \A i \in 1..Len(s) : Total(f, [s EXCEPT ![i] = e]) = Total(f, s) - f[s[i]] + f[e]
<1>0. SUFFICES ASSUME NEW i, i \in 1..Len(s)
               PROVE Total(f, [s EXCEPT ![i] = e]) = Total(f, s) - f[s[i]] + f[e]
  OBVIOUS
<1> DEFINE t == [s EXCEPT ![i] = e]
           S == 1..Len(s)
           g == [j \in 1..Len(s) |-> f[s[j]]]
           h == [j \in 1..Len(t) |-> f[t[j]]]
<1>1. t \in Seq(D) /\ Len(t) = Len(s) /\ t[i] = e /\ \A j \in S \ {i} : t[j] = s[j] BY <1>0
<1>2. IsFiniteSet(S) /\ IsFiniteSet(S \ {i})
  <2>1. S \ {i} \in SUBSET S OBVIOUS
  <2>2. IsFiniteSet(S) BY FS_Interval
  <2> HIDE DEF S
  <2> QED BY <2>1, <2>2, FS_Subset
<1>3. \A j \in S : g[j] \in Int OBVIOUS
<1>4. \A j \in S : h[j] \in Int BY <1>1
<1>5. \A j \in S \ {i} : g[j] = h[j] BY <1>1
<1>6. g[i] = f[s[i]] /\ h[i] = f[e] BY <1>0, <1>1
<1>7. Total(f, s) = SumFunctionOnSet(g, S) /\ Total(f, t) = SumFunctionOnSet(h, S) BY <1>1 DEF Total
<1>8. i \in S BY <1>0
<1>9. f[s[i]] \in Int /\ f[e] \in Int BY <1>0
<1> HIDE DEF g, h, S, t
<1>10. SumFunctionOnSet(h, S) = SumFunctionOnSet(g, S) - g[i] + h[i]
  BY <1>2, <1>3, <1>4, <1>5, <1>8, SumExcept
<1>15. Total(f, t) = (Total(f, s) - f[s[i]]) + f[e] BY <1>6, <1>7, <1>10
<1> QED BY <1>15 DEF t

\* A total of naturals is one, and no smaller than any of them.
LEMMA TotalNat ==
  ASSUME NEW D, NEW f \in [D -> Int], NEW s \in Seq(D), \A i \in 1..Len(s) : f[s[i]] >= 0
  PROVE Total(f, s) >= 0 /\ \A i \in 1..Len(s) : f[s[i]] <= Total(f, s)
<1> DEFINE g == [j \in 1..Len(s) |-> f[s[j]]]
           S == 1..Len(s)
<1>1. \A j \in S : g[j] \in Nat OBVIOUS
<1>2. IsFiniteSet(S) BY FS_Interval
<1>3. Total(f, s) = SumFunctionOnSet(g, S) BY DEF Total
<1>4. \A j \in S : g[j] = f[s[j]] OBVIOUS
<1> HIDE DEF g, S
<1>5. SumFunctionOnSet(g, S) \in Nat BY <1>1, <1>2, SumNat
<1>6. ASSUME NEW i \in S PROVE g[i] <= SumFunctionOnSet(g, S)
  <2>1. \A j \in S : g[j] \in Int BY <1>1
  <2>2. SumFunctionOnSet(g, S) = g[i] + SumFunctionOnSet(g, S \ {i}) BY <1>2, <2>1, SumRemove
  <2>3. IsFiniteSet(S \ {i}) /\ \A j \in S \ {i} : g[j] \in Nat BY <1>1, <1>2, FS_Subset
  <2>4. SumFunctionOnSet(g, S \ {i}) \in Nat BY <2>3, SumNat
  <2>5. g[i] \in Nat BY <1>1
  <2> QED BY <2>2, <2>4, <2>5
<1> QED BY <1>3, <1>4, <1>5, <1>6 DEF S

\* Zeros have a total of zero.
LEMMA TotalZero ==
  ASSUME NEW D, NEW f \in [D -> Int], NEW s \in Seq(D), \A i \in 1..Len(s) : f[s[i]] = 0
  PROVE Total(f, s) = 0
<1> DEFINE g == [j \in 1..Len(s) |-> f[s[j]]]
           S == 1..Len(s)
           T == {s2 \in SUBSET S : SumFunctionOnSet(g, s2) # 0}
<1>4. \A j \in S : g[j] = 0 OBVIOUS
<1>5. IsFiniteSet(S) BY FS_Interval
<1>6. T \subseteq SUBSET S OBVIOUS
<1>7. Total(f, s) = SumFunctionOnSet(g, S) BY DEF Total
<1> HIDE DEF g, S
<1>8. ASSUME T # {} PROVE FALSE
  <2>1. PICK m \in T : \A t \in T : t \subseteq m => t = m
    <3> HIDE DEF T
    <3> QED BY <1>5, <1>6, <1>8, LeastSubset
  <2>2. m # {} BY SumEmpty
  <2>3. IsFiniteSet(m) BY <1>5, FS_Subset
  <2>4. PICK p \in m : TRUE BY <2>2
  <2>5. m \ {p} \in SUBSET S /\ m \ {p} \notin T BY <2>1
  <2>6. g[p] = 0 /\ \A y \in m : g[y] \in Int BY <1>4
  <2>7. SumFunctionOnSet(g, m) = g[p] + SumFunctionOnSet(g, m \ {p}) BY <2>3, <2>6, SumRemove
  <2> QED BY <2>5, <2>6, <2>7
<1> QED BY <1>7, <1>8

(***************************************************************************)
(* Types: what the account reports and what the builder makes of a chain.  *)
(***************************************************************************)
LEMMA KeysTyped ==
  ASSUME NEW c \in Contracts
  PROVE /\ KeyOf(c) \in Keys /\ KeyOf(c)[1] = c.right /\ KeyOf(c)[2] = c.strike
        /\ c.right \in {"P", "C"} /\ c.strike \in Nat /\ c.expiry \in Nat
BY ContractsAreTyped DEF KeyOf, Keys

\* A key is a right and a strike.
LEMMA KeysAreKeys ==
  ASSUME NEW k \in Keys
  PROVE k = <<k[1], k[2]>> /\ k[1] \in {"P", "C"} /\ k[2] \in Nat
<1>1. PICK c \in Contracts : k = KeyOf(c) BY DEF Keys
<1> QED BY <1>1, KeysTyped DEF KeyOf

\* The fields of an option's row.
LEMMA OptRowTyped ==
  ASSUME NEW kind \in Kinds, NEW c \in Contracts, NEW side \in {"B", "S", "A"}, NEW q \in Nat
  PROVE /\ OptRow(kind, c, side, q) \in Row
        /\ OptRow(kind, c, side, q).kind = kind /\ OptRow(kind, c, side, q).contract = c
        /\ OptRow(kind, c, side, q).side = side /\ OptRow(kind, c, side, q).qty = q
BY DEF OptRow, Row

\* What a row says is typed.
LEMMA RowTyped ==
  ASSUME NEW row \in Row
  PROVE /\ row.contract \in Contracts /\ row.qty \in Nat /\ row.kind \in Kinds
        /\ KeyOf(row.contract) \in Keys /\ Credit(row) \in Int
<1>1. row.contract \in Contracts /\ row.qty \in Nat /\ row.kind \in Kinds BY DEF Row
<1>2. row.contract.strike \in Nat /\ KeyOf(row.contract) \in Keys BY <1>1, KeysTyped
<1>3. \A a \in Nat, b \in Int : a * b \in Int /\ -(a * b) \in Int /\ -a \in Int OBVIOUS
<1>4. row.qty * SharePrice \in Int /\ -(row.qty * SharePrice) \in Int BY <1>1, <1>3, BoundsAreTyped
<1>5. row.qty * row.contract.strike \in Int /\ -(row.qty * row.contract.strike) \in Int
  BY <1>1, <1>2, <1>3
<1>6. Credit(row) \in Int BY <1>1, <1>4, <1>5 DEF Credit
<1> QED BY <1>1, <1>2, <1>6

\* Closing or reopening a chain gives a chain.
LEMMA CloseTyped ==
  ASSUME NEW ch \in Chain, NEW when \in 0..MaxDay,
         NEW reason \in {"bought_back", "expired", "assigned_closed"}
  PROVE Close(ch, when, reason) \in Chain /\ Reopen(ch) \in Chain
<1>1. "closed" \in {"open", "closed"} /\ "open" \in {"open", "closed"} /\ 0 \in 0..MaxDay
  BY BoundsAreTyped
<1>2. Close(ch, when, reason) \in Chain BY <1>1 DEF Chain, Close
<1>3. Reopen(ch) \in Chain BY <1>1 DEF Chain, Reopen
<1> QED BY <1>2, <1>3

\* So does reducing its short (the credit is divided by lots that are not zero).
LEMMA ShortTyped ==
  ASSUME NEW ch \in Chain, NEW pos \in Int
  PROVE WithShort(ch, pos) \in Chain
<1> DEFINE credit == CASE pos >= 0                  -> 0
                       [] pos < 0 /\ ch.opt_pos < 0 -> (ch.open_credit * (-pos)) \div (-ch.opt_pos)
                       [] OTHER                     -> ch.open_credit
<1>1. \A a, b, c \in Int : c < 0 => (a * (-b)) \div (-c) \in Int OBVIOUS
<1>2. ch.opt_pos \in Int /\ ch.open_credit \in Int BY DEF Chain
<1>3. credit \in Int
  <2>1. CASE pos >= 0 BY <2>1
  <2>2. CASE pos < 0 /\ ch.opt_pos < 0
    <3>1. credit = (ch.open_credit * (-pos)) \div (-ch.opt_pos) BY <2>2
    <3> QED BY <1>1, <1>2, <2>2, <3>1
  <2>3. CASE ~(pos >= 0) /\ ~(pos < 0 /\ ch.opt_pos < 0) BY <1>2, <2>3
  <2> QED BY <2>1, <2>2, <2>3
<1>4. WithShort(ch, pos) = [ch EXCEPT !.opt_pos = pos, !.open_credit = credit]
  BY DEF WithShort, Chain
<1> HIDE DEF credit
<1> QED BY <1>3, <1>4 DEF Chain

\* So does a synthetic expiry.
LEMMA LapseTyped ==
  ASSUME NEW ch \in Chain, day \in 1..MaxDay
  PROVE Lapse(ch, day) \in Chain
<1>1. WithShort(ch, 0) \in Chain BY ShortTyped
<1>2. CASE ch.opt_pos < 0 /\ ch.current_expiry < day
  <2>1. ch.current_expiry \in 0..MaxDay BY <1>2, BoundsAreTyped DEF Chain
  <2>2. Close(WithShort(ch, 0), ch.current_expiry, "expired") \in Chain BY <1>1, <2>1, CloseTyped
  <2> QED BY <1>1, <2>2 DEF Lapse
<1>3. CASE ~(ch.opt_pos < 0 /\ ch.current_expiry < day) BY <1>3 DEF Lapse
<1> QED BY <1>2, <1>3

\* So does a sale.
LEMMA SoldTyped ==
  ASSUME NEW ch \in Chain, NEW row \in Row
  PROVE Sold(ch, row) \in Chain
<1>1. /\ row.contract \in Contracts /\ row.qty \in Nat /\ Credit(row) \in Int
      /\ row.contract.expiry \in Nat
  BY RowTyped, KeysTyped
<1>2. /\ ch.open_credit + Credit(row) \in Int /\ ch.cumulative_credit + Credit(row) \in Int
      /\ ch.opt_pos - row.qty \in Int
  BY <1>1 DEF Chain
<1> QED BY <1>1, <1>2 DEF Sold, Chain

\* So does a buy.
LEMMA BoughtTyped ==
  ASSUME NEW ch \in Chain, NEW row \in Row
  PROVE Bought(ch, row) \in Chain
<1> DEFINE paid == [ch EXCEPT !.cumulative_credit = @ + Credit(row), !.conids = @ \cup {row.contract}]
<1>1. row.contract \in Contracts /\ row.qty \in Nat /\ Credit(row) \in Int BY RowTyped
<1>2. ch.cumulative_credit + Credit(row) \in Int /\ ch.opt_pos + row.qty \in Int BY <1>1 DEF Chain
<1>3. paid \in Chain BY <1>1, <1>2 DEF Chain
<1> HIDE DEF paid
<1>4. WithShort(paid, ch.opt_pos + row.qty) \in Chain BY <1>2, <1>3, ShortTyped
<1> QED BY <1>4 DEF Bought, paid

\* So do delivered shares.
LEMMA DeliveredTyped ==
  ASSUME NEW ch \in Chain, NEW row \in Row
  PROVE Delivered(ch, row) \in Chain
<1>1. row.qty \in Nat BY RowTyped
<1>2. ch.stk_pos + row.qty \in Int /\ ch.stk_pos - row.qty \in Int BY <1>1 DEF Chain
<1> QED BY <1>2 DEF Delivered, Chain

\* So does an assignment.
LEMMA AssignedTyped ==
  ASSUME NEW ch \in Chain, NEW row \in Row
  PROVE Assigned(ch, row) \in Chain
<1> DEFINE value == row.qty * ch.strike
           ch2 == Delivered(Bought(ch, row), row)
           ch3 == [ch2 EXCEPT !.cumulative_credit = IF ch.right = "P" THEN @ - value ELSE @ + value]
<1>1. Bought(ch, row) \in Chain /\ ch2 \in Chain BY BoughtTyped, DeliveredTyped
<1>2. value \in Int
  <2>1. row.qty \in Nat /\ ch.strike \in Nat BY RowTyped DEF Chain
  <2> QED BY <2>1
<1> HIDE DEF value, ch2
<1>3. ch2.cumulative_credit \in Int BY <1>1 DEF Chain
<1>4. ch2.cumulative_credit - value \in Int /\ ch2.cumulative_credit + value \in Int BY <1>2, <1>3
<1>5. ch3 \in Chain BY <1>1, <1>4 DEF Chain
<1>6. Reopen(ch3) \in Chain /\ Reopen(Bought(ch, row)) \in Chain
  <2> HIDE DEF ch3
  <2> QED BY <1>1, <1>5, CloseTyped, BoundsAreTyped
<1> QED BY <1>6 DEF Assigned, value, ch2

\* A new chain is one.
LEMMA NewChainTyped ==
  ASSUME NEW k \in Keys, NEW c \in Contracts, day \in 1..MaxDay
  PROVE NewChain(k, c) \in Chain
BY KeysAreKeys, KeysTyped, BoundsAreTyped DEF NewChain, Chain

\* active_chains points at chains.
LEMMA ActiveTyped ==
  ASSUME TypeOK
  PROVE /\ Active \subseteq 1..Len(chains)
        /\ \A k \in Keys : active[k] # 0 => active[k] \in Active
        /\ \A n \in Active : n \in 1..Len(chains) /\ chains[n] \in Chain
<1>1. \A k \in Keys : active[k] \in 0..Len(chains) BY DEF TypeOK
<1>2. Active \subseteq 1..Len(chains) BY <1>1 DEF Active, TypeOK
<1> QED BY <1>2 DEF Active, TypeOK

\* The chain a row finds is one, and so are the others.
LEMMA FoundTyped ==
  ASSUME TypeOK, NEW k \in Keys
  PROVE /\ active[k] # 0 => Found(k) \in Chain
        /\ Lapsed(k) \in Seq(Chain) /\ Len(Lapsed(k)) = Len(chains)
        /\ \A n \in 1..Len(chains) : Lapsed(k)[n] = IF n = active[k] THEN Found(k) ELSE chains[n]
<1>1. day \in 1..MaxDay /\ chains \in Seq(Chain) BY DEF TypeOK
<1>2. CASE active[k] = 0
  <2>1. \A n \in 1..Len(chains) : n # active[k] BY <1>2
  <2> QED BY <1>1, <1>2, <2>1 DEF Lapsed
<1>3. CASE active[k] # 0
  <2>1. active[k] \in 1..Len(chains) /\ chains[active[k]] \in Chain BY <1>3, ActiveTyped
  <2>2. Found(k) \in Chain BY <1>1, <2>1, LapseTyped DEF Found
  <2>3. Lapsed(k) = [chains EXCEPT ![active[k]] = Found(k)] BY <1>3 DEF Lapsed
  <2> QED BY <1>1, <2>1, <2>2, <2>3
<1> QED BY <1>2, <1>3

\* A read step takes a row and leaves the account as it is.
LEMMA TakeTyped ==
  ASSUME TypeOK, NEW i, NEW kinds, Take(i, kinds)
  PROVE /\ i \in 1..Len(tape) /\ tape[i] \in Row /\ tape' \in Seq(Row) /\ tape' = RemoveAt(tape, i)
        /\ UNCHANGED <<day, phase, feed, held, shares, cash, trades>> /\ phase = "read"
<1>1. i \in 1..Len(tape) /\ tape' = RemoveAt(tape, i) /\ tape \in Seq(Row) BY DEF Take, TypeOK
<1>2. RemoveAt(tape, i) \in Seq(Row) /\ tape[i] \in Row BY <1>1, RemovedParts
<1> QED BY <1>1, <1>2 DEF Take, account

\* Reading a row keeps the types if the chains it leaves are typed.
LEMMA ReadTyped ==
  ASSUME TypeOK, NEW i, NEW kinds, Take(i, kinds),
         chains' \in Seq(Chain), active' \in [Keys -> 0..Len(chains')]
  PROVE TypeOK'
BY TakeTyped DEF TypeOK

\* Replacing a chain leaves typed chains.
LEMMA UpdateTyped ==
  ASSUME TypeOK, NEW n \in 1..Len(chains), NEW ch \in Chain, Update(n, ch)
  PROVE chains' \in Seq(Chain) /\ active' \in [Keys -> 0..Len(chains')] /\ Len(chains') = Len(chains)
BY DEF TypeOK, Update

\* Leaving a row out leaves typed chains.
LEMMA SkipTyped ==
  ASSUME TypeOK, NEW k \in Keys, Skip(k)
  PROVE chains' \in Seq(Chain) /\ active' \in [Keys -> 0..Len(chains')] /\ Len(chains') = Len(chains)
<1>1. Lapsed(k) \in Seq(Chain) /\ Len(Lapsed(k)) = Len(chains) BY FoundTyped
<1> QED BY <1>1 DEF Skip, TypeOK

(***************************************************************************)
(* Types: the actions.                                                     *)
(***************************************************************************)
LEMMA ReportTyped ==
  ASSUME TypeOK, NEW rows \in Seq(Row), Report(rows)
  PROVE tape' \in Seq(Row) /\ tape' = tape \o rows
BY DEF Report, TypeOK

\* A trade keeps the types: no contract has more lots short than MaxLots.
LEMMA TradeTyped ==
  ASSUME TypeOK, NEW c \in Contracts, NEW q \in 1..MaxLots, NEW side \in {"B", "S"},
         SellToOpen(c, q) \/ BuyToClose(c, q) \/ TradeShares(c, side, q)
  PROVE TypeOK'
<1>0. q \in Nat /\ held[c] \in Nat /\ trades \in Nat /\ shares \in Int /\ cash \in Int /\ SharePrice \in Int
  BY BoundsAreTyped DEF TypeOK
<1>1. Trade BY DEF SellToOpen, BuyToClose, TradeShares
<1>2. /\ trades' \in 0..MaxTrades /\ UNCHANGED <<day, phase, feed, chains, active>>
  BY <1>1, BoundsAreTyped DEF Trade, TypeOK
<1>3. ASSUME NEW row \in Row, Report(<<row>>) PROVE tape' \in Seq(Row)
  <2>1. <<row>> \in Seq(Row) OBVIOUS
  <2> QED BY <1>3, <2>1, ReportTyped
<1>4. CASE SellToOpen(c, q)
  <2>1. held' \in [Contracts -> 0..MaxLots] BY <1>0, <1>4, BoundsAreTyped DEF SellToOpen, TypeOK
  <2>2. OptRow("sell", c, "S", q) \in Row BY <1>0, OptRowTyped DEF Kinds
  <2>3. tape' \in Seq(Row) BY <1>3, <1>4, <2>2 DEF SellToOpen
  <2>4. cash' \in Int /\ shares' \in Int BY <1>0, <1>4 DEF SellToOpen
  <2> QED BY <1>2, <2>1, <2>3, <2>4 DEF TypeOK
<1>5. CASE BuyToClose(c, q)
  <2>1. held' \in [Contracts -> 0..MaxLots] BY <1>0, <1>5, BoundsAreTyped DEF BuyToClose, TypeOK
  <2>2. OptRow("buy", c, "B", q) \in Row BY <1>0, OptRowTyped DEF Kinds
  <2>3. tape' \in Seq(Row) BY <1>3, <1>5, <2>2 DEF BuyToClose
  <2>4. cash' \in Int /\ shares' \in Int BY <1>0, <1>5 DEF BuyToClose
  <2> QED BY <1>2, <2>1, <2>3, <2>4 DEF TypeOK
<1>6. CASE TradeShares(c, side, q)
  <2>1. OptRow("stock", c, side, q) \in Row BY <1>0, OptRowTyped DEF Kinds
  <2>2. tape' \in Seq(Row) BY <1>3, <1>6, <2>1 DEF TradeShares
  <2>3. q * SharePrice \in Int
    <3>1. \A a, b \in Int : a * b \in Int OBVIOUS
    <3> QED BY <1>0, <3>1
  <2>4. /\ shares' = IF side = "S" THEN shares - q ELSE shares + q
        /\ cash' = IF side = "S" THEN cash + q * SharePrice ELSE cash - q * SharePrice
        /\ held' = held
    BY <1>6 DEF TradeShares
  <2>5. shares' \in Int BY <1>0, <2>4
  <2>6. cash' \in Int
    <3>1. \A a, b \in Int : a + b \in Int /\ a - b \in Int OBVIOUS
    <3> QED BY <1>0, <2>3, <2>4, <3>1
  <2> QED BY <1>2, <2>2, <2>4, <2>5, <2>6 DEF TypeOK
<1> QED BY <1>4, <1>5, <1>6

\* The rows of an assignment are rows.
LEMMA AssignmentRowsTyped ==
  ASSUME TypeOK, NEW c \in Contracts, NEW q \in Nat
  PROVE AssignmentRows(c, q) \in Seq(Row)
<1> DEFINE side == IF c.right = "P" THEN "B" ELSE "S"
           flex == <<OptRow("assigned", c, "B", q), OptRow("delivered", c, side, q)>>
           poll == <<OptRow("assignedA", c, "A", q), OptRow("copy", c, side, q)>>
<1>1. side \in {"B", "S", "A"} OBVIOUS
<1>2. /\ OptRow("assigned", c, "B", q) \in Row /\ OptRow("assignedA", c, "A", q) \in Row
      /\ OptRow("delivered", c, side, q) \in Row /\ OptRow("copy", c, side, q) \in Row
  <2> HIDE DEF side
  <2> QED BY <1>1, OptRowTyped DEF Kinds
<1> HIDE DEF side
<1>3. flex \in Seq(Row) /\ poll \in Seq(Row) BY <1>2
<1>4. flex \o poll \in Seq(Row)
  <2> HIDE DEF flex, poll
  <2> QED BY <1>3
<1>5. AssignmentRows(c, q) = CASE feed = "flex" -> flex
                               [] feed = "poll" -> poll
                               [] feed = "both" -> flex \o poll
  BY DEF AssignmentRows, side
<1>6. feed \in {"poll", "flex", "both"} BY FeedsAssumption DEF TypeOK
<1> HIDE DEF flex, poll
<1> QED BY <1>3, <1>4, <1>5, <1>6

\* An assignment keeps the types.
LEMMA AssignTyped ==
  ASSUME TypeOK, NEW c \in Contracts, NEW q \in 1..MaxLots, Assign(c, q)
  PROVE TypeOK'
<1>0. /\ q \in Nat /\ held[c] \in 0..MaxLots /\ shares \in Int /\ cash \in Int /\ c.strike \in Nat
      /\ MaxLots \in Nat
  BY BoundsAreTyped, KeysTyped DEF TypeOK
<1>1. AssignmentRows(c, q) \in Seq(Row) BY <1>0, AssignmentRowsTyped
<1>2. tape' \in Seq(Row) BY <1>1, ReportTyped DEF Assign
<1>3. held' \in [Contracts -> 0..MaxLots] BY <1>0 DEF Assign, TypeOK
<1>4. shares' \in Int BY <1>0 DEF Assign
<1>5. cash' \in Int
  <2>1. \A a, b, x \in Int : a * b \in Int /\ x - a * b \in Int /\ x + a * b \in Int OBVIOUS
  <2> QED BY <1>0, <2>1 DEF Assign
<1> QED BY <1>2, <1>3, <1>4, <1>5 DEF Assign, TypeOK

\* The rows of an expiry are rows.
LEMMA ExpiryRowsTyped ==
  ASSUME TypeOK, NEW c \in Contracts, NEW kinds \in Seq({"eae", "zero"})
  PROVE [i \in 1..Len(kinds) |->
           OptRow(kinds[i], c, IF kinds[i] = "eae" /\ c.right = "P" THEN "S" ELSE "B", held[c])] \in Seq(Row)
<1>1. held[c] \in Nat BY BoundsAreTyped DEF TypeOK
<1>2. ASSUME NEW i \in 1..Len(kinds)
      PROVE OptRow(kinds[i], c, IF kinds[i] = "eae" /\ c.right = "P" THEN "S" ELSE "B", held[c]) \in Row
  <2>1. kinds[i] \in Kinds BY DEF Kinds
  <2> QED BY <1>1, <2>1, OptRowTyped
<1> QED BY <1>2

\* An expiry keeps the types.
LEMMA ExpireTyped ==
  ASSUME TypeOK, NEW c \in Contracts, NEW kinds \in Seq({"eae", "zero"}), Expire(c, kinds)
  PROVE TypeOK'
<1>1. tape' \in Seq(Row) BY ExpiryRowsTyped, ReportTyped DEF Expire
<1>2. held' \in [Contracts -> 0..MaxLots] BY BoundsAreTyped DEF Expire, TypeOK
<1> QED BY <1>1, <1>2 DEF Expire, TypeOK

\* Reading a sale keeps the types, on each of its three branches.
LEMMA SellReadTyped ==
  ASSUME TypeOK, NEW i, ReadSellContinues(i) \/ ReadSellRolls(i) \/ ReadSellOpens(i)
  PROVE TypeOK'
<1> DEFINE row == tape[i]
           k == KeyOf(row.contract)
<1>1. Take(i, {"sell"}) BY DEF ReadSellContinues, ReadSellRolls, ReadSellOpens
<1>2. row \in Row /\ k \in Keys /\ row.contract \in Contracts /\ day \in 1..MaxDay
  BY <1>1, TakeTyped, RowTyped DEF TypeOK
<1> HIDE DEF row, k
<1>3. CASE ReadSellContinues(i)
  <2> DEFINE ch == IF Found(k).status = "closed" THEN Reopen(Found(k)) ELSE Found(k)
  <2>1. Continues(k) /\ Update(active[k], Sold(ch, row)) BY <1>3 DEF ReadSellContinues, row, k
  <2>2. active[k] \in 1..Len(chains) /\ Found(k) \in Chain
    BY <1>2, <2>1, ActiveTyped, FoundTyped DEF Continues
  <2>3. ch \in Chain BY <2>2, CloseTyped, BoundsAreTyped
  <2> HIDE DEF ch
  <2>4. Sold(ch, row) \in Chain BY <1>2, <2>3, SoldTyped
  <2> QED BY <1>1, <2>1, <2>2, <2>4, UpdateTyped, ReadTyped
<1>4. CASE ReadSellRolls(i)
  <2>1. PICK n \in RollCandidates(k) :
          /\ chains' = [Lapsed(k) EXCEPT ![n] =
                          Sold([Reopen(Lapsed(k)[n]) EXCEPT !.right = k[1], !.strike = k[2]], row)]
          /\ active' = [j \in Keys |-> CASE j = k                                   -> n
                                         [] j # k /\ j = <<chains[n].right, chains[n].strike>> -> 0
                                         [] OTHER                                   -> active[j]]
    BY <1>4 DEF ReadSellRolls, row, k
  <2>2. n \in 1..Len(chains) BY ActiveTyped DEF RollCandidates
  <2>3. Lapsed(k) \in Seq(Chain) /\ Len(Lapsed(k)) = Len(chains) BY <1>2, FoundTyped
  <2> DEFINE ch == [Reopen(Lapsed(k)[n]) EXCEPT !.right = k[1], !.strike = k[2]]
  <2>4. Reopen(Lapsed(k)[n]) \in Chain BY <2>2, <2>3, CloseTyped, BoundsAreTyped
  <2>5. ch \in Chain
    <3>1. k[1] \in {"P", "C"} /\ k[2] \in Nat BY <1>2, KeysAreKeys
    <3> QED BY <2>4, <3>1 DEF Chain
  <2> HIDE DEF ch
  <2>6. Sold(ch, row) \in Chain BY <1>2, <2>5, SoldTyped
  <2>7. chains' = [Lapsed(k) EXCEPT ![n] = Sold(ch, row)] BY <2>1 DEF ch
  <2>8. chains' \in Seq(Chain) /\ Len(chains') = Len(chains) BY <2>2, <2>3, <2>6, <2>7
  <2>9. active' \in [Keys -> 0..Len(chains')]
    <3>1. \A j \in Keys : active[j] \in 0..Len(chains') /\ n \in 0..Len(chains') /\ 0 \in 0..Len(chains')
      BY <2>2, <2>8 DEF TypeOK
    <3> QED BY <2>1, <3>1
  <2> QED BY <1>1, <2>8, <2>9, ReadTyped
<1>5. CASE ReadSellOpens(i)
  <2>1. /\ chains' = Append(Lapsed(k), Sold(NewChain(k, row.contract), row))
        /\ active' = [active EXCEPT ![k] = Len(chains) + 1]
    BY <1>5 DEF ReadSellOpens, row, k
  <2>2. Lapsed(k) \in Seq(Chain) /\ Len(Lapsed(k)) = Len(chains) BY <1>2, FoundTyped
  <2>3. Sold(NewChain(k, row.contract), row) \in Chain BY <1>2, NewChainTyped, SoldTyped
  <2>4. chains' \in Seq(Chain) /\ Len(chains') = Len(chains) + 1 BY <2>1, <2>2, <2>3
  <2>5. active' \in [Keys -> 0..Len(chains')]
    <3>1. \A j \in Keys : active[j] \in 0..Len(chains') BY <2>4 DEF TypeOK
    <3>2. Len(chains) + 1 \in 0..Len(chains') BY <2>4 DEF TypeOK
    <3> QED BY <2>1, <3>1, <3>2 DEF TypeOK
  <2> QED BY <1>1, <2>4, <2>5, ReadTyped
<1> QED BY <1>3, <1>4, <1>5

\* Reading an expiry record, or leaving one out, keeps the types.
LEMMA ExpiryReadTyped ==
  ASSUME TypeOK, NEW i, ReadExpiration(i) \/ ReadZeroBuySkipped(i)
  PROVE TypeOK'
<1> DEFINE row == tape[i]
           k == KeyOf(row.contract)
           ch == Found(k)
           pos == IF ch.opt_pos < 0 THEN ch.opt_pos + row.qty ELSE ch.opt_pos - row.qty
           closed == IF pos = 0 /\ ch.stk_pos = 0
                     THEN Close(WithShort(ch, pos), day, "expired") ELSE WithShort(ch, pos)
<1>1. PICK kinds : Take(i, kinds) BY DEF ReadExpiration, ReadZeroBuySkipped
<1>2. row \in Row /\ k \in Keys /\ row.qty \in Nat /\ day \in 1..MaxDay
  BY <1>1, TakeTyped, RowTyped DEF TypeOK
<1> HIDE DEF k
<1>3. CASE Skip(k) BY <1>1, <1>2, <1>3, SkipTyped, ReadTyped
<1>4. CASE active[k] # 0 /\ Update(active[k], closed)
  <2>1. active[k] \in 1..Len(chains) /\ ch \in Chain BY <1>2, <1>4, ActiveTyped, FoundTyped
  <2> HIDE DEF row, ch
  <2>2. pos \in Int BY SMTT(30), <1>2, <2>1 DEF Chain
  <2> HIDE DEF pos
  <2>3. WithShort(ch, pos) \in Chain BY <2>1, <2>2, ShortTyped
  <2>4. day \in 0..MaxDay BY <1>2, BoundsAreTyped
  <2>5. closed \in Chain BY <2>3, <2>4, CloseTyped
  <2> HIDE DEF closed
  <2> QED BY <1>1, <1>4, <2>1, <2>5, UpdateTyped, ReadTyped
<1>5. Skip(k) \/ (active[k] # 0 /\ Update(active[k], closed))
  BY DEF ReadExpiration, ReadZeroBuySkipped, k
<1> QED BY <1>3, <1>4, <1>5

\* Reading a buy keeps the types.
LEMMA BuyReadTyped ==
  ASSUME TypeOK, NEW i, ReadBuy(i)
  PROVE TypeOK'
<1> DEFINE row == tape[i]
           k == KeyOf(row.contract)
           ch == Bought(Found(k), row)
           reason == IF row.kind = "zero" THEN "expired" ELSE "bought_back"
           orphan == [Bought(NewChain(k, row.contract), row) EXCEPT !.open_credit = 0]
           closed == IF ch.opt_pos >= 0 /\ ch.stk_pos = 0 THEN Close(ch, day, reason) ELSE ch
<1>1. Take(i, {"buy", "zero"}) BY DEF ReadBuy
<1>2. row \in Row /\ k \in Keys /\ row.contract \in Contracts /\ day \in 1..MaxDay /\ day \in 0..MaxDay
  BY <1>1, TakeTyped, RowTyped DEF TypeOK
<1>3. IF active[k] = 0
      THEN chains' = Append(chains, Close(orphan, day, reason)) /\ UNCHANGED active
      ELSE Update(active[k], closed)
  BY DEF ReadBuy
<1>4. reason \in {"bought_back", "expired", "assigned_closed"} OBVIOUS
<1> HIDE DEF row, k, reason
<1>5. CASE active[k] = 0
  <2>1. Bought(NewChain(k, row.contract), row) \in Chain BY <1>2, NewChainTyped, BoughtTyped
  <2>2. orphan \in Chain BY <2>1 DEF Chain
  <2> HIDE DEF orphan
  <2>3. Close(orphan, day, reason) \in Chain BY <1>2, <1>4, <2>2, CloseTyped
  <2>4. chains' \in Seq(Chain) /\ Len(chains') = Len(chains) + 1
    <3> DEFINE new == Close(orphan, day, reason)
    <3>1. chains' = Append(chains, new) /\ new \in Chain BY <1>3, <1>5, <2>3
    <3>2. chains \in Seq(Chain) BY DEF TypeOK
    <3> HIDE DEF new
    <3> QED BY <3>1, <3>2
  <2>5. active' \in [Keys -> 0..Len(chains')] BY <1>3, <1>5, <2>4 DEF TypeOK
  <2> QED BY <1>1, <2>4, <2>5, ReadTyped
<1>6. CASE active[k] # 0
  <2>1. active[k] \in 1..Len(chains) /\ Found(k) \in Chain BY <1>2, <1>6, ActiveTyped, FoundTyped
  <2>2. ch \in Chain BY <1>2, <2>1, BoughtTyped
  <2> HIDE DEF ch
  <2>3. closed \in Chain BY <1>2, <1>4, <2>2, CloseTyped
  <2> HIDE DEF closed
  <2> QED BY <1>1, <1>3, <1>6, <2>1, <2>3, UpdateTyped, ReadTyped
<1> QED BY <1>5, <1>6

\* Reading an assignment keeps the types.
LEMMA AssignmentReadTyped ==
  ASSUME TypeOK, NEW i, ReadAssignment(i)
  PROVE TypeOK'
<1> DEFINE row == tape[i]
           k == KeyOf(row.contract)
           found(n) == IF row.kind = "assigned" /\ n = active[k] THEN Found(k) ELSE chains[n]
<1>1. Take(i, {"assigned", "assignedA"}) BY DEF ReadAssignment
<1>2. row \in Row /\ k \in Keys BY <1>1, TakeTyped, RowTyped
<1>3. CASE UNCHANGED <<chains, active>> BY <1>1, <1>3, ReadTyped DEF TypeOK
<1>4. ASSUME NEW n \in AssignmentTargets(row), Update(n, Assigned(found(n), row)) PROVE TypeOK'
  <2>1. n \in Active /\ (row.kind = "assigned" /\ n = active[k] => active[k] # 0)
    BY <1>2, ActiveTyped DEF AssignmentTargets, ByConid, ByRight, Active
  <2>2. n \in 1..Len(chains) /\ chains[n] \in Chain BY <2>1, ActiveTyped
  <2>3. found(n) \in Chain BY <1>2, <2>1, <2>2, FoundTyped
  <2> HIDE DEF found, row
  <2>4. Assigned(found(n), row) \in Chain BY <1>2, <2>3, AssignedTyped
  <2> QED BY <1>1, <1>4, <2>2, <2>4, UpdateTyped, ReadTyped
<1>5. \/ UNCHANGED <<chains, active>>
      \/ \E n \in AssignmentTargets(row) : Update(n, Assigned(found(n), row))
  BY DEF ReadAssignment
<1> QED BY <1>3, <1>4, <1>5

\* Reading delivered shares keeps the types.
LEMMA DeliveryReadTyped ==
  ASSUME TypeOK, NEW i, ReadDelivery(i)
  PROVE TypeOK'
<1> DEFINE row == tape[i]
           k == KeyOf(row.contract)
           targets == IF active[k] # 0 THEN {active[k]} ELSE ByRight(k[1])
           flat(n) == IF chains[n].opt_pos < 0 THEN WithShort(chains[n], 0) ELSE chains[n]
           got(n) == [Delivered(flat(n), row) EXCEPT !.cumulative_credit = @ + Credit(row)]
<1>1. Take(i, {"delivered"}) BY DEF ReadDelivery
<1>2. row \in Row /\ k \in Keys /\ Credit(row) \in Int BY <1>1, TakeTyped, RowTyped
<1>3. CASE UNCHANGED <<chains, active>> BY <1>1, <1>3, ReadTyped DEF TypeOK
<1>4. ASSUME NEW n \in targets, Update(n, Reopen(got(n))) PROVE TypeOK'
  <2>1. n \in Active BY <1>2, ActiveTyped DEF ByRight
  <2>2. n \in 1..Len(chains) /\ chains[n] \in Chain BY <2>1, ActiveTyped
  <2>3. flat(n) \in Chain BY <2>2, ShortTyped
  <2> HIDE DEF flat, row
  <2>4. Delivered(flat(n), row) \in Chain BY <1>2, <2>3, DeliveredTyped
  <2>5. got(n) \in Chain
    <3>1. Delivered(flat(n), row).cumulative_credit + Credit(row) \in Int BY <1>2, <2>4 DEF Chain
    <3> QED BY <2>4, <3>1 DEF Chain
  <2> HIDE DEF got
  <2>6. Reopen(got(n)) \in Chain BY <2>5, CloseTyped, BoundsAreTyped
  <2> QED BY <1>1, <1>4, <2>2, <2>6, UpdateTyped, ReadTyped
<1>5. UNCHANGED <<chains, active>> \/ \E n \in targets : Update(n, Reopen(got(n)))
  BY DEF ReadDelivery
<1> QED BY <1>3, <1>4, <1>5

\* Reading a share trade keeps the types.
LEMMA StockReadTyped ==
  ASSUME TypeOK, NEW i, ReadStock(i)
  PROVE TypeOK'
<1> DEFINE row == tape[i]
           targets == {n \in Active : IF row.side = "S" THEN chains[n].stk_pos > 0
                                                        ELSE chains[n].stk_pos < 0}
           ch(n) == [chains[n] EXCEPT
                       !.stk_pos = IF row.side = "S" THEN @ - row.qty ELSE @ + row.qty,
                       !.cumulative_credit = @ + Credit(row)]
           closed(n) == IF ch(n).stk_pos = 0 /\ ch(n).opt_pos >= 0
                        THEN Close(ch(n), day, "assigned_closed") ELSE ch(n)
<1>1. Take(i, {"stock", "copy"}) BY DEF ReadStock
<1>2. row \in Row /\ Credit(row) \in Int /\ row.qty \in Nat /\ day \in 0..MaxDay
  BY SMTT(30), <1>1, TakeTyped, RowTyped DEF TypeOK
<1>3. CASE UNCHANGED <<chains, active>> BY <1>1, <1>3, ReadTyped DEF TypeOK
<1>4. ASSUME NEW n \in Active, Update(n, closed(n)) PROVE TypeOK'
  <2>1. n \in 1..Len(chains) /\ chains[n] \in Chain BY ActiveTyped
  <2> HIDE DEF row
  <2>2. /\ chains[n].stk_pos - row.qty \in Int /\ chains[n].stk_pos + row.qty \in Int
        /\ chains[n].cumulative_credit + Credit(row) \in Int
    BY SMTT(30), <1>2, <2>1 DEF Chain
  <2>3. ch(n) \in Chain BY <2>1, <2>2 DEF Chain
  <2> HIDE DEF ch
  <2>4. closed(n) \in Chain BY <1>2, <2>3, CloseTyped
  <2> HIDE DEF closed
  <2> QED BY <1>1, <1>4, <2>1, <2>4, UpdateTyped, ReadTyped
<1>5. UNCHANGED <<chains, active>> \/ \E n \in targets : Update(n, closed(n))
  BY DEF ReadStock
<1> QED BY <1>3, <1>4, <1>5

\* The empty account is typed.
LEMMA InitTyped == Init => TypeOK
<1>1. <<>> \in Seq(Row) /\ <<>> \in Seq(Chain) OBVIOUS
<1>2. 1 \in 1..MaxDay /\ 0 \in 0..MaxLots /\ 0 \in 0..MaxTrades BY BoundsAreTyped
<1> QED BY <1>1, <1>2 DEF Init, TypeOK

\* Every step keeps the types.
LEMMA StepTyped ==
  ASSUME TypeOK, [Next]_vars
  PROVE TypeOK'
<1>1. CASE UserTrades BY <1>1, TradeTyped DEF UserTrades
<1>2. CASE BrokerSettles
  <2>1. {<<>>, <<"eae">>, <<"zero">>, <<"zero", "eae">>} \subseteq Seq({"eae", "zero"}) OBVIOUS
  <2> QED BY <1>2, <2>1, AssignTyped, ExpireTyped DEF BrokerSettles
<1>3. CASE MarketCloses \/ BooksClose BY <1>3 DEF MarketCloses, BooksClose, account, TypeOK
<1>4. CASE NextDay
  <2>1. day' \in 1..MaxDay BY <1>4, BoundsAreTyped DEF NextDay, TypeOK
  <2> QED BY <1>4, <2>1 DEF NextDay, account, TypeOK
<1>5. ASSUME NEW i \in 1..Len(tape), ReadRow(i) PROVE TypeOK'
  BY <1>5, SellReadTyped, ExpiryReadTyped, BuyReadTyped, AssignmentReadTyped, DeliveryReadTyped,
     StockReadTyped DEF ReadRow
<1>6. CASE UNCHANGED vars BY <1>6 DEF vars, account, TypeOK
<1> QED BY <1>1, <1>2, <1>3, <1>4, <1>5, <1>6 DEF Next

\* Whatever rows an account's history holds, in either feed or both, day trades,
\* partial assignments and overlapping expiries included, the builder's chains keep
\* their types, and every key it looks up is the index of a chain.
THEOREM TypeCorrect == Spec => []TypeOK
<1>1. TypeOK /\ [Next]_vars => TypeOK' BY StepTyped
<1> QED BY <1>1, InitTyped, PTL DEF Spec

(***************************************************************************)
(* What the operations make of a sound chain.                              *)
(***************************************************************************)
KeyOfChain(ch) == <<ch.right, ch.strike>>
Flat(ch)       == ch.opt_pos = 0 /\ ch.stk_pos = 0

\* No long option, a unit of credit for each lot short, and no shares but those its
\* right delivers.
Sound(ch) ==
  /\ ch.opt_pos <= 0
  /\ ch.open_credit = -ch.opt_pos
  /\ ch.right = "P" => ch.stk_pos >= 0
  /\ ch.right = "C" => ch.stk_pos <= 0

\* A chain that the builder may hold between two rows.
ChainOK(ch) ==
  /\ Sound(ch)
  /\ KeyOfChain(ch) = KeyOf(ch.last_conid)
  /\ ch.current_expiry = ch.last_conid.expiry
  /\ ch.last_conid \in ch.conids
  /\ ch.status = "closed" => Flat(ch)

\* What a chain is short of a contract that has not expired.
Live(ch, c) == IF ch.last_conid = c /\ day <= c.expiry THEN -ch.opt_pos ELSE 0

\* The fields that only a row's own amounts change.
Same(ch, new) ==
  /\ new.right = ch.right /\ new.strike = ch.strike /\ new.last_conid = ch.last_conid
  /\ new.current_expiry = ch.current_expiry

\* _short_reduced keeps the credit at a unit a lot.
LEMMA WithShortSound ==
  ASSUME NEW ch \in Chain, Sound(ch), NEW pos \in Int, ch.opt_pos <= pos, pos <= 0
  PROVE /\ WithShort(ch, pos) \in Chain /\ Sound(WithShort(ch, pos)) /\ Same(ch, WithShort(ch, pos))
        /\ WithShort(ch, pos).opt_pos = pos /\ WithShort(ch, pos).stk_pos = ch.stk_pos
        /\ WithShort(ch, pos).cumulative_credit = ch.cumulative_credit
        /\ WithShort(ch, pos).conids = ch.conids /\ WithShort(ch, pos).status = ch.status
<1> DEFINE new == WithShort(ch, pos)
<1>1. new \in Chain BY ShortTyped
<1>2. ch.opt_pos \in Int /\ ch.open_credit \in Int /\ ch.open_credit = -ch.opt_pos
  BY DEF Sound, Chain
<1>3. /\ new.opt_pos = pos /\ new.stk_pos = ch.stk_pos /\ new.cumulative_credit = ch.cumulative_credit
      /\ new.conids = ch.conids /\ new.status = ch.status /\ Same(ch, new)
  BY DEF WithShort, Same, Chain
<1>4. new.open_credit = CASE pos >= 0                  -> 0
                          [] pos < 0 /\ ch.opt_pos < 0 -> (ch.open_credit * (-pos)) \div (-ch.opt_pos)
                          [] OTHER          -> ch.open_credit
  BY DEF WithShort, Chain
<1>5. new.open_credit = -pos
  <2>1. \A a, b \in Int : a > 0 => (a * b) \div a = b OBVIOUS
  <2> HIDE DEF new
  <2>2. CASE pos >= 0
    <3>1. new.open_credit = 0 BY <1>4, <2>2
    <3>2. -pos <= 0 /\ -pos >= 0 /\ -pos \in Int BY <2>2
    <3> QED BY <3>1, <3>2
  <2>3. CASE pos < 0
    <3>1. ch.opt_pos < 0 /\ -ch.opt_pos > 0 /\ -ch.opt_pos \in Int /\ -pos \in Int BY <1>2, <2>3
    <3>2. new.open_credit = ((-ch.opt_pos) * (-pos)) \div (-ch.opt_pos) BY <1>2, <1>4, <2>3, <3>1
    <3> QED BY <2>1, <3>1, <3>2
  <2> QED BY <2>2, <2>3
<1>6. Sound(new)
  <2> HIDE DEF new
  <2> QED BY <1>3, <1>5 DEF Sound, Same
<1> QED BY <1>1, <1>3, <1>6

\* A synthetic expiry touches the short only, and closes a chain left with
\* nothing.
LEMMA LapseSound ==
  ASSUME NEW ch \in Chain, ChainOK(ch), NEW today \in 1..(MaxDay + 1)
  PROVE LET new == Lapse(ch, today) IN
        /\ new \in Chain /\ ChainOK(new) /\ Same(ch, new)
        /\ new.opt_pos = IF ch.current_expiry < today THEN 0 ELSE ch.opt_pos
        /\ new.stk_pos = ch.stk_pos /\ new.cumulative_credit = ch.cumulative_credit
        /\ new.conids = ch.conids
        /\ ~Flat(ch) /\ Flat(new) => new.status = "closed"
        /\ ~(ch.opt_pos < 0 /\ ch.current_expiry < today) => new = ch
<1> DEFINE new == Lapse(ch, today)
           flat == WithShort(ch, 0)
<1>1. Sound(ch) /\ ch.opt_pos \in Int /\ ch.opt_pos <= 0 /\ ch.current_expiry \in Nat BY DEF ChainOK, Sound, Chain
<1>2. CASE ch.opt_pos < 0 /\ ch.current_expiry < today
  <2>1. /\ flat \in Chain /\ Sound(flat) /\ Same(ch, flat) /\ flat.opt_pos = 0
        /\ flat.stk_pos = ch.stk_pos /\ flat.cumulative_credit = ch.cumulative_credit
        /\ flat.conids = ch.conids /\ flat.status = ch.status
    BY <1>1, WithShortSound
  <2>2. new = IF ch.stk_pos = 0 THEN Close(flat, ch.current_expiry, "expired") ELSE flat
    BY <1>2, <2>1 DEF Lapse
  <2>3. ch.status # "closed" BY <1>2 DEF ChainOK, Flat
  <2> HIDE DEF flat, new
  <2>4. CASE ch.stk_pos = 0
    <3>1. new = Close(flat, ch.current_expiry, "expired") BY <2>2, <2>4
    <3>2. ch.current_expiry \in 0..MaxDay BY <1>1, <1>2, BoundsAreTyped
    <3>3. new \in Chain BY <2>1, <3>1, <3>2, CloseTyped
    <3>4. /\ new.opt_pos = 0 /\ new.stk_pos = ch.stk_pos /\ new.cumulative_credit = ch.cumulative_credit
          /\ new.conids = ch.conids /\ new.status = "closed" /\ Same(flat, new)
          /\ new.open_credit = flat.open_credit
      BY <2>1, <3>1 DEF Close, Same, Chain
    <3>5. Same(ch, new) BY <2>1, <3>4 DEF Same
    <3>6. ChainOK(new)
      BY <2>1, <2>4, <3>4, <3>5 DEF ChainOK, Sound, Flat, Same, KeyOfChain
    <3> QED BY <1>2, <3>3, <3>4, <3>5, <3>6 DEF new
  <2>5. CASE ch.stk_pos # 0
    <3>1. new = flat BY <2>2, <2>5
    <3>2. ChainOK(new) BY <2>1, <2>3, <3>1 DEF ChainOK, Same, KeyOfChain
    <3> QED BY <1>2, <2>1, <2>5, <3>1, <3>2 DEF new, Flat
  <2> QED BY <2>4, <2>5
<1>3. CASE ~(ch.opt_pos < 0 /\ ch.current_expiry < today)
  <2>1. new = ch BY <1>3 DEF Lapse
  <2>2. ch.current_expiry < today => ch.opt_pos = 0 BY <1>1, <1>3
  <2> HIDE DEF new
  <2> QED BY <2>1, <2>2 DEF Same, new
<1> QED BY <1>2, <1>3

\* Closing a chain changes only its status.
LEMMA CloseSound ==
  ASSUME NEW ch \in Chain, NEW when \in 0..MaxDay,
         NEW reason \in {"bought_back", "expired", "assigned_closed"}
  PROVE /\ Close(ch, when, reason) \in Chain /\ Same(ch, Close(ch, when, reason))
        /\ Close(ch, when, reason).opt_pos = ch.opt_pos
        /\ Close(ch, when, reason).stk_pos = ch.stk_pos
        /\ Close(ch, when, reason).open_credit = ch.open_credit
        /\ Close(ch, when, reason).cumulative_credit = ch.cumulative_credit
        /\ Close(ch, when, reason).conids = ch.conids
        /\ Close(ch, when, reason).status = "closed"
<1>1. Close(ch, when, reason) \in Chain BY CloseTyped
<1> QED BY <1>1 DEF Close, Chain, Same

\* Reopening one too.
LEMMA ReopenSound ==
  ASSUME NEW ch \in Chain
  PROVE /\ Reopen(ch) \in Chain /\ Same(ch, Reopen(ch)) /\ Reopen(ch).opt_pos = ch.opt_pos
        /\ Reopen(ch).stk_pos = ch.stk_pos /\ Reopen(ch).open_credit = ch.open_credit
        /\ Reopen(ch).cumulative_credit = ch.cumulative_credit
        /\ Reopen(ch).conids = ch.conids /\ Reopen(ch).status = "open"
<1>1. Reopen(ch) \in Chain
  <2>1. 0 \in 0..MaxDay BY BoundsAreTyped
  <2> QED BY <2>1 DEF Chain, Reopen
<1> QED BY <1>1 DEF Reopen, Chain, Same

\* What makes a chain with the fields of a sound one sound.
LEMMA SameIsSound ==
  ASSUME NEW ch, NEW new, Same(ch, new), new.opt_pos = ch.opt_pos, new.stk_pos = ch.stk_pos,
         new.open_credit = ch.open_credit
  PROVE Sound(ch) => Sound(new)
BY DEF Same, Sound

\* A chain whose short is reduced to `pos`, closed if nothing is left of it.
Settled(ch, pos, when, reason) ==
  IF pos = 0 /\ ch.stk_pos = 0 THEN Close(WithShort(ch, pos), when, reason) ELSE WithShort(ch, pos)

\* A short reduced, and closed if nothing is left, is a chain in order.
LEMMA SettledSound ==
  ASSUME NEW ch \in Chain, ChainOK(ch), NEW pos \in Int, ch.opt_pos <= pos, pos <= 0,
         ch.opt_pos < 0, NEW when \in 0..MaxDay,
         NEW reason \in {"bought_back", "expired", "assigned_closed"}
  PROVE LET new == Settled(ch, pos, when, reason) IN
        /\ new \in Chain /\ ChainOK(new) /\ Same(ch, new)
        /\ new.opt_pos = pos /\ new.stk_pos = ch.stk_pos
        /\ new.cumulative_credit = ch.cumulative_credit
        /\ Flat(new) => new.status = "closed"
<1> DEFINE less == WithShort(ch, pos)
           new == Settled(ch, pos, when, reason)
<1>1. Sound(ch) /\ ch.status # "closed" /\ ch.last_conid \in ch.conids BY DEF ChainOK, Flat
<1>2. /\ less \in Chain /\ Sound(less) /\ Same(ch, less)
      /\ less.opt_pos = pos /\ less.stk_pos = ch.stk_pos
      /\ less.cumulative_credit = ch.cumulative_credit
      /\ less.conids = ch.conids /\ less.status = ch.status
  BY <1>1, WithShortSound
<1>3. /\ ~(pos = 0 /\ ch.stk_pos = 0) => new = less
      /\ pos = 0 /\ ch.stk_pos = 0 => new = Close(less, when, reason)
  BY DEF Settled
<1> HIDE DEF less, new
<1>4. CASE pos = 0 /\ ch.stk_pos = 0
  <2>1. /\ new \in Chain /\ Same(less, new) /\ new.opt_pos = 0 /\ new.stk_pos = 0
        /\ new.open_credit = less.open_credit /\ new.cumulative_credit = ch.cumulative_credit
        /\ new.conids = ch.conids /\ new.status = "closed"
    <3>1. new = Close(less, when, reason) BY <1>3, <1>4
    <3>2. /\ new \in Chain /\ Same(less, new) /\ new.opt_pos = less.opt_pos
          /\ new.stk_pos = less.stk_pos /\ new.open_credit = less.open_credit
          /\ new.cumulative_credit = less.cumulative_credit
          /\ new.conids = less.conids /\ new.status = "closed"
      BY ZenonT(40), <1>2, <3>1, CloseSound
    <3> QED BY <1>2, <1>4, <3>2
  <2>2. Sound(new) BY <1>2, <1>4, <2>1, SameIsSound
  <2>3. Same(ch, new) BY <1>2, <2>1 DEF Same
  <2>4. ChainOK(new) BY <1>1, <2>1, <2>2, <2>3 DEF ChainOK, Same, KeyOfChain, Flat
  <2> QED BY <1>4, <2>1, <2>3, <2>4 DEF new
<1>5. CASE ~(pos = 0 /\ ch.stk_pos = 0)
  <2>1. ChainOK(new) BY <1>1, <1>2, <1>3, <1>5 DEF ChainOK, Same, KeyOfChain
  <2>2. ~Flat(new) BY <1>2, <1>3, <1>5 DEF Flat
  <2> QED BY <1>2, <1>3, <1>5, <2>1, <2>2 DEF new
<1> QED BY <1>4, <1>5

\* A chain that pays for what it buys back.
Paid(ch, row) ==
  [ch EXCEPT !.cumulative_credit = @ + Credit(row), !.conids = @ \cup {row.contract}]

\* A buy's cash leaves a chain in order.
LEMMA PaidSound ==
  ASSUME NEW ch \in Chain, ChainOK(ch), NEW row \in Row
  PROVE /\ Paid(ch, row) \in Chain /\ ChainOK(Paid(ch, row)) /\ Same(ch, Paid(ch, row))
        /\ Paid(ch, row).opt_pos = ch.opt_pos /\ Paid(ch, row).stk_pos = ch.stk_pos
        /\ Paid(ch, row).cumulative_credit = ch.cumulative_credit + Credit(row)
        /\ Paid(ch, row).status = ch.status
        /\ Bought(ch, row) = WithShort(Paid(ch, row), ch.opt_pos + row.qty)
<1> DEFINE new == Paid(ch, row)
<1>1. row.contract \in Contracts /\ Credit(row) \in Int BY RowTyped
<1>2. ch.cumulative_credit + Credit(row) \in Int BY <1>1 DEF Chain
<1>3. new \in Chain BY <1>1, <1>2 DEF Paid, Chain
<1>4. /\ new.opt_pos = ch.opt_pos /\ new.stk_pos = ch.stk_pos /\ new.open_credit = ch.open_credit
      /\ new.cumulative_credit = ch.cumulative_credit + Credit(row) /\ new.status = ch.status
      /\ new.conids = ch.conids \cup {row.contract} /\ Same(ch, new)
  BY DEF Paid, Chain, Same
<1>5. Bought(ch, row) = WithShort(new, ch.opt_pos + row.qty) BY DEF Bought, Paid
<1> HIDE DEF new
<1>6. Sound(new) BY <1>4, SameIsSound DEF ChainOK
<1>7. ChainOK(new) BY <1>4, <1>6 DEF ChainOK, Same, KeyOfChain, Flat
<1> QED BY <1>3, <1>4, <1>5, <1>7 DEF new

\* A sale leaves a chain in order, short of the contract sold.
LEMMA SoldSound ==
  ASSUME NEW ch \in Chain, Sound(ch), NEW row \in Row, row.kind = "sell",
         KeyOfChain(ch) = KeyOf(row.contract), ch.status = "open"
  PROVE /\ Sold(ch, row) \in Chain /\ ChainOK(Sold(ch, row))
        /\ KeyOfChain(Sold(ch, row)) = KeyOf(row.contract)
        /\ Sold(ch, row).last_conid = row.contract
        /\ Sold(ch, row).opt_pos = ch.opt_pos - row.qty /\ Sold(ch, row).stk_pos = ch.stk_pos
        /\ Sold(ch, row).cumulative_credit = ch.cumulative_credit + row.qty
<1> DEFINE new == Sold(ch, row)
<1>1. /\ row.qty \in Nat /\ Credit(row) = row.qty /\ ch.opt_pos \in Int
  <2>1. Credit(row) = row.qty BY DEF Credit
  <2> QED BY <2>1, RowTyped DEF Chain
<1>2. new \in Chain BY SoldTyped
<1>3. /\ new.opt_pos = ch.opt_pos - row.qty /\ new.stk_pos = ch.stk_pos
      /\ new.right = ch.right /\ new.strike = ch.strike /\ new.status = "open"
      /\ new.last_conid = row.contract /\ new.current_expiry = row.contract.expiry
      /\ new.conids = ch.conids \cup {row.contract}
      /\ new.cumulative_credit = ch.cumulative_credit + Credit(row)
      /\ new.open_credit = IF ch.opt_pos < 0 THEN ch.open_credit + Credit(row) ELSE Credit(row)
  BY DEF Sold, Chain
<1> HIDE DEF new
<1>4. new.open_credit = -new.opt_pos /\ new.opt_pos <= 0
  <2>1. ch.open_credit = -ch.opt_pos /\ ch.opt_pos <= 0 BY DEF Sound
  <2>2. CASE ch.opt_pos < 0
    <3>1. new.open_credit = -ch.opt_pos + row.qty BY <1>1, <1>3, <2>1, <2>2
    <3> QED BY <1>1, <1>3, <2>1, <3>1
  <2>3. CASE ~(ch.opt_pos < 0)
    <3>1. ch.opt_pos = 0 /\ new.open_credit = row.qty BY <1>1, <1>3, <2>1, <2>3
    <3>2. new.opt_pos = 0 - row.qty BY <1>3, <3>1
    <3>3. \A q \in Nat : q = -(0 - q) /\ 0 - q <= 0 OBVIOUS
    <3> QED BY <1>1, <3>1, <3>2, <3>3
  <2> QED BY <2>2, <2>3
<1>5. Sound(new) BY <1>3, <1>4 DEF Sound
<1>6. ChainOK(new) BY <1>3, <1>5 DEF ChainOK, KeyOfChain
<1> QED BY <1>1, <1>2, <1>3, <1>6 DEF KeyOfChain, new

\* Shares that a row of its right delivers to a chain, or takes from it.
Moved(right, q) == IF right = "P" THEN q ELSE -q

\* Delivered shares leave a chain in order.
LEMMA MovedSound ==
  ASSUME NEW ch \in Chain, ChainOK(ch), NEW new \in Chain, Same(ch, new), new.opt_pos = ch.opt_pos,
         new.open_credit = ch.open_credit, new.conids = ch.conids, new.status = "open",
         NEW q \in Nat, new.stk_pos = ch.stk_pos + Moved(ch.right, q)
  PROVE ChainOK(new)
<1>1. /\ ch.right \in {"P", "C"} /\ ch.stk_pos \in Int /\ new.right = ch.right
      /\ ch.right = "P" => ch.stk_pos >= 0
      /\ ch.right = "C" => ch.stk_pos <= 0
  BY DEF Chain, ChainOK, Sound, Same
<1>2. (ch.right = "P" => new.stk_pos >= 0) /\ (ch.right = "C" => new.stk_pos <= 0)
  <2>1. CASE ch.right = "P"
    <3>1. new.stk_pos = ch.stk_pos + q BY <2>1 DEF Moved
    <3> QED BY <1>1, <2>1, <3>1
  <2>2. CASE ch.right = "C"
    <3>1. new.stk_pos = ch.stk_pos + (-q) BY <2>2 DEF Moved
    <3> QED BY <1>1, <2>2, <3>1
  <2> QED BY <1>1, <2>1, <2>2
<1>3. Sound(new) BY <1>1, <1>2 DEF ChainOK, Sound, Same
<1> QED BY <1>3 DEF ChainOK, Same, KeyOfChain

\* The fields that delivered shares change.
LEMMA DeliveredFields ==
  ASSUME NEW ch \in Chain, NEW row \in Row
  PROVE LET new == Delivered(ch, row) IN
        /\ new \in Chain /\ Same(ch, new) /\ new.opt_pos = ch.opt_pos
        /\ new.open_credit = ch.open_credit /\ new.conids = ch.conids
        /\ new.cumulative_credit = ch.cumulative_credit
        /\ new.stk_pos = ch.stk_pos + Moved(ch.right, row.qty)
<1> DEFINE new == Delivered(ch, row)
<1>1. row.qty \in Nat /\ ch.stk_pos \in Int BY RowTyped DEF Chain
<1>2. new \in Chain BY DeliveredTyped
<1>3. /\ Same(ch, new) /\ new.opt_pos = ch.opt_pos
      /\ new.open_credit = ch.open_credit /\ new.conids = ch.conids
      /\ new.cumulative_credit = ch.cumulative_credit
      /\ new.stk_pos = IF ch.right = "P" THEN ch.stk_pos + row.qty ELSE ch.stk_pos - row.qty
  BY DEF Delivered, Same, Chain
<1>4. \A a \in Int, q \in Nat : a - q = a + (-q) OBVIOUS
<1> HIDE DEF new
<1>5. new.stk_pos = ch.stk_pos + Moved(ch.right, row.qty) BY <1>1, <1>3, <1>4 DEF Moved
<1> QED BY <1>2, <1>3, <1>5 DEF new

\* The option leg of an assignment.
LEMMA AssignedSound ==
  ASSUME NEW ch \in Chain, ChainOK(ch), NEW row \in Row, row.kind \in {"assigned", "assignedA"},
         row.qty >= 1, ch.opt_pos + row.qty <= 0
  PROVE LET new == Assigned(ch, row) IN
        /\ new \in Chain /\ ChainOK(new) /\ Same(ch, new) /\ new.status = "open"
        /\ new.opt_pos = ch.opt_pos + row.qty
        /\ feed = "poll" =>
             /\ new.stk_pos = ch.stk_pos + Moved(ch.right, row.qty)
             /\ new.cumulative_credit = ch.cumulative_credit - Moved(ch.right, row.qty * ch.strike)
        /\ feed # "poll" =>
             new.stk_pos = ch.stk_pos /\ new.cumulative_credit = ch.cumulative_credit
<1> DEFINE value == row.qty * ch.strike
           less == Bought(ch, row)
           got == Delivered(less, row)
           booked == [got EXCEPT !.cumulative_credit = IF ch.right = "P" THEN @ - value ELSE @ + value]
           new == Assigned(ch, row)
<1>1. /\ row.qty \in Nat /\ ch.opt_pos \in Int /\ ch.cumulative_credit \in Int /\ ch.strike \in Nat
      /\ ch.right \in {"P", "C"}
  BY RowTyped DEF Chain
<1>2. Credit(row) = 0 BY DEF Credit
<1>3. /\ Paid(ch, row) \in Chain /\ ChainOK(Paid(ch, row)) /\ Same(ch, Paid(ch, row))
      /\ Paid(ch, row).opt_pos = ch.opt_pos /\ Paid(ch, row).stk_pos = ch.stk_pos
      /\ Paid(ch, row).cumulative_credit = ch.cumulative_credit
      /\ Paid(ch, row).status = ch.status
      /\ less = WithShort(Paid(ch, row), ch.opt_pos + row.qty)
  BY <1>1, <1>2, PaidSound
<1>4. /\ less \in Chain /\ Sound(less) /\ Same(Paid(ch, row), less)
      /\ less.opt_pos = ch.opt_pos + row.qty /\ less.stk_pos = ch.stk_pos
      /\ less.cumulative_credit = ch.cumulative_credit
      /\ less.conids = Paid(ch, row).conids /\ less.status = ch.status
  <2>1. ch.opt_pos + row.qty \in Int /\ ch.opt_pos <= ch.opt_pos + row.qty BY <1>1
  <2>2. Sound(Paid(ch, row)) BY <1>3 DEF ChainOK
  <2> HIDE DEF less
  <2> QED BY <1>3, <2>1, <2>2, WithShortSound
<1>5. Same(ch, less) BY <1>3, <1>4 DEF Same
<1>6. ch.status # "closed"
  <2>1. ch.opt_pos # 0 BY <1>1
  <2> QED BY <2>1 DEF ChainOK, Flat
<1> HIDE DEF less
<1>7. ChainOK(less) BY <1>3, <1>4, <1>6 DEF ChainOK, Same, KeyOfChain
<1>8. CASE feed # "poll"
  <2>1. new = Reopen(less) BY <1>8 DEF Assigned, less
  <2>2. /\ new \in Chain /\ Same(less, new) /\ new.opt_pos = less.opt_pos /\ new.stk_pos = less.stk_pos
        /\ new.open_credit = less.open_credit /\ new.cumulative_credit = less.cumulative_credit
        /\ new.conids = less.conids /\ new.status = "open"
    BY <1>4, <2>1, ReopenSound
  <2> HIDE DEF new
  <2>3. Sound(new) BY <1>4, <2>2, SameIsSound
  <2>4. ChainOK(new) BY <1>7, <2>2, <2>3 DEF ChainOK, Same, KeyOfChain
  <2>5. Same(ch, new) BY <1>5, <2>2 DEF Same
  <2> QED BY <1>4, <1>8, <2>2, <2>4, <2>5 DEF new
<1>9. CASE feed = "poll"
  <2>1. new = Reopen(booked) BY <1>9 DEF Assigned, less
  <2>2. /\ got \in Chain /\ Same(less, got) /\ got.opt_pos = less.opt_pos
        /\ got.open_credit = less.open_credit /\ got.conids = less.conids
        /\ got.cumulative_credit = less.cumulative_credit
        /\ got.stk_pos = less.stk_pos + Moved(less.right, row.qty)
    BY <1>4, DeliveredFields
  <2> HIDE DEF got
  <2>3. value \in Int
    <3>1. \A a, b \in Nat : a * b \in Int OBVIOUS
    <3> QED BY <1>1, <3>1
  <2>4. got.cumulative_credit \in Int BY <2>2 DEF Chain
  <2>5. /\ booked.cumulative_credit = ch.cumulative_credit - Moved(ch.right, value)
        /\ booked.cumulative_credit \in Int
    <3> HIDE DEF value
    <3>1. booked.cumulative_credit = IF ch.right = "P" THEN got.cumulative_credit - value
                                                       ELSE got.cumulative_credit + value
      BY <2>2 DEF Chain
    <3> HIDE DEF booked
    <3>2. got.cumulative_credit = ch.cumulative_credit BY <1>4, <2>2
    <3>3. \A a, b \in Int : a - b \in Int /\ a + b \in Int /\ a + b = a - (-b) OBVIOUS
    <3> QED BY <1>1, <2>3, <3>1, <3>2, <3>3 DEF Moved
  <2> HIDE DEF value
  <2>6. /\ booked \in Chain /\ Same(got, booked) /\ booked.opt_pos = got.opt_pos
        /\ booked.open_credit = got.open_credit /\ booked.conids = got.conids
        /\ booked.stk_pos = got.stk_pos
    <3>1. booked = [got EXCEPT !.cumulative_credit = booked.cumulative_credit] BY <2>2 DEF Chain
    <3> DEFINE sum == booked.cumulative_credit
    <3>2. sum \in Int /\ booked = [got EXCEPT !.cumulative_credit = sum] BY <2>5, <3>1
    <3> HIDE DEF sum, booked
    <3> QED BY <2>2, <3>2 DEF Chain, Same
  <2> HIDE DEF booked
  <2>7. /\ new \in Chain /\ Same(booked, new) /\ new.opt_pos = booked.opt_pos
        /\ new.stk_pos = booked.stk_pos /\ new.open_credit = booked.open_credit
        /\ new.cumulative_credit = booked.cumulative_credit
        /\ new.conids = booked.conids /\ new.status = "open"
    BY <2>1, <2>6, ReopenSound
  <2> HIDE DEF new
  <2>8. Same(less, new) BY <2>2, <2>6, <2>7 DEF Same
  <2>9. ChainOK(new)
    <3>1. /\ new.opt_pos = less.opt_pos /\ new.open_credit = less.open_credit
          /\ new.conids = less.conids /\ new.stk_pos = less.stk_pos + Moved(less.right, row.qty)
      BY <2>2, <2>6, <2>7
    <3> QED BY <1>1, <1>4, <1>7, <2>7, <2>8, <3>1, MovedSound
  <2>10. Same(ch, new) /\ less.right = ch.right BY <1>5, <2>8 DEF Same
  <2> QED BY <1>4, <1>9, <2>2, <2>5, <2>6, <2>7, <2>9, <2>10 DEF new, value
<1> QED BY <1>8, <1>9

\* The shares of an assignment, booked to a chain that is no longer short.
LEMMA DeliverySound ==
  ASSUME NEW ch \in Chain, ChainOK(ch), NEW row \in Row
  PROVE LET new == Reopen([Delivered(ch, row) EXCEPT !.cumulative_credit = @ + Credit(row)]) IN
        /\ new \in Chain /\ ChainOK(new) /\ Same(ch, new) /\ new.status = "open"
        /\ new.opt_pos = ch.opt_pos
        /\ new.stk_pos = ch.stk_pos + Moved(ch.right, row.qty)
        /\ new.cumulative_credit = ch.cumulative_credit + Credit(row)
<1> DEFINE got == Delivered(ch, row)
           booked == [got EXCEPT !.cumulative_credit = @ + Credit(row)]
           new == Reopen(booked)
<1>1. row.qty \in Nat /\ Credit(row) \in Int BY RowTyped
<1>2. /\ got \in Chain /\ Same(ch, got) /\ got.opt_pos = ch.opt_pos
      /\ got.open_credit = ch.open_credit /\ got.conids = ch.conids
      /\ got.cumulative_credit = ch.cumulative_credit
      /\ got.stk_pos = ch.stk_pos + Moved(ch.right, row.qty)
  BY DeliveredFields
<1> HIDE DEF got
<1> DEFINE sum == got.cumulative_credit + Credit(row)
<1>3. sum \in Int /\ booked = [got EXCEPT !.cumulative_credit = sum] BY <1>1, <1>2 DEF Chain
<1>4. sum = ch.cumulative_credit + Credit(row) BY <1>2
<1> HIDE DEF sum, booked
<1>5. /\ booked \in Chain /\ Same(got, booked) /\ booked.opt_pos = got.opt_pos
      /\ booked.open_credit = got.open_credit /\ booked.conids = got.conids
      /\ booked.stk_pos = got.stk_pos /\ booked.cumulative_credit = sum
  BY <1>2, <1>3 DEF Chain, Same
<1>6. /\ new \in Chain /\ Same(booked, new) /\ new.opt_pos = booked.opt_pos
      /\ new.stk_pos = booked.stk_pos /\ new.open_credit = booked.open_credit
      /\ new.cumulative_credit = booked.cumulative_credit
      /\ new.conids = booked.conids /\ new.status = "open"
  BY <1>5, ReopenSound
<1> HIDE DEF new
<1>7. Same(ch, new) BY <1>2, <1>5, <1>6 DEF Same
<1>8. ChainOK(new)
  <2>1. /\ new.opt_pos = ch.opt_pos /\ new.open_credit = ch.open_credit
        /\ new.conids = ch.conids /\ new.stk_pos = ch.stk_pos + Moved(ch.right, row.qty)
    BY <1>2, <1>5, <1>6
  <2> QED BY <1>1, <1>6, <1>7, <2>1, MovedSound
<1> QED BY <1>2, <1>4, <1>5, <1>6, <1>7, <1>8 DEF new, booked, got

\* What a share trade makes of the chain it finds.
Traded(ch, row) ==
  LET less == [ch EXCEPT
                 !.stk_pos = IF row.side = "S" THEN @ - row.qty ELSE @ + row.qty,
                 !.cumulative_credit = @ + Credit(row)] IN
  IF less.stk_pos = 0 /\ less.opt_pos >= 0 THEN Close(less, day, "assigned_closed") ELSE less

\* A share trade leaves a chain in order, closed if nothing is left.
LEMMA TradedSound ==
  ASSUME NEW ch \in Chain, ChainOK(ch), NEW row \in Row, row.qty = 1, day \in 1..MaxDay,
         row.side \in {"B", "S"}, IF row.side = "S" THEN ch.stk_pos > 0 ELSE ch.stk_pos < 0
  PROVE /\ Traded(ch, row) \in Chain /\ ChainOK(Traded(ch, row)) /\ Same(ch, Traded(ch, row))
        /\ Traded(ch, row).opt_pos = ch.opt_pos
        /\ Traded(ch, row).stk_pos = IF row.side = "S" THEN ch.stk_pos - 1 ELSE ch.stk_pos + 1
        /\ Traded(ch, row).cumulative_credit = ch.cumulative_credit + Credit(row)
        /\ Flat(Traded(ch, row)) => Traded(ch, row).status = "closed"
<1> DEFINE pos == IF row.side = "S" THEN ch.stk_pos - row.qty ELSE ch.stk_pos + row.qty
           sum == ch.cumulative_credit + Credit(row)
           less == [ch EXCEPT !.stk_pos = pos, !.cumulative_credit = sum]
           new == Traded(ch, row)
<1>1. /\ Credit(row) \in Int /\ ch.stk_pos \in Int /\ ch.right \in {"P", "C"} /\ ch.opt_pos \in Int
      /\ ch.opt_pos <= 0
      /\ ch.right = "P" => ch.stk_pos >= 0
      /\ ch.right = "C" => ch.stk_pos <= 0
      /\ ch.status # "closed"
  BY RowTyped DEF Chain, ChainOK, Sound, Flat
<1>2. pos \in Int /\ sum \in Int BY <1>1 DEF Chain
<1>3. pos = IF row.side = "S" THEN ch.stk_pos - 1 ELSE ch.stk_pos + 1 OBVIOUS
<1>4. (ch.right = "P" => pos >= 0) /\ (ch.right = "C" => pos <= 0) BY <1>1, <1>3
<1>5. new = IF less.stk_pos = 0 /\ less.opt_pos >= 0 THEN Close(less, day, "assigned_closed") ELSE less
  BY DEF Traded, Chain
<1> HIDE DEF pos, sum, new
<1>6. /\ less \in Chain /\ Same(ch, less) /\ less.opt_pos = ch.opt_pos /\ less.stk_pos = pos
      /\ less.open_credit = ch.open_credit /\ less.cumulative_credit = sum
      /\ less.conids = ch.conids /\ less.status = ch.status
  BY <1>2 DEF Chain, Same
<1> HIDE DEF less
<1>7. Sound(less) BY <1>4, <1>6 DEF Same, ChainOK, Sound
<1>8. ChainOK(less) BY <1>1, <1>6, <1>7 DEF ChainOK, Same, KeyOfChain
<1>9. CASE ~(less.stk_pos = 0 /\ less.opt_pos >= 0)
  <2>1. new = less /\ ~Flat(new) BY <1>1, <1>5, <1>6, <1>9 DEF Flat
  <2> QED BY <1>3, <1>6, <1>8, <2>1 DEF new, sum
<1>10. CASE less.stk_pos = 0 /\ less.opt_pos >= 0
  <2>1. new = Close(less, day, "assigned_closed") /\ day \in 0..MaxDay BY <1>5, <1>10
  <2>2. /\ new \in Chain /\ Same(less, new) /\ new.opt_pos = less.opt_pos
        /\ new.stk_pos = less.stk_pos /\ new.open_credit = less.open_credit
        /\ new.cumulative_credit = less.cumulative_credit /\ new.conids = less.conids
        /\ new.status = "closed"
    BY <1>6, <2>1, CloseSound
  <2>3. Sound(new) BY <1>7, <2>2, SameIsSound
  <2>4. Flat(new) BY <1>1, <1>6, <1>10, <2>2 DEF Flat
  <2>5. ChainOK(new) BY <1>8, <2>2, <2>3, <2>4 DEF ChainOK, Same, KeyOfChain
  <2>6. Same(ch, new) BY <1>6, <2>2 DEF Same
  <2> QED BY <1>3, <1>6, <2>2, <2>5, <2>6 DEF new, sum
<1> QED BY <1>9, <1>10

(***************************************************************************)
(* The chains between two rows.                                            *)
(***************************************************************************)
AllSound  == \A n \in 1..Len(chains) : ChainOK(chains[n])
KeysFit   == \A k \in Keys : active[k] # 0 => KeyOfChain(chains[active[k]]) = k
GoneClosed == \A n \in 1..Len(chains) : n \notin Active => chains[n].status = "closed"

Orderly == AllSound /\ KeysFit /\ GoneClosed

\* The lots of an unexpired contract that the chains are short.
ShortOf(c) == IF active[KeyOf(c)] = 0 THEN 0 ELSE Live(chains[active[KeyOf(c)]], c)

\* The chain of a key is in order and at that key.
LEMMA ActiveFacts ==
  ASSUME TypeOK, Orderly, NEW k \in Keys, active[k] # 0
  PROVE /\ active[k] \in 1..Len(chains) /\ active[k] \in Active
        /\ chains[active[k]] \in Chain /\ ChainOK(chains[active[k]])
        /\ KeyOfChain(chains[active[k]]) = k
        /\ k[1] = chains[active[k]].right /\ k[2] = chains[active[k]].strike
<1>1. active[k] \in 1..Len(chains) /\ active[k] \in Active /\ chains[active[k]] \in Chain
  BY ActiveTyped
<1>2. ChainOK(chains[active[k]]) /\ KeyOfChain(chains[active[k]]) = k
  BY <1>1 DEF Orderly, AllSound, KeysFit
<1> QED BY <1>1, <1>2 DEF KeyOfChain

\* A chain that is found by a key is found by its own.
LEMMA ActiveKey ==
  ASSUME TypeOK, Orderly, NEW n \in Active
  PROVE /\ KeyOfChain(chains[n]) \in Keys /\ active[KeyOfChain(chains[n])] = n
        /\ n \in 1..Len(chains) /\ chains[n] \in Chain /\ ChainOK(chains[n])
<1>1. PICK k \in Keys : active[k] = n /\ n # 0 BY DEF Active
<1> QED BY <1>1, ActiveFacts

\* What a chain is short of a contract is a number of lots.
LEMMA LiveTyped ==
  ASSUME NEW ch \in Chain, Sound(ch), NEW c
  PROVE Live(ch, c) \in Nat
<1>1. ch.opt_pos \in Int /\ ch.opt_pos <= 0 BY DEF Chain, Sound
<1> QED BY <1>1 DEF Live

\* So is what the chains are short of it.
LEMMA ShortTypes ==
  ASSUME TypeOK, Orderly, NEW c \in Contracts
  PROVE ShortOf(c) \in Nat
<1>1. KeyOf(c) \in Keys BY KeysTyped
<1>2. CASE active[KeyOf(c)] = 0 BY <1>2 DEF ShortOf
<1>3. CASE active[KeyOf(c)] # 0
  <2>1. /\ chains[active[KeyOf(c)]] \in Chain /\ Sound(chains[active[KeyOf(c)]])
    BY <1>1, <1>3, ActiveFacts DEF ChainOK
  <2> QED BY <1>3, <2>1, LiveTyped DEF ShortOf
<1> QED BY <1>2, <1>3

\* What a row finds under its key.
LEMMA FoundSound ==
  ASSUME TypeOK, Orderly, NEW k \in Keys, active[k] # 0
  PROVE LET old == chains[active[k]]
            ch  == Found(k) IN
        /\ ch \in Chain /\ ChainOK(ch) /\ Same(old, ch) /\ KeyOfChain(ch) = k
        /\ ch.stk_pos = old.stk_pos /\ ch.cumulative_credit = old.cumulative_credit
        /\ old.opt_pos = 0 => ch = old
        /\ Flat(ch) => ch = old \/ ch.status = "closed"
        /\ \A o \in Contracts : KeyOf(o) = k => ShortOf(o) = Live(ch, o)
        /\ ch.opt_pos < 0 =>
             /\ ch = old /\ ch.last_conid \in Contracts /\ KeyOf(ch.last_conid) = k
             /\ ShortOf(ch.last_conid) = -ch.opt_pos /\ day <= ch.last_conid.expiry
<1> DEFINE n == active[k]
           old == chains[n]
           ch == Found(k)
<1>1. /\ old \in Chain /\ ChainOK(old) /\ KeyOfChain(old) = k BY ActiveFacts
<1>2. ch = Lapse(old, day) /\ day \in 1..(MaxDay + 1) BY BoundsAreTyped DEF Found, TypeOK
<1>4. \A o \in Contracts : KeyOf(o) = k => ShortOf(o) = Live(old, o) BY DEF ShortOf
<1> HIDE DEF n, old, ch
<1>3. /\ old.opt_pos \in Int /\ old.opt_pos <= 0 /\ old.last_conid \in Contracts
      /\ old.current_expiry = old.last_conid.expiry /\ old.current_expiry \in Nat /\ day \in Nat
  <2>1. day \in Nat BY BoundsAreTyped DEF TypeOK
  <2>2. Sound(old) /\ old.current_expiry = old.last_conid.expiry BY <1>1 DEF ChainOK
  <2> QED BY <1>1, <2>1, <2>2 DEF Sound, Chain
<1>5. /\ ch \in Chain /\ ChainOK(ch) /\ Same(old, ch)
      /\ ch.opt_pos = IF old.current_expiry < day THEN 0 ELSE old.opt_pos
      /\ ch.stk_pos = old.stk_pos /\ ch.cumulative_credit = old.cumulative_credit
      /\ ~Flat(old) /\ Flat(ch) => ch.status = "closed"
      /\ ~(old.opt_pos < 0 /\ old.current_expiry < day) => ch = old
  BY <1>1, <1>2, LapseSound
<1>6. KeyOfChain(ch) = k BY <1>1, <1>5 DEF Same, KeyOfChain
<1>7. old.opt_pos = 0 => ch = old BY <1>5
<1>8. Flat(ch) => ch = old \/ ch.status = "closed"
  BY <1>5 DEF Flat
<1>9. ASSUME NEW o \in Contracts, KeyOf(o) = k PROVE ShortOf(o) = Live(ch, o)
  <2>1. ShortOf(o) = Live(old, o) BY <1>4, <1>9
  <2>2. ch.last_conid = old.last_conid BY <1>5 DEF Same
  <2>3. CASE old.last_conid = o /\ day <= o.expiry
    <3>1. ch.opt_pos = old.opt_pos BY <1>3, <1>5, <2>3
    <3> QED BY <2>1, <2>2, <3>1 DEF Live
  <2>4. CASE ~(old.last_conid = o /\ day <= o.expiry) BY <2>1, <2>2, <2>4 DEF Live
  <2> QED BY <2>3, <2>4
<1>10. ASSUME ch.opt_pos < 0
       PROVE /\ ch = old /\ ch.last_conid \in Contracts /\ KeyOf(ch.last_conid) = k
             /\ ShortOf(ch.last_conid) = -ch.opt_pos /\ day <= ch.last_conid.expiry
  <2>1. ~(old.current_expiry < day) BY <1>5, <1>10
  <2>2. ch = old BY <1>5, <2>1
  <2>3. day <= old.last_conid.expiry BY <1>3, <2>1
  <2>4. KeyOf(old.last_conid) = k BY <1>1 DEF ChainOK
  <2>5. ShortOf(old.last_conid) = Live(old, old.last_conid) BY <1>3, <1>4, <2>4
  <2> QED BY <1>3, <2>2, <2>3, <2>4, <2>5 DEF Live
<1> QED BY <1>5, <1>6, <1>7, <1>8, <1>9, <1>10 DEF ch, old, n

\* A live short is that of the chain its key finds.
LEMMA ShortIsActive ==
  ASSUME TypeOK, Orderly, NEW c \in Contracts, ShortOf(c) > 0
  PROVE LET n == active[KeyOf(c)] IN
        /\ KeyOf(c) \in Keys /\ n # 0 /\ n \in 1..Len(chains) /\ n \in Active
        /\ chains[n].last_conid = c /\ chains[n].opt_pos = -ShortOf(c) /\ day <= c.expiry
        /\ Found(KeyOf(c)) = chains[n]
        /\ \A o \in Contracts \ {c} : KeyOf(o) = KeyOf(c) => ShortOf(o) = 0
<1> DEFINE n == active[KeyOf(c)]
           old == chains[n]
<1>1. KeyOf(c) \in Keys BY KeysTyped
<1>2. n # 0 BY DEF ShortOf
<1>3. /\ n \in 1..Len(chains) /\ n \in Active /\ old \in Chain /\ ChainOK(old) BY <1>1, <1>2, ActiveFacts
<1>4. ShortOf(c) = Live(old, c) BY <1>2 DEF ShortOf
<1>5. \A o \in Contracts : KeyOf(o) = KeyOf(c) => ShortOf(o) = Live(old, o) BY <1>2 DEF ShortOf
<1>6. Found(KeyOf(c)) = Lapse(old, day) BY DEF Found
<1> HIDE DEF old, n
<1>7. old.last_conid = c /\ day <= c.expiry /\ ShortOf(c) = -old.opt_pos BY <1>4 DEF Live
<1>8. old.opt_pos \in Int /\ old.current_expiry = c.expiry /\ c.expiry \in Nat /\ day \in Nat
  BY <1>3, <1>7, KeysTyped, BoundsAreTyped DEF Chain, ChainOK, TypeOK
<1>9. old.opt_pos = -ShortOf(c) BY <1>7, <1>8
<1>10. Lapse(old, day) = old
  <2>1. ~(old.current_expiry < day) BY <1>7, <1>8
  <2> QED BY <2>1 DEF Lapse
<1>11. \A o \in Contracts \ {c} : KeyOf(o) = KeyOf(c) => ShortOf(o) = 0
  BY <1>5, <1>7 DEF Live
<1> QED BY <1>1, <1>2, <1>3, <1>6, <1>7, <1>9, <1>10, <1>11 DEF old, n

(***************************************************************************)
(* What a row that is read does to the chains.                             *)
(***************************************************************************)
CreditOf == [ch \in Chain |-> ch.cumulative_credit]
LongOf   == [ch \in Chain |-> IF ch.stk_pos > 0 THEN ch.stk_pos ELSE 0]
CoverOf  == [ch \in Chain |-> IF ch.stk_pos < 0 THEN -ch.stk_pos ELSE 0]

\* What is summed over the chains is integers.
LEMMA ChainSums ==
  CreditOf \in [Chain -> Int] /\ LongOf \in [Chain -> Int] /\ CoverOf \in [Chain -> Int]
<1>1. \A ch \in Chain : ch.cumulative_credit \in Int /\ ch.stk_pos \in Int BY DEF Chain
<1> QED BY <1>1 DEF CreditOf, LongOf, CoverOf

\* Replacing a key's chain: the shorts at other keys stay, the totals change by
\* the difference.
LEMMA UpdateEffect ==
  ASSUME TypeOK, Orderly, NEW k \in Keys, active[k] # 0, NEW new \in Chain, ChainOK(new),
         KeyOfChain(new) = k, Update(active[k], new), day' = day
  PROVE /\ Orderly'
        /\ \A o \in Contracts : ShortOf(o)' = IF KeyOf(o) = k THEN Live(new, o) ELSE ShortOf(o)
        /\ \A f \in [Chain -> Int] :
             Total(f, chains') = Total(f, chains) - f[chains[active[k]]] + f[new]
        /\ active' = active /\ Len(chains') = Len(chains)
        /\ \A n \in 1..Len(chains) : chains'[n] = IF n = active[k] THEN new ELSE chains[n]
<1> DEFINE m == active[k]
<1>1. /\ m \in 1..Len(chains) /\ m \in Active /\ chains \in Seq(Chain)
  BY ActiveFacts DEF TypeOK
<1>2. chains' = [chains EXCEPT ![m] = new] /\ active' = active BY DEF Update
<1>3. /\ Len(chains') = Len(chains)
      /\ \A n \in 1..Len(chains) : chains'[n] = IF n = m THEN new ELSE chains[n]
  BY <1>1, <1>2
<1>4. \A f \in [Chain -> Int] : Total(f, chains') = Total(f, chains) - f[chains[m]] + f[new]
  BY ZenonT(40), <1>1, <1>2, TotalExcept
<1>5. \A j \in Keys : active[j] # 0 => active[j] \in 1..Len(chains) /\ (active[j] = m => j = k)
  BY ActiveFacts
<1>6. AllSound'
  <2>1. \A n \in 1..Len(chains) : ChainOK(chains[n]) BY DEF Orderly, AllSound
  <2> QED BY <1>3, <2>1 DEF AllSound
<1>7. KeysFit' BY <1>2, <1>3, <1>5 DEF Orderly, KeysFit
<1>8. GoneClosed'
  <2>1. Active' = Active BY <1>2 DEF Active
  <2> QED BY <1>1, <1>3, <2>1 DEF Orderly, GoneClosed
<1>9. ASSUME NEW o \in Contracts
      PROVE ShortOf(o)' = IF KeyOf(o) = k THEN Live(new, o) ELSE ShortOf(o)
  <2>1. KeyOf(o) \in Keys BY KeysTyped
  <2>2. ShortOf(o)' = IF active[KeyOf(o)] = 0 THEN 0 ELSE Live(chains'[active[KeyOf(o)]], o)
    BY <1>2 DEF ShortOf, Live
  <2>3. CASE KeyOf(o) = k
    <3>1. chains'[active[KeyOf(o)]] = new BY <1>1, <1>3, <2>3
    <3> QED BY <2>2, <2>3, <3>1
  <2>4. CASE KeyOf(o) # k
    <3>1. active[KeyOf(o)] # 0 => chains'[active[KeyOf(o)]] = chains[active[KeyOf(o)]]
      BY <1>3, <1>5, <2>1, <2>4
    <3> QED BY <2>2, <2>4, <3>1 DEF ShortOf
  <2> QED BY <2>3, <2>4
<1> QED BY <1>2, <1>3, <1>4, <1>6, <1>7, <1>8, <1>9 DEF Orderly

\* The amounts of a row: cash, and the shares it puts into the chains of puts or of calls.
Money(row) ==
  CASE row.kind \in {"sell", "buy", "stock"}      -> Credit(row)
    [] row.kind \in {"assignedA", "delivered"}    ->
         -Moved(row.contract.right, row.qty * row.contract.strike)
    [] OTHER -> 0
LongIn(row) ==
  CASE row.kind \in {"assignedA", "delivered"} /\ row.contract.right = "P" -> row.qty
    [] row.kind = "stock" /\ row.side = "S" -> -row.qty
    [] OTHER -> 0
CoverIn(row) ==
  CASE row.kind \in {"assignedA", "delivered"} /\ row.contract.right = "C" -> row.qty
    [] row.kind = "stock" /\ row.side = "B" -> -row.qty
    [] OTHER -> 0

\* The row's amounts are in the chains once.
Booked(row) ==
  /\ Total(CreditOf, chains') = Total(CreditOf, chains) + Money(row)
  /\ Total(LongOf, chains') = Total(LongOf, chains) + LongIn(row)
  /\ Total(CoverOf, chains') = Total(CoverOf, chains) + CoverIn(row)

\* The short of the row's contract changes by its lots, no other does.
ShortAfter(row) ==
  LET c == row.contract IN
  CASE row.kind = "sell" -> ShortOf(c) + row.qty
    [] row.kind \in {"buy", "assigned", "assignedA"} -> ShortOf(c) - row.qty
    [] row.kind \in {"zero", "eae"} -> 0
    [] OTHER -> ShortOf(c)
ShortsMove(row) ==
  \A o \in Contracts : ShortOf(o)' = IF o = row.contract THEN ShortAfter(row) ELSE ShortOf(o)

\* An empty chain is left open only by the option row of an assignment, until its shares
\* come.
FlatMove(row) ==
  \A n \in 1..Len(chains') : Flat(chains'[n]) =>
    \/ chains'[n].status = "closed"
    \/ /\ n \in 1..Len(chains) /\ chains'[n] = chains[n]
       /\ ~(row.kind = "delivered" /\ KeyOfChain(chains[n]) = KeyOf(row.contract))
    \/ row.kind = "assigned" /\ KeyOfChain(chains'[n]) = KeyOf(row.contract)

\* Only a sale takes a key's chain away or reopens its short.
KeyKept(row) ==
  /\ \A k \in Keys :
       (row.kind = "sell" => k[1] # row.contract.right) /\ active[k] # 0 =>
         /\ active'[k] # 0
         /\ chains[active[k]].opt_pos = 0 => chains'[active'[k]].opt_pos = 0
  /\ row.kind = "assigned" =>
       active'[KeyOf(row.contract)] # 0 /\ chains'[active'[KeyOf(row.contract)]].opt_pos = 0

Effect(row) == Orderly' /\ Booked(row) /\ ShortsMove(row) /\ FlatMove(row) /\ KeyKept(row)

\* If the replaced chain differs by the row's amounts then so do the totals.
LEMMA BookedSum ==
  ASSUME TypeOK, NEW row, NEW old \in Chain, NEW new \in Chain,
         \A f \in [Chain -> Int] : Total(f, chains') = Total(f, chains) - f[old] + f[new],
         new.cumulative_credit = old.cumulative_credit + Money(row), Money(row) \in Int,
         LongIn(row) \in Int, CoverIn(row) \in Int,
         LongOf[new] = LongOf[old] + LongIn(row), CoverOf[new] = CoverOf[old] + CoverIn(row)
  PROVE Booked(row)
<1>1. chains \in Seq(Chain) BY DEF TypeOK
<1>2. \A f \in [Chain -> Int] : Total(f, chains) \in Int /\ f[old] \in Int BY <1>1, TotalInt
<1>3. \A a, b, x \in Int : a - b + (b + x) = a + x OBVIOUS
<1>4. ASSUME NEW f \in [Chain -> Int], NEW x \in Int, f[new] = f[old] + x
      PROVE Total(f, chains') = Total(f, chains) + x
  BY <1>2, <1>3, <1>4
<1>5. CreditOf[new] = CreditOf[old] + Money(row) BY DEF CreditOf
<1> QED BY <1>4, <1>5, ChainSums DEF Booked

\* A row's amounts are integers.
LEMMA Amounts ==
  ASSUME NEW row \in Row
  PROVE /\ Money(row) \in Int /\ LongIn(row) \in Int /\ CoverIn(row) \in Int
        /\ row.qty * row.contract.strike \in Int
<1>1. row.qty \in Nat /\ Credit(row) \in Int /\ row.contract.strike \in Nat
  BY RowTyped, KeysTyped
<1>2. row.qty * row.contract.strike \in Int
  <2>1. \A a, b \in Nat : a * b \in Int OBVIOUS
  <2> QED BY <1>1, <2>1
<1> DEFINE value == row.qty * row.contract.strike
<1>3. value \in Int BY <1>2
<1> HIDE DEF value
<1>4. -Moved(row.contract.right, value) \in Int BY <1>3 DEF Moved
<1>5. Money(row) \in Int BY <1>1, <1>4 DEF Money, value
<1>6. LongIn(row) \in Int /\ CoverIn(row) \in Int BY <1>1 DEF LongIn, CoverIn
<1> QED BY <1>2, <1>5, <1>6

\* Replacing a key's chain by one that differs by the row has the row's effect.
LEMMA UpdateIsEffect ==
  ASSUME TypeOK, Orderly, NEW k \in Keys, active[k] # 0, NEW new \in Chain, ChainOK(new),
         KeyOfChain(new) = k, Update(active[k], new), day' = day, NEW row \in Row,
         new.cumulative_credit = chains[active[k]].cumulative_credit + Money(row),
         LongOf[new] = LongOf[chains[active[k]]] + LongIn(row),
         CoverOf[new] = CoverOf[chains[active[k]]] + CoverIn(row),
         \A o \in Contracts : KeyOf(o) = k =>
           Live(new, o) = IF o = row.contract THEN ShortAfter(row) ELSE ShortOf(o),
         KeyOf(row.contract) = k \/ ShortAfter(row) = ShortOf(row.contract),
         \/ Flat(new) => new.status = "closed" \/ (new = chains[active[k]] /\ row.kind # "delivered")
         \/ row.kind = "assigned" /\ k = KeyOf(row.contract),
         row.kind \in {"sell", "delivered", "assigned"} => k = KeyOf(row.contract),
         row.kind # "sell" /\ chains[active[k]].opt_pos = 0 => new.opt_pos = 0,
         row.kind = "assigned" => new.opt_pos = 0
  PROVE Effect(row)
<1> DEFINE m == active[k]
<1>1. m \in 1..Len(chains) /\ chains[m] \in Chain BY ActiveFacts
<1>2. /\ Orderly'
      /\ \A o \in Contracts : ShortOf(o)' = IF KeyOf(o) = k THEN Live(new, o) ELSE ShortOf(o)
      /\ \A f \in [Chain -> Int] : Total(f, chains') = Total(f, chains) - f[chains[m]] + f[new]
      /\ active' = active /\ Len(chains') = Len(chains)
      /\ \A n \in 1..Len(chains) : chains'[n] = IF n = m THEN new ELSE chains[n]
  BY UpdateEffect
<1> HIDE DEF m
<1>3. Booked(row) BY <1>1, <1>2, Amounts, BookedSum DEF m
<1>4. ShortsMove(row) BY <1>2 DEF ShortsMove
<1>5. FlatMove(row)
  <2> SUFFICES ASSUME NEW n \in 1..Len(chains), Flat(chains'[n])
               PROVE \/ chains'[n].status = "closed"
                     \/ /\ n \in 1..Len(chains) /\ chains'[n] = chains[n]
                        /\ ~(row.kind = "delivered" /\ KeyOfChain(chains[n]) = KeyOf(row.contract))
                     \/ row.kind = "assigned" /\ KeyOfChain(chains'[n]) = KeyOf(row.contract)
    BY <1>2 DEF FlatMove
  <2>1. CASE n = m BY <1>2, <2>1 DEF m
  <2>2. CASE n # m /\ n \in Active
    <3>1. KeyOfChain(chains[n]) # k BY <2>2, ActiveKey DEF m
    <3> QED BY <1>2, <2>2, <3>1
  <2>3. CASE n # m /\ n \notin Active BY <1>2, <2>3 DEF Orderly, GoneClosed
  <2> QED BY <2>1, <2>2, <2>3
<1>6. KeyKept(row)
  <2>1. \A j \in Keys : active[j] # 0 => active[j] \in 1..Len(chains) /\ (active[j] = m => j = k)
    BY ActiveFacts DEF m
  <2>2. row.kind = "sell" => k[1] = row.contract.right
    <3>1. row.contract \in Contracts BY RowTyped
    <3> QED BY <3>1, KeysTyped
  <2>3. ASSUME NEW j \in Keys, row.kind = "sell" => j[1] # row.contract.right, active[j] # 0
        PROVE active'[j] # 0 /\ (chains[active[j]].opt_pos = 0 => chains'[active'[j]].opt_pos = 0)
    <3>1. CASE j = k BY <1>1, <1>2, <2>2, <2>3, <3>1 DEF m
    <3>2. CASE j # k BY <1>2, <2>1, <2>3, <3>2
    <3> QED BY <3>1, <3>2
  <2>4. row.kind = "assigned" =>
          active'[KeyOf(row.contract)] # 0 /\ chains'[active'[KeyOf(row.contract)]].opt_pos = 0
    BY <1>1, <1>2 DEF m
  <2> QED BY <2>3, <2>4 DEF KeyKept
<1> QED BY <1>2, <1>3, <1>4, <1>5, <1>6 DEF Effect

\* A row that changes no chain has its effect if it has no amounts.
LEMMA NothingIsEffect ==
  ASSUME TypeOK, Orderly, NEW row \in Row, chains' = chains, active' = active, day' = day,
         row.kind \notin {"delivered", "assigned"}, Money(row) = 0, LongIn(row) = 0, CoverIn(row) = 0,
         ShortAfter(row) = ShortOf(row.contract)
  PROVE Effect(row)
<1>1. Orderly' BY DEF Orderly, AllSound, KeysFit, GoneClosed, Active
<1>2. Booked(row)
  <2>1. chains \in Seq(Chain) BY DEF TypeOK
  <2>2. \A f \in [Chain -> Int] : Total(f, chains) \in Int BY <2>1, TotalInt
  <2>3. \A a \in Int : a = a + 0 OBVIOUS
  <2> QED BY <2>2, <2>3, ChainSums DEF Booked
<1>3. ShortsMove(row)
  <2>1. \A o \in Contracts : ShortOf(o)' = ShortOf(o) BY DEF ShortOf, Live
  <2> QED BY <2>1 DEF ShortsMove
<1>4. FlatMove(row) BY DEF FlatMove
<1>5. KeyKept(row) BY DEF KeyKept
<1> QED BY <1>1, <1>2, <1>3, <1>4, <1>5 DEF Effect

\* A row that only expires the short it finds.
LEMMA SkipIsEffect ==
  ASSUME TypeOK, Orderly, NEW row \in Row, Skip(KeyOf(row.contract)), day' = day,
         row.kind \in {"zero", "eae"}, ShortOf(row.contract) = 0
  PROVE Effect(row)
<1> DEFINE k == KeyOf(row.contract)
<1>1. row.contract \in Contracts /\ k \in Keys BY RowTyped
<1>2. Money(row) = 0 /\ LongIn(row) = 0 /\ CoverIn(row) = 0 BY DEF Money, LongIn, CoverIn
<1>3. ShortAfter(row) = ShortOf(row.contract) BY DEF ShortAfter
<1>4. CASE active[k] # 0
  <2>1. Update(active[k], Found(k)) BY <1>4 DEF Skip, Lapsed, Update
  <2> DEFINE old == chains[active[k]]
             new == Found(k)
  <2>2. /\ new \in Chain /\ ChainOK(new) /\ Same(old, new) /\ KeyOfChain(new) = k
        /\ new.stk_pos = old.stk_pos /\ new.cumulative_credit = old.cumulative_credit
        /\ old.opt_pos = 0 => new = old
        /\ Flat(new) => new = old \/ new.status = "closed"
        /\ \A o \in Contracts : KeyOf(o) = k => ShortOf(o) = Live(new, o)
    BY <1>1, <1>4, FoundSound
  <2>3. old \in Chain BY <1>1, <1>4, ActiveFacts
  <2>4. /\ new.cumulative_credit = old.cumulative_credit + Money(row)
        /\ LongOf[new] = LongOf[old] + LongIn(row) /\ CoverOf[new] = CoverOf[old] + CoverIn(row)
    <3>1. /\ old.cumulative_credit \in Int /\ LongOf[old] \in Int /\ CoverOf[old] \in Int
          /\ LongOf[new] = LongOf[old] /\ CoverOf[new] = CoverOf[old]
      BY <2>2, <2>3 DEF LongOf, CoverOf, Chain
    <3>2. \A a \in Int : a + 0 = a OBVIOUS
    <3> QED BY <1>2, <2>2, <3>1, <3>2
  <2> HIDE DEF new, old
  <2>5. /\ new.cumulative_credit = chains[active[k]].cumulative_credit + Money(row)
        /\ LongOf[new] = LongOf[chains[active[k]]] + LongIn(row)
        /\ CoverOf[new] = CoverOf[chains[active[k]]] + CoverIn(row)
    BY <2>4 DEF old
  <2>6. \A o \in Contracts : KeyOf(o) = k =>
          Live(new, o) = IF o = row.contract THEN ShortAfter(row) ELSE ShortOf(o)
    BY <1>3, <2>2
  <2>7. chains[active[k]].opt_pos = 0 => new.opt_pos = 0 BY <2>2 DEF old
  <2>8. Flat(new) => new.status = "closed" \/ (new = chains[active[k]] /\ row.kind # "delivered")
    BY <2>2 DEF old
  <2>9. Update(active[k], new) BY <2>1 DEF new
  <2> HIDE DEF k
  <2> QED BY <1>1, <1>3, <1>4, <2>2, <2>5, <2>6, <2>7, <2>8, <2>9, UpdateIsEffect DEF k
<1>5. CASE active[k] = 0
  <2>1. chains' = chains /\ active' = active BY <1>5 DEF Skip, Lapsed
  <2> QED BY <1>2, <1>3, <2>1, NothingIsEffect
<1> QED BY <1>4, <1>5

\* What the account makes sure of before a row is read.
Ready(row) ==
  LET c == row.contract
      Others == {o \in Contracts \ {c} : KeyOf(o) = KeyOf(c)} IN
  /\ row.qty >= 1
  /\ row.kind \in {"sell", "zero", "eae"} => \A o \in Others : ShortOf(o) = 0
  /\ row.kind = "sell" => day <= c.expiry
  /\ row.kind \in {"buy", "assignedA"} => ShortOf(c) >= row.qty
  /\ row.kind = "assigned" => ShortOf(c) = row.qty
  /\ row.kind \in {"zero", "eae"} => ShortOf(c) \in {0, row.qty}
  /\ row.kind \in {"assigned", "delivered"} => feed # "poll"
  /\ row.kind = "assignedA" => feed = "poll"
  /\ row.kind \in {"delivered", "copy"} => row.side = IF c.right = "P" THEN "B" ELSE "S"
  /\ row.kind = "delivered" =>
       active[KeyOf(c)] # 0 /\ chains[active[KeyOf(c)]].opt_pos = 0
  /\ row.kind = "stock" => row.qty = 1 /\ row.side \in {"B", "S"}
  /\ row.kind = "stock" /\ row.side = "S" => Total(LongOf, chains) >= 1
  /\ row.kind = "stock" /\ row.side = "B" => Total(CoverOf, chains) >= 1
  /\ row.kind = "copy" /\ row.side = "S" => Total(LongOf, chains) = 0
  /\ row.kind = "copy" /\ row.side = "B" => Total(CoverOf, chains) = 0

\* A purchase or an expiry that takes lots off the short.
LEMMA ReduceIsEffect ==
  ASSUME TypeOK, Orderly, NEW row \in Row, day' = day,
         row.kind \in {"buy", "zero", "eae"}, row.qty >= 1, ShortOf(row.contract) >= row.qty,
         row.kind # "buy" => ShortOf(row.contract) = row.qty,
         NEW base \in Chain, ChainOK(base), NEW old, old = chains[active[KeyOf(row.contract)]],
         Same(old, base), base.opt_pos = old.opt_pos, base.stk_pos = old.stk_pos,
         base.cumulative_credit = old.cumulative_credit + Money(row),
         NEW reason \in {"bought_back", "expired", "assigned_closed"},
         Update(active[KeyOf(row.contract)], Settled(base, old.opt_pos + row.qty, day, reason))
  PROVE Effect(row)
<1> DEFINE c == row.contract
           k == KeyOf(c)
           pos == old.opt_pos + row.qty
           new == Settled(base, pos, day, reason)
<1>1. c \in Contracts /\ row.qty \in Nat BY RowTyped
<1>2. ShortOf(c) \in Nat /\ ShortOf(c) > 0 BY <1>1, ShortTypes
<1>3. /\ k \in Keys /\ active[k] # 0
      /\ old.last_conid = c /\ old.opt_pos = -ShortOf(c) /\ day <= c.expiry
      /\ \A o \in Contracts \ {c} : KeyOf(o) = k => ShortOf(o) = 0
  BY <1>1, <1>2, ShortIsActive
<1>4. old \in Chain /\ KeyOfChain(old) = k BY <1>3, ActiveFacts
<1> HIDE DEF k
<1>5. pos \in Int /\ base.opt_pos <= pos /\ pos <= 0 /\ base.opt_pos < 0 /\ -pos = ShortOf(c) - row.qty
  BY <1>1, <1>2, <1>3
<1>6. day \in 0..MaxDay BY DEF TypeOK
<1> HIDE DEF pos, new
<1>7. /\ new \in Chain /\ ChainOK(new) /\ Same(base, new) /\ new.opt_pos = pos
      /\ new.stk_pos = base.stk_pos /\ new.cumulative_credit = base.cumulative_credit
      /\ Flat(new) => new.status = "closed"
  BY <1>5, <1>6, SettledSound DEF new
<1>8. Same(old, new) BY <1>7 DEF Same
<1>9. KeyOfChain(new) = k BY <1>4, <1>8 DEF Same, KeyOfChain
<1>10. LongIn(row) = 0 /\ CoverIn(row) = 0 BY DEF LongIn, CoverIn
<1>11. /\ LongOf[new] = LongOf[old] + LongIn(row) /\ CoverOf[new] = CoverOf[old] + CoverIn(row)
  <2>1. new.stk_pos = old.stk_pos /\ old.stk_pos \in Int BY <1>4, <1>7 DEF Chain
  <2>2. LongOf[new] = LongOf[old] /\ CoverOf[new] = CoverOf[old] /\ LongOf[old] \in Int /\ CoverOf[old] \in Int
    BY <1>4, <1>7, <2>1 DEF LongOf, CoverOf
  <2>3. \A a \in Int : a = a + 0 OBVIOUS
  <2> QED BY <1>10, <2>2, <2>3
<1>12. ASSUME NEW o \in Contracts, KeyOf(o) = k
       PROVE Live(new, o) = IF o = c THEN ShortAfter(row) ELSE ShortOf(o)
  <2>1. new.last_conid = c BY <1>3, <1>8 DEF Same
  <2>2. CASE o = c
    <3>1. Live(new, o) = ShortOf(c) - row.qty BY <1>3, <1>5, <1>7, <2>1, <2>2 DEF Live
    <3>2. ShortAfter(row) = ShortOf(c) - row.qty
      <4>1. CASE row.kind = "buy" BY <4>1 DEF ShortAfter
      <4>2. CASE row.kind # "buy"
        <5>1. ShortAfter(row) = 0 BY <4>2 DEF ShortAfter
        <5> QED BY <1>1, <4>2, <5>1
      <4> QED BY <4>1, <4>2
    <3> QED BY <2>2, <3>1, <3>2
  <2>3. CASE o # c
    <3>1. ShortOf(o) = 0 BY <1>3, <1>12, <2>3
    <3>2. Live(new, o) = 0 BY <2>1, <2>3 DEF Live
    <3> QED BY <2>3, <3>1, <3>2
  <2> QED BY <2>2, <2>3
<1>13. old.opt_pos # 0 BY <1>2, <1>3
<1>14. Update(active[k], new) BY DEF new, pos, k
<1>15. /\ chains[active[k]] = old /\ k = KeyOf(row.contract)
       /\ new.cumulative_credit = old.cumulative_credit + Money(row)
  BY <1>7 DEF k
<1> HIDE DEF c
<1> QED BY <1>3, <1>7, <1>9, <1>11, <1>12, <1>13, <1>14, <1>15, UpdateIsEffect DEF c

\* Reading a buy takes its lots off the short.
LEMMA BuyEffect ==
  ASSUME TypeOK, Orderly, NEW i, ReadBuy(i), Ready(tape[i])
  PROVE Effect(tape[i])
<1> DEFINE row == tape[i]
           c == row.contract
           k == KeyOf(c)
           old == chains[active[k]]
           pos == old.opt_pos + row.qty
           paid == Paid(old, row)
           reason == IF row.kind = "zero" THEN "expired" ELSE "bought_back"
           ch == Bought(Found(k), row)
           closed == IF ch.opt_pos >= 0 /\ ch.stk_pos = 0 THEN Close(ch, day, reason) ELSE ch
<1>1. Take(i, {"buy", "zero"}) /\ row.kind \in {"buy", "zero"} BY DEF ReadBuy, Take
<1>2. row \in Row /\ day' = day BY <1>1, TakeTyped
<1>3. c \in Contracts /\ k \in Keys /\ row.qty \in Nat /\ row.qty >= 1 BY <1>2, RowTyped DEF Ready
<1>4. /\ row.kind = "zero" => active[k] # 0 /\ Found(k).opt_pos < 0
      /\ active[k] # 0 => Update(active[k], closed)
  BY DEF ReadBuy
<1>5. ShortOf(c) \in Nat BY <1>3, ShortTypes
<1>6. ShortOf(c) >= row.qty /\ (row.kind # "buy" => ShortOf(c) = row.qty)
  <2>1. CASE row.kind = "buy" BY <2>1 DEF Ready
  <2>2. CASE row.kind = "zero"
    <3>1. active[k] # 0 /\ Found(k).opt_pos < 0 BY <1>4, <2>2
    <3> DEFINE o == Found(k).last_conid
    <3>2. /\ o \in Contracts /\ KeyOf(o) = k /\ ShortOf(o) = -Found(k).opt_pos
          /\ Found(k) \in Chain
      BY <1>3, <3>1, FoundSound
    <3>3. ShortOf(o) # 0
      <4>1. Found(k).opt_pos \in Int BY <3>2 DEF Chain
      <4> QED BY <3>1, <3>2, <4>1
    <3> HIDE DEF o
    <3>4. /\ \A x \in Contracts \ {c} : KeyOf(x) = KeyOf(c) => ShortOf(x) = 0
          /\ ShortOf(c) \in {0, row.qty}
      BY <2>2 DEF Ready
    <3>5. o = c BY <3>2, <3>3, <3>4
    <3> QED BY <1>3, <3>3, <3>4, <3>5
  <2> QED BY <1>1, <2>1, <2>2
<1>7. /\ active[k] # 0 /\ Found(k) = old /\ old.opt_pos = -ShortOf(c)
  BY <1>3, <1>5, <1>6, ShortIsActive
<1>8. old \in Chain /\ ChainOK(old) BY <1>3, <1>7, ActiveFacts
<1>9. Money(row) = Credit(row)
  BY <1>1 DEF Money, Credit
<1> HIDE DEF k, c, row
<1>10. /\ paid \in Chain /\ ChainOK(paid) /\ Same(old, paid)
       /\ paid.opt_pos = old.opt_pos /\ paid.stk_pos = old.stk_pos
       /\ paid.cumulative_credit = old.cumulative_credit + Money(row)
       /\ ch = WithShort(paid, pos)
  BY <1>2, <1>7, <1>8, <1>9, PaidSound
<1>11. pos \in Int /\ pos <= 0 /\ old.opt_pos <= pos BY <1>3, <1>5, <1>6, <1>7
<1> HIDE DEF old, pos, paid, reason, ch
<1>12. ch.opt_pos = pos /\ ch.stk_pos = paid.stk_pos
  <2>1. Sound(paid) BY <1>10 DEF ChainOK
  <2> QED BY <1>10, <1>11, <2>1, WithShortSound
<1>13. closed = Settled(paid, pos, day, reason)
  <2>1. ch.opt_pos >= 0 <=> pos = 0 BY <1>11, <1>12
  <2> QED BY <1>10, <1>12, <2>1 DEF Settled
<1>14. reason \in {"bought_back", "expired", "assigned_closed"} BY DEF reason
<1>15. Update(active[KeyOf(row.contract)], Settled(paid, old.opt_pos + row.qty, day, reason))
  BY <1>4, <1>7, <1>13 DEF pos, k, c
<1>16. old = chains[active[KeyOf(row.contract)]] BY DEF old, k, c
<1>17. /\ row.kind \in {"buy", "zero", "eae"} /\ row.qty >= 1 /\ ShortOf(row.contract) >= row.qty
       /\ row.kind # "buy" => ShortOf(row.contract) = row.qty
  BY <1>1, <1>3, <1>6 DEF c
<1>18. Effect(row)
  BY <1>2, <1>10, <1>14, <1>15, <1>16, <1>17, ReduceIsEffect
<1> QED BY <1>18 DEF row

\* Reading an expiry record leaves no short, however often it is read.
LEMMA ExpiryEffect ==
  ASSUME TypeOK, Orderly, NEW i, ReadExpiration(i) \/ ReadZeroBuySkipped(i), Ready(tape[i])
  PROVE Effect(tape[i])
<1> DEFINE row == tape[i]
           c == row.contract
           k == KeyOf(c)
           ch == Found(k)
           pos == IF ch.opt_pos < 0 THEN ch.opt_pos + row.qty ELSE ch.opt_pos - row.qty
           less == IF pos = 0 /\ ch.stk_pos = 0
                   THEN Close(WithShort(ch, pos), day, "expired") ELSE WithShort(ch, pos)
<1>1. PICK kinds \in {{"eae"}, {"zero"}} : Take(i, kinds) /\ row.kind \in kinds
  BY DEF ReadExpiration, ReadZeroBuySkipped, Take
<1>2. row \in Row /\ day' = day /\ row.kind \in {"zero", "eae"} BY <1>1, TakeTyped
<1>3. c \in Contracts /\ k \in Keys /\ row.qty \in Nat /\ row.qty >= 1 BY <1>2, RowTyped DEF Ready
<1>4. ShortOf(c) \in Nat /\ ShortOf(c) \in {0, row.qty} BY <1>2, <1>3, ShortTypes DEF Ready
<1>5. ShortOf(c) = row.qty =>
        active[k] # 0 /\ ch = chains[active[k]] /\ ch.opt_pos = -ShortOf(c) /\ ch.opt_pos < 0
  <2>1. ShortOf(c) > 0 =>
          active[k] # 0 /\ ch = chains[active[k]] /\ chains[active[k]].opt_pos = -ShortOf(c)
    BY <1>3, ShortIsActive
  <2> HIDE DEF ch, k, c, row
  <2> QED BY <1>3, <1>4, <2>1
<1>6. CASE Skip(k) /\ ShortOf(c) = 0 BY <1>2, <1>6, SkipIsEffect
<1>7. CASE active[k] # 0 /\ Update(active[k], less) /\ ShortOf(c) = row.qty
  <2>1. ch = chains[active[k]] /\ ch.opt_pos < 0 /\ ch \in Chain /\ ChainOK(ch)
    BY <1>3, <1>5, <1>7, ActiveFacts
  <2>2. Money(row) = 0 /\ ch.cumulative_credit \in Int BY <1>2, <2>1 DEF Money, Chain
  <2>3. less = Settled(ch, ch.opt_pos + row.qty, day, "expired") BY <2>1 DEF Settled
  <2> HIDE DEF ch, less, k, c, row
  <2>4. Same(ch, ch) /\ ch.cumulative_credit = ch.cumulative_credit + Money(row) BY <2>2 DEF Same
  <2>5. Effect(row)
    BY <1>2, <1>3, <1>4, <1>7, <2>1, <2>3, <2>4, ReduceIsEffect DEF k, c
  <2> QED BY <2>5 DEF row
<1>8. ShortOf(c) = 0 /\ active[k] # 0 => ch.opt_pos = 0
  <2>1. SUFFICES ASSUME ShortOf(c) = 0, active[k] # 0, ch.opt_pos # 0 PROVE FALSE OBVIOUS
  <2>2. ch \in Chain /\ Sound(ch) BY <1>3, <2>1, FoundSound DEF ChainOK
  <2>3. ch.opt_pos \in Int /\ ch.opt_pos < 0 BY <2>1, <2>2 DEF Chain, Sound
  <2> DEFINE o == ch.last_conid
  <2>4. o \in Contracts /\ KeyOf(o) = k /\ ShortOf(o) = -ch.opt_pos BY <1>3, <2>1, <2>3, FoundSound
  <2>5. \A x \in Contracts \ {c} : KeyOf(x) = KeyOf(c) => ShortOf(x) = 0
    BY <1>2 DEF Ready
  <2> HIDE DEF o, ch
  <2>6. ShortOf(o) # 0 BY <2>3, <2>4
  <2> QED BY <2>1, <2>4, <2>5, <2>6
<1>9. \/ active[k] # 0 /\ Update(active[k], less) /\ ShortOf(c) = row.qty
      \/ Skip(k) /\ ShortOf(c) = 0
  <2>1. CASE ReadExpiration(i)
    <3>1. IF active[k] = 0 \/ ch.opt_pos = 0 THEN Skip(k) ELSE Update(active[k], less)
      BY <2>1 DEF ReadExpiration
    <3> HIDE DEF ch, less, k, c, row
    <3> QED BY <1>3, <1>4, <1>5, <1>8, <3>1
  <2>2. CASE ReadZeroBuySkipped(i)
    <3>1. Skip(k) /\ (active[k] = 0 \/ ch.opt_pos >= 0) BY <2>2 DEF ReadZeroBuySkipped
    <3>2. active[k] # 0 /\ ch.opt_pos >= 0 => ~(ch.opt_pos < 0)
      <4>1. active[k] # 0 => ch.opt_pos \in Int BY <1>3, FoundSound DEF Chain
      <4> QED BY <4>1
    <3> HIDE DEF ch, less, k, c, row
    <3> QED BY <1>3, <1>4, <1>5, <3>1, <3>2
  <2> QED BY <2>1, <2>2
<1> QED BY <1>6, <1>7, <1>9

\* Reading a sale that continues its key's chain adds its lots.
LEMMA SellContinuesEffect ==
  ASSUME TypeOK, Orderly, NEW i, ReadSellContinues(i), Ready(tape[i])
  PROVE Effect(tape[i])
<1> DEFINE row == tape[i]
           c == row.contract
           k == KeyOf(c)
           old == chains[active[k]]
           f == Found(k)
           ch == IF f.status = "closed" THEN Reopen(f) ELSE f
           new == Sold(ch, row)
<1>1. Take(i, {"sell"}) /\ row.kind = "sell" BY DEF ReadSellContinues, Take
<1>2. row \in Row /\ day' = day BY <1>1, TakeTyped
<1>3. c \in Contracts /\ k \in Keys /\ row.qty \in Nat /\ row.qty >= 1 /\ day <= c.expiry
  BY <1>1, <1>2, RowTyped DEF Ready
<1>4. active[k] # 0 /\ Update(active[k], new) BY DEF ReadSellContinues, Continues
<1>5. /\ f \in Chain /\ ChainOK(f) /\ Same(old, f) /\ KeyOfChain(f) = k
      /\ f.stk_pos = old.stk_pos /\ f.cumulative_credit = old.cumulative_credit
      /\ \A o \in Contracts : KeyOf(o) = k => ShortOf(o) = Live(f, o)
      /\ f.opt_pos < 0 => f.last_conid \in Contracts /\ KeyOf(f.last_conid) = k
                          /\ ShortOf(f.last_conid) = -f.opt_pos
  BY <1>3, <1>4, FoundSound
<1>6. \A o \in Contracts \ {c} : KeyOf(o) = k => ShortOf(o) = 0 BY <1>1 DEF Ready
<1>7. ShortOf(c) \in Nat BY <1>3, ShortTypes
<1>8. old \in Chain BY <1>3, <1>4, ActiveFacts
<1>9. Credit(row) = row.qty /\ Money(row) = row.qty /\ LongIn(row) = 0 /\ CoverIn(row) = 0
  BY <1>1 DEF Credit, Money, LongIn, CoverIn
<1>10. ShortAfter(row) = ShortOf(c) + row.qty BY <1>1 DEF ShortAfter
<1> HIDE DEF row, c, k, old, f
<1>11. ShortOf(c) = -f.opt_pos /\ f.opt_pos \in Int
  <2>1. f.opt_pos \in Int /\ f.opt_pos <= 0 BY <1>5 DEF ChainOK, Sound, Chain
  <2>2. CASE f.opt_pos < 0
    <3>1. f.last_conid = c
      <4>1. ShortOf(f.last_conid) # 0 BY <1>5, <2>1, <2>2
      <4> QED BY <1>5, <1>6, <2>2, <4>1
    <3> QED BY <1>5, <2>1, <2>2, <3>1
  <2>3. CASE f.opt_pos >= 0
    <3>1. ShortOf(c) = Live(f, c) BY <1>3, <1>5 DEF k
    <3>2. Live(f, c) = 0
      <4>1. -f.opt_pos <= 0 /\ -f.opt_pos >= 0 BY <2>1, <2>3
      <4>2. -f.opt_pos \in Int BY <2>1
      <4>3. -f.opt_pos = 0 BY <4>1, <4>2
      <4> QED BY <4>3 DEF Live
    <3>3. -f.opt_pos <= 0 /\ -f.opt_pos >= 0 /\ -f.opt_pos \in Int BY <2>1, <2>3
    <3> QED BY <2>1, <3>1, <3>2, <3>3
  <2> QED BY <2>1, <2>2, <2>3
<1>12. /\ ch \in Chain /\ Sound(ch) /\ KeyOfChain(ch) = k /\ ch.status = "open"
       /\ ch.opt_pos = f.opt_pos /\ ch.stk_pos = f.stk_pos /\ ch.cumulative_credit = f.cumulative_credit
  <2>1. CASE f.status = "closed"
    <3>1. ch = Reopen(f) BY <2>1
    <3>2. /\ ch \in Chain /\ Same(f, ch) /\ ch.opt_pos = f.opt_pos
          /\ ch.stk_pos = f.stk_pos /\ ch.open_credit = f.open_credit
          /\ ch.cumulative_credit = f.cumulative_credit /\ ch.status = "open"
      BY <1>5, <3>1, ReopenSound
    <3> HIDE DEF ch
    <3>3. Sound(ch) BY <1>5, <3>2, SameIsSound DEF ChainOK
    <3> QED BY <1>5, <3>2, <3>3 DEF Same, KeyOfChain
  <2>2. CASE f.status # "closed"
    <3>1. ch = f BY <2>2
    <3>2. f.status = "open" BY <1>5, <2>2 DEF Chain
    <3> QED BY <1>5, <3>1, <3>2 DEF ChainOK
  <2> QED BY <2>1, <2>2
<1> HIDE DEF ch
<1>13. /\ new \in Chain /\ ChainOK(new) /\ KeyOfChain(new) = k /\ new.last_conid = c
       /\ new.opt_pos = ch.opt_pos - row.qty /\ new.stk_pos = ch.stk_pos
       /\ new.cumulative_credit = ch.cumulative_credit + row.qty
  BY <1>1, <1>2, <1>12, SoldSound DEF k, c
<1> HIDE DEF new
<1>14. /\ new.cumulative_credit = old.cumulative_credit + Money(row)
       /\ LongOf[new] = LongOf[old] + LongIn(row) /\ CoverOf[new] = CoverOf[old] + CoverIn(row)
  <2>1. new.stk_pos = old.stk_pos /\ old.stk_pos \in Int BY <1>5, <1>8, <1>12, <1>13 DEF Chain
  <2>2. LongOf[new] = LongOf[old] /\ CoverOf[new] = CoverOf[old] /\ LongOf[old] \in Int /\ CoverOf[old] \in Int
    BY <1>8, <1>13, <2>1 DEF LongOf, CoverOf
  <2>3. \A a \in Int : a = a + 0 OBVIOUS
  <2> QED BY <1>5, <1>9, <1>12, <1>13, <2>2, <2>3
<1>15. ASSUME NEW o \in Contracts, KeyOf(o) = k
       PROVE Live(new, o) = IF o = c THEN ShortAfter(row) ELSE ShortOf(o)
  <2>1. CASE o = c
    <3>1. Live(new, o) = -new.opt_pos BY <1>3, <1>13, <2>1 DEF Live
    <3>2. -new.opt_pos = ShortOf(c) + row.qty BY <1>3, <1>7, <1>11, <1>12, <1>13
    <3> QED BY <1>10, <2>1, <3>1, <3>2
  <2>2. CASE o # c BY <1>6, <1>13, <1>15, <2>2 DEF Live
  <2> QED BY <2>1, <2>2
<1>16. ~Flat(new)
  <2>1. new.opt_pos < 0 BY <1>3, <1>7, <1>11, <1>12, <1>13
  <2> QED BY <2>1 DEF Flat
<1>17. old = chains[active[k]] /\ k = KeyOf(row.contract) BY DEF old, k, c
<1>18. Effect(row)
  BY <1>1, <1>2, <1>3, <1>4, <1>13, <1>14, <1>15, <1>16, <1>17, UpdateIsEffect DEF c
<1> QED BY <1>18 DEF row

\* No number but zero is neither positive nor negative.
LEMMA MinusZero == ASSUME NEW a \in Int, a <= 0, a >= 0 PROVE -a = 0
<1>1. -a <= 0 /\ -a >= 0 OBVIOUS
<1> QED BY <1>1

\* A chain without options is short of nothing.
LEMMA FlatNotShort == ASSUME NEW ch \in Chain, ch.opt_pos = 0, NEW c PROVE Live(ch, c) = 0
<1>1. ch.opt_pos \in Int /\ ch.opt_pos <= 0 /\ ch.opt_pos >= 0 BY DEF Chain
<1>2. -ch.opt_pos = 0 BY <1>1, MinusZero
<1> QED BY <1>2 DEF Live

\* The chains, with the one found expired, are in order and hold what they held.
LEMMA LapsedSound ==
  ASSUME TypeOK, Orderly, NEW k \in Keys
  PROVE /\ Lapsed(k) \in Seq(Chain) /\ Len(Lapsed(k)) = Len(chains)
        /\ \A n \in 1..Len(chains) : ChainOK(Lapsed(k)[n])
        /\ \A n \in 1..Len(chains) : n # active[k] => Lapsed(k)[n] = chains[n]
        /\ \A n \in 1..Len(chains) : n = active[k] => Lapsed(k)[n] = Found(k)
        /\ \A f \in {CreditOf, LongOf, CoverOf} : Total(f, Lapsed(k)) = Total(f, chains)
<1>1. /\ Lapsed(k) \in Seq(Chain) /\ Len(Lapsed(k)) = Len(chains)
      /\ \A n \in 1..Len(chains) : Lapsed(k)[n] = IF n = active[k] THEN Found(k) ELSE chains[n]
  BY FoundTyped
<1>2. \A n \in 1..Len(chains) : ChainOK(chains[n]) BY DEF Orderly, AllSound
<1>3. CASE active[k] = 0
  <2>1. Lapsed(k) = chains BY <1>3 DEF Lapsed
  <2> QED BY <1>1, <1>2, <1>3, <2>1
<1>4. CASE active[k] # 0
  <2> DEFINE m == active[k]
             old == chains[m]
             new == Found(k)
  <2>1. m \in 1..Len(chains) /\ old \in Chain /\ chains \in Seq(Chain)
    BY <1>4, ActiveFacts DEF TypeOK
  <2>2. /\ new \in Chain /\ ChainOK(new)
        /\ new.stk_pos = old.stk_pos /\ new.cumulative_credit = old.cumulative_credit
    BY <1>4, FoundSound
  <2>3. Lapsed(k) = [chains EXCEPT ![m] = new] BY <1>4 DEF Lapsed
  <2> HIDE DEF m, old, new
  <2>4. \A f \in [Chain -> Int] : Total(f, Lapsed(k)) = Total(f, chains) - f[chains[m]] + f[new]
    <3> SUFFICES ASSUME NEW f \in [Chain -> Int]
                 PROVE Total(f, Lapsed(k)) = Total(f, chains) - f[chains[m]] + f[new]
      OBVIOUS
    <3>0. m \in 1..Len(chains) /\ chains \in Seq(Chain) /\ new \in Chain BY <2>1, <2>2
    <3>1. Total(f, [chains EXCEPT ![m] = new]) = Total(f, chains) - f[chains[m]] + f[new]
      BY <3>0, TotalExcept
    <3> QED BY <2>3, <3>1
  <2>5. \A f \in {CreditOf, LongOf, CoverOf} : f \in [Chain -> Int] /\ f[new] = f[chains[m]]
    BY <2>1, <2>2, ChainSums DEF CreditOf, LongOf, CoverOf, old
  <2>6. ASSUME NEW f \in {CreditOf, LongOf, CoverOf} PROVE Total(f, Lapsed(k)) = Total(f, chains)
    <3>1. Total(f, chains) \in Int /\ f[chains[m]] \in Int
      BY <2>1, <2>5, TotalInt DEF old
    <3>2. \A a, b \in Int : a - b + b = a OBVIOUS
    <3> QED BY <2>4, <2>5, <3>1, <3>2
  <2> QED BY <1>1, <1>2, <2>2, <2>6 DEF new, m
<1> QED BY <1>3, <1>4

\* A sale that begins a chain, new or rolled to another strike.
LEMMA BegunIsEffect ==
  ASSUME TypeOK, Orderly, NEW row \in Row, row.kind = "sell", Ready(row), day' = day,
         NEW k, k = KeyOf(row.contract), ~Continues(k),
         NEW new, ChainOK(new), KeyOfChain(new) = k, new.last_conid = row.contract,
         new.opt_pos = 0 - row.qty,
         NEW m \in 1..Len(chains'), chains'[m] = new, m # active[k],
         \A n \in 1..Len(chains') : n # m => n \in 1..Len(chains) /\ chains'[n] = Lapsed(k)[n],
         Len(chains) <= Len(chains'), Len(chains') \in Nat,
         \A j \in Keys : active'[j] = IF j = k THEN m ELSE IF active[j] = m THEN 0 ELSE active[j],
         m \in 1..Len(chains) => chains[m].opt_pos = 0 /\ chains[m].right = k[1],
         Booked(row)
  PROVE Effect(row)
<1> DEFINE c == row.contract
<1>1. c \in Contracts /\ k \in Keys /\ k = KeyOf(c) /\ row.qty \in Nat /\ row.qty >= 1 /\ day <= c.expiry
  BY RowTyped DEF Ready
<1>2. /\ \A n \in 1..Len(chains) : ChainOK(Lapsed(k)[n])
      /\ \A n \in 1..Len(chains) : n # active[k] => Lapsed(k)[n] = chains[n]
      /\ \A n \in 1..Len(chains) : n = active[k] => Lapsed(k)[n] = Found(k)
  BY <1>1, LapsedSound
<1>3. active[k] # 0 => Found(k).status = "closed" /\ Flat(Found(k)) /\ ShortOf(c) = Live(Found(k), c)
  <2>1. SUFFICES ASSUME active[k] # 0
                 PROVE Found(k).status = "closed" /\ Flat(Found(k)) /\ ShortOf(c) = Live(Found(k), c)
    OBVIOUS
  <2>2. Found(k).status # "open" BY <2>1 DEF Continues
  <2>3. Found(k) \in Chain /\ ChainOK(Found(k)) /\ ShortOf(c) = Live(Found(k), c)
    BY <1>1, <2>1, FoundSound
  <2>4. Found(k).status = "closed" BY <2>2, <2>3 DEF Chain
  <2> QED BY <2>3, <2>4 DEF ChainOK
<1>4. ShortOf(c) = 0
  <2>1. CASE active[k] = 0 BY <1>1, <2>1 DEF ShortOf
  <2>2. CASE active[k] # 0
    <3>1. Found(k).opt_pos = 0 /\ ShortOf(c) = Live(Found(k), c) BY <1>3, <2>2 DEF Flat
    <3>2. Found(k) \in Chain BY <1>1, <2>2, FoundTyped
    <3> QED BY <3>1, <3>2, FlatNotShort
  <2> QED BY <2>1, <2>2
<1>5. \A o \in Contracts \ {c} : KeyOf(o) = k => ShortOf(o) = 0 BY <1>1 DEF Ready
<1>6. \A j \in Keys : active[j] # 0 =>
        /\ active[j] \in 1..Len(chains) /\ (j # k => active[j] # active[k])
        /\ KeyOfChain(chains[active[j]]) = j
  BY <1>1, ActiveFacts
<1>7. AllSound' BY <1>2 DEF AllSound
<1>8. ASSUME NEW j \in Keys, j # k, active'[j] # 0
      PROVE /\ active'[j] = active[j] /\ active[j] # 0 /\ active[j] # m /\ active[j] \in 1..Len(chains')
            /\ chains'[active[j]] = chains[active[j]]
  <2>1. active'[j] = active[j] /\ active[j] # m /\ active[j] # 0 BY <1>8
  <2>2. active[j] \in 1..Len(chains) /\ active[j] # active[k] BY <1>6, <1>8, <2>1
  <2>3. active[j] \in 1..Len(chains')
    <3>1. Len(chains) \in Nat BY DEF TypeOK
    <3> QED BY <2>2, <3>1
  <2>4. chains'[active[j]] = Lapsed(k)[active[j]] BY <2>1, <2>3
  <2> QED BY <1>2, <2>1, <2>2, <2>3, <2>4
<1>9. KeysFit'
  <2> SUFFICES ASSUME NEW j \in Keys, active'[j] # 0 PROVE KeyOfChain(chains'[active'[j]]) = j
    BY DEF KeysFit, KeyOfChain
  <2>1. CASE j = k BY <1>1, <2>1
  <2>2. CASE j # k BY <1>6, <1>8, <2>2
  <2> QED BY <2>1, <2>2
<1>10. GoneClosed'
  <2> SUFFICES ASSUME NEW n \in 1..Len(chains'), n \notin Active' PROVE chains'[n].status = "closed"
    BY DEF GoneClosed
  <2>1. \A j \in Keys : active'[j] # n \/ n = 0 BY DEF Active
  <2>2. n # 0 /\ n # m BY <1>1, <2>1
  <2>3. n \in 1..Len(chains) /\ chains'[n] = Lapsed(k)[n] BY <2>2
  <2>4. CASE n = active[k] BY <1>2, <1>3, <2>2, <2>3, <2>4
  <2>5. CASE n # active[k]
    <3>1. \A j \in Keys : active[j] # n
      <4> SUFFICES ASSUME NEW j \in Keys, active[j] = n PROVE FALSE OBVIOUS
      <4>1. j # k BY <2>5
      <4>2. active'[j] = n BY <2>2, <4>1
      <4> QED BY <2>1, <2>2, <4>2
    <3>2. n \notin Active BY <3>1 DEF Active
    <3> QED BY <1>2, <2>3, <2>5, <3>2 DEF Orderly, GoneClosed
  <2> QED BY <2>4, <2>5
<1>11. ShortsMove(row)
  <2> SUFFICES ASSUME NEW o \in Contracts
               PROVE ShortOf(o)' = IF o = c THEN ShortAfter(row) ELSE ShortOf(o)
    BY DEF ShortsMove
  <2>0. KeyOf(o) \in Keys BY KeysTyped
  <2>1. ShortOf(o)' = IF active'[KeyOf(o)] = 0 THEN 0 ELSE Live(chains'[active'[KeyOf(o)]], o)
    BY DEF ShortOf, Live
  <2>2. CASE KeyOf(o) = k
    <3>1. active'[k] = m /\ m # 0 BY <1>1
    <3>2. ShortOf(o)' = Live(new, o) BY <2>1, <2>2, <3>1
    <3>3. CASE o = c
      <4>1. Live(new, o) = -new.opt_pos BY <1>1, <3>3 DEF Live
      <4>2. \A q \in Nat : -(0 - q) = 0 + q OBVIOUS
      <4>3. ShortAfter(row) = ShortOf(c) + row.qty BY DEF ShortAfter
      <4> QED BY <1>1, <1>4, <3>2, <3>3, <4>1, <4>2, <4>3
    <3>4. CASE o # c
      <4>1. Live(new, o) = 0 BY <3>4 DEF Live
      <4> QED BY <1>5, <2>2, <3>2, <3>4, <4>1
    <3> QED BY <3>3, <3>4
  <2>3. CASE KeyOf(o) # k
    <3>1. o # c BY <1>1, <2>3
    <3>2. CASE active'[KeyOf(o)] # 0 BY <1>8, <2>0, <2>1, <2>3, <3>1, <3>2 DEF ShortOf
    <3>3. CASE active'[KeyOf(o)] = 0
      <4>1. active[KeyOf(o)] = 0 \/ active[KeyOf(o)] = m BY <2>0, <2>3, <3>3
      <4>2. ShortOf(o) = 0
        <5>1. CASE active[KeyOf(o)] = 0 BY <5>1 DEF ShortOf
        <5>2. CASE active[KeyOf(o)] # 0
          <6>1. m \in 1..Len(chains) /\ active[KeyOf(o)] = m BY <1>6, <2>0, <4>1, <5>2
          <6>2. chains[m].opt_pos = 0 BY <6>1
          <6>3. chains[m] \in Chain BY <6>1 DEF TypeOK
          <6> QED BY <5>2, <6>1, <6>2, <6>3, FlatNotShort DEF ShortOf
        <5> QED BY <5>1, <5>2
      <4> QED BY <2>1, <3>1, <3>3, <4>2
    <3> QED BY <3>2, <3>3
  <2> QED BY <2>2, <2>3
<1>12. FlatMove(row)
  <2> SUFFICES ASSUME NEW n \in 1..Len(chains'), Flat(chains'[n])
               PROVE \/ chains'[n].status = "closed"
                     \/ n \in 1..Len(chains) /\ chains'[n] = chains[n]
    BY DEF FlatMove
  <2>1. CASE n = m
    <3>1. new.opt_pos # 0 BY <1>1
    <3> QED BY <2>1, <3>1 DEF Flat
  <2>2. CASE n # m BY <1>2, <1>3, <2>2
  <2> QED BY <2>1, <2>2
<1>13. KeyKept(row)
  <2> SUFFICES ASSUME NEW j \in Keys, j[1] # c.right, active[j] # 0
               PROVE active'[j] # 0 /\ (chains[active[j]].opt_pos = 0 => chains'[active'[j]].opt_pos = 0)
    BY DEF KeyKept
  <2>1. j # k BY <1>1, KeysTyped
  <2>2. active[j] # m
    <3>1. SUFFICES ASSUME active[j] = m PROVE FALSE OBVIOUS
    <3>2. m \in 1..Len(chains) /\ KeyOfChain(chains[m]) = j BY <1>6, <3>1
    <3>3. chains[m].right = k[1] /\ k[1] = c.right BY <1>1, <3>2, KeysTyped
    <3> QED BY <3>2, <3>3 DEF KeyOfChain
  <2>3. active'[j] = active[j] BY <2>1, <2>2
  <2> QED BY <1>8, <2>1, <2>3
<1> QED BY <1>7, <1>9, <1>10, <1>11, <1>12, <1>13 DEF Effect, Orderly

\* Reading a sale that opens a chain adds its lots.
LEMMA SellOpensEffect ==
  ASSUME TypeOK, Orderly, NEW i, ReadSellOpens(i), Ready(tape[i])
  PROVE Effect(tape[i])
<1> DEFINE row == tape[i]
           c == row.contract
           k == KeyOf(c)
           first == NewChain(k, c)
           new == Sold(first, row)
           m == Len(chains) + 1
<1>1. Take(i, {"sell"}) /\ row.kind = "sell" BY DEF ReadSellOpens, Take
<1>2. row \in Row /\ day' = day BY <1>1, TakeTyped
<1>3. c \in Contracts /\ k \in Keys /\ row.qty \in Nat /\ day \in 1..MaxDay /\ Len(chains) \in Nat
  BY <1>2, RowTyped DEF TypeOK
<1>4. /\ ~Continues(k) /\ chains' = Append(Lapsed(k), new) /\ active' = [active EXCEPT ![k] = m]
  BY DEF ReadSellOpens
<1>5. /\ first \in Chain /\ first.opt_pos = 0 /\ first.open_credit = 0 /\ first.stk_pos = 0
      /\ first.cumulative_credit = 0 /\ first.status = "open" /\ KeyOfChain(first) = KeyOf(c)
  <2>1. first \in Chain BY <1>3, NewChainTyped
  <2>2. k[1] = c.right /\ k[2] = c.strike BY <1>3, KeysTyped
  <2> QED BY <2>1, <2>2 DEF NewChain, KeyOfChain, KeyOf
<1> HIDE DEF first
<1>6. Sound(first)
  <2>1. first.open_credit = -first.opt_pos
    <3>1. first.opt_pos \in Int /\ first.opt_pos <= 0 /\ first.opt_pos >= 0 BY <1>5
    <3> QED BY <1>5, <3>1, MinusZero
  <2>2. first.opt_pos <= 0 /\ first.stk_pos >= 0 /\ first.stk_pos <= 0 BY <1>5
  <2> QED BY <2>1, <2>2 DEF Sound
<1>7. /\ new \in Chain /\ ChainOK(new) /\ KeyOfChain(new) = k /\ new.last_conid = c
      /\ new.opt_pos = 0 - row.qty /\ new.stk_pos = 0 /\ new.cumulative_credit = 0 + row.qty
  BY <1>1, <1>2, <1>5, <1>6, SoldSound
<1>8. /\ Lapsed(k) \in Seq(Chain) /\ Len(Lapsed(k)) = Len(chains)
      /\ \A f \in {CreditOf, LongOf, CoverOf} : Total(f, Lapsed(k)) = Total(f, chains)
  BY <1>3, LapsedSound
<1> HIDE DEF new, k, c, row
<1>9. /\ Len(chains') = m /\ chains'[m] = new
      /\ \A n \in 1..Len(chains') : n # m => n \in 1..Len(chains) /\ chains'[n] = Lapsed(k)[n]
  BY <1>3, <1>4, <1>7, <1>8
<1>10. \A j \in Keys : active[j] \in 0..Len(chains) BY DEF TypeOK
<1>11. \A j \in Keys : active'[j] = IF j = k THEN m ELSE IF active[j] = m THEN 0 ELSE active[j]
  <2>1. \A j \in Keys : active[j] # m BY <1>3, <1>10
  <2>2. active \in [Keys -> 0..Len(chains)] BY DEF TypeOK
  <2> QED BY <1>3, <1>4, <2>1, <2>2
<1>12. Booked(row)
  <2>1. /\ CreditOf[new] = row.qty /\ LongOf[new] = 0 /\ CoverOf[new] = 0
    BY <1>3, <1>7 DEF CreditOf, LongOf, CoverOf
  <2>2. ASSUME NEW f \in {CreditOf, LongOf, CoverOf}
        PROVE Total(f, chains') = Total(f, chains) + f[new]
    <3>1. f \in [Chain -> Int] BY ChainSums
    <3>2. Total(f, Append(Lapsed(k), new)) = Total(f, Lapsed(k)) + f[new]
      BY ZenonT(40), <1>7, <1>8, <3>1, TotalAppend
    <3> QED BY <1>4, <1>8, <3>2
  <2>3. Money(row) = row.qty /\ LongIn(row) = 0 /\ CoverIn(row) = 0
    BY <1>1 DEF Money, Credit, LongIn, CoverIn
  <2> QED BY <2>1, <2>2, <2>3 DEF Booked
<1>13. m \in 1..Len(chains') /\ m # active[k] /\ Len(chains) <= Len(chains') /\ Len(chains') \in Nat
  BY <1>3, <1>9, <1>10
<1>14. m \notin 1..Len(chains) BY <1>3
<1>15. k = KeyOf(row.contract) /\ c = row.contract /\ Ready(row) BY DEF k, c, row
<1> HIDE DEF m
<1>16. Effect(row)
  BY <1>1, <1>2, <1>4, <1>7, <1>9, <1>11, <1>12, <1>13, <1>14, <1>15, BegunIsEffect
<1> QED BY <1>16 DEF row

\* Reading a sale that rolls a chain to its strike adds its lots.
LEMMA SellRollsEffect ==
  ASSUME TypeOK, Orderly, NEW i, ReadSellRolls(i), Ready(tape[i])
  PROVE Effect(tape[i])
<1> DEFINE row == tape[i]
           c == row.contract
           k == KeyOf(c)
<1>1. Take(i, {"sell"}) /\ row.kind = "sell" BY DEF ReadSellRolls, Take
<1>2. row \in Row /\ day' = day BY <1>1, TakeTyped
<1>3. c \in Contracts /\ k \in Keys /\ row.qty \in Nat BY <1>2, RowTyped
<1>4. PICK m \in RollCandidates(k) :
        /\ ~Continues(k)
        /\ chains' = [Lapsed(k) EXCEPT ![m] =
                        Sold([Reopen(Lapsed(k)[m]) EXCEPT !.right = k[1], !.strike = k[2]], row)]
        /\ active' = [j \in Keys |-> CASE j = k                                   -> m
                                       [] j # k /\ j = <<chains[m].right, chains[m].strike>> -> 0
                                       [] OTHER                                   -> active[j]]
  BY DEF ReadSellRolls
<1> DEFINE old == chains[m]
           again == Reopen(old)
           moved == [again EXCEPT !.right = k[1], !.strike = k[2]]
           new == Sold(moved, row)
<1>5. /\ m \in Active /\ old.right = k[1] /\ old.strike # k[2] /\ old.opt_pos = 0 /\ old.stk_pos = 0
  BY DEF RollCandidates
<1>6. /\ m \in 1..Len(chains) /\ old \in Chain /\ ChainOK(old)
      /\ KeyOfChain(old) \in Keys /\ active[KeyOfChain(old)] = m
  BY <1>5, ActiveKey
<1>7. /\ Lapsed(k) \in Seq(Chain) /\ Len(Lapsed(k)) = Len(chains)
      /\ \A n \in 1..Len(chains) : n # active[k] => Lapsed(k)[n] = chains[n]
      /\ \A f \in {CreditOf, LongOf, CoverOf} : Total(f, Lapsed(k)) = Total(f, chains)
  BY <1>3, LapsedSound
<1>8. \A j \in Keys : active[j] # 0 => KeyOfChain(chains[active[j]]) = j
  BY ActiveFacts
<1>9. m # active[k] /\ m # 0
  <2>1. SUFFICES ASSUME m = active[k] PROVE FALSE BY <1>6
  <2>2. KeyOfChain(old) = k BY <1>3, <1>6, <1>8, <2>1
  <2> QED BY <1>5, <2>2 DEF KeyOfChain
<1>10. Lapsed(k)[m] = old BY <1>6, <1>7, <1>9
<1>11. chains' = [Lapsed(k) EXCEPT ![m] = new] BY <1>4, <1>10
<1>12. \A j \in Keys : active'[j] = IF j = k THEN m ELSE IF active[j] = m THEN 0 ELSE active[j]
  <2> SUFFICES ASSUME NEW j \in Keys
               PROVE active'[j] = IF j = k THEN m ELSE IF active[j] = m THEN 0 ELSE active[j]
    OBVIOUS
  <2>1. j = <<chains[m].right, chains[m].strike>> <=> active[j] = m
    BY <1>6, <1>8, <1>9 DEF KeyOfChain
  <2>2. CASE j = k BY <1>4, <2>2
  <2>3. CASE j # k /\ active[j] = m BY <1>4, <2>1, <2>3
  <2>4. CASE j # k /\ active[j] # m BY <1>4, <2>1, <2>4
  <2> QED BY <2>2, <2>3, <2>4
<1>13. /\ again \in Chain /\ again.opt_pos = 0 /\ again.stk_pos = 0
       /\ again.open_credit = old.open_credit /\ again.cumulative_credit = old.cumulative_credit
       /\ again.status = "open"
  BY <1>5, <1>6, ReopenSound
<1> HIDE DEF again
<1>14. k[1] \in {"P", "C"} /\ k[2] \in Nat /\ k = <<k[1], k[2]>> BY <1>3, KeysAreKeys
<1>15. /\ moved \in Chain /\ moved.opt_pos = 0 /\ moved.stk_pos = 0
       /\ moved.open_credit = old.open_credit /\ moved.cumulative_credit = old.cumulative_credit
       /\ moved.status = "open" /\ KeyOfChain(moved) = k
  BY <1>13, <1>14 DEF Chain, KeyOfChain
<1>16. Sound(moved)
  <2>1. old.open_credit = -old.opt_pos BY <1>6 DEF ChainOK, Sound
  <2>2. moved.open_credit = -moved.opt_pos BY <1>5, <1>15, <2>1
  <2> QED BY <1>15, <2>2 DEF Sound
<1> HIDE DEF moved
<1>17. /\ new \in Chain /\ ChainOK(new) /\ KeyOfChain(new) = k /\ new.last_conid = c
       /\ new.opt_pos = 0 - row.qty /\ new.stk_pos = 0
       /\ new.cumulative_credit = old.cumulative_credit + row.qty
  BY <1>1, <1>2, <1>15, <1>16, SoldSound
<1> HIDE DEF new, old, k, c, row
<1>18. /\ Len(chains') = Len(chains) /\ chains'[m] = new
       /\ \A n \in 1..Len(chains') : n # m => n \in 1..Len(chains) /\ chains'[n] = Lapsed(k)[n]
       /\ m \in 1..Len(chains')
  BY <1>6, <1>7, <1>11, <1>17
<1>19. Booked(row)
  <2>1. Money(row) = row.qty /\ LongIn(row) = 0 /\ CoverIn(row) = 0
    BY <1>1 DEF Money, Credit, LongIn, CoverIn
  <2>2. /\ old.cumulative_credit \in Int /\ CreditOf[new] = CreditOf[old] + row.qty
        /\ LongOf[new] = 0 /\ CoverOf[new] = 0 /\ LongOf[old] = 0 /\ CoverOf[old] = 0
    BY <1>5, <1>6, <1>17 DEF CreditOf, LongOf, CoverOf, Chain
  <2>3. ASSUME NEW f \in {CreditOf, LongOf, CoverOf}
        PROVE /\ Total(f, chains') = Total(f, chains) - f[old] + f[new]
              /\ Total(f, chains) \in Int /\ f[old] \in Int
    <3>1. f \in [Chain -> Int] BY ChainSums
    <3>2. m \in 1..Len(Lapsed(k)) /\ Lapsed(k) \in Seq(Chain) /\ new \in Chain BY <1>6, <1>7, <1>17
    <3>3. Total(f, [Lapsed(k) EXCEPT ![m] = new]) = Total(f, Lapsed(k)) - f[Lapsed(k)[m]] + f[new]
      BY SMTT(30), <3>1, <3>2, TotalExcept
    <3>4. Total(f, Lapsed(k)) \in Int BY <3>1, <3>2, TotalInt
    <3> QED BY <1>6, <1>7, <1>10, <1>11, <3>1, <3>3, <3>4
  <2>4. \A a, b, q \in Int : a - b + (b + q) = a + q OBVIOUS
  <2>5. Total(CreditOf, chains') = Total(CreditOf, chains) + row.qty
    <3>1. row.qty \in Int BY <1>3
    <3> QED BY <2>2, <2>3, <2>4, <3>1
  <2>6. \A f \in {LongOf, CoverOf} : Total(f, chains') = Total(f, chains) + 0
    <3>1. \A a \in Int : a - 0 + 0 = a + 0 OBVIOUS
    <3> QED BY <2>2, <2>3, <3>1
  <2> QED BY <2>1, <2>5, <2>6 DEF Booked
<1>20. Len(chains) <= Len(chains') /\ Len(chains') \in Nat
  <2>1. Len(chains) \in Nat BY DEF TypeOK
  <2> QED BY <1>18, <2>1
<1>21. m \in 1..Len(chains) => chains[m].opt_pos = 0 /\ chains[m].right = k[1] BY <1>5 DEF old
<1>22. k = KeyOf(row.contract) /\ c = row.contract /\ Ready(row) BY DEF k, c, row
<1>23. ~Continues(k) BY <1>4
<1>24. Effect(row)
  BY <1>1, <1>2, <1>9, <1>12, <1>17, <1>18, <1>19, <1>20, <1>21, <1>22, <1>23, BegunIsEffect
<1> QED BY <1>24 DEF row

\* Delivered shares make a put's chain longer, a call's shorter.
LEMMA MovedLong ==
  ASSUME NEW ch \in Chain, Sound(ch), NEW new \in Chain, NEW q \in Nat,
         new.stk_pos = ch.stk_pos + Moved(ch.right, q)
  PROVE /\ LongOf[new] = LongOf[ch] + (IF ch.right = "P" THEN q ELSE 0)
        /\ CoverOf[new] = CoverOf[ch] + (IF ch.right = "C" THEN q ELSE 0)
<1>1. ch.right \in {"P", "C"} /\ ch.stk_pos \in Int BY DEF Chain
<1>2. /\ LongOf[new] = IF new.stk_pos > 0 THEN new.stk_pos ELSE 0
      /\ CoverOf[new] = IF new.stk_pos < 0 THEN -new.stk_pos ELSE 0
      /\ LongOf[ch] = IF ch.stk_pos > 0 THEN ch.stk_pos ELSE 0
      /\ CoverOf[ch] = IF ch.stk_pos < 0 THEN -ch.stk_pos ELSE 0
  BY DEF LongOf, CoverOf
<1>3. CASE ch.right = "P"
  <2>1. ch.stk_pos >= 0 /\ new.stk_pos = ch.stk_pos + q BY <1>3 DEF Sound, Moved
  <2>2. \A s, q2 \in Nat : /\ (IF s + q2 > 0 THEN s + q2 ELSE 0) = (IF s > 0 THEN s ELSE 0) + q2
                           /\ ~(s + q2 < 0) /\ ~(s < 0)
    OBVIOUS
  <2>3. ch.stk_pos \in Nat BY <1>1, <2>1
  <2> QED BY <1>2, <1>3, <2>1, <2>2, <2>3
<1>4. CASE ch.right = "C"
  <2>1. ch.stk_pos <= 0 /\ new.stk_pos = ch.stk_pos + (-q) BY <1>4 DEF Sound, Moved
  <2>2. \A s \in Int, q2 \in Nat : s <= 0 =>
          /\ (IF s + (-q2) < 0 THEN -(s + (-q2)) ELSE 0) = (IF s < 0 THEN -s ELSE 0) + q2
          /\ ~(s + (-q2) > 0) /\ ~(s > 0)
    OBVIOUS
  <2> QED BY <1>1, <1>2, <1>4, <2>1, <2>2
<1> QED BY <1>1, <1>3, <1>4

\* Reading an assignment takes its lots off the short; without a STK row, its
\* shares come too.
LEMMA AssignmentEffect ==
  ASSUME TypeOK, Orderly, NEW i, ReadAssignment(i), Ready(tape[i])
  PROVE Effect(tape[i])
<1> DEFINE row == tape[i]
           c == row.contract
           k == KeyOf(c)
           old == chains[active[k]]
           new == Assigned(old, row)
<1>1. Take(i, {"assigned", "assignedA"}) /\ row.kind \in {"assigned", "assignedA"}
  BY DEF ReadAssignment, Take
<1>2. row \in Row /\ day' = day BY <1>1, TakeTyped
<1>3. c \in Contracts /\ k \in Keys /\ row.qty \in Nat /\ row.qty >= 1 BY <1>2, RowTyped DEF Ready
<1>4. /\ ShortOf(c) \in Nat /\ ShortOf(c) >= row.qty
      /\ row.kind = "assigned" => ShortOf(c) = row.qty
      /\ row.kind = "assignedA" <=> feed = "poll"
  BY <1>1, <1>3, ShortTypes DEF Ready
<1>5. /\ active[k] # 0 /\ active[k] \in Active /\ Found(k) = old
      /\ old.last_conid = c /\ old.opt_pos = -ShortOf(c) /\ day <= c.expiry
      /\ \A o \in Contracts \ {c} : KeyOf(o) = k => ShortOf(o) = 0
  BY <1>3, <1>4, ShortIsActive
<1>6. /\ old \in Chain /\ ChainOK(old) /\ KeyOfChain(old) = k /\ old.right = c.right /\ old.strike = c.strike
  BY <1>3, <1>5, ActiveFacts, KeysTyped
<1>7. \A n \in AssignmentTargets(row) : n = active[k]
  <2>1. CASE row.kind = "assigned" BY <1>5, <2>1 DEF AssignmentTargets
  <2>2. CASE row.kind = "assignedA"
    <3>1. old.opt_pos < 0 BY <1>3, <1>4, <1>5
    <3>2. active[k] \in ByConid(c) BY <1>5, <3>1 DEF ByConid
    <3>3. AssignmentTargets(row) = ByConid(c) BY <2>2, <3>2 DEF AssignmentTargets
    <3>4. ASSUME NEW n \in ByConid(c) PROVE n = active[k]
      <4>1. n \in Active /\ chains[n].last_conid = c BY DEF ByConid
      <4>2. ChainOK(chains[n]) /\ active[KeyOfChain(chains[n])] = n BY <4>1, ActiveKey
      <4> QED BY <4>1, <4>2 DEF ChainOK
    <3> QED BY <3>3, <3>4
  <2> QED BY <1>1, <2>1, <2>2
<1>8. AssignmentTargets(row) # {}
  <2>1. CASE row.kind = "assigned" BY <1>5, <2>1 DEF AssignmentTargets
  <2>2. CASE row.kind = "assignedA"
    <3>1. old.opt_pos < 0 BY <1>3, <1>4, <1>5
    <3>2. active[k] \in ByConid(c) BY <1>5, <3>1 DEF ByConid
    <3> QED BY <2>2, <3>2 DEF AssignmentTargets
  <2> QED BY <1>1, <2>1, <2>2
<1>9. Update(active[k], new)
  <2>1. \E n \in AssignmentTargets(row) :
          Update(n, Assigned(IF row.kind = "assigned" /\ n = active[k] THEN Found(k) ELSE chains[n], row))
    BY <1>8 DEF ReadAssignment
  <2>2. PICK n \in AssignmentTargets(row) :
          Update(n, Assigned(IF row.kind = "assigned" /\ n = active[k] THEN Found(k) ELSE chains[n], row))
    BY <2>1
  <2>3. n = active[k] BY <1>7
  <2>4. (IF row.kind = "assigned" /\ n = active[k] THEN Found(k) ELSE chains[n]) = old BY <1>5, <2>3
  <2> QED BY <2>2, <2>3, <2>4
<1> HIDE DEF old, k, c, row
<1>10. old.opt_pos + row.qty <= 0 /\ old.opt_pos \in Int BY <1>3, <1>4, <1>5
<1>11. /\ new \in Chain /\ ChainOK(new) /\ Same(old, new) /\ new.status = "open"
       /\ new.opt_pos = old.opt_pos + row.qty
       /\ feed = "poll" =>
            /\ new.stk_pos = old.stk_pos + Moved(old.right, row.qty)
            /\ new.cumulative_credit = old.cumulative_credit - Moved(old.right, row.qty * old.strike)
       /\ feed # "poll" =>
            new.stk_pos = old.stk_pos /\ new.cumulative_credit = old.cumulative_credit
  BY <1>1, <1>2, <1>3, <1>6, <1>10, AssignedSound
<1> HIDE DEF new
<1>12. KeyOfChain(new) = k BY <1>6, <1>11 DEF Same, KeyOfChain
<1>13. ShortAfter(row) = ShortOf(c) - row.qty BY <1>1 DEF ShortAfter, c
<1>14. ASSUME NEW o \in Contracts, KeyOf(o) = k
       PROVE Live(new, o) = IF o = c THEN ShortAfter(row) ELSE ShortOf(o)
  <2>1. new.last_conid = c BY <1>5, <1>11 DEF Same
  <2>2. CASE o = c
    <3>1. Live(new, o) = -new.opt_pos BY <1>5, <2>1, <2>2 DEF Live
    <3>2. -new.opt_pos = ShortOf(c) - row.qty BY <1>3, <1>4, <1>5, <1>11
    <3> QED BY <1>13, <2>2, <3>1, <3>2
  <2>3. CASE o # c BY <1>5, <1>14, <2>1, <2>3 DEF Live
  <2> QED BY <2>2, <2>3
<1>15. /\ new.cumulative_credit = old.cumulative_credit + Money(row)
       /\ LongOf[new] = LongOf[old] + LongIn(row) /\ CoverOf[new] = CoverOf[old] + CoverIn(row)
  <2>0. /\ old.cumulative_credit \in Int /\ LongOf[old] \in Int /\ CoverOf[old] \in Int
        /\ old.right \in {"P", "C"} /\ old.stk_pos \in Int
    BY <1>6 DEF Chain, LongOf, CoverOf
  <2>1. CASE feed = "poll"
    <3>1. /\ row.kind = "assignedA"
          /\ Money(row) = -Moved(old.right, row.qty * old.strike)
      BY <1>4, <1>6, <2>1 DEF Money, c
    <3>2. /\ LongIn(row) = IF old.right = "P" THEN row.qty ELSE 0
          /\ CoverIn(row) = IF old.right = "C" THEN row.qty ELSE 0
      BY <1>6, <3>1 DEF LongIn, CoverIn, c
    <3>3. Moved(old.right, row.qty * old.strike) \in Int
      <4>1. row.qty * old.strike \in Int BY <1>2, <1>6, Amounts DEF c
      <4> QED BY <4>1 DEF Moved
    <3>4. \A a, b \in Int : a - b = a + (-b) OBVIOUS
    <3>5. Sound(old) BY <1>6 DEF ChainOK
    <3>6. /\ LongOf[new] = LongOf[old] + (IF old.right = "P" THEN row.qty ELSE 0)
          /\ CoverOf[new] = CoverOf[old] + (IF old.right = "C" THEN row.qty ELSE 0)
      BY <1>3, <1>6, <1>11, <2>1, <3>5, MovedLong
    <3> DEFINE value == Moved(old.right, row.qty * old.strike)
    <3>7. new.cumulative_credit = old.cumulative_credit - value /\ Money(row) = -value /\ value \in Int
      BY <1>11, <2>1, <3>1, <3>3
    <3> HIDE DEF value
    <3>8. new.cumulative_credit = old.cumulative_credit + Money(row) BY <2>0, <3>4, <3>7
    <3> QED BY <3>2, <3>6, <3>8
  <2>2. CASE feed # "poll"
    <3>1. row.kind = "assigned" BY <1>1, <1>4, <2>2
    <3>2. Money(row) = 0 /\ LongIn(row) = 0 /\ CoverIn(row) = 0 BY <3>1 DEF Money, LongIn, CoverIn
    <3>3. LongOf[new] = LongOf[old] /\ CoverOf[new] = CoverOf[old]
      BY <1>6, <1>11, <2>2 DEF LongOf, CoverOf
    <3>4. \A a \in Int : a = a + 0 OBVIOUS
    <3>5. new.cumulative_credit = old.cumulative_credit BY <1>11, <2>2
    <3> QED BY <2>0, <3>2, <3>3, <3>4, <3>5
  <2> QED BY <2>1, <2>2
<1>16. Flat(new) => row.kind = "assigned"
  <2> SUFFICES ASSUME Flat(new), feed = "poll" PROVE FALSE BY <1>1, <1>4
  <2>1. new.stk_pos = 0 /\ new.stk_pos = old.stk_pos + Moved(old.right, row.qty) BY <1>11 DEF Flat
  <2>2. /\ old.right \in {"P", "C"} /\ old.stk_pos \in Int
        /\ old.right = "P" => old.stk_pos >= 0
        /\ old.right = "C" => old.stk_pos <= 0
    BY <1>6 DEF Chain, ChainOK, Sound
  <2>3. CASE old.right = "P"
    <3>1. new.stk_pos = old.stk_pos + row.qty BY <2>1, <2>3 DEF Moved
    <3> QED BY <1>3, <2>1, <2>2, <2>3, <3>1
  <2>4. CASE old.right = "C"
    <3>1. new.stk_pos = old.stk_pos + (-row.qty) BY <2>1, <2>4 DEF Moved
    <3> QED BY <1>3, <2>1, <2>2, <2>4, <3>1
  <2> QED BY <2>2, <2>3, <2>4
<1>17. row.kind = "assigned" => new.opt_pos = 0 BY <1>3, <1>4, <1>5, <1>11
<1>18. old.opt_pos # 0 BY <1>3, <1>4, <1>5
<1>19. chains[active[k]] = old /\ k = KeyOf(row.contract) /\ c = row.contract BY DEF old, k, c
<1>20. \A o \in Contracts : KeyOf(o) = k =>
         Live(new, o) = IF o = row.contract THEN ShortAfter(row) ELSE ShortOf(o)
  BY <1>14 DEF c
<1>21. /\ row.kind # "sell" /\ chains[active[k]].opt_pos # 0
       /\ new.cumulative_credit = chains[active[k]].cumulative_credit + Money(row)
       /\ LongOf[new] = LongOf[chains[active[k]]] + LongIn(row)
       /\ CoverOf[new] = CoverOf[chains[active[k]]] + CoverIn(row)
       /\ (Flat(new) => new.status = "closed" \/ (new = chains[active[k]] /\ row.kind # "delivered"))
            \/ (row.kind = "assigned" /\ k = KeyOf(row.contract))
  BY <1>1, <1>15, <1>16, <1>18, <1>19
<1>22. Effect(row)
  BY <1>2, <1>3, <1>5, <1>9, <1>11, <1>12, <1>17, <1>19, <1>20, <1>21, UpdateIsEffect
<1> QED BY <1>22 DEF row

\* Reading delivered shares books them, and takes off the short if it is still
\* there.
LEMMA DeliveryEffect ==
  ASSUME TypeOK, Orderly, NEW i, ReadDelivery(i), Ready(tape[i])
  PROVE Effect(tape[i])
<1> DEFINE row == tape[i]
           c == row.contract
           k == KeyOf(c)
           old == chains[active[k]]
           new == Reopen([Delivered(old, row) EXCEPT !.cumulative_credit = @ + Credit(row)])
<1>1. Take(i, {"delivered"}) /\ row.kind = "delivered"
  BY DEF ReadDelivery, Take
<1>2. row \in Row /\ day' = day BY <1>1, TakeTyped
<1>3. c \in Contracts /\ k \in Keys /\ row.qty \in Nat /\ row.qty >= 1 BY <1>2, RowTyped DEF Ready
<1>4. /\ active[k] # 0 /\ old.opt_pos = 0
      /\ row.side = IF c.right = "P" THEN "B" ELSE "S"
  BY <1>1 DEF Ready
<1>5. /\ old \in Chain /\ ChainOK(old) /\ KeyOfChain(old) = k /\ old.right = c.right /\ old.strike = c.strike
  BY <1>3, <1>4, ActiveFacts, KeysTyped
<1>6. Update(active[k], new)
  <2>1. \E n \in {active[k]} :
          Update(n, Reopen([Delivered(IF chains[n].opt_pos < 0 THEN WithShort(chains[n], 0) ELSE chains[n], row)
                              EXCEPT !.cumulative_credit = @ + Credit(row)]))
    BY <1>4 DEF ReadDelivery
  <2>2. ~(old.opt_pos < 0) BY <1>4
  <2> QED BY <2>1, <2>2
<1>7. \A o \in Contracts : KeyOf(o) = k => ShortOf(o) = Live(old, o) BY <1>4 DEF ShortOf
<1> HIDE DEF old, k, c, row
<1>8. /\ new \in Chain /\ ChainOK(new) /\ Same(old, new)
      /\ new.opt_pos = old.opt_pos
      /\ new.stk_pos = old.stk_pos + Moved(old.right, row.qty)
      /\ new.cumulative_credit = old.cumulative_credit + Credit(row)
  BY <1>2, <1>5, DeliverySound
<1> HIDE DEF new
<1>9. KeyOfChain(new) = k BY <1>5, <1>8 DEF Same, KeyOfChain
<1>10. ShortAfter(row) = ShortOf(c) BY <1>1 DEF ShortAfter, c
<1>11. ASSUME NEW o \in Contracts, KeyOf(o) = k
       PROVE Live(new, o) = IF o = c THEN ShortAfter(row) ELSE ShortOf(o)
  <2>1. Live(new, o) = Live(old, o) BY <1>8 DEF Live, Same
  <2> QED BY <1>7, <1>10, <1>11, <2>1
<1>12. new.cumulative_credit = old.cumulative_credit + Money(row)
  <2> DEFINE value == row.qty * row.contract.strike
  <2>1. value \in Int BY <1>2, Amounts
  <2>2. Money(row) = -Moved(c.right, value) BY <1>1 DEF Money, c
  <2>3. Credit(row) = IF row.side = "S" THEN value ELSE -value BY <1>1 DEF Credit
  <2>4. c.right \in {"P", "C"} BY <1>3, KeysTyped
  <2> HIDE DEF value
  <2>5. \A v \in Int : -(-v) = v OBVIOUS
  <2>6. Credit(row) = Money(row) BY <1>4, <2>1, <2>2, <2>3, <2>4, <2>5 DEF Moved
  <2> QED BY <1>8, <2>6
<1>13. /\ LongOf[new] = LongOf[old] + LongIn(row) /\ CoverOf[new] = CoverOf[old] + CoverIn(row)
  <2>1. Sound(old) BY <1>5 DEF ChainOK
  <2>2. /\ LongOf[new] = LongOf[old] + (IF old.right = "P" THEN row.qty ELSE 0)
        /\ CoverOf[new] = CoverOf[old] + (IF old.right = "C" THEN row.qty ELSE 0)
    BY <1>3, <1>5, <1>8, <2>1, MovedLong
  <2>3. /\ LongIn(row) = IF old.right = "P" THEN row.qty ELSE 0
        /\ CoverIn(row) = IF old.right = "C" THEN row.qty ELSE 0
    BY <1>1, <1>5 DEF LongIn, CoverIn, c
  <2> QED BY <2>2, <2>3
<1>14. ~Flat(new)
  <2> SUFFICES ASSUME Flat(new) PROVE FALSE OBVIOUS
  <2>1. new.stk_pos = 0 /\ new.stk_pos = old.stk_pos + Moved(old.right, row.qty) BY <1>8 DEF Flat
  <2>2. /\ old.right \in {"P", "C"} /\ old.stk_pos \in Int
        /\ old.right = "P" => old.stk_pos >= 0
        /\ old.right = "C" => old.stk_pos <= 0
    BY <1>5 DEF Chain, ChainOK, Sound
  <2>3. CASE old.right = "P"
    <3>1. new.stk_pos = old.stk_pos + row.qty BY <2>1, <2>3 DEF Moved
    <3> QED BY <1>3, <2>1, <2>2, <2>3, <3>1
  <2>4. CASE old.right = "C"
    <3>1. new.stk_pos = old.stk_pos + (-row.qty) BY <2>1, <2>4 DEF Moved
    <3> QED BY <1>3, <2>1, <2>2, <2>4, <3>1
  <2> QED BY <2>2, <2>3, <2>4
<1>15. chains[active[k]] = old /\ k = KeyOf(row.contract) /\ c = row.contract BY DEF old, k, c
<1>16. \A o \in Contracts : KeyOf(o) = k =>
         Live(new, o) = IF o = row.contract THEN ShortAfter(row) ELSE ShortOf(o)
  BY <1>11 DEF c
<1>17. /\ row.kind # "sell" /\ row.kind # "assigned"
       /\ new.cumulative_credit = chains[active[k]].cumulative_credit + Money(row)
       /\ LongOf[new] = LongOf[chains[active[k]]] + LongIn(row)
       /\ CoverOf[new] = CoverOf[chains[active[k]]] + CoverIn(row)
       /\ Flat(new) => new.status = "closed" \/ (new = chains[active[k]] /\ row.kind # "delivered")
       /\ new.opt_pos = 0
  BY <1>1, <1>4, <1>8, <1>12, <1>13, <1>14, <1>15
<1>18. Effect(row)
  BY <1>2, <1>3, <1>4, <1>6, <1>8, <1>9, <1>15, <1>16, <1>17, UpdateIsEffect
<1> QED BY <1>18 DEF row

\* Reading a share trade takes its lot off a chain that has one.
LEMMA StockEffect ==
  ASSUME TypeOK, Orderly, NEW i, ReadStock(i), Ready(tape[i])
  PROVE Effect(tape[i])
<1> DEFINE row == tape[i]
           Holding(n) == IF row.side = "S" THEN chains[n].stk_pos > 0 ELSE chains[n].stk_pos < 0
           targets == {n \in Active : Holding(n)}
<1>1. Take(i, {"stock", "copy"}) /\ row.kind \in {"stock", "copy"} BY DEF ReadStock, Take
<1>2. row \in Row /\ day' = day BY <1>1, TakeTyped
<1>3. row.contract \in Contracts /\ row.qty \in Nat /\ row.qty >= 1 BY <1>2, RowTyped DEF Ready
<1>4. /\ row.side \in {"B", "S"}
      /\ row.kind = "stock" /\ row.side = "S" => Total(LongOf, chains) >= 1
      /\ row.kind = "stock" /\ row.side = "B" => Total(CoverOf, chains) >= 1
      /\ row.kind = "copy" /\ row.side = "S" => Total(LongOf, chains) = 0
      /\ row.kind = "copy" /\ row.side = "B" => Total(CoverOf, chains) = 0
      /\ row.kind = "stock" => row.qty = 1
  BY <1>1 DEF Ready
<1>5. /\ targets = {} => UNCHANGED <<chains, active>>
      /\ targets # {} => \E n \in targets : Update(n, Traded(chains[n], row))
  BY DEF ReadStock, Traded
<1>6. chains \in Seq(Chain) /\ \A n \in 1..Len(chains) : chains[n] \in Chain /\ ChainOK(chains[n])
  BY DEF TypeOK, Orderly, AllSound
<1>7. \A n \in 1..Len(chains) :
        /\ chains[n].stk_pos \in Int
        /\ LongOf[chains[n]] = IF chains[n].stk_pos > 0 THEN chains[n].stk_pos ELSE 0
        /\ CoverOf[chains[n]] = IF chains[n].stk_pos < 0 THEN -chains[n].stk_pos ELSE 0
  BY <1>6 DEF LongOf, CoverOf, Chain
<1>8. ShortAfter(row) = ShortOf(row.contract) BY <1>1 DEF ShortAfter
<1>9. CASE row.kind = "stock"
  <2>1. targets # {}
    <3> SUFFICES ASSUME targets = {} PROVE FALSE OBVIOUS
    <3>1. ASSUME NEW n \in 1..Len(chains) PROVE ~Holding(n)
      <4>1. n \in Active \/ chains[n].status = "closed" BY DEF Orderly, GoneClosed
      <4>2. chains[n].status = "closed" => chains[n].stk_pos = 0 BY <1>6 DEF ChainOK, Flat
      <4> QED BY <4>1, <4>2
    <3>2. CASE row.side = "S"
      <4>1. \A n \in 1..Len(chains) : LongOf[chains[n]] = 0 BY <1>7, <3>1, <3>2
      <4>2. Total(LongOf, chains) = 0 BY <1>6, <4>1, ChainSums, TotalZero
      <4> QED BY <1>4, <1>9, <3>2, <4>2
    <3>3. CASE row.side = "B"
      <4>1. \A n \in 1..Len(chains) : CoverOf[chains[n]] = 0 BY <1>7, <3>1, <3>3
      <4>2. Total(CoverOf, chains) = 0 BY <1>6, <4>1, ChainSums, TotalZero
      <4> QED BY <1>4, <1>9, <3>3, <4>2
    <3> QED BY <1>4, <3>2, <3>3
  <2>2. PICK n \in targets : Update(n, Traded(chains[n], row)) BY <1>5, <2>1
  <2>3. n \in Active /\ Holding(n) BY <2>2
  <2> DEFINE old == chains[n]
             k == KeyOfChain(old)
             new == Traded(old, row)
  <2>4. k \in Keys /\ active[k] = n /\ n \in 1..Len(chains) /\ old \in Chain /\ ChainOK(old)
    BY <2>3, ActiveKey
  <2>5. IF row.side = "S" THEN old.stk_pos > 0 ELSE old.stk_pos < 0 BY <2>3
  <2>6. day \in 1..MaxDay BY DEF TypeOK
  <2>7. active[k] # 0 BY <2>4
  <2>8. \A o \in Contracts : KeyOf(o) = k => ShortOf(o) = Live(old, o) BY <2>4, <2>7 DEF ShortOf
  <2>9. Update(active[k], new) BY <2>2, <2>4
  <2>10. LongOf[old] \in Int /\ CoverOf[old] \in Int /\ old.stk_pos \in Int
         /\ LongOf[old] = (IF old.stk_pos > 0 THEN old.stk_pos ELSE 0)
         /\ CoverOf[old] = (IF old.stk_pos < 0 THEN -old.stk_pos ELSE 0)
    BY <1>7, <2>4
  <2>11. chains[active[k]] = old BY <2>4
  <2> HIDE DEF k, old, row
  <2>12. /\ new \in Chain /\ ChainOK(new) /\ Same(old, new)
         /\ new.opt_pos = old.opt_pos
         /\ new.stk_pos = IF row.side = "S" THEN old.stk_pos - 1 ELSE old.stk_pos + 1
         /\ new.cumulative_credit = old.cumulative_credit + Credit(row)
         /\ Flat(new) => new.status = "closed"
    BY <1>2, <1>4, <1>9, <2>4, <2>5, <2>6, TradedSound
  <2> HIDE DEF new
  <2>13. KeyOfChain(new) = k BY <2>12 DEF Same, KeyOfChain, k
  <2>14. Money(row) = Credit(row) BY <1>9 DEF Money
  <2>15. LongIn(row) = (IF row.side = "S" THEN -1 ELSE 0) /\ CoverIn(row) = (IF row.side = "B" THEN -1 ELSE 0)
    BY <1>4, <1>9 DEF LongIn, CoverIn
  <2>16. LongOf[new] = LongOf[old] + LongIn(row) /\ CoverOf[new] = CoverOf[old] + CoverIn(row)
    <3>1. /\ LongOf[new] = (IF new.stk_pos > 0 THEN new.stk_pos ELSE 0)
          /\ CoverOf[new] = (IF new.stk_pos < 0 THEN -new.stk_pos ELSE 0)
      BY <2>12 DEF LongOf, CoverOf
    <3>2. CASE row.side = "S"
      <4>1. \A s \in Int : s > 0 => (IF s - 1 > 0 THEN s - 1 ELSE 0) = s + (-1) /\ ~(s - 1 < 0) /\ ~(s < 0) OBVIOUS
      <4>2. \A a \in Int : a = a + 0 OBVIOUS
      <4> QED BY <2>5, <2>10, <2>12, <2>15, <3>1, <3>2, <4>1, <4>2
    <3>3. CASE row.side = "B"
      <4>1. \A s \in Int : s < 0 => (IF s + 1 < 0 THEN -(s + 1) ELSE 0) = (-s) + (-1) /\ ~(s + 1 > 0) /\ ~(s > 0) OBVIOUS
      <4>2. \A a \in Int : a = a + 0 OBVIOUS
      <4> QED BY <2>5, <2>10, <2>12, <2>15, <3>1, <3>3, <4>1, <4>2
    <3> QED BY <1>4, <3>2, <3>3
  <2>17. ASSUME NEW o \in Contracts, KeyOf(o) = k
         PROVE Live(new, o) = IF o = row.contract THEN ShortAfter(row) ELSE ShortOf(o)
    <3>1. Live(new, o) = Live(old, o) BY <2>12 DEF Live, Same
    <3> QED BY <1>8, <2>8, <2>17, <3>1
  <2>18. /\ row.kind \notin {"sell", "delivered", "assigned"}
         /\ KeyOf(row.contract) = k \/ ShortAfter(row) = ShortOf(row.contract)
         /\ new.cumulative_credit = chains[active[k]].cumulative_credit + Money(row)
         /\ LongOf[new] = LongOf[chains[active[k]]] + LongIn(row)
         /\ CoverOf[new] = CoverOf[chains[active[k]]] + CoverIn(row)
         /\ chains[active[k]].opt_pos = 0 => new.opt_pos = 0
         /\ Flat(new) => new.status = "closed" \/ (new = chains[active[k]] /\ row.kind # "delivered")
    BY <1>8, <1>9, <2>11, <2>12, <2>14, <2>16
  <2>19. Effect(row)
    BY <1>2, <2>4, <2>7, <2>9, <2>12, <2>13, <2>17, <2>18, UpdateIsEffect
  <2> QED BY <2>19 DEF row
<1>10. CASE row.kind = "copy"
  <2>1. \A n \in 1..Len(chains) : LongOf[chains[n]] >= 0 /\ CoverOf[chains[n]] >= 0 BY <1>7
  <2>2. /\ \A n \in 1..Len(chains) : LongOf[chains[n]] <= Total(LongOf, chains)
        /\ \A n \in 1..Len(chains) : CoverOf[chains[n]] <= Total(CoverOf, chains)
    BY <1>6, <2>1, ChainSums, TotalNat
  <2>3. ASSUME NEW n \in targets PROVE FALSE
    <3>1. n \in Active /\ Holding(n) BY <2>3
    <3>2. n \in 1..Len(chains) BY <3>1, ActiveTyped
    <3>3. CASE row.side = "S"
      <4>1. chains[n].stk_pos > 0 BY <3>1, <3>3
      <4>2. LongOf[chains[n]] = chains[n].stk_pos /\ LongOf[chains[n]] <= 0 /\ chains[n].stk_pos \in Int
        BY <1>4, <1>7, <1>10, <2>2, <3>2, <3>3, <4>1
      <4> QED BY <4>1, <4>2
    <3>4. CASE row.side = "B"
      <4>1. chains[n].stk_pos < 0 BY <3>1, <3>4
      <4>2. CoverOf[chains[n]] = -chains[n].stk_pos /\ CoverOf[chains[n]] <= 0 /\ chains[n].stk_pos \in Int
        BY <1>4, <1>7, <1>10, <2>2, <3>2, <3>4, <4>1
      <4> QED BY <4>1, <4>2
    <3> QED BY <1>4, <3>3, <3>4
  <2>4. chains' = chains /\ active' = active BY <1>5, <2>3
  <2>5. Money(row) = 0 /\ LongIn(row) = 0 /\ CoverIn(row) = 0 BY <1>10 DEF Money, LongIn, CoverIn
  <2> HIDE DEF row, targets
  <2>6. row.kind \notin {"delivered", "assigned"} BY <1>10
  <2>7. Effect(row) BY <1>2, <1>8, <2>4, <2>5, <2>6, NothingIsEffect
  <2> QED BY <2>7 DEF row
<1> QED BY <1>1, <1>9, <1>10

\* What any row that is read does, given what the account makes sure of.
LEMMA ReadEffect ==
  ASSUME TypeOK, Orderly, NEW i, ReadRow(i), Ready(tape[i])
  PROVE Effect(tape[i])
BY SellContinuesEffect, SellRollsEffect, SellOpensEffect, ExpiryEffect, BuyEffect, AssignmentEffect,
   DeliveryEffect, StockEffect DEF ReadRow

(***************************************************************************)
(* What the account and the rows that are still to be read make sure of,   *)
(* if the account has one feed and none of the histories that the builder  *)
(* does not follow.                                                        *)
(***************************************************************************)
Followed == Histories = {} /\ Feeds \subseteq {"poll", "flex"}

UserKinds   == {"sell", "buy", "stock"}
ExpiryKinds == {"zero", "eae"}
SettleKinds == {"zero", "eae", "assigned", "delivered"}

\* What a row says of the day and the feed it came from.
RowOK(r) ==
  /\ r.qty >= 1
  /\ r.kind # "stock" => day <= r.contract.expiry
  /\ r.kind = "stock" => r.qty = 1 /\ r.side \in {"B", "S"}
  /\ r.kind \in {"delivered", "copy"} => r.side = IF r.contract.right = "P" THEN "B" ELSE "S"
  /\ r.kind = "sell" => r.side = "S"
  /\ r.kind \in {"buy", "assigned", "zero"} => r.side = "B"
  /\ phase = "trade" => r.kind \in UserKinds
  /\ feed = "poll" => r.kind \in UserKinds \cup {"assignedA", "copy"}
  /\ feed # "poll" => r.kind \notin {"assignedA", "copy"}
RowsOK == \A i \in 1..Len(tape) : RowOK(tape[i])

\* No short outlives its expiry.
DueOK ==
  /\ \A c \in Contracts : c.expiry < day => held[c] = 0
  /\ phase = "read" => \A c \in Contracts : c.expiry <= day => held[c] = 0

Lapsing(c) == c.expiry = day /\ held[c] = 0 /\ phase # "trade"

\* Cash and shares are in the chains or in a row to come.
MoneyOf == [r \in Row |-> Money(r)]
CashOK == cash = Total(CreditOf, chains) + Total(MoneyOf, tape)

StockOf(side) == [r \in Row |-> IF r.kind = "stock" /\ r.side = side THEN r.qty ELSE 0]
DueOf(right)  ==
  [r \in Row |-> IF r.kind \in {"assignedA", "delivered"} /\ r.contract.right = right THEN r.qty ELSE 0]
Settling(right) ==
  \E i \in 1..Len(tape) : tape[i].kind \in {"assignedA", "copy"} /\ tape[i].contract.right = right

SharesOK ==
  /\ shares = (Total(LongOf, chains) - Total(StockOf("S"), tape) + Total(DueOf("P"), tape))
              - (Total(CoverOf, chains) - Total(StockOf("B"), tape) + Total(DueOf("C"), tape))
  /\ Total(StockOf("S"), tape) <= Total(LongOf, chains)
  /\ Total(StockOf("B"), tape) <= Total(CoverOf, chains)

\* Only the shares of an assignment are waited for.
FlatOK ==
  \A n \in 1..Len(chains) : Flat(chains[n]) =>
    \/ chains[n].status = "closed"
    \/ \E i \in 1..Len(tape) :
         tape[i].kind = "delivered" /\ KeyOf(tape[i].contract) = KeyOfChain(chains[n])

\* The live feed: rows come in the order they happened, so the shorts at each of them
\* are those of the chains and the rows before it.
DeltaOf(c) ==
  [r \in Row |-> IF r.contract # c THEN 0
                 ELSE CASE r.kind = "sell"               -> r.qty
                        [] r.kind \in {"buy", "assignedA"} -> -r.qty
                        [] OTHER                         -> 0]
Level(c, s) == ShortOf(c) + Total(DeltaOf(c), s)
LevelsOK(s) ==
  /\ \A c \in Contracts : Level(c, s) >= 0
  /\ \A c, o \in Contracts : c # o /\ KeyOf(c) = KeyOf(o) => Level(c, s) = 0 \/ Level(o, s) = 0
PollOK ==
  /\ \A i \in 0..Len(tape) : LevelsOK(SubSeq(tape, 1, i))
  /\ \A c \in Contracts : held[c] = Level(c, tape) \/ Lapsing(c)
  /\ \A i, j \in 1..Len(tape) : i < j /\ tape[i].kind \notin UserKinds => tape[j].kind \notin UserKinds
  /\ Total(LongOf, chains) = 0 \/ Total(CoverOf, chains) = 0
  /\ Settling("P") => Total(StockOf("B"), tape) = Total(CoverOf, chains) /\ ~Settling("C")
  /\ Settling("C") => Total(StockOf("S"), tape) = Total(LongOf, chains)
  /\ phase = "settle" => \A right : Settling(right) => Total(DueOf(right), tape) > 0

\* Flex: rows are sorted, so they are about shorts of the day before, but for sales.
LotsOf(kind, c) == [r \in Row |-> IF r.kind = kind /\ r.contract = c THEN r.qty ELSE 0]
Buys(c)  == Total(LotsOf("buy", c), tape)
Sells(c) == Total(LotsOf("sell", c), tape)
Comes(kind, c) == \E i \in 1..Len(tape) : tape[i].kind = kind /\ tape[i].contract = c

AssignedOK ==
  \A i \in 1..Len(tape) : tape[i].kind = "assigned" =>
    LET c == tape[i].contract IN
    /\ ShortOf(c) = tape[i].qty /\ held[c] = 0 /\ Comes("delivered", c)
    /\ \A j \in 1..Len(tape) : j # i /\ tape[j].contract = c => tape[j].kind \in {"delivered", "stock"}
ExpiryOK ==
  \A i \in 1..Len(tape) : tape[i].kind \in ExpiryKinds =>
    LET c == tape[i].contract IN
    /\ Lapsing(c) /\ ShortOf(c) \in {0, tape[i].qty}
    /\ \A o \in Contracts \ {c} : KeyOf(o) = KeyOf(c) => ShortOf(o) = 0
DeliveryOK ==
  \A i \in 1..Len(tape) : tape[i].kind = "delivered" =>
    LET c == tape[i].contract IN
    /\ active[KeyOf(c)] # 0
    /\ Comes("assigned", c) \/ chains[active[KeyOf(c)]].opt_pos = 0
FlexOK ==
  /\ \A c \in Contracts : Buys(c) <= ShortOf(c)
  /\ \A c \in Contracts :
       \/ held[c] = ShortOf(c) - Buys(c) + Sells(c)
       \/ Lapsing(c)
       \/ held[c] = 0 /\ Comes("assigned", c)
  /\ \A c, o \in Contracts : c # o /\ KeyOf(c) = KeyOf(o) /\ Sells(c) > 0 =>
       ShortOf(o) = Buys(o) /\ Sells(o) = 0
  /\ \A i, j \in 1..Len(tape) : tape[i].kind \in SettleKinds /\ tape[j].kind \in {"sell", "buy"} =>
       tape[i].contract.right # tape[j].contract.right
  /\ AssignedOK /\ ExpiryOK /\ DeliveryOK

BooksOK == /\ RowsOK /\ DueOK /\ CashOK /\ SharesOK /\ FlatOK
           /\ feed = "poll" => PollOK
           /\ feed # "poll" => FlexOK

Inv == TypeOK /\ Orderly /\ BooksOK

\* What is summed over the rows is integers.
LEMMA RowSums ==
  /\ MoneyOf \in [Row -> Int]
  /\ \A side : StockOf(side) \in [Row -> Int] /\ \A r \in Row : StockOf(side)[r] >= 0
  /\ \A right : DueOf(right) \in [Row -> Int] /\ \A r \in Row : DueOf(right)[r] >= 0
  /\ \A c : DeltaOf(c) \in [Row -> Int]
  /\ \A kind, c : LotsOf(kind, c) \in [Row -> Int] /\ \A r \in Row : LotsOf(kind, c)[r] >= 0
<1>1. \A r \in Row : r.qty \in Nat BY RowTyped
<1>2. MoneyOf \in [Row -> Int] BY Amounts DEF MoneyOf
<1>3. ASSUME NEW side PROVE StockOf(side) \in [Row -> Int] /\ \A r \in Row : StockOf(side)[r] >= 0
  BY <1>1 DEF StockOf
<1>4. ASSUME NEW right PROVE DueOf(right) \in [Row -> Int] /\ \A r \in Row : DueOf(right)[r] >= 0
  BY <1>1 DEF DueOf
<1>5. ASSUME NEW c PROVE DeltaOf(c) \in [Row -> Int]
  <2>1. \A r \in Row : -r.qty \in Int BY <1>1
  <2> QED BY <1>1, <2>1 DEF DeltaOf
<1>6. ASSUME NEW kind, NEW c PROVE LotsOf(kind, c) \in [Row -> Int] /\ \A r \in Row : LotsOf(kind, c)[r] >= 0
  BY <1>1 DEF LotsOf
<1> QED BY <1>2, <1>3, <1>4, <1>5, <1>6

\* The totals over the tape.
LEMMA TapeTotals ==
  ASSUME TypeOK
  PROVE /\ Len(tape) \in Nat
        /\ \A i \in 1..Len(tape) : tape[i] \in Row
        /\ \A f \in [Row -> Int] : Total(f, tape) \in Int
        /\ \A f \in [Row -> Int] : (\A i \in 1..Len(tape) : f[tape[i]] >= 0) =>
             Total(f, tape) >= 0 /\ \A i \in 1..Len(tape) : f[tape[i]] <= Total(f, tape)
        /\ \A f \in [Row -> Int] : (\A i \in 1..Len(tape) : f[tape[i]] = 0) => Total(f, tape) = 0
<1>1. tape \in Seq(Row) BY DEF TypeOK
<1> QED BY <1>1, TotalInt, TotalNat, TotalZero

\* The lots, shares and amounts of the rows to come.
LEMMA PendingTyped ==
  ASSUME TypeOK
  PROVE /\ Total(MoneyOf, tape) \in Int
        /\ \A side : Total(StockOf(side), tape) \in Nat
        /\ \A right : Total(DueOf(right), tape) \in Nat
        /\ \A c : Buys(c) \in Nat /\ Sells(c) \in Nat
        /\ \A c : Total(DeltaOf(c), tape) \in Int
<1>1. \A f \in [Row -> Int] : (\A r \in Row : f[r] >= 0) => Total(f, tape) \in Nat
  <2> SUFFICES ASSUME NEW f \in [Row -> Int], \A r \in Row : f[r] >= 0 PROVE Total(f, tape) \in Nat OBVIOUS
  <2>1. Total(f, tape) \in Int /\ Total(f, tape) >= 0 BY TapeTotals
  <2> QED BY <2>1
<1> QED BY <1>1, RowSums, TapeTotals DEF Buys, Sells

\* The totals over the chains.
LEMMA ChainTotals ==
  ASSUME TypeOK
  PROVE /\ Total(CreditOf, chains) \in Int
        /\ Total(LongOf, chains) \in Nat /\ Total(CoverOf, chains) \in Nat
<1>1. chains \in Seq(Chain) BY DEF TypeOK
<1>2. \A n \in 1..Len(chains) : LongOf[chains[n]] >= 0 /\ CoverOf[chains[n]] >= 0
  <2>1. \A n \in 1..Len(chains) : chains[n] \in Chain BY <1>1
  <2>2. \A ch \in Chain : ch.stk_pos \in Int BY DEF Chain
  <2> QED BY <2>1, <2>2 DEF LongOf, CoverOf
<1>3. Total(CreditOf, chains) \in Int /\ Total(LongOf, chains) \in Int /\ Total(CoverOf, chains) \in Int
  BY <1>1, ChainSums, TotalInt
<1>4. Total(LongOf, chains) >= 0 /\ Total(CoverOf, chains) >= 0
  BY <1>1, <1>2, ChainSums, TotalNat
<1> QED BY <1>3, <1>4

(***************************************************************************)
(* The account makes sure of what a row needs.                             *)
(***************************************************************************)
LEMMA FirstPrefix ==
  ASSUME NEW s \in Seq(Row), Len(s) >= 1, NEW f \in [Row -> Int]
  PROVE Total(f, SubSeq(s, 1, 1)) = f[s[1]]
<1>1. s[1] \in Row /\ SubSeq(s, 1, 1) = <<s[1]>>
  <2>1. Len(SubSeq(s, 1, 1)) = 1 /\ SubSeq(s, 1, 1)[1] = s[1] OBVIOUS
  <2>2. SubSeq(s, 1, 1) \in Seq(Row) OBVIOUS
  <2>3. ASSUME NEW t \in Seq(Row), Len(t) = 1 PROVE t = <<t[1]>> BY <2>3
  <2>4. SubSeq(s, 1, 1) = <<SubSeq(s, 1, 1)[1]>> BY <2>1, <2>2, <2>3
  <2>5. s[1] \in Row OBVIOUS
  <2> QED BY <2>1, <2>4, <2>5
<1> QED BY <1>1, TotalOne

\* The live feed: the next row finds the short, or the shares, that it is about.
LEMMA PollReady ==
  ASSUME Inv, Followed, NEW i \in 1..Len(tape), IsNext(i), feed = "poll"
  PROVE Ready(tape[i])
<1> DEFINE row == tape[i]
           c == row.contract
<1>1. TypeOK /\ Orderly /\ RowsOK /\ SharesOK /\ PollOK BY DEF Inv, BooksOK
<1>2. i = 1 /\ tape \in Seq(Row) /\ Len(tape) >= 1 BY <1>1 DEF IsNext, TypeOK
<1>3. row \in Row /\ RowOK(row) BY <1>2, <1>1 DEF RowsOK
<1>4. c \in Contracts /\ row.qty \in Nat /\ row.kind \in Kinds BY <1>3, RowTyped
<1>5. /\ row.qty >= 1
      /\ row.kind = "sell" => day <= c.expiry
      /\ row.kind = "stock" => row.qty = 1 /\ row.side \in {"B", "S"}
      /\ row.kind \in {"delivered", "copy"} => row.side = IF c.right = "P" THEN "B" ELSE "S"
      /\ row.kind \in UserKinds \cup {"assignedA", "copy"}
  BY <1>3 DEF RowOK
<1>6. \A o \in Contracts : ShortOf(o) \in Nat BY <1>1, ShortTypes
<1>7. \A o \in Contracts : Level(o, SubSeq(tape, 1, 1)) = ShortOf(o) + DeltaOf(o)[row]
  <2>1. \A f \in [Row -> Int] : Total(f, SubSeq(tape, 1, 1)) = f[row] BY <1>2, FirstPrefix
  <2> QED BY <2>1, RowSums DEF Level
<1>8. LevelsOK(SubSeq(tape, 1, 1))
  <2>1. 1 \in 0..Len(tape) BY <1>2
  <2> QED BY <1>1, <2>1 DEF PollOK
<1>9. DeltaOf(c)[row] = (CASE row.kind = "sell"               -> row.qty
                           [] row.kind \in {"buy", "assignedA"} -> -row.qty
                           [] OTHER                         -> 0)
      /\ \A o \in Contracts \ {c} : DeltaOf(o)[row] = 0
  BY <1>3 DEF DeltaOf
<1> HIDE DEF row, c
<1>10. row.kind \in {"buy", "assignedA"} => ShortOf(c) >= row.qty
  <2> SUFFICES ASSUME row.kind \in {"buy", "assignedA"} PROVE ShortOf(c) >= row.qty OBVIOUS
  <2>1. DeltaOf(c)[row] = -row.qty BY <1>9
  <2>2. Level(c, SubSeq(tape, 1, 1)) >= 0 BY <1>4, <1>8 DEF LevelsOK
  <2>3. ShortOf(c) + (-row.qty) >= 0 BY <1>4, <1>7, <2>1, <2>2
  <2> QED BY <1>4, <1>6, <2>3
<1>11. ASSUME row.kind = "sell", NEW o \in Contracts \ {c}, KeyOf(o) = KeyOf(c)
       PROVE ShortOf(o) = 0
  <2>1. DeltaOf(c)[row] = row.qty /\ DeltaOf(o)[row] = 0 BY <1>9, <1>11
  <2>2. Level(c, SubSeq(tape, 1, 1)) = 0 \/ Level(o, SubSeq(tape, 1, 1)) = 0
    BY <1>4, <1>8, <1>11 DEF LevelsOK
  <2>3. ShortOf(c) + row.qty = 0 \/ ShortOf(o) + 0 = 0 BY <1>4, <1>7, <2>1, <2>2
  <2>4. ShortOf(c) \in Nat /\ ShortOf(o) \in Nat BY <1>4, <1>6
  <2> QED BY <1>4, <1>5, <2>3, <2>4
<1>12. /\ row.kind = "stock" /\ row.side = "S" => Total(LongOf, chains) >= 1
       /\ row.kind = "stock" /\ row.side = "B" => Total(CoverOf, chains) >= 1
  <2>1. ASSUME NEW side, row.kind = "stock", row.side = side PROVE Total(StockOf(side), tape) >= 1
    <3>1. StockOf(side)[row] = row.qty BY <1>3, <2>1 DEF StockOf
    <3>2. StockOf(side)[row] <= Total(StockOf(side), tape) BY <1>1, RowSums, TapeTotals DEF row
    <3>3. Total(StockOf(side), tape) \in Nat BY <1>1, PendingTyped
    <3> QED BY <1>4, <1>5, <3>1, <3>2, <3>3
  <2>2. /\ Total(StockOf("S"), tape) \in Nat /\ Total(StockOf("B"), tape) \in Nat
        /\ Total(LongOf, chains) \in Nat /\ Total(CoverOf, chains) \in Nat
    BY <1>1, PendingTyped, ChainTotals
  <2> QED BY <1>1, <2>1, <2>2 DEF SharesOK
<1>13. /\ row.kind = "copy" /\ row.side = "S" => Total(LongOf, chains) = 0
       /\ row.kind = "copy" /\ row.side = "B" => Total(CoverOf, chains) = 0
  <2> SUFFICES ASSUME row.kind = "copy"
               PROVE /\ row.side = "S" => Total(LongOf, chains) = 0
                     /\ row.side = "B" => Total(CoverOf, chains) = 0
    OBVIOUS
  <2>1. \A j \in 1..Len(tape) : tape[j].kind \notin UserKinds
    <3>1. tape[1].kind \notin UserKinds BY <1>2 DEF row, UserKinds
    <3>2. \A j \in 1..Len(tape) : 1 < j => tape[j].kind \notin UserKinds
      BY <1>1, <1>2, <3>1 DEF PollOK
    <3> QED BY <3>1, <3>2
  <2>2. ASSUME NEW side PROVE Total(StockOf(side), tape) = 0
    <3>1. \A j \in 1..Len(tape) : StockOf(side)[tape[j]] = 0
      BY <1>1, <2>1, TapeTotals DEF StockOf, UserKinds
    <3> QED BY <1>1, <3>1, RowSums, TapeTotals
  <2>3. Settling(c.right) BY <1>2 DEF Settling, row, c
  <2>4. c.right \in {"P", "C"} BY <1>4, KeysTyped
  <2>5. CASE c.right = "P"
    <3>1. row.side = "B" BY <1>5, <2>5
    <3> QED BY <1>1, <2>2, <2>3, <2>5, <3>1 DEF PollOK
  <2>6. CASE c.right = "C"
    <3>1. row.side = "S" BY <1>5, <2>6
    <3> QED BY <1>1, <2>2, <2>3, <2>6, <3>1 DEF PollOK
  <2> QED BY <2>4, <2>5, <2>6
<1>14. row.kind \notin {"zero", "eae", "assigned", "delivered"} BY <1>5 DEF UserKinds
<1>15. Ready(row)
  BY <1>5, <1>10, <1>11, <1>12, <1>13, <1>14 DEF Ready, c
<1> QED BY <1>15 DEF row

\* Flex: the rows that are read before others.
LEMMA FlexOrder ==
  ASSUME TypeOK, RowsOK, feed # "poll", NEW i \in 1..Len(tape), IsNext(i), NEW j \in 1..Len(tape)
  PROVE /\ tape[i].kind = "sell" => tape[j].kind \notin {"buy", "assigned", "zero"}
        /\ tape[i].kind \in {"delivered", "stock"} =>
             tape[j].kind \notin {"sell", "buy", "assigned", "zero", "eae"}
<1>1. /\ tape[i] \in Row /\ tape[j] \in Row /\ RowOK(tape[i]) /\ RowOK(tape[j])
      /\ Rank(tape[i]) <= Rank(tape[j])
  BY TapeTotals DEF RowsOK, IsNext
<1>2. ASSUME NEW r \in Row, RowOK(r)
      PROVE Rank(r) = (IF r.kind \in {"delivered", "stock", "copy"} THEN 2 ELSE 0)
                        + (IF r.side = "B" THEN 0 ELSE 1)
  <2>1. r.kind # "assignedA" BY <1>2 DEF RowOK
  <2> QED BY <2>1 DEF Rank
<1>3. ASSUME NEW r \in Row, RowOK(r)
      PROVE /\ r.kind \in {"buy", "assigned", "zero"} => Rank(r) = 0
            /\ r.kind = "sell" => Rank(r) = 1
            /\ r.kind = "eae" => Rank(r) \in {0, 1}
            /\ r.kind \in {"delivered", "stock"} => Rank(r) \in {2, 3}
  <2>1. /\ r.kind = "sell" => r.side = "S"
        /\ r.kind \in {"buy", "assigned", "zero"} => r.side = "B"
    BY <1>3 DEF RowOK
  <2>2. r.kind \in {"delivered", "stock"} => Rank(r) \in {2, 3} BY <1>2, <1>3
  <2>3. r.kind = "eae" => Rank(r) \in {0, 1} BY <1>2, <1>3
  <2>4. r.kind = "sell" => Rank(r) = 1 BY <1>2, <1>3, <2>1
  <2>5. r.kind \in {"buy", "assigned", "zero"} => Rank(r) = 0 BY <1>2, <1>3, <2>1
  <2> QED BY <2>2, <2>3, <2>4, <2>5
<1>4. tape[i].kind = "sell" => tape[j].kind \notin {"buy", "assigned", "zero"}
  <2> SUFFICES ASSUME tape[i].kind = "sell", tape[j].kind \in {"buy", "assigned", "zero"} PROVE FALSE OBVIOUS
  <2>1. Rank(tape[i]) = 1 /\ Rank(tape[j]) = 0 BY <1>1, <1>3
  <2> QED BY <1>1, <2>1
<1>5. tape[i].kind \in {"delivered", "stock"} =>
        tape[j].kind \notin {"sell", "buy", "assigned", "zero", "eae"}
  <2> SUFFICES ASSUME tape[i].kind \in {"delivered", "stock"},
                      tape[j].kind \in {"sell", "buy", "assigned", "zero", "eae"}
               PROVE FALSE
    OBVIOUS
  <2>1. Rank(tape[i]) \in {2, 3} /\ Rank(tape[j]) \in {0, 1} BY <1>1, <1>3
  <2> QED BY <1>1, <2>1
<1> QED BY <1>4, <1>5

\* Flex: so does the next row in sort order.
LEMMA FlexReady ==
  ASSUME Inv, Followed, NEW i \in 1..Len(tape), IsNext(i), feed # "poll"
  PROVE Ready(tape[i])
<1> DEFINE row == tape[i]
           c == row.contract
<1>1. TypeOK /\ Orderly /\ RowsOK /\ SharesOK /\ FlexOK BY DEF Inv, BooksOK
<1>3. row \in Row /\ RowOK(row) BY <1>1, TapeTotals DEF RowsOK
<1>4. c \in Contracts /\ row.qty \in Nat /\ row.kind \in Kinds BY <1>3, RowTyped
<1>5. /\ row.qty >= 1
      /\ row.kind = "sell" => day <= c.expiry
      /\ row.kind = "stock" => row.qty = 1 /\ row.side \in {"B", "S"}
      /\ row.kind \in {"delivered", "copy"} => row.side = IF c.right = "P" THEN "B" ELSE "S"
      /\ row.kind \notin {"assignedA", "copy"}
  BY <1>3 DEF RowOK
<1>6. \A o \in Contracts : ShortOf(o) \in Nat BY <1>1, ShortTypes
<1>7. \A kind, o : LotsOf(kind, o)[row] <= Total(LotsOf(kind, o), tape)
  BY <1>1, RowSums, TapeTotals
<1>8. row.kind = "buy" => ShortOf(c) >= row.qty
  <2> SUFFICES ASSUME row.kind = "buy" PROVE ShortOf(c) >= row.qty OBVIOUS
  <2>1. LotsOf("buy", c)[row] = row.qty BY <1>3 DEF LotsOf
  <2>2. row.qty <= Buys(c) BY <1>7, <2>1 DEF Buys
  <2>3. Buys(c) <= ShortOf(c) /\ Buys(c) \in Nat BY <1>1, <1>4, PendingTyped DEF FlexOK
  <2> QED BY <1>4, <1>6, <2>2, <2>3
<1>9. ASSUME row.kind = "sell", NEW o \in Contracts \ {c}, KeyOf(o) = KeyOf(c)
      PROVE ShortOf(o) = 0
  <2>1. LotsOf("sell", c)[row] = row.qty BY <1>3, <1>9 DEF LotsOf
  <2>2. Sells(c) > 0
    <3>1. row.qty <= Sells(c) /\ Sells(c) \in Nat BY <1>1, <1>7, <2>1, PendingTyped DEF Sells
    <3> QED BY <1>4, <1>5, <3>1
  <2>3. ShortOf(o) = Buys(o) BY <1>1, <1>4, <1>9, <2>2 DEF FlexOK
  <2>4. Buys(o) = 0
    <3>1. \A j \in 1..Len(tape) : tape[j] \in Row /\ tape[j].kind # "buy"
      BY <1>1, <1>9, FlexOrder, TapeTotals
    <3>2. \A j \in 1..Len(tape) : LotsOf("buy", o)[tape[j]] = 0 BY <3>1 DEF LotsOf
    <3> QED BY <1>1, <3>2, RowSums, TapeTotals DEF Buys
  <2> QED BY <2>3, <2>4
<1>10. row.kind = "assigned" => ShortOf(c) = row.qty BY <1>1 DEF FlexOK, AssignedOK
<1>11. row.kind \in {"zero", "eae"} =>
         /\ ShortOf(c) \in {0, row.qty}
         /\ \A o \in Contracts \ {c} : KeyOf(o) = KeyOf(c) => ShortOf(o) = 0
  BY <1>1 DEF FlexOK, ExpiryOK, ExpiryKinds
<1>12. row.kind = "delivered" =>
         active[KeyOf(c)] # 0 /\ chains[active[KeyOf(c)]].opt_pos = 0
  <2> SUFFICES ASSUME row.kind = "delivered"
               PROVE active[KeyOf(c)] # 0 /\ chains[active[KeyOf(c)]].opt_pos = 0
    OBVIOUS
  <2>1. ~Comes("assigned", c) BY <1>1, FlexOrder DEF Comes
  <2> QED BY <1>1, <2>1 DEF FlexOK, DeliveryOK
<1>13. /\ row.kind = "stock" /\ row.side = "S" => Total(LongOf, chains) >= 1
       /\ row.kind = "stock" /\ row.side = "B" => Total(CoverOf, chains) >= 1
  <2>1. ASSUME NEW side, row.kind = "stock", row.side = side PROVE Total(StockOf(side), tape) >= 1
    <3>1. StockOf(side)[row] = row.qty BY <1>3, <2>1 DEF StockOf
    <3>2. StockOf(side)[row] <= Total(StockOf(side), tape) BY <1>1, RowSums, TapeTotals
    <3>3. Total(StockOf(side), tape) \in Nat BY <1>1, PendingTyped
    <3> QED BY <1>4, <1>5, <3>1, <3>2, <3>3
  <2>2. /\ Total(StockOf("S"), tape) \in Nat /\ Total(StockOf("B"), tape) \in Nat
        /\ Total(LongOf, chains) \in Nat /\ Total(CoverOf, chains) \in Nat
    BY <1>1, PendingTyped, ChainTotals
  <2> QED BY <1>1, <2>1, <2>2 DEF SharesOK
<1> HIDE DEF row, c
<1>14. Ready(row)
  BY <1>5, <1>8, <1>9, <1>10, <1>11, <1>12, <1>13 DEF Ready, c
<1> QED BY <1>14 DEF row

\* So every row that is read has its effect.
LEMMA RowsAreReady ==
  ASSUME Inv, Followed, NEW i, ReadRow(i)
  PROVE Orderly /\ Effect(tape[i]) /\ tape[i] \in Row /\ Ready(tape[i])
<1>1. TypeOK /\ Orderly BY DEF Inv
<1>2. \E kinds : Take(i, kinds)
  BY DEF ReadRow, ReadSellContinues, ReadSellRolls, ReadSellOpens, ReadExpiration, ReadBuy,
         ReadZeroBuySkipped, ReadAssignment, ReadDelivery, ReadStock
<1>3. i \in 1..Len(tape) /\ IsNext(i) BY <1>2 DEF Take
<1>4. Ready(tape[i]) BY <1>3, PollReady, FlexReady
<1>5. tape[i] \in Row BY <1>1, <1>3, TapeTotals
<1> QED BY <1>1, <1>4, <1>5, ReadEffect

(***************************************************************************)
(* Reading a row.                                                          *)
(***************************************************************************)
\* Where the j-th of the rows left was.
Old(i, j) == IF j < i THEN j ELSE j + 1

\* Reading a row takes it off the tape and leaves the account.
LEMMA TapeRead ==
  ASSUME TypeOK, NEW i, ReadRow(i)
  PROVE /\ i \in 1..Len(tape) /\ Len(tape') = Len(tape) - 1
        /\ \A j \in 1..Len(tape') :
             Old(i, j) \in 1..Len(tape) /\ Old(i, j) # i /\ tape'[j] = tape[Old(i, j)]
        /\ \A m \in 1..Len(tape) : m # i => \E j \in 1..Len(tape') : Old(i, j) = m
        /\ \A f \in [Row -> Int] : Total(f, tape') = Total(f, tape) - f[tape[i]]
        /\ UNCHANGED <<day, phase, feed, held, shares, cash, trades>> /\ phase = "read" /\ IsNext(i)
<1>1. \E kinds : Take(i, kinds)
  BY DEF ReadRow, ReadSellContinues, ReadSellRolls, ReadSellOpens, ReadExpiration, ReadBuy,
         ReadZeroBuySkipped, ReadAssignment, ReadDelivery, ReadStock
<1>2. /\ i \in 1..Len(tape) /\ tape' = RemoveAt(tape, i) /\ IsNext(i)
      /\ UNCHANGED <<day, phase, feed, held, shares, cash, trades>> /\ phase = "read"
  BY <1>1, TakeTyped DEF Take
<1>3. tape \in Seq(Row) /\ Len(tape) \in Nat BY DEF TypeOK
<1>4. /\ Len(tape') = Len(tape) - 1
      /\ \A j \in 1..(Len(tape) - 1) : tape'[j] = IF j < i THEN tape[j] ELSE tape[j + 1]
  BY <1>2, <1>3, RemovedParts
<1>5. \A f \in [Row -> Int] : Total(f, tape') = Total(f, tape) - f[tape[i]]
  BY <1>2, <1>3, TotalRemove
<1>6. \A j \in 1..Len(tape') :
        Old(i, j) \in 1..Len(tape) /\ Old(i, j) # i /\ tape'[j] = tape[Old(i, j)]
  BY <1>2, <1>3, <1>4 DEF Old
<1>7. ASSUME NEW m \in 1..Len(tape), m # i PROVE \E j \in 1..Len(tape') : Old(i, j) = m
  <2>1. CASE m < i
    <3>1. m \in 1..Len(tape') /\ Old(i, m) = m BY <1>2, <1>3, <1>4, <2>1 DEF Old
    <3> QED BY <3>1
  <2>2. CASE m > i
    <3>1. m - 1 \in 1..Len(tape') /\ Old(i, m - 1) = m BY <1>2, <1>3, <1>4, <2>2 DEF Old
    <3> QED BY <3>1
  <2> QED BY <1>2, <1>3, <1>7, <2>1, <2>2
<1> QED BY <1>2, <1>4, <1>5, <1>6, <1>7

\* Reading a row keeps the books: what the chains gain the tape loses.
LEMMA ReadBooks ==
  ASSUME Inv, Followed, NEW i, ReadRow(i)
  PROVE RowsOK' /\ DueOK' /\ CashOK' /\ SharesOK' /\ FlatOK'
<1> DEFINE row == tape[i]
<1>1. TypeOK /\ RowsOK /\ DueOK /\ CashOK /\ SharesOK /\ FlatOK BY DEF Inv, BooksOK
<1>2. row \in Row /\ Booked(row) /\ FlatMove(row) BY RowsAreReady DEF Effect
<1>3. /\ i \in 1..Len(tape) /\ Len(tape') = Len(tape) - 1
      /\ \A j \in 1..Len(tape') :
           Old(i, j) \in 1..Len(tape) /\ Old(i, j) # i /\ tape'[j] = tape[Old(i, j)]
      /\ \A m \in 1..Len(tape) : m # i => \E j \in 1..Len(tape') : Old(i, j) = m
      /\ \A f \in [Row -> Int] : Total(f, tape') = Total(f, tape) - f[row]
      /\ UNCHANGED <<day, phase, feed, held, shares, cash, trades>>
  BY <1>1, TapeRead
<1>4. RowsOK'
  <2>1. \A j \in 1..Len(tape') : RowOK(tape'[j]) BY <1>1, <1>3 DEF RowsOK
  <2>2. ASSUME NEW j \in 1..Len(tape') PROVE RowOK(tape[j])'
    <3>1. RowOK(tape'[j]) BY <2>1
    <3> QED BY <1>3, <3>1 DEF RowOK
  <2> QED BY <2>2 DEF RowsOK
<1>5. DueOK' BY <1>1, <1>3 DEF DueOK
<1>6. CashOK'
  <2>1. MoneyOf[row] = Money(row) /\ Money(row) \in Int BY <1>2, Amounts DEF MoneyOf
  <2>2. /\ Total(MoneyOf, tape) \in Int /\ Total(CreditOf, chains) \in Int
    BY <1>1, PendingTyped, ChainTotals
  <2>3. Total(MoneyOf, tape') = Total(MoneyOf, tape) - Money(row) BY <1>3, <2>1, RowSums
  <2>4. Total(CreditOf, chains') = Total(CreditOf, chains) + Money(row) BY <1>2 DEF Booked
  <2>5. \A a, b, x \in Int : a + b = (a + x) + (b - x) OBVIOUS
  <2>6. cash' = Total(CreditOf, chains') + Total(MoneyOf, tape')
    BY <1>1, <1>3, <2>1, <2>2, <2>3, <2>4, <2>5 DEF CashOK
  <2> QED BY <2>6 DEF CashOK
<1>7. SharesOK'
  <2> DEFINE long == Total(LongOf, chains)
             cover == Total(CoverOf, chains)
             sold == Total(StockOf("S"), tape)
             bought == Total(StockOf("B"), tape)
             putsDue == Total(DueOf("P"), tape)
             callsDue == Total(DueOf("C"), tape)
             s == StockOf("S")[row]
             b == StockOf("B")[row]
             p == DueOf("P")[row]
             c == DueOf("C")[row]
  <2>1. /\ long \in Nat /\ cover \in Nat /\ sold \in Nat /\ bought \in Nat
        /\ putsDue \in Nat /\ callsDue \in Nat
    BY <1>1, PendingTyped, ChainTotals
  <2>2. s \in Nat /\ b \in Nat /\ p \in Nat /\ c \in Nat
    BY <1>2, RowTyped DEF StockOf, DueOf
  <2>3. /\ Total(StockOf("S"), tape') = sold - s /\ Total(StockOf("B"), tape') = bought - b
        /\ Total(DueOf("P"), tape') = putsDue - p /\ Total(DueOf("C"), tape') = callsDue - c
    BY <1>3, RowSums
  <2>4. LongIn(row) = p - s /\ CoverIn(row) = c - b
    <3>1. row.qty \in Nat BY <1>2, RowTyped
    <3>2. /\ s = IF row.kind = "stock" /\ row.side = "S" THEN row.qty ELSE 0
          /\ b = IF row.kind = "stock" /\ row.side = "B" THEN row.qty ELSE 0
          /\ p = IF row.kind \in {"assignedA", "delivered"} /\ row.contract.right = "P" THEN row.qty ELSE 0
          /\ c = IF row.kind \in {"assignedA", "delivered"} /\ row.contract.right = "C" THEN row.qty ELSE 0
      BY <1>2 DEF StockOf, DueOf
    <3> HIDE DEF s, b, p, c, row
    <3>3. LongIn(row) = p - s
      <4>1. CASE row.kind \in {"assignedA", "delivered"} /\ row.contract.right = "P"
        <5>1. LongIn(row) = row.qty /\ p = row.qty /\ s = 0 BY <3>2, <4>1 DEF LongIn
        <5> QED BY <3>1, <5>1
      <4>2. CASE row.kind = "stock" /\ row.side = "S"
        <5>1. LongIn(row) = -row.qty /\ p = 0 /\ s = row.qty BY <3>2, <4>2 DEF LongIn
        <5> QED BY <3>1, <5>1
      <4>3. CASE ~(row.kind \in {"assignedA", "delivered"} /\ row.contract.right = "P")
                 /\ ~(row.kind = "stock" /\ row.side = "S")
        <5>1. LongIn(row) = 0 /\ p = 0 /\ s = 0 BY <3>2, <4>3 DEF LongIn
        <5> QED BY <5>1
      <4> QED BY <4>1, <4>2, <4>3
    <3>4. CoverIn(row) = c - b
      <4>1. CASE row.kind \in {"assignedA", "delivered"} /\ row.contract.right = "C"
        <5>1. CoverIn(row) = row.qty /\ c = row.qty /\ b = 0 BY <3>2, <4>1 DEF CoverIn
        <5> QED BY <3>1, <5>1
      <4>2. CASE row.kind = "stock" /\ row.side = "B"
        <5>1. CoverIn(row) = -row.qty /\ c = 0 /\ b = row.qty BY <3>2, <4>2 DEF CoverIn
        <5> QED BY <3>1, <5>1
      <4>3. CASE ~(row.kind \in {"assignedA", "delivered"} /\ row.contract.right = "C")
                 /\ ~(row.kind = "stock" /\ row.side = "B")
        <5>1. CoverIn(row) = 0 /\ c = 0 /\ b = 0 BY <3>2, <4>3 DEF CoverIn
        <5> QED BY <5>1
      <4> QED BY <4>1, <4>2, <4>3
    <3> QED BY <3>3, <3>4
  <2>5. Total(LongOf, chains') = long + (p - s) /\ Total(CoverOf, chains') = cover + (c - b)
    BY <1>2, <2>4 DEF Booked
  <2>6. /\ shares = (long - sold + putsDue) - (cover - bought + callsDue)
        /\ sold <= long /\ bought <= cover /\ shares' = shares
    BY <1>1, <1>3 DEF SharesOK
  <2> HIDE DEF long, cover, sold, bought, putsDue, callsDue, s, b, p, c
  <2>7. /\ (long - sold + putsDue) - (cover - bought + callsDue)
             = ((long + (p - s)) - (sold - s) + (putsDue - p))
               - ((cover + (c - b)) - (bought - b) + (callsDue - c))
        /\ sold - s <= long + (p - s) /\ bought - b <= cover + (c - b)
    BY <2>1, <2>2, <2>6
  <2>8. /\ shares' = (Total(LongOf, chains') - Total(StockOf("S"), tape') + Total(DueOf("P"), tape'))
                     - (Total(CoverOf, chains') - Total(StockOf("B"), tape') + Total(DueOf("C"), tape'))
        /\ Total(StockOf("S"), tape') <= Total(LongOf, chains')
        /\ Total(StockOf("B"), tape') <= Total(CoverOf, chains')
    BY <2>3, <2>5, <2>6, <2>7
  <2> QED BY <2>8 DEF SharesOK
<1>8. FlatOK'
  <2> SUFFICES ASSUME NEW n \in 1..Len(chains'), Flat(chains'[n]), chains'[n].status # "closed"
               PROVE \E j \in 1..Len(tape') :
                       tape'[j].kind = "delivered" /\ KeyOf(tape'[j].contract) = KeyOfChain(chains'[n])
    BY DEF FlatOK, Flat, KeyOfChain, KeyOf
  <2>1. \/ /\ n \in 1..Len(chains) /\ chains'[n] = chains[n]
           /\ ~(row.kind = "delivered" /\ KeyOfChain(chains[n]) = KeyOf(row.contract))
        \/ row.kind = "assigned" /\ KeyOfChain(chains'[n]) = KeyOf(row.contract)
    BY <1>2 DEF FlatMove
  <2>2. PICK m \in 1..Len(tape) :
          m # i /\ tape[m].kind = "delivered" /\ KeyOf(tape[m].contract) = KeyOfChain(chains'[n])
    <3>1. CASE /\ n \in 1..Len(chains) /\ chains'[n] = chains[n]
               /\ ~(row.kind = "delivered" /\ KeyOfChain(chains[n]) = KeyOf(row.contract))
      <4>1. PICK m \in 1..Len(tape) :
              tape[m].kind = "delivered" /\ KeyOf(tape[m].contract) = KeyOfChain(chains[n])
        BY <1>1, <3>1 DEF FlatOK
      <4>2. m # i BY <3>1, <4>1
      <4> QED BY <3>1, <4>1, <4>2
    <3>2. CASE row.kind = "assigned" /\ KeyOfChain(chains'[n]) = KeyOf(row.contract)
      <4>1. feed # "poll" BY <3>2, RowsAreReady DEF Ready
      <4>2. Comes("delivered", row.contract) BY <1>3, <3>2, <4>1 DEF Inv, BooksOK, FlexOK, AssignedOK
      <4>3. PICK m \in 1..Len(tape) : tape[m].kind = "delivered" /\ tape[m].contract = row.contract
        BY <4>2 DEF Comes
      <4>4. m # i BY <3>2, <4>3
      <4> QED BY <3>2, <4>3, <4>4
    <3> QED BY <2>1, <3>1, <3>2
  <2>3. PICK j \in 1..Len(tape') : Old(i, j) = m BY <1>3, <2>2
  <2> QED BY <1>3, <2>2, <2>3
<1> QED BY <1>4, <1>5, <1>6, <1>7, <1>8

\* The totals of the rows before one, when the first is read.
LEMMA PrefixRead ==
  ASSUME NEW s \in Seq(Row), Len(s) >= 1, NEW t \in Seq(Row), Len(t) = Len(s) - 1,
         \A j \in 1..Len(t) : t[j] = s[j + 1], NEW f \in [Row -> Int], NEW j \in 0..Len(t)
  PROVE /\ Total(f, SubSeq(s, 1, j + 1)) = f[s[1]] + Total(f, SubSeq(t, 1, j))
        /\ Total(f, SubSeq(t, 1, j)) \in Int
<1> DEFINE a == SubSeq(t, 1, j)
           b == SubSeq(s, 1, j + 1)
<1>1. s[1] \in Row OBVIOUS
<1>2. a \in Seq(Row) /\ Len(a) = j /\ \A m \in 1..j : a[m] = t[m] OBVIOUS
<1>3. b \in Seq(Row) /\ Len(b) = j + 1 /\ \A m \in 1..(j + 1) : b[m] = s[m] OBVIOUS
<1> HIDE DEF a, b
<1>4. b = <<s[1]>> \o a
  <2>1. ASSUME NEW m \in 1..j PROVE b[m + 1] = a[m]
    <3>1. m \in 1..Len(t) /\ m + 1 \in 1..(j + 1) BY SMTT(30)
    <3>2. t[m] = s[m + 1] /\ a[m] = t[m] /\ b[m + 1] = s[m + 1] BY <1>2, <1>3, <3>1
    <3> QED BY <3>2
  <2>2. b[1] = s[1] BY <1>3
  <2> DEFINE d == <<s[1]>> \o a
  <2>3. d \in Seq(Row) /\ Len(d) = j + 1 /\ d[1] = s[1] /\ \A m \in 2..(j + 1) : d[m] = a[m - 1]
    BY <1>1, <1>2
  <2> HIDE DEF d
  <2>4. ASSUME NEW m \in 1..(j + 1) PROVE b[m] = d[m]
    <3>1. CASE m = 1 BY <2>2, <2>3, <3>1
    <3>2. CASE m # 1
      <4>1. m - 1 \in 1..j /\ m \in 2..(j + 1) /\ (m - 1) + 1 = m BY <3>2
      <4>2. b[(m - 1) + 1] = a[m - 1] /\ d[m] = a[m - 1] BY <2>1, <2>3, <4>1
      <4> QED BY <4>1, <4>2
    <3> QED BY <3>1, <3>2
  <2>5. b = d BY <1>3, <2>3, <2>4, SeqEqual
  <2> QED BY <2>5 DEF d
<1>5. <<s[1]>> \in Seq(Row) BY <1>1
<1>6. Total(f, b) = Total(f, <<s[1]>>) + Total(f, a) BY <1>2, <1>4, <1>5, TotalConcat
<1>7. Total(f, <<s[1]>>) = f[s[1]] BY <1>1, TotalOne
<1>8. Total(f, a) \in Int BY <1>2, TotalInt
<1> QED BY <1>6, <1>7, <1>8 DEF a, b

\* Reading a row keeps what the live feed makes sure of.
LEMMA ReadPoll ==
  ASSUME Inv, Followed, NEW i, ReadRow(i), feed = "poll"
  PROVE PollOK'
<1> DEFINE row == tape[i]
           c == row.contract
<1>1. TypeOK /\ RowsOK /\ SharesOK /\ PollOK /\ Orderly BY DEF Inv, BooksOK
<1>2. row \in Row /\ Effect(row) /\ Booked(row) /\ ShortsMove(row) BY RowsAreReady DEF Effect
<1>3. /\ i \in 1..Len(tape) /\ Len(tape') = Len(tape) - 1 /\ Len(tape) \in Nat
      /\ \A j \in 1..Len(tape') :
           Old(i, j) \in 1..Len(tape) /\ Old(i, j) # i /\ tape'[j] = tape[Old(i, j)]
      /\ \A f \in [Row -> Int] : Total(f, tape') = Total(f, tape) - f[row]
      /\ UNCHANGED <<day, phase, feed, held, shares, cash, trades>> /\ phase = "read" /\ i = 1
  BY <1>1, TapeRead, TapeTotals DEF IsNext
<1>4. tape \in Seq(Row) /\ tape' \in Seq(Row)
  <2>1. TypeOK' BY <1>1, StepTyped, <1>3 DEF Next
  <2> QED BY <1>1, <2>1 DEF TypeOK
<1>5. \A j \in 1..Len(tape') : tape'[j] = tape[j + 1] /\ j + 1 \in 1..Len(tape) BY <1>3 DEF Old
<1>6. c \in Contracts /\ row.qty \in Nat /\ row.qty >= 1 /\ row.kind \in UserKinds \cup {"assignedA", "copy"}
  <2>1. RowOK(row) BY <1>1, <1>3 DEF RowsOK
  <2> QED BY <1>2, <2>1, RowTyped DEF RowOK
<1>7. \A o \in Contracts : ShortOf(o) \in Nat BY <1>1, ShortTypes
<1>8. \A o \in Contracts : ShortOf(o)' = ShortOf(o) + DeltaOf(o)[row]
  <2>0. \A o \in Contracts :
          DeltaOf(o)[row] = (IF c # o THEN 0
                             ELSE CASE row.kind = "sell"               -> row.qty
                                    [] row.kind \in {"buy", "assignedA"} -> -row.qty
                                    [] OTHER                         -> 0)
    BY <1>2 DEF DeltaOf
  <2>1. \A o \in Contracts : ShortOf(o)' = IF o = c THEN ShortAfter(row) ELSE ShortOf(o)
    BY <1>2 DEF ShortsMove
  <2> HIDE DEF row, c
  <2>2. ShortAfter(row) = CASE row.kind = "sell" -> ShortOf(c) + row.qty
                            [] row.kind \in {"buy", "assignedA"} -> ShortOf(c) - row.qty
                            [] OTHER -> ShortOf(c)
    BY <1>6 DEF ShortAfter, UserKinds, c
  <2> SUFFICES ASSUME NEW o \in Contracts PROVE ShortOf(o)' = ShortOf(o) + DeltaOf(o)[row] OBVIOUS
  <2>3. CASE o # c
    <3>1. DeltaOf(o)[row] = 0 /\ ShortOf(o)' = ShortOf(o) BY <2>0, <2>1, <2>3
    <3> QED BY <1>7, <3>1
  <2>4. CASE o = c /\ row.kind = "sell"
    <3>1. DeltaOf(o)[row] = row.qty /\ ShortOf(o)' = ShortOf(c) + row.qty BY <2>0, <2>1, <2>2, <2>4
    <3> QED BY <2>4, <3>1
  <2>5. CASE o = c /\ row.kind \in {"buy", "assignedA"}
    <3>1. DeltaOf(o)[row] = -row.qty /\ ShortOf(o)' = ShortOf(c) - row.qty BY <2>0, <2>1, <2>2, <2>5
    <3>2. ShortOf(c) \in Nat BY <1>6, <1>7
    <3> QED BY <1>6, <2>5, <3>1, <3>2
  <2>6. CASE o = c /\ row.kind \notin {"sell", "buy", "assignedA"}
    <3>1. DeltaOf(o)[row] = 0 /\ ShortOf(o)' = ShortOf(c) BY <2>0, <2>1, <2>2, <2>6
    <3> QED BY <1>7, <2>6, <3>1
  <2> QED BY <2>3, <2>4, <2>5, <2>6
<1>9. \A o \in Contracts, j \in 0..Len(tape') :
        ShortOf(o)' + Total(DeltaOf(o), SubSeq(tape', 1, j)) = Level(o, SubSeq(tape, 1, j + 1))
  <2> SUFFICES ASSUME NEW o \in Contracts, NEW j \in 0..Len(tape')
               PROVE ShortOf(o)' + Total(DeltaOf(o), SubSeq(tape', 1, j)) = Level(o, SubSeq(tape, 1, j + 1))
    OBVIOUS
  <2>1. DeltaOf(o) \in [Row -> Int] BY RowSums
  <2>2. Len(tape) >= 1 /\ Len(tape') = Len(tape) - 1 /\ \A m \in 1..Len(tape') : tape'[m] = tape[m + 1]
    BY <1>3, <1>5
  <2>3. /\ Total(DeltaOf(o), SubSeq(tape, 1, j + 1)) = DeltaOf(o)[tape[1]] + Total(DeltaOf(o), SubSeq(tape', 1, j))
        /\ Total(DeltaOf(o), SubSeq(tape', 1, j)) \in Int
    BY <1>4, <2>1, <2>2, PrefixRead
  <2>4. ShortOf(o)' = ShortOf(o) + DeltaOf(o)[tape[1]] /\ ShortOf(o) \in Nat /\ DeltaOf(o)[tape[1]] \in Int
    BY <1>2, <1>3, <1>7, <1>8, <2>1
  <2>5. \A a, b, x \in Int : (a + b) + x = a + (b + x) OBVIOUS
  <2> QED BY <2>3, <2>4, <2>5 DEF Level
<1> HIDE DEF c, row
<1>10. (\A j \in 0..Len(tape) : LevelsOK(SubSeq(tape, 1, j)))'
  <2>1. \A j \in 0..Len(tape') : j + 1 \in 0..Len(tape) BY <1>3
  <2>2. \A j \in 0..Len(tape') :
          /\ \A o \in Contracts : Level(o, SubSeq(tape, 1, j + 1)) >= 0
          /\ \A x, o \in Contracts : x # o /\ KeyOf(x) = KeyOf(o) =>
               Level(x, SubSeq(tape, 1, j + 1)) = 0 \/ Level(o, SubSeq(tape, 1, j + 1)) = 0
    BY <1>1, <2>1 DEF PollOK, LevelsOK
  <2>3. \A j \in 0..Len(tape') :
          /\ \A o \in Contracts : ShortOf(o)' + Total(DeltaOf(o), SubSeq(tape', 1, j)) >= 0
          /\ \A x, o \in Contracts : x # o /\ KeyOf(x) = KeyOf(o) =>
               \/ ShortOf(x)' + Total(DeltaOf(x), SubSeq(tape', 1, j)) = 0
               \/ ShortOf(o)' + Total(DeltaOf(o), SubSeq(tape', 1, j)) = 0
    BY <1>9, <2>2
  <2> QED BY <2>3 DEF LevelsOK, Level
<1>11. (\A o \in Contracts : held[o] = Level(o, tape) \/ Lapsing(o))'
  <2>1. ASSUME NEW o \in Contracts PROVE ShortOf(o)' + Total(DeltaOf(o), tape') = Level(o, tape)
    <3>1. Total(DeltaOf(o), tape') = Total(DeltaOf(o), tape) - DeltaOf(o)[row] BY <1>3, RowSums
    <3>2. Total(DeltaOf(o), tape) \in Int /\ DeltaOf(o)[row] \in Int BY <1>1, <1>2, PendingTyped, RowSums
    <3>3. ShortOf(o)' = ShortOf(o) + DeltaOf(o)[row] /\ ShortOf(o) \in Int BY <1>7, <1>8
    <3>4. \A a, b, x \in Int : (a + x) + (b - x) = a + b OBVIOUS
    <3> QED BY <3>1, <3>2, <3>3, <3>4 DEF Level
  <2>2. \A o \in Contracts : held[o] = Level(o, tape) \/ Lapsing(o) BY <1>1 DEF PollOK
  <2>3. ASSUME NEW o \in Contracts PROVE held'[o] = ShortOf(o)' + Total(DeltaOf(o), tape') \/ Lapsing(o)'
    BY <1>3, <2>1, <2>2 DEF Lapsing
  <2> QED BY <2>3 DEF Level
<1>12. (\A j, m \in 1..Len(tape) : j < m /\ tape[j].kind \notin UserKinds => tape[m].kind \notin UserKinds)'
  <2> SUFFICES ASSUME NEW j \in 1..Len(tape'), NEW m \in 1..Len(tape'), j < m,
                      tape'[j].kind \notin UserKinds
               PROVE tape'[m].kind \notin UserKinds
    OBVIOUS
  <2>1. tape'[j] = tape[j + 1] /\ tape'[m] = tape[m + 1] /\ j + 1 \in 1..Len(tape) /\ m + 1 \in 1..Len(tape)
        /\ j + 1 < m + 1
    BY <1>5
  <2>2. \A x, y \in 1..Len(tape) : x < y /\ tape[x].kind \notin UserKinds => tape[y].kind \notin UserKinds
    BY <1>1 DEF PollOK
  <2> QED BY <2>1, <2>2
<1> DEFINE long == Total(LongOf, chains)
           cover == Total(CoverOf, chains)
           sold == Total(StockOf("S"), tape)
           bought == Total(StockOf("B"), tape)
<1>13. /\ long \in Nat /\ cover \in Nat /\ sold \in Nat /\ bought \in Nat
       /\ sold <= long /\ bought <= cover
  BY <1>1, PendingTyped, ChainTotals DEF SharesOK
<1>14. /\ Total(StockOf("S"), tape') = sold - StockOf("S")[row]
       /\ Total(StockOf("B"), tape') = bought - StockOf("B")[row]
       /\ Total(LongOf, chains') = long + LongIn(row) /\ Total(CoverOf, chains') = cover + CoverIn(row)
  BY <1>2, <1>3, RowSums DEF Booked
<1>15. /\ StockOf("S")[row] = IF row.kind = "stock" /\ row.side = "S" THEN row.qty ELSE 0
       /\ StockOf("B")[row] = IF row.kind = "stock" /\ row.side = "B" THEN row.qty ELSE 0
  BY <1>2 DEF StockOf
\* Behind a row of an assignment there is no share trade.
<1>16. row.kind \notin UserKinds => \A side : Total(StockOf(side), tape) = 0
  <2> SUFFICES ASSUME row.kind \notin UserKinds, NEW side PROVE Total(StockOf(side), tape) = 0 OBVIOUS
  <2>1. tape[1].kind \notin UserKinds BY <1>3 DEF row
  <2>2. \A m \in 1..Len(tape) : tape[m].kind \notin UserKinds BY <1>1, <1>3, <2>1 DEF PollOK
  <2>3. \A m \in 1..Len(tape) : StockOf(side)[tape[m]] = 0
    BY <1>1, <2>2, TapeTotals DEF StockOf, UserKinds
  <2> QED BY <1>1, <2>3, RowSums, TapeTotals
<1>17. \A right : Settling(right)' => Settling(right)
  <2> SUFFICES ASSUME NEW right, NEW j \in 1..Len(tape'), tape'[j].kind \in {"assignedA", "copy"},
                      tape'[j].contract.right = right
               PROVE Settling(right)
    BY DEF Settling
  <2>1. j + 1 \in 1..Len(tape) /\ tape[j + 1] = tape'[j] BY <1>5
  <2> QED BY <2>1 DEF Settling
<1>18. row.kind = "assignedA" => Settling(c.right) BY <1>3 DEF Settling, row, c
<1>19. c.right \in {"P", "C"} BY <1>6, KeysTyped
<1>20. /\ long = 0 \/ cover = 0
       /\ Settling("P") => bought = cover /\ ~Settling("C")
       /\ Settling("C") => sold = long
  BY <1>1 DEF PollOK
<1> HIDE DEF long, cover, sold, bought
<1>21. /\ Total(LongOf, chains') = 0 \/ Total(CoverOf, chains') = 0
       /\ Settling("P") => Total(StockOf("B"), tape') = Total(CoverOf, chains')
       /\ Settling("C") => Total(StockOf("S"), tape') = Total(LongOf, chains')
  <2>1. CASE row.kind = "stock" /\ row.side = "S"
    <3>1. LongIn(row) = -row.qty /\ CoverIn(row) = 0 /\ StockOf("S")[row] = row.qty /\ StockOf("B")[row] = 0
      BY <1>15, <2>1 DEF LongIn, CoverIn
    <3>2. row.qty <= sold
      <4>1. StockOf("S")[row] <= Total(StockOf("S"), tape) BY <1>1, <1>3, TapeTotals, RowSums DEF row
      <4> QED BY <3>1, <4>1 DEF sold
    <3> QED BY <1>6, <1>13, <1>14, <1>20, <3>1, <3>2
  <2>2. CASE row.kind = "stock" /\ row.side = "B"
    <3>1. LongIn(row) = 0 /\ CoverIn(row) = -row.qty /\ StockOf("B")[row] = row.qty /\ StockOf("S")[row] = 0
      BY <1>15, <2>2 DEF LongIn, CoverIn
    <3>2. row.qty <= bought
      <4>1. StockOf("B")[row] <= Total(StockOf("B"), tape) BY <1>1, <1>3, TapeTotals, RowSums DEF row
      <4> QED BY <3>1, <4>1 DEF bought
    <3> QED BY <1>6, <1>13, <1>14, <1>20, <3>1, <3>2
  <2>3. CASE row.kind = "assignedA" /\ c.right = "P"
    <3>1. LongIn(row) = row.qty /\ CoverIn(row) = 0 /\ StockOf("B")[row] = 0 /\ StockOf("S")[row] = 0
      BY <1>15, <2>3 DEF LongIn, CoverIn, c
    <3>2. sold = 0 /\ bought = 0
      <4>1. row.kind \notin UserKinds BY <2>3 DEF UserKinds
      <4> QED BY <1>16, <4>1 DEF sold, bought
    <3>3. Settling("P") /\ cover = 0 /\ ~Settling("C") BY <1>18, <1>20, <2>3, <3>2
    <3> QED BY <1>6, <1>13, <1>14, <3>1, <3>2, <3>3
  <2>4. CASE row.kind = "assignedA" /\ c.right = "C"
    <3>1. LongIn(row) = 0 /\ CoverIn(row) = row.qty /\ StockOf("B")[row] = 0 /\ StockOf("S")[row] = 0
      BY <1>15, <2>4 DEF LongIn, CoverIn, c
    <3>2. sold = 0 /\ bought = 0
      <4>1. row.kind \notin UserKinds BY <2>4 DEF UserKinds
      <4> QED BY <1>16, <4>1 DEF sold, bought
    <3>3. Settling("C") /\ long = 0 /\ ~Settling("P") BY <1>18, <1>20, <2>4, <3>2
    <3> QED BY <1>6, <1>13, <1>14, <3>1, <3>2, <3>3
  <2>5. CASE row.kind # "assignedA" /\ ~(row.kind = "stock" /\ row.side \in {"S", "B"})
    <3>1. LongIn(row) = 0 /\ CoverIn(row) = 0 /\ StockOf("B")[row] = 0 /\ StockOf("S")[row] = 0
      <4>1. row.kind # "delivered" BY <1>6 DEF UserKinds
      <4> QED BY <1>15, <2>5, <4>1 DEF LongIn, CoverIn
    <3> QED BY <1>13, <1>14, <1>20, <3>1
  <2> QED BY <1>19, <2>1, <2>2, <2>3, <2>4, <2>5
<1>22. ~(Settling("P") /\ Settling("C")) BY <1>20
<1>23. /\ (Total(LongOf, chains) = 0 \/ Total(CoverOf, chains) = 0)'
       /\ (Settling("P") => Total(StockOf("B"), tape) = Total(CoverOf, chains) /\ ~Settling("C"))'
       /\ (Settling("C") => Total(StockOf("S"), tape) = Total(LongOf, chains))'
  BY <1>17, <1>21, <1>22
<1>24. phase' # "settle" BY <1>3
<1> QED BY <1>10, <1>11, <1>12, <1>23, <1>24 DEF PollOK

\* Flex: a row of an expiry or an assignment finds no trade of its right behind it.
LEMMA SettleAlone ==
  ASSUME TypeOK, FlexOK, NEW i \in 1..Len(tape), tape[i].kind \in SettleKinds,
         NEW o \in Contracts, o.right = tape[i].contract.right
  PROVE Buys(o) = 0 /\ Sells(o) = 0
<1>1. \A j \in 1..Len(tape) : tape[j].kind \in {"sell", "buy"} => tape[j].contract # o
  BY DEF FlexOK
<1>2. \A j \in 1..Len(tape) : LotsOf("buy", o)[tape[j]] = 0 /\ LotsOf("sell", o)[tape[j]] = 0
  BY <1>1, TapeTotals DEF LotsOf
<1> QED BY <1>2, RowSums, TapeTotals DEF Buys, Sells

\* Reading a row keeps what Flex makes sure of.
LEMMA ReadFlex ==
  ASSUME Inv, Followed, NEW i, ReadRow(i), feed # "poll"
  PROVE FlexOK'
<1> DEFINE row == tape[i]
           c == row.contract
           b(o) == LotsOf("buy", o)[row]
           s(o) == LotsOf("sell", o)[row]
<1>1. TypeOK /\ RowsOK /\ FlexOK /\ Orderly BY DEF Inv, BooksOK
<1>2. row \in Row /\ ShortsMove(row) /\ KeyKept(row) /\ Ready(row) /\ Orderly' BY RowsAreReady DEF Effect
<1>3. /\ i \in 1..Len(tape) /\ Len(tape') = Len(tape) - 1 /\ Len(tape) \in Nat
      /\ \A j \in 1..Len(tape') :
           Old(i, j) \in 1..Len(tape) /\ Old(i, j) # i /\ tape'[j] = tape[Old(i, j)]
      /\ \A m \in 1..Len(tape) : m # i => \E j \in 1..Len(tape') : Old(i, j) = m
      /\ \A f \in [Row -> Int] : Total(f, tape') = Total(f, tape) - f[row]
      /\ UNCHANGED <<day, phase, feed, held, shares, cash, trades>> /\ phase = "read" /\ IsNext(i)
  BY <1>1, TapeRead, TapeTotals
<1>4. RowOK(row) BY <1>1, <1>3 DEF RowsOK
<1>5. /\ c \in Contracts /\ row.qty \in Nat /\ row.qty >= 1
      /\ row.kind \in {"sell", "buy", "zero", "eae", "assigned", "delivered", "stock"}
  BY <1>2, <1>4, RowTyped DEF RowOK, Kinds
<1>6. TypeOK' BY <1>1, StepTyped, <1>3 DEF Next
<1>7. \A o \in Contracts : /\ ShortOf(o) \in Nat /\ Buys(o) \in Nat /\ Sells(o) \in Nat
                           /\ Buys(o)' \in Nat /\ Sells(o)' \in Nat
  <2>1. \A o \in Contracts : ShortOf(o) \in Nat /\ Buys(o) \in Nat /\ Sells(o) \in Nat
    BY <1>1, ShortTypes, PendingTyped
  <2>3. \A f \in [Row -> Int] : (\A r \in Row : f[r] >= 0) => Total(f, tape') \in Nat
    <3> SUFFICES ASSUME NEW f \in [Row -> Int], \A r \in Row : f[r] >= 0 PROVE Total(f, tape') \in Nat OBVIOUS
    <3>1. tape' \in Seq(Row) BY <1>6 DEF TypeOK
    <3>2. \A j \in 1..Len(tape') : f[tape'[j]] >= 0 BY <3>1
    <3>3. Total(f, tape') \in Int /\ Total(f, tape') >= 0 BY <3>1, <3>2, TotalInt, TotalNat
    <3> QED BY <3>3
  <2>4. ASSUME NEW o \in Contracts PROVE Buys(o)' \in Nat /\ Sells(o)' \in Nat
    BY <2>3, RowSums DEF Buys, Sells
  <2> QED BY <2>1, <2>4
<1>8. \A o \in Contracts : Buys(o)' = Buys(o) - b(o) /\ Sells(o)' = Sells(o) - s(o)
  BY <1>3, RowSums DEF Buys, Sells
<1>9. \A o \in Contracts :
        /\ b(o) = IF row.kind = "buy" /\ c = o THEN row.qty ELSE 0
        /\ s(o) = IF row.kind = "sell" /\ c = o THEN row.qty ELSE 0
  BY <1>2 DEF LotsOf
<1> HIDE DEF b, s
<1>10. \A o \in Contracts : b(o) \in Nat /\ s(o) \in Nat BY <1>5, <1>9
<1>11. row.kind \in {"sell", "buy", "delivered", "stock"} =>
         \A o \in Contracts : ShortOf(o)' = ShortOf(o) - b(o) + s(o)
  <2> SUFFICES ASSUME row.kind \in {"sell", "buy", "delivered", "stock"}, NEW o \in Contracts
               PROVE ShortOf(o)' = ShortOf(o) - b(o) + s(o)
    OBVIOUS
  <2>1. ShortOf(o)' = IF o = c THEN ShortAfter(row) ELSE ShortOf(o) BY <1>2 DEF ShortsMove
  <2>2. CASE o # c
    <3>1. b(o) = 0 /\ s(o) = 0 /\ ShortOf(o)' = ShortOf(o) BY <1>9, <2>1, <2>2
    <3> QED BY <1>7, <3>1
  <2>3. CASE o = c /\ row.kind = "sell"
    <3>1. b(o) = 0 /\ s(o) = row.qty /\ ShortOf(o)' = ShortOf(o) + row.qty
      BY <1>9, <2>1, <2>3 DEF ShortAfter
    <3> QED BY <1>7, <3>1
  <2>4. CASE o = c /\ row.kind = "buy"
    <3>1. b(o) = row.qty /\ s(o) = 0 /\ ShortOf(o)' = ShortOf(o) - row.qty
      BY <1>9, <2>1, <2>4 DEF ShortAfter
    <3>2. \A x, y \in Nat : x - y = x - y + 0 OBVIOUS
    <3> QED BY <1>5, <1>7, <3>1, <3>2
  <2>5. CASE o = c /\ row.kind \in {"delivered", "stock"}
    <3>1. b(o) = 0 /\ s(o) = 0 /\ ShortOf(o)' = ShortOf(o) BY <1>9, <2>1, <2>5 DEF ShortAfter
    <3> QED BY <1>7, <3>1
  <2> QED BY <2>2, <2>3, <2>4, <2>5
<1>12. row.kind \in {"zero", "eae", "assigned"} =>
         /\ \A o \in Contracts : o = c => ShortOf(o)' = 0
         /\ \A o \in Contracts \ {c} : ShortOf(o)' = ShortOf(o)
         /\ \A o \in Contracts : b(o) = 0 /\ s(o) = 0
         /\ \A o \in Contracts : o.right = c.right => Buys(o) = 0 /\ Sells(o) = 0
  <2> SUFFICES ASSUME row.kind \in {"zero", "eae", "assigned"}
               PROVE /\ \A o \in Contracts : o = c => ShortOf(o)' = 0
                     /\ \A o \in Contracts \ {c} : ShortOf(o)' = ShortOf(o)
                     /\ \A o \in Contracts : b(o) = 0 /\ s(o) = 0
                     /\ \A o \in Contracts : o.right = c.right => Buys(o) = 0 /\ Sells(o) = 0
    OBVIOUS
  <2>1. \A o \in Contracts : ShortOf(o)' = IF o = c THEN ShortAfter(row) ELSE ShortOf(o)
    BY <1>2 DEF ShortsMove
  <2>2. ShortAfter(row) = 0
    <3>1. CASE row.kind = "assigned"
      <4>1. ShortOf(c) = row.qty /\ ShortAfter(row) = ShortOf(c) - row.qty
        BY <1>2, <3>1 DEF Ready, ShortAfter
      <4> QED BY <1>5, <4>1
    <3>2. CASE row.kind # "assigned" BY <3>2 DEF ShortAfter
    <3> QED BY <3>1, <3>2
  <2>3. \A o \in Contracts : b(o) = 0 /\ s(o) = 0 BY <1>9
  <2>4. row.kind \in SettleKinds BY DEF SettleKinds
  <2>5. \A o \in Contracts : o.right = c.right => Buys(o) = 0 /\ Sells(o) = 0
    BY <1>1, <1>3, <2>4, SettleAlone
  <2> QED BY <1>5, <2>1, <2>2, <2>3, <2>5
<1>13. ASSUME NEW kind, NEW o, Comes(kind, o), row.kind # kind \/ c # o
       PROVE Comes(kind, o)'
  <2>1. PICK m \in 1..Len(tape) : tape[m].kind = kind /\ tape[m].contract = o BY <1>13 DEF Comes
  <2>2. PICK j \in 1..Len(tape') : Old(i, j) = m BY <1>3, <1>13, <2>1
  <2>3. tape'[j].kind = kind /\ tape'[j].contract = o BY <1>3, <2>1, <2>2
  <2> QED BY <2>3 DEF Comes
<1>14. (\A o \in Contracts : Buys(o) <= ShortOf(o))'
  <2> SUFFICES ASSUME NEW o \in Contracts PROVE Buys(o)' <= ShortOf(o)' OBVIOUS
  <2>1. Buys(o) <= ShortOf(o) BY <1>1 DEF FlexOK
  <2>2. CASE row.kind \in {"sell", "buy", "delivered", "stock"}
    BY <1>7, <1>8, <1>10, <1>11, <2>1, <2>2
  <2>3. CASE row.kind \in {"zero", "eae", "assigned"}
    <3>1. Buys(o)' = Buys(o)
      <4>1. b(o) = 0 /\ Buys(o)' = Buys(o) - b(o) /\ Buys(o) \in Nat BY <1>7, <1>8, <1>12, <2>3
      <4> QED BY <4>1
    <3>2. CASE o = c
      <4>1. Buys(o) = 0 /\ ShortOf(o)' = 0 BY <1>12, <2>3, <3>2
      <4> QED BY <3>1, <4>1
    <3>3. CASE o # c
      <4>1. ShortOf(o)' = ShortOf(o) BY <1>12, <2>3, <3>3
      <4> QED BY <2>1, <3>1, <4>1
    <3> QED BY <3>2, <3>3
  <2> QED BY <1>5, <2>2, <2>3
<1>15. (\A o \in Contracts :
          \/ held[o] = ShortOf(o) - Buys(o) + Sells(o)
          \/ Lapsing(o)
          \/ held[o] = 0 /\ Comes("assigned", o))'
  <2> SUFFICES ASSUME NEW o \in Contracts
               PROVE \/ held'[o] = ShortOf(o)' - Buys(o)' + Sells(o)'
                     \/ Lapsing(o)'
                     \/ held'[o] = 0 /\ Comes("assigned", o)'
    OBVIOUS
  <2>1. \/ held[o] = ShortOf(o) - Buys(o) + Sells(o)
        \/ Lapsing(o)
        \/ held[o] = 0 /\ Comes("assigned", o)
    BY <1>1 DEF FlexOK
  <2>2. held' = held /\ (Lapsing(o) => Lapsing(o)') BY <1>3 DEF Lapsing
  <2>3. CASE row.kind \in {"sell", "buy", "delivered", "stock"}
    <3>1. ShortOf(o)' - Buys(o)' + Sells(o)' = ShortOf(o) - Buys(o) + Sells(o)
      <4>1. \A x, y, z, p, q \in Int : (x - p + q) - (y - p) + (z - q) = x - y + z OBVIOUS
      <4>2. /\ ShortOf(o)' = ShortOf(o) - b(o) + s(o) /\ Buys(o)' = Buys(o) - b(o) /\ Sells(o)' = Sells(o) - s(o)
            /\ ShortOf(o) \in Int /\ Buys(o) \in Int /\ Sells(o) \in Int /\ b(o) \in Int /\ s(o) \in Int
        BY <1>7, <1>8, <1>10, <1>11, <2>3
      <4> QED BY <4>1, <4>2
    <3>2. Comes("assigned", o) => Comes("assigned", o)' BY <1>13, <2>3
    <3> QED BY <2>1, <2>2, <3>1, <3>2
  <2>4. CASE row.kind \in {"zero", "eae", "assigned"} /\ o # c
    <3>1. ShortOf(o)' = ShortOf(o) /\ Buys(o)' = Buys(o) /\ Sells(o)' = Sells(o)
      <4>1. /\ ShortOf(o)' = ShortOf(o) /\ b(o) = 0 /\ s(o) = 0
            /\ Buys(o)' = Buys(o) - b(o) /\ Sells(o)' = Sells(o) - s(o) /\ Buys(o) \in Nat /\ Sells(o) \in Nat
        BY <1>7, <1>8, <1>12, <2>4
      <4> QED BY <4>1
    <3>2. Comes("assigned", o) => Comes("assigned", o)' BY <1>13, <2>4
    <3> QED BY <2>1, <2>2, <3>1, <3>2
  <2>5. CASE row.kind \in {"zero", "eae"} /\ o = c
    <3>1. Lapsing(o) BY <1>1, <1>3, <2>5 DEF FlexOK, ExpiryOK, ExpiryKinds
    <3> QED BY <2>2, <3>1
  <2>6. CASE row.kind = "assigned" /\ o = c
    <3>1. held[o] = 0 BY <1>1, <1>3, <2>6 DEF FlexOK, AssignedOK
    <3>2. ShortOf(o)' = 0 /\ Buys(o) = 0 /\ Sells(o) = 0 /\ b(o) = 0 /\ s(o) = 0
      BY <1>12, <2>6
    <3>3. Buys(o)' = 0 /\ Sells(o)' = 0
      <4>1. Buys(o)' = Buys(o) - b(o) /\ Sells(o)' = Sells(o) - s(o) BY <1>8
      <4> QED BY <3>2, <4>1
    <3> QED BY <2>2, <3>1, <3>2, <3>3
  <2> QED BY <1>5, <2>3, <2>4, <2>5, <2>6
<1>16. (\A x, o \in Contracts : x # o /\ KeyOf(x) = KeyOf(o) /\ Sells(x) > 0 =>
          ShortOf(o) = Buys(o) /\ Sells(o) = 0)'
  <2> SUFFICES ASSUME NEW x \in Contracts, NEW o \in Contracts, x # o, KeyOf(x) = KeyOf(o), Sells(x)' > 0
               PROVE ShortOf(o)' = Buys(o)' /\ Sells(o)' = 0
    OBVIOUS
  <2>1. Sells(x) > 0 BY <1>7, <1>8, <1>10
  <2>2. ShortOf(o) = Buys(o) /\ Sells(o) = 0 BY <1>1, <2>1 DEF FlexOK
  <2>3. Sells(o)' = 0 /\ s(o) = 0
    <3>1. Sells(o)' = Sells(o) - s(o) /\ Sells(o)' \in Nat /\ s(o) \in Nat BY <1>7, <1>8, <1>10
    <3> QED BY <2>2, <3>1
  <2>4. CASE row.kind \in {"sell", "buy", "delivered", "stock"}
    <3>1. /\ ShortOf(o)' = ShortOf(o) - b(o) + s(o) /\ Buys(o)' = Buys(o) - b(o)
          /\ Buys(o) \in Nat /\ b(o) \in Nat
      BY <1>7, <1>8, <1>10, <1>11, <2>4
    <3> QED BY <2>2, <2>3, <3>1
  <2>5. CASE row.kind \in {"zero", "eae", "assigned"}
    <3>1. o.right = x.right BY KeysTyped
    <3>2. o # c BY <1>12, <2>1, <2>5, <3>1
    <3>3. /\ ShortOf(o)' = ShortOf(o) /\ b(o) = 0 /\ Buys(o)' = Buys(o) - b(o) /\ Buys(o) \in Nat
      BY <1>7, <1>8, <1>12, <2>5, <3>2
    <3> QED BY <2>2, <2>3, <3>3
  <2> QED BY <1>5, <2>4, <2>5
<1> HIDE DEF row, c
<1>17. (\A j, m \in 1..Len(tape) : tape[j].kind \in SettleKinds /\ tape[m].kind \in {"sell", "buy"} =>
          tape[j].contract.right # tape[m].contract.right)'
  <2>1. \A x, y \in 1..Len(tape) : tape[x].kind \in SettleKinds /\ tape[y].kind \in {"sell", "buy"} =>
          tape[x].contract.right # tape[y].contract.right
    BY <1>1 DEF FlexOK
  <2> SUFFICES ASSUME NEW j \in 1..Len(tape'), NEW m \in 1..Len(tape'), tape'[j].kind \in SettleKinds,
                      tape'[m].kind \in {"sell", "buy"}
               PROVE tape'[j].contract.right # tape'[m].contract.right
    OBVIOUS
  <2>2. /\ Old(i, j) \in 1..Len(tape) /\ tape'[j] = tape[Old(i, j)]
        /\ Old(i, m) \in 1..Len(tape) /\ tape'[m] = tape[Old(i, m)]
    BY <1>3
  <2> QED BY <2>1, <2>2
<1>18. \A o \in Contracts : ShortOf(o)' = IF o = c THEN ShortAfter(row) ELSE ShortOf(o)
  BY <1>2 DEF ShortsMove, c
<1>19. AssignedOK'
  <2> SUFFICES ASSUME NEW j \in 1..Len(tape'), tape'[j].kind = "assigned", NEW x, x = tape'[j].contract
               PROVE /\ ShortOf(x)' = tape'[j].qty /\ held'[x] = 0 /\ Comes("delivered", x)'
                     /\ \A m \in 1..Len(tape') : m # j /\ tape'[m].contract = x =>
                          tape'[m].kind \in {"delivered", "stock"}
    BY DEF AssignedOK, ShortOf, Comes, Live, KeyOf
  <2> DEFINE old == Old(i, j)
  <2>1. old \in 1..Len(tape) /\ old # i /\ tape'[j] = tape[old] BY <1>3
  <2>2. /\ ShortOf(x) = tape[old].qty /\ held[x] = 0 /\ Comes("delivered", x)
        /\ \A m \in 1..Len(tape) : m # old /\ tape[m].contract = x => tape[m].kind \in {"delivered", "stock"}
    BY <1>1, <2>1 DEF FlexOK, AssignedOK
  <2>3. x \in Contracts BY <1>1, <2>1, TapeTotals, RowTyped
  <2>4. row.kind # "delivered" BY <1>1, <1>3, <2>1, FlexOrder DEF row
  <2>5. Comes("delivered", x)' BY <1>13, <2>2, <2>4
  <2>6. ShortOf(x)' = ShortOf(x)
    <3>1. CASE x # c BY <1>18, <2>3, <3>1
    <3>2. CASE x = c
      <4>1. row.kind = "stock" BY <1>3, <2>1, <2>2, <2>4, <3>2 DEF row, c
      <4>2. ShortAfter(row) = ShortOf(c) BY <4>1 DEF ShortAfter, c
      <4> QED BY <1>18, <2>3, <3>2, <4>2
    <3> QED BY <3>1, <3>2
  <2>7. ASSUME NEW m \in 1..Len(tape'), m # j, tape'[m].contract = x
        PROVE tape'[m].kind \in {"delivered", "stock"}
    <3>1. Old(i, m) \in 1..Len(tape) /\ tape'[m] = tape[Old(i, m)] BY <1>3
    <3>2. Old(i, m) # old BY <1>3, <2>7 DEF Old
    <3> QED BY <2>2, <2>7, <3>1, <3>2
  <2> QED BY <1>3, <2>1, <2>2, <2>5, <2>6, <2>7
<1>20. ExpiryOK'
  <2> SUFFICES ASSUME NEW j \in 1..Len(tape'), tape'[j].kind \in ExpiryKinds, NEW x, x = tape'[j].contract
               PROVE /\ Lapsing(x)' /\ ShortOf(x)' \in {0, tape'[j].qty}
                     /\ \A o \in Contracts \ {x} : KeyOf(o) = KeyOf(x) => ShortOf(o)' = 0
    BY ZenonT(40) DEF ExpiryOK, ShortOf, Live, KeyOf, Lapsing
  <2> DEFINE old == Old(i, j)
  <2>1. old \in 1..Len(tape) /\ old # i /\ tape'[j] = tape[old] BY <1>3
  <2>2. /\ Lapsing(x) /\ ShortOf(x) \in {0, tape[old].qty}
        /\ \A o \in Contracts \ {x} : KeyOf(o) = KeyOf(x) => ShortOf(o) = 0
    BY <1>1, <2>1 DEF FlexOK, ExpiryOK
  <2>3. x \in Contracts BY <1>1, <2>1, TapeTotals, RowTyped
  <2>4. c \in Contracts BY <1>5
  <2>5. Lapsing(x)' BY <1>3, <2>2 DEF Lapsing
  <2>6. CASE KeyOf(c) # KeyOf(x)
    <3>1. \A o \in Contracts : KeyOf(o) = KeyOf(x) => ShortOf(o)' = ShortOf(o) BY <1>18, <2>6
    <3> QED BY <2>1, <2>2, <2>3, <2>5, <3>1
  <2>7. CASE KeyOf(c) = KeyOf(x)
    <3>1. c.right = x.right BY <2>3, <2>4, <2>7, KeysTyped
    <3>2. row.kind \notin {"sell", "buy"}
      <4>1. tape[old].kind \in SettleKinds BY <2>1 DEF SettleKinds, ExpiryKinds
      <4> QED BY <1>1, <1>3, <2>1, <3>1, <4>1 DEF FlexOK, row, c
    <3>3. row.kind # "assigned"
      <4> SUFFICES ASSUME row.kind = "assigned" PROVE FALSE OBVIOUS
      <4>1. /\ ShortOf(c) = row.qty
            /\ \A m \in 1..Len(tape) : m # i /\ tape[m].contract = c => tape[m].kind \in {"delivered", "stock"}
        BY <1>1, <1>3 DEF FlexOK, AssignedOK, row, c
      <4>2. c # x BY <2>1, <4>1 DEF ExpiryKinds
      <4>3. ShortOf(c) = 0 BY <2>2, <2>4, <2>7, <4>2
      <4> QED BY <1>5, <4>1, <4>3
    <3>4. ShortAfter(row) \in {0, ShortOf(c)} BY <1>5, <3>2, <3>3 DEF ShortAfter, c
    <3>5. \A o \in Contracts : KeyOf(o) = KeyOf(x) => ShortOf(o)' \in {0, ShortOf(o)}
      BY <1>18, <3>4
    <3>6. ShortOf(x)' \in {0, tape[old].qty} BY <2>2, <2>3, <3>5
    <3>7. \A o \in Contracts \ {x} : KeyOf(o) = KeyOf(x) => ShortOf(o)' = 0 BY <2>2, <3>5
    <3> QED BY <2>1, <2>5, <3>6, <3>7
  <2> QED BY <2>6, <2>7
<1>21. DeliveryOK'
  <2> SUFFICES ASSUME NEW j \in 1..Len(tape'), tape'[j].kind = "delivered", NEW x, x = tape'[j].contract
               PROVE /\ active'[KeyOf(x)] # 0
                     /\ Comes("assigned", x)' \/ chains'[active'[KeyOf(x)]].opt_pos = 0
    BY DEF DeliveryOK, Comes, KeyOf
  <2> DEFINE old == Old(i, j)
  <2>1. old \in 1..Len(tape) /\ old # i /\ tape'[j] = tape[old] BY <1>3
  <2>2. /\ active[KeyOf(x)] # 0
        /\ Comes("assigned", x) \/ chains[active[KeyOf(x)]].opt_pos = 0
    BY <1>1, <2>1 DEF FlexOK, DeliveryOK
  <2>3. x \in Contracts BY <1>1, <2>1, TapeTotals, RowTyped
  <2>4. KeyOf(x) \in Keys /\ KeyOf(x)[1] = x.right BY <2>3, KeysTyped
  <2>5. row.kind = "sell" => x.right # c.right
    <3>1. tape[old].kind \in SettleKinds BY <2>1 DEF SettleKinds
    <3> QED BY <1>1, <1>3, <2>1, <3>1 DEF FlexOK, row, c
  <2>6. /\ active'[KeyOf(x)] # 0
        /\ chains[active[KeyOf(x)]].opt_pos = 0 => chains'[active'[KeyOf(x)]].opt_pos = 0
    BY <1>2, <2>2, <2>4, <2>5 DEF KeyKept, c
  <2>7. CASE Comes("assigned", x) /\ (row.kind # "assigned" \/ c # x)
    <3>1. Comes("assigned", x)' BY <1>13, <2>7
    <3> QED BY <2>6, <3>1
  <2>8. CASE row.kind = "assigned" /\ c = x BY <1>2, <2>6, <2>8 DEF KeyKept, c
  <2> QED BY <2>2, <2>6, <2>7, <2>8
<1> QED BY <1>14, <1>15, <1>16, <1>17, <1>19, <1>20, <1>21 DEF FlexOK

(***************************************************************************)
(* The account: rows are appended, the chains stay.                        *)
(***************************************************************************)
ChainsStay == chains' = chains /\ active' = active /\ day' = day /\ feed' = feed

\* A step of the account leaves the chains in order.
LEMMA StayOrderly ==
  ASSUME Orderly, chains' = chains, active' = active
  PROVE Orderly'
BY DEF Orderly, AllSound, KeysFit, GoneClosed, Active

\* A step of the account leaves the chains' shorts.
LEMMA ShortsStay ==
  ASSUME ChainsStay
  PROVE \A o : ShortOf(o)' = ShortOf(o)
BY DEF ChainsStay, ShortOf, Live, KeyOf

\* What rows put on the tape do to it.
LEMMA Appended ==
  ASSUME TypeOK, NEW rows \in Seq(Row), tape' = tape \o rows
  PROVE /\ Len(tape') = Len(tape) + Len(rows) /\ Len(tape) \in Nat /\ Len(rows) \in Nat
        /\ \A j \in 1..Len(tape) : j \in 1..Len(tape') /\ tape'[j] = tape[j]
        /\ \A j \in 1..Len(rows) : Len(tape) + j \in 1..Len(tape') /\ tape'[Len(tape) + j] = rows[j]
        /\ \A j \in 1..Len(tape') :
             \/ j \in 1..Len(tape) /\ tape'[j] = tape[j]
             \/ \E m \in 1..Len(rows) : j = Len(tape) + m /\ tape'[j] = rows[m]
        /\ \A f \in [Row -> Int] : /\ Total(f, tape') = Total(f, tape) + Total(f, rows)
                                   /\ Total(f, tape) \in Int /\ Total(f, rows) \in Int
<1>1. tape \in Seq(Row) BY DEF TypeOK
<1>2. Len(tape') = Len(tape) + Len(rows) /\ Len(tape) \in Nat /\ Len(rows) \in Nat BY <1>1
<1>3. \A j \in 1..Len(tape) : j \in 1..Len(tape') /\ tape'[j] = tape[j] BY <1>1, <1>2
<1>4. \A j \in 1..Len(rows) : Len(tape) + j \in 1..Len(tape') /\ tape'[Len(tape) + j] = rows[j]
  BY <1>1, <1>2
<1>5. ASSUME NEW j \in 1..Len(tape')
      PROVE \/ j \in 1..Len(tape) /\ tape'[j] = tape[j]
            \/ \E m \in 1..Len(rows) : j = Len(tape) + m /\ tape'[j] = rows[m]
  <2>1. CASE j <= Len(tape) BY <1>2, <1>3, <2>1
  <2>2. CASE j > Len(tape)
    <3>1. j - Len(tape) \in 1..Len(rows) /\ j = Len(tape) + (j - Len(tape)) BY <1>2, <2>2
    <3> QED BY <1>4, <3>1
  <2> QED BY <1>2, <2>1, <2>2
<1>6. \A f \in [Row -> Int] : /\ Total(f, tape') = Total(f, tape) + Total(f, rows)
                              /\ Total(f, tape) \in Int /\ Total(f, rows) \in Int
  BY <1>1, TotalConcat, TotalInt
<1> QED BY <1>2, <1>3, <1>4, <1>5, <1>6

\* The totals of up to two rows.
LEMMA SmallTotals ==
  ASSUME NEW f \in [Row -> Int], NEW a \in Row, NEW b \in Row
  PROVE Total(f, <<>>) = 0 /\ Total(f, <<a>>) = f[a] /\ Total(f, <<a, b>>) = f[a] + f[b]
<1>1. Total(f, <<>>) = 0 /\ Total(f, <<a>>) = f[a] /\ Total(f, <<b>>) = f[b] BY TotalEmpty, TotalOne
<1>2. <<a>> \in Seq(Row) /\ <<b>> \in Seq(Row) /\ <<a, b>> = <<a>> \o <<b>>
  <2>1. <<a>> \in Seq(Row) /\ <<b>> \in Seq(Row) /\ <<a, b>> \in Seq(Row) OBVIOUS
  <2> DEFINE d == <<a>> \o <<b>>
  <2>2. d \in Seq(Row) /\ Len(d) = 2 /\ d[1] = a /\ d[2] = b BY <2>1
  <2> HIDE DEF d
  <2>3. Len(<<a, b>>) = 2 /\ <<a, b>>[1] = a /\ <<a, b>>[2] = b OBVIOUS
  <2>4. \A m \in 1..2 : d[m] = <<a, b>>[m] BY <2>2, <2>3
  <2>5. d = <<a, b>> BY <2>1, <2>2, <2>3, <2>4, SeqEqual
  <2> QED BY <2>1, <2>5 DEF d
<1>3. Total(f, <<a>> \o <<b>>) = Total(f, <<a>>) + Total(f, <<b>>) BY <1>2, TotalConcat
<1> QED BY <1>1, <1>2, <1>3

\* A step of the account keeps the books if its rows say what it did.
LEMMA AppendBooks ==
  ASSUME Inv, ChainsStay, phase' = phase, NEW rows \in Seq(Row), tape' = tape \o rows,
         \A j \in 1..Len(rows) : RowOK(rows[j]),
         cash' = cash + Total(MoneyOf, rows),
         shares' = shares + (Total(DueOf("P"), rows) - Total(StockOf("S"), rows))
                          - (Total(DueOf("C"), rows) - Total(StockOf("B"), rows)),
         Total(StockOf("S"), tape) + Total(StockOf("S"), rows) <= Total(LongOf, chains),
         Total(StockOf("B"), tape) + Total(StockOf("B"), rows) <= Total(CoverOf, chains)
  PROVE Orderly' /\ RowsOK' /\ CashOK' /\ SharesOK' /\ FlatOK'
<1>1. TypeOK /\ Orderly /\ RowsOK /\ CashOK /\ SharesOK /\ FlatOK BY DEF Inv, BooksOK
<1>2. /\ Len(tape') = Len(tape) + Len(rows) /\ Len(tape) \in Nat /\ Len(rows) \in Nat
      /\ \A j \in 1..Len(tape) : j \in 1..Len(tape') /\ tape'[j] = tape[j]
      /\ \A j \in 1..Len(tape') :
           \/ j \in 1..Len(tape) /\ tape'[j] = tape[j]
           \/ \E m \in 1..Len(rows) : j = Len(tape) + m /\ tape'[j] = rows[m]
      /\ \A f \in [Row -> Int] : /\ Total(f, tape') = Total(f, tape) + Total(f, rows)
                                 /\ Total(f, tape) \in Int /\ Total(f, rows) \in Int
  BY <1>1, Appended
<1>3. chains' = chains /\ active' = active /\ day' = day /\ feed' = feed BY DEF ChainsStay
<1>4. Orderly' BY <1>1, <1>3, StayOrderly
<1>5. RowsOK'
  <2>1. ASSUME NEW j \in 1..Len(tape') PROVE RowOK(tape[j])'
    <3>1. RowOK(tape'[j]) BY <1>1, <1>2 DEF RowsOK
    <3> QED BY <1>3, <3>1 DEF RowOK
  <2> QED BY <2>1 DEF RowsOK
<1>6. CashOK'
  <2>1. Total(CreditOf, chains) \in Int BY <1>1, ChainTotals
  <2>2. /\ Total(MoneyOf, tape') = Total(MoneyOf, tape) + Total(MoneyOf, rows)
        /\ Total(MoneyOf, tape) \in Int /\ Total(MoneyOf, rows) \in Int
    BY <1>2, RowSums
  <2>3. cash = Total(CreditOf, chains) + Total(MoneyOf, tape) BY <1>1 DEF CashOK
  <2>4. \A a, b, x \in Int : (a + b) + x = a + (b + x) OBVIOUS
  <2>5. cash' = Total(CreditOf, chains) + Total(MoneyOf, tape') BY <2>1, <2>2, <2>3, <2>4
  <2> QED BY <1>3, <2>5 DEF CashOK
<1>7. SharesOK'
  <2> DEFINE long == Total(LongOf, chains)
             cover == Total(CoverOf, chains)
             T(f) == Total(f, tape)
             R(f) == Total(f, rows)
             sS == T(StockOf("S"))
             sB == T(StockOf("B"))
             dP == T(DueOf("P"))
             dC == T(DueOf("C"))
             rS == R(StockOf("S"))
             rB == R(StockOf("B"))
             rP == R(DueOf("P"))
             rC == R(DueOf("C"))
  <2>1. long \in Int /\ cover \in Int BY <1>1, ChainTotals
  <2>2. /\ Total(StockOf("S"), tape') = sS + rS /\ Total(StockOf("B"), tape') = sB + rB
        /\ Total(DueOf("P"), tape') = dP + rP /\ Total(DueOf("C"), tape') = dC + rC
        /\ sS \in Int /\ sB \in Int /\ dP \in Int /\ dC \in Int
        /\ rS \in Int /\ rB \in Int /\ rP \in Int /\ rC \in Int
    BY <1>2, RowSums
  <2>3. /\ shares = (long - sS + dP) - (cover - sB + dC)
        /\ shares' = shares + (rP - rS) - (rC - rB)
        /\ sS + rS <= long /\ sB + rB <= cover
    BY <1>1 DEF SharesOK
  <2> HIDE DEF long, cover, sS, sB, dP, dC, rS, rB, rP, rC, T, R
  <2>4. shares' = (long - (sS + rS) + (dP + rP)) - (cover - (sB + rB) + (dC + rC))
    <3> DEFINE put == long - sS + dP
               call == cover - sB + dC
    <3>1. put \in Int /\ long - (sS + rS) + (dP + rP) = put + (rP - rS) BY <2>1, <2>2
    <3>2. call \in Int /\ cover - (sB + rB) + (dC + rC) = call + (rC - rB) BY <2>1, <2>2
    <3>3. shares = put - call /\ shares' = shares + (rP - rS) - (rC - rB) BY <2>3
    <3>4. rP - rS \in Int /\ rC - rB \in Int BY <2>2
    <3> DEFINE x == rP - rS
               y == rC - rB
    <3> HIDE DEF put, call
    <3>5. (put - call) + x - y = (put + x) - (call + y) /\ x \in Int /\ y \in Int BY <3>1, <3>2, <3>4
    <3> QED BY <3>1, <3>2, <3>3, <3>5
  <2>5. /\ shares' = (long - Total(StockOf("S"), tape') + Total(DueOf("P"), tape'))
                     - (cover - Total(StockOf("B"), tape') + Total(DueOf("C"), tape'))
        /\ Total(StockOf("S"), tape') <= long /\ Total(StockOf("B"), tape') <= cover
    BY <2>2, <2>3, <2>4
  <2> QED BY <1>3, <2>5 DEF SharesOK, long, cover
<1>8. FlatOK'
  <2> SUFFICES ASSUME NEW n \in 1..Len(chains), Flat(chains[n]), chains[n].status # "closed"
               PROVE \E j \in 1..Len(tape') :
                       tape'[j].kind = "delivered" /\ KeyOf(tape'[j].contract) = KeyOfChain(chains[n])
    BY <1>3 DEF FlatOK, Flat, KeyOfChain, KeyOf
  <2>1. PICK j \in 1..Len(tape) :
          tape[j].kind = "delivered" /\ KeyOf(tape[j].contract) = KeyOfChain(chains[n])
    BY <1>1 DEF FlatOK
  <2> QED BY <1>2, <2>1
<1> QED BY <1>4, <1>5, <1>6, <1>7, <1>8

(***************************************************************************)
(* The live feed's rows.                                                   *)
(***************************************************************************)
LEMMA PollRow ==
  ASSUME TypeOK, Orderly, NEW s \in Seq(Row), NEW r \in Row, NEW t, t = s \o <<r>>,
         \A i \in 0..Len(s) : LevelsOK(SubSeq(s, 1, i)),
         \A c \in Contracts : Level(c, s) + DeltaOf(c)[r] >= 0,
         \A c, o \in Contracts : c # o /\ KeyOf(c) = KeyOf(o) /\ DeltaOf(c)[r] > 0 => Level(o, s) = 0
  PROVE /\ t \in Seq(Row) /\ \A i \in 0..Len(t) : LevelsOK(SubSeq(t, 1, i))
        /\ \A c \in Contracts : /\ Level(c, t) = Level(c, s) + DeltaOf(c)[r]
                                /\ Level(c, s) \in Int /\ DeltaOf(c)[r] \in Int
<1>1. /\ t \in Seq(Row) /\ Len(t) = Len(s) + 1 /\ Len(s) \in Nat
      /\ \A i \in 1..Len(s) : t[i] = s[i]
  OBVIOUS
<1>2. \A c \in Contracts : /\ Level(c, t) = Level(c, s) + DeltaOf(c)[r]
                           /\ Level(c, s) \in Int /\ DeltaOf(c)[r] \in Int
  <2> SUFFICES ASSUME NEW c \in Contracts
               PROVE /\ Level(c, t) = Level(c, s) + DeltaOf(c)[r]
                     /\ Level(c, s) \in Int /\ DeltaOf(c)[r] \in Int
    OBVIOUS
  <2>1. DeltaOf(c) \in [Row -> Int] /\ ShortOf(c) \in Nat BY RowSums, ShortTypes
  <2>2. /\ Total(DeltaOf(c), t) = Total(DeltaOf(c), s) + DeltaOf(c)[r]
        /\ Total(DeltaOf(c), s) \in Int /\ DeltaOf(c)[r] \in Int
    BY <2>1, TotalAppend, TotalInt
  <2>3. \A x, y, z \in Int : x + (y + z) = (x + y) + z OBVIOUS
  <2> QED BY SMTT(30), <2>1, <2>2, <2>3 DEF Level
<1>3. ASSUME NEW i \in 0..Len(s) PROVE SubSeq(t, 1, i) = SubSeq(s, 1, i)
  <2> DEFINE x == SubSeq(t, 1, i)
             y == SubSeq(s, 1, i)
  <2>1. x \in Seq(Row) /\ Len(x) = i /\ \A m \in 1..i : x[m] = t[m] BY <1>1
  <2>2. y \in Seq(Row) /\ Len(y) = i /\ \A m \in 1..i : y[m] = s[m] OBVIOUS
  <2> HIDE DEF x, y
  <2>3. \A m \in 1..i : x[m] = y[m] BY <1>1, <2>1, <2>2
  <2>4. x = y BY <2>1, <2>2, <2>3, SeqEqual
  <2> QED BY <2>4 DEF x, y
<1>4. SubSeq(t, 1, Len(t)) = t
  <2> DEFINE x == SubSeq(t, 1, Len(t))
  <2>1. x \in Seq(Row) /\ Len(x) = Len(t) /\ \A m \in 1..Len(t) : x[m] = t[m] BY <1>1
  <2> HIDE DEF x
  <2>2. x = t BY <1>1, <2>1, SeqEqual
  <2> QED BY <2>2 DEF x
<1>5. SubSeq(s, 1, Len(s)) = s
  <2> DEFINE x == SubSeq(s, 1, Len(s))
  <2>1. x \in Seq(Row) /\ Len(x) = Len(s) /\ \A m \in 1..Len(s) : x[m] = s[m] OBVIOUS
  <2> HIDE DEF x
  <2>2. x = s BY <2>1, SeqEqual
  <2> QED BY <2>2 DEF x
<1>6. LevelsOK(s)
  <2>1. Len(s) \in 0..Len(s) BY <1>1
  <2> QED BY <1>5, <2>1
<1>7. LevelsOK(t)
  <2>1. \A c \in Contracts : Level(c, t) >= 0 BY <1>2
  <2>2. ASSUME NEW c \in Contracts, NEW o \in Contracts, c # o, KeyOf(c) = KeyOf(o)
        PROVE Level(c, t) = 0 \/ Level(o, t) = 0
    <3>1. Level(c, s) = 0 \/ Level(o, s) = 0 BY <1>6, <2>2 DEF LevelsOK
    <3>2. DeltaOf(c)[r] = 0 \/ DeltaOf(o)[r] = 0 BY <2>2 DEF DeltaOf
    <3>3. /\ Level(c, t) = Level(c, s) + DeltaOf(c)[r] /\ Level(o, t) = Level(o, s) + DeltaOf(o)[r]
          /\ Level(c, s) \in Int /\ Level(o, s) \in Int /\ DeltaOf(c)[r] \in Int /\ DeltaOf(o)[r] \in Int
          /\ Level(c, t) >= 0 /\ Level(o, t) >= 0
      BY <1>2, <2>1
    <3>4. /\ DeltaOf(c)[r] > 0 => Level(o, s) = 0
          /\ DeltaOf(o)[r] > 0 => Level(c, s) = 0
      BY <2>2
    <3> QED BY <3>1, <3>2, <3>3, <3>4
  <2> QED BY <2>1, <2>2 DEF LevelsOK
<1>8. ASSUME NEW i \in 0..Len(t) PROVE LevelsOK(SubSeq(t, 1, i))
  <2>1. CASE i = Len(t) BY <1>4, <1>7, <2>1
  <2>2. CASE i # Len(t)
    <3>1. i \in 0..Len(s) BY <1>1, <2>2
    <3> QED BY <1>3, <3>1
  <2> QED BY <2>1, <2>2
<1> QED BY <1>1, <1>2, <1>8

\* The live feed's shorts after a step of the account.
LEMMA LevelsStay ==
  ASSUME ChainsStay, \A i \in 0..Len(tape') : LevelsOK(SubSeq(tape', 1, i)),
         \A c \in Contracts : \/ held'[c] = Level(c, tape')
                              \/ c.expiry = day /\ held'[c] = 0 /\ phase' # "trade"
  PROVE /\ (\A i \in 0..Len(tape) : LevelsOK(SubSeq(tape, 1, i)))'
        /\ (\A c \in Contracts : held[c] = Level(c, tape) \/ Lapsing(c))'
<1>1. \A o : ShortOf(o)' = ShortOf(o) BY ShortsStay
<1>2. ASSUME NEW i \in 0..Len(tape') PROVE LevelsOK(SubSeq(tape, 1, i))'
  <2>1. /\ \A c \in Contracts : ShortOf(c) + Total(DeltaOf(c), SubSeq(tape', 1, i)) >= 0
        /\ \A c, o \in Contracts : c # o /\ KeyOf(c) = KeyOf(o) =>
             \/ ShortOf(c) + Total(DeltaOf(c), SubSeq(tape', 1, i)) = 0
             \/ ShortOf(o) + Total(DeltaOf(o), SubSeq(tape', 1, i)) = 0
    BY DEF LevelsOK, Level
  <2>2. /\ \A c \in Contracts : ShortOf(c)' + Total(DeltaOf(c), SubSeq(tape', 1, i)) >= 0
        /\ \A c, o \in Contracts : c # o /\ KeyOf(c) = KeyOf(o) =>
             \/ ShortOf(c)' + Total(DeltaOf(c), SubSeq(tape', 1, i)) = 0
             \/ ShortOf(o)' + Total(DeltaOf(o), SubSeq(tape', 1, i)) = 0
    BY <1>1, <2>1
  <2> QED BY <2>2 DEF LevelsOK, Level
<1>3. ASSUME NEW c \in Contracts PROVE (held[c] = Level(c, tape) \/ Lapsing(c))'
  <2>1. \/ held'[c] = ShortOf(c)' + Total(DeltaOf(c), tape')
        \/ c.expiry = day' /\ held'[c] = 0 /\ phase' # "trade"
    BY <1>1 DEF Level, ChainsStay
  <2> QED BY <2>1 DEF Level, Lapsing
<1> QED BY <1>2, <1>3

\* A trade keeps what the live feed makes sure of.
LEMMA PollTrade ==
  ASSUME Inv, feed = "poll", phase = "trade", ChainsStay, phase' = phase, NEW r \in Row,
         tape' = tape \o <<r>>, r.kind \in UserKinds,
         \A c \in Contracts : held'[c] = held[c] + DeltaOf(c)[r] /\ held'[c] >= 0,
         \A c, o \in Contracts : c # o /\ KeyOf(c) = KeyOf(o) /\ DeltaOf(c)[r] > 0 => held[o] = 0
  PROVE PollOK'
<1>1. TypeOK /\ Orderly /\ RowsOK /\ PollOK BY DEF Inv, BooksOK
<1>2. tape \in Seq(Row) BY <1>1 DEF TypeOK
<1>3. \A c \in Contracts : held[c] = Level(c, tape) BY <1>1 DEF PollOK, Lapsing
<1>4. /\ \A c \in Contracts : Level(c, tape) + DeltaOf(c)[r] >= 0
      /\ \A c, o \in Contracts : c # o /\ KeyOf(c) = KeyOf(o) /\ DeltaOf(c)[r] > 0 => Level(o, tape) = 0
      /\ \A i \in 0..Len(tape) : LevelsOK(SubSeq(tape, 1, i))
  BY <1>1, <1>3 DEF PollOK
<1>5. /\ \A i \in 0..Len(tape') : LevelsOK(SubSeq(tape', 1, i))
      /\ \A c \in Contracts : Level(c, tape') = Level(c, tape) + DeltaOf(c)[r]
  BY <1>1, <1>2, <1>4, PollRow
<1>6. /\ (\A i \in 0..Len(tape) : LevelsOK(SubSeq(tape, 1, i)))'
      /\ (\A c \in Contracts : held[c] = Level(c, tape) \/ Lapsing(c))'
  BY <1>3, <1>5, LevelsStay
<1>7. ASSUME NEW j \in 1..Len(tape') PROVE tape'[j].kind \in UserKinds
  <2>1. \A m \in 1..Len(tape) : tape[m].kind \in UserKinds BY <1>1 DEF RowsOK, RowOK
  <2>2. <<r>> \in Seq(Row) /\ Len(<<r>>) = 1 /\ \A m \in 1..1 : <<r>>[m] = r OBVIOUS
  <2>3. \/ j \in 1..Len(tape) /\ tape'[j] = tape[j]
        \/ \E m \in 1..Len(<<r>>) : j = Len(tape) + m /\ tape'[j] = <<r>>[m]
    BY <1>1, <2>2, Appended
  <2> QED BY <2>1, <2>2, <2>3
<1>8. (\A i, j \in 1..Len(tape) : i < j /\ tape[i].kind \notin UserKinds => tape[j].kind \notin UserKinds)'
  BY <1>7
<1>9. \A right : ~Settling(right)' BY <1>7 DEF Settling, UserKinds
<1>10. (Total(LongOf, chains) = 0 \/ Total(CoverOf, chains) = 0)' BY <1>1 DEF PollOK, ChainsStay
<1> QED BY <1>6, <1>8, <1>9, <1>10 DEF PollOK

\* The account has one feed.
LEMMA OneFeed == ASSUME TypeOK, Followed PROVE feed \in {"poll", "flex"} /\ Histories = {}
BY DEF TypeOK, Followed

\* Two rows are a sequence of rows.
LEMMA PairTyped ==
  ASSUME NEW a \in Row, NEW b \in Row
  PROVE /\ <<a, b>> \in Seq(Row) /\ Len(<<a, b>>) = 2 /\ <<a, b>>[1] = a /\ <<a, b>>[2] = b
        /\ <<a>> \in Seq(Row) /\ <<b>> \in Seq(Row) /\ Len(<<a>>) = 1 /\ <<a>>[1] = a
        /\ \A j \in 1..Len(<<a, b>>) : <<a, b>>[j] \in {a, b}
        /\ \A s \in Seq(Row) : s \o <<a, b>> = (s \o <<a>>) \o <<b>>
<1>1. /\ <<a, b>> \in Seq(Row) /\ Len(<<a, b>>) = 2 /\ <<a, b>>[1] = a /\ <<a, b>>[2] = b
      /\ <<a>> \in Seq(Row) /\ <<b>> \in Seq(Row) /\ Len(<<a>>) = 1 /\ <<a>>[1] = a
      /\ Len(<<b>>) = 1 /\ <<b>>[1] = b
  OBVIOUS
<1>2. \A j \in 1..Len(<<a, b>>) : <<a, b>>[j] \in {a, b}
  <2>1. \A j \in 1..Len(<<a, b>>) : j = 1 \/ j = 2 BY <1>1
  <2> QED BY <1>1, <2>1
<1>3. ASSUME NEW s \in Seq(Row) PROVE s \o <<a, b>> = (s \o <<a>>) \o <<b>>
  <2> DEFINE x == s \o <<a, b>>
             t == s \o <<a>>
             y == t \o <<b>>
  <2>1. /\ x \in Seq(Row) /\ Len(x) = Len(s) + 2 /\ Len(s) \in Nat
        /\ \A m \in 1..Len(s) : x[m] = s[m]
        /\ x[Len(s) + 1] = a /\ x[Len(s) + 2] = b
    BY <1>1
  <2>2. /\ t \in Seq(Row) /\ Len(t) = Len(s) + 1
        /\ \A m \in 1..Len(s) : t[m] = s[m]
        /\ t[Len(s) + 1] = a
    BY <1>1
  <2> HIDE DEF t
  <2>3. /\ y \in Seq(Row) /\ Len(y) = Len(s) + 2
        /\ \A m \in 1..(Len(s) + 1) : y[m] = t[m]
        /\ y[Len(s) + 2] = b
    BY <1>1, <2>1, <2>2
  <2> HIDE DEF x, y
  <2>4. ASSUME NEW m \in 1..(Len(s) + 2) PROVE x[m] = y[m]
    <3>1. m \in 1..Len(s) \/ m = Len(s) + 1 \/ m = Len(s) + 2 BY <2>1
    <3>2. CASE m \in 1..Len(s)
      <4>1. m \in 1..(Len(s) + 1) BY <2>1, <3>2
      <4> QED BY <2>1, <2>2, <2>3, <3>2, <4>1
    <3>3. CASE m = Len(s) + 1
      <4>1. m \in 1..(Len(s) + 1) BY <2>1, <3>3
      <4> QED BY <2>1, <2>2, <2>3, <3>3, <4>1
    <3>4. CASE m = Len(s) + 2 BY <2>1, <2>3, <3>4
    <3> QED BY <3>1, <3>2, <3>3, <3>4
  <2>5. x = y BY <2>1, <2>3, <2>4, SeqEqual
  <2> QED BY <2>5 DEF x, y, t
<1> QED BY <1>1, <1>2, <1>3

\* The rows of an assignment, of either feed.
LEMMA AssignmentPair ==
  ASSUME TypeOK, Followed, NEW c \in Contracts, NEW q \in 1..MaxLots
  PROVE \E a, b \in Row :
          /\ AssignmentRows(c, q) = <<a, b>>
          /\ a.contract = c /\ b.contract = c /\ a.qty = q /\ b.qty = q
          /\ b.side = IF c.right = "P" THEN "B" ELSE "S"
          /\ feed = "poll" => a.kind = "assignedA" /\ b.kind = "copy"
          /\ feed # "poll" => a.kind = "assigned" /\ b.kind = "delivered" /\ a.side = "B"
<1> DEFINE side == IF c.right = "P" THEN "B" ELSE "S"
           a1 == OptRow("assignedA", c, "A", q)
           b1 == OptRow("copy", c, side, q)
           a2 == OptRow("assigned", c, "B", q)
           b2 == OptRow("delivered", c, side, q)
<1>1. feed \in {"poll", "flex"} BY OneFeed
<1>2. q \in Nat BY BoundsAreTyped
<1>3. side \in {"B", "S", "A"} /\ side = IF c.right = "P" THEN "B" ELSE "S" OBVIOUS
<1>4. feed = "poll" => AssignmentRows(c, q) = <<a1, b1>> BY DEF AssignmentRows
<1>5. feed = "flex" => AssignmentRows(c, q) = <<a2, b2>> BY DEF AssignmentRows
<1> HIDE DEF side, a1, b1, a2, b2
<1>6. /\ {"assignedA", "copy", "assigned", "delivered"} \subseteq Kinds BY DEF Kinds
<1>7. /\ a1 \in Row /\ a1.kind = "assignedA" /\ a1.contract = c /\ a1.qty = q
      /\ b1 \in Row /\ b1.kind = "copy" /\ b1.contract = c /\ b1.qty = q /\ b1.side = side
      /\ a2 \in Row /\ a2.kind = "assigned" /\ a2.contract = c /\ a2.qty = q /\ a2.side = "B"
      /\ b2 \in Row /\ b2.kind = "delivered" /\ b2.contract = c /\ b2.qty = q /\ b2.side = side
  BY <1>2, <1>3, <1>6, OptRowTyped DEF a1, b1, a2, b2
<1>8. CASE feed = "poll" BY <1>3, <1>4, <1>7, <1>8
<1>9. CASE feed = "flex" BY <1>3, <1>5, <1>7, <1>9
<1> QED BY <1>1, <1>8, <1>9

\* An assignment keeps the books.
LEMMA AssignBooks ==
  ASSUME Inv, Followed, NEW c \in Contracts, NEW q \in 1..MaxLots, Assign(c, q)
  PROVE Orderly' /\ RowsOK' /\ DueOK' /\ CashOK' /\ SharesOK' /\ FlatOK'
<1>1. TypeOK /\ DueOK /\ SharesOK BY DEF Inv, BooksOK
<1>2. PICK a, b \in Row :
        /\ AssignmentRows(c, q) = <<a, b>>
        /\ a.contract = c /\ b.contract = c /\ a.qty = q /\ b.qty = q
        /\ b.side = IF c.right = "P" THEN "B" ELSE "S"
        /\ feed = "poll" => a.kind = "assignedA" /\ b.kind = "copy"
        /\ feed # "poll" => a.kind = "assigned" /\ b.kind = "delivered" /\ a.side = "B"
  BY <1>1, AssignmentPair
<1>3. /\ ChainsStay /\ phase = "settle" /\ phase' = phase /\ q <= held[c]
      /\ held' = [held EXCEPT ![c] = @ - q]
      /\ shares' = (IF c.right = "P" THEN shares + q ELSE shares - q)
      /\ cash' = (IF c.right = "P" THEN cash - q * c.strike ELSE cash + q * c.strike)
      /\ tape' = tape \o <<a, b>>
  BY <1>2 DEF Assign, Report, ChainsStay
<1>4. /\ held[c] \in Nat /\ q \in Nat /\ q >= 1 /\ c.expiry \in Nat /\ day \in Nat
      /\ c.right \in {"P", "C"} /\ c.strike \in Nat
  BY <1>1, KeysTyped, BoundsAreTyped DEF TypeOK
<1>5. day <= c.expiry BY <1>1, <1>3, <1>4 DEF DueOK
<1> DEFINE rows == <<a, b>>
           v == q * c.strike
<1>6. rows \in Seq(Row) /\ \A j \in 1..Len(rows) : rows[j] \in {a, b} BY PairTyped
<1>7. \A f \in [Row -> Int] : Total(f, rows) = f[a] + f[b] BY SmallTotals
<1>8. RowOK(a) /\ RowOK(b) BY <1>2, <1>3, <1>4, <1>5 DEF RowOK
<1>9. /\ Total(StockOf("S"), rows) = 0 /\ Total(StockOf("B"), rows) = 0
      /\ Total(DueOf("P"), rows) = (IF c.right = "P" THEN q ELSE 0)
      /\ Total(DueOf("C"), rows) = (IF c.right = "C" THEN q ELSE 0)
  <2>1. ASSUME NEW side PROVE StockOf(side)[a] = 0 /\ StockOf(side)[b] = 0
    BY <1>2 DEF StockOf
  <2>2. ASSUME NEW right PROVE DueOf(right)[a] + DueOf(right)[b] = (IF c.right = right THEN q ELSE 0)
    <3>1. CASE feed = "poll"
      <4>1. DueOf(right)[a] = (IF c.right = right THEN q ELSE 0) /\ DueOf(right)[b] = 0
        BY <1>2, <3>1 DEF DueOf
      <4> QED BY <1>4, <4>1
    <3>2. CASE feed # "poll"
      <4>1. DueOf(right)[b] = (IF c.right = right THEN q ELSE 0) /\ DueOf(right)[a] = 0
        BY <1>2, <3>2 DEF DueOf
      <4> QED BY <1>4, <4>1
    <3> QED BY <3>1, <3>2
  <2>3. 0 + 0 = 0 OBVIOUS
  <2> QED BY <1>7, <2>1, <2>2, <2>3, RowSums
<1>10. Total(MoneyOf, rows) = -Moved(c.right, v) /\ v \in Int
  <2>1. v \in Int
    <3>1. \A x, y \in Nat : x * y \in Int OBVIOUS
    <3> QED BY <1>4, <3>1
  <2>2. MoneyOf[a] = Money(a) /\ MoneyOf[b] = Money(b) BY DEF MoneyOf
  <2>3. a.qty * a.contract.strike = v /\ b.qty * b.contract.strike = v BY <1>2
  <2>4. Moved(c.right, v) \in Int BY <2>1 DEF Moved
  <2> HIDE DEF v
  <2>5. CASE feed = "poll"
    <3>1. Money(a) = -Moved(c.right, v) /\ Money(b) = 0 BY <1>2, <2>3, <2>5 DEF Money
    <3> QED BY <1>7, <2>1, <2>2, <2>4, <3>1, RowSums
  <2>6. CASE feed # "poll"
    <3>1. Money(b) = -Moved(c.right, v) /\ Money(a) = 0 BY <1>2, <2>3, <2>6 DEF Money
    <3> QED BY <1>7, <2>1, <2>2, <2>4, <3>1, RowSums
  <2> QED BY <2>5, <2>6
<1>11. cash' = cash + Total(MoneyOf, rows)
  <2>1. cash \in Int BY <1>1 DEF TypeOK
  <2>2. cash' = (IF c.right = "P" THEN cash - v ELSE cash + v) BY <1>3
  <2> HIDE DEF v, rows
  <2>3. \A x, y \in Int : x - y = x + (-y) /\ x + y = x + (-(-y)) OBVIOUS
  <2>4. CASE c.right = "P" BY <1>10, <2>1, <2>2, <2>3, <2>4 DEF Moved
  <2>5. CASE c.right = "C" BY <1>10, <2>1, <2>2, <2>3, <2>5 DEF Moved
  <2> QED BY <1>4, <2>4, <2>5
<1>12. shares' = shares + (Total(DueOf("P"), rows) - Total(StockOf("S"), rows))
                        - (Total(DueOf("C"), rows) - Total(StockOf("B"), rows))
  <2>1. shares \in Int BY <1>1 DEF TypeOK
  <2> HIDE DEF rows
  <2>2. CASE c.right = "P" BY <1>3, <1>4, <1>9, <2>1, <2>2
  <2>3. CASE c.right = "C" BY <1>3, <1>4, <1>9, <2>1, <2>3
  <2> QED BY <1>4, <2>2, <2>3
<1>13. /\ Total(StockOf("S"), tape) + Total(StockOf("S"), rows) <= Total(LongOf, chains)
       /\ Total(StockOf("B"), tape) + Total(StockOf("B"), rows) <= Total(CoverOf, chains)
  <2>1. /\ Total(StockOf("S"), tape) \in Nat /\ Total(StockOf("B"), tape) \in Nat
    BY <1>1, PendingTyped
  <2> QED BY <1>1, <1>9, <2>1 DEF SharesOK
<1>14. \A j \in 1..Len(rows) : RowOK(rows[j]) BY <1>6, <1>8
<1>15. tape' = tape \o rows BY <1>3
<1> HIDE DEF rows
<1>16. Orderly' /\ RowsOK' /\ CashOK' /\ SharesOK' /\ FlatOK'
  BY <1>3, <1>6, <1>11, <1>12, <1>13, <1>14, <1>15, AppendBooks
<1>17. DueOK'
  <2>1. \A o \in Contracts : o.expiry < day => held'[o] = 0
    <3>1. \A o \in Contracts \ {c} : held'[o] = held[o] BY <1>1, <1>3 DEF TypeOK
    <3>2. ~(c.expiry < day) BY <1>4, <1>5
    <3> QED BY <1>1, <3>1, <3>2 DEF DueOK
  <2> QED BY <1>3, <2>1 DEF DueOK, ChainsStay
<1> QED BY <1>16, <1>17

\* An assignment keeps what the live feed makes sure of.
LEMMA PollAssign ==
  ASSUME Inv, Followed, feed = "poll", NEW c \in Contracts, NEW q \in 1..MaxLots, Assign(c, q)
  PROVE PollOK'
<1>1. TypeOK /\ Orderly /\ RowsOK /\ SharesOK /\ PollOK BY DEF Inv, BooksOK
<1>2. PICK a, b \in Row :
        /\ AssignmentRows(c, q) = <<a, b>>
        /\ a.contract = c /\ b.contract = c /\ a.qty = q /\ b.qty = q
        /\ a.kind = "assignedA" /\ b.kind = "copy"
  BY <1>1, AssignmentPair
<1>3. /\ ChainsStay /\ phase = "settle" /\ phase' = phase /\ q <= held[c]
      /\ held' = [held EXCEPT ![c] = @ - q]
      /\ IF c.right = "P" THEN shares >= 0 ELSE shares <= 0
      /\ tape' = tape \o <<a, b>>
  <2>1. Histories = {} BY <1>1, OneFeed
  <2> QED BY <1>2, <2>1 DEF Assign, Report, ChainsStay
<1>4. /\ held \in [Contracts -> Nat] /\ q \in Nat /\ q >= 1 /\ c.right \in {"P", "C"}
      /\ tape \in Seq(Row)
  BY <1>1, KeysTyped, BoundsAreTyped DEF TypeOK
<1>5. /\ <<a, b>> \in Seq(Row) /\ <<a>> \in Seq(Row) /\ Len(<<a, b>>) = 2
      /\ <<a, b>>[1] = a /\ <<a, b>>[2] = b
      /\ \A j \in 1..Len(<<a, b>>) : <<a, b>>[j] \in {a, b}
      /\ tape \o <<a, b>> = (tape \o <<a>>) \o <<b>>
  BY ZenonT(40), <1>4, PairTyped
<1>6. \A o \in Contracts : /\ DeltaOf(o)[a] = (IF o = c THEN -q ELSE 0)
                           /\ DeltaOf(o)[b] = 0
  BY <1>2 DEF DeltaOf
<1>7. \A o \in Contracts : held[o] = Level(o, tape) \/ Lapsing(o) BY <1>1 DEF PollOK
<1>8. held[c] = Level(c, tape)
  <2>1. held[c] \in Nat BY <1>4
  <2>2. ~Lapsing(c) BY <1>3, <1>4, <2>1 DEF Lapsing
  <2> QED BY <1>7, <2>2
<1>9. \A o \in Contracts : Level(o, tape) >= 0 /\ Level(o, tape) \in Int
  <2>1. \A o \in Contracts : Level(o, tape) \in Int
    <3>1. \A o \in Contracts : ShortOf(o) \in Nat /\ Total(DeltaOf(o), tape) \in Int
      BY <1>1, ShortTypes, PendingTyped
    <3> QED BY <3>1 DEF Level
  <2>2. LevelsOK(SubSeq(tape, 1, Len(tape)))
    <3>1. Len(tape) \in 0..Len(tape) BY <1>4
    <3> QED BY <1>1, <3>1 DEF PollOK
  <2>3. SubSeq(tape, 1, Len(tape)) = tape
    <3> DEFINE x == SubSeq(tape, 1, Len(tape))
    <3>1. x \in Seq(Row) /\ Len(x) = Len(tape) /\ \A m \in 1..Len(tape) : x[m] = tape[m] BY <1>4
    <3> HIDE DEF x
    <3>2. x = tape BY <1>4, <3>1, SeqEqual
    <3> QED BY <3>2 DEF x
  <2> QED BY <2>1, <2>2, <2>3 DEF LevelsOK
<1> DEFINE mid == tape \o <<a>>
\* The option row.
<1>10. /\ mid \in Seq(Row) /\ \A i \in 0..Len(mid) : LevelsOK(SubSeq(mid, 1, i))
       /\ \A o \in Contracts : Level(o, mid) = Level(o, tape) + DeltaOf(o)[a] /\ Level(o, mid) >= 0
  <2>1. \A o \in Contracts : Level(o, tape) + DeltaOf(o)[a] >= 0
    <3> SUFFICES ASSUME NEW o \in Contracts PROVE Level(o, tape) + DeltaOf(o)[a] >= 0 OBVIOUS
    <3>1. CASE o = c
      <4>1. Level(o, tape) = held[c] /\ DeltaOf(o)[a] = -q /\ held[c] \in Nat BY <1>4, <1>6, <1>8, <3>1
      <4> QED BY <1>3, <1>4, <4>1
    <3>2. CASE o # c
      <4>1. DeltaOf(o)[a] = 0 BY <1>6, <3>2
      <4> QED BY <1>9, <4>1
    <3> QED BY <3>1, <3>2
  <2>2. \A x, o \in Contracts : x # o /\ KeyOf(x) = KeyOf(o) /\ DeltaOf(x)[a] > 0 => Level(o, tape) = 0
    <3>1. \A x \in Contracts : ~(DeltaOf(x)[a] > 0)
      <4>1. ~(-q > 0) BY <1>4
      <4> QED BY <1>6, <4>1
    <3> QED BY <3>1
  <2>3. \A i \in 0..Len(tape) : LevelsOK(SubSeq(tape, 1, i)) BY <1>1 DEF PollOK
  <2>4. /\ mid \in Seq(Row) /\ \A i \in 0..Len(mid) : LevelsOK(SubSeq(mid, 1, i))
        /\ \A o \in Contracts : Level(o, mid) = Level(o, tape) + DeltaOf(o)[a]
    BY <1>1, <1>4, <2>1, <2>2, <2>3, PollRow
  <2> QED BY <2>1, <2>4
\* The shares' row.
<1>11. /\ \A i \in 0..Len(tape') : LevelsOK(SubSeq(tape', 1, i))
       /\ \A o \in Contracts : Level(o, tape') = Level(o, tape) + DeltaOf(o)[a]
  <2>1. tape' = mid \o <<b>> BY <1>3, <1>5
  <2> HIDE DEF mid
  <2>2. \A o \in Contracts : Level(o, mid) \in Int BY SMTT(30), <1>6, <1>9, <1>10, <1>4
  <2>3. \A o \in Contracts : Level(o, mid) + DeltaOf(o)[b] >= 0 BY <1>6, <1>10, <2>2
  <2>4. \A x, o \in Contracts : x # o /\ KeyOf(x) = KeyOf(o) /\ DeltaOf(x)[b] > 0 => Level(o, mid) = 0
    BY <1>6
  <2>5. /\ \A i \in 0..Len(tape') : LevelsOK(SubSeq(tape', 1, i))
        /\ \A o \in Contracts : Level(o, tape') = Level(o, mid) + DeltaOf(o)[b]
    BY ZenonT(40), <1>1, <1>10, <2>1, <2>3, <2>4, PollRow
  <2>6. \A x \in Int : x + 0 = x OBVIOUS
  <2> QED BY <1>6, <1>10, <2>2, <2>5, <2>6
<1>12. ASSUME NEW o \in Contracts
       PROVE \/ held'[o] = Level(o, tape')
             \/ o.expiry = day /\ held'[o] = 0 /\ phase' # "trade"
  <2>1. Level(o, tape') = Level(o, tape) + DeltaOf(o)[a] BY <1>11
  <2>2. CASE o = c
    <3>1. held'[o] = held[c] - q /\ held[c] \in Nat BY <1>3, <1>4, <2>2
    <3>2. Level(o, tape') = held[c] + (-q) BY <1>6, <1>8, <2>1, <2>2
    <3> QED BY <1>4, <3>1, <3>2
  <2>3. CASE o # c
    <3>1. held'[o] = held[o] BY <1>3, <1>4, <2>3
    <3>2. Level(o, tape') = Level(o, tape) BY <1>6, <1>9, <2>1, <2>3
    <3> QED BY <1>3, <1>7, <3>1, <3>2 DEF Lapsing
  <2> QED BY <2>2, <2>3
<1> HIDE DEF mid
<1>13. /\ (\A i \in 0..Len(tape) : LevelsOK(SubSeq(tape, 1, i)))'
       /\ (\A o \in Contracts : held[o] = Level(o, tape) \/ Lapsing(o))'
  BY <1>3, <1>11, <1>12, LevelsStay
<1>14. /\ Len(tape') = Len(tape) + 2 /\ Len(tape) \in Nat
       /\ \A j \in 1..Len(tape) : j \in 1..Len(tape') /\ tape'[j] = tape[j]
       /\ \A j \in 1..2 : Len(tape) + j \in 1..Len(tape') /\ tape'[Len(tape) + j] = <<a, b>>[j]
       /\ \A j \in 1..Len(tape') :
            \/ j \in 1..Len(tape) /\ tape'[j] = tape[j]
            \/ j > Len(tape) /\ tape'[j] \in {a, b}
       /\ \A f \in [Row -> Int] : Total(f, tape') = Total(f, tape) + Total(f, <<a, b>>)
  <2>1. /\ Len(tape') = Len(tape) + Len(<<a, b>>) /\ Len(tape) \in Nat
        /\ \A j \in 1..Len(tape) : j \in 1..Len(tape') /\ tape'[j] = tape[j]
        /\ \A j \in 1..Len(<<a, b>>) : Len(tape) + j \in 1..Len(tape') /\ tape'[Len(tape) + j] = <<a, b>>[j]
        /\ \A j \in 1..Len(tape') :
             \/ j \in 1..Len(tape) /\ tape'[j] = tape[j]
             \/ \E m \in 1..Len(<<a, b>>) : j = Len(tape) + m /\ tape'[j] = <<a, b>>[m]
        /\ \A f \in [Row -> Int] : Total(f, tape') = Total(f, tape) + Total(f, <<a, b>>)
    BY <1>1, <1>3, <1>5, Appended
  <2>2. ASSUME NEW j \in 1..Len(tape'), ~(j \in 1..Len(tape) /\ tape'[j] = tape[j])
        PROVE j > Len(tape) /\ tape'[j] \in {a, b}
    <3>1. PICK m \in 1..Len(<<a, b>>) : j = Len(tape) + m /\ tape'[j] = <<a, b>>[m] BY <2>1, <2>2
    <3>2. tape'[j] \in {a, b} BY <1>5, <3>1
    <3>3. m \in 1..2 /\ Len(tape) \in Nat BY <1>5, <2>1
    <3>4. j > Len(tape) BY <3>1, <3>3
    <3> QED BY <3>2, <3>4
  <2> QED BY <1>5, <2>1, <2>2
<1>15. (\A i, j \in 1..Len(tape) : i < j /\ tape[i].kind \notin UserKinds => tape[j].kind \notin UserKinds)'
  <2> SUFFICES ASSUME NEW i \in 1..Len(tape'), NEW j \in 1..Len(tape'), i < j,
                      tape'[i].kind \notin UserKinds
               PROVE tape'[j].kind \notin UserKinds
    OBVIOUS
  <2>1. CASE j > Len(tape) /\ tape'[j] \in {a, b} BY <1>2, <2>1 DEF UserKinds
  <2>2. CASE j \in 1..Len(tape) /\ tape'[j] = tape[j]
    <3>1. i \in 1..Len(tape) /\ tape'[i] = tape[i] BY <1>14, <2>2
    <3> QED BY <1>1, <2>2, <3>1 DEF PollOK
  <2> QED BY <1>14, <2>1, <2>2
<1>16. \A right : Settling(right)' <=> Settling(right) \/ right = c.right
  <2> SUFFICES ASSUME NEW right
               PROVE (\E j \in 1..Len(tape') : tape'[j].kind \in {"assignedA", "copy"} /\ tape'[j].contract.right = right)
                     <=> Settling(right) \/ right = c.right
    BY DEF Settling
  <2>1. tape'[Len(tape) + 1] = a /\ Len(tape) + 1 \in 1..Len(tape') BY <1>5, <1>14
  <2>2. right = c.right =>
          \E j \in 1..Len(tape') : tape'[j].kind \in {"assignedA", "copy"} /\ tape'[j].contract.right = right
    BY <1>2, <2>1
  <2>3. Settling(right) =>
          \E j \in 1..Len(tape') : tape'[j].kind \in {"assignedA", "copy"} /\ tape'[j].contract.right = right
    BY <1>14 DEF Settling
  <2>4. ASSUME NEW j \in 1..Len(tape'), tape'[j].kind \in {"assignedA", "copy"}, tape'[j].contract.right = right
        PROVE Settling(right) \/ right = c.right
    BY <1>2, <1>14, <2>4 DEF Settling
  <2> QED BY <2>2, <2>3, <2>4
<1> DEFINE long == Total(LongOf, chains)
           cover == Total(CoverOf, chains)
           sold == Total(StockOf("S"), tape)
           bought == Total(StockOf("B"), tape)
           puts == Total(DueOf("P"), tape)
           calls == Total(DueOf("C"), tape)
<1>17. /\ long \in Nat /\ cover \in Nat /\ sold \in Nat /\ bought \in Nat /\ puts \in Nat /\ calls \in Nat
       /\ sold <= long /\ bought <= cover
       /\ shares = (long - sold + puts) - (cover - bought + calls)
  BY <1>1, PendingTyped, ChainTotals DEF SharesOK
<1>18. /\ long = 0 \/ cover = 0
       /\ Settling("P") => bought = cover /\ ~Settling("C")
       /\ Settling("C") => sold = long
       /\ Settling("P") => puts > 0
       /\ Settling("C") => calls > 0
  BY <1>1, <1>3 DEF PollOK
<1>19. \A right : ~Settling(right) => Total(DueOf(right), tape) = 0
  <2> SUFFICES ASSUME NEW right, ~Settling(right) PROVE Total(DueOf(right), tape) = 0 OBVIOUS
  <2>1. \A j \in 1..Len(tape) : tape[j].kind # "delivered"
    BY <1>1 DEF RowsOK, RowOK, UserKinds
  <2>2. \A j \in 1..Len(tape) : DueOf(right)[tape[j]] = 0
    BY <1>1, <2>1, TapeTotals DEF DueOf, Settling
  <2> QED BY <1>1, <2>2, RowSums, TapeTotals
<1>20. (~Settling("P") => puts = 0) /\ (~Settling("C") => calls = 0) BY <1>19
<1>21. /\ Total(StockOf("S"), tape') = sold /\ Total(StockOf("B"), tape') = bought
  <2>1. ASSUME NEW side PROVE Total(StockOf(side), tape') = Total(StockOf(side), tape)
    <3>1. StockOf(side)[a] = 0 /\ StockOf(side)[b] = 0 BY <1>2 DEF StockOf
    <3>2. Total(StockOf(side), <<a, b>>) = 0 + 0 BY <3>1, RowSums, SmallTotals
    <3>3. Total(StockOf(side), tape) \in Int BY <1>1, RowSums, TapeTotals
    <3> QED BY <1>14, <3>2, <3>3, RowSums
  <2> QED BY <2>1
<1>22. ASSUME NEW right, Settling(right)' PROVE Total(DueOf(right), tape') > 0
  <2>1. /\ DueOf(right)[a] = (IF right = c.right THEN q ELSE 0) /\ DueOf(right)[b] = 0
    BY <1>2 DEF DueOf
  <2>2. Total(DueOf(right), <<a, b>>) = DueOf(right)[a] + DueOf(right)[b] BY RowSums, SmallTotals
  <2>3. Total(DueOf(right), tape') = Total(DueOf(right), tape) + Total(DueOf(right), <<a, b>>)
    BY <1>14, RowSums
  <2>4. Total(DueOf(right), tape) \in Nat BY <1>1, PendingTyped
  <2>5. CASE right = c.right BY <1>4, <2>1, <2>2, <2>3, <2>4, <2>5
  <2>6. CASE right # c.right
    <3>1. Settling(right) BY <1>16, <1>22, <2>6
    <3>2. Total(DueOf(right), tape) > 0 BY <1>1, <1>3, <3>1 DEF PollOK
    <3> QED BY <2>1, <2>2, <2>3, <2>4, <2>6, <3>2
  <2> QED BY <2>5, <2>6
<1> HIDE DEF long, cover, sold, bought, puts, calls
<1>23. /\ Settling("P")' => bought = cover /\ ~Settling("C")'
       /\ Settling("C")' => sold = long
  <2>1. CASE c.right = "P"
    <3>1. ~Settling("C")
      <4> SUFFICES ASSUME Settling("C") PROVE FALSE OBVIOUS
      <4>1. sold = long /\ ~Settling("P") /\ calls > 0 /\ puts = 0 BY <1>18, <1>20
      <4>2. shares >= 0 BY <1>3, <2>1
      <4> QED BY <1>17, <4>1, <4>2
    <3>2. bought = cover
      <4>1. CASE Settling("P") BY <1>18, <4>1
      <4>2. CASE ~Settling("P")
        <5>1. puts = 0 /\ calls = 0 /\ shares >= 0 BY <1>3, <1>20, <2>1, <3>1, <4>2
        <5> QED BY <1>17, <1>18, <5>1
      <4> QED BY <4>1, <4>2
    <3>3. ~Settling("C")' BY <1>16, <2>1, <3>1
    <3> QED BY <3>2, <3>3
  <2>2. CASE c.right = "C"
    <3>1. ~Settling("P")
      <4> SUFFICES ASSUME Settling("P") PROVE FALSE OBVIOUS
      <4>1. bought = cover /\ ~Settling("C") /\ puts > 0 /\ calls = 0 BY <1>18, <1>20
      <4>2. shares <= 0 BY <1>3, <2>2
      <4> QED BY <1>17, <4>1, <4>2
    <3>2. sold = long
      <4>1. CASE Settling("C") BY <1>18, <4>1
      <4>2. CASE ~Settling("C")
        <5>1. puts = 0 /\ calls = 0 /\ shares <= 0 BY <1>3, <1>20, <2>2, <3>1, <4>2
        <5> QED BY <1>17, <1>18, <5>1
      <4> QED BY <4>1, <4>2
    <3>3. ~Settling("P")' BY <1>16, <2>2, <3>1
    <3> QED BY <3>2, <3>3
  <2> QED BY <1>4, <2>1, <2>2
<1>24. /\ (Total(LongOf, chains) = 0 \/ Total(CoverOf, chains) = 0)'
       /\ (Settling("P") => Total(StockOf("B"), tape) = Total(CoverOf, chains) /\ ~Settling("C"))'
       /\ (Settling("C") => Total(StockOf("S"), tape) = Total(LongOf, chains))'
  BY <1>3, <1>18, <1>21, <1>23 DEF ChainsStay, long, cover
<1>25. (\A right : Settling(right) => Total(DueOf(right), tape) > 0)' BY <1>22
<1> QED BY <1>13, <1>15, <1>24, <1>25 DEF PollOK

(***************************************************************************)
(* Flex's rows.                                                            *)
(***************************************************************************)
LEMMA AppendedTotals ==
  ASSUME TypeOK, NEW rows \in Seq(Row), tape' = tape \o rows
  PROVE \A o : /\ Buys(o)' = Buys(o) + Total(LotsOf("buy", o), rows)
               /\ Sells(o)' = Sells(o) + Total(LotsOf("sell", o), rows)
               /\ Buys(o) \in Nat /\ Sells(o) \in Nat
<1>1. \A f \in [Row -> Int] : Total(f, tape') = Total(f, tape) + Total(f, rows) BY Appended
<1>2. \A o : Buys(o) \in Nat /\ Sells(o) \in Nat BY PendingTyped
<1>3. ASSUME NEW o PROVE /\ Buys(o)' = Buys(o) + Total(LotsOf("buy", o), rows)
                         /\ Sells(o)' = Sells(o) + Total(LotsOf("sell", o), rows)
  <2>1. /\ Total(LotsOf("buy", o), tape') = Total(LotsOf("buy", o), tape) + Total(LotsOf("buy", o), rows)
        /\ Total(LotsOf("sell", o), tape') = Total(LotsOf("sell", o), tape) + Total(LotsOf("sell", o), rows)
    BY <1>1, RowSums
  <2> QED BY <2>1 DEF Buys, Sells
<1> QED BY <1>2, <1>3

\* A trade keeps what Flex makes sure of.
LEMMA FlexTrade ==
  ASSUME Inv, feed # "poll", phase = "trade", ChainsStay, phase' = phase, NEW r \in Row,
         tape' = tape \o <<r>>, r.kind \in UserKinds,
         \A o \in Contracts :
           held'[o] = held[o] - LotsOf("buy", o)[r] + LotsOf("sell", o)[r],
         r.kind = "buy" =>
           /\ r.qty <= held[r.contract]
           /\ \A j \in 1..Len(tape) : tape[j].kind = "sell" => KeyOf(tape[j].contract) # KeyOf(r.contract),
         r.kind = "sell" =>
           \A o \in Contracts \ {r.contract} : KeyOf(o) = KeyOf(r.contract) => held[o] = 0
  PROVE FlexOK'
<1> DEFINE x == r.contract
           b(o) == LotsOf("buy", o)[r]
           s(o) == LotsOf("sell", o)[r]
<1>1. TypeOK /\ Orderly /\ RowsOK /\ FlexOK BY DEF Inv, BooksOK
<1>2. x \in Contracts /\ r.qty \in Nat BY RowTyped
<1>3. <<r>> \in Seq(Row) /\ Len(<<r>>) = 1 /\ <<r>>[1] = r OBVIOUS
<1>4. \A o \in Contracts : /\ Buys(o)' = Buys(o) + b(o) /\ Sells(o)' = Sells(o) + s(o)
                           /\ Buys(o) \in Nat /\ Sells(o) \in Nat
  <2>1. \A o : /\ Buys(o)' = Buys(o) + Total(LotsOf("buy", o), <<r>>)
               /\ Sells(o)' = Sells(o) + Total(LotsOf("sell", o), <<r>>)
               /\ Buys(o) \in Nat /\ Sells(o) \in Nat
    BY <1>1, <1>3, AppendedTotals
  <2>2. \A o : Total(LotsOf("buy", o), <<r>>) = b(o) /\ Total(LotsOf("sell", o), <<r>>) = s(o)
    BY RowSums, SmallTotals
  <2> QED BY <2>1, <2>2
<1>5. \A o \in Contracts : /\ b(o) = IF r.kind = "buy" /\ x = o THEN r.qty ELSE 0
                           /\ s(o) = IF r.kind = "sell" /\ x = o THEN r.qty ELSE 0
                           /\ b(o) \in Nat /\ s(o) \in Nat
  BY <1>2 DEF LotsOf
<1>6. \A o \in Contracts : held'[o] = held[o] - b(o) + s(o) OBVIOUS
<1> HIDE DEF b, s
<1>7. \A j \in 1..Len(tape) : tape[j].kind \in UserKinds BY <1>1 DEF RowsOK, RowOK
<1>8. \A o \in Contracts : /\ ShortOf(o)' = ShortOf(o) /\ ShortOf(o) \in Nat
                           /\ Buys(o) <= ShortOf(o) /\ held[o] = ShortOf(o) - Buys(o) + Sells(o)
  <2>1. \A o \in Contracts : ShortOf(o) \in Nat /\ ShortOf(o)' = ShortOf(o) BY <1>1, ShortTypes, ShortsStay
  <2>2. \A o \in Contracts : ~Lapsing(o) /\ ~Comes("assigned", o)
    BY <1>7 DEF Lapsing, Comes, UserKinds
  <2> QED BY <1>1, <2>1, <2>2 DEF FlexOK
<1>9. ASSUME r.kind = "buy", NEW o \in Contracts, KeyOf(o) = KeyOf(x)
      PROVE Sells(o) = 0
  <2>1. \A j \in 1..Len(tape) : tape[j].kind = "sell" => tape[j].contract # o BY <1>9
  <2>2. \A j \in 1..Len(tape) : LotsOf("sell", o)[tape[j]] = 0 BY <1>1, <2>1, TapeTotals DEF LotsOf
  <2> QED BY <1>1, <2>2, RowSums, TapeTotals DEF Sells
<1>10. ASSUME r.kind = "sell", NEW o \in Contracts, o # x, KeyOf(o) = KeyOf(x)
       PROVE ShortOf(o) = Buys(o) /\ Sells(o) = 0
  <2>1. held[o] = 0 BY <1>10
  <2> QED BY <1>4, <1>8, <2>1
<1> HIDE DEF x
<1>11. (\A o \in Contracts : Buys(o) <= ShortOf(o))'
  <2> SUFFICES ASSUME NEW o \in Contracts PROVE Buys(o)' <= ShortOf(o)' OBVIOUS
  <2>1. CASE b(o) = 0 BY <1>4, <1>8, <2>1
  <2>2. CASE b(o) # 0
    <3>1. r.kind = "buy" /\ o = x /\ b(o) = r.qty BY <1>5, <2>2
    <3>2. Sells(o) = 0 /\ r.qty <= held[o] BY <1>9, <3>1 DEF x
    <3>3. held[o] = ShortOf(o) - Buys(o) BY <1>4, <1>8, <3>2
    <3> QED BY <1>2, <1>4, <1>8, <3>1, <3>2, <3>3
  <2> QED BY <2>1, <2>2
<1>12. (\A o \in Contracts :
          \/ held[o] = ShortOf(o) - Buys(o) + Sells(o)
          \/ Lapsing(o)
          \/ held[o] = 0 /\ Comes("assigned", o))'
  <2> SUFFICES ASSUME NEW o \in Contracts PROVE held'[o] = ShortOf(o)' - Buys(o)' + Sells(o)'
    OBVIOUS
  <2>1. \A h, n, p, q, y \in Int : n - p + q - h + y = n - (p + h) + (q + y) OBVIOUS
  <2>4. held'[o] = held[o] - b(o) + s(o) BY <1>6
  <2>5. held[o] = ShortOf(o) - Buys(o) + Sells(o) BY <1>8
  <2>2. held'[o] = ShortOf(o) - Buys(o) + Sells(o) - b(o) + s(o)
    <3>1. \A h, w, n, p, q, y, z \in Int : h = w - y + z /\ w = n - p + q => h = n - p + q - y + z OBVIOUS
    <3>2. /\ held[o] \in Int /\ ShortOf(o) \in Int /\ Buys(o) \in Int /\ Sells(o) \in Int
          /\ b(o) \in Int /\ s(o) \in Int
      BY <1>4, <1>5, <1>8
    <3>3. held'[o] \in Int BY <2>4, <3>2
    <3> QED BY <2>4, <2>5, <3>1, <3>2, <3>3
  <2>3. held'[o] = ShortOf(o) - (Buys(o) + b(o)) + (Sells(o) + s(o)) BY <1>4, <1>5, <1>8, <2>1, <2>2
  <2> QED BY <1>4, <1>8, <2>3
<1>13. (\A c, o \in Contracts : c # o /\ KeyOf(c) = KeyOf(o) /\ Sells(c) > 0 =>
          ShortOf(o) = Buys(o) /\ Sells(o) = 0)'
  <2> SUFFICES ASSUME NEW c \in Contracts, NEW o \in Contracts, c # o, KeyOf(c) = KeyOf(o), Sells(c)' > 0
               PROVE ShortOf(o)' = Buys(o)' /\ Sells(o)' = 0
    OBVIOUS
  <2>1. Sells(c) > 0 => ShortOf(o) = Buys(o) /\ Sells(o) = 0 BY <1>1 DEF FlexOK
  <2>2. CASE KeyOf(c) # KeyOf(x) \/ r.kind \notin {"sell", "buy"}
    <3>1. b(c) = 0 /\ s(c) = 0 /\ b(o) = 0 /\ s(o) = 0 BY <1>5, <2>2
    <3>2. Sells(c) > 0 BY <1>4, <3>1
    <3> QED BY <1>4, <1>8, <2>1, <3>1, <3>2
  <2>3. CASE KeyOf(c) = KeyOf(x) /\ r.kind = "buy"
    <3>1. Sells(c) = 0 /\ s(c) = 0 BY <1>5, <1>9, <2>3
    <3> QED BY <1>4, <3>1
  <2>4. CASE KeyOf(c) = KeyOf(x) /\ r.kind = "sell"
    <3>1. c = x
      <4> SUFFICES ASSUME c # x PROVE FALSE OBVIOUS
      <4>1. Sells(c) = 0 /\ s(c) = 0 BY <1>5, <1>10, <2>4
      <4> QED BY <1>4, <4>1
    <3>2. ShortOf(o) = Buys(o) /\ Sells(o) = 0 BY <1>10, <2>4, <3>1
    <3>3. b(o) = 0 /\ s(o) = 0 BY <1>5, <2>4, <3>1
    <3> QED BY <1>4, <1>8, <3>2, <3>3
  <2> QED BY <2>2, <2>3, <2>4
<1>14. ASSUME NEW j \in 1..Len(tape') PROVE tape'[j].kind \in UserKinds
  <2>1. \/ j \in 1..Len(tape) /\ tape'[j] = tape[j]
        \/ \E m \in 1..Len(<<r>>) : j = Len(tape) + m /\ tape'[j] = <<r>>[m]
    BY <1>1, <1>3, Appended
  <2> QED BY <1>3, <1>7, <2>1
<1>15. (\A i, j \in 1..Len(tape) : tape[i].kind \in SettleKinds /\ tape[j].kind \in {"sell", "buy"} =>
          tape[i].contract.right # tape[j].contract.right)'
  BY <1>14 DEF SettleKinds, UserKinds
<1>16. AssignedOK' /\ ExpiryOK' /\ DeliveryOK'
  BY <1>14 DEF AssignedOK, ExpiryOK, DeliveryOK, UserKinds, ExpiryKinds
<1> QED BY <1>11, <1>12, <1>13, <1>15, <1>16 DEF FlexOK

\* AssignedOK in the next state, contract by contract.
LEMMA AssignedNext ==
  ASSUME \A j \in 1..Len(tape') : tape'[j].kind = "assigned" => \A x : x = tape'[j].contract =>
           /\ ShortOf(x)' = tape'[j].qty /\ held'[x] = 0 /\ Comes("delivered", x)'
           /\ \A m \in 1..Len(tape') : m # j /\ tape'[m].contract = x =>
                tape'[m].kind \in {"delivered", "stock"}
  PROVE AssignedOK'
BY DEF AssignedOK, ShortOf, Comes, Live, KeyOf

\* ExpiryOK in the next state, contract by contract.
LEMMA ExpiryNext ==
  ASSUME \A j \in 1..Len(tape') : tape'[j].kind \in ExpiryKinds => \A x : x = tape'[j].contract =>
           /\ Lapsing(x)' /\ ShortOf(x)' \in {0, tape'[j].qty}
           /\ \A o \in Contracts \ {x} : KeyOf(o) = KeyOf(x) => ShortOf(o)' = 0
  PROVE ExpiryOK'
BY ZenonT(40) DEF ExpiryOK, ShortOf, Live, KeyOf, Lapsing

\* An assignment or an expiry keeps what Flex makes sure of.
LEMMA FlexSettle ==
  ASSUME Inv, Followed, feed # "poll", phase = "settle", ChainsStay, phase' = phase,
         NEW c \in Contracts, held[c] > 0, ClearToSettle(c), held' = [held EXCEPT ![c] = 0],
         NEW rows \in Seq(Row), tape' = tape \o rows,
         \A j \in 1..Len(rows) : rows[j].contract = c /\ rows[j].qty = held[c],
         \/ c.expiry = day /\ \A j \in 1..Len(rows) : rows[j].kind \in ExpiryKinds
         \/ Len(rows) = 2 /\ rows[1].kind = "assigned" /\ rows[2].kind = "delivered"
  PROVE FlexOK'
<1>1. TypeOK /\ Orderly /\ RowsOK /\ FlexOK BY DEF Inv, BooksOK
<1>2. held \in [Contracts -> Nat] BY <1>1, BoundsAreTyped DEF TypeOK
<1>3. held'[c] = 0 /\ \A o \in Contracts \ {c} : held'[o] = held[o] BY <1>2
<1>4. /\ Len(tape') = Len(tape) + Len(rows) /\ Len(tape) \in Nat /\ Len(rows) \in Nat
      /\ \A j \in 1..Len(tape) : j \in 1..Len(tape') /\ tape'[j] = tape[j]
      /\ \A j \in 1..Len(rows) : Len(tape) + j \in 1..Len(tape') /\ tape'[Len(tape) + j] = rows[j]
      /\ \A j \in 1..Len(tape') :
           \/ j \in 1..Len(tape) /\ tape'[j] = tape[j]
           \/ \E m \in 1..Len(rows) : j = Len(tape) + m /\ tape'[j] = rows[m]
  BY <1>1, Appended
\* An old row is kept; a new one is about c.
<1>5. ASSUME NEW j \in 1..Len(tape')
      PROVE \/ j \in 1..Len(tape) /\ tape'[j] = tape[j]
            \/ /\ tape'[j].contract = c /\ tape'[j].qty = held[c]
               /\ tape'[j].kind \in ExpiryKinds \cup {"assigned", "delivered"}
               /\ tape'[j].kind \in ExpiryKinds => c.expiry = day
               /\ tape'[j].kind \in {"assigned", "delivered"} => Len(rows) = 2 /\ rows[1].kind = "assigned" /\ rows[2].kind = "delivered"
               /\ tape'[j].kind = "assigned" => j = Len(tape) + 1
               /\ j > Len(tape)
  <2>1. CASE j \in 1..Len(tape) /\ tape'[j] = tape[j] BY <2>1
  <2>2. CASE \E m \in 1..Len(rows) : j = Len(tape) + m /\ tape'[j] = rows[m]
    <3>1. PICK m \in 1..Len(rows) : j = Len(tape) + m /\ tape'[j] = rows[m] BY <2>2
    <3>2. CASE c.expiry = day /\ rows[m].kind \in ExpiryKinds BY <1>4, <3>1, <3>2 DEF ExpiryKinds
    <3>3. CASE Len(rows) = 2 /\ rows[1].kind = "assigned" /\ rows[2].kind = "delivered"
      <4>1. m = 1 \/ m = 2 BY <3>3
      <4>2. j > Len(tape) BY <1>4, <3>1
      <4>3. CASE m = 1 BY <3>1, <3>3, <4>2, <4>3 DEF ExpiryKinds
      <4>4. CASE m = 2 BY <3>1, <3>3, <4>2, <4>4 DEF ExpiryKinds
      <4> QED BY <4>1, <4>3, <4>4
    <3> QED BY <3>1, <3>2, <3>3
  <2> QED BY <1>4, <2>1, <2>2
<1>6. \A j \in 1..Len(tape) : tape[j].kind \in {"sell", "buy"} => tape[j].contract.right # c.right
  <2>1. Histories = {} BY <1>1, OneFeed
  <2> QED BY <2>1 DEF ClearToSettle
<1>7. \A o \in Contracts : o.right = c.right => Buys(o) = 0 /\ Sells(o) = 0
  <2> SUFFICES ASSUME NEW o \in Contracts, o.right = c.right PROVE Buys(o) = 0 /\ Sells(o) = 0 OBVIOUS
  <2>1. \A j \in 1..Len(tape) : LotsOf("buy", o)[tape[j]] = 0 /\ LotsOf("sell", o)[tape[j]] = 0
    BY <1>1, <1>6, TapeTotals DEF LotsOf
  <2> QED BY <1>1, <2>1, RowSums, TapeTotals DEF Buys, Sells
<1>8. /\ \A o \in Contracts : ShortOf(o)' = ShortOf(o) /\ ShortOf(o) \in Nat
      /\ \A o \in Contracts : Buys(o)' = Buys(o) /\ Sells(o)' = Sells(o)
  <2>1. \A o \in Contracts : ShortOf(o) \in Nat /\ ShortOf(o)' = ShortOf(o) BY <1>1, ShortTypes, ShortsStay
  <2>2. ASSUME NEW o \in Contracts PROVE Buys(o)' = Buys(o) /\ Sells(o)' = Sells(o)
    <3>1. \A j \in 1..Len(rows) : LotsOf("buy", o)[rows[j]] = 0 /\ LotsOf("sell", o)[rows[j]] = 0
      <4>1. ASSUME NEW j \in 1..Len(rows) PROVE rows[j].kind \notin {"sell", "buy"} /\ rows[j] \in Row
        <5>3. rows[j] \in Row OBVIOUS
        <5>1. CASE rows[j].kind \in ExpiryKinds BY <5>1, <5>3 DEF ExpiryKinds
        <5>2. CASE Len(rows) = 2 /\ rows[1].kind = "assigned" /\ rows[2].kind = "delivered"
          <6>1. j = 1 \/ j = 2 BY <5>2
          <6>2. rows[j].kind \in {"assigned", "delivered"} BY <5>2, <6>1
          <6> QED BY <5>3, <6>2
        <5> QED BY <5>1, <5>2
      <4> QED BY <4>1 DEF LotsOf
    <3>4. \A f \in [Row -> Int] : (\A j \in 1..Len(rows) : f[rows[j]] = 0) => Total(f, rows) = 0 BY TotalZero
    <3>2. Total(LotsOf("buy", o), rows) = 0 /\ Total(LotsOf("sell", o), rows) = 0 BY <3>1, <3>4, RowSums
    <3>3. /\ Buys(o)' = Buys(o) + 0 /\ Sells(o)' = Sells(o) + 0 /\ Buys(o) \in Nat /\ Sells(o) \in Nat
      BY <1>1, <3>2, AppendedTotals
    <3> QED BY <3>3
  <2> QED BY <2>1, <2>2
<1>9. \A kind, o : Comes(kind, o) => Comes(kind, o)'
  <2> SUFFICES ASSUME NEW kind, NEW o, Comes(kind, o)
               PROVE \E j \in 1..Len(tape') : tape'[j].kind = kind /\ tape'[j].contract = o
    BY DEF Comes
  <2>1. PICK j \in 1..Len(tape) : tape[j].kind = kind /\ tape[j].contract = o BY DEF Comes
  <2> QED BY <1>4, <2>1
<1>10. \A o \in Contracts \ {c} : Lapsing(o) => Lapsing(o)'
  BY <1>3 DEF Lapsing, ChainsStay
<1>11. \A j \in 1..Len(tape) : tape[j].contract = c => tape[j].kind \notin ExpiryKinds \cup {"assigned"}
  <2> SUFFICES ASSUME NEW j \in 1..Len(tape), tape[j].contract = c, tape[j].kind \in ExpiryKinds \cup {"assigned"}
               PROVE held[c] = 0
    BY <1>2
  <2>1. CASE tape[j].kind = "assigned" BY <1>1, <2>1 DEF FlexOK, AssignedOK
  <2>2. CASE tape[j].kind \in ExpiryKinds BY <1>1, <2>2 DEF FlexOK, ExpiryOK, Lapsing
  <2> QED BY <2>1, <2>2
<1>12. ShortOf(c) = held[c]
  <2>1. ~Lapsing(c) BY <1>2 DEF Lapsing
  <2>2. held[c] = ShortOf(c) - Buys(c) + Sells(c) BY <1>1, <1>2, <2>1 DEF FlexOK
  <2>3. Buys(c) = 0 /\ Sells(c) = 0 BY <1>7
  <2> QED BY <1>8, <2>2, <2>3
<1>13. /\ active[KeyOf(c)] # 0
       /\ \A o \in Contracts \ {c} : KeyOf(o) = KeyOf(c) => ShortOf(o) = 0
  BY <1>1, <1>2, <1>12, ShortIsActive
<1>14. (\A o \in Contracts : Buys(o) <= ShortOf(o))' BY <1>1, <1>8 DEF FlexOK
<1>15. ASSUME Len(rows) = 2, rows[1].kind = "assigned", rows[2].kind = "delivered"
       PROVE Comes("assigned", c)' /\ Comes("delivered", c)'
  <2>1. /\ Len(tape) + 1 \in 1..Len(tape') /\ tape'[Len(tape) + 1] = rows[1] /\ rows[1].contract = c
        /\ Len(tape) + 2 \in 1..Len(tape') /\ tape'[Len(tape) + 2] = rows[2] /\ rows[2].contract = c
    BY <1>4, <1>15
  <2>2. \E j \in 1..Len(tape') : tape'[j].kind = "assigned" /\ tape'[j].contract = c BY <1>15, <2>1
  <2>3. \E j \in 1..Len(tape') : tape'[j].kind = "delivered" /\ tape'[j].contract = c BY <1>15, <2>1
  <2> QED BY <2>2, <2>3 DEF Comes
<1>16. (\A o \in Contracts :
          \/ held[o] = ShortOf(o) - Buys(o) + Sells(o)
          \/ Lapsing(o)
          \/ held[o] = 0 /\ Comes("assigned", o))'
  <2> SUFFICES ASSUME NEW o \in Contracts
               PROVE \/ held'[o] = ShortOf(o)' - Buys(o)' + Sells(o)'
                     \/ Lapsing(o)'
                     \/ held'[o] = 0 /\ Comes("assigned", o)'
    OBVIOUS
  <2>1. CASE o # c
    <3>1. \/ held[o] = ShortOf(o) - Buys(o) + Sells(o)
          \/ Lapsing(o)
          \/ held[o] = 0 /\ Comes("assigned", o)
      BY <1>1 DEF FlexOK
    <3> QED BY <1>3, <1>8, <1>9, <1>10, <2>1, <3>1
  <2>2. CASE o = c
    <3>1. CASE c.expiry = day
      <4>1. Lapsing(c)' BY <1>3, <3>1 DEF Lapsing, ChainsStay
      <4> QED BY <2>2, <4>1
    <3>2. CASE Len(rows) = 2 /\ rows[1].kind = "assigned" /\ rows[2].kind = "delivered"
      BY <1>3, <1>15, <2>2, <3>2
    <3> QED BY <3>1, <3>2
  <2> QED BY <2>1, <2>2
<1>17. (\A x, o \in Contracts : x # o /\ KeyOf(x) = KeyOf(o) /\ Sells(x) > 0 =>
          ShortOf(o) = Buys(o) /\ Sells(o) = 0)'
  BY <1>1, <1>8 DEF FlexOK
<1>18. (\A i, j \in 1..Len(tape) : tape[i].kind \in SettleKinds /\ tape[j].kind \in {"sell", "buy"} =>
          tape[i].contract.right # tape[j].contract.right)'
  <2> SUFFICES ASSUME NEW i \in 1..Len(tape'), NEW j \in 1..Len(tape'), tape'[i].kind \in SettleKinds,
                      tape'[j].kind \in {"sell", "buy"}
               PROVE tape'[i].contract.right # tape'[j].contract.right
    OBVIOUS
  <2>1. j \in 1..Len(tape) /\ tape'[j] = tape[j] BY <1>5 DEF ExpiryKinds
  <2>2. CASE i \in 1..Len(tape) /\ tape'[i] = tape[i] BY <1>1, <2>1, <2>2 DEF FlexOK
  <2>3. CASE tape'[i].contract = c BY <1>6, <2>1, <2>3
  <2> QED BY <1>5, <2>2, <2>3
<1>19. AssignedOK'
  <2> SUFFICES ASSUME NEW j \in 1..Len(tape'), tape'[j].kind = "assigned", NEW x, x = tape'[j].contract
               PROVE /\ ShortOf(x)' = tape'[j].qty /\ held'[x] = 0 /\ Comes("delivered", x)'
                     /\ \A m \in 1..Len(tape') : m # j /\ tape'[m].contract = x =>
                          tape'[m].kind \in {"delivered", "stock"}
    BY AssignedNext
  <2>1. CASE j \in 1..Len(tape) /\ tape'[j] = tape[j]
    <3>1. x # c BY <1>11, <2>1
    <3>2. x \in Contracts BY <1>1, <2>1, TapeTotals, RowTyped
    <3>3. /\ ShortOf(x) = tape[j].qty /\ held[x] = 0 /\ Comes("delivered", x)
          /\ \A m \in 1..Len(tape) : m # j /\ tape[m].contract = x => tape[m].kind \in {"delivered", "stock"}
      BY <1>1, <2>1 DEF FlexOK, AssignedOK
    <3>4. ShortOf(x)' = tape'[j].qty /\ held'[x] = 0 /\ Comes("delivered", x)'
      BY <1>3, <1>8, <1>9, <2>1, <3>1, <3>2, <3>3
    <3>5. ASSUME NEW m \in 1..Len(tape'), m # j, tape'[m].contract = x
          PROVE tape'[m].kind \in {"delivered", "stock"}
      <4>1. m \in 1..Len(tape) /\ tape'[m] = tape[m] BY <1>5, <3>1, <3>5
      <4> QED BY <3>3, <3>5, <4>1
    <3> QED BY <3>4, <3>5
  <2>2. CASE ~(j \in 1..Len(tape) /\ tape'[j] = tape[j])
    <3>1. /\ x = c /\ tape'[j].qty = held[c] /\ j = Len(tape) + 1
          /\ Len(rows) = 2 /\ rows[1].kind = "assigned" /\ rows[2].kind = "delivered"
      BY <1>5, <2>2
    <3>2. ShortOf(x)' = tape'[j].qty /\ held'[x] = 0 /\ Comes("delivered", x)'
      BY <1>3, <1>8, <1>12, <1>15, <3>1
    <3>3. ASSUME NEW m \in 1..Len(tape'), m # j, tape'[m].contract = x
          PROVE tape'[m].kind \in {"delivered", "stock"}
      <4>1. CASE m \in 1..Len(tape) /\ tape'[m] = tape[m]
        <5>1. tape[m].contract = c /\ RowOK(tape[m]) /\ tape[m] \in Row
          BY <1>1, <3>1, <3>3, <4>1, TapeTotals DEF RowsOK
        <5>2. tape[m].kind \notin {"sell", "buy"} BY <1>6, <4>1, <5>1
        <5>3. tape[m].kind \notin ExpiryKinds \cup {"assigned"} BY <1>11, <4>1, <5>1
        <5>4. tape[m].kind \in Kinds /\ tape[m].kind \notin {"assignedA", "copy"}
          BY <5>1, RowTyped DEF RowOK
        <5> QED BY <4>1, <5>2, <5>3, <5>4 DEF Kinds, ExpiryKinds
      <4>2. CASE ~(m \in 1..Len(tape) /\ tape'[m] = tape[m])
        <5>1. /\ tape'[m].kind \in ExpiryKinds \cup {"assigned", "delivered"}
              /\ tape'[m].kind # "assigned"
          BY <1>5, <3>1, <3>3, <4>2
        <5>2. \E n \in 1..Len(rows) : m = Len(tape) + n /\ tape'[m] = rows[n] BY <1>4, <4>2
        <5>3. tape'[m].kind \in {"assigned", "delivered"}
          <6>1. PICK n \in 1..Len(rows) : m = Len(tape) + n /\ tape'[m] = rows[n] BY <5>2
          <6>2. n = 1 \/ n = 2 BY <3>1
          <6> QED BY <3>1, <6>1, <6>2
        <5> QED BY <5>1, <5>3
      <4> QED BY <4>1, <4>2
    <3> QED BY <3>2, <3>3
  <2> QED BY <2>1, <2>2
<1>20. ExpiryOK'
  <2> SUFFICES ASSUME NEW j \in 1..Len(tape'), tape'[j].kind \in ExpiryKinds, NEW x, x = tape'[j].contract
               PROVE /\ Lapsing(x)' /\ ShortOf(x)' \in {0, tape'[j].qty}
                     /\ \A o \in Contracts \ {x} : KeyOf(o) = KeyOf(x) => ShortOf(o)' = 0
    BY ExpiryNext
  <2>1. CASE j \in 1..Len(tape) /\ tape'[j] = tape[j]
    <3>1. x # c BY <1>11, <2>1
    <3>2. x \in Contracts BY <1>1, <2>1, TapeTotals, RowTyped
    <3>3. /\ Lapsing(x) /\ ShortOf(x) \in {0, tape[j].qty}
          /\ \A o \in Contracts \ {x} : KeyOf(o) = KeyOf(x) => ShortOf(o) = 0
      BY <1>1, <2>1 DEF FlexOK, ExpiryOK
    <3> QED BY <1>8, <1>10, <2>1, <3>1, <3>2, <3>3
  <2>2. CASE ~(j \in 1..Len(tape) /\ tape'[j] = tape[j])
    <3>1. x = c /\ tape'[j].qty = held[c] /\ c.expiry = day BY <1>5, <2>2
    <3>2. Lapsing(c)' BY <1>3, <3>1 DEF Lapsing, ChainsStay
    <3> QED BY <1>8, <1>12, <1>13, <3>1, <3>2
  <2> QED BY <2>1, <2>2
<1>21. DeliveryOK'
  <2> SUFFICES ASSUME NEW j \in 1..Len(tape'), tape'[j].kind = "delivered", NEW x, x = tape'[j].contract
               PROVE /\ active'[KeyOf(x)] # 0
                     /\ Comes("assigned", x)' \/ chains'[active'[KeyOf(x)]].opt_pos = 0
    BY DEF DeliveryOK, Comes, KeyOf
  <2>1. CASE j \in 1..Len(tape) /\ tape'[j] = tape[j]
    <3>1. /\ active[KeyOf(x)] # 0
          /\ Comes("assigned", x) \/ chains[active[KeyOf(x)]].opt_pos = 0
      BY <1>1, <2>1 DEF FlexOK, DeliveryOK
    <3> QED BY <1>9, <3>1 DEF ChainsStay
  <2>2. CASE ~(j \in 1..Len(tape) /\ tape'[j] = tape[j])
    <3>1. x = c /\ Len(rows) = 2 /\ rows[1].kind = "assigned" /\ rows[2].kind = "delivered" BY <1>5, <2>2
    <3> QED BY <1>13, <1>15, <3>1 DEF ChainsStay
  <2> QED BY <2>1, <2>2
<1> QED BY <1>14, <1>16, <1>17, <1>18, <1>19, <1>20, <1>21 DEF FlexOK

(***************************************************************************)
(* The user's trades.                                                      *)
(***************************************************************************)
LEMMA TradeStep ==
  ASSUME Inv, Followed, phase = "trade", phase' = phase, ChainsStay, NEW r \in Row, RowOK(r),
         r.kind \in UserKinds, tape' = tape \o <<r>>,
         cash' = cash + Money(r),
         shares' = shares - StockOf("S")[r] + StockOf("B")[r],
         Total(StockOf("S"), tape) + StockOf("S")[r] <= Total(LongOf, chains),
         Total(StockOf("B"), tape) + StockOf("B")[r] <= Total(CoverOf, chains),
         \A o \in Contracts :
           /\ held'[o] = held[o] - LotsOf("buy", o)[r] + LotsOf("sell", o)[r]
           /\ held'[o] >= 0
           /\ o.expiry < day => held'[o] = 0,
         r.kind = "buy" =>
           /\ r.qty <= held[r.contract]
           /\ feed # "poll" =>
                \A j \in 1..Len(tape) : tape[j].kind = "sell" => KeyOf(tape[j].contract) # KeyOf(r.contract),
         r.kind = "sell" =>
           \A o \in Contracts \ {r.contract} : KeyOf(o) = KeyOf(r.contract) => held[o] = 0
  PROVE Orderly' /\ BooksOK'
<1>1. TypeOK BY DEF Inv
<1>2. /\ held \in [Contracts -> Nat] /\ shares \in Int /\ r.contract \in Contracts /\ r.qty \in Nat
  BY <1>1, RowTyped, BoundsAreTyped DEF TypeOK
<1> DEFINE rows == <<r>>
<1>3. rows \in Seq(Row) /\ Len(rows) = 1 /\ rows[1] = r OBVIOUS
<1>4. \A f \in [Row -> Int] : Total(f, rows) = f[r] /\ f[r] \in Int BY SmallTotals
<1>5. tape' = tape \o rows OBVIOUS
<1>6. \A j \in 1..Len(rows) : RowOK(rows[j])
  <2>1. \A j \in 1..Len(rows) : j = 1 BY <1>3
  <2> QED BY <1>3, <2>1
<1> HIDE DEF rows
<1>7. /\ MoneyOf[r] = Money(r) BY DEF MoneyOf
<1>8. \A right : DueOf(right)[r] = 0 BY DEF DueOf, UserKinds
<1>9. /\ Total(MoneyOf, rows) = Money(r)
      /\ Total(StockOf("S"), rows) = StockOf("S")[r] /\ Total(StockOf("B"), rows) = StockOf("B")[r]
      /\ StockOf("S")[r] \in Int /\ StockOf("B")[r] \in Int
      /\ Total(DueOf("P"), rows) = 0 /\ Total(DueOf("C"), rows) = 0
  BY <1>4, <1>7, <1>8, RowSums
<1>10. shares' = shares + (Total(DueOf("P"), rows) - Total(StockOf("S"), rows))
                        - (Total(DueOf("C"), rows) - Total(StockOf("B"), rows))
  <2>1. \A x, y, z \in Int : x - y + z = x + (0 - y) - (0 - z) OBVIOUS
  <2> QED BY <1>2, <1>9, <2>1
<1>11. Orderly' /\ RowsOK' /\ CashOK' /\ SharesOK' /\ FlatOK'
  BY <1>3, <1>5, <1>6, <1>9, <1>10, AppendBooks
<1>12. DueOK' BY DEF DueOK, ChainsStay
<1>13. ASSUME feed = "poll" PROVE PollOK'
  <2>1. \A o \in Contracts : /\ DeltaOf(o)[r] = LotsOf("sell", o)[r] - LotsOf("buy", o)[r]
                             /\ LotsOf("sell", o)[r] \in Int /\ LotsOf("buy", o)[r] \in Int
    <3> SUFFICES ASSUME NEW o \in Contracts
                 PROVE /\ DeltaOf(o)[r] = LotsOf("sell", o)[r] - LotsOf("buy", o)[r]
                       /\ LotsOf("sell", o)[r] \in Int /\ LotsOf("buy", o)[r] \in Int
      OBVIOUS
    <3>1. LotsOf("sell", o)[r] \in Int /\ LotsOf("buy", o)[r] \in Int BY RowSums
    <3>2. CASE r.contract # o
      <4>1. DeltaOf(o)[r] = 0 /\ LotsOf("sell", o)[r] = 0 /\ LotsOf("buy", o)[r] = 0
        BY <3>2 DEF DeltaOf, LotsOf
      <4> QED BY <4>1
    <3>3. CASE r.contract = o /\ r.kind = "sell"
      <4>1. DeltaOf(o)[r] = r.qty /\ LotsOf("sell", o)[r] = r.qty /\ LotsOf("buy", o)[r] = 0
        BY <3>3 DEF DeltaOf, LotsOf
      <4> QED BY <1>2, <4>1
    <3>4. CASE r.contract = o /\ r.kind = "buy"
      <4>1. DeltaOf(o)[r] = -r.qty /\ LotsOf("sell", o)[r] = 0 /\ LotsOf("buy", o)[r] = r.qty
        BY <3>4 DEF DeltaOf, LotsOf
      <4> QED BY <1>2, <4>1
    <3>5. CASE r.contract = o /\ r.kind = "stock"
      <4>1. DeltaOf(o)[r] = 0 /\ LotsOf("sell", o)[r] = 0 /\ LotsOf("buy", o)[r] = 0
        BY <3>5 DEF DeltaOf, LotsOf
      <4> QED BY <4>1
    <3> QED BY <3>1, <3>2, <3>3, <3>4, <3>5 DEF UserKinds
  <2>2. \A o \in Contracts : held'[o] = held[o] + DeltaOf(o)[r] /\ held'[o] >= 0
    <3>1. \A x, y, z \in Int : x - y + z = x + (z - y) OBVIOUS
    <3>2. \A o \in Contracts : held[o] \in Int BY <1>2
    <3> QED BY <2>1, <3>1, <3>2
  <2>3. \A x, o \in Contracts : x # o /\ KeyOf(x) = KeyOf(o) /\ DeltaOf(x)[r] > 0 => held[o] = 0
    <3> SUFFICES ASSUME NEW x \in Contracts, NEW o \in Contracts, x # o, KeyOf(x) = KeyOf(o), DeltaOf(x)[r] > 0
                 PROVE held[o] = 0
      OBVIOUS
    <3>1. r.kind = "sell" /\ r.contract = x
      <4>1. CASE r.contract # x BY <4>1 DEF DeltaOf
      <4>2. CASE r.kind = "buy" /\ r.contract = x
        <5>1. DeltaOf(x)[r] = -r.qty BY <4>2 DEF DeltaOf
        <5> QED BY <1>2, <5>1
      <4>3. CASE r.kind = "stock" /\ r.contract = x BY <4>3 DEF DeltaOf
      <4> QED BY <4>1, <4>2, <4>3 DEF UserKinds
    <3> QED BY <3>1
  <2> QED BY <1>13, <2>2, <2>3, PollTrade
<1>14. ASSUME feed # "poll" PROVE FlexOK'
  BY <1>14, FlexTrade
<1>15. feed' = feed BY DEF ChainsStay
<1> QED BY <1>11, <1>12, <1>13, <1>14, <1>15 DEF BooksOK

\* Selling options keeps the books.
LEMMA SellStep ==
  ASSUME Inv, Followed, NEW c \in Contracts, NEW q \in 1..MaxLots, SellToOpen(c, q)
  PROVE Orderly' /\ BooksOK'
<1> DEFINE r == OptRow("sell", c, "S", q)
<1>1. TypeOK /\ DueOK /\ SharesOK BY DEF Inv, BooksOK
<1>2. /\ held \in [Contracts -> Nat] /\ q \in Nat /\ q >= 1 /\ shares \in Int /\ cash \in Int
      /\ c.expiry \in Nat /\ day \in Nat
  BY SMTT(30), <1>1, KeysTyped, BoundsAreTyped DEF TypeOK
<1>3. Histories = {} BY <1>1, OneFeed
<1>4. /\ ChainsStay /\ phase = "trade" /\ phase' = phase /\ day <= c.expiry
      /\ \A o \in Contracts \ {c} : KeyOf(o) = KeyOf(c) => held[o] = 0
      /\ held' = [held EXCEPT ![c] = @ + q]
      /\ cash' = cash + q /\ shares' = shares /\ tape' = tape \o <<r>>
  BY <1>3 DEF SellToOpen, Trade, Report, ChainsStay
<1>5. r \in Row /\ r.kind = "sell" /\ r.contract = c /\ r.side = "S" /\ r.qty = q
  <2>1. "sell" \in Kinds /\ "S" \in {"B", "S", "A"} BY DEF Kinds
  <2> QED BY <1>2, <2>1, OptRowTyped
<1> HIDE DEF r
<1>6. RowOK(r) /\ r.kind \in UserKinds BY <1>2, <1>4, <1>5 DEF RowOK, UserKinds
<1>7. cash' = cash + Money(r) BY <1>4, <1>5 DEF Money, Credit
<1>8. StockOf("S")[r] = 0 /\ StockOf("B")[r] = 0 BY <1>5 DEF StockOf
<1>9. /\ shares' = shares - StockOf("S")[r] + StockOf("B")[r]
      /\ Total(StockOf("S"), tape) + StockOf("S")[r] <= Total(LongOf, chains)
      /\ Total(StockOf("B"), tape) + StockOf("B")[r] <= Total(CoverOf, chains)
  <2>1. Total(StockOf("S"), tape) \in Nat /\ Total(StockOf("B"), tape) \in Nat BY <1>1, PendingTyped
  <2>2. shares' = shares - StockOf("S")[r] + StockOf("B")[r] BY <1>2, <1>4, <1>8
  <2> QED BY <1>1, <1>8, <2>1, <2>2 DEF SharesOK
<1>10. \A o \in Contracts :
         /\ held'[o] = held[o] - LotsOf("buy", o)[r] + LotsOf("sell", o)[r]
         /\ held'[o] >= 0
         /\ o.expiry < day => held'[o] = 0
  <2> SUFFICES ASSUME NEW o \in Contracts
               PROVE /\ held'[o] = held[o] - LotsOf("buy", o)[r] + LotsOf("sell", o)[r]
                     /\ held'[o] >= 0
                     /\ o.expiry < day => held'[o] = 0
    OBVIOUS
  <2>1. held[o] \in Nat BY <1>2
  <2>2. CASE o = c
    <3>1. held'[o] = held[o] + q BY <1>2, <1>4, <2>2
    <3>2. LotsOf("buy", o)[r] = 0 /\ LotsOf("sell", o)[r] = q BY <1>5, <2>2 DEF LotsOf
    <3>3. ~(o.expiry < day) BY <1>2, <1>4, <2>2
    <3> QED BY <1>2, <2>1, <3>1, <3>2, <3>3
  <2>3. CASE o # c
    <3>1. held'[o] = held[o] BY <1>2, <1>4, <2>3
    <3>2. LotsOf("buy", o)[r] = 0 /\ LotsOf("sell", o)[r] = 0 BY <1>5, <2>3 DEF LotsOf
    <3> QED BY <1>1, <2>1, <3>1, <3>2 DEF DueOK
  <2> QED BY <2>2, <2>3
<1> QED BY <1>4, <1>5, <1>6, <1>7, <1>9, <1>10, TradeStep

\* Buying options back keeps the books.
LEMMA BuyStep ==
  ASSUME Inv, Followed, NEW c \in Contracts, NEW q \in 1..MaxLots, BuyToClose(c, q)
  PROVE Orderly' /\ BooksOK'
<1> DEFINE r == OptRow("buy", c, "B", q)
<1>1. TypeOK /\ DueOK /\ SharesOK BY DEF Inv, BooksOK
<1>2. /\ held \in [Contracts -> Nat] /\ q \in Nat /\ q >= 1 /\ shares \in Int /\ cash \in Int
      /\ c.expiry \in Nat /\ day \in Nat
  BY SMTT(30), <1>1, KeysTyped, BoundsAreTyped DEF TypeOK
<1>3. Histories = {} BY <1>1, OneFeed
<1>4. /\ ChainsStay /\ phase = "trade" /\ phase' = phase /\ q <= held[c]
      /\ feed # "poll" =>
           \A j \in 1..Len(tape) : tape[j].kind = "sell" => KeyOf(tape[j].contract) # KeyOf(c)
      /\ held' = [held EXCEPT ![c] = @ - q]
      /\ cash' = cash - q /\ shares' = shares /\ tape' = tape \o <<r>>
  BY <1>3 DEF BuyToClose, ClearToClose, Trade, Report, ChainsStay
<1>5. r \in Row /\ r.kind = "buy" /\ r.contract = c /\ r.side = "B" /\ r.qty = q
  <2>1. "buy" \in Kinds /\ "B" \in {"B", "S", "A"} BY DEF Kinds
  <2> QED BY <1>2, <2>1, OptRowTyped
<1> HIDE DEF r
<1>6. RowOK(r) /\ r.kind \in UserKinds
  <2>1. day <= c.expiry
    <3>1. held[c] # 0 BY <1>2, <1>4
    <3> QED BY <1>1, <1>2, <3>1 DEF DueOK
  <2> QED BY <1>2, <1>4, <1>5, <2>1 DEF RowOK, UserKinds
<1>7. cash' = cash + Money(r)
  <2>1. Money(r) = -q BY <1>5 DEF Money, Credit
  <2> QED BY <1>2, <1>4, <2>1
<1>8. StockOf("S")[r] = 0 /\ StockOf("B")[r] = 0 BY <1>5 DEF StockOf
<1>9. /\ shares' = shares - StockOf("S")[r] + StockOf("B")[r]
      /\ Total(StockOf("S"), tape) + StockOf("S")[r] <= Total(LongOf, chains)
      /\ Total(StockOf("B"), tape) + StockOf("B")[r] <= Total(CoverOf, chains)
  <2>1. Total(StockOf("S"), tape) \in Nat /\ Total(StockOf("B"), tape) \in Nat BY <1>1, PendingTyped
  <2>2. shares' = shares - StockOf("S")[r] + StockOf("B")[r] BY <1>2, <1>4, <1>8
  <2> QED BY <1>1, <1>8, <2>1, <2>2 DEF SharesOK
<1>10. \A o \in Contracts :
         /\ held'[o] = held[o] - LotsOf("buy", o)[r] + LotsOf("sell", o)[r]
         /\ held'[o] >= 0
         /\ o.expiry < day => held'[o] = 0
  <2> SUFFICES ASSUME NEW o \in Contracts
               PROVE /\ held'[o] = held[o] - LotsOf("buy", o)[r] + LotsOf("sell", o)[r]
                     /\ held'[o] >= 0
                     /\ o.expiry < day => held'[o] = 0
    OBVIOUS
  <2>1. held[o] \in Nat BY <1>2
  <2>2. CASE o = c
    <3>1. held'[o] = held[o] - q BY <1>2, <1>4, <2>2
    <3>2. LotsOf("buy", o)[r] = q /\ LotsOf("sell", o)[r] = 0 BY <1>5, <2>2 DEF LotsOf
    <3>3. o.expiry < day => held[o] = 0 BY <1>1 DEF DueOK
    <3> QED BY <1>2, <1>4, <2>1, <2>2, <3>1, <3>2, <3>3
  <2>3. CASE o # c
    <3>1. held'[o] = held[o] BY <1>2, <1>4, <2>3
    <3>2. LotsOf("buy", o)[r] = 0 /\ LotsOf("sell", o)[r] = 0 BY <1>5, <2>3 DEF LotsOf
    <3> QED BY <1>1, <2>1, <3>1, <3>2 DEF DueOK
  <2> QED BY <2>2, <2>3
<1> QED BY <1>4, <1>5, <1>6, <1>7, <1>9, <1>10, TradeStep

\* Trading shares keeps the books.
LEMMA SharesStep ==
  ASSUME Inv, Followed, NEW c \in Contracts, NEW side \in {"B", "S"}, NEW q \in 1..MaxLots,
         TradeShares(c, side, q)
  PROVE Orderly' /\ BooksOK'
<1> DEFINE r == OptRow("stock", c, side, q)
           long == Total(LongOf, chains)
           cover == Total(CoverOf, chains)
           sold == Total(StockOf("S"), tape)
           bought == Total(StockOf("B"), tape)
<1>1. TypeOK /\ DueOK /\ SharesOK /\ RowsOK BY DEF Inv, BooksOK
<1>2. /\ held \in [Contracts -> Nat] /\ shares \in Int /\ cash \in Int /\ SharePrice \in Int
  BY <1>1, BoundsAreTyped DEF TypeOK
<1>3. Histories = {} BY <1>1, OneFeed
<1>4. /\ ChainsStay /\ phase = "trade" /\ phase' = phase /\ q = 1
      /\ IF side = "S" THEN q <= shares ELSE q <= -shares
      /\ held' = held /\ tape' = tape \o <<r>>
      /\ shares' = (IF side = "S" THEN shares - q ELSE shares + q)
      /\ cash' = (IF side = "S" THEN cash + q * SharePrice ELSE cash - q * SharePrice)
  BY <1>3 DEF TradeShares, Trade, Report, ChainsStay
<1>5. r \in Row /\ r.kind = "stock" /\ r.contract = c /\ r.side = side /\ r.qty = 1
  <2>1. "stock" \in Kinds /\ side \in {"B", "S", "A"} /\ q \in Nat BY <1>4 DEF Kinds
  <2> QED BY <1>4, <2>1, OptRowTyped
<1> HIDE DEF r
<1>6. RowOK(r) /\ r.kind \in UserKinds BY <1>4, <1>5 DEF RowOK, UserKinds
<1>7. cash' = cash + Money(r)
  <2> DEFINE v == 1 * SharePrice
  <2>1. v \in Int BY <1>2
  <2>2. Money(r) = (IF side = "S" THEN v ELSE -v) BY <1>5 DEF Money, Credit
  <2>3. cash' = (IF side = "S" THEN cash + v ELSE cash - v) BY <1>4
  <2> HIDE DEF v
  <2> QED BY <1>2, <2>1, <2>2, <2>3
<1>8. /\ StockOf("S")[r] = (IF side = "S" THEN 1 ELSE 0)
      /\ StockOf("B")[r] = (IF side = "B" THEN 1 ELSE 0)
  BY <1>5 DEF StockOf
<1>9. /\ long \in Nat /\ cover \in Nat /\ sold \in Nat /\ bought \in Nat
      /\ sold <= long /\ bought <= cover /\ shares = (long - sold) - (cover - bought)
  <2>1. \A j \in 1..Len(tape) : tape[j].kind \in UserKinds BY <1>1, <1>4 DEF RowsOK, RowOK
  <2>2. ASSUME NEW right PROVE Total(DueOf(right), tape) = 0
    <3>1. \A j \in 1..Len(tape) : DueOf(right)[tape[j]] = 0 BY <1>1, <2>1, TapeTotals DEF DueOf, UserKinds
    <3> QED BY <1>1, <3>1, RowSums, TapeTotals
  <2>3. /\ long \in Nat /\ cover \in Nat /\ sold \in Nat /\ bought \in Nat
        /\ sold <= long /\ bought <= cover
        /\ shares = (long - sold + Total(DueOf("P"), tape)) - (cover - bought + Total(DueOf("C"), tape))
    BY <1>1, PendingTyped, ChainTotals DEF SharesOK
  <2> HIDE DEF long, cover, sold, bought
  <2> QED BY <2>2, <2>3
<1>10. /\ shares' = shares - StockOf("S")[r] + StockOf("B")[r]
       /\ sold + StockOf("S")[r] <= long /\ bought + StockOf("B")[r] <= cover
  <2> HIDE DEF long, cover, sold, bought
  <2>1. CASE side = "S"
    <3>1. shares' = shares - 1 /\ shares >= 1 /\ StockOf("S")[r] = 1 /\ StockOf("B")[r] = 0
      BY <1>2, <1>4, <1>8, <2>1
    <3> QED BY <1>2, <1>9, <3>1
  <2>2. CASE side = "B"
    <3>1. shares' = shares + 1 /\ shares <= -1 /\ StockOf("S")[r] = 0 /\ StockOf("B")[r] = 1
      BY <1>2, <1>4, <1>8, <2>2
    <3> QED BY <1>2, <1>9, <3>1
  <2> QED BY <2>1, <2>2
<1>11. \A o \in Contracts :
         /\ held'[o] = held[o] - LotsOf("buy", o)[r] + LotsOf("sell", o)[r]
         /\ held'[o] >= 0
         /\ o.expiry < day => held'[o] = 0
  <2>1. \A o \in Contracts : LotsOf("buy", o)[r] = 0 /\ LotsOf("sell", o)[r] = 0 /\ held[o] \in Nat
    BY <1>2, <1>5 DEF LotsOf
  <2>2. \A x \in Nat : x = x - 0 + 0 /\ x >= 0 OBVIOUS
  <2> QED BY <1>1, <1>4, <2>1, <2>2 DEF DueOK
<1>12. r.kind # "buy" /\ r.kind # "sell" BY <1>5
<1> QED BY <1>4, <1>5, <1>6, <1>7, <1>10, <1>11, <1>12, TradeStep

(***************************************************************************)
(* The broker's assignments and expiries.                                  *)
(***************************************************************************)
LEMMA AssignStep ==
  ASSUME Inv, Followed, NEW c \in Contracts, NEW q \in 1..MaxLots, Assign(c, q)
  PROVE Orderly' /\ BooksOK'
<1>1. TypeOK /\ DueOK BY DEF Inv, BooksOK
<1>2. Orderly' /\ RowsOK' /\ DueOK' /\ CashOK' /\ SharesOK' /\ FlatOK' BY AssignBooks
<1>3. feed' = feed BY DEF Assign
<1>4. feed = "poll" => PollOK' BY PollAssign
<1>5. ASSUME feed # "poll" PROVE FlexOK'
  <2>1. PICK a, b \in Row :
          /\ AssignmentRows(c, q) = <<a, b>>
          /\ a.contract = c /\ b.contract = c /\ a.qty = q /\ b.qty = q
          /\ b.side = IF c.right = "P" THEN "B" ELSE "S"
          /\ feed = "poll" => a.kind = "assignedA" /\ b.kind = "copy"
          /\ feed # "poll" => a.kind = "assigned" /\ b.kind = "delivered" /\ a.side = "B"
    BY <1>1, AssignmentPair
  <2>2. Histories = {} BY <1>1, OneFeed
  <2> DEFINE rows == <<a, b>>
  <2>3. /\ ChainsStay /\ phase = "settle" /\ phase' = phase /\ q = held[c] /\ ClearToSettle(c)
        /\ held' = [held EXCEPT ![c] = @ - q] /\ tape' = tape \o rows
    BY <1>5, <2>1, <2>2 DEF Assign, Report, ChainsStay
  <2>4. /\ rows \in Seq(Row) /\ Len(rows) = 2 /\ rows[1] = a /\ rows[2] = b
        /\ \A j \in 1..Len(rows) : rows[j] \in {a, b}
    BY PairTyped
  <2> HIDE DEF rows
  <2>5. held \in [Contracts -> Nat] /\ held[c] > 0 BY <1>1, <2>3, BoundsAreTyped DEF TypeOK
  <2>6. held' = [held EXCEPT ![c] = 0]
    <3>1. held[c] - q = 0 BY <2>3, <2>5
    <3> QED BY <2>3, <3>1
  <2>7. \A j \in 1..Len(rows) : rows[j].contract = c /\ rows[j].qty = held[c] BY <2>1, <2>3, <2>4
  <2>8. Len(rows) = 2 /\ rows[1].kind = "assigned" /\ rows[2].kind = "delivered" BY <1>5, <2>1, <2>4
  <2> QED BY <1>5, <2>3, <2>4, <2>5, <2>6, <2>7, <2>8, FlexSettle
<1> QED BY <1>2, <1>3, <1>4, <1>5 DEF BooksOK

\* The rows of an expiry.
LEMMA ExpiryRows ==
  ASSUME TypeOK, NEW c \in Contracts, NEW kinds \in {<<>>, <<"eae">>, <<"zero">>, <<"zero", "eae">>},
         NEW rows, rows = [j \in 1..Len(kinds) |->
           OptRow(kinds[j], c, IF kinds[j] = "eae" /\ c.right = "P" THEN "S" ELSE "B", held[c])]
  PROVE /\ rows \in Seq(Row) /\ (kinds = <<>> => rows = <<>>)
        /\ \A j \in 1..Len(rows) :
             /\ rows[j] \in Row /\ rows[j].kind \in {"zero", "eae"} /\ rows[j].contract = c
             /\ rows[j].qty = held[c] /\ (rows[j].kind = "zero" => rows[j].side = "B")
<1> DEFINE Side(kind) == IF kind = "eae" /\ c.right = "P" THEN "S" ELSE "B"
<1>1. kinds \in Seq({"eae", "zero"}) OBVIOUS
<1>2. Len(kinds) \in Nat /\ \A j \in 1..Len(kinds) : kinds[j] \in {"eae", "zero"} BY <1>1
<1>3. held[c] \in Nat BY BoundsAreTyped DEF TypeOK
<1>4. ASSUME NEW kind \in {"eae", "zero"}
      PROVE LET r == OptRow(kind, c, Side(kind), held[c]) IN
            /\ r \in Row /\ r.kind = kind /\ r.contract = c /\ r.qty = held[c] /\ (kind = "zero" => r.side = "B")
  <2>1. kind \in Kinds /\ Side(kind) \in {"B", "S", "A"} BY DEF Kinds
  <2>2. kind = "zero" => Side(kind) = "B" OBVIOUS
  <2> HIDE DEF Side
  <2> QED BY <1>3, <2>1, <2>2, OptRowTyped
<1>5. rows = [j \in 1..Len(kinds) |-> OptRow(kinds[j], c, Side(kinds[j]), held[c])] OBVIOUS
<1>6. \A j \in 1..Len(kinds) : rows[j] = OptRow(kinds[j], c, Side(kinds[j]), held[c]) BY <1>5
<1>7. \A j \in 1..Len(kinds) :
        /\ rows[j] \in Row /\ rows[j].kind \in {"zero", "eae"} /\ rows[j].contract = c
        /\ rows[j].qty = held[c] /\ (rows[j].kind = "zero" => rows[j].side = "B")
  <2> SUFFICES ASSUME NEW j \in 1..Len(kinds)
               PROVE /\ rows[j] \in Row /\ rows[j].kind \in {"zero", "eae"} /\ rows[j].contract = c
                     /\ rows[j].qty = held[c] /\ (rows[j].kind = "zero" => rows[j].side = "B")
    OBVIOUS
  <2> HIDE DEF Side
  <2>1. kinds[j] \in {"eae", "zero"} BY <1>2
  <2>2. rows[j] = OptRow(kinds[j], c, Side(kinds[j]), held[c]) BY <1>6
  <2> QED BY <1>4, <2>1, <2>2
<1>8. rows \in [1..Len(kinds) -> Row]
  <2> HIDE DEF Side
  <2> QED BY <1>5, <1>6, <1>7
<1>9. rows \in Seq(Row) /\ Len(rows) = Len(kinds) BY <1>2, <1>8
<1>10. kinds = <<>> => rows = <<>> BY <1>9
<1> QED BY <1>7, <1>9, <1>10

\* An expiry keeps the books.
LEMMA ExpireStep ==
  ASSUME Inv, Followed, NEW c \in Contracts, NEW kinds \in {<<>>, <<"eae">>, <<"zero">>, <<"zero", "eae">>},
         Expire(c, kinds)
  PROVE Orderly' /\ BooksOK'
<1>0. PICK rows : rows = [j \in 1..Len(kinds) |->
                            OptRow(kinds[j], c, IF kinds[j] = "eae" /\ c.right = "P" THEN "S" ELSE "B", held[c])]
  OBVIOUS
<1>1. TypeOK /\ Orderly /\ RowsOK /\ DueOK /\ SharesOK BY DEF Inv, BooksOK
<1>2. /\ ChainsStay /\ phase = "settle" /\ phase' = phase /\ c.expiry = day /\ held[c] > 0
      /\ feed = "poll" => kinds = <<>>
      /\ ClearToSettle(c) /\ held' = [held EXCEPT ![c] = 0]
      /\ shares' = shares /\ cash' = cash /\ tape' = tape \o rows
  BY <1>0 DEF Expire, Report, ChainsStay
<1>3. /\ rows \in Seq(Row) /\ (kinds = <<>> => rows = <<>>)
      /\ \A j \in 1..Len(rows) :
           /\ rows[j] \in Row /\ rows[j].kind \in {"zero", "eae"} /\ rows[j].contract = c
           /\ rows[j].qty = held[c] /\ (rows[j].kind = "zero" => rows[j].side = "B")
  BY <1>0, <1>1, ExpiryRows
<1>4. /\ held \in [Contracts -> Nat] /\ shares \in Int /\ cash \in Int /\ day \in Nat /\ tape \in Seq(Row)
  BY <1>1, BoundsAreTyped DEF TypeOK
<1>5. held'[c] = 0 /\ \A o \in Contracts \ {c} : held'[o] = held[o] BY <1>2, <1>4
<1>6. \A j \in 1..Len(rows) : RowOK(rows[j])
  <2> SUFFICES ASSUME NEW j \in 1..Len(rows) PROVE RowOK(rows[j]) OBVIOUS
  <2>1. feed # "poll"
    <3> SUFFICES ASSUME feed = "poll" PROVE FALSE OBVIOUS
    <3>1. rows = <<>> BY <1>2, <1>3
    <3> QED BY <3>1
  <2>2. held[c] >= 1 BY <1>2, <1>4
  <2> QED BY <1>2, <1>3, <1>4, <2>1, <2>2 DEF RowOK
<1>7. /\ Total(MoneyOf, rows) = 0
      /\ Total(StockOf("S"), rows) = 0 /\ Total(StockOf("B"), rows) = 0
      /\ Total(DueOf("P"), rows) = 0 /\ Total(DueOf("C"), rows) = 0
  <2>1. \A f \in [Row -> Int] : (\A j \in 1..Len(rows) : f[rows[j]] = 0) => Total(f, rows) = 0
    BY <1>3, TotalZero
  <2>2. \A j \in 1..Len(rows) : MoneyOf[rows[j]] = 0 BY <1>3 DEF MoneyOf, Money
  <2>3. \A side : \A j \in 1..Len(rows) : StockOf(side)[rows[j]] = 0 BY <1>3 DEF StockOf
  <2>4. \A right : \A j \in 1..Len(rows) : DueOf(right)[rows[j]] = 0 BY <1>3 DEF DueOf
  <2> QED BY <2>1, <2>2, <2>3, <2>4, RowSums
<1>8. /\ cash' = cash + Total(MoneyOf, rows)
      /\ shares' = shares + (Total(DueOf("P"), rows) - Total(StockOf("S"), rows))
                          - (Total(DueOf("C"), rows) - Total(StockOf("B"), rows))
      /\ Total(StockOf("S"), tape) + Total(StockOf("S"), rows) <= Total(LongOf, chains)
      /\ Total(StockOf("B"), tape) + Total(StockOf("B"), rows) <= Total(CoverOf, chains)
  <2>1. Total(StockOf("S"), tape) \in Nat /\ Total(StockOf("B"), tape) \in Nat BY <1>1, PendingTyped
  <2>2. \A x \in Int : x + 0 = x /\ x + (0 - 0) - (0 - 0) = x OBVIOUS
  <2> QED BY <1>1, <1>2, <1>4, <1>7, <2>1, <2>2 DEF SharesOK
<1>9. Orderly' /\ RowsOK' /\ CashOK' /\ SharesOK' /\ FlatOK'
  BY <1>2, <1>3, <1>6, <1>8, AppendBooks
<1>10. DueOK'
  <2>1. \A o \in Contracts : o.expiry < day => held'[o] = 0 BY <1>1, <1>5 DEF DueOK
  <2> QED BY <1>2, <2>1 DEF DueOK, ChainsStay
<1>11. ASSUME feed = "poll" PROVE PollOK'
  <2>1. PollOK BY <1>11 DEF Inv, BooksOK
  <2>2. tape' = tape
    <3>1. rows = <<>> BY <1>2, <1>3, <1>11
    <3> QED BY <1>2, <1>4, <3>1
  <2>3. /\ \A i \in 0..Len(tape') : LevelsOK(SubSeq(tape', 1, i))
        /\ \A o \in Contracts : \/ held'[o] = Level(o, tape')
                                \/ o.expiry = day /\ held'[o] = 0 /\ phase' # "trade"
    <3>1. \A i \in 0..Len(tape') : LevelsOK(SubSeq(tape', 1, i)) BY <2>1, <2>2 DEF PollOK
    <3>2. ASSUME NEW o \in Contracts
          PROVE \/ held'[o] = Level(o, tape')
                \/ o.expiry = day /\ held'[o] = 0 /\ phase' # "trade"
      <4>1. CASE o = c BY <1>2, <1>5, <4>1
      <4>2. CASE o # c
        <5>1. held[o] = Level(o, tape) \/ Lapsing(o) BY <2>1 DEF PollOK
        <5> QED BY <1>2, <1>5, <2>2, <4>2, <5>1 DEF Lapsing
      <4> QED BY <4>1, <4>2
    <3> QED BY <3>1, <3>2
  <2>4. /\ (\A i \in 0..Len(tape) : LevelsOK(SubSeq(tape, 1, i)))'
        /\ (\A o \in Contracts : held[o] = Level(o, tape) \/ Lapsing(o))'
    BY <1>2, <2>3, LevelsStay
  <2>5. (\A i, j \in 1..Len(tape) : i < j /\ tape[i].kind \notin UserKinds => tape[j].kind \notin UserKinds)'
    BY <2>1, <2>2 DEF PollOK
  <2>6. /\ (Total(LongOf, chains) = 0 \/ Total(CoverOf, chains) = 0)'
        /\ (Settling("P") => Total(StockOf("B"), tape) = Total(CoverOf, chains) /\ ~Settling("C"))'
        /\ (Settling("C") => Total(StockOf("S"), tape) = Total(LongOf, chains))'
        /\ (\A right : Settling(right) => Total(DueOf(right), tape) > 0)'
    <3>1. \A right : Settling(right)' <=> Settling(right) BY <2>2 DEF Settling
    <3>2. chains' = chains BY <1>2 DEF ChainsStay
    <3> QED BY <1>2, <2>1, <2>2, <3>1, <3>2 DEF PollOK
  <2> QED BY <2>4, <2>5, <2>6 DEF PollOK
<1>12. ASSUME feed # "poll" PROVE FlexOK'
  <2>1. \A j \in 1..Len(rows) : rows[j].contract = c /\ rows[j].qty = held[c] BY <1>3
  <2>2. c.expiry = day /\ \A j \in 1..Len(rows) : rows[j].kind \in ExpiryKinds BY <1>2, <1>3 DEF ExpiryKinds
  <2> QED BY <1>2, <1>3, <1>12, <2>1, <2>2, FlexSettle
<1>13. feed' = feed BY <1>2 DEF ChainsStay
<1> QED BY <1>9, <1>10, <1>11, <1>12, <1>13 DEF BooksOK

(***************************************************************************)
(* The day's phases.                                                       *)
(***************************************************************************)
LEMMA PhaseStep ==
  ASSUME Inv, chains' = chains, active' = active, tape' = tape, feed' = feed, held' = held,
         shares' = shares, cash' = cash,
         \/ day' = day /\ phase' # "trade"
         \/ tape = <<>>
  PROVE Orderly' /\ RowsOK' /\ CashOK' /\ SharesOK' /\ FlatOK'
<1>1. TypeOK /\ Orderly /\ RowsOK /\ CashOK /\ SharesOK /\ FlatOK BY DEF Inv, BooksOK
<1>2. Orderly' BY <1>1, StayOrderly
<1>3. RowsOK'
  <2> SUFFICES ASSUME NEW j \in 1..Len(tape') PROVE RowOK(tape[j])' BY DEF RowsOK
  <2>1. tape # <<>>
    <3> SUFFICES ASSUME tape = <<>> PROVE FALSE OBVIOUS
    <3>1. Len(tape') = 0 OBVIOUS
    <3> QED BY <3>1
  <2>2. RowOK(tape[j]) BY <1>1 DEF RowsOK
  <2> QED BY <2>1, <2>2 DEF RowOK
<1>4. CashOK' BY <1>1 DEF CashOK
<1>5. SharesOK' BY <1>1 DEF SharesOK
<1>6. FlatOK'
  <2>1. \A n \in 1..Len(chains) : Flat(chains[n]) =>
          \/ chains[n].status = "closed"
          \/ \E i \in 1..Len(tape) :
               tape[i].kind = "delivered" /\ KeyOf(tape[i].contract) = KeyOfChain(chains[n])
    BY <1>1 DEF FlatOK
  <2> QED BY <2>1 DEF FlatOK, Flat, KeyOfChain, KeyOf
<1> QED BY <1>2, <1>3, <1>4, <1>5, <1>6

\* The phase moves on within a day.
LEMMA SamePoll ==
  ASSUME Inv, feed = "poll", ChainsStay, tape' = tape, held' = held,
         phase = "trade" => phase' = "settle", phase # "trade" => phase' = "read"
  PROVE PollOK'
<1>1. TypeOK /\ RowsOK /\ PollOK BY DEF Inv, BooksOK
<1>2. /\ \A i \in 0..Len(tape') : LevelsOK(SubSeq(tape', 1, i))
      /\ \A c \in Contracts : \/ held'[c] = Level(c, tape')
                              \/ c.expiry = day /\ held'[c] = 0 /\ phase' # "trade"
  BY <1>1 DEF PollOK, Lapsing
<1>3. /\ (\A i \in 0..Len(tape) : LevelsOK(SubSeq(tape, 1, i)))'
      /\ (\A c \in Contracts : held[c] = Level(c, tape) \/ Lapsing(c))'
  BY <1>2, LevelsStay
<1>4. \A right : Settling(right)' <=> Settling(right) BY DEF Settling
<1>5. chains' = chains BY DEF ChainsStay
<1>6. (\A i, j \in 1..Len(tape) : i < j /\ tape[i].kind \notin UserKinds => tape[j].kind \notin UserKinds)'
  BY <1>1 DEF PollOK
<1>7. /\ (Total(LongOf, chains) = 0 \/ Total(CoverOf, chains) = 0)'
      /\ (Settling("P") => Total(StockOf("B"), tape) = Total(CoverOf, chains) /\ ~Settling("C"))'
      /\ (Settling("C") => Total(StockOf("S"), tape) = Total(LongOf, chains))'
  BY <1>1, <1>4, <1>5 DEF PollOK
<1>8. (phase = "settle" => \A right : Settling(right) => Total(DueOf(right), tape) > 0)'
  <2>1. phase' = "settle" => \A right : ~Settling(right)
    <3> SUFFICES ASSUME phase' = "settle", NEW right PROVE ~Settling(right) OBVIOUS
    <3>1. phase = "trade" OBVIOUS
    <3>2. \A j \in 1..Len(tape) : tape[j].kind \in UserKinds BY <1>1, <3>1 DEF RowsOK, RowOK
    <3> QED BY <3>2 DEF Settling, UserKinds
  <2> QED BY <1>4, <2>1
<1> QED BY <1>3, <1>6, <1>7, <1>8 DEF PollOK

\* What Flex makes sure of when the day's phase changes.
LEMMA SameFlex ==
  ASSUME Inv, feed # "poll", ChainsStay, tape' = tape, held' = held,
         phase' # "trade" \/ phase' = phase
  PROVE FlexOK'
<1>1. FlexOK BY DEF Inv, BooksOK
<1>2. /\ \A o : ShortOf(o)' = ShortOf(o)
      /\ chains' = chains /\ active' = active /\ day' = day
  BY ShortsStay DEF ChainsStay
<1>3. \A o : Buys(o)' = Buys(o) /\ Sells(o)' = Sells(o) BY DEF Buys, Sells
<1>4. \A o : Lapsing(o) => Lapsing(o)' BY <1>2 DEF Lapsing
<1>5. \A kind, o : Comes(kind, o)' <=> Comes(kind, o) BY DEF Comes
<1>6. /\ (\A c \in Contracts : Buys(c) <= ShortOf(c))'
      /\ (\A c \in Contracts :
           \/ held[c] = ShortOf(c) - Buys(c) + Sells(c)
           \/ Lapsing(c)
           \/ held[c] = 0 /\ Comes("assigned", c))'
      /\ (\A c, o \in Contracts : c # o /\ KeyOf(c) = KeyOf(o) /\ Sells(c) > 0 =>
           ShortOf(o) = Buys(o) /\ Sells(o) = 0)'
      /\ (\A i, j \in 1..Len(tape) : tape[i].kind \in SettleKinds /\ tape[j].kind \in {"sell", "buy"} =>
           tape[i].contract.right # tape[j].contract.right)'
  BY <1>1, <1>2, <1>3, <1>4, <1>5 DEF FlexOK
<1>7. AssignedOK'
  <2> SUFFICES ASSUME NEW j \in 1..Len(tape'), tape'[j].kind = "assigned", NEW x, x = tape'[j].contract
               PROVE /\ ShortOf(x)' = tape'[j].qty /\ held'[x] = 0 /\ Comes("delivered", x)'
                     /\ \A m \in 1..Len(tape') : m # j /\ tape'[m].contract = x =>
                          tape'[m].kind \in {"delivered", "stock"}
    BY AssignedNext
  <2>1. /\ ShortOf(x) = tape[j].qty /\ held[x] = 0 /\ Comes("delivered", x)
        /\ \A m \in 1..Len(tape) : m # j /\ tape[m].contract = x => tape[m].kind \in {"delivered", "stock"}
    BY <1>1 DEF FlexOK, AssignedOK
  <2> QED BY <1>2, <1>5, <2>1
<1>8. ExpiryOK'
  <2> SUFFICES ASSUME NEW j \in 1..Len(tape'), tape'[j].kind \in ExpiryKinds, NEW x, x = tape'[j].contract
               PROVE /\ Lapsing(x)' /\ ShortOf(x)' \in {0, tape'[j].qty}
                     /\ \A o \in Contracts \ {x} : KeyOf(o) = KeyOf(x) => ShortOf(o)' = 0
    BY ExpiryNext
  <2>1. /\ Lapsing(x) /\ ShortOf(x) \in {0, tape[j].qty}
        /\ \A o \in Contracts \ {x} : KeyOf(o) = KeyOf(x) => ShortOf(o) = 0
    BY <1>1 DEF FlexOK, ExpiryOK
  <2> QED BY <1>2, <1>4, <2>1
<1>9. DeliveryOK'
  <2> SUFFICES ASSUME NEW j \in 1..Len(tape'), tape'[j].kind = "delivered", NEW x, x = tape'[j].contract
               PROVE /\ active'[KeyOf(x)] # 0
                     /\ Comes("assigned", x)' \/ chains'[active'[KeyOf(x)]].opt_pos = 0
    BY DEF DeliveryOK, Comes, KeyOf
  <2>1. /\ active[KeyOf(x)] # 0
        /\ Comes("assigned", x) \/ chains[active[KeyOf(x)]].opt_pos = 0
    BY <1>1 DEF FlexOK, DeliveryOK
  <2> QED BY <1>2, <1>5, <2>1
<1> QED BY <1>6, <1>7, <1>8, <1>9 DEF FlexOK

\* The market's and the broker's close keep the books.
LEMMA CloseStep ==
  ASSUME Inv, MarketCloses \/ BooksClose
  PROVE Orderly' /\ BooksOK'
<1>1. /\ ChainsStay /\ tape' = tape /\ held' = held /\ shares' = shares /\ cash' = cash
      /\ phase = "trade" => phase' = "settle"
      /\ phase # "trade" => phase' = "read"
      /\ phase' # "trade"
  BY DEF MarketCloses, BooksClose, ChainsStay, account
<1>2. chains' = chains /\ active' = active /\ day' = day /\ feed' = feed BY <1>1 DEF ChainsStay
<1>3. Orderly' /\ RowsOK' /\ CashOK' /\ SharesOK' /\ FlatOK' BY <1>1, <1>2, PhaseStep
<1>4. DueOK'
  <2>1. TypeOK /\ DueOK BY DEF Inv, BooksOK
  <2>2. \A c \in Contracts : c.expiry \in Nat BY KeysTyped
  <2>3. day \in Nat BY <2>1, BoundsAreTyped DEF TypeOK
  <2>4. \A c \in Contracts : c.expiry < day => held[c] = 0 BY <2>1 DEF DueOK
  <2>5. ASSUME phase' = "read", NEW c \in Contracts, c.expiry <= day PROVE held[c] = 0
    <3>1. c.expiry = day => held[c] = 0 BY <2>5 DEF MarketCloses, BooksClose
    <3>2. c.expiry < day \/ c.expiry = day BY <2>2, <2>3, <2>5
    <3> QED BY <2>4, <3>1, <3>2
  <2> QED BY <1>1, <1>2, <2>4, <2>5 DEF DueOK
<1>5. feed = "poll" => PollOK' BY <1>1, SamePoll
<1>6. feed # "poll" => FlexOK' BY <1>1, SameFlex
<1> QED BY <1>2, <1>3, <1>4, <1>5, <1>6 DEF BooksOK

\* A short that a new day finds is one that the day before left.
LEMMA NextDayStep ==
  ASSUME Inv, NextDay
  PROVE Orderly' /\ BooksOK'
<1>1. TypeOK /\ Orderly /\ DueOK BY DEF Inv, BooksOK
<1>2. /\ phase = "read" /\ tape = <<>> /\ day' = day + 1 /\ phase' = "trade"
      /\ chains' = chains /\ active' = active /\ tape' = tape /\ feed' = feed /\ held' = held
      /\ shares' = shares /\ cash' = cash
  BY DEF NextDay, account
<1>3. Orderly' /\ RowsOK' /\ CashOK' /\ SharesOK' /\ FlatOK' BY <1>2, PhaseStep
<1>4. day \in Nat /\ \A c \in Contracts : c.expiry \in Nat BY <1>1, KeysTyped, BoundsAreTyped DEF TypeOK
<1>5. \A c \in Contracts : c.expiry <= day => held[c] = 0 BY <1>1, <1>2 DEF DueOK
<1>6. DueOK'
  <2>1. \A c \in Contracts : c.expiry < day' => held'[c] = 0 BY <1>2, <1>4, <1>5
  <2> QED BY <1>2, <2>1 DEF DueOK
<1>7. \A c \in Contracts : /\ ShortOf(c)' = (IF c.expiry <= day THEN 0 ELSE ShortOf(c))
                           /\ ShortOf(c) \in Nat
  <2> SUFFICES ASSUME NEW c \in Contracts
               PROVE /\ ShortOf(c)' = (IF c.expiry <= day THEN 0 ELSE ShortOf(c))
                     /\ ShortOf(c) \in Nat
    OBVIOUS
  <2>1. ShortOf(c) \in Nat BY <1>1, ShortTypes
  <2> DEFINE n == active[KeyOf(c)]
  <2>2. ShortOf(c) = IF n = 0 THEN 0
                     ELSE IF chains[n].last_conid = c /\ day <= c.expiry THEN -chains[n].opt_pos ELSE 0
    BY DEF ShortOf, Live
  <2>3. ShortOf(c)' = IF n = 0 THEN 0
                      ELSE IF chains[n].last_conid = c /\ day + 1 <= c.expiry THEN -chains[n].opt_pos ELSE 0
    BY <1>2 DEF ShortOf, Live, KeyOf
  <2>4. c.expiry <= day => ~(day + 1 <= c.expiry) BY <1>4
  <2>5. ~(c.expiry <= day) => day + 1 <= c.expiry /\ day <= c.expiry BY <1>4
  <2> HIDE DEF n
  <2> QED BY <2>1, <2>2, <2>3, <2>4, <2>5
<1>8. /\ \A c \in Contracts : ShortOf(c)' \in Nat
      /\ \A c, o \in Contracts : c # o /\ KeyOf(c) = KeyOf(o) => ShortOf(c)' = 0 \/ ShortOf(o)' = 0
  <2>1. \A c \in Contracts : ShortOf(c)' \in Nat BY <1>7
  <2>2. \A c, o \in Contracts : c # o /\ KeyOf(c) = KeyOf(o) => ShortOf(c) = 0 \/ ShortOf(o) = 0
    BY <1>1, <1>7, ShortIsActive
  <2> QED BY <1>7, <2>1, <2>2
<1>9. \A f : Total(f, tape) = 0 BY <1>2, TotalEmpty
<1>10. Len(tape) = 0 /\ tape' = <<>> /\ Len(tape') = 0 BY <1>2
<1>11. \A kind, c : ~Comes(kind, c) BY <1>10 DEF Comes
<1>12. \A c \in Contracts : ~Lapsing(c) => held[c] = ShortOf(c)
  <2> SUFFICES ASSUME NEW c \in Contracts, ~Lapsing(c) PROVE held[c] = ShortOf(c) OBVIOUS
  <2>1. CASE feed = "poll"
    <3>1. held[c] = Level(c, tape) BY <2>1 DEF Inv, BooksOK, PollOK
    <3>2. Level(c, tape) = ShortOf(c) + 0 BY <1>9 DEF Level
    <3> QED BY <1>7, <3>1, <3>2
  <2>2. CASE feed # "poll"
    <3>1. held[c] = ShortOf(c) - Buys(c) + Sells(c) BY <1>11, <2>2 DEF Inv, BooksOK, FlexOK
    <3>2. Buys(c) = 0 /\ Sells(c) = 0 BY <1>9 DEF Buys, Sells
    <3> QED BY <1>7, <3>1, <3>2
  <2> QED BY <2>1, <2>2
<1>13. \A c \in Contracts : held[c] = ShortOf(c)'
  <2> SUFFICES ASSUME NEW c \in Contracts PROVE held[c] = ShortOf(c)' OBVIOUS
  <2>1. CASE c.expiry <= day BY <1>5, <1>7, <2>1
  <2>2. CASE ~(c.expiry <= day)
    <3>1. ~Lapsing(c) BY <1>4, <2>2 DEF Lapsing
    <3> QED BY <1>7, <1>12, <2>2, <3>1
  <2> QED BY <2>1, <2>2
<1>14. ASSUME feed = "poll" PROVE PollOK'
  <2>1. PollOK BY <1>14 DEF Inv, BooksOK
  <2>2. \A c \in Contracts : (ShortOf(c) + Total(DeltaOf(c), <<>>))' = ShortOf(c)'
    <3>1. \A c \in Contracts : ShortOf(c)' + Total(DeltaOf(c), <<>>) = ShortOf(c)' BY <1>8, TotalEmpty
    <3> QED BY <3>1
  <2>3. (\A i \in 0..Len(tape) : LevelsOK(SubSeq(tape, 1, i)))'
    <3> SUFFICES ASSUME NEW i \in 0..Len(tape') PROVE LevelsOK(SubSeq(tape, 1, i))' OBVIOUS
    <3>1. SubSeq(tape', 1, i) = <<>> BY <1>10
    <3>2. LevelsOK(SubSeq(tape, 1, i))' <=>
            /\ \A c \in Contracts : ShortOf(c)' + Total(DeltaOf(c), SubSeq(tape', 1, i)) >= 0
            /\ \A c, o \in Contracts : c # o /\ KeyOf(c) = KeyOf(o) =>
                 \/ ShortOf(c)' + Total(DeltaOf(c), SubSeq(tape', 1, i)) = 0
                 \/ ShortOf(o)' + Total(DeltaOf(o), SubSeq(tape', 1, i)) = 0
      BY DEF LevelsOK, Level
    <3>3. \A c \in Contracts : ShortOf(c)' + Total(DeltaOf(c), SubSeq(tape', 1, i)) = ShortOf(c)'
      <4> SUFFICES ASSUME NEW c \in Contracts
                   PROVE ShortOf(c)' + Total(DeltaOf(c), SubSeq(tape', 1, i)) = ShortOf(c)'
        OBVIOUS
      <4>1. Total(DeltaOf(c), SubSeq(tape', 1, i)) = 0 BY <3>1, TotalEmpty
      <4>2. ShortOf(c)' \in Nat BY <1>8
      <4> HIDE DEF ShortOf
      <4> QED BY <4>1, <4>2
    <3>4. /\ \A c \in Contracts : ShortOf(c)' >= 0
          /\ \A c, o \in Contracts : c # o /\ KeyOf(c) = KeyOf(o) => ShortOf(c)' = 0 \/ ShortOf(o)' = 0
      BY <1>8
    <3> HIDE DEF Level, LevelsOK, ShortOf
    <3>5. \A c \in Contracts : ShortOf(c)' + Total(DeltaOf(c), SubSeq(tape', 1, i)) >= 0 BY <3>3, <3>4
    <3>6. \A c, o \in Contracts : c # o /\ KeyOf(c) = KeyOf(o) =>
            \/ ShortOf(c)' + Total(DeltaOf(c), SubSeq(tape', 1, i)) = 0
            \/ ShortOf(o)' + Total(DeltaOf(o), SubSeq(tape', 1, i)) = 0
      BY <3>3, <3>4
    <3> QED BY <3>2, <3>5, <3>6
  <2>4. (\A c \in Contracts : held[c] = Level(c, tape) \/ Lapsing(c))'
    <3> SUFFICES ASSUME NEW c \in Contracts PROVE held'[c] = Level(c, tape)' OBVIOUS
    <3>1. Level(c, tape)' = ShortOf(c)' + Total(DeltaOf(c), tape') BY DEF Level
    <3>2. Total(DeltaOf(c), tape') = 0 BY <1>10, TotalEmpty
    <3> QED BY <1>2, <1>8, <1>13, <3>1, <3>2
  <2>5. (\A i, j \in 1..Len(tape) : i < j /\ tape[i].kind \notin UserKinds => tape[j].kind \notin UserKinds)'
    BY <1>10
  <2>6. \A right : ~Settling(right)' BY <1>10 DEF Settling
  <2>7. (Total(LongOf, chains) = 0 \/ Total(CoverOf, chains) = 0)' BY <1>2, <2>1 DEF PollOK
  <2> QED BY <2>3, <2>4, <2>5, <2>6, <2>7 DEF PollOK
<1>15. ASSUME feed # "poll" PROVE FlexOK'
  <2>1. \A c : Buys(c)' = 0 /\ Sells(c)' = 0 BY <1>10, TotalEmpty DEF Buys, Sells
  <2>2. (\A c \in Contracts : Buys(c) <= ShortOf(c))'
    <3>1. \A c \in Contracts : 0 <= ShortOf(c)' BY <1>8
    <3> QED BY <2>1, <3>1
  <2>3. (\A c \in Contracts :
           \/ held[c] = ShortOf(c) - Buys(c) + Sells(c)
           \/ Lapsing(c)
           \/ held[c] = 0 /\ Comes("assigned", c))'
    <3> SUFFICES ASSUME NEW c \in Contracts PROVE held'[c] = ShortOf(c)' - Buys(c)' + Sells(c)' OBVIOUS
    <3>1. ShortOf(c)' - 0 + 0 = ShortOf(c)' BY <1>8
    <3> QED BY <1>2, <1>13, <2>1, <3>1
  <2>4. (\A c, o \in Contracts : c # o /\ KeyOf(c) = KeyOf(o) /\ Sells(c) > 0 =>
           ShortOf(o) = Buys(o) /\ Sells(o) = 0)'
    <3>1. ~(0 > 0) OBVIOUS
    <3> QED BY <2>1, <3>1
  <2>5. (\A i, j \in 1..Len(tape) : tape[i].kind \in SettleKinds /\ tape[j].kind \in {"sell", "buy"} =>
           tape[i].contract.right # tape[j].contract.right)'
    BY <1>10
  <2>6. AssignedOK' /\ ExpiryOK' /\ DeliveryOK' BY <1>10 DEF AssignedOK, ExpiryOK, DeliveryOK
  <2> QED BY <2>2, <2>3, <2>4, <2>5, <2>6 DEF FlexOK
<1> QED BY <1>2, <1>3, <1>6, <1>14, <1>15 DEF BooksOK

(***************************************************************************)
(* The inductive invariant.                                                *)
(***************************************************************************)
LEMMA InitInv ==
  ASSUME Init PROVE Inv
<1>1. TypeOK BY InitTyped
<1>2. /\ day = 1 /\ phase = "trade" /\ held = [c \in Contracts |-> 0] /\ shares = 0 /\ cash = 0
      /\ tape = <<>> /\ chains = <<>> /\ active = [k \in Keys |-> 0]
  BY DEF Init
<1>3. Len(tape) = 0 /\ Len(chains) = 0 BY <1>2
<1>4. \A f : Total(f, tape) = 0 /\ Total(f, chains) = 0 BY <1>2, TotalEmpty
<1>5. Orderly BY <1>2, <1>3 DEF Orderly, AllSound, KeysFit, GoneClosed
<1>6. RowsOK /\ DueOK /\ FlatOK BY <1>2, <1>3 DEF RowsOK, DueOK, FlatOK
<1>7. CashOK /\ SharesOK BY <1>2, <1>4 DEF CashOK, SharesOK
<1>8. \A c \in Contracts : ShortOf(c) = 0 /\ held[c] = 0
  <2>1. \A c \in Contracts : KeyOf(c) \in Keys BY KeysTyped
  <2> QED BY <1>2, <2>1 DEF ShortOf
<1>9. PollOK
  <2>1. ASSUME NEW i \in 0..Len(tape) PROVE LevelsOK(SubSeq(tape, 1, i))
    <3>1. SubSeq(tape, 1, i) = <<>> BY <1>2, <1>3
    <3>2. \A c \in Contracts : Level(c, SubSeq(tape, 1, i)) = 0
      <4>1. \A c : Total(DeltaOf(c), SubSeq(tape, 1, i)) = 0 BY <3>1, TotalEmpty
      <4> QED BY <1>8, <4>1 DEF Level
    <3> QED BY <3>2 DEF LevelsOK
  <2>2. \A c \in Contracts : held[c] = Level(c, tape) BY <1>4, <1>8 DEF Level
  <2>3. \A right : ~Settling(right) BY <1>3 DEF Settling
  <2>4. \A i, j \in 1..Len(tape) : i < j /\ tape[i].kind \notin UserKinds => tape[j].kind \notin UserKinds
    BY <1>3
  <2> QED BY <1>4, <2>1, <2>2, <2>3, <2>4 DEF PollOK
<1>10. FlexOK
  <2>1. \A c : Buys(c) = 0 /\ Sells(c) = 0 BY <1>4 DEF Buys, Sells
  <2>2. AssignedOK /\ ExpiryOK /\ DeliveryOK BY <1>3 DEF AssignedOK, ExpiryOK, DeliveryOK
  <2>3. \A i, j \in 1..Len(tape) : tape[i].kind \in SettleKinds /\ tape[j].kind \in {"sell", "buy"} =>
          tape[i].contract.right # tape[j].contract.right
    BY <1>3
  <2> QED BY <1>8, <2>1, <2>2, <2>3 DEF FlexOK
<1> QED BY <1>1, <1>5, <1>6, <1>7, <1>9, <1>10 DEF Inv, BooksOK

\* Reading a row keeps the books.
LEMMA ReadStep ==
  ASSUME Inv, Followed, NEW i, ReadRow(i)
  PROVE Orderly' /\ BooksOK'
<1>1. Orderly' BY RowsAreReady DEF Effect
<1>2. RowsOK' /\ DueOK' /\ CashOK' /\ SharesOK' /\ FlatOK' BY ReadBooks
<1>3. feed' = feed BY TapeRead DEF Inv
<1> QED BY <1>1, <1>2, <1>3, ReadPoll, ReadFlex DEF BooksOK

\* Every step keeps the invariant.
LEMMA InvStep ==
  ASSUME Inv, Followed, [Next]_vars
  PROVE Inv'
<1>1. TypeOK' BY StepTyped DEF Inv
<1>2. CASE \E c \in Contracts, q \in 1..MaxLots :
             SellToOpen(c, q) \/ BuyToClose(c, q) \/ \E side \in {"B", "S"} : TradeShares(c, side, q)
  BY <1>1, <1>2, SellStep, BuyStep, SharesStep DEF Inv
<1>3. CASE \E c \in Contracts :
             \/ \E q \in 1..MaxLots : Assign(c, q)
             \/ \E kinds \in {<<>>, <<"eae">>, <<"zero">>, <<"zero", "eae">>} : Expire(c, kinds)
  BY <1>1, <1>3, AssignStep, ExpireStep DEF Inv
<1>4. CASE MarketCloses \/ BooksClose BY <1>1, <1>4, CloseStep DEF Inv
<1>5. CASE NextDay BY <1>1, <1>5, NextDayStep DEF Inv
<1>6. CASE \E i \in 1..Len(tape) : ReadRow(i) BY <1>1, <1>6, ReadStep DEF Inv
<1>7. CASE UNCHANGED vars
  <2>1. /\ day' = day /\ phase' = phase /\ feed' = feed /\ held' = held /\ shares' = shares
        /\ cash' = cash /\ tape' = tape /\ chains' = chains /\ active' = active
    BY <1>7 DEF vars, account
  <2> HIDE DEF vars
  <2> USE <2>1
  <2>2. Orderly' BY StayOrderly DEF Inv
  <2>3. RowsOK' BY DEF Inv, BooksOK, RowsOK, RowOK
  <2>4. DueOK' /\ CashOK' /\ SharesOK' BY DEF Inv, BooksOK, DueOK, CashOK, SharesOK
  <2>5. FlatOK' BY DEF Inv, BooksOK, FlatOK, Flat, KeyOfChain, KeyOf
  <2>6. feed = "poll" => PollOK'
    BY DEF Inv, BooksOK, PollOK, LevelsOK, Level, ShortOf, Live, KeyOf, Lapsing, Settling
  <2>7. feed # "poll" => FlexOK' BY SameFlex DEF ChainsStay
  <2> QED BY <1>1, <2>2, <2>3, <2>4, <2>5, <2>6, <2>7 DEF Inv, BooksOK
<1> QED BY <1>2, <1>3, <1>4, <1>5, <1>6, <1>7 DEF Next, UserTrades, BrokerSettles

\* Chains, account and rows to come agree after every row build_roll_chains reads,
\* if the account has one feed and none of the histories the builder does not
\* follow.
THEOREM BooksHold == ASSUME Followed PROVE Spec => []Inv
<1>1. Init => Inv BY InitInv
<1>2. Inv /\ [Next]_vars => Inv' BY InvStep
<1> QED BY <1>1, <1>2, PTL DEF Spec

(***************************************************************************)
(* What a rebuild stores.                                                  *)
(***************************************************************************)
\* The chain that the end of the data leaves, for each the builder made.
LEMMA Ended ==
  ASSUME Inv, Rebuilt, NEW n \in 1..Len(chains)
  PROVE LET ch == EndOfData(n) IN
        /\ ch \in Chain /\ ChainOK(ch) /\ Same(chains[n], ch) /\ ch.conids = chains[n].conids
        /\ ch.stk_pos = chains[n].stk_pos /\ ch.cumulative_credit = chains[n].cumulative_credit
        /\ ch.opt_pos = IF chains[n].current_expiry < day + 1 THEN 0 ELSE chains[n].opt_pos
        /\ Flat(ch) => ch.status = "closed"
        /\ n \notin Active => ch.status = "closed"
<1> DEFINE old == chains[n]
           ch == EndOfData(n)
<1>1. TypeOK /\ Orderly /\ FlatOK BY DEF Inv, BooksOK
<1>2. old \in Chain /\ ChainOK(old) BY <1>1 DEF TypeOK, Orderly, AllSound
<1>3. Len(tape) = 0 BY DEF Rebuilt
<1>4. Flat(old) => old.status = "closed" BY <1>1, <1>3 DEF FlatOK
<1>5. n \notin Active => old.status = "closed" BY <1>1 DEF Orderly, GoneClosed
<1>6. day + 1 \in 1..(MaxDay + 1) /\ day \in Nat BY <1>1, BoundsAreTyped DEF TypeOK
<1>7. ch = IF n \in Active /\ old.status = "open" THEN Lapse(old, day + 1) ELSE old BY DEF EndOfData
<1> HIDE DEF old, ch
<1>8. old.opt_pos \in Int /\ old.status \in {"open", "closed"} BY <1>2 DEF Chain
<1>9. CASE n \in Active /\ old.status = "open"
  <2>1. ch = Lapse(old, day + 1) BY <1>7, <1>9
  <2>2. /\ ch \in Chain /\ ChainOK(ch) /\ Same(old, ch)
        /\ ch.opt_pos = IF old.current_expiry < day + 1 THEN 0 ELSE old.opt_pos
        /\ ch.stk_pos = old.stk_pos /\ ch.cumulative_credit = old.cumulative_credit
        /\ ch.conids = old.conids
        /\ ~Flat(old) /\ Flat(ch) => ch.status = "closed"
    BY <1>2, <1>6, <2>1, LapseSound
  <2>3. ~Flat(old) BY <1>4, <1>9
  <2> QED BY <1>9, <2>2, <2>3 DEF ch, old
<1>10. CASE ~(n \in Active /\ old.status = "open")
  <2>1. ch = old /\ old.status = "closed" BY <1>5, <1>7, <1>8, <1>10
  <2>2. old.opt_pos = 0 BY <1>2, <2>1 DEF ChainOK, Flat
  <2>3. Same(old, ch) BY <2>1 DEF Same
  <2> QED BY <1>2, <2>1, <2>2, <2>3 DEF ch, old
<1> QED BY <1>9, <1>10

\* The account's shorts are those of the chains that have not expired.
LEMMA ShortsLeft ==
  ASSUME Inv, Followed, Rebuilt, NEW c \in Contracts
  PROVE /\ held[c] = IF c.expiry <= day THEN 0 ELSE ShortOf(c)
        /\ ShortOf(c) \in Nat /\ c.expiry \in Nat /\ day \in Nat
<1>1. TypeOK /\ Orderly /\ DueOK BY DEF Inv, BooksOK
<1>2. ShortOf(c) \in Nat /\ c.expiry \in Nat /\ day \in Nat
  BY <1>1, ShortTypes, KeysTyped, BoundsAreTyped DEF TypeOK
<1>3. tape = <<>> /\ Len(tape) = 0 /\ phase = "read" BY DEF Rebuilt
<1>4. \A f : Total(f, tape) = 0 BY <1>3, TotalEmpty
<1>5. CASE c.expiry <= day BY <1>1, <1>2, <1>3, <1>5 DEF DueOK
<1>6. CASE ~(c.expiry <= day)
  <2>1. ~Lapsing(c) BY <1>2, <1>6 DEF Lapsing
  <2>2. CASE feed = "poll"
    <3>1. held[c] = Level(c, tape) BY <2>1, <2>2 DEF Inv, BooksOK, PollOK
    <3>2. Level(c, tape) = ShortOf(c) + 0 BY <1>4 DEF Level
    <3> QED BY <1>2, <1>6, <3>1, <3>2
  <2>3. CASE feed # "poll"
    <3>1. ~Comes("assigned", c) BY <1>3 DEF Comes
    <3>2. held[c] = ShortOf(c) - Buys(c) + Sells(c) BY <2>1, <2>3, <3>1 DEF Inv, BooksOK, FlexOK
    <3>3. Buys(c) = 0 /\ Sells(c) = 0 BY <1>4 DEF Buys, Sells
    <3> QED BY <1>2, <1>6, <3>2, <3>3
  <2> QED BY <2>2, <2>3
<1> QED BY <1>2, <1>5, <1>6

\* A chain is short of the contract of its last sale, at the end, what the account is.
LEMMA ShortsAgree ==
  ASSUME Inv, Followed, Rebuilt, NEW c \in Contracts
  PROVE /\ held[c] \in Nat
        /\ held[c] > 0 =>
             LET n == active[KeyOf(c)] IN
             n \in Active /\ n \in 1..Len(chains) /\ EndOfData(n).opt_pos = -held[c]
             /\ chains[n].last_conid = c /\ KeyOfChain(chains[n]) = KeyOf(c)
        /\ \A n \in 1..Len(chains) : chains[n].last_conid = c /\ EndOfData(n).opt_pos # 0 =>
             n = active[KeyOf(c)] /\ EndOfData(n).opt_pos = -held[c] /\ n \in Active
<1>1. TypeOK /\ Orderly BY DEF Inv
<1>2. /\ held[c] = IF c.expiry <= day THEN 0 ELSE ShortOf(c)
      /\ ShortOf(c) \in Nat /\ c.expiry \in Nat /\ day \in Nat
  BY ShortsLeft
<1>3. held[c] \in Nat BY <1>2
<1>4. ASSUME held[c] > 0
      PROVE LET n == active[KeyOf(c)] IN
            n \in Active /\ n \in 1..Len(chains) /\ EndOfData(n).opt_pos = -held[c]
            /\ chains[n].last_conid = c /\ KeyOfChain(chains[n]) = KeyOf(c)
  <2> DEFINE n == active[KeyOf(c)]
  <2>1. ~(c.expiry <= day) /\ ShortOf(c) = held[c] BY <1>2, <1>4
  <2>2. /\ KeyOf(c) \in Keys /\ n # 0 /\ n \in 1..Len(chains) /\ n \in Active
        /\ chains[n].last_conid = c /\ chains[n].opt_pos = -ShortOf(c)
    BY <1>1, <1>4, <2>1, ShortIsActive
  <2>3. KeyOfChain(chains[n]) = KeyOf(c) /\ ChainOK(chains[n]) BY <1>1, <2>2, ActiveFacts
  <2> HIDE DEF n
  <2>4. chains[n].current_expiry = c.expiry BY <2>2, <2>3 DEF ChainOK
  <2>5. ~(chains[n].current_expiry < day + 1) BY <1>2, <2>1, <2>4
  <2>6. EndOfData(n).opt_pos = chains[n].opt_pos BY <2>2, <2>5, Ended
  <2> QED BY <2>1, <2>2, <2>3, <2>6 DEF n
<1>5. ASSUME NEW n \in 1..Len(chains), chains[n].last_conid = c, EndOfData(n).opt_pos # 0
      PROVE n = active[KeyOf(c)] /\ EndOfData(n).opt_pos = -held[c] /\ n \in Active
  <2> DEFINE ch == EndOfData(n)
             old == chains[n]
  <2>1. /\ ch \in Chain /\ ChainOK(ch) /\ Same(old, ch)
        /\ ch.opt_pos = IF old.current_expiry < day + 1 THEN 0 ELSE old.opt_pos
        /\ n \notin Active => ch.status = "closed"
    BY Ended
  <2>2. ch.opt_pos # 0 BY <1>5
  <2> HIDE DEF ch
  <2>3. n \in Active BY <2>1, <2>2 DEF ChainOK, Flat
  <2>4. old \in Chain /\ ChainOK(old) /\ active[KeyOfChain(old)] = n BY <1>1, <2>3, ActiveKey
  <2>5. old.last_conid = c BY <1>5
  <2> HIDE DEF old
  <2>6. KeyOfChain(old) = KeyOf(c) /\ old.current_expiry = c.expiry BY <2>4, <2>5 DEF ChainOK
  <2>7. ~(c.expiry < day + 1) /\ ch.opt_pos = old.opt_pos BY <2>1, <2>2, <2>6
  <2>8. ~(c.expiry <= day) /\ day <= c.expiry BY <1>2, <2>7
  <2>9. old.opt_pos \in Int BY <2>4 DEF Chain
  <2>10. n # 0 BY DEF Active
  <2>11. ShortOf(c) = Live(old, c) BY <2>4, <2>6, <2>10 DEF ShortOf, old
  <2>12. ShortOf(c) = -old.opt_pos BY <2>5, <2>8, <2>11 DEF Live
  <2>13. ch.opt_pos = -held[c] BY <1>2, <2>7, <2>8, <2>9, <2>12
  <2> QED BY <2>3, <2>4, <2>6, <2>13 DEF ch, old
<1> QED BY <1>3, <1>4, <1>5

\* The account's cash and shares are in the chains.
LEMMA BooksAgree ==
  ASSUME Inv, Followed, Rebuilt
  PROVE /\ cash = Total(CreditOf, chains)
        /\ shares = Total(LongOf, chains) - Total(CoverOf, chains)
<1>1. TypeOK /\ CashOK /\ SharesOK BY DEF Inv, BooksOK
<1>2. \A f : Total(f, tape) = 0 BY TotalEmpty DEF Rebuilt
<1>3. Total(CreditOf, chains) \in Int /\ Total(LongOf, chains) \in Nat /\ Total(CoverOf, chains) \in Nat
  BY <1>1, ChainTotals
<1>4. cash = Total(CreditOf, chains) + 0 BY <1>1, <1>2 DEF CashOK
<1>5. shares = (Total(LongOf, chains) - 0 + 0) - (Total(CoverOf, chains) - 0 + 0) BY <1>1, <1>2 DEF SharesOK
<1> QED BY <1>3, <1>4, <1>5

\* The chains show the account's shorts, strike by strike.
LEMMA ShortsMatchHolds ==
  ASSUME Inv, Followed PROVE ShortsMatch
<1> SUFFICES ASSUME Rebuilt, NEW k \in Keys
             PROVE SumOf(LAMBDA c : held[c], {c \in Contracts : KeyOf(c) = k}) =
                   SumOf(LAMBDA n : -EndOfData(n).opt_pos,
                         {n \in Active : <<chains[n].right, chains[n].strike>> = k})
  BY DEF ShortsMatch
<1>1. TypeOK /\ Orderly BY DEF Inv
<1> DEFINE A == {c \in Contracts : KeyOf(c) = k}
           B == {n \in Active : KeyOfChain(chains[n]) = k}
           f == [c \in A |-> held[c]]
           g == [n \in B |-> -EndOfData(n).opt_pos]
<1>2. SumOf(LAMBDA c : held[c], {c \in Contracts : KeyOf(c) = k}) = SumFunctionOnSet(f, A)
  BY DEF SumOf, SumFunction
<1>3. SumOf(LAMBDA n : -EndOfData(n).opt_pos, {n \in Active : <<chains[n].right, chains[n].strike>> = k})
      = SumFunctionOnSet(g, B)
  BY DEF SumOf, SumFunction, KeyOfChain
<1>4. IsFiniteSet(A) BY ContractsAreTyped, FS_Subset
<1>5. \A c \in A : c \in Contracts /\ KeyOf(c) = k /\ f[c] = held[c] /\ held[c] \in Nat BY ShortsAgree
<1>6. \A n \in B : n \in Active /\ n \in 1..Len(chains) /\ KeyOfChain(chains[n]) = k
                   /\ n = active[k] /\ g[n] = -EndOfData(n).opt_pos /\ n # 0
  <2>1. \A n \in B : n \in Active /\ KeyOfChain(chains[n]) = k OBVIOUS
  <2>2. \A n \in Active : active[KeyOfChain(chains[n])] = n /\ n \in 1..Len(chains) /\ n # 0
    BY <1>1, ActiveKey DEF Active
  <2> HIDE DEF KeyOfChain
  <2> QED BY <2>1, <2>2
<1>7. active[k] # 0 => active[k] \in B BY <1>1, ActiveFacts
<1>8. \A n \in B : EndOfData(n) \in Chain /\ EndOfData(n).opt_pos \in Int
  <2>1. \A n \in B : EndOfData(n) \in Chain BY <1>6, Ended
  <2>2. \A ch \in Chain : ch.opt_pos \in Int BY DEF Chain
  <2> QED BY <2>1, <2>2
<1> HIDE DEF A, B, f, g
<1>9. CASE \E c \in A : held[c] > 0
  <2>1. PICK c \in A : held[c] > 0 BY <1>9
  <2> DEFINE n == active[KeyOf(c)]
  <2>2. /\ n \in Active /\ EndOfData(n).opt_pos = -held[c] /\ n \in 1..Len(chains)
        /\ KeyOfChain(chains[n]) = KeyOf(c) /\ chains[n].last_conid = c
    BY <1>5, <2>1, ShortsAgree
  <2>3. n = active[k] /\ n \in B /\ B = {n}
    <3>1. n = active[k] /\ n # 0 BY <1>5, <2>2 DEF Active
    <3> QED BY <1>6, <1>7, <3>1
  <2> HIDE DEF n
  <2>4. \A o \in A \ {c} : f[o] = 0
    <3> SUFFICES ASSUME NEW o \in A \ {c}, held[o] > 0 PROVE FALSE
      <4>1. \A x \in Nat : ~(x > 0) => x = 0 OBVIOUS
      <4> QED BY <1>5, <4>1
    <3>1. chains[active[KeyOf(o)]].last_conid = o BY <1>5, ShortsAgree
    <3> QED BY <1>5, <2>2, <2>3, <3>1
  <2>5. SumFunctionOnSet(f, A) = held[c]
    <3>1. f[c] = held[c] /\ f[c] \in Int BY <1>5
    <3> QED BY <1>4, <2>4, <3>1, SumSingle
  <2>6. SumFunctionOnSet(g, B) = held[c]
    <3>1. g[n] = -EndOfData(n).opt_pos BY <1>6, <2>3
    <3>2. g[n] = held[c] /\ g[n] \in Int
      <4>1. \A x, y \in Int : y = -x => -y = x OBVIOUS
      <4>2. held[c] \in Int /\ EndOfData(n).opt_pos \in Int BY <1>5, <1>8, <2>3
      <4> QED BY <2>2, <3>1, <4>1, <4>2
    <3>3. IsFiniteSet(B) BY <2>3, FS_Singleton
    <3> QED BY <2>3, <3>2, <3>3, SumSingle
  <2> QED BY <1>2, <1>3, <2>5, <2>6
<1>10. CASE \A c \in A : ~(held[c] > 0)
  <2>1. \A c \in A : f[c] = 0
    <3>1. \A x \in Nat : ~(x > 0) => x = 0 OBVIOUS
    <3> QED BY <1>5, <1>10, <3>1
  <2>2. \A n \in B : g[n] = 0
    <3> SUFFICES ASSUME NEW n \in B PROVE g[n] = 0 OBVIOUS
    <3> DEFINE c == chains[n].last_conid
    <3>1. /\ chains[n] \in Chain /\ ChainOK(chains[n]) /\ KeyOfChain(chains[n]) = k BY <1>1, <1>6, ActiveKey
    <3>2. c \in Contracts /\ KeyOf(c) = k BY <3>1 DEF Chain, ChainOK
    <3>3. c \in A BY <3>2 DEF A
    <3>4. EndOfData(n).opt_pos # 0 => EndOfData(n).opt_pos = -held[c] BY <1>6, <3>2, ShortsAgree
    <3> HIDE DEF c
    <3>5. EndOfData(n).opt_pos = 0
      <4>1. held[c] = 0
        <5>1. \A x \in Nat : ~(x > 0) => x = 0 OBVIOUS
        <5> QED BY <1>5, <1>10, <3>3, <5>1
      <4>2. held[c] \in Int /\ held[c] <= 0 /\ held[c] >= 0 BY <4>1
      <4>3. -held[c] = 0 BY <4>2, MinusZero
      <4> QED BY <3>4, <4>3
    <3>6. g[n] = -EndOfData(n).opt_pos BY <1>6
    <3>7. EndOfData(n).opt_pos \in Int /\ EndOfData(n).opt_pos <= 0 /\ EndOfData(n).opt_pos >= 0 BY <3>5
    <3>8. -EndOfData(n).opt_pos = 0 BY <3>7, MinusZero
    <3> QED BY <3>6, <3>8
  <2>3. IsFiniteSet(B)
    <3>1. B \subseteq {active[k]} BY <1>6
    <3>2. IsFiniteSet({active[k]}) BY FS_Singleton
    <3> QED BY <3>1, <3>2, FS_Subset
  <2> QED BY <1>2, <1>3, <1>4, <2>1, <2>2, <2>3, SumZero
<1> QED BY <1>9, <1>10

\* open_credit and status follow from what each chain holds.
LEMMA ChainsSettleHolds ==
  ASSUME Inv PROVE ChainsSettle
<1> SUFFICES ASSUME Rebuilt, NEW n \in 1..Len(chains)
             PROVE LET ch == EndOfData(n) IN
                   /\ ch.open_credit = (IF ch.opt_pos < 0 THEN -ch.opt_pos ELSE 0)
                   /\ ch.status = "closed" <=> ch.opt_pos >= 0 /\ ch.stk_pos = 0
  BY DEF ChainsSettle
<1> DEFINE ch == EndOfData(n)
<1>1. ch \in Chain /\ ChainOK(ch) /\ (Flat(ch) => ch.status = "closed") BY Ended
<1> HIDE DEF ch
<1>2. ch.opt_pos \in Int /\ ch.opt_pos <= 0 /\ ch.open_credit = -ch.opt_pos
  BY <1>1 DEF Chain, ChainOK, Sound
<1>3. ch.open_credit = (IF ch.opt_pos < 0 THEN -ch.opt_pos ELSE 0)
  <2>1. ~(ch.opt_pos < 0) => ch.opt_pos = 0 BY <1>2
  <2> QED BY <1>2, <2>1, MinusZero
<1>4. ch.opt_pos >= 0 <=> ch.opt_pos = 0 BY <1>2
<1>5. ch.status = "closed" <=> ch.opt_pos >= 0 /\ ch.stk_pos = 0 BY <1>1, <1>4 DEF ChainOK, Flat
<1> QED BY <1>3, <1>5 DEF ch

\* The positions panel finds a short's chain.
LEMMA PositionsHold ==
  ASSUME Inv, Followed PROVE PositionsFindTheirChain
<1> SUFFICES ASSUME Rebuilt, NEW c \in Contracts, held[c] > 0
             PROVE \E n \in OpenChainsOf(c) :
                     /\ {m \in OpenChainsOf(c) : <<chains[m].right, chains[m].strike>> = KeyOf(c)} = {n}
                     /\ EndOfData(n).opt_pos < 0
  BY DEF PositionsFindTheirChain
<1> DEFINE n == active[KeyOf(c)]
<1>1. TypeOK /\ Orderly BY DEF Inv
<1>2. /\ n \in Active /\ n \in 1..Len(chains) /\ EndOfData(n).opt_pos = -held[c]
      /\ chains[n].last_conid = c /\ KeyOfChain(chains[n]) = KeyOf(c) /\ held[c] \in Nat
  BY ShortsAgree
<1> HIDE DEF n
<1>3. EndOfData(n).opt_pos < 0 BY <1>2
<1>4. /\ EndOfData(n) \in Chain /\ ChainOK(EndOfData(n)) /\ EndOfData(n).conids = chains[n].conids
  BY <1>2, Ended
<1>5. EndOfData(n).status = "open"
  <2>1. EndOfData(n).status # "closed" BY <1>3, <1>4 DEF ChainOK, Flat
  <2> QED BY <1>4, <2>1 DEF Chain
<1>6. c \in chains[n].conids BY <1>1, <1>2, ActiveKey DEF ChainOK
<1>7. n \in OpenChainsOf(c) BY <1>2, <1>5, <1>6 DEF OpenChainsOf
<1>8. ASSUME NEW m \in OpenChainsOf(c), KeyOfChain(chains[m]) = KeyOf(c) PROVE m = n
  <2>1. m \in 1..Len(chains) /\ EndOfData(m).status = "open" BY DEF OpenChainsOf
  <2>2. m \in Active BY <2>1, Ended
  <2>3. active[KeyOfChain(chains[m])] = m BY <1>1, <2>2, ActiveKey
  <2> QED BY <1>8, <2>3 DEF n
<1>9. {m \in OpenChainsOf(c) : <<chains[m].right, chains[m].strike>> = KeyOf(c)} = {n}
  BY <1>2, <1>7, <1>8 DEF KeyOfChain
<1> QED BY <1>3, <1>7, <1>9

\* The account's cash and shares are the chains'.
LEMMA CashMatchesHolds ==
  ASSUME Inv, Followed PROVE CashMatches
<1> SUFFICES ASSUME Rebuilt
             PROVE /\ cash = SumOf(LAMBDA n : chains[n].cumulative_credit, 1..Len(chains))
                   /\ shares = SumOf(LAMBDA n : chains[n].stk_pos, 1..Len(chains))
  BY DEF CashMatches
<1> DEFINE S == 1..Len(chains)
           credit == [n \in S |-> chains[n].cumulative_credit]
           stock == [n \in S |-> chains[n].stk_pos]
           Of(f) == [n \in S |-> f[chains[n]]]
<1>1. chains \in Seq(Chain) BY DEF Inv, TypeOK
<1>2. IsFiniteSet(S) /\ \A n \in S : chains[n] \in Chain BY <1>1, FS_Interval
<1>3. /\ cash = SumFunctionOnSet(Of(CreditOf), S)
      /\ shares = SumFunctionOnSet(Of(LongOf), S) - SumFunctionOnSet(Of(CoverOf), S)
  BY BooksAgree DEF Total
<1>4. SumOf(LAMBDA n : chains[n].cumulative_credit, 1..Len(chains)) = SumFunctionOnSet(credit, S)
  BY DEF SumOf, SumFunction
<1>5. SumOf(LAMBDA n : chains[n].stk_pos, 1..Len(chains)) = SumFunctionOnSet(stock, S)
  BY DEF SumOf, SumFunction
<1>6. \A n \in S : Of(CreditOf)[n] = credit[n] BY <1>2 DEF CreditOf
<1>7. \A n \in S : /\ Of(LongOf)[n] \in Int /\ Of(CoverOf)[n] \in Int
                   /\ stock[n] = Of(LongOf)[n] - Of(CoverOf)[n]
  <2> SUFFICES ASSUME NEW n \in S
               PROVE /\ Of(LongOf)[n] \in Int /\ Of(CoverOf)[n] \in Int
                     /\ stock[n] = Of(LongOf)[n] - Of(CoverOf)[n]
    OBVIOUS
  <2> DEFINE x == chains[n].stk_pos
  <2>1. x \in Int BY <1>2 DEF Chain
  <2>2. Of(LongOf)[n] = (IF x > 0 THEN x ELSE 0) /\ Of(CoverOf)[n] = (IF x < 0 THEN -x ELSE 0) /\ stock[n] = x
    BY <1>2 DEF LongOf, CoverOf
  <2> HIDE DEF x, Of, stock
  <2> QED BY <2>1, <2>2
<1> HIDE DEF S, credit, stock, Of
<1>8. SumFunctionOnSet(Of(CreditOf), S) = SumFunctionOnSet(credit, S) BY <1>2, <1>6, SumAgrees
<1>9. SumFunctionOnSet(stock, S) = SumFunctionOnSet(Of(LongOf), S) - SumFunctionOnSet(Of(CoverOf), S)
  BY <1>2, <1>7, SumMinus
<1> QED BY <1>3, <1>4, <1>5, <1>8, <1>9

\* The chains are short of a contract, together, what the account is.
LEMMA ShortSums ==
  ASSUME Inv, Followed, Rebuilt
  PROVE SumFunctionOnSet([c \in Contracts |-> held[c]], Contracts)
        = SumFunctionOnSet([n \in 1..Len(chains) |-> -EndOfData(n).opt_pos], 1..Len(chains))
<1> DEFINE S == 1..Len(chains)
           f == [n \in S |-> -EndOfData(n).opt_pos]
           k == [n \in S |-> chains[n].last_conid]
           part == [c \in Contracts |-> held[c]]
<1>1. TypeOK /\ chains \in Seq(Chain) BY DEF Inv, TypeOK
<1>2. IsFiniteSet(S) /\ IsFiniteSet(Contracts) BY <1>1, FS_Interval, ContractsAreTyped
<1>3. \A n \in S : k[n] \in Contracts
  <2>1. \A n \in S : chains[n] \in Chain BY <1>1
  <2> QED BY <2>1 DEF Chain
<1>4. \A n \in S : EndOfData(n).opt_pos \in Int
  <2>1. \A n \in S : EndOfData(n) \in Chain BY Ended
  <2>2. \A ch \in Chain : ch.opt_pos \in Int BY DEF Chain
  <2> QED BY <2>1, <2>2
<1>5. \A n \in S : f[n] = -EndOfData(n).opt_pos /\ f[n] \in Int
  <2>1. \A x \in Int : -x \in Int OBVIOUS
  <2> QED BY <1>4, <2>1
<1>6. ASSUME NEW c \in Contracts PROVE part[c] = SumFunctionOnSet(f, Group(S, k, c))
  <2> DEFINE G == Group(S, k, c)
             p == active[KeyOf(c)]
  <2>1. \A n \in G : n \in S /\ chains[n].last_conid = c BY DEF Group
  <2>2. IsFiniteSet(G)
    <3>1. G \subseteq S BY DEF Group
    <3> QED BY <1>2, <3>1, FS_Subset
  <2>3. part[c] = held[c] /\ held[c] \in Nat BY ShortsAgree
  <2>4. held[c] > 0 => p \in G /\ EndOfData(p).opt_pos = -held[c]
    <3>1. held[c] > 0 => p \in S /\ chains[p].last_conid = c /\ EndOfData(p).opt_pos = -held[c]
      BY ShortsAgree
    <3>2. \A n \in S : chains[n].last_conid = c => n \in G BY DEF Group
    <3> HIDE DEF G, p, S
    <3> QED BY <3>1, <3>2
  <2>5. \A n \in G : EndOfData(n).opt_pos # 0 => n = p /\ EndOfData(n).opt_pos = -held[c]
    BY <2>1, ShortsAgree
  <2> HIDE DEF G, p, S, k, f, part
  <2>6. \A x \in Int : x = 0 => -x = 0
    <3>1. \A x \in Int : x = 0 => x <= 0 /\ x >= 0 OBVIOUS
    <3> QED BY <3>1, MinusZero
  <2>7. CASE held[c] > 0
    <3>1. \A n \in G \ {p} : f[n] = 0 BY <1>4, <1>5, <2>1, <2>5, <2>6
    <3>2. \A x, y \in Int : y = -x => -y = x OBVIOUS
    <3>3. f[p] = held[c] /\ f[p] \in Int BY <1>4, <1>5, <2>1, <2>3, <2>4, <2>7, <3>2
    <3> QED BY <2>2, <2>3, <2>4, <2>7, <3>1, <3>3, SumSingle DEF G
  <2>8. CASE ~(held[c] > 0)
    <3>1. held[c] = 0 BY <2>3, <2>8
    <3>2. -held[c] = 0
      <4>1. held[c] \in Int BY <2>3
      <4> QED BY <2>6, <3>1, <4>1
    <3>3. \A n \in G : f[n] = 0 BY <1>4, <1>5, <2>1, <2>5, <2>6, <3>2
    <3> QED BY <2>2, <2>3, <3>1, <3>3, SumZero DEF G
  <2> QED BY <2>7, <2>8 DEF G
<1>7. Groups(S, k, Contracts) = S BY <1>3 DEF Groups
<1> HIDE DEF S, f, k, part
<1>8. SumFunctionOnSet(part, Contracts) = SumFunctionOnSet(f, Groups(S, k, Contracts))
  BY <1>2, <1>5, <1>6, SumGrouped
<1> QED BY <1>7, <1>8 DEF S, f, part

\* The income is the cash without the open premium.
LEMMA IncomeHolds ==
  ASSUME Inv, Followed PROVE IncomeIsBanked
<1> SUFFICES ASSUME Rebuilt
             PROVE ComputeIncome([n \in 1..Len(chains) |-> EndOfData(n)], <<>>).all_time
                   = cash - SumOf(LAMBDA c : held[c], Contracts)
  BY DEF IncomeIsBanked
<1> DEFINE S == 1..Len(chains)
           stored == [n \in S |-> EndOfData(n)]
           credit == [n \in S |-> chains[n].cumulative_credit]
           short == [n \in S |-> -EndOfData(n).opt_pos]
           counted == [n \in S |-> Counted(stored[n])]
<1>1. IsFiniteSet(S)
  <2>1. chains \in Seq(Chain) BY DEF Inv, TypeOK
  <2> QED BY <2>1, FS_Interval
<1>2. ASSUME NEW n \in S
      PROVE credit[n] \in Int /\ short[n] \in Int /\ counted[n] = credit[n] - short[n]
            /\ Counted(stored[n]) \in Int
  <2> DEFINE ch == EndOfData(n)
  <2>1. /\ ch \in Chain /\ ChainOK(ch) /\ ch.cumulative_credit = chains[n].cumulative_credit
        /\ credit[n] = chains[n].cumulative_credit /\ short[n] = -ch.opt_pos
        /\ stored[n] = ch /\ counted[n] = Counted(ch)
    BY Ended
  <2> HIDE DEF ch, credit, short, stored, counted
  <2>2. /\ ch.cumulative_credit \in Int /\ ch.open_credit \in Int /\ ch.opt_pos \in Int
        /\ ch.open_credit = -ch.opt_pos /\ (ch.status = "closed" => ch.opt_pos = 0)
    BY <2>1 DEF Chain, ChainOK, Sound, Flat
  <2>3. Counted(ch) = ch.cumulative_credit - ch.open_credit
    <3>1. CASE ch.status = "closed"
      <4>1. ch.opt_pos \in Int /\ ch.opt_pos <= 0 /\ ch.opt_pos >= 0 BY <2>2, <3>1
      <4>2. ch.open_credit = 0 BY <2>2, <4>1, MinusZero
      <4>3. ch.cumulative_credit = ch.cumulative_credit - ch.open_credit BY <2>2, <4>2
      <4> QED BY <3>1, <4>3 DEF Counted
    <3>2. CASE ch.status # "closed" BY <3>2 DEF Counted
    <3> QED BY <3>1, <3>2
  <2>4. ch.cumulative_credit - ch.open_credit \in Int BY <2>2
  <2> QED BY <2>1, <2>2, <2>3, <2>4
<1>3. DOMAIN stored = S OBVIOUS
<1>4. ComputeIncome(stored, <<>>).all_time = SumFunctionOnSet(counted, S)
  <2> HIDE DEF stored
  <2>1. \A n \in DOMAIN stored : Counted(stored[n]) \in Int BY <1>2, <1>3
  <2> HIDE DEF S
  <2>2. IsFiniteSet(DOMAIN stored) BY <1>1, <1>3
  <2>3. IsFiniteSet(DOMAIN <<>>)
    <3>1. DOMAIN <<>> = {} OBVIOUS
    <3> QED BY <3>1, FS_EmptySet
  <2> HIDE DEF stored, counted
  <2>4. ComputeIncome(stored, <<>>).all_time
        = SumFunctionOnSet([n \in DOMAIN stored |-> Counted(stored[n])], DOMAIN stored)
    BY <2>1, <2>2, <2>3, AllTime
  <2> QED BY <1>3, <2>4 DEF S, counted
<1>5. cash = SumFunctionOnSet(credit, S)
  <2>1. cash = SumOf(LAMBDA n : chains[n].cumulative_credit, 1..Len(chains))
    BY CashMatchesHolds DEF CashMatches
  <2> QED BY <2>1 DEF SumOf, SumFunction
<1>6. SumOf(LAMBDA c : held[c], Contracts) = SumFunctionOnSet(short, S)
  <2>1. SumOf(LAMBDA c : held[c], Contracts) = SumFunctionOnSet([c \in Contracts |-> held[c]], Contracts)
    BY DEF SumOf, SumFunction
  <2> QED BY <2>1, ShortSums
<1>7. ComputeIncome(stored, <<>>).all_time = cash - SumOf(LAMBDA c : held[c], Contracts)
  <2> HIDE DEF S, stored, credit, short, counted
  <2>1. SumFunctionOnSet(counted, S) = SumFunctionOnSet(credit, S) - SumFunctionOnSet(short, S)
    BY <1>1, <1>2, SumMinus
  <2> QED BY <1>4, <1>5, <1>6, <2>1
<1> QED BY <1>7

(***************************************************************************)
(* The theorems: on any history of trades, assignments and expiries that   *)
(* the builder follows.                                                    *)
(***************************************************************************)

\* _build_roll_chains keeps every strike's shorts: the chains show the account's.
THEOREM ShortsAreShown == ASSUME Followed PROVE Spec => []ShortsMatch
<1>1. Inv => ShortsMatch BY ShortsMatchHolds
<1> QED BY <1>1, BooksHold, PTL

\* Every cash flow and every lot of shares is in one chain, once.
THEOREM CashIsInChains == ASSUME Followed PROVE Spec => []CashMatches
<1>1. Inv => CashMatches BY CashMatchesHolds
<1> QED BY <1>1, BooksHold, PTL

\* open_credit rides on the open short; a chain is closed when nothing is left of it.
THEOREM ChainsAreSettled == ASSUME Followed PROVE Spec => []ChainsSettle
<1>1. Inv => ChainsSettle BY ChainsSettleHolds
<1> QED BY <1>1, BooksHold, PTL

\* compute_income's total is the account's cash without the premium still at risk.
THEOREM IncomeBanked == ASSUME Followed PROVE Spec => []IncomeIsBanked
<1>1. Inv => IncomeIsBanked BY IncomeHolds
<1> QED BY <1>1, BooksHold, PTL

\* open_roll_chains finds the one chain that is short at a position's strike.
THEOREM PositionsAreFound == ASSUME Followed PROVE Spec => []PositionsFindTheirChain
<1>1. Inv => PositionsFindTheirChain BY PositionsHold
<1> QED BY <1>1, BooksHold, PTL
=============================================================================
