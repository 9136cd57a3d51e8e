------------------------ MODULE ChainRebuild_proofs ------------------------
(* Proofs about ChainRebuild, for any fills, positions, builders and edits.   *)
EXTENDS ChainRebuild, NaturalsInduction, WellFoundedInduction, TLAPS

\* Induction on numbers, by a least counterexample.
LEMMA LeastNat ==
  ASSUME NEW T, T \subseteq Nat, T # {}
  PROVE \E m \in T : \A t \in T : m <= t
<1>1. \E m \in T : \A t \in T : ~(<<t, m>> \in OpToRel(<, Nat))
  BY NatLessThanWellFounded, WFMin
<1>2. ASSUME NEW m \in T, NEW t \in T, ~(m <= t) PROVE <<t, m>> \in OpToRel(<, Nat)
  BY <1>2 DEF OpToRel
<1> QED BY <1>1, <1>2

-----------------------------------------------------------------------------
(* The automatic pass.  A row's place in the builder's order is a number, so   *)
(* that every position has an opener.                                          *)
Place(q) == 2 * q.fill + (IF q.feed = "poll" THEN 1 ELSE 0)

LEMMA PlaceOfRow ==
  ASSUME NEW q \in TableRows
  PROVE  /\ q.fill \in Fills /\ q.fill \in Nat /\ q.feed \in {"flex", "poll"}
         /\ Place(q) \in Nat
BY MaxFillIsNatural, PollFillsAreFills
  DEF TableRows, FlexRow, PollRow, Place, Fills

LEMMA BeforeIsPlace ==
  ASSUME NEW q \in TableRows, NEW r \in TableRows, Before(q, r)
  PROVE  Place(q) < Place(r)
BY PlaceOfRow DEF Before, Place

\* Every row's position is opened by one of the rows at hand.
LEMMA OpenerExists ==
  ASSUME NEW rs, rs \subseteq TableRows, NEW r \in rs
  PROVE  Opener(rs, r) \in rs
<1> DEFINE T == {Place(q) : q \in {p \in rs : SamePosition(p, r)}}
<1>1. T \subseteq Nat BY PlaceOfRow
<1>2. T # {} BY DEF SamePosition
<1>3. PICK n \in T : \A t \in T : n <= t
  <2> HIDE DEF T
  <2> QED BY <1>1, <1>2, LeastNat
<1>4. PICK q \in rs : SamePosition(q, r) /\ n = Place(q) BY <1>3
<1>5. ASSUME NEW s \in rs, SamePosition(s, r), Before(s, q) PROVE FALSE
  <2>1. Place(s) < Place(q) BY <1>5, BeforeIsPlace
  <2>2. Place(q) <= Place(s) BY <1>3, <1>4, <1>5
  <2> QED BY <2>1, <2>2, PlaceOfRow
<1> QED BY <1>4, <1>5 DEF Opener

\* What the builder may hold: chains named by rows, each row in one of them.
Books(rs) == [chains : SUBSET rs, legs : SUBSET (rs \X rs), closed : SUBSET rs]

Sound(rs, built) == built \in Books(rs) /\ OneChainEach(rs, built)

LEMMA AutoChainsSound ==
  ASSUME NEW rs, rs \subseteq TableRows
  PROVE  Sound(rs, AutoChains(rs))
BY OpenerExists DEF Sound, Books, OneChainEach, AutoChains

-----------------------------------------------------------------------------
(* The manual edits.                                                           *)
LEMMA MergeSound ==
  ASSUME NEW rs, NEW built, Sound(rs, built),
         NEW src \in built.chains, NEW target \in built.chains, src # target
  PROVE  Sound(rs, Merge(built, src, target))
<1> DEFINE m == Merge(built, src, target)
<1>1. m.chains = built.chains \ {src} BY DEF Merge
<1>2. m.legs = {<<IF l[1] = src THEN target ELSE l[1], l[2]>> : l \in built.legs}
  BY DEF Merge
<1>3. m.closed \subseteq built.closed \ {src}
  BY DEF Merge
<1>4. built.legs \subseteq built.chains \X rs BY DEF Sound, OneChainEach
<1>5. m.legs \subseteq m.chains \X rs BY <1>1, <1>2, <1>4
<1>6. ASSUME NEW c \in built.chains \ {src}, NEW r \in rs, <<c, r>> \in built.legs
      PROVE  <<c, r>> \in m.legs
  BY <1>2, <1>6
<1>7. ASSUME NEW r \in rs, <<src, r>> \in built.legs PROVE <<target, r>> \in m.legs
  BY <1>2, <1>7
<1>8. ASSUME NEW k \in m.chains, NEW r \in rs, <<k, r>> \in m.legs
      PROVE  <<k, r>> \in built.legs \/ (k = target /\ <<src, r>> \in built.legs)
  BY <1>2, <1>4, <1>8
<1>9. ASSUME NEW r \in rs
      PROVE  \E c \in m.chains :
               <<c, r>> \in m.legs /\ \A k \in m.chains : <<k, r>> \in m.legs => k = c
  <2>1. PICK c \in built.chains :
          <<c, r>> \in built.legs /\ \A k \in built.chains : <<k, r>> \in built.legs => k = c
    BY DEF Sound, OneChainEach
  <2>2. CASE c = src BY <2>1, <2>2, <1>1, <1>7, <1>8
  <2>3. CASE c # src BY <2>1, <2>3, <1>1, <1>6, <1>8
  <2> QED BY <2>2, <2>3
<1>10. ASSUME NEW c \in m.chains PROVE \E r \in rs : <<c, r>> \in m.legs
  BY <1>1, <1>6 DEF Sound, OneChainEach
<1>11. m.closed \subseteq m.chains BY <1>1, <1>3 DEF Sound, OneChainEach
<1>12. m \in Books(rs) BY <1>5, <1>11 DEF Merge, Sound, Books
<1>13. Sound(rs, m)
  <2> HIDE DEF m
  <2> QED BY <1>5, <1>9, <1>10, <1>11, <1>12 DEF Sound, OneChainEach
<1> QED BY <1>13

LEMMA ApplySound ==
  ASSUME NEW rs, NEW built, Sound(rs, built), NEW e
  PROVE  Sound(rs, ApplyAdjustment(built, e))
<1>1. CASE e.chain \notin built.chains BY <1>1 DEF ApplyAdjustment
<1>2. CASE e.chain \in built.chains /\ e.type = "manual_close"
  <2> DEFINE a == ApplyAdjustment(built, e)
  <2>1. a = [built EXCEPT !.closed = @ \cup {e.chain}] BY <1>2 DEF ApplyAdjustment
  <2>2. /\ built.chains \subseteq rs
        /\ a.chains = built.chains /\ a.legs = built.legs
        /\ a.closed = built.closed \cup {e.chain}
        /\ a \in Books(rs)
    BY <1>2, <2>1 DEF Sound, Books
  <2> HIDE DEF a
  <2>3. OneChainEach(rs, a) BY <1>2, <2>2 DEF Sound, OneChainEach
  <2>4. Sound(rs, a) BY <2>2, <2>3 DEF Sound
  <2> QED BY <2>4 DEF a
<1>3. CASE e.chain \in built.chains /\ e.type # "manual_close"
  <2> DEFINE S == Owners(built, e.exec) \ {e.chain}
  <2>1. CASE S = {} BY <1>3, <2>1 DEF ApplyAdjustment
  <2>2. CASE S # {}
    <3> DEFINE src == CHOOSE c \in S : TRUE
    <3>1. src \in S BY <2>2
    <3>2. src \in built.chains /\ src # e.chain BY <3>1 DEF Owners
    <3>3. ApplyAdjustment(built, e) = Merge(built, src, e.chain)
      BY <1>3, <2>2 DEF ApplyAdjustment
    <3> HIDE DEF src
    <3> QED BY <1>3, <3>2, <3>3, MergeSound
  <2> QED BY <2>1, <2>2
<1> QED BY <1>1, <1>2, <1>3

-----------------------------------------------------------------------------
(* The edits applied one after the other: a recursive function of their number. *)
Applies(g, rs, es, N) ==
  g = [i \in 0..N |-> IF i = 0 THEN AutoChains(rs) ELSE ApplyAdjustment(g[i - 1], es[i])]

\* There is such a function: the one for N - 1 edits, with one more value.
LEMMA AppliesExists ==
  ASSUME NEW rs, NEW es, NEW N \in Nat
  PROVE  \E g : Applies(g, rs, es, N)
<1> DEFINE T == {n \in Nat : ~ \E g : Applies(g, rs, es, n)}
<1> SUFFICES ASSUME T # {} PROVE FALSE OBVIOUS
<1>1. PICK m \in T : \A t \in T : m <= t
  <2>1. T \subseteq Nat OBVIOUS
  <2> HIDE DEF T
  <2> QED BY <2>1, LeastNat
<1>2. CASE m = 0
  <2> DEFINE g == [i \in 0..0 |-> AutoChains(rs)]
  <2>1. Applies(g, rs, es, 0) BY DEF Applies
  <2> QED BY <1>2, <2>1
<1>3. CASE m # 0
  <2>1. m - 1 \in Nat /\ m - 1 \notin T BY <1>1, <1>3
  <2>2. PICK f : Applies(f, rs, es, m - 1) BY <2>1
  <2> DEFINE g == [i \in 0..m |->
                     IF i = m THEN ApplyAdjustment(f[m - 1], es[m]) ELSE f[i]]
  <2>3. ASSUME NEW i \in 0..m
        PROVE  g[i] = IF i = 0 THEN AutoChains(rs) ELSE ApplyAdjustment(g[i - 1], es[i])
    <3>1. CASE i = m BY <1>3, <2>1, <3>1
    <3>2. CASE i # m
      <4>1. i \in 0..(m - 1) BY <2>1, <3>2
      <4>2. i = 0 \/ i - 1 \in 0..(m - 1) BY <2>1, <4>1
      <4>3. g[i] = f[i] /\ (i # 0 => g[i - 1] = f[i - 1]) BY <2>1, <4>1, <4>2
      <4>4. f[i] = IF i = 0 THEN AutoChains(rs) ELSE ApplyAdjustment(f[i - 1], es[i])
        BY <2>2, <4>1 DEF Applies
      <4> QED BY <4>3, <4>4
    <3> QED BY <3>1, <3>2
  <2>4. Applies(g, rs, es, m)
    <3> HIDE DEF g
    <3>1. g = [i \in 0..m |-> g[i]] BY DEF g
    <3> QED BY <2>3, <3>1 DEF Applies
  <2> HIDE DEF g
  <2> QED BY <2>4
<1> QED BY <1>2, <1>3

\* Whatever edits the builder applies, and however many: its chains hold each row once.
LEMMA BuiltSound ==
  ASSUME NEW rs, rs \subseteq TableRows, NEW es, NEW N \in Nat, Len(es) = N
  PROVE  Sound(rs, BuildRollChains(rs, es))
<1> DEFINE g == CHOOSE f : Applies(f, rs, es, N)
<1>1. Applies(g, rs, es, N)
  <2> QED BY AppliesExists
<1>2. BuildRollChains(rs, es) = g[N]
  BY DEF BuildRollChains, Applies
<1> HIDE DEF g
<1> DEFINE T == {n \in 0..N : ~Sound(rs, g[n])}
<1>3. T = {}
  <2> SUFFICES ASSUME T # {} PROVE FALSE OBVIOUS
  <2>1. PICK m \in T : \A t \in T : m <= t
    <3>1. T \subseteq Nat OBVIOUS
    <3> HIDE DEF T
    <3> QED BY <3>1, LeastNat
  <2>2. CASE m = 0
    <3>1. g[0] = AutoChains(rs) BY <1>1 DEF Applies
    <3> QED BY <2>2, <3>1, AutoChainsSound
  <2>3. CASE m # 0
    <3>1. m \in 0..N /\ m - 1 \in 0..N /\ m - 1 \notin T BY <2>1, <2>3
    <3>2. g[m] = ApplyAdjustment(g[m - 1], es[m]) BY <1>1, <2>3, <3>1 DEF Applies
    <3>3. Sound(rs, g[m - 1]) BY <3>1
    <3> QED BY <3>2, <3>3, ApplySound
  <2> QED BY <2>2, <2>3
<1> QED BY <1>2, <1>3

LEMMA BuiltBySequence ==
  ASSUME NEW rs, rs \subseteq TableRows, NEW es \in Seq(Edits)
  PROVE  Sound(rs, BuildRollChains(rs, es))
BY BuiltSound

-----------------------------------------------------------------------------
(* The edits that a rebuild keeps: a recursive function again.                 *)
Keeps(g, cs, es, N) ==
  g = [i \in 0..N |->
         IF i = 0 THEN <<>>
         ELSE IF es[i].chain \in cs THEN Append(g[i - 1], es[i]) ELSE g[i - 1]]

LEMMA KeepsExists ==
  ASSUME NEW cs, NEW es, NEW N \in Nat
  PROVE  \E g : Keeps(g, cs, es, N)
<1> DEFINE T == {n \in Nat : ~ \E g : Keeps(g, cs, es, n)}
<1> SUFFICES ASSUME T # {} PROVE FALSE OBVIOUS
<1>1. PICK m \in T : \A t \in T : m <= t
  <2>1. T \subseteq Nat OBVIOUS
  <2> HIDE DEF T
  <2> QED BY <2>1, LeastNat
<1>2. CASE m = 0
  <2> DEFINE g == [i \in 0..0 |-> <<>>]
  <2>1. Keeps(g, cs, es, 0) BY DEF Keeps
  <2> QED BY <1>2, <2>1
<1>3. CASE m # 0
  <2>1. m - 1 \in Nat /\ m - 1 \notin T BY <1>1, <1>3
  <2>2. PICK f : Keeps(f, cs, es, m - 1) BY <2>1
  <2> DEFINE next == IF es[m].chain \in cs THEN Append(f[m - 1], es[m]) ELSE f[m - 1]
  <2> DEFINE g == [i \in 0..m |-> IF i = m THEN next ELSE f[i]]
  <2>3. ASSUME NEW i \in 0..m
        PROVE  g[i] = IF i = 0 THEN <<>>
                      ELSE IF es[i].chain \in cs THEN Append(g[i - 1], es[i]) ELSE g[i - 1]
    <3>1. CASE i = m BY <1>3, <2>1, <3>1
    <3>2. CASE i # m
      <4>1. i \in 0..(m - 1) BY <2>1, <3>2
      <4>2. i = 0 \/ i - 1 \in 0..(m - 1) BY <2>1, <4>1
      <4>3. g[i] = f[i] /\ (i # 0 => g[i - 1] = f[i - 1]) BY <2>1, <4>1, <4>2
      <4>4. f[i] = IF i = 0 THEN <<>>
                   ELSE IF es[i].chain \in cs THEN Append(f[i - 1], es[i]) ELSE f[i - 1]
        BY <2>2, <4>1 DEF Keeps
      <4> QED BY <4>3, <4>4
    <3> QED BY <3>1, <3>2
  <2>4. Keeps(g, cs, es, m)
    <3> HIDE DEF g
    <3>1. g = [i \in 0..m |-> g[i]] BY DEF g
    <3> QED BY <2>3, <3>1 DEF Keeps
  <2> HIDE DEF g
  <2> QED BY <2>4
<1> QED BY <1>2, <1>3

\* Edits of chains that are there, in a sequence of edits again.
LEMMA EditsOfType ==
  ASSUME NEW cs, NEW es \in Seq(Edits)
  PROVE  EditsOf(cs, es) \in Seq(Edits)
<1> DEFINE N == Len(es)
<1> DEFINE g == CHOOSE f : Keeps(f, cs, es, N)
<1>0. N \in Nat /\ \A i \in 1..N : es[i] \in Edits OBVIOUS
<1>1. Keeps(g, cs, es, N) BY <1>0, KeepsExists
<1>2. EditsOf(cs, es) = g[N] BY DEF EditsOf, Keeps
<1> HIDE DEF g, N
<1> DEFINE T == {n \in 0..N : g[n] \notin Seq(Edits)}
<1>3. T = {}
  <2> SUFFICES ASSUME T # {} PROVE FALSE OBVIOUS
  <2>1. PICK m \in T : \A t \in T : m <= t
    <3>1. T \subseteq Nat BY <1>0
    <3> HIDE DEF T
    <3> QED BY <3>1, LeastNat
  <2>2. CASE m = 0 BY <1>0, <1>1, <2>1, <2>2 DEF Keeps
  <2>3. CASE m # 0
    <3>1. m \in 1..N /\ m - 1 \in 0..N /\ m - 1 \notin T BY <1>0, <2>1, <2>3
    <3>2. g[m] = IF es[m].chain \in cs THEN Append(g[m - 1], es[m]) ELSE g[m - 1]
      BY <1>1, <2>3, <3>1 DEF Keeps
    <3>3. g[m - 1] \in Seq(Edits) /\ es[m] \in Edits BY <1>0, <3>1
    <3>4. Append(g[m - 1], es[m]) \in Seq(Edits) BY <3>3
    <3> QED BY <2>1, <3>2, <3>3, <3>4
  <2> QED BY <2>2, <2>3
<1> QED BY <1>0, <1>2, <1>3

-----------------------------------------------------------------------------
LEMMA BuiltTypes ==
  ASSUME TypeOK, NEW b \in Builders
  PROVE  /\ Sound(seen[b], Built(b))
         /\ Built(b).chains \subseteq TableRows
         /\ Built(b).legs \subseteq TableRows \X TableRows
         /\ Built(b).closed \subseteq Built(b).chains
<1>1. seen[b] \subseteq TableRows /\ loaded[b] \in Seq(Edits) BY DEF TypeOK
<1>2. Sound(seen[b], Built(b)) BY <1>1, BuiltBySequence DEF Built
<1> QED BY <1>1, <1>2 DEF Sound, Books, OneChainEach

LEMMA SupersededRows == ASSUME NEW rs PROVE Superseded(rs) \subseteq rs
BY DEF Superseded

LEMMA SaveEditType ==
  ASSUME TypeOK, NEW h \in Editors, NEW e \in Edits, SaveEdit(h, e)
  PROVE  TypeOK'
<1>1. edits' \in Seq(Edits) /\ saved' \in Seq(Edits) /\ Len(saved') <= MaxEdits
  BY MaxEditsIsNatural DEF SaveEdit, TypeOK
<1> QED BY <1>1 DEF SaveEdit, TypeOK, Builders

LEMMA BuildStepType ==
  ASSUME TypeOK, NEW b \in Builders, BuildStep(b)
  PROVE  TypeOK'
<1>1. CASE DedupeReads(b) BY <1>1, SupersededRows DEF DedupeReads, TypeOK, tables
<1>2. CASE DedupeDeletes(b) BY <1>2 DEF DedupeDeletes, TypeOK
<1>3. CASE DedupeFails(b) BY <1>3 DEF DedupeFails, TypeOK, tables
<1>4. CASE LoadExecutions(b) BY <1>4 DEF LoadExecutions, TypeOK, tables
<1>5. CASE LoadAdjustments(b) BY <1>5 DEF LoadAdjustments, TypeOK, tables
<1>6. CASE WipeLegs(b) BY <1>6 DEF WipeLegs, TypeOK, tables
<1>7. CASE WipeResumes(b) BY <1>7 DEF WipeResumes, TypeOK, tables
<1>8. CASE WriteChains(b)
  <2>1. edits' \in Seq(Edits) BY <1>8, EditsOfType DEF WriteChains, TypeOK
  <2>2. chains' \subseteq TableRows /\ closed' \subseteq chains'
    BY <1>8, BuiltTypes DEF WriteChains
  <2>3. legs' \subseteq TableRows \X TableRows
    BY <1>8, BuiltTypes DEF WriteChains, LegsAfter, TypeOK
  <2> QED BY <1>8, <2>1, <2>2, <2>3 DEF WriteChains, Done, TypeOK
<1>9. CASE WriteFails(b) BY <1>9 DEF WriteFails, Done, TypeOK, tables
<1> QED BY <1>1, <1>2, <1>3, <1>4, <1>5, <1>6, <1>7, <1>8, <1>9 DEF BuildStep

LEMMA TypePreserved == TypeOK /\ [Next]_vars => TypeOK'
<1> SUFFICES ASSUME TypeOK, [Next]_vars PROVE TypeOK' OBVIOUS
<1>1. ASSUME NEW r \in TableRows, Ingest(r) PROVE TypeOK' BY <1>1 DEF Ingest, TypeOK
<1>2. ASSUME UserEdits PROVE TypeOK'
  <2>1. PICK h \in Editors, c \in chains :
          CloseChainManual(h, c) \/ \E exec \in rows : LinkChainExec(h, c, exec)
    BY <1>2 DEF UserEdits
  <2>2. CASE CloseChainManual(h, c)
    <3>1. [type |-> "manual_close", chain |-> c] \in Edits BY DEF Edits, TypeOK
    <3> QED BY <2>2, <3>1, SaveEditType DEF CloseChainManual
  <2>3. ASSUME NEW exec \in rows, LinkChainExec(h, c, exec) PROVE TypeOK'
    <3>1. [type |-> "manual_link", chain |-> c, exec |-> exec] \in Edits BY DEF Edits, TypeOK
    <3> QED BY <2>3, <3>1, SaveEditType DEF LinkChainExec
  <2> QED BY <2>1, <2>2, <2>3
<1>3. CASE JobStarts BY <1>3 DEF JobStarts, TypeOK, tables, Builders
<1>4. ASSUME NEW b \in Builders, BuildStep(b) PROVE TypeOK' BY <1>4, BuildStepType
<1>5. CASE BackendRestarts BY <1>5 DEF BackendRestarts, TypeOK, tables
<1>6. CASE UNCHANGED vars BY <1>6 DEF vars, tables, TypeOK
<1> QED BY <1>1, <1>2, <1>3, <1>4, <1>5, <1>6 DEF Next

\* The stored tables and what every rebuild holds in hand keep their types: closed marks
\* only chains that are there, and edits stay edits when some are dropped
\* (poller/jobs/rolls.py, api/routes/portfolio.py).
THEOREM TypeCorrect == Spec => []TypeOK
<1>1. Init => TypeOK
  BY MaxEditsIsNatural DEF Init, TypeOK
<1> QED BY <1>1, TypePreserved, PTL DEF Spec

\* Whatever edits a rebuild read, in whatever order and number, and whatever was
\* committed since, the chains it is about to write hold every execution it read in one
\* chain and no other (_apply_adjustments in analytics/rolls.py).
THEOREM RowsAreInOneChain == Spec => []RebuildSound
<1>1. TypeOK => RebuildSound
  BY BuiltTypes DEF RebuildSound, EachRowInOneChain, Sound
<1> QED BY <1>1, TypeCorrect, PTL

\* No edit freezes the rebuild by itself, however stale: if no leg was added since a
\* builder's DELETE and the executions it read are still there, its write meets no foreign
\* key (the comments above the upsert and the deletes in poller/jobs/rolls.py).
THEOREM OnlyOverlapsBlock ==
  Spec => [](\A b \in Builders :
               legs \subseteq wiped[b] /\ seen[b] \subseteq rows => ForeignKeysHold(b))
<1>1. ASSUME TypeOK, NEW b \in Builders, legs \subseteq wiped[b], seen[b] \subseteq rows
      PROVE  ForeignKeysHold(b)
  <2>1. LegsAfter(b) = Built(b).legs BY <1>1 DEF LegsAfter
  <2>2. Built(b).legs \subseteq Built(b).chains \X seen[b]
    BY <1>1, BuiltTypes DEF Sound, OneChainEach
  <2> QED BY <1>1, <2>1, <2>2 DEF ForeignKeysHold
<1>2. TypeOK => \A b \in Builders :
                  legs \subseteq wiped[b] /\ seen[b] \subseteq rows => ForeignKeysHold(b)
  BY <1>1
<1> QED BY <1>2, TypeCorrect, PTL

\* Where a rebuild has brought the stored chains up to date (Converges), they hold every
\* stored execution once: the chains' legs are the account's history, dealt out.
THEOREM SettledHoldsRowsOnce ==
  Spec => [](UpToDate =>
               OneChainEach(rows, [chains |-> chains, legs |-> legs, closed |-> closed]))
<1>1. ASSUME TypeOK, UpToDate
      PROVE  OneChainEach(rows, [chains |-> chains, legs |-> legs, closed |-> closed])
  <2>1. Sound(rows, BuildRollChains(rows, edits)) BY <1>1, BuiltBySequence DEF TypeOK
  <2> DEFINE built == BuildRollChains(rows, edits)
  <2>2. chains = built.chains /\ legs = built.legs /\ closed = built.closed
    BY <1>1 DEF UpToDate
  <2>3. OneChainEach(rows, built) BY <2>1 DEF Sound
  <2> HIDE DEF built
  <2> QED BY <2>2, <2>3 DEF OneChainEach
<1> QED BY <1>1, TypeCorrect, PTL
====
