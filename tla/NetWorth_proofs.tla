---------------------------- MODULE NetWorth_proofs ----------------------------
(* Proofs about NetWorth, for any files, accounts, currencies and months.     *)
(* The invariant that carries them is NetWorthInv: the tables hold finitely   *)
(* many balances, each once (TablesInv), and what a request has added up is   *)
(* the worth of the accounts it has read (SumSoFar).                          *)
EXTENDS NetWorth, Sums_proofs

(***************************************************************************)
(* Steps.                                                                  *)
(***************************************************************************)
\* What is not an upload or a deletion leaves the stores alone.
LEMMA StoreSteps ==
  ASSUME [Next]_vars
  PROVE \/ \E w \in Uploaders, f \in Files : UploadChecks(w, f)
        \/ \E w \in Uploaders : UploadCommits(w)
        \/ \E f \in Files : Deletes(f)
        \/ UNCHANGED storeVars
<1>1. CASE StoreNext BY <1>1 DEF StoreNext
<1>2. CASE AccountPolled BY <1>2 DEF AccountPolled
<1>3. CASE RequestReads \/ RequestAddsBroker \/ RequestAddsExternal \/ RequestAnswers
  BY <1>3 DEF RequestReads, RequestAddsBroker, RequestAddsExternal, RequestAnswers
<1>4. CASE UNCHANGED vars BY <1>4 DEF vars
<1> QED BY <1>1, <1>2, <1>3, <1>4 DEF Next

(***************************************************************************)
(* Types and foreign keys of the statement tables.                         *)
(***************************************************************************)
LEMMA RowsAreRows ==
  ASSUME NEW f \in Files, NEW r \in Rows(f)
  PROVE r \in AllRows /\ r.from = f /\ r.account = AccountOf[f] /\ r.account \in Externals
BY FilesAreTyped DEF Rows, AllRows

LEMMA InitStoreTypeOK == Init => StoreTypeOK
BY DEF Init, StoreInit, StoreTypeOK

LEMMA AccountIsEnsured ==
  ASSUME base \in [Externals -> Currencies \cup {None}], NEW f \in Files, EnsureAccount(f)
  PROVE /\ base' \in [Externals -> Currencies \cup {None}]
        /\ base'[AccountOf[f]] # None
        /\ \A a \in Externals : base[a] # None => base'[a] = base[a]
BY FilesAreTyped DEF EnsureAccount

LEMMA StoreTypePreserved == StoreTypeOK /\ [Next]_vars => StoreTypeOK'
<1> SUFFICES ASSUME StoreTypeOK, [Next]_vars PROVE StoreTypeOK' OBVIOUS
<1>0. \A r \in AllRows : r.account \in Externals
  BY RowsAreRows DEF AllRows
<1>1. ASSUME NEW w \in Uploaders, NEW f \in Files, UploadChecks(w, f) PROVE StoreTypeOK'
  BY <1>1 DEF StoreTypeOK, UploadChecks
<1>2. ASSUME NEW w \in Uploaders, UploadCommits(w) PROVE StoreTypeOK'
  <2> DEFINE f == uploading[w]
  <2>1. f \in Files /\ uploading' \in [Uploaders -> Files \cup {None}]
    BY <1>2 DEF UploadCommits, StoreTypeOK
  <2>2. CASE f \in uploads BY <1>2, <2>1, <2>2 DEF StoreTypeOK, UploadCommits
  <2>3. CASE f \notin uploads
    <3>1. uploads' = uploads \cup {f} /\ EnsureAccount(f) /\ orphaned' = orphaned \ Rows(f)
      BY <1>2, <2>3 DEF UploadCommits
    <3>2. /\ balances \subseteq balances'
          /\ \A r \in balances' : r \in balances \/ r \in Rows(f)
      BY <1>2, <2>3 DEF UploadCommits, InsertsIgnoring
    <3>3. /\ base' \in [Externals -> Currencies \cup {None}]
          /\ base'[AccountOf[f]] # None
          /\ \A a \in Externals : base[a] # None => base'[a] = base[a]
      BY <2>1, <3>1, AccountIsEnsured DEF StoreTypeOK
    <3>4. ASSUME NEW r \in balances'
          PROVE r \in AllRows /\ r.from \in uploads' /\ base'[r.account] # None
      <4>1. CASE r \in Rows(f) BY <2>1, <3>1, <3>3, <4>1, RowsAreRows
      <4>2. CASE r \in balances BY <1>0, <3>1, <3>3, <4>2 DEF StoreTypeOK
      <4> QED BY <3>2, <4>1, <4>2
    <3> QED BY <2>1, <3>1, <3>3, <3>4 DEF StoreTypeOK
  <2> QED BY <2>2, <2>3
<1>3. ASSUME NEW f \in Files, Deletes(f) PROVE StoreTypeOK'
  BY <1>3 DEF StoreTypeOK, Deletes
<1>4. CASE UNCHANGED storeVars BY <1>4 DEF StoreTypeOK, storeVars
<1> QED BY <1>1, <1>2, <1>3, <1>4, StoreSteps

\* The statement tables keep their types: a balance always belongs to an upload
\* that is still there, and to an account whose currency is known.
THEOREM StoreTypeCorrect == Spec => []StoreTypeOK
BY InitStoreTypeOK, StoreTypePreserved, PTL DEF Spec

(***************************************************************************)
(* No statement loses a balance.                                           *)
(***************************************************************************)
WholeInv == StoreTypeOK /\ StatementsWhole

LEMMA WholePreserved == WholeInv /\ [Next]_vars => StatementsWhole'
<1> SUFFICES ASSUME WholeInv, [Next]_vars, NEW f \in uploads', NEW r \in Rows(f)
             PROVE (\E s \in balances' : SameBalance(r, s)) \/ r \in orphaned'
  BY DEF StatementsWhole, Rows, KeysOf, SameBalance
<1> DEFINE Kept == (\E s \in balances' : SameBalance(r, s)) \/ r \in orphaned'
<1>1. ASSUME UNCHANGED <<uploads, balances, orphaned>> PROVE Kept
  BY <1>1 DEF WholeInv, StatementsWhole
<1>2. ASSUME NEW w \in Uploaders, NEW g \in Files, UploadChecks(w, g) PROVE Kept
  BY <1>1, <1>2 DEF UploadChecks
<1>3. ASSUME NEW w \in Uploaders, UploadCommits(w) PROVE Kept
  <2> DEFINE g == uploading[w]
  <2>0. g \in Files BY <1>3 DEF UploadCommits, WholeInv, StoreTypeOK
  <2>1. CASE g \in uploads BY <1>1, <1>3, <2>1 DEF UploadCommits
  <2>2. CASE g \notin uploads
    <3>1. /\ uploads' = uploads \cup {g} /\ orphaned' = orphaned \ Rows(g)
          /\ balances' = balances \cup {q \in Rows(g) : \A s \in balances : ~SameBalance(q, s)}
      BY <1>3, <2>2 DEF UploadCommits, InsertsIgnoring
    <3>2. CASE f = g BY <3>1, <3>2 DEF SameBalance
    <3>3. CASE f \in uploads
      <4>1. f \in Files /\ f # g BY <2>2, <3>3 DEF WholeInv, StoreTypeOK
      <4>2. r \notin Rows(g) BY <2>0, <4>1, RowsAreRows
      <4> QED BY <3>1, <3>3, <4>2 DEF WholeInv, StatementsWhole
    <3> QED BY <3>1, <3>2, <3>3
  <2> QED BY <2>1, <2>2
<1>4. ASSUME NEW g \in Files, Deletes(g) PROVE Kept
  <2>1. f \in uploads \ {g} /\ f \in Files BY <1>4 DEF Deletes, WholeInv, StoreTypeOK
  <2>2. r \in AllRows /\ r.from = f BY <2>1, RowsAreRows
  <2>3. r \notin Rows(g) BY <1>4, <2>1, <2>2, RowsAreRows
  <2>4. CASE r \in orphaned BY <1>4, <2>3, <2>4 DEF Deletes
  <2>5. ASSUME NEW s \in balances, SameBalance(r, s) PROVE Kept
    <3>1. CASE s.from = g BY <1>4, <2>1, <2>2, <2>5, <3>1 DEF Deletes
    <3>2. CASE s.from # g BY <1>4, <2>5, <3>2 DEF Deletes
    <3> QED BY <3>1, <3>2
  <2> QED BY <2>1, <2>4, <2>5 DEF WholeInv, StatementsWhole
<1>5. CASE UNCHANGED storeVars BY <1>1, <1>5 DEF storeVars
<1> QED BY <1>2, <1>3, <1>4, <1>5, StoreSteps

\* A balance that an uploaded statement reports stays in the tables, under that
\* upload or another, until an upload that shared it is deleted, in whatever
\* order statements that overlap are uploaded and deleted, two at a time or not.
THEOREM Whole == Spec => []StatementsWhole
<1>1. Init => StatementsWhole BY DEF Init, StoreInit, StatementsWhole
<1>2. WholeInv /\ [Next]_vars => WholeInv'
  BY StoreTypePreserved, WholePreserved DEF WholeInv
<1>3. Init => WholeInv BY <1>1, InitStoreTypeOK DEF WholeInv
<1>4. WholeInv => StatementsWhole BY DEF WholeInv
<1> QED BY <1>2, <1>3, <1>4, PTL DEF Spec

(***************************************************************************)
(* The tables: a balance is stored once, and there are finitely many.      *)
(***************************************************************************)
LEMMA RowFields ==
  ASSUME NEW r \in AllRows
  PROVE /\ r.from \in Files /\ r.key \in KeysOf(r.from) /\ r.account = AccountOf[r.from]
        /\ r.account \in Externals
        /\ Amount(r) \in Nat /\ Day(r) \in Nat /\ Category(r) \in Categories
        /\ r.key = <<Day(r), Category(r)>>
        /\ CurrencyOf[r.from] \in Currencies /\ Value(r) \in Nat
<1>1. PICK f \in Files : r \in Rows(f) BY DEF AllRows
<1>2. r.from = f /\ r.key \in KeysOf(f) /\ r.account = AccountOf[f] BY <1>1 DEF Rows
<1>3. r.key \in Nat \X Categories /\ Reports[f][r.key] \in Nat BY <1>2, ReportsAreTyped
<1>4. Day(r) \in Nat /\ Category(r) \in Categories /\ r.key = <<Day(r), Category(r)>>
  BY <1>3 DEF Day, Category
<1>5. Amount(r) \in Nat BY <1>2, <1>3 DEF Amount
<1>6. CurrencyOf[f] \in Currencies /\ AccountOf[f] \in Externals BY FilesAreTyped
<1>7. RateOf[CurrencyOf[f]] \in Nat BY <1>6, RatesAreTyped
<1>8. Value(r) \in Nat BY <1>2, <1>5, <1>7 DEF Value
<1> QED BY <1>2, <1>4, <1>5, <1>6, <1>8

\* A balance, that is an account, day and category, has one row.
StoredOnce == \A r, s \in balances : SameBalance(r, s) => r = s

TablesInv == StoreTypeOK /\ IsFiniteSet(balances) /\ StoredOnce

LEMMA RowsAreFinite ==
  ASSUME NEW f \in Files PROVE IsFiniteSet(Rows(f))
<1> DEFINE row == [k \in KeysOf(f) |-> [account |-> AccountOf[f], key |-> k, from |-> f]]
<1>1. row \in Surjection(KeysOf(f), Rows(f)) BY DEF Surjection, Rows
<1>2. IsFiniteSet(KeysOf(f)) BY ReportsAreTyped
<1> HIDE DEF row
<1> QED BY <1>1, <1>2, FS_Surjection

LEMMA TablesPreserved == TablesInv /\ [Next]_vars => TablesInv'
<1> SUFFICES ASSUME TablesInv, [Next]_vars PROVE IsFiniteSet(balances') /\ StoredOnce'
  BY StoreTypePreserved DEF TablesInv
<1>1. ASSUME UNCHANGED balances PROVE IsFiniteSet(balances') /\ StoredOnce'
  BY <1>1 DEF TablesInv, StoredOnce
<1>2. ASSUME NEW w \in Uploaders, NEW f \in Files, UploadChecks(w, f)
      PROVE IsFiniteSet(balances') /\ StoredOnce'
  BY <1>1, <1>2 DEF UploadChecks
<1>3. ASSUME NEW w \in Uploaders, UploadCommits(w) PROVE IsFiniteSet(balances') /\ StoredOnce'
  <2> DEFINE f == uploading[w]
             new == {r \in Rows(f) : \A s \in balances : ~SameBalance(r, s)}
  <2>0. f \in Files BY <1>3 DEF UploadCommits, TablesInv, StoreTypeOK
  <2>1. CASE f \in uploads BY <1>1, <1>3, <2>1 DEF UploadCommits
  <2>2. CASE f \notin uploads
    <3>1. balances' = balances \cup new BY <1>3, <2>2 DEF UploadCommits, InsertsIgnoring
    <3>2. IsFiniteSet(new) BY <2>0, RowsAreFinite, FS_Subset
    <3>3. IsFiniteSet(balances') BY <3>1, <3>2, FS_Union DEF TablesInv
    <3>4. ASSUME NEW r \in balances', NEW s \in balances', SameBalance(r, s) PROVE r = s
      <4>1. CASE r \in balances /\ s \in balances BY <3>4, <4>1 DEF TablesInv, StoredOnce
      <4>2. CASE r \in new /\ s \in new BY <3>4, <4>2 DEF Rows, SameBalance
      <4>3. CASE r \in new /\ s \in balances BY <3>4, <4>3
      <4>4. CASE r \in balances /\ s \in new
        <5>1. SameBalance(s, r) BY <3>4 DEF SameBalance
        <5> QED BY <4>4, <5>1
      <4> QED BY <3>1, <4>1, <4>2, <4>3, <4>4
    <3> QED BY <3>3, <3>4 DEF StoredOnce
  <2> QED BY <2>1, <2>2
<1>4. ASSUME NEW f \in Files, Deletes(f) PROVE IsFiniteSet(balances') /\ StoredOnce'
  <2>1. balances' \in SUBSET balances BY <1>4 DEF Deletes
  <2> QED BY <2>1, FS_Subset DEF TablesInv, StoredOnce
<1>5. CASE UNCHANGED storeVars BY <1>1, <1>5 DEF storeVars
<1> QED BY <1>2, <1>3, <1>4, <1>5, StoreSteps

LEMMA InitTables == Init => TablesInv
<1> SUFFICES ASSUME Init PROVE TablesInv OBVIOUS
<1>1. balances = {} BY DEF Init, StoreInit
<1> QED BY <1>1, InitStoreTypeOK, FS_EmptySet DEF TablesInv, StoredOnce

\* However uploads and deletions of overlapping statements interleave, no
\* account's balance of a day and category is stored twice.
THEOREM TablesCorrect == Spec => []TablesInv
BY InitTables, TablesPreserved, PTL DEF Spec

(***************************************************************************)
(* The chart carries balances forward.                                     *)
(***************************************************************************)

\* Of finitely many rows, at least one has the most recent day.
LEMMA MostRecent ==
  ASSUME NEW S \in SUBSET AllRows, IsFiniteSet(S), S # {}
  PROVE \E r \in S : \A s \in S : Day(s) <= Day(r)
<1> DEFINE Top(s) == \E r \in s : \A q \in s : Day(q) <= Day(r)
           T == {s \in SUBSET S : s # {} /\ ~Top(s)}
<1>0. T \subseteq SUBSET S OBVIOUS
<1>1. ASSUME T # {} PROVE FALSE
  <2>1. PICK m \in T : \A t \in T : t \subseteq m => t = m
    <3> HIDE DEF T
    <3> QED BY <1>0, <1>1, LeastSubset
  <2>2. PICK p \in m : TRUE OBVIOUS
  <2>3. \A r \in m : Day(r) \in Nat BY RowFields
  <2>4. CASE m = {p} BY <2>3, <2>4
  <2>5. CASE m # {p}
    <3> DEFINE q == m \ {p}
    <3>1. q # {} /\ q \in SUBSET S /\ q \notin T BY <2>1, <2>2, <2>5
    <3>2. PICK r \in q : \A s \in q : Day(s) <= Day(r) BY <3>1
    <3>3. Day(p) <= Day(r) \/ Day(r) <= Day(p) BY <2>3, <3>2
    <3>4. CASE Day(p) <= Day(r) BY <2>3, <3>2, <3>4
    <3>5. CASE Day(r) <= Day(p)
      <4>1. \A s \in q : Day(s) <= Day(p) BY <2>3, <3>2, <3>5
      <4>2. \A s \in m : Day(s) <= Day(p) BY <2>3, <4>1
      <4> QED BY <4>2
    <3> QED BY <3>3, <3>4, <3>5
  <2> QED BY <2>4, <2>5
<1> QED BY <1>1

\* A month's total adds up one row per category, the most recent by its end: the
\* rows that are stated are the rows the chart takes, one each.
LEMMA CarriedForward ==
  ASSUME TablesInv, NEW a \in Externals, NEW m \in Months \ Decembers
  PROVE MonthTotal(a, m) = StatedBy(a, m)
<1> DEFINE until == {r \in Of(a) : Day(r) <= 2 * m}
           rows == LatestPerCategory(a, MonthEnd(m))
           IsLatest(c, r) == Category(r) = c /\ \A s \in until : Category(s) = c => Day(s) <= Day(r)
           latest(c) == CHOOSE r \in until : IsLatest(c, r)
           f == [r \in rows |-> Amount(r)]
           cats == {Category(r) : r \in until}
           g == [c \in cats |-> Amount(latest(c))]
           b == [r \in rows |-> Category(r)]
<1>1. Of(a) \in SUBSET AllRows /\ IsFiniteSet(Of(a))
  BY FS_Subset DEF Of, TablesInv, StoreTypeOK
<1>2. \A r \in Of(a) : /\ Amount(r) \in Nat /\ Day(r) \in Nat /\ Category(r) \in Categories
                       /\ r.key = <<Day(r), Category(r)>> /\ r.account = a
  BY <1>1, RowFields DEF Of
<1>3. \A r \in Of(a) : Day(r) < MonthEnd(m) <=> Day(r) <= 2 * m
  <2>1. MonthEnd(m) = 2 * m + 1 /\ m \in Nat BY RatesAreTyped DEF MonthEnd
  <2>2. \A d, n \in Nat : d < 2 * n + 1 <=> d <= 2 * n OBVIOUS
  <2> QED BY <1>2, <2>1, <2>2
<1>4. ASSUME NEW r \in Of(a), NEW s \in Of(a), Category(r) = Category(s), Day(r) = Day(s)
      PROVE r = s
  BY <1>2, <1>4 DEF TablesInv, StoredOnce, SameBalance, Of
<1>5. \A r : r \in rows <=> r \in until /\ IsLatest(Category(r), r)
  BY <1>3 DEF LatestPerCategory
<1>6. ASSUME NEW c \in cats PROVE latest(c) \in until /\ IsLatest(c, latest(c))
  <2> DEFINE S == {r \in until : Category(r) = c}
  <2>1. S \in SUBSET AllRows /\ IsFiniteSet(S) /\ S # {} BY <1>1, FS_Subset
  <2>2. \E r \in S : \A s \in S : Day(s) <= Day(r)
    <3> HIDE DEF S
    <3> QED BY <2>1, MostRecent
  <2>3. \E r \in until : IsLatest(c, r) BY <2>2
  <2> HIDE DEF IsLatest, until
  <2> QED BY <2>3
<1>7. ASSUME NEW r \in rows PROVE latest(Category(r)) = r
  <2>1. r \in until /\ IsLatest(Category(r), r) /\ Category(r) \in cats BY <1>5
  <2> DEFINE s == latest(Category(r))
  <2>2. s \in until /\ IsLatest(Category(r), s) BY <1>6, <2>1
  <2> HIDE DEF s
  <2>3. Category(s) = Category(r) /\ Day(s) <= Day(r) /\ Day(r) <= Day(s) BY <2>1, <2>2
  <2>4. r \in Of(a) /\ s \in Of(a) BY <2>1, <2>2
  <2>5. Day(s) = Day(r) BY <1>2, <2>3, <2>4
  <2> QED BY <1>4, <2>3, <2>4, <2>5 DEF s
<1>8. IsFiniteSet(rows) BY <1>1, FS_Subset DEF LatestPerCategory
<1>9. \A r \in rows : Category(r) \in cats BY <1>5
<1>10. cats = {b[r] : r \in rows}
  <2>1. ASSUME NEW c \in cats PROVE c \in {b[r] : r \in rows}
    <3>1. latest(c) \in until /\ Category(latest(c)) = c /\ IsLatest(c, latest(c)) BY <1>6
    <3>2. latest(c) \in rows BY <1>5, <3>1
    <3> HIDE DEF latest, rows
    <3> QED BY <3>1, <3>2
  <2> QED BY <1>9, <2>1
<1>11. \A x \in rows : f[x] \in Int /\ g[b[x]] = f[x]
  <2>1. ASSUME NEW x \in rows PROVE f[x] \in Int /\ g[b[x]] = f[x]
    <3>1. x \in Of(a) /\ b[x] = Category(x) /\ f[x] = Amount(x) BY <1>5
    <3>2. g[Category(x)] = Amount(latest(Category(x))) BY <1>9
    <3>3. g[Category(x)] = Amount(x) BY <1>7, <3>2
    <3>4. Amount(x) \in Int BY <1>2, <3>1
    <3> HIDE DEF g, b, f
    <3> QED BY <3>1, <3>3, <3>4
  <2> HIDE DEF g, b, f, rows
  <2> QED BY <2>1
<1>12. \A x, y \in rows : b[x] = b[y] => x = y
  <2> HIDE DEF latest, rows
  <2> QED BY <1>7
<1>13. SumFunctionOnSet(g, cats) = SumFunctionOnSet(f, rows)
  <2> HIDE DEF g, f, b, rows, cats
  <2> QED BY <1>8, <1>10, <1>11, <1>12, SumImage
<1>14. MonthTotal(a, m) = SumFunctionOnSet(f, rows)
  BY DEF MonthTotal, SumFunction
<1>15. StatedBy(a, m) = SumFunctionOnSet(g, cats)
  BY DEF StatedBy, SumFunction
<1> QED BY <1>13, <1>14, <1>15

\* The chart's total of a month is what the statements up to its end state, each
\* category carried forward from the last statement that has it.
THEOREM Carried == Spec => []MonthsAreCarried
<1>1. TablesInv => MonthsAreCarried BY CarriedForward DEF MonthsAreCarried
<1> QED BY <1>1, TablesCorrect, PTL

(***************************************************************************)
(* The request: what it has added up so far.                               *)
(***************************************************************************)
ToRead == Range(request.left)

RowsRead == {r \in Headline : r.account \notin ToRead}

BrokerPart == IF netLiq = None THEN 0 ELSE netLiq * RateOf[BaseOf(request.base)]

RowValues == [r \in balances |-> Value(r)]

\* Until something disturbs it, a sum that is not blank is the value of the broker
\* account and of the rows of the accounts already read.
SumSoFar ==
  /\ IsInjective(request.left)
  /\ request.phase # "sums" => request.left = <<>> /\ request.still
  /\ request.phase = "sums" /\ request.still /\ request.sum # None
       => request.sum = BrokerPart + SumFunctionOnSet(RowValues, RowsRead)

NetWorthInv == TablesInv /\ TypeOK /\ SumSoFar

\* Reading the next account takes it off the accounts to read, and only it.
LEMMA HeadIsRead ==
  ASSUME NEW S, NEW s \in Seq(S), s # <<>>, IsInjective(s)
  PROVE /\ Tail(s) \in Seq(S) /\ IsInjective(Tail(s))
        /\ Head(s) \in S /\ Head(s) \in Range(s)
        /\ Range(Tail(s)) = Range(s) \ {Head(s)}
<1>1. /\ Tail(s) \in Seq(S) /\ Head(s) = s[1] /\ DOMAIN s = 1..Len(s)
      /\ Len(s) \in Nat \ {0} /\ Len(Tail(s)) = Len(s) - 1 /\ DOMAIN Tail(s) = 1..(Len(s) - 1)
      /\ \A i \in 1..(Len(s) - 1) : Tail(s)[i] = s[i + 1]
  OBVIOUS
<1>2. IsInjective(Tail(s)) BY <1>1 DEF IsInjective
<1>3. Head(s) \in S /\ Head(s) \in Range(s) BY <1>1 DEF Range
<1>4. ASSUME NEW x \in Range(Tail(s)) PROVE x \in Range(s) \ {Head(s)}
  <2>1. PICK i \in 1..(Len(s) - 1) : x = s[i + 1] BY <1>1 DEF Range
  <2>2. i + 1 \in DOMAIN s /\ 1 \in DOMAIN s /\ i + 1 # 1 BY <1>1
  <2> QED BY <1>1, <2>1, <2>2 DEF Range, IsInjective
<1>5. ASSUME NEW x \in Range(s) \ {Head(s)} PROVE x \in Range(Tail(s))
  <2>1. PICK i \in 1..Len(s) : x = s[i] BY <1>1 DEF Range
  <2>2. i # 1 BY <1>1, <2>1
  <2>3. i - 1 \in 1..(Len(s) - 1) /\ (i - 1) + 1 = i BY <1>1, <2>2
  <2>4. Tail(s)[i - 1] = x BY <1>1, <2>1, <2>3
  <2> QED BY <1>1, <2>3, <2>4 DEF Range
<1> QED BY <1>1, <1>2, <1>3, <1>4, <1>5

\* The headline's rows are stored, and an account's share of them is its latest.
LEMMA HeadlineRows ==
  ASSUME StoreTypeOK
  PROVE /\ Headline \subseteq balances
        /\ \A a \in Externals : LatestBalances(a) = {r \in Headline : r.account = a}
        /\ \A r \in balances : r.account \in Externals /\ Value(r) \in Nat
<1>1. \A r \in balances : r.account \in Externals /\ Value(r) \in Nat
  BY RowFields DEF StoreTypeOK
<1>2. \A a \in Externals : LatestBalances(a) = {r \in Headline : r.account = a}
  BY DEF Headline, LatestBalances, Of
<1>3. Headline \subseteq balances BY DEF Headline, LatestBalances, Of
<1> QED BY <1>1, <1>2, <1>3

\* A step that is not the request's own.
LEMMA OtherSteps ==
  ASSUME [Next]_vars
  PROVE \/ Disturbs /\ UNCHANGED netLiq /\ UNCHANGED brokerBase
        \/ AccountPolled
        \/ RequestReads \/ RequestAddsBroker \/ RequestAddsExternal \/ RequestAnswers
        \/ UNCHANGED vars
BY DEF Next

LEMMA RequestTypePreserved == NetWorthInv /\ [Next]_vars => TypeOK'
<1> SUFFICES ASSUME NetWorthInv, [Next]_vars PROVE TypeOK' OBVIOUS
<1> DEFINE Requests == [rates : SUBSET Currencies, base : Currencies \cup {None}, left : Seq(Externals),
                        sum : Nat \cup {None}, still : BOOLEAN, phase : {"none", "rates", "sums"}]
           Rest == /\ brokerBase \in Currencies \cup {None}
                   /\ netLiq \in NetLiqs \cup {None}
                   /\ request \in Requests
<1>0. StoreTypeOK' BY StoreTypePreserved DEF NetWorthInv, TablesInv
<1>1. Rest BY DEF NetWorthInv, TypeOK
<1>2. SUFFICES Rest' BY <1>0 DEF TypeOK
<1>3. ASSUME Disturbs PROVE request' \in Requests
  BY <1>1, <1>3, Zenon DEF Disturbs
<1>4. CASE Disturbs /\ UNCHANGED netLiq /\ UNCHANGED brokerBase BY <1>1, <1>3, <1>4
<1>5. CASE AccountPolled
  <2>1. brokerBase' \in Currencies \cup {None} /\ netLiq' \in NetLiqs \cup {None}
    BY <1>1, <1>5, RatesAreTyped DEF AccountPolled
  <2>2. request' \in Requests BY <1>3, <1>5 DEF AccountPolled
  <2> QED BY <2>1, <2>2
<1>6. CASE RequestReads
  <2>1. PICK found \in SUBSET CurrenciesInScope :
          request' = [NoRequest EXCEPT !.rates = found \cup {Target}, !.base = brokerBase, !.phase = "rates"]
    BY <1>6 DEF RequestReads
  <2>2. CurrenciesInScope \subseteq Currencies
    <3>1. \A a \in Externals : base[a] \in Currencies \cup {None}
      BY DEF NetWorthInv, TablesInv, StoreTypeOK
    <3>2. \A r \in Headline : CurrencyOf[r.from] \in Currencies
      BY HeadlineRows, RowFields DEF NetWorthInv, TablesInv, StoreTypeOK
    <3>3. BaseOf(brokerBase) \in Currencies BY <1>1, RatesAreTyped DEF BaseOf
    <3> QED BY <3>1, <3>2, <3>3 DEF CurrenciesInScope
  <2>3. found \cup {Target} \in SUBSET Currencies BY <2>2, RatesAreTyped
  <2>4. <<>> \in Seq(Externals) OBVIOUS
  <2>5. request' = [rates |-> found \cup {Target}, base |-> brokerBase, left |-> <<>>, sum |-> None,
                    still |-> TRUE, phase |-> "rates"]
    BY <2>1 DEF NoRequest
  <2>6. request' \in Requests BY <1>1, <2>3, <2>4, <2>5
  <2> QED BY <1>1, <1>6, <2>6 DEF RequestReads
<1>7. CASE RequestAddsBroker
  <2> DEFINE sum == IF netLiq = None THEN 0 ELSE Convert(netLiq, BaseOf(request.base), request.rates)
  <2>1. sum \in Nat \cup {None}
    <3>1. request.base \in Currencies \cup {None} BY <1>1
    <3>2. BaseOf(request.base) \in Currencies BY <3>1, RatesAreTyped DEF BaseOf
    <3>3. netLiq # None => netLiq \in Nat BY <1>1, RatesAreTyped
    <3>4. RateOf[BaseOf(request.base)] \in Nat BY <3>2, RatesAreTyped
    <3>5. netLiq # None => netLiq * RateOf[BaseOf(request.base)] \in Nat BY <3>3, <3>4
    <3> QED BY <3>5 DEF Convert
  <2>2. ReadOrder \in Seq(Externals) BY RatesAreTyped
  <2>3. request' = [request EXCEPT !.phase = "sums", !.left = ReadOrder, !.sum = sum]
    BY <1>7 DEF RequestAddsBroker
  <2> HIDE DEF sum
  <2>4. request' \in Requests BY <1>1, <2>1, <2>2, <2>3
  <2> QED BY <1>1, <1>7, <2>4 DEF RequestAddsBroker
<1>8. CASE RequestAddsExternal
  <2> DEFINE rows == LatestBalances(Head(request.left))
             f == [r \in rows |-> ConvertedRow(r)]
             sum == IF request.sum = None \/ \E r \in rows : ConvertedRow(r) = None
                    THEN None ELSE request.sum + SumFunction(f)
  <2>1. request.left # <<>> /\ request.left \in Seq(Externals) BY <1>1, <1>8 DEF RequestAddsExternal
  <2>2. Tail(request.left) \in Seq(Externals) BY <2>1
  <2>3. ASSUME request.sum # None, \A r \in rows : ConvertedRow(r) # None PROVE sum \in Nat
    <3>1. rows \in SUBSET balances BY DEF LatestBalances, Of
    <3>2. IsFiniteSet(rows) BY <3>1, FS_Subset DEF NetWorthInv, TablesInv
    <3>3. \A r \in rows : f[r] \in Nat
      <4>1. ASSUME NEW r \in rows PROVE ConvertedRow(r) \in Nat
        <5>1. Value(r) \in Nat BY <3>1, HeadlineRows DEF NetWorthInv, TablesInv
        <5>2. ConvertedRow(r) = Value(r) BY <2>3 DEF ConvertedRow, Convert, Value
        <5> QED BY <5>1, <5>2
      <4> HIDE DEF rows
      <4> QED BY <4>1
    <3>4. SumFunction(f) \in Nat
      <4>1. DOMAIN f = rows OBVIOUS
      <4> HIDE DEF f, rows
      <4> QED BY <3>2, <3>3, <4>1, SumNat DEF SumFunction
    <3>5. request.sum \in Nat BY <1>1, <2>3
    <3>6. sum = request.sum + SumFunction(f) BY <2>3
    <3> HIDE DEF sum, f, rows
    <3> QED BY <3>4, <3>5, <3>6
  <2>4. sum \in Nat \cup {None}
    <3>1. CASE request.sum = None \/ \E r \in rows : ConvertedRow(r) = None BY <3>1
    <3>2. CASE ~(request.sum = None \/ \E r \in rows : ConvertedRow(r) = None)
      <4> HIDE DEF sum
      <4> QED BY <2>3, <3>2
    <3> HIDE DEF sum
    <3> QED BY <3>1, <3>2
  <2>5. request' = [request EXCEPT !.left = Tail(request.left), !.sum = sum]
    BY <1>8 DEF RequestAddsExternal
  <2> HIDE DEF sum
  <2>6. request' \in Requests BY <1>1, <2>2, <2>4, <2>5
  <2> QED BY <1>1, <1>8, <2>6 DEF RequestAddsExternal
<1>9. CASE RequestAnswers
  <2>1. NoRequest \in Requests BY DEF NoRequest
  <2> QED BY <1>1, <1>9, <2>1 DEF RequestAnswers
<1>10. CASE UNCHANGED vars BY <1>1, <1>10 DEF vars
<1> HIDE DEF Rest
<1> QED BY <1>4, <1>5, <1>6, <1>7, <1>8, <1>9, <1>10, OtherSteps

\* The sum depends on the balances and the request alone.
LEMMA SumSoFarPreserved == NetWorthInv /\ [Next]_vars => SumSoFar'
<1> SUFFICES ASSUME NetWorthInv, [Next]_vars PROVE SumSoFar' OBVIOUS
<1>0. StoreTypeOK /\ IsFiniteSet(balances) /\ SumSoFar BY DEF NetWorthInv, TablesInv
<1>1. ASSUME UNCHANGED <<balances, netLiq, request>> PROVE SumSoFar'
  <2>1. UNCHANGED <<BrokerPart, RowsRead, RowValues>>
    BY <1>1 DEF BrokerPart, RowsRead, RowValues, Headline, LatestBalances, Of, ToRead
  <2> QED BY <1>0, <1>1, <2>1 DEF SumSoFar
<1>2. ASSUME Disturbs PROVE SumSoFar'
  <2>1. CASE request.phase = "sums" /\ <<balances, netLiq>>' # <<balances, netLiq>>
    <3>1. request' = [request EXCEPT !.still = FALSE] BY <1>2, <2>1 DEF Disturbs
    <3>2. request'.left = request.left /\ request'.phase = "sums" /\ ~request'.still
      BY <2>1, <3>1 DEF NetWorthInv, TypeOK
    <3> QED BY <1>0, <3>2 DEF SumSoFar
  <2>2. CASE request.phase # "sums"
    <3>1. request' = request BY <1>2, <2>2 DEF Disturbs
    <3> QED BY <1>0, <2>2, <3>1 DEF SumSoFar
  <2>3. CASE <<balances, netLiq>>' = <<balances, netLiq>>
    <3>1. request' = request BY <1>2, <2>3 DEF Disturbs
    <3> QED BY <1>1, <2>3, <3>1
  <2> QED BY <2>1, <2>2, <2>3
<1>3. CASE AccountPolled BY <1>2, <1>3 DEF AccountPolled
<1>4. CASE RequestReads
  <2>1. /\ request.phase = "none" /\ request'.left = <<>> /\ request'.phase = "rates" /\ request'.still
    BY <1>4 DEF RequestReads, NoRequest
  <2>2. IsInjective(<<>>) BY DEF IsInjective
  <2> QED BY <2>1, <2>2 DEF SumSoFar
<1>5. CASE RequestAddsBroker
  <2> DEFINE sum == IF netLiq = None THEN 0 ELSE Convert(netLiq, BaseOf(request.base), request.rates)
  <2>1. request' = [request EXCEPT !.phase = "sums", !.left = ReadOrder, !.sum = sum]
    BY <1>5 DEF RequestAddsBroker
  <2>2. request'.phase = "sums" /\ request'.left = ReadOrder /\ request'.base = request.base
        /\ request'.sum = sum
    <3> HIDE DEF sum
    <3> QED BY <2>1 DEF NetWorthInv, TypeOK
  <2>3. BrokerPart' = BrokerPart BY <1>5, <2>2 DEF RequestAddsBroker, BrokerPart
  <2>4. sum # None => sum = BrokerPart BY DEF BrokerPart, Convert
  <2>5. RowsRead' = {}
    <3>1. ToRead' = Externals BY <2>2, RatesAreTyped DEF ToRead
    <3>2. Headline' = Headline BY <1>5 DEF RequestAddsBroker, storeVars, Headline, LatestBalances, Of
    <3>3. \A r \in Headline : r.account \in Externals BY <1>0, HeadlineRows
    <3> QED BY <3>1, <3>2, <3>3 DEF RowsRead
  <2>6. SumFunctionOnSet(RowValues', {}) = 0 BY SumEmpty
  <2>7. netLiq # None => netLiq \in Nat BY RatesAreTyped DEF NetWorthInv, TypeOK
  <2>8. RateOf[BaseOf(request.base)] \in Nat
    <3>1. request.base \in Currencies \cup {None} BY DEF NetWorthInv, TypeOK
    <3>2. BaseOf(request.base) \in Currencies BY <3>1, RatesAreTyped DEF BaseOf
    <3> QED BY <3>2, RatesAreTyped
  <2>9. BrokerPart \in Nat BY <2>7, <2>8 DEF BrokerPart
  <2>10. \A n \in Nat : n = n + 0 OBVIOUS
  <2>11. IsInjective(ReadOrder) BY RatesAreTyped
  <2> HIDE DEF sum
  <2>12. sum # None => sum = BrokerPart' + SumFunctionOnSet(RowValues', RowsRead')
    BY <2>3, <2>4, <2>5, <2>6, <2>9, <2>10
  <2> QED BY <2>2, <2>11, <2>12 DEF SumSoFar
<1>6. CASE RequestAddsExternal
  <2> DEFINE h == Head(request.left)
             rows == LatestBalances(h)
             f == [r \in rows |-> ConvertedRow(r)]
             sum == IF request.sum = None \/ \E r \in rows : ConvertedRow(r) = None
                    THEN None ELSE request.sum + SumFunction(f)
  <2>1. request.left # <<>> /\ request.left \in Seq(Externals) /\ IsInjective(request.left)
    BY <1>0, <1>6 DEF RequestAddsExternal, NetWorthInv, TypeOK, SumSoFar
  <2>2. /\ IsInjective(Tail(request.left)) /\ h \in Externals /\ h \in ToRead
        /\ Range(Tail(request.left)) = ToRead \ {h}
    BY <2>1, HeadIsRead DEF ToRead
  <2>3. request' = [request EXCEPT !.left = Tail(request.left), !.sum = sum]
    BY <1>6 DEF RequestAddsExternal
  <2>4. /\ request'.left = Tail(request.left) /\ request'.sum = sum /\ request'.base = request.base
        /\ request'.phase = request.phase /\ request'.still = request.still
    <3> HIDE DEF sum
    <3> QED BY <2>3 DEF NetWorthInv, TypeOK
  <2>5. request.phase = "sums" BY <1>0, <2>1 DEF SumSoFar
  <2>6. UNCHANGED <<balances, netLiq>> BY <1>6 DEF RequestAddsExternal, storeVars
  <2>7. BrokerPart' = BrokerPart /\ RowValues' = RowValues /\ Headline' = Headline
    BY <2>4, <2>6 DEF BrokerPart, RowValues, Headline, LatestBalances, Of
  <2>8. rows = {r \in Headline : r.account = h} BY <1>0, <2>2, HeadlineRows
  <2>9. RowsRead' = RowsRead \cup rows /\ RowsRead \cap rows = {}
    <3>1. ToRead' = ToRead \ {h} BY <2>2, <2>4 DEF ToRead
    <3>2. RowsRead' = {r \in Headline : r.account \notin ToRead \ {h}} BY <2>7, <3>1 DEF RowsRead
    <3> HIDE DEF rows
    <3> QED BY <2>2, <2>8, <3>2 DEF RowsRead
  <2>10. RowsRead \in SUBSET balances /\ rows \in SUBSET balances
    <3> HIDE DEF rows
    <3> QED BY <1>0, <2>8, HeadlineRows DEF RowsRead
  <2>11. IsFiniteSet(RowsRead) /\ IsFiniteSet(rows) BY <1>0, <2>10, FS_Subset
  <2>12. \A r \in balances : RowValues[r] = Value(r) /\ RowValues[r] \in Int /\ RowValues[r] \in Nat
    <3>1. \A r \in balances : RowValues[r] = Value(r) BY DEF RowValues
    <3>2. \A r \in balances : Value(r) \in Nat BY <1>0, HeadlineRows
    <3> QED BY <3>1, <3>2
  <2>13. SumFunctionOnSet(RowValues, RowsRead \cup rows)
           = SumFunctionOnSet(RowValues, RowsRead) + SumFunctionOnSet(RowValues, rows)
    <3> HIDE DEF rows
    <3> QED BY <2>9, <2>10, <2>11, <2>12, SumUnion
  <2>14. ASSUME sum # None, request.still
         PROVE sum = BrokerPart + SumFunctionOnSet(RowValues, RowsRead \cup rows)
    <3>1. request.sum # None /\ (\A r \in rows : ConvertedRow(r) # None) /\ sum = request.sum + SumFunction(f)
      BY <2>14
    <3>2. \A r \in rows : f[r] = RowValues[r]
      <4>1. ASSUME NEW r \in rows PROVE ConvertedRow(r) = Value(r)
        BY <3>1 DEF ConvertedRow, Convert, Value
      <4>2. \A r \in rows : f[r] = ConvertedRow(r) OBVIOUS
      <4> HIDE DEF rows, f
      <4> QED BY <2>10, <2>12, <4>1, <4>2
    <3>3. SumFunction(f) = SumFunctionOnSet(RowValues, rows)
      <4>1. DOMAIN f = rows OBVIOUS
      <4> HIDE DEF f, rows
      <4> QED BY <2>11, <3>2, <4>1, SumAgrees DEF SumFunction
    <3>4. request.sum = BrokerPart + SumFunctionOnSet(RowValues, RowsRead)
      BY <1>0, <2>5, <2>14, <3>1 DEF SumSoFar
    <3>5. SumFunctionOnSet(RowValues, rows) \in Int /\ SumFunctionOnSet(RowValues, RowsRead) \in Int
      <4> HIDE DEF rows
      <4> QED BY <2>10, <2>11, <2>12, SumInt
    <3>6. BrokerPart \in Int
      <4>1. netLiq # None => netLiq \in Nat BY RatesAreTyped DEF NetWorthInv, TypeOK
      <4>2. RateOf[BaseOf(request.base)] \in Nat
        <5>1. request.base \in Currencies \cup {None} BY DEF NetWorthInv, TypeOK
        <5>2. BaseOf(request.base) \in Currencies BY <5>1, RatesAreTyped DEF BaseOf
        <5> QED BY <5>2, RatesAreTyped
      <4> QED BY <4>1, <4>2 DEF BrokerPart
    <3>7. \A x, y, z \in Int : (x + y) + z = x + (y + z) OBVIOUS
    <3> HIDE DEF sum, f, rows
    <3> QED BY <2>13, <3>1, <3>3, <3>4, <3>5, <3>6, <3>7
  <2> HIDE DEF sum, rows, h
  <2>15. request'.still /\ request'.sum # None
           => request'.sum = BrokerPart' + SumFunctionOnSet(RowValues', RowsRead')
    BY <2>4, <2>7, <2>9, <2>14
  <2> QED BY <2>2, <2>4, <2>5, <2>15 DEF SumSoFar
<1>7. CASE RequestAnswers
  <2>1. request' = NoRequest BY <1>7 DEF RequestAnswers
  <2>2. request'.left = <<>> /\ request'.phase = "none" /\ request'.still BY <2>1 DEF NoRequest
  <2>3. IsInjective(<<>>) BY DEF IsInjective
  <2> QED BY <2>2, <2>3 DEF SumSoFar
<1>8. CASE UNCHANGED vars BY <1>1, <1>8 DEF vars, storeVars
<1> QED BY <1>2, <1>3, <1>4, <1>5, <1>6, <1>7, <1>8, OtherSteps

LEMMA NetWorthInductive == NetWorthInv /\ [Next]_vars => NetWorthInv'
BY TablesPreserved, RequestTypePreserved, SumSoFarPreserved DEF NetWorthInv

LEMMA InitNetWorth == Init => NetWorthInv
<1> SUFFICES ASSUME Init PROVE NetWorthInv OBVIOUS
<1>1. TablesInv BY InitTables
<1>2. request = [rates |-> {}, base |-> None, left |-> <<>>, sum |-> None, still |-> TRUE, phase |-> "none"]
  BY DEF Init, NoRequest
<1>3. TypeOK
  <2>1. <<>> \in Seq(Externals) OBVIOUS
  <2> QED BY <1>1, <1>2, <2>1 DEF Init, TablesInv, TypeOK
<1>4. IsInjective(<<>>) BY DEF IsInjective
<1>5. SumSoFar BY <1>2, <1>4 DEF SumSoFar
<1> QED BY <1>1, <1>3, <1>5 DEF NetWorthInv

\* Tables, rates and the request keep their types.
THEOREM TypeCorrect == Spec => []TypeOK
<1>1. NetWorthInv => TypeOK BY DEF NetWorthInv
<1> QED BY <1>1, InitNetWorth, NetWorthInductive, PTL DEF Spec

\* With no account left to read, what has been added up is the whole.
LEMMA SumIsWhole == NetWorthInv => CombinedIsWhole
<1> SUFFICES ASSUME NetWorthInv, request.phase = "sums", request.left = <<>>, request.still,
                    netLiq = None \/ request.base = BrokerBase, request.sum # None
             PROVE request.sum = Worth
  BY DEF CombinedIsWhole
<1>1. StoreTypeOK /\ IsFiniteSet(balances) /\ SumSoFar BY DEF NetWorthInv, TablesInv
<1>2. request.sum = BrokerPart + SumFunctionOnSet(RowValues, RowsRead) BY <1>1 DEF SumSoFar
<1>3. RowsRead = Headline
  <2>1. ToRead = {} BY DEF ToRead, Range
  <2> QED BY <2>1 DEF RowsRead
<1> DEFINE part == IF netLiq = None THEN 0 ELSE netLiq * RateOf[BrokerBase]
<1>4. BrokerPart = part
  <2>1. BaseOf(BrokerBase) = BrokerBase BY RatesAreTyped, FilesAreTyped DEF BaseOf
  <2> QED BY <2>1 DEF BrokerPart
<1>5. SumFunctionOnSet(RowValues, Headline) = ExternalWorth
  <2> DEFINE g == [r \in Headline |-> Value(r)]
  <2>1. Headline \in SUBSET balances BY <1>1, HeadlineRows
  <2>2. IsFiniteSet(Headline) BY <1>1, <2>1, FS_Subset
  <2>3. \A r \in Headline : RowValues[r] = g[r] BY <2>1 DEF RowValues
  <2>4. ExternalWorth = SumFunctionOnSet(g, Headline) BY DEF ExternalWorth, SumFunction
  <2> HIDE DEF g
  <2> QED BY <2>2, <2>3, <2>4, SumAgrees
<1>6. SumFunctionOnSet(RowValues, Headline) \in Int /\ part \in Int
  <2>1. Headline \in SUBSET balances BY <1>1, HeadlineRows
  <2>2. \A r \in Headline : RowValues[r] \in Int
    <3>1. \A r \in balances : Value(r) \in Nat BY <1>1, HeadlineRows
    <3> QED BY <2>1, <3>1 DEF RowValues
  <2>3. IsFiniteSet(Headline) BY <1>1, <2>1, FS_Subset
  <2>4. netLiq # None => netLiq \in Nat BY RatesAreTyped DEF NetWorthInv, TypeOK
  <2>5. RateOf[BrokerBase] \in Nat BY RatesAreTyped
  <2> QED BY <2>2, <2>3, <2>4, <2>5, SumInt
<1>7. Worth = ExternalWorth + part BY DEF Worth
<1>8. \A x, y \in Int : x + y = y + x OBVIOUS
<1> HIDE DEF part
<1> QED BY <1>2, <1>3, <1>4, <1>5, <1>6, <1>7, <1>8

\* A combined total that is about to go out is None or the whole worth, whichever
\* accounts and currencies there are and whatever order they are read in.
THEOREM CombinedWhole == Spec => []CombinedIsWhole
BY InitNetWorth, NetWorthInductive, SumIsWhole, PTL DEF Spec

(***************************************************************************)
(* The chart and the headline.                                             *)
(***************************************************************************)
\* Account by account, the latest rows are the rows carried to the month, and
\* have a rate together or not at all.
LEMMA HeadlineIsCharted == TablesInv => HeadlineOnChart
<1> SUFFICES ASSUME TablesInv, NEW m \in Months, NEW rates \in SUBSET Currencies,
                    \A a \in Externals : StatedBefore(a, m)
             PROVE Chart(m, rates)
                     = SumFunction([r \in {h \in Headline : CurrencyOf[h.from] \in rates} |-> Value(r)])
  BY DEF HeadlineOnChart
<1> DEFINE upper == MonthEnd(m)
           shown == {h \in Headline : CurrencyOf[h.from] \in rates}
           converted(a) == Convert(MonthTotal(a, m), base[a], rates)
           part == [a \in Externals |-> IF converted(a) = None THEN 0 ELSE converted(a)]
           v == [r \in shown |-> Value(r)]
           k == [r \in shown |-> r.account]
<1>0. StoreTypeOK /\ IsFiniteSet(balances) BY DEF TablesInv
<1>1. /\ Headline \in SUBSET balances /\ IsFiniteSet(Headline)
      /\ shown \in SUBSET Headline /\ IsFiniteSet(shown)
  BY <1>0, HeadlineRows, FS_Subset
<1>2. \A r \in balances : /\ Day(r) \in Nat /\ Amount(r) \in Nat
                          /\ r.account \in Externals /\ r \in Of(r.account)
  BY <1>0, RowFields DEF StoreTypeOK, Of
<1>3. ASSUME NEW a \in Externals PROVE LatestBalances(a) = LatestPerCategory(a, upper)
  <2>1. ASSUME NEW r \in LatestBalances(a) PROVE r \in LatestPerCategory(a, upper)
    <3>1. r \in Of(a) /\ \A s \in Of(a) : Day(s) <= Day(r) BY DEF LatestBalances
    <3>2. Day(r) < upper BY <3>1 DEF StatedBefore
    <3> QED BY <3>1, <3>2 DEF LatestPerCategory
  <2>2. ASSUME NEW r \in LatestPerCategory(a, upper) PROVE r \in LatestBalances(a)
    <3>1. /\ r \in Of(a) /\ r \in balances
          /\ \A s \in Of(a) : Category(s) = Category(r) /\ Day(s) < upper => Day(s) <= Day(r)
      BY DEF LatestPerCategory, Of
    <3>2. PICK s \in Of(a) : Category(s) = Category(r) /\ \A t \in Of(a) : Day(t) <= Day(s)
      BY <3>1 DEF StatedBefore
    <3>3. s \in balances BY DEF Of
    <3>4. Day(s) <= Day(r) BY <3>1, <3>2, <3>3 DEF StatedBefore
    <3>5. ASSUME NEW t \in Of(a) PROVE Day(t) <= Day(r)
      <4>1. t \in balances /\ Day(t) <= Day(s) BY <3>2 DEF Of
      <4> QED BY <1>2, <3>1, <3>3, <3>4, <4>1
    <3> QED BY <3>1, <3>5 DEF LatestBalances
  <2> QED BY <2>1, <2>2
<1>4. ASSUME NEW a \in Externals
      PROVE part[a] = SumFunctionOnSet(v, Group(shown, k, a))
  <2> DEFINE rows == LatestPerCategory(a, upper)
             f == [r \in rows |-> Amount(r)]
  <2>1. rows = {r \in Headline : r.account = a} BY <1>0, <1>3, HeadlineRows
  <2>2. \A r \in rows : r \in balances /\ CurrencyOf[r.from] = base[a]
    BY DEF LatestPerCategory, Of, StatedBefore
  <2>3. Group(shown, k, a) = {r \in rows : base[a] \in rates}
    <3>1. Group(shown, k, a) = {r \in shown : r.account = a} BY DEF Group
    <3> HIDE DEF rows
    <3> QED BY <2>1, <2>2, <3>1
  <2>4. MonthTotal(a, m) = SumFunctionOnSet(f, rows) BY DEF MonthTotal, SumFunction
  <2>5. rows \in SUBSET Headline /\ IsFiniteSet(rows)
    <3> HIDE DEF rows
    <3> QED BY <1>1, <2>1, FS_Subset
  <2>6. CASE base[a] \notin rates
    <3>1. part[a] = 0 BY <2>6 DEF Convert
    <3>2. Group(shown, k, a) = {} BY <2>3, <2>6
    <3> HIDE DEF part, v, k, shown
    <3> QED BY <3>1, <3>2, SumEmpty
  <2>7. CASE base[a] \in rates
    <3> DEFINE c == RateOf[base[a]]
    <3>1. c \in Nat BY <2>7, RatesAreTyped
    <3>2. ASSUME NEW r \in rows PROVE f[r] \in Nat /\ v[r] = f[r] * c
      <4>1. r \in shown
        <5> HIDE DEF rows
        <5> QED BY <2>1, <2>2, <2>7
      <4>2. CurrencyOf[r.from] = base[a] /\ Amount(r) \in Nat BY <1>2, <2>2
      <4>3. v[r] = Amount(r) * c BY <4>1, <4>2 DEF Value
      <4>4. f[r] = Amount(r) OBVIOUS
      <4> HIDE DEF f, v, c
      <4> QED BY <4>2, <4>3, <4>4
    <3>3. MonthTotal(a, m) \in Nat
      <4> HIDE DEF rows, f
      <4> QED BY <2>4, <2>5, <3>2, SumNat
    <3>4. converted(a) = MonthTotal(a, m) * c BY <2>7 DEF Convert
    <3>5. converted(a) \in Nat BY <3>1, <3>3, <3>4
    <3>6. part[a] = MonthTotal(a, m) * c BY <3>4, <3>5, RatesAreTyped
    <3>7. Group(shown, k, a) = rows BY <2>3, <2>7
    <3> HIDE DEF rows, f, v, c, part, k, shown, converted
    <3>8. SumFunctionOnSet(v, rows) = SumFunctionOnSet(f, rows) * c
      BY <2>5, <3>1, <3>2, SumScaled
    <3> QED BY <2>4, <3>6, <3>7, <3>8
  <2> QED BY <2>6, <2>7
<1>5. IsFiniteSet(Externals)
  <2>1. /\ ReadOrder \in [1..Len(ReadOrder) -> Externals] /\ Len(ReadOrder) \in Nat
        /\ \A a \in Externals : \E i \in 1..Len(ReadOrder) : ReadOrder[i] = a
    BY RatesAreTyped DEF Range
  <2>2. ReadOrder \in Surjection(1..Len(ReadOrder), Externals) BY <2>1 DEF Surjection
  <2>3. IsFiniteSet(1..Len(ReadOrder)) BY <2>1, FS_Interval
  <2> QED BY <2>2, <2>3, FS_Surjection
<1>6. \A r \in shown : v[r] \in Int /\ k[r] \in Externals
  <2>1. \A r \in Headline : Value(r) \in Int /\ r.account \in Externals BY <1>0, <1>1, HeadlineRows
  <2> QED BY <2>1
<1>7. Chart(m, rates) = SumFunctionOnSet(part, Externals) BY DEF Chart, SumFunction
<1>8. Groups(shown, k, Externals) = shown
  <2> HIDE DEF k
  <2> QED BY <1>6 DEF Groups
<1>9. SumFunction(v) = SumFunctionOnSet(v, shown) BY DEF SumFunction
<1> HIDE DEF v, k, part, shown
<1>10. SumFunctionOnSet(part, Externals) = SumFunctionOnSet(v, Groups(shown, k, Externals))
  BY <1>1, <1>4, <1>5, <1>6, SumGrouped
<1>11. Chart(m, rates) = SumFunction(v) BY <1>7, <1>8, <1>9, <1>10
<1> QED BY <1>11 DEF v, shown

\* While a month is the current one, the chart's value of it is the headline's
\* balances that have a rate, for any tables that uploads and deletions leave.
THEOREM HeadlineCharted == Spec => []HeadlineOnChart
BY TablesCorrect, HeadlineIsCharted, PTL
=============================================================================
