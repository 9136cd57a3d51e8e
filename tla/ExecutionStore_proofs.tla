----------------------- MODULE ExecutionStore_proofs -----------------------
(* Proofs about ExecutionStore, for any number of fills, pollers and          *)
(* rebuilders.                                                                *)
EXTENDS ExecutionStore, TLAPS

LEMMA RowTypes ==
  ASSUME NEW f \in Fills, NEW n \in 0..MaxFill
  PROVE  PollRow(f) \in Rows /\ FlexRow(f) \in Rows /\ CsvRow(f, n) \in Rows
BY MaxFillIsNatural DEF PollRow, FlexRow, CsvRow, Rows, Fills

LEMMA TypePreserved == TypeOK /\ [Next]_vars => TypeOK'
<1> SUFFICES ASSUME TypeOK, [Next]_vars PROVE TypeOK' OBVIOUS
<1> USE DEF TypeOK
<1>1. CASE Execute BY <1>1, MaxFillIsNatural DEF Execute
<1>2. ASSUME NEW p \in Pollers, Poll(p) PROVE TypeOK'
  <2>1. ASSUME NEW since \in Fills, PollFetches(p, since) PROVE TypeOK'
    <3>1. since..executed \subseteq Fills BY MaxFillIsNatural DEF Fills
    <3> QED BY <2>1, <3>1 DEF PollFetches
  <2>2. CASE PollFilters(p)
    <3>1. PollKeeps(p) \subseteq Rows BY RowTypes, MaxFillIsNatural DEF PollKeeps
    <3> QED BY <2>2, <3>1 DEF PollFilters
  <2>3. CASE PollInserts(p) BY <2>3 DEF PollInserts
  <2>4. CASE PollFails(p) BY <2>4 DEF PollFails
  <2> QED BY <1>2, <2>1, <2>2, <2>3, <2>4 DEF Poll
<1>3. ASSUME NEW from \in Fills, NEW to \in Fills, FlexImport(from, to) PROVE TypeOK'
  <2>1. \A f \in from..to : f \in Fills BY MaxFillIsNatural DEF Fills
  <2>2. {FlexRow(f) : f \in from..to} \subseteq Rows
    BY <2>1, RowTypes, MaxFillIsNatural
  <2> QED BY <1>3, <2>2 DEF FlexImport
<1>4. ASSUME NEW from \in Fills, NEW to \in Fills, UploadTrades(from, to) PROVE TypeOK'
  <2>1. \A f \in from..to : f \in Fills /\ f - from \in 0..MaxFill
    BY MaxFillIsNatural DEF Fills
  <2>2. {CsvRow(f, f - from) : f \in from..to} \subseteq Rows
    BY <2>1, RowTypes
  <2> QED BY <1>4, <2>2 DEF UploadTrades
<1>5. ASSUME NEW b \in Rebuilders, Dedupe(b) PROVE TypeOK'
  <2>1. CASE DedupeReads(b) BY <2>1 DEF DedupeReads, Superseded
  <2>2. CASE DedupeDeletes(b) BY <2>2 DEF DedupeDeletes
  <2>3. CASE DedupeFails(b) BY <2>3 DEF DedupeFails
  <2> QED BY <1>5, <2>1, <2>2, <2>3 DEF Dedupe
<1>6. CASE BackendRestarts BY <1>6 DEF BackendRestarts
<1>7. CASE UNCHANGED vars BY <1>7 DEF vars
<1> QED BY <1>1, <1>2, <1>3, <1>4, <1>5, <1>6, <1>7 DEF Next, Import

\* The table and what its writers hold in hand keep their types (db/repo.py).
THEOREM TypeCorrect == Spec => []TypeOK
<1>1. Init => TypeOK BY MaxFillIsNatural DEF Init, TypeOK
<1> QED BY <1>1, TypePreserved, PTL DEF Spec

-----------------------------------------------------------------------------
(* The duplicate clean-up.  What makes it safe is that the authoritative twin  *)
(* of a doomed row cannot go away: nothing deletes an authoritative row.       *)

KeysTellFillsApart == \A f, g \in Options : KeyOf[f] = KeyOf[g] => f = g

LEMMA SupersededHasTwin ==
  ASSUME KeysTellFillsApart, NEW rs, NEW r \in Superseded(rs)
  PROVE  /\ r \in rs /\ ~Authoritative(r)
         /\ \E q \in rs : Authoritative(q) /\ q.fill = r.fill
BY DEF KeysTellFillsApart, Superseded, IsSuperseded, AuthoritativeKeys, HasKey, KeyOfRow

DoomedHaveTwins ==
  \A b \in Rebuilders : \A r \in doomed[b] :
    /\ ~Authoritative(r)
    /\ \E q \in rows : Authoritative(q) /\ q.fill = r.fill

LEMMA TwinsPreserved ==
  ASSUME KeysTellFillsApart, TypeOK, DoomedHaveTwins, [Next]_vars
  PROVE  DoomedHaveTwins'
<1>1. ASSUME rows \subseteq rows', UNCHANGED doomed PROVE DoomedHaveTwins'
  BY <1>1 DEF DoomedHaveTwins
<1>2. CASE Execute BY <1>1, <1>2 DEF Execute
<1>3. ASSUME NEW p \in Pollers, Poll(p) PROVE DoomedHaveTwins'
  BY <1>1, <1>3 DEF Poll, PollFetches, PollFilters, PollInserts, PollFails
<1>4. CASE Import BY <1>1, <1>4 DEF Import, FlexImport, UploadTrades
<1>5. ASSUME NEW b \in Rebuilders, DedupeReads(b) PROVE DoomedHaveTwins'
  <2>1. doomed' = [doomed EXCEPT ![b] = Superseded(rows)] /\ rows' = rows
    BY <1>5 DEF DedupeReads
  <2>2. \A r \in Superseded(rows) :
          ~Authoritative(r) /\ \E q \in rows : Authoritative(q) /\ q.fill = r.fill
    BY SupersededHasTwin
  <2> QED BY <2>1, <2>2 DEF DoomedHaveTwins, TypeOK
<1>6. ASSUME NEW b \in Rebuilders, DedupeDeletes(b) PROVE DoomedHaveTwins'
  <2>1. /\ doomed' = [doomed EXCEPT ![b] = {}]
        /\ rows' = rows \ doomed[b]
    BY <1>6 DEF DedupeDeletes
  <2>2. \A q \in rows : Authoritative(q) => q \in rows'
    BY <2>1 DEF DoomedHaveTwins
  <2>3. \A c \in Rebuilders : doomed'[c] \subseteq doomed[c]
    BY <2>1 DEF TypeOK
  <2> QED BY <2>2, <2>3 DEF DoomedHaveTwins
<1>7. ASSUME NEW b \in Rebuilders, DedupeFails(b) PROVE DoomedHaveTwins'
  BY <1>7 DEF DedupeFails, DoomedHaveTwins, TypeOK
<1>8. CASE BackendRestarts BY <1>8 DEF BackendRestarts, DoomedHaveTwins
<1>9. CASE UNCHANGED vars BY <1>1, <1>9 DEF vars
<1> QED BY <1>2, <1>3, <1>4, <1>5, <1>6, <1>7, <1>8, <1>9 DEF Next, Dedupe

-----------------------------------------------------------------------------
LEMMA StepLearns ==
  ASSUME TypeOK, TypeOK', DoomedHaveTwins, [Next]_vars
  PROVE  [Ledger!Learn]_<<Known, Confirmed>>
<1>1. ASSUME NEW rs \in SUBSET Rows
      PROVE  /\ {r.fill : r \in rs} \subseteq Fills
             /\ {r.fill : r \in {q \in rs : Authoritative(q)}} \subseteq {r.fill : r \in rs}
  BY DEF Rows
<1>2. Known' \in SUBSET Fills /\ Confirmed' \in SUBSET Known'
  BY <1>1 DEF Known, Confirmed, TypeOK
<1>3. ASSUME rows \subseteq rows' PROVE Ledger!Learn
  BY <1>2, <1>3 DEF Ledger!Learn, Known, Confirmed
<1>4. ASSUME NEW b \in Rebuilders, DedupeDeletes(b) PROVE Ledger!Learn
  <2>1. rows' = rows \ doomed[b] BY <1>4 DEF DedupeDeletes
  <2>2. \A q \in rows : Authoritative(q) => q \in rows'
    BY <2>1 DEF DoomedHaveTwins
  <2>3. Confirmed \subseteq Confirmed' BY <2>2 DEF Confirmed
  <2>4. ASSUME NEW r \in rows PROVE \E q \in rows' : q.fill = r.fill
    <3>1. CASE r \in doomed[b] BY <2>2, <3>1 DEF DoomedHaveTwins
    <3>2. CASE r \notin doomed[b] BY <2>1, <3>2
    <3> QED BY <3>1, <3>2
  <2>5. Known \subseteq Known' BY <2>4 DEF Known
  <2> QED BY <1>2, <2>3, <2>5 DEF Ledger!Learn
<1>5. \/ rows \subseteq rows'
      \/ \E b \in Rebuilders : DedupeDeletes(b)
  BY DEF Next, Execute, Poll, PollFetches, PollFilters, PollInserts, PollFails, Import,
     FlexImport, UploadTrades, Dedupe, DedupeReads, DedupeFails, BackendRestarts, vars
<1> QED BY <1>3, <1>4, <1>5

\* The table implements the growing trading history, for any feeds and any overlap
\* of polls, imports, uploads and rebuilds, if content keys tell option fills
\* apart (dedup.py:39-56, repo.py:243-291).
THEOREM LedgerGrows == KeysTellFillsApart => (Spec => HistoryOnlyGrows)
<1> SUFFICES ASSUME KeysTellFillsApart PROVE Spec => HistoryOnlyGrows OBVIOUS
<1>1. Init => DoomedHaveTwins BY DEF Init, DoomedHaveTwins
<1>2. TypeOK /\ DoomedHaveTwins /\ [Next]_vars => DoomedHaveTwins'
  BY TwinsPreserved
<1>3. Init => Ledger!Init BY DEF Init, Ledger!Init, Known, Confirmed
<1>4. TypeOK /\ TypeOK' /\ DoomedHaveTwins /\ [Next]_vars
        => [Ledger!Learn]_<<Known, Confirmed>>
  BY StepLearns
<1> QED BY <1>1, <1>2, <1>3, <1>4, TypeCorrect, PTL
    DEF Spec, HistoryOnlyGrows, Ledger!Spec
====
