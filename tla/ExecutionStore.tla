--------------------------- MODULE ExecutionStore ---------------------------
(***************************************************************************)
(* One account's executions table under its writers: the live poll (the    *)
(* poll_trades job and the batch pull of a login), Flex imports, CSV       *)
(* uploads, and the duplicate clean-up that opens every chain rebuild (the *)
(* build_rolls job and the rebuild an HTTP request asks for).              *)
(*                                                                         *)
(* Each database statement sees what is committed when it starts (READ     *)
(* COMMITTED).  A writer that reads and then writes is two steps.          *)
(***************************************************************************)
EXTENDS Executions

CONSTANTS
  Pollers,     \* coroutines that run insert_poll_executions
  Rebuilders,  \* coroutines that run dedupe_executions
  Feeds        \* the feeds this account uses besides the poll

ASSUME FeedsAreFeeds == Feeds \subseteq {"flex", "csv"}

VARIABLES
  executed,  \* how many fills the broker has done
  rows,      \* the committed rows
  fetched,   \* a poller's fills, fetched and not yet matched with the stored keys
  kept,      \* a poller's rows that survived the match, not yet inserted
  doomed     \* a rebuilder's duplicate rows, read and not yet deleted

vars == <<executed, rows, fetched, kept, doomed>>

TypeOK ==
  /\ executed \in 0..MaxFill
  /\ rows \subseteq Rows
  /\ fetched \in [Pollers -> SUBSET Fills]
  /\ kept \in [Pollers -> SUBSET Rows]
  /\ doomed \in [Rebuilders -> SUBSET Rows]

Init ==
  /\ executed = 0
  /\ rows = {}
  /\ fetched = [p \in Pollers |-> {}]
  /\ kept = [p \in Pollers |-> {}]
  /\ doomed = [b \in Rebuilders |-> {}]

\* Another trade fills at the broker.
Execute ==
  /\ executed < MaxFill
  /\ executed' = executed + 1
  /\ UNCHANGED <<rows, fetched, kept, doomed>>

-----------------------------------------------------------------------------
(* The live poll: recent fills, matched against the authoritative keys that  *)
(* are stored at that moment, inserted a statement later.                    *)

\* Mutant: the poll reports a fill that is still working.
PollFetchesWorking(p, since) ==
  /\ fetched[p] = {} /\ kept[p] = {}
  /\ since \in 1..executed
  /\ fetched' = [fetched EXCEPT ![p] = since..(executed + 1)]
  /\ UNCHANGED <<executed, rows, kept, doomed>>

PollFetches(p, since) ==
  /\ fetched[p] = {} /\ kept[p] = {}
  /\ since \in 1..executed
  /\ fetched' = [fetched EXCEPT ![p] = since..executed]
  /\ UNCHANGED <<executed, rows, kept, doomed>>

\* Mutant: poll fills are not matched against the authoritative feeds.
PollKeepsAll(p) == {PollRow(f) : f \in fetched[p]}

PollKeeps(p) ==
  {r \in {PollRow(f) : f \in fetched[p]} : ~IsSuperseded(r, AuthoritativeKeys(rows))}

PollFilters(p) ==
  /\ fetched[p] # {}
  /\ kept' = [kept EXCEPT ![p] = PollKeeps(p)]
  /\ fetched' = [fetched EXCEPT ![p] = {}]
  /\ UNCHANGED <<executed, rows, doomed>>

\* INSERT .. ON CONFLICT (exec_id) DO NOTHING, and commit.
PollInserts(p) ==
  /\ kept[p] # {}
  /\ rows' = rows \cup kept[p]
  /\ kept' = [kept EXCEPT ![p] = {}]
  /\ UNCHANGED <<executed, fetched, doomed>>

\* The gateway, the login or the database fails the run; nothing is committed.
PollFails(p) ==
  /\ fetched[p] # {} \/ kept[p] # {}
  /\ fetched' = [fetched EXCEPT ![p] = {}]
  /\ kept' = [kept EXCEPT ![p] = {}]
  /\ UNCHANGED <<executed, rows, doomed>>

-----------------------------------------------------------------------------
(* The authoritative feeds insert what they parsed without a look at the     *)
(* table, so fetching and inserting are one step.                            *)

\* A Flex statement, by the hourly job or a login: a period of the history.
FlexImport(from, to) ==
  /\ "flex" \in Feeds
  /\ from \in 1..executed /\ to \in from..executed
  /\ rows' = rows \cup {FlexRow(f) : f \in from..to}
  /\ UNCHANGED <<executed, fetched, kept, doomed>>

\* An uploaded activity statement: a fill's exec_id holds its line in the file.
UploadTrades(from, to) ==
  /\ "csv" \in Feeds
  /\ from \in 1..executed /\ to \in from..executed
  /\ rows' = rows \cup {CsvRow(f, f - from) : f \in from..to}
  /\ UNCHANGED <<executed, fetched, kept, doomed>>

-----------------------------------------------------------------------------
(* dedupe_executions.                                                        *)

DedupeReads(b) ==
  /\ doomed[b] = {}
  /\ Superseded(rows) # {}
  /\ doomed' = [doomed EXCEPT ![b] = Superseded(rows)]
  /\ UNCHANGED <<executed, rows, fetched, kept>>

DedupeDeletes(b) ==
  /\ doomed[b] # {}
  /\ rows' = rows \ doomed[b]
  /\ doomed' = [doomed EXCEPT ![b] = {}]
  /\ UNCHANGED <<executed, fetched, kept>>

\* A leg another rebuild inserted in between blocks the delete by its foreign key.
DedupeFails(b) ==
  /\ doomed[b] # {}
  /\ doomed' = [doomed EXCEPT ![b] = {}]
  /\ UNCHANGED <<executed, rows, fetched, kept>>

\* The backend dies: what was not committed is gone.
BackendRestarts ==
  /\ fetched' = [p \in Pollers |-> {}]
  /\ kept' = [p \in Pollers |-> {}]
  /\ doomed' = [b \in Rebuilders |-> {}]
  /\ UNCHANGED <<executed, rows>>

-----------------------------------------------------------------------------
Poll(p) ==
  \/ \E since \in Fills : PollFetches(p, since)
  \/ PollFilters(p) \/ PollInserts(p) \/ PollFails(p)

Import ==
  \E from, to \in Fills : FlexImport(from, to) \/ UploadTrades(from, to)

Dedupe(b) == DedupeReads(b) \/ DedupeDeletes(b) \/ DedupeFails(b)

Next ==
  \/ Execute
  \/ \E p \in Pollers : Poll(p)
  \/ Import
  \/ \E b \in Rebuilders : Dedupe(b)
  \/ BackendRestarts

Spec == Init /\ [][Next]_vars

\* The rebuild job runs every few minutes for ever, and not every run of it is
\* cut by a restart or blocked by a foreign key.
FairSpec ==
  /\ Spec
  /\ \A b \in Rebuilders : WF_vars(DedupeReads(b)) /\ SF_vars(DedupeDeletes(b))

-----------------------------------------------------------------------------
Known     == {r.fill : r \in rows}
Confirmed == {r.fill : r \in {q \in rows : Authoritative(q)}}

Ledger == INSTANCE FillLedger WITH known <- Known, confirmed <- Confirmed

\* The clean-up loses no fill, whatever is imported, polled or deleted while a
\* list of duplicates waits to be deleted.  It needs content keys that tell fills
\* apart: "same contract, side, quantity and price => same execution".
HistoryOnlyGrows == Ledger!Spec

\* The poll copies of what an authoritative feed reports go away for good: also
\* the one that a poll running across the import adds after the clean-up.
DuplicatesGone == <>[](Superseded(rows) = {})
====
