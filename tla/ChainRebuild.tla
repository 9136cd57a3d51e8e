---------------------------- MODULE ChainRebuild ----------------------------
(***************************************************************************)
(* The stored roll chains of one account: rebuilt from its executions by   *)
(* the build_rolls job and by every HTTP request that saves a manual edit  *)
(* (poller/jobs/rolls.py, api/routes/portfolio.py), while feeds add rows.  *)
(*                                                                         *)
(* The chain builder (analytics/rolls.py) is reduced to what the stored    *)
(* tables can tell apart: one chain per position, named by its opening     *)
(* row, that owns the position's rows, and the manual edits on top.        *)
(***************************************************************************)
EXTENDS Executions, Sequences

CONSTANTS
  PositionOf,  \* the ticker, right and strike a fill trades, as one value
  PollFills,   \* fills the live poll reports before Flex does
  Job,         \* the build_rolls job (max_instances=1)
  Editors,     \* HTTP requests that save an edit and then rebuild
  MaxEdits     \* bound: edits saved in a behaviour

ASSUME PositionsOfFills == DOMAIN PositionOf = Fills
ASSUME PollFillsAreFills == PollFills \subseteq Fills
ASSUME JobIsNoEditor == Job \notin Editors
ASSUME MaxEditsIsNatural == MaxEdits \in Nat

Builders == {Job} \cup Editors

VARIABLES
  rows,                  \* executions
  chains, legs, closed,  \* roll_chains by id, roll_chain_legs, chains with status closed
  edits,                 \* chain_adjustments, oldest first
  saved,                 \* history: every edit users ever saved
  pc,                    \* what each builder does next
  doomed, seen, loaded,  \* the duplicates, executions and edits a builder read
  wiped                  \* the legs its DELETE saw

tables == <<rows, chains, legs, closed, edits>>
vars == <<tables, saved, pc, doomed, seen, loaded, wiped>>

TableRows == {FlexRow(f) : f \in Fills} \cup {PollRow(f) : f \in PollFills}
Edits     == [type : {"manual_link"}, chain : TableRows, exec : TableRows]
               \cup [type : {"manual_close"}, chain : TableRows]

TypeOK ==
  /\ rows \subseteq TableRows
  /\ chains \subseteq TableRows
  /\ legs \subseteq TableRows \X TableRows
  /\ closed \subseteq chains
  /\ edits \in Seq(Edits)
  /\ saved \in Seq(Edits) /\ Len(saved) <= MaxEdits
  /\ pc \in [Builders -> {"idle", "dedupe", "delete", "load", "adjust", "wipe", "wait", "write"}]
  /\ doomed \in [Builders -> SUBSET TableRows]
  /\ seen \in [Builders -> SUBSET TableRows]
  /\ loaded \in [Builders -> Seq(Edits)]
  /\ wiped \in [Builders -> SUBSET (TableRows \X TableRows)]

Init ==
  /\ rows = {} /\ chains = {} /\ legs = {} /\ closed = {}
  /\ edits = <<>> /\ saved = <<>>
  /\ pc = [b \in Builders |-> "idle"]
  /\ doomed = [b \in Builders |-> {}]
  /\ seen = [b \in Builders |-> {}]
  /\ loaded = [b \in Builders |-> <<>>]
  /\ wiped = [b \in Builders |-> {}]

-----------------------------------------------------------------------------
(* build_roll_chains: a pure function of executions and edits.               *)

\* Rows of one position in the builder's order: by time, a Flex row (its time is
\* a bare date) before the poll's copy of the same fill.
Before(q, r) == q.fill < r.fill \/ (q.fill = r.fill /\ q.feed = "flex" /\ r.feed = "poll")

SamePosition(q, r) == PositionOf[q.fill] = PositionOf[r.fill]

\* A chain's id is a hash of the exec_id that opened it.
Opener(rs, r) ==
  CHOOSE q \in rs : SamePosition(q, r) /\ ~ \E s \in rs : SamePosition(s, r) /\ Before(s, q)

AutoChains(rs) ==
  [chains |-> {Opener(rs, r) : r \in rs},
   legs   |-> {<<Opener(rs, r), r>> : r \in rs},
   closed |-> {}]

Owners(built, exec) == {c \in built.chains : <<c, exec>> \in built.legs}

\* The chain that owns e.exec is merged into e.chain.  An open source re-opens it.
Merge(built, src, target) ==
  [chains |-> built.chains \ {src},
   legs   |-> {<<IF l[1] = src THEN target ELSE l[1], l[2]>> : l \in built.legs},
   closed |-> IF src \in built.closed THEN built.closed \ {src} ELSE built.closed \ {target}]

\* Mutant: an edit whose chain is gone is applied all the same.
ApplyUnchecked(built, e) ==
  IF e.type = "manual_close" THEN [built EXCEPT !.closed = @ \cup {e.chain}]
  ELSE LET src == Owners(built, e.exec) \ {e.chain} IN
       IF src = {} THEN built ELSE Merge(built, CHOOSE c \in src : TRUE, e.chain)

ApplyAdjustment(built, e) ==
  IF e.chain \notin built.chains THEN built
  ELSE IF e.type = "manual_close" THEN [built EXCEPT !.closed = @ \cup {e.chain}]
  ELSE LET src == Owners(built, e.exec) \ {e.chain} IN
       IF src = {} THEN built ELSE Merge(built, CHOOSE c \in src : TRUE, e.chain)

BuildRollChains(rs, es) ==
  LET after[i \in 0..Len(es)] ==
        IF i = 0 THEN AutoChains(rs) ELSE ApplyAdjustment(after[i - 1], es[i])
  IN  after[Len(es)]

-----------------------------------------------------------------------------
(* The feeds and the users.                                                  *)

\* A feed commits a row; the poll leaves out what an authoritative feed has.
Ingest(r) ==
  /\ r \in TableRows \ rows
  /\ ~IsSuperseded(r, AuthoritativeKeys(rows))
  /\ rows' = rows \cup {r}
  /\ UNCHANGED <<chains, legs, closed, edits, saved, pc, doomed, seen, loaded, wiped>>

SaveEdit(h, e) ==
  /\ pc[h] = "idle"
  /\ Len(saved) < MaxEdits
  /\ e.chain \in chains
  /\ edits' = Append(edits, e)
  /\ saved' = Append(saved, e)
  /\ pc' = [pc EXCEPT ![h] = "dedupe"]
  /\ UNCHANGED <<rows, chains, legs, closed, doomed, seen, loaded, wiped>>

\* The user picks a chain and an execution of another one.
LinkChainExec(h, chain, exec) ==
  /\ \E c \in chains \ {chain} : <<c, exec>> \in legs
  /\ SaveEdit(h, [type |-> "manual_link", chain |-> chain, exec |-> exec])

CloseChainManual(h, chain) ==
  /\ chain \notin closed
  /\ SaveEdit(h, [type |-> "manual_close", chain |-> chain])

-----------------------------------------------------------------------------
(* _build_rolls_one.                                                         *)

JobStarts ==
  /\ pc[Job] = "idle"
  /\ pc' = [pc EXCEPT ![Job] = "dedupe"]
  /\ UNCHANGED <<tables, saved, doomed, seen, loaded, wiped>>

\* dedupe_executions, and a commit if there was something to delete.
DedupeReads(b) ==
  /\ pc[b] = "dedupe"
  /\ doomed' = [doomed EXCEPT ![b] = Superseded(rows)]
  /\ pc' = [pc EXCEPT ![b] = IF Superseded(rows) = {} THEN "load" ELSE "delete"]
  /\ UNCHANGED <<tables, saved, seen, loaded, wiped>>

\* The legs of the duplicate rows go first: they hold the rows by a foreign key.
DedupeDeletes(b) ==
  /\ pc[b] = "delete"
  /\ legs' = {l \in legs : l[2] \notin doomed[b]}
  /\ rows' = rows \ doomed[b]
  /\ doomed' = [doomed EXCEPT ![b] = {}]
  /\ pc' = [pc EXCEPT ![b] = "load"]
  /\ UNCHANGED <<chains, closed, edits, saved, seen, loaded, wiped>>

\* Another builder is writing legs for a duplicate row and so keeps it.
DedupeFails(b) ==
  /\ pc[b] = "delete"
  /\ \E o \in Builders \ {b} : pc[o] = "write" /\ seen[o] \cap doomed[b] # {}
  /\ doomed' = [doomed EXCEPT ![b] = {}]
  /\ pc' = [pc EXCEPT ![b] = "idle"]
  /\ UNCHANGED <<tables, saved, seen, loaded, wiped>>

LoadExecutions(b) ==
  /\ pc[b] = "load"
  /\ seen' = [seen EXCEPT ![b] = rows]
  /\ pc' = [pc EXCEPT ![b] = IF rows = {} THEN "idle" ELSE "adjust"]
  /\ UNCHANGED <<tables, saved, doomed, loaded, wiped>>

LoadAdjustments(b) ==
  /\ pc[b] = "adjust"
  /\ loaded' = [loaded EXCEPT ![b] = edits]
  /\ pc' = [pc EXCEPT ![b] = "wipe"]
  /\ UNCHANGED <<tables, saved, doomed, seen, wiped>>

LegsLocked(b, ls) == \E o \in Builders \ {b} : pc[o] = "write" /\ wiped[o] \cap ls # {}

\* DELETE of every leg that is committed when it starts: it waits for a builder
\* that is deleting the same legs and does not see the ones that one inserts.
WipeLegs(b) ==
  /\ pc[b] = "wipe"
  /\ wiped' = [wiped EXCEPT ![b] = legs]
  /\ pc' = [pc EXCEPT ![b] = IF LegsLocked(b, legs) THEN "wait" ELSE "write"]
  /\ UNCHANGED <<tables, saved, doomed, seen, loaded>>

WipeResumes(b) ==
  /\ pc[b] = "wait"
  /\ ~LegsLocked(b, wiped[b])
  /\ pc' = [pc EXCEPT ![b] = "write"]
  /\ UNCHANGED <<tables, saved, doomed, seen, loaded, wiped>>

Built(b)     == BuildRollChains(seen[b], loaded[b])
LegsAfter(b) == (legs \ wiped[b]) \cup Built(b).legs

\* Foreign keys: a leg's execution and its chain exist.
ForeignKeysHold(b) ==
  \A l \in LegsAfter(b) : l[1] \in Built(b).chains /\ l[2] \in rows

\* The edits of the chains cs, in their order.
EditsOf(cs, es) ==
  LET kept[i \in 0..Len(es)] ==
        IF i = 0 THEN <<>>
        ELSE IF es[i].chain \in cs THEN Append(kept[i - 1], es[i]) ELSE kept[i - 1]
  IN  kept[Len(es)]

Done(b) ==
  /\ pc' = [pc EXCEPT ![b] = "idle"]
  /\ seen' = [seen EXCEPT ![b] = {}]
  /\ loaded' = [loaded EXCEPT ![b] = <<>>]
  /\ wiped' = [wiped EXCEPT ![b] = {}]

\* Mutant: an edit keeps a chain that was not rebuilt from being dropped.
WriteChainsKeepingEdits(b) ==
  /\ pc[b] = "write"
  /\ ForeignKeysHold(b)
  /\ \A i \in 1..Len(edits) : edits[i].chain \in Built(b).chains
  /\ chains' = Built(b).chains
  /\ legs' = LegsAfter(b)
  /\ closed' = Built(b).closed
  /\ Done(b)
  /\ UNCHANGED <<rows, edits, saved, doomed>>

\* Upsert the rebuilt chains, insert their legs, then drop the chains that were
\* not rebuilt -- and first the edits that point at them -- and commit.
WriteChains(b) ==
  /\ pc[b] = "write"
  /\ ForeignKeysHold(b)
  /\ chains' = Built(b).chains
  /\ legs' = LegsAfter(b)
  /\ closed' = Built(b).closed
  /\ edits' = EditsOf(Built(b).chains, edits)
  /\ Done(b)
  /\ UNCHANGED <<rows, saved, doomed>>

\* A foreign key fails, or the database picks one of two overlapping writers as its
\* deadlock victim.
WriteFails(b) ==
  /\ pc[b] = "write"
  /\ ~ForeignKeysHold(b) \/ \E o \in Builders \ {b} : pc[o] = "write"
  /\ Done(b)
  /\ UNCHANGED <<tables, saved, doomed>>

\* The backend restarts, or the database drops what every builder was doing.
BackendRestarts ==
  /\ pc' = [b \in Builders |-> "idle"]
  /\ doomed' = [b \in Builders |-> {}]
  /\ seen' = [b \in Builders |-> {}]
  /\ loaded' = [b \in Builders |-> <<>>]
  /\ wiped' = [b \in Builders |-> {}]
  /\ UNCHANGED <<tables, saved>>

-----------------------------------------------------------------------------
BuildStep(b) ==
  \/ DedupeReads(b) \/ DedupeDeletes(b) \/ DedupeFails(b)
  \/ LoadExecutions(b) \/ LoadAdjustments(b)
  \/ WipeLegs(b) \/ WipeResumes(b)
  \/ WriteChains(b) \/ WriteFails(b)

UserEdits ==
  \E h \in Editors, c \in chains :
    CloseChainManual(h, c) \/ \E exec \in rows : LinkChainExec(h, c, exec)

Next ==
  \/ \E r \in TableRows : Ingest(r)
  \/ UserEdits
  \/ JobStarts
  \/ \E b \in Builders : BuildStep(b)
  \/ BackendRestarts

Spec == Init /\ [][Next]_vars

\* The job comes round again and again, a builder runs on, and the backend does
\* not restart for ever.
FairSpec ==
  /\ Spec
  /\ WF_vars(JobStarts)
  /\ \A b \in Builders : WF_vars(BuildStep(b))
  /\ <>[][~BackendRestarts]_vars

-----------------------------------------------------------------------------
\* What the builder makes of the rows rs: a chain for every row, the only one with a
\* leg for it, no leg to anything else and no chain without a leg.
OneChainEach(rs, built) ==
  /\ built.legs \subseteq built.chains \X rs
  /\ \A r \in rs : \E c \in built.chains :
       <<c, r>> \in built.legs /\ \A k \in built.chains : <<k, r>> \in built.legs => k = c
  /\ \A c \in built.chains : \E r \in rs : <<c, r>> \in built.legs
  /\ built.closed \subseteq built.chains

\* Whatever edits a rebuild read -- links into chains that are gone, links of what was
\* linked before, in any order -- the chains it is about to write hold every execution
\* it read, once: no cash flow is dropped or counted twice.
EachRowInOneChain ==
  \A b \in Builders :
    pc[b] \in {"wipe", "wait", "write"} => OneChainEach(seen[b], Built(b))

\* What every rebuild stands on, whatever it reads and however rebuilds overlap.
RebuildSound == TypeOK /\ EachRowInOneChain

UpToDate ==
  LET built == BuildRollChains(rows, edits) IN
    chains = built.chains /\ legs = built.legs /\ closed = built.closed

\* Once feeds and users are quiet, the stored chains become what the builder makes
\* of the stored executions and edits, and stay so: no edit, overlap of rebuilds or
\* foreign key freezes the pipeline.
Converges == <>[](rows # {} => UpToDate)

-----------------------------------------------------------------------------
(* Claims of the repository that the rebuild does not keep (README, 3).      *)

\* A saved link is honoured: once the stored chains are what the builder makes of the
\* stored rows and edits, the executions a user linked are in one chain -- "durable
\* user intent the builder must honor".  A link into a chain that another link merges
\* away is deleted with it.
Together(q, r) == \E c \in chains : <<c, q>> \in legs /\ <<c, r>> \in legs

LinksHonoured ==
  (\A b \in Builders : pc[b] = "idle") =>
    \A i \in 1..Len(saved) :
      /\ saved[i].type = "manual_link"
      /\ {saved[i].chain, saved[i].exec} \subseteq rows
      /\ ~Together(saved[i].chain, saved[i].exec)
      => ~UpToDate

\* A chain closed by hand stays closed, unless it is merged away or re-opened by a
\* link: the edit "takes effect now".  A job that loaded the edits before re-opens it.
CloseSticks ==
  [][\A c \in closed \cap chains' :
       c \in closed' \/ \E i \in 1..Len(edits) : edits[i].type = "manual_link"]_vars
====
