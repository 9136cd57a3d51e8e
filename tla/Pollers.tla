------------------------------- MODULE Pollers -------------------------------
(***************************************************************************)
(* How a user's open positions reach the screen.  Two writers append       *)
(* batches of position rows: the batch pull that ends a login, and the     *)
(* poll_positions job, which walks the gateways whose user is logged in.   *)
(* The reader shows the non-zero rows of the latest batch.  The job runs   *)
(* at a fast burst cadence that every login re-arms and that a one-shot    *)
(* timer settles, unless the scheduler comes to it too late.               *)
(*                                                                         *)
(* A batch stands for its rows: the contracts with a position, and those   *)
(* closed today, which IBKR lists with position 0 until it clears them.    *)
(***************************************************************************)
EXTENDS Naturals, Sequences, SequencesExt

CONSTANTS
  Registry,   \* the gateways' accounts, in configuration order
  Answering,  \* the accounts whose gateway answers again and again
  Contracts,  \* the contracts an account may hold
  NoConid,    \* a listed row without a conid
  NoListing,  \* nothing is being read
  MaxTrades,  \* bound: openings and closings
  MaxLogins   \* bound: logins that reach their data pull

Registered == Range(Registry)

ASSUME BoundsAreNats == MaxTrades \in Nat /\ MaxLogins \in Nat
ASSUME NoConidIsNone == NoConid \notin Contracts
ASSUME RegistryIsSeq == Registry \in Seq(Registered) /\ Answering \subseteq Registered

VARIABLES
  book,      \* the contracts an account holds
  flat,      \* the contracts it closed that IBKR still lists
  batch,     \* the latest stored batch of each account
  loggedIn,  \* user_logged_in
  pull,      \* the positions section of a login's batch pull
  walk,      \* the accounts the running poll_positions has still to visit
  answer,    \* what it has read for the first of them
  cadence,   \* the trigger of poll_positions
  armed,     \* its settle timer is in the job store
  firing,    \* _settle_job has been handed to a thread
  misfired,  \* history: the timer armed last was dropped
  trades,    \* openings and closings so far
  logins     \* data pulls so far

broker == <<book, flat, trades>>
timer == <<cadence, armed, firing, misfired>>
pollVars == <<book, flat, batch, loggedIn, pull, walk, answer, cadence, armed,
              firing, misfired, trades, logins>>

Answers == [open : SUBSET (Contracts \cup {NoConid}), zero : SUBSET Contracts]
Batches == [open : SUBSET Contracts, zero : SUBSET Contracts, greeks : BOOLEAN]

NoPositions == [open |-> {}, zero |-> {}]

PollTypeOK ==
  /\ book \in [Registered -> SUBSET Contracts]
  /\ flat \in [Registered -> SUBSET Contracts]
  /\ batch \in [Registered -> Batches]
  /\ loggedIn \in [Registered -> BOOLEAN]
  /\ pull \in [Registered -> Answers \cup {NoListing}]
  /\ walk \in Seq(Registered)
  /\ answer \in Answers \cup {NoListing}
  /\ cadence \in {"burst", "steady"}
  /\ armed \in BOOLEAN
  /\ firing \in BOOLEAN
  /\ misfired \in BOOLEAN
  /\ trades \in 0..MaxTrades
  /\ logins \in 0..MaxLogins

\* A fresh database; start_scheduler adds the job in burst with its timer.
PollInit ==
  /\ book = [a \in Registered |-> {}]
  /\ flat = [a \in Registered |-> {}]
  /\ batch = [a \in Registered |-> [open |-> {}, zero |-> {}, greeks |-> FALSE]]
  /\ loggedIn = [a \in Registered |-> FALSE]
  /\ pull = [a \in Registered |-> NoListing]
  /\ walk = <<>>
  /\ answer = NoListing
  /\ cadence = "burst"
  /\ armed = TRUE
  /\ firing = FALSE
  /\ misfired = FALSE
  /\ trades = 0
  /\ logins = 0

\* What IBKR may answer to /portfolio/{account}/positions.
Listings(a) ==
  {[open |-> book[a] \cup odd, zero |-> flat[a]] : odd \in SUBSET {NoConid}}

\* Mutant: rows without a conid are kept.
EveryRow(ans) == ans

\* The rows that can be stored: normalize_position finds their conid.
Numbered(ans) == [ans EXCEPT !.open = @ \ {NoConid}]

HasRows(ans) == ans.open # {} \/ ans.zero # {}

\* The current portfolio: the latest batch's rows with a position.
LatestPositions(a) == batch[a].open

-----------------------------------------------------------------------------
(* The account at IBKR.                                                      *)

Opens(a, c) ==
  /\ c \notin book[a] /\ trades < MaxTrades
  /\ book' = [book EXCEPT ![a] = @ \cup {c}]
  /\ flat' = [flat EXCEPT ![a] = @ \ {c}]
  /\ trades' = trades + 1
  /\ UNCHANGED <<batch, loggedIn, pull, walk, answer, logins, timer>>

Closes(a, c) ==
  /\ c \in book[a] /\ trades < MaxTrades
  /\ book' = [book EXCEPT ![a] = @ \ {c}]
  /\ flat' = [flat EXCEPT ![a] = @ \cup {c}]
  /\ trades' = trades + 1
  /\ UNCHANGED <<batch, loggedIn, pull, walk, answer, logins, timer>>

\* Overnight IBKR drops the closed contracts from the listing.
Clears(a) ==
  /\ flat[a] # {}
  /\ flat' = [flat EXCEPT ![a] = {}]
  /\ UNCHANGED <<book, batch, loggedIn, pull, walk, answer, trades, logins, timer>>

-----------------------------------------------------------------------------
(* Writers of batches.                                                       *)

\* Append a batch: one without rows is not stored.
StoreBatch(a, ans, greeks) ==
  LET rows == Numbered(ans)
  IN  batch' = IF HasRows(rows)
               THEN [batch EXCEPT ![a] = [open |-> rows.open, zero |-> rows.zero, greeks |-> greeks]]
               ELSE batch

\* Mutant: a login restarts the burst and leaves the timer as it is.
RearmBurstUntimed ==
  /\ cadence' = "burst"
  /\ UNCHANGED <<armed, firing, misfired>>

\* rearm_burst: burst from now, with the settle timer added again.
RearmBurst ==
  /\ cadence' = "burst"
  /\ armed' = TRUE
  /\ misfired' = FALSE
  /\ UNCHANGED firing

\* pull_all: a failed positions section has no rows, like an empty listing.
PullFetches(a) ==
  /\ pull[a] = NoListing /\ logins < MaxLogins
  /\ \E ans \in Listings(a) \cup {NoPositions} : pull' = [pull EXCEPT ![a] = ans]
  /\ logins' = logins + 1
  /\ UNCHANGED <<batch, loggedIn, walk, answer, broker, timer>>

\* A transport error leaves pull_all, and the login is abandoned.
PullRaises(a) ==
  /\ pull[a] # NoListing
  /\ pull' = [pull EXCEPT ![a] = NoListing]
  /\ UNCHANGED <<batch, loggedIn, walk, answer, logins, broker, timer>>

\* _persist_pull_result, then the user is logged in and the burst re-armed.
PullStores(a) ==
  /\ pull[a] # NoListing
  /\ \E greeks \in BOOLEAN : StoreBatch(a, pull[a], greeks)
  /\ pull' = [pull EXCEPT ![a] = NoListing]
  /\ loggedIn' = [loggedIn EXCEPT ![a] = TRUE]
  /\ RearmBurst
  /\ UNCHANGED <<walk, answer, logins, broker>>

LogsOut(a) ==
  /\ loggedIn[a]
  /\ loggedIn' = [loggedIn EXCEPT ![a] = FALSE]
  /\ UNCHANGED <<batch, pull, walk, answer, logins, broker, timer>>

\* active_runtimes(), taken once when the job starts.
ActiveRuntimes ==
  LET upTo[n \in 0..Len(Registry)] ==
        IF n = 0 THEN <<>>
        ELSE IF loggedIn[Registry[n]] THEN Append(upTo[n - 1], Registry[n]) ELSE upTo[n - 1]
  IN  upTo[Len(Registry)]

PollStarts ==
  /\ walk = <<>>
  /\ ActiveRuntimes # <<>>
  /\ walk' = ActiveRuntimes
  /\ UNCHANGED <<batch, loggedIn, pull, answer, logins, broker, timer>>

PollFetches ==
  /\ walk # <<>> /\ answer = NoListing
  /\ answer' \in Listings(Head(walk))
  /\ UNCHANGED <<batch, loggedIn, pull, walk, logins, broker, timer>>

\* Mutant: one gateway's failure ends the whole walk.
PollFailsAll ==
  /\ walk # <<>>
  /\ walk' = <<>>
  /\ answer' = NoListing
  /\ UNCHANGED <<batch, loggedIn, pull, logins, broker, timer>>

\* The listing fails, or the connection breaks while the Greeks are read:
\* nothing is stored, it is logged, and the walk goes on.
PollFails ==
  /\ walk # <<>>
  /\ walk' = Tail(walk)
  /\ answer' = NoListing
  /\ UNCHANGED <<batch, loggedIn, pull, logins, broker, timer>>

\* Mutant: no batch is stored when the Greeks could not be fetched.
PollStoresPriced ==
  /\ answer # NoListing
  /\ \E greeks \in BOOLEAN :
       IF greeks THEN StoreBatch(Head(walk), answer, greeks) ELSE UNCHANGED batch
  /\ answer' = NoListing
  /\ walk' = Tail(walk)
  /\ UNCHANGED <<loggedIn, pull, logins, broker, timer>>

\* The Greeks arrive or are refused, and the batch is stored with what there is.
PollStores ==
  /\ answer # NoListing
  /\ \E greeks \in BOOLEAN : StoreBatch(Head(walk), answer, greeks)
  /\ answer' = NoListing
  /\ walk' = Tail(walk)
  /\ UNCHANGED <<loggedIn, pull, logins, broker, timer>>

-----------------------------------------------------------------------------
(* The burst's one-shot timer: a plain function, so the scheduler runs it in *)
(* a thread, after it has taken the timer out of its store.                  *)

SettleFires ==
  /\ armed
  /\ armed' = FALSE
  /\ firing' = TRUE
  /\ UNCHANGED <<batch, loggedIn, pull, walk, answer, logins, cadence, misfired, broker>>

\* The scheduler wakes up more than its default misfire grace of one second
\* after the run date, because the loop was blocked (a login restarts the
\* container in it): a timer without a next run is removed unrun.
SettleMisfires ==
  /\ armed
  /\ armed' = FALSE
  /\ misfired' = TRUE
  /\ UNCHANGED <<batch, loggedIn, pull, walk, answer, logins, cadence, firing, broker>>

\* _settle_job reschedules the job at its steady cadence.
SettleJob ==
  /\ firing
  /\ firing' = FALSE
  /\ cadence' = "steady"
  /\ UNCHANGED <<batch, loggedIn, pull, walk, answer, logins, armed, misfired, broker>>

PollNext ==
  \/ \E a \in Registered, c \in Contracts : Opens(a, c) \/ Closes(a, c)
  \/ \E a \in Registered : Clears(a)
  \/ \E a \in Registered : PullFetches(a) \/ PullRaises(a) \/ PullStores(a) \/ LogsOut(a)
  \/ PollStarts \/ PollFetches \/ PollFails \/ PollStores
  \/ SettleFires \/ SettleMisfires \/ SettleJob

PollSpec == PollInit /\ [][PollNext]_pollVars

Visiting(a) == walk # <<>> /\ Head(walk) = a

\* The scheduler keeps running its jobs, and the gateways in Answering keep
\* answering; the others may fail for ever.
PollFairness ==
  /\ WF_pollVars(PollStarts) /\ WF_pollVars(PollFetches \/ PollStores \/ PollFails)
  /\ \A a \in Answering :
       SF_pollVars(Visiting(a) /\ PollFetches) /\ SF_pollVars(Visiting(a) /\ PollStores)
  /\ WF_pollVars(SettleFires) /\ WF_pollVars(SettleJob)

PollFairSpec == PollSpec /\ PollFairness

-----------------------------------------------------------------------------
\* While the job polls in burst, a settle is still to come, unless the very timer
\* that the last re-arming set misfired: no login leaves the fast cadence on for
\* good, whichever way the timer's thread and rearm_burst interleave, and a
\* misfire is made up for by the next login.
BurstIsTimed == cadence = "burst" => armed \/ firing \/ misfired

\* An account whose user stays logged in, whose gateway keeps answering and
\* whose listing is not empty is shown as it is in the end: whatever the
\* login's pull and the walk stored out of order, and even when every other
\* gateway fails and every request for Greeks is refused.
PositionsShown ==
  \A a \in Answering :
    <>[](loggedIn[a] /\ book[a] \cup flat[a] # {}) => <>[](LatestPositions(a) = book[a])

\* "the latest batch is the current portfolio": the same, for every listing.  The
\* code does not keep it: an empty listing stores no batch (README, 3).
LatestBatchIsCurrent ==
  \A a \in Answering : <>[]loggedIn[a] => <>[](LatestPositions(a) = book[a])

\* "Promote a bursting job to its steady cadence once the window elapses": a burst
\* always has a settle to come.  The code does not keep it: nothing adds a timer
\* that misfired again before the next login (README, 3).
BurstsSettle == cadence = "burst" => armed \/ firing
=============================================================================
