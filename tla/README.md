# options-tracker in TLA+

Formal models of the options-tracker backend: a self-hosted FastAPI service that
polls one or more Interactive Brokers (IBKR) gateways, keeps the trades in
PostgreSQL, rebuilds *roll chains* from them and serves a React dashboard. All
paths below are relative to the repository root; `app/` is `src/backend/app/`.

The models are about what the unit tests cannot reach: coroutines that read a
shared state, await and write it; a two-factor push approved at any moment; two
feeds that report the same trade; rebuilds that overlap; a process that restarts.

## 1. The system

| part | state | operations | talks to |
|---|---|---|---|
| gateway session (`app/poller/jobs/session.py`, `app/core/state.py`) | one in-memory `SessionState` per gateway | login and logout requests, the 45 s monitor, adoption of late approvals | Docker (restart the IBEAM container), the gateway (auth_status, logout, pulls), the header's buttons |
| data pollers (`app/poller/jobs/{positions,account,trades,market}.py`) | append-only snapshots, `executions` | interval jobs over logged-in gateways | gateway, database |
| Flex import (`app/poller/jobs/flex_import.py`) and CSV upload (`app/api/routes/portfolio.py`) | `executions` | hourly job, login, HTTP upload | IBKR Flex service, database |
| duplicate rules (`app/analytics/dedup.py`, `app/db/repo.py`) | none | filter poll rows on insert, delete twins before a rebuild | `executions`, `roll_chain_legs` |
| roll-chain rebuild (`app/poller/jobs/rolls.py`) | `roll_chains`, `roll_chain_legs`, `chain_adjustments` | interval job, and every link/close request | `executions`, the chain builder |
| chain builder (`app/analytics/rolls.py`) | none | executions + adjustments to chains + legs | |
| scheduler (`app/poller/scheduler.py`) | APScheduler jobs | burst cadence, settle, re-arm at login | all jobs |
| price jobs (`app/poller/jobs/market.py`) | `market_snapshots`, appended | the IBKR poll, the Yahoo refresh | gateway, Yahoo, the watchlists, the positions |
| registry, WebSocket fan-out (`app/core/gateways.py`, `app/core/state.py`, `app/api/routes/ws.py`) | runtimes, open sockets | walks over gateways, broadcasts, snapshots | `useSession.ts` in every tab |
| FX (`app/core/fx.py`) | cache, last-known rates, attempt times | resolve a pair: cache, IBKR, Yahoo, inverse, stale | every converted figure |
| statements, net worth (`app/api/routes/statements.py`, `app/services/networth.py`) | uploads, balances, holdings | upload, delete, headline total, monthly chart | PDF parsers, FX, account snapshots |
| income (`app/api/routes/income.py`, `app/analytics/income.py`) | monthly withdrawals | report of one account or all, edit | `roll_chains`, `executions`, snapshots, FX |
| household login (`app/core/security.py`, `app/api/routes/auth.py`) | failure counters, `auth_sessions` | login, logout, lockout | |
| settings, watchlist (`app/api/routes/settings.py`) | settings rows | read-modify-write | price jobs |
| analytics, other read API, advisor, frontend | none that other parts share | | |

Who interferes with whom:

* The monitor, the login request and the logout request write one
  `SessionState` from one asyncio loop. Each await is a point where the others run.
* The gateway and the phone change on their own; the backend sees them only
  through the calls it makes.
* The poll inserts rows from `poll_trades` and from the batch pull of a login; Flex
  rows come from the hourly job and from the login; CSV rows from a request. A
  rebuild, from the job or from a request, starts by deleting duplicates.
* Two rebuilds of one account may run at once: `max_instances=1` holds for the
  job only, and HTTP requests call `build_rolls()` directly.

* Position batches come from the login's pull and from the poll job, market rows from two
  jobs. Rows are stamped when a job starts and committed when it ends.
* A request that reports (net worth, income) reads table after table, and waits for
  exchange rates in between, while uploads, polls and rebuilds commit.
* A broadcast walks a copy of the socket set, one awaited send after the other, while
  sockets open and break.

What makes each part correct, in a line: the session state tells the truth about
who is working and who is logged in, and IBKR's one session is neither stolen from
the user nor thrown away; every tab comes to show that state; the executions table loses
no fill and counts none twice; the stored chains end up being what the builder makes of
the stored rows and edits, show the account's real shorts and cash, and add up to the
income that was banked; the current portfolio and the spot prices recover from failed and
reordered jobs; a cached rate is never labelled live and a known one never withheld;
deleting a statement removes what it alone reported; no total mixes currencies.

## 2. Modules

| module | what it is |
|---|---|
| `GatewaySession` | the session of one gateway with its callers, monitor, container and push |
| `Executions` | rows, content keys and the duplicate rules, as operators |
| `FillLedger` | abstract: the trading history only grows |
| `ExecutionStore` | every writer of the executions table, statement by statement |
| `ExecutionStore_proofs` | type correctness, and that `ExecutionStore` implements `FillLedger` |
| `ChainRebuild` | the rebuild transaction under overlapping rebuilds, feeds and edits; EXTENDS `Executions` |
| `IncomeReport` | `compute_income` as operators |
| `RollChains` | the automatic pass of the chain builder, run against the account whose rows it reads; EXTENDS `IncomeReport` |
| `Pollers` | batches of positions, their two writers, the burst cadence |
| `PriceFeed` | the two price jobs and the spot the readers take |
| `FxRates` | `get_rate` under concurrent requests |
| `StatementStore` | statements, their balances and deletion |
| `NetWorth` | the net-worth request and chart over a changing `StatementStore` |
| `Income` | the income request over changing trades, chains and snapshots; EXTENDS `IncomeReport` |
| `SessionFeed` | the session state's way to the browser tabs |
| `Sums_proofs` | what is true of finite sums and of the income report; EXTENDED by the next three |
| `RollChains_proofs` | that the chains agree with the account after every row, and what follows |
| `NetWorth_proofs`, `Income_proofs` | the theorems about requests that read tables while these change |
| `ChainRebuild_proofs` | that edits keep every execution in one chain |
| `Session_proofs` | the theorems about `GatewaySession` and `SessionFeed` |
| `MarketData_proofs` | the theorems about `FxRates`, `Pollers` and `PriceFeed` |
| `MC...` (one per specified module) | values and symmetry for TLC |

Operators whose comment begins with "Mutant:" are not part of any specification.
Each is a definition with one plausible bug, kept beside the definition it spoils;
with it in place of the original the named property fails, which shows that the
property depends on that line of the code (section 4).

Modules whose proofs share a module have names of their own for the parts that every
specification has: `FeedInit`, `FeedSpec`, `FeedTypeOK` in `SessionFeed`, `Poll...` in
`Pollers`, `Price...` in `PriceFeed`. They share no constant either, so that the assumptions
of one do not narrow the theorems about another.

### GatewaySession

A step is the code between two awaits. `pc[p]` says where coroutine `p` waits, in
the order of `orchestrate_login`: `clicked` (LOGGING_IN broadcast, the container
not restarted yet), `await` and `grace` (the two polling loops), `detect` and `pull`
(`_finalize_authenticated_session`, before and after PULLING is set), `abort` (the
clean-up logout). The monitor goes through `asked` (`auth_status` answered; the
answer is kept because the state may change before the monitor looks), and through
`release`/`released` or `detect`/`pull`. Logout is `release`, `released`.

The container is one of four states as `auth_status` tells them apart; `push` is the
2FA push on the phone, `new` if it belongs to the last click. `login_requested_at` is
reduced to none, recent (inside the 300 s adopt window) and old. `_restart_ibeam`
is a blocking Docker call inside a coroutine, so the restart and what it cuts off are
one step. History variables `fresh` and `loggedOut` are only read by properties.

What is left out: messages and timestamps; the failed calls that `client.py` retries
(a call cut by the container restart counts as failed for good: see the hazard at
`app/clients/ibkr/client.py:74`); what a batch pull stores.
`IntentAges` may fire at any time, which covers every setting of the timeouts.

`StaleViews` lets callers act although the header would disable the button: a second
tab, a stale WebSocket, a direct API call. `Faults` lets a login or an adoption raise
what is not an `IBKRError`.

### Executions, ExecutionStore, FillLedger

A *fill* is a trade at the broker, a *row* one feed's record of it. The content key
(contract, side, quantity, price) is the constant `KeyOf`: what matters is which
fills share one. A CSV row's id contains the row's line in the file (`CsvRow`), and CSV
rows have no contract id, so no key (`HasKey`). The poll reads keys, then
inserts; the clean-up reads duplicates, then deletes by id: two steps each, since
READ COMMITTED lets anything commit in between. Flex and CSV insert
without looking, so each is one step.

`FillLedger` knows only two sets, *known* and *confirmed* fills, and lets them grow.
`ExecutionStore` refines it with known = fills of stored rows and confirmed = fills of
authoritative rows (`Ledger == INSTANCE FillLedger WITH ...`).

### ChainRebuild

`_build_rolls_one` statement by statement: `dedupe` (read duplicates), `delete`
(their legs, then the rows, and commit), `load` executions, load adjustments
(`adjust`), `wipe` the legs, `wait` for a builder that is deleting the same legs,
`write`. The transaction's own writes become visible at its commit, `WriteChains`:
upsert the rebuilt chains, insert their legs, delete adjustments of chains not rebuilt,
then those chains. A leg whose row or chain is missing fails the foreign key and
with it the transaction (`WriteFails`), and two overlapping writers may deadlock.

The chain builder is reduced to what the tables tell apart: one chain per position
(ticker, right, strike), identified by the row that opened it as `_chain_id` hashes its
exec_id, and the manual edits applied in order (`ApplyAdjustment`, `Merge`: translated
in full, less credits and dates). Rolls, expiries, assignments and closing of
chains by trades are abstracted away: they change which chain a row
belongs to, not how chains are stored; they are `RollChains`. The rows' feed matters, since a
Flex row that supersedes a poll row changes the opener and so the chain's id.
`saved` is a history of all edits; an edit is saved by a request that then
rebuilds, and is taken as loaded oldest first (the query has no ORDER BY). `EditsOf` is the
DELETE of the edits whose chain is not there.

`RebuildSound` is checked and proved: whatever edits a rebuild read -- into chains that another
edit merged away, or that a Flex row renamed -- its chains hold every execution it read in
exactly one chain. It is about what one rebuild writes. The *stored* legs may for a while have an execution
in two chains: a builder that waited for another one to delete the same legs does not see
the legs that one inserted, so if only the other had loaded a link, both results are stored. The next
rebuild repairs it (`Converges`), and no text denies it.

### RollChains

`build_roll_chains` is a fold over the sorted rows of an account, so its state after the rows
of a day is what a rebuild on the next morning makes of the history. The module runs it beside
the account itself: on each day the user trades, the broker assigns and expires, and
then the builder reads the day's rows (`tape`), one action per branch of its loop. `Rank` is the
sort key: live rows carry their time, Flex rows only a date, so that ties are
resolved by kind and side and what is still tied comes in any order. After the day's rows
the chains are compared with `held`, `shares` and `cash`.

The external part of the module is the account and what the feeds report of it: an
assignment is an option row and a STK row marked `A` under Flex, an option row with side `A`
and no strike and a plain share trade under the live feed; an expiry is an OptionEAE row,
a $0 buy, both or neither (`src/backend/tests/test_rolls.py:141-187` and `332-357`). The account
only sells options, and has no shares it was not assigned.

`active[k]` is `active_chains`: the index of the chain that a key (right, strike) finds. The
code walks that dictionary in insertion order where several chains match (`ByRight`,
`ReadStock`, `RollCandidates`); the model takes any. Left out: leg roles, `initial_credit` and
`cycle_base_credit`, commissions, the time of day inside `closed_at`.

Two readers of the chains are checked against the account as well: the income page
(`ComputeIncome` of `IncomeReport`, with `opened_at` as the month) and the positions panel,
which looks for the open chain that has a position's contract in its legs (`conids`,
`OpenChainsOf`, `app/db/repo.py:460-489`).

`Histories` names the histories that the builder does not follow. The seller run has none of them,
so its result reads: *whatever else an account does, the chains show it*, and that is a theorem
(section 5). Each of them breaks a property as soon as it is put into the set (`ShortsMatch`, or
`CashMatches` for the last two):

| history | what goes wrong | code |
|---|---|---|
| `day_trade` | Flex rows are dated; buys sort first, so a short closed on its first day is an orphan buy and the sale stays as a phantom short; likewise an assignment or expiry tied with a roll | `app/analytics/rolls.py:210` |
| `overlap` | a chain has the expiry of its last sale: another expiry of the strike that is still short lapses with it, or does not lapse | `rolls.py:251` |
| `partial` | under Flex the option row takes the assigned lots off the short, then the STK row closes the rest of it | `rolls.py:553` |
| `block_trade` | a share order larger than what one chain holds overdraws that chain | `rolls.py:572` |
| `netting` | the live feed's share row of a call assignment closes the shares an earlier put assignment left in another chain, although the option row has booked the delivery already | `rolls.py:572` |

### Pollers

A batch is two sets: the contracts with a position, and those closed today that IBKR still
lists with zero. `PullFetches .. PullStores` is the positions part of a login's
`pull_all`; `PollStarts .. PollStores` is `poll_positions`, which walks the list of
`active_runtimes()` it took at the start, fetches one account and stores it after the awaits
for Greeks. The job's cadence, the one-shot settle timer and the timer's thread (`firing`:
`_settle_job` is a plain function, so APScheduler runs it in a pool thread after it has
removed the timer) are three variables. The timer may misfire (`SettleMisfires`): no
`misfire_grace_time` is set, and a date job that is due more than a second before the
scheduler gets to run -- a login restarts the container inside the loop, `session.py:543` and
`357` -- is removed unrun. The history variable `misfired` says that this happened to the timer of the
last re-arming. Misfires of the interval jobs are left out: they drop ticks of jobs that run again. External: the account at IBKR, and that a listing may
have a row without a contract id.

### PriceFeed

Both jobs take their timestamp first and commit last. Timestamps themselves grow without
bound, so the model keeps what their order decides: `elder` (the other job has started since)
and `outdone` (for which underlyings a younger job's rows, or priced rows, are in the table
already). `newest` and `spot` are what a reader of the newest row and
`latest_priced_market` get. What a source gives need not be the present price: both jobs take a
former close where there is no quote (`market.py:159`, `293-296`) and store it under a new
timestamp (`SeenPrices`). The history variable `fellBack` remembers for which underlyings that was
the last answer; only the premise of `SpotRecovers` reads it. A failed Yahoo batch falls back to copying rows, row by row.

### FxRates

The cache and the last-known map are written together and never removed, so one entry stands
for both; ages stop at the time to live. A call returns at once (cache, inverse, last known,
nothing) or starts a fetch and waits in `feed`: IBKR, the queue of Yahoo's semaphore, Yahoo.
A restart of the process forgets everything.

### StatementStore and NetWorth

Balances stand for transactions and holdings too, which the same statements write and
delete. The duplicate check and the insert of an upload are two steps, with the unique hash
deciding between two requests. The request reads the base currencies and those of
the balances (`RequestReads`), waits for the rates, of which any may be missing, then reads
the broker's snapshot and one external account after the other. A poll stores the base currency only
if the broker's answer has one. The chart is `Chart(m, rates)`: one currency and one day per account, and an
account whose currency has no rate left out (`networth.py:411-413`). `Disturbs` records in a
history flag that something was committed while the sums were being read. Days are numbered
two to a month, so that a balance on a month's last day and one before it are both possible;
`Decembers` are the months that end a year.

### Income

`_income_for` reads chains, then the snapshot and withdrawals, then the currencies that the
executions were traded in: three steps per account, with sales, buy-backs, rebuilds, polls, clean-ups and
edits between them. (Its two queries of the executions, whether there is a foreign currency and
which, are read as one.) The model's chains carry their true currency, which the stored ones do
not have; only the properties look at it.

The request sees what the feeds named: `named` are the currencies in an account's executions and
`based` the accounts whose base currency was stored. The accounts in `Silent` have feeds that may leave either
out: a row without a currency (`app/clients/ibkr/normalize.py:197`, `csv_import.py:148`) is skipped by both
queries, the clean-up may delete the row that had one (`LosesCurrency`), and an account summary without a
base stores none (`account.py:57`). `evident` in a summary is a history field: when the
currencies were read, the executions named every currency that had been traded in. An account without a stored base counts as
one in the display currency, as the code's `factor` has it. Changes after the last read are cut off, since they
do not reach the answer. In the instance an account trades in foreign
currencies only, or only in its own: for one that does both, see below.

### SessionFeed

The state is a version number. `pending[s]` is what the running broadcasts have still to send
to socket `s`, `wire[s]` what is on its way to the tab. A change and the start of its broadcast are one step,
but for a login that raises: it awaits the logout between the two (`session.py:571-581`), so `FailsUntold` and
`TellsLate` are two. (A socket that connects in between has the new state in its snapshot.) A socket enters `manager.active`
first and is sent its snapshot next (`Opens`, `SendsSnapshot`). A tab
reconnects after its pause; it asks once by REST when it loads, and that answer replaces what
it shows whichever is newer (`overtaken` remembers when it was not).

## 3. Runs

| run (cfg) | instance | checks |
|---|---|---|
| `session_safety` (`GatewaySession_safety`) | 2 callers with stale views, faults | `TypeOK`, `AuthenticatedIsConsistent`, `ApprovedLoginNotReleased`, `LogoutNotReadopted` |
| `session_live` (`GatewaySession_live`) | 1 caller, live view, no faults, fairness | `BusyMeansWorking`, `StrayReleased`, `LateApprovalAdopted` |
| `session_adoptfails` | 1 caller, faults | finding: `BusyMeansWorking` fails |
| `store_history` (`ExecutionStore_history`) | 3 fills (2 options, 1 stock), 1 poller, 2 rebuilders, Flex and CSV, fairness | `TypeOK`, `HistoryOnlyGrows` (refinement), `DuplicatesGone` |
| `rebuild_converges` (`ChainRebuild_converge`) | 2 fills, poll copy of one, the job and one request, 2 edits, fairness | `RebuildSound` (`TypeOK`, `EachRowInOneChain`), `Converges` |
| `rolls_seller` (`RollChains_seller`) | 4 contracts (3 puts on 2 strikes, 1 call), live feed or Flex, 3 days, 4 trades, up to 2 lots | `TypeOK`, `ShortsMatch`, `CashMatches`, `ChainsSettle`, `IncomeIsBanked`, `PositionsFindTheirChain` |
| `pollers_shown` (`Pollers_shown`) | 2 gateways of which the first in the walk may fail for ever, 2 contracts, 3 trades, 2 logins, a timer that may misfire, fairness | `PollTypeOK`, `BurstIsTimed`, `PositionsShown` |
| `prices_spot` (`PriceFeed_spot`) | 2 underlyings, one watched and one only held, 2 accounts, 1 price move each, former closes, fairness | `PriceTypeOK`, `SpotNeverLost`, `SpotRecovers` |
| `fx_cache` (`FxRates_cache`) | both directions of a pair, 2 requests, 1 Yahoo slot, time to live of 2 ticks, fairness | `TypeOK`, `FetchesSpaced`, `StaleIsFlagged`, `NeverSuppressed`, `RateRecovers` |
| `networth_totals` (`NetWorth_totals`) | 2 accounts with 2 statements each (overlapping; a goal that ends, a currency that changes), 2 uploaders, 3 months | `TypeOK`, `StatementsWhole`, `CombinedIsWhole`, `MonthsAreCarried`, `HeadlineOnChart` |
| `income_household` (`Income_household`) | 2 accounts, 3 currencies, up to 3 chains; the feeds of one account leave currencies out | `TypeOK`, `YieldInOneCurrency`, `HouseholdInOneCurrency` |
| `session_views` (`SessionFeed_views`) | 2 tabs, one of which loads and connects twice, 2 changes, of which either may be told late, fairness | `FeedTypeOK`, `QuietMeansCurrent`, `ViewConverges` |

Why the bounds are enough for the cases of interest. Session: two callers give
login/login, login/logout and stale-click overlaps, with the monitor a third
process; nothing in the code counts callers. Store: three fills let two periods of a statement
overlap and differ, one is stock (never deduplicated), and two rebuilders
interleave their reads and deletes. Rebuild: the job and one request are the two
overlapping builders; two fills let one chain be merged into another, a poll
opener be superseded, and an edit go stale, and with the second edit a link point into a chain that the
first one merged away. Three fills with one edit on shared positions (`Converges`, about 75 000 states)
and three fills with two edits (`RebuildSound`, 1.1 million) were run as larger instances with
the same result; they are not kept because they show nothing more.

Positions: a dead gateway ahead of the answering one is what the walk must survive; three
trades open, close and reopen a contract, two logins let a pull cross a walk. Prices: one move
makes a row stale; two jobs are all there are. Rates: two requests are the overlap, two
directions the inverse, and with two ticks an entry is fresh, ageing or old. Net worth: two
statements that start on the same day share a row; the other account's currency changes and a
goal of it disappears. Income: one account with two foreign currencies and one with none are the three
branches of `PremiumCurrency`; one account that may be silent beside one that is not makes a household of a
known and an unknown base. Tabs: the reconnecting tab has a broken and a live socket at
once, the other is in the same broadcasts.

Chains: two strikes make a cross-strike roll, two expiries of a strike an expiry that is sold
over within and after the continuation window (1 day for the code's 60); two lots a partial
buy-back; four trades a roll there and back, or sell, roll, assignment and sale of the
shares. The account stops after `MaxDay`, so this run does not check for deadlock; nor do
`pollers_shown` and `session_views`, whose trades, logins and sockets are used up. Money is in
units that keep the cash flows apart by kind: an option lot at 1, shares at their strike or at
`SharePrice`.

Every bound is in a guard: `MaxFill`, `MaxEdits`, `MaxDay`, `MaxLots`, `MaxTrades`, `MaxLogins`,
`MaxMoves`, `MaxChains`, `MaxWithdrawal`, `MaxChanges`, `MaxSockets`. No state constraints are used. Symmetry (of callers) is used only in runs without liveness.

### Fairness

* *Session.* A coroutine that can go on does (asyncio); the monitor is started again
  and again (APScheduler interval job). Strong fairness for the monitor hearing the true
  answer, for its logout call being served and for finding the account: a gateway that is
  up does not fail these calls for ever. Clicks and backend restarts stop eventually.
  Nothing is assumed of the phone, the user or the container.
* *Store.* The clean-up is tried again and again, and its delete is not cut or blocked each time.
  Nothing is assumed of polls and imports.
* *Rebuild.* The job starts again and again, a builder goes on, restarts stop eventually. Users
  and feeds owe nothing; they are quiet in the end because fills and edits are finite.

* *Positions.* The scheduler starts `poll_positions` again and a walk goes on, whatever its calls
  return; the settle timer's thread runs. Strong fairness only for the gateways in
  `Answering`: they do not fail each time they are visited. The others may fail for ever.
* *Prices.* The jobs run to their end and the public one is started again. `SpotRecovers` itself
  names its premise: refreshes with all prices recur, and for the underlying in question the
  sources stop falling back on a former close. While they do go on falling back, the spot may go back
  and forth between the present price and the former one; nothing in the code tells the two apart.
* *Rates.* Time passes, waiting calls end (the client's timeouts), and a feed that is asked again
  and again answers some time.
* *Tabs.* One weak condition for everything that goes on without a change of state or network:
  coroutines, deliveries, the reconnect timer, and the end of an awaited logout (the client has
  timeouts). Nothing is assumed of breaking connections.
* `networth_totals` and `income_household` check safety only: a request always ends.

### Findings

One disagreement between the code and what its authors say is a run of its own:

**A failed adoption leaves the gateway busy** (`session_adoptfails`,
`app/poller/jobs/session.py:243`). `_finalize_authenticated_session` raising
under the monitor after PULLING was set is only logged. The monitor then skips
("login in progress") for good and both buttons stay disabled until a restart.

The models reach others. Their properties stand in the modules with the comment that the code
does not keep them; with the constants below in place of those of the cfg, TLC shows how.

| property | module, constants to change | what the code does | what is said |
|---|---|---|---|
| `AdoptsAfterReturn` | `GatewaySession_live`, `Spec` | `session.py:299`: the restart fails the monitor's call, the except branch overwrites LOGGING_IN, the next tick adopts while the request still polls; both finalize | adoption happens after the request returned (`session.py:430-431`) |
| `LogoutHolds` | `GatewaySession_safety` without faults | `session.py:486`: a pull in flight at the logout declares the session live afterwards | `src/docs/architecture.md:92-94`, `session.py:600` |
| `HistoryOnlyGrows` | `ExecutionStore_history`, `KeyOf <- TwinKeys`, `MaxFill = 2`, `Feeds = {"flex"}`, one rebuilder | `app/analytics/dedup.py:80`: the content key has no time, so the second of two equal trades is dropped until Flex has it | `dedup.py:46-47`, `82` |
| `LinksHonoured` | `ChainRebuild_converge`, `Spec`, `MaxFill = 3`, `Options = {}`, `PollFills = {}`, `MaxEdits = 2` | `app/poller/jobs/rolls.py:138-140`: a link whose chain another link merged away is deleted | `src/docs/roll-chain-redesign.md:125` |
| `CloseSticks` | `ChainRebuild_converge`, `PositionOf <- SharedPosition` | an overlapping rebuild that read the edits earlier undoes the edit for a while; `Converges` shows the repair | "takes effect now" (`app/api/routes/portfolio.py:171-172`) |
| `DuplicateIsNoOp` | `RollChains_seller`, `Contracts <- Puts`, `Feeds = {"both"}`, `MaxLots = 1`, `MaxTrades = 2` | `app/analytics/rolls.py:430`: the live copy of an assignment finds its chain flat and takes any open short of the right | `src/backend/tests/test_rolls.py:334-335`, `rolls.py:479-483` |
| `LatestBatchIsCurrent` | `Pollers_shown`, `Registry <- OneUser`, `Answering <- First`, one contract | `app/poller/jobs/positions.py:95`, `session.py:145`: an empty listing stores no batch, so the last position stays on the screen | "the latest batch is the current portfolio" |
| `MonthEndsCount` | `NetWorth_totals` | `app/services/networth.py:329-333`: a bound that is exclusive elsewhere is December 31 for a December; a balance of that day counts from January | "latest balance per category on/before this month end" |
| `BurstsSettle` | `Pollers_shown` | `app/poller/scheduler.py:67-75`, `109-117`: the settle timer has the default misfire grace of a second; dropped while the loop is blocked (`session.py:543`, `357`), it leaves the job in burst until the next login | "once the window elapses" (`scheduler.py:40`) |
| `OldIsFlagged` | `FxRates_cache` | `app/core/fx.py:133-138`: while a pair is throttled or its feeds fail, the inverse is served under the label it was stored with, however old | "a stale rate (flagged as such)" (`fx.py:7-8`) |
| `YieldAlways` | `Income_household` | `app/db/repo.py:82`, `96`: rows without a currency are skipped, and foreign premium is taken for base premium; likewise without a stored base (`app/poller/jobs/account.py:57`). `repo.py:76-77` and `91` intend it: "unknown isn't evidence" | "rather than silently dividing two different currencies" (`app/analytics/income.py:47-48`) |

`RollChains` names the histories the builder does not follow in the set `Histories`; no text of
the repository denies them, and they are described in section 2. Reading alone showed: a CSV
row's id contains its line in the file (`app/clients/ibkr/csv_import.py:58`), so statements with
overlapping periods store a fill twice; the premium of an account that trades options in its own
and in one foreign currency is all taken for foreign (`app/api/routes/income.py:51-54`, where the
comment above says it is excluded), which is why the `Markets` of the instance exclude it; identical CPF
transactions of a day share a row hash, so that one of them is dropped
(`app/clients/statements/cpf_pdf.py:93`); an account's whole history is converted with its first
statement's currency (`networth.py:401-411`), which is part of the premise of `HeadlineOnChart`, and is left out
of the chart without a word when that currency has no rate (`networth.py:411-413`), where the headline shows
the account and blanks the total.

## 4. Mutants

Each property of a passing run is paired with a bug in a mapped definition that
breaks it, for example: the poll not filtered against authoritative keys
(`PollKeepsAll`) breaks `DuplicatesGone`; an authoritative row counted as its own
duplicate (`HasTwin`) breaks `HistoryOnlyGrows`; an adjustment that keeps a
stale chain alive (`WriteChainsKeepingEdits`, the incident of `src/docs/TODO.md:39`)
breaks `Converges`; a timed-out login that no longer counts as recent
(`IntentWhileLoggingIn`) breaks `ApprovedLoginNotReleased`; a re-armed burst without a timer
(`RearmBurstUntimed`) breaks `BurstIsTimed`; a failed attempt that blocks its pair
(`TickKeepsTried`) breaks `RateRecovers`; a snapshot of the state before the socket was entered
(`SendsEarlierSnapshot`) breaks `QuietMeansCurrent`; a logout that raises before the broadcast (`NeverTells`)
breaks `ViewConverges`. `PROJECT.json` lists all.

## 5. Proofs

All for arbitrary constants: any set of callers, any number of fills, pollers,
rebuilders, pairs, statements, underlyings, tabs and sockets. `tlapm` checks every leaf.

Sums are `SumFunctionOnSet` of the community modules. The proofs get its recursion from the
well-foundedness of strict inclusion, and every induction after that is a least
counterexample: a smallest subset, or number, for which the claim fails (`LeastSubset`, `LeastNat`).
The induction theorems of the library take an operator and cannot be used. For the same reason the
models select from sequences with recursive functions (`ActiveRuntimes`, `InOrder`, `EditsOf`) where
`SelectSeq` would do: that such a function exists is proved first (`AppliesExists`, ...).
What three modules need of sums is in `Sums_proofs`: adding and removing an element, unions, images,
scaling, and grouping (`SumGrouped`: a sum over chains is the sum of the sums over months, which
makes `compute_income`'s total the total of its months, `AllTime`).

**GatewaySession** (`Session_proofs`; assumes only that the monitor is not a client and the flags are Boolean)

* `TypeCorrect`: `TypeOK` is inductive. It is split into Boolean flags and the rest, because
  the two backends handle one each.
* `Consistency`: `AuthenticatedIsConsistent`. Inductive as it stands: `PullFinished` writes
  the whole record in one step with no await, and whatever changes a part of it later also
  changes `status` -- each action is checked for exactly that.
* `ReleaseSpares`: `ApprovedLoginNotReleased`, by the stronger `ReleaseInv`: while the
  monitor's logout is in flight the click is no longer recent or the gateway's session is
  not a fresh one. It survives a new click because a click resets `fresh`, and the container
  restart because that cuts the logout off.
* `LogoutSticks`: `LogoutNotReadopted`, by `LogoutInv`: after a quiet logout nobody is in a
  login step and no click is pending, so the monitor has nothing to adopt.
* `BusyWorks`: without `Faults`, `BusyMeansWorking`. The assumption is needed: the finding
  of section 3.

**ExecutionStore** (assumes the named assumptions on its constants)

* `TypeCorrect`.
* `LedgerGrows`: if content keys tell option fills apart, `Spec` implements
  `FillLedger`. The inductive invariant is `DoomedHaveTwins`: for each row
  on a rebuilder's list to be deleted there is an authoritative row of the same fill in the
  table. It holds when the list is read, and nothing ever deletes an authoritative row, so it
  still holds at the delete. The premise is needed: `HistoryOnlyGrows` in the
  second table of section 3.

**FxRates** (`MarketData_proofs`; assumes that the time to live and the slots are positive, that `Opposite` swaps a pair's
directions, and that `None` is no pair)

* `RateTypeCorrect`.
* `Spacing`: `FetchesSpaced`, by `Stamped`: a pair that somebody is fetching was stamped no
  longer ago than the fetch is old. That is what the stamp before the first await gives.
* `Flagged`: `StaleIsFlagged`, and `Unsuppressed`: `NeverSuppressed`, from the answers' cases.

**SessionFeed** (`Session_proofs`; assumes the types of its bounds)

* `FeedTypeCorrect`, with the fact that an open socket is in the broadcast set.
* `Quiet`: `QuietMeansCurrent`, by `FeedInv`. Its heart is `LastIsCurrent`: the last of what is
  still to be sent to an open socket is the state, and once nothing is to be sent, the last on
  its wire is, unless a login that raised has still to tell (`unsent`). `UnusedIsEmpty` starts a new socket with nothing pending; `SeedsAreOld` bounds
  the one REST answer, so that an answer that replaces the state's view is older or the same.

**RollChains** (assumes the types of contracts and bounds)

* `TypeCorrect`: on every history. The arithmetic that could leave the integers is
  `_short_reduced`'s division, whose divisor is a short that is there.
* `BooksHold`: under `Followed`, which says that an account has one feed and none of the
  `Histories` of section 2, `Inv` is an invariant. All that follows is for any contracts, lots,
  days and trades of such an account:
  `ShortsAreShown`, `CashIsInChains`, `ChainsAreSettled`, `IncomeBanked`, `PositionsAreFound`.

None of these properties is inductive: they speak of the moment when all rows are read, and
what makes them true is what holds after each row. `Inv` has three parts besides the types.
`Orderly` is about the chains alone: a chain's credit is a unit a lot, it is filed under the key of
its last sale, a key's chain is that key's only one, a chain no key finds is closed. `RowsOK`,
`DueOK`, `CashOK`, `SharesOK` relate chains, account and tape: cash is what the chains hold and
the rows still to be read will bring (`Total`), likewise shares; an open chain that holds nothing
is about to get shares. The last part differs by feed, as the code's two paths through a day do.
`PollOK`: live rows come in the order they happened, so after every prefix of the tape no short
is negative and no two expiries of a strike are short. `FlexOK`: rows are sorted by kind, so no buy
is larger than the short of the day before, an assigned contract has the whole of its
short to lose and its shares to come, and no expiry is tied with a trade. The proof then has two
halves. `PollReady` and `FlexReady` show from `Inv` that the next row finds the short or the shares
it is about, and one lemma per branch of the builder (`SellRollsEffect`, `ExpiryEffect`,
`AssignmentEffect`, ...) shows that a row that does has its `Effect`: the short of its contract and
the totals change by what the row says and by nothing else. Each `Histories` entry is an
assumption this argument uses: leave it out, and a row comes that is not `Ready`.

**NetWorth** (assumes the types of the files, that rates are numbers and that accounts are read once
each)

* `TypeCorrect` (tables, totals and the request; the chart is an operator over the tables),
  `TablesCorrect` (types, foreign keys, no balance stored twice).
* `Whole`: `StatementsWhole` is inductive given the tables' types (`StoreTypeCorrect`):
  only an upload and a deletion touch the tables, and a row that the
  deletion takes from another statement is counted as orphaned.
* `CombinedWhole`: `CombinedIsWhole`, by `SumSoFar`: while the tables stand still the sum is the
  broker's part and the rows of the accounts read, and no account is read twice. Its premise is that the
  broker's base currency had been stored when the request began.
* `Carried`: `MonthsAreCarried`, for every month but a December, and `HeadlineCharted`: `HeadlineOnChart`, for
  every set of rates that were found. The latter is about accounts whose latest statement is complete, in the
  account's base currency and of a day before the month's bound, which a balance of December 31 is not in its own
  month. Both hold of any tables in order; that a category has one latest row is what `StoredOnce` in `TablesInv` is for.

**Income** (assumes that every currency has a worth, base and display currencies are currencies,
months are finite, net liquidations are positive)

* `TypeCorrect`: `TypeOK`, which says of each summary what its fields are.
* `YieldIsInOneCurrency` and `HouseholdIsInOneCurrency`: `YieldInOneCurrency` and
  `HouseholdInOneCurrency`, under `OneKindOfMarket` (no account trades options in its base
  currency *and* in a foreign one). The premise is the limitation that `app/api/routes/income.py:51-54`
  has; without it the statements are false, as section 3 says. So they are without their own premises: that the
  account's base is stored and its executions name the currencies it traded in (`YieldAlways`).

The request reads three tables in three statements, and all of them change in between, so the
invariant `IncomeInv` says what a summary knows rather than what the tables hold now. `BooksAgree`: the
stored chains are in currencies the account has traded, and only such are named. `ReadSoFar`: the chains
the request has in hand are in traded currencies, and remain so, since executions are never forgotten -- which is
why it is right that the currencies are read last. `Truthful`: an `evident` summary with a stored base and a
premium currency has all its chains in it, one without knows that it is ambiguous, and a yield has its net
liquidation in the base currency; one without a base has no premium currency either. `YieldIsRight` and `HouseholdIsRight` derive the two properties from that
by arithmetic: a sum of premiums, each weighted by its currency's worth, is the worth times the sum once all
are in one currency (`OneCurrency`, `SumScaled`), whichever rates `Convertible` found.

**ChainRebuild** (assumes the types of fills, positions and bounds)

* `RowsAreInOneChain`: `RebuildSound`. `Sound` (each row in one chain, every leg between a chain and a row
  at hand, no chain without a leg, closed ones among them) holds of the automatic pass since every position
  has an opener (`OpenerExists`), is kept by `Merge` (`MergeSound`) and so by any edit at all
  (`ApplySound`), hence by any number of them (`BuiltSound`).
* `TypeCorrect`: `TypeOK` is inductive given that; `EditsOfType` is for the edits that are kept.
* `OnlyOverlapsBlock`: no edit freezes the rebuild, however stale; a foreign key fails only
  if another rebuild added legs, or a clean-up deleted rows, after this one had read them.
* `SettledHoldsRowsOnce`: stored chains that are up to date, which is what `Converges` says they come to be, deal
  out the stored executions: each in one chain.

**PriceFeed**, **Pollers** (`MarketData_proofs`; assume the catalogue, the registry and the bounds are typed)

* `PriceTypeCorrect`, `PollTypeCorrect`; the latter with the fact that what was read was read
  for the first account of the walk.
* `SpotKept`: `SpotNeverLost`, since only a commit sets a spot, and only to a price.
* `Settles`: `BurstIsTimed`, inductive as it stands: of the steps that touch cadence or timer, each
  restores it. What it says is what re-arming gives: whatever became of earlier timers, a burst without a settle
  to come has lost the timer of the last login.

Only model-checked: everything temporal beyond invariants, action properties and the refinement
(`StrayReleased`, `LateApprovalAdopted`, `DuplicatesGone`, `Converges`, `PositionsShown`,
`SpotRecovers`, `RateRecovers`, `ViewConverges`), since liveness under fairness is outside what the
prover does. Every other property of a passing run is a theorem. Not proved for every history either:
what the chains show of an account with one of the `Histories`, which is false, and what the income
page says of an account outside `OneKindOfMarket` or of one whose feeds leave its currencies out.

## 6. Not modelled

* Household login (`app/core/security.py`, `app/api/routes/auth.py`): a failure counter by client
  address that is changed between two awaits, and session rows with an expiry. Sequential; unit
  tests reach it. `Opens` in `SessionFeed` stands for its check of a socket.
* Settings, watchlist, plan, layout: rows that a request reads, changes and writes back whole.
  Two requests can lose one another's change; last writer wins and nothing says otherwise.
* Analytics (decay, risk, signal, Greeks, indicators): stateless floating-point calculation.
* Parsers of PDF, XML and CSV text: what other parts see of them (ids, keys, contract ids,
  overlaps) is in `Executions`, `Pollers` and `StatementStore`.
* The advisor's outgoing call, the rest of the read API, rendering, migrations, deployment: no
  shared state, or none whose interleavings matter.

Of the parts that are modelled partly: daily bars, VIX and the signal's rows (recomputed on each
poll); misfires and coalescing of interval jobs (they drop ticks of jobs that run again); the `data` event that makes the frontend
refetch; commissions, bought options and the target fields of chains. `PROJECT.json` lists every part
with its status, and the hazards with the properties that cover them or the reason why none does.

## 7. Plan

Done: all modules of section 2, with the proofs of section 5. What could follow:

1. The target fields `initial_credit` and `cycle_base_credit`, and `ChainRebuild` with the chains
   of `RollChains` in place of one per position.
2. Settings as read-modify-write, should a promise about them be written down.
3. Liveness by proof, if the prover comes to do ENABLED: `Converges` first, for which
   `OnlyOverlapsBlock` and `SettledHoldsRowsOnce` are the safety half.

## 8. Running

    tlc -config GatewaySession_safety.cfg MCGatewaySession.tla
    tlapm Session_proofs.tla

Other runs likewise, with the module and cfg named in `PROJECT.json`.
