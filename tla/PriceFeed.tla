------------------------------ MODULE PriceFeed ------------------------------
(***************************************************************************)
(* Where the spot of an underlying comes from.  Two jobs append market     *)
(* rows for every tracked underlying: poll_market, through any logged-in   *)
(* gateway, and refresh_public_prices, through Yahoo, with or without a    *)
(* login.  Both take their timestamp when they start and commit when they  *)
(* are through, so rows are not committed in the order of their timestamps.*)
(*                                                                         *)
(* Timestamps are not kept: "elder" says which of two running jobs started *)
(* first, "outdone" for which underlyings a younger job's rows are already *)
(* in the table.  A price is the number of moves it has seen, so the       *)
(* closes of former days are numbers up to the present one.                *)
(***************************************************************************)
EXTENDS Naturals, Sequences, SequencesExt

CONSTANTS
  Catalogue,    \* the underlyings that can be tracked, in the order they are visited
  Watched,      \* those on some account's watchlist
  Accounts,
  Holds,        \* the underlyings of the options in an account's latest batch
  NoPrice,      \* a null price
  MaxMoves      \* bound: price moves of one underlying

Underlyings == Range(Catalogue)
Prices == 0..MaxMoves

ASSUME PricesAreSet == MaxMoves \in Nat /\ NoPrice \notin Prices
ASSUME TrackedKnown ==
  /\ Catalogue \in Seq(Underlyings)
  /\ Watched \subseteq Underlyings
  /\ Holds \in [Accounts -> SUBSET Underlyings]

VARIABLES
  quote,    \* the market's price
  polled,   \* the account whose positions were stored last
  phase,    \* a job: "idle", "quoting", "copying" (after a batch failure)
  asked,    \* the underlyings the running refresh was started for
  todo,     \* the underlyings a job has still to visit
  rows,     \* the prices of the rows a job has prepared
  elder,    \* the other job has started since
  outdone,  \* the underlyings with a younger row, and with a younger priced row
  newest,   \* the price in the newest row, NoPrice when null or no row
  exists,   \* the underlyings with any row
  spot,     \* the price in the newest row that has one
  fellBack  \* history: the underlyings for which a source last gave a former close

Jobs == {"ibkr", "public"}
Other(j) == IF j = "ibkr" THEN "public" ELSE "ibkr"

world == <<quote, polled, fellBack>>
tables == <<newest, exists, spot>>
jobs == <<phase, asked, todo, rows, elder, outdone>>
priceVars == <<quote, polled, phase, asked, todo, rows, elder, outdone,
               newest, exists, spot, fellBack>>

PriceTypeOK ==
  /\ quote \in [Underlyings -> Prices]
  /\ polled \in Accounts
  /\ phase \in [Jobs -> {"idle", "quoting", "copying"}]
  /\ asked \subseteq Underlyings
  /\ todo \in [Jobs -> Seq(Underlyings)]
  /\ rows \in [Jobs -> [Underlyings -> SUBSET (Prices \cup {NoPrice})]]
  /\ elder \in [Jobs -> BOOLEAN]
  /\ outdone \in [Jobs -> [any : SUBSET Underlyings, priced : SUBSET Underlyings]]
  /\ newest \in [Underlyings -> Prices \cup {NoPrice}]
  /\ exists \subseteq Underlyings
  /\ spot \in [Underlyings -> Prices \cup {NoPrice}]
  /\ fellBack \subseteq Underlyings

NoRows == [u \in Underlyings |-> {}]
Unpriced == [u \in Underlyings |-> NoPrice]
NotOutdone == [any |-> {}, priced |-> {}]

PriceInit ==
  /\ quote = [u \in Underlyings |-> 0]
  /\ polled \in Accounts
  /\ phase = [j \in Jobs |-> "idle"]
  /\ asked = {}
  /\ todo = [j \in Jobs |-> <<>>]
  /\ rows = [j \in Jobs |-> NoRows]
  /\ elder = [j \in Jobs |-> FALSE]
  /\ outdone = [j \in Jobs |-> NotOutdone]
  /\ newest = Unpriced
  /\ exists = {}
  /\ spot = Unpriced
  /\ fellBack = {}

-----------------------------------------------------------------------------
(* The world around the two jobs.                                            *)

Moves(u) ==
  /\ quote[u] < MaxMoves
  /\ quote' = [quote EXCEPT ![u] = @ + 1]
  /\ UNCHANGED <<polled, fellBack, jobs, tables>>

\* An account's positions are stored again.
BatchStored(a) ==
  /\ polled' = a
  /\ UNCHANGED <<quote, fellBack, jobs, tables>>

\* Mutant: the latest batch is resolved over all accounts.
NewestBatchUnderlyings == Holds[polled]

\* Per account, the underlyings of the options in its latest batch.
PositionUnderlyings == UNION {Holds[a] : a \in Accounts}

Tracked == Watched \cup PositionUnderlyings

InOrder(us) ==
  LET upTo[n \in 0..Len(Catalogue)] ==
        IF n = 0 THEN <<>>
        ELSE IF Catalogue[n] \in us THEN Append(upTo[n - 1], Catalogue[n]) ELSE upTo[n - 1]
  IN  upTo[Len(Catalogue)]

-----------------------------------------------------------------------------
(* The jobs.                                                                 *)

\* What a source may give for the price of u: the present one, or the close of
\* a former day where it has no quote.
SeenPrices(u) == 0..quote[u]

Starts(j) ==
  /\ phase[j] = "idle" /\ Tracked # {}
  /\ phase' = [phase EXCEPT ![j] = "quoting"]
  /\ todo' = [todo EXCEPT ![j] = InOrder(Tracked)]
  /\ asked' = IF j = "public" THEN Tracked ELSE asked
  /\ elder' = [elder EXCEPT ![j] = FALSE, ![Other(j)] = phase[Other(j)] # "idle"]
  /\ UNCHANGED <<rows, outdone, world, tables>>

\* any_authenticated_client: at any moment some gateway is logged in, or none.
PollMarketStarts == Starts("ibkr")

RefreshStarts == Starts("public")

\* A job visits the next underlying and prepares rows for it.
Visits(j, u) == todo[j] # <<>> /\ u = Head(todo[j])

Prepares(j, u, prices) ==
  /\ rows' = [rows EXCEPT ![j][u] = @ \cup prices]
  /\ todo' = [todo EXCEPT ![j] = Tail(@)]
  /\ UNCHANGED <<phase, asked, elder, outdone, quote, polled, tables>>

\* A source has answered for u.
Quoted(j, u, price) ==
  /\ Prepares(j, u, {price})
  /\ fellBack' = IF price \in {quote[u], NoPrice} THEN fellBack \ {u} ELSE fellBack \cup {u}

\* Mutant: the close before the last one stands in for the price, though there
\* may be none.
PollMarketQuotesEarlier(u) ==
  /\ phase["ibkr"] = "quoting" /\ Visits("ibkr", u)
  /\ \E price \in {quote[u], quote[u] - 1, NoPrice} : Quoted("ibkr", u, price)

\* poll_market: the snapshot's price, or else the last daily close; without
\* either the row is written all the same, with a null price.
PollMarketQuotes(u) ==
  /\ phase["ibkr"] = "quoting" /\ Visits("ibkr", u)
  /\ \E price \in SeenPrices(u) \cup {NoPrice} : Quoted("ibkr", u, price)

\* The connection to the gateway breaks: the job ends and stores nothing.
PollMarketFails ==
  /\ phase["ibkr"] = "quoting" /\ todo["ibkr"] # <<>>
  /\ phase' = [phase EXCEPT !["ibkr"] = "idle"]
  /\ todo' = [todo EXCEPT !["ibkr"] = <<>>]
  /\ rows' = [rows EXCEPT !["ibkr"] = NoRows]
  /\ elder' = [elder EXCEPT !["ibkr"] = FALSE]
  /\ outdone' = [outdone EXCEPT !["ibkr"] = NotOutdone]
  /\ UNCHANGED <<asked, world, tables>>

\* refresh_public_prices: Yahoo has a price, the last one or the previous close.
RefreshQuotes(u) ==
  /\ phase["public"] = "quoting" /\ Visits("public", u)
  /\ \E price \in SeenPrices(u) : Quoted("public", u, price)

\* Yahoo has no price: the newest row's price is written again, if it has one.
RefreshCopies(u) ==
  /\ phase["public"] = "quoting" /\ Visits("public", u)
  /\ Prepares("public", u, {newest[u]} \ {NoPrice})
  /\ UNCHANGED fellBack

\* An exception ends the loop: every tracked underlying is visited again, and
\* the rows already prepared stay.
RefreshBatchFails ==
  /\ phase["public"] = "quoting" /\ todo["public"] # <<>>
  /\ phase' = [phase EXCEPT !["public"] = "copying"]
  /\ todo' = [todo EXCEPT !["public"] = InOrder(asked)]
  /\ UNCHANGED <<asked, rows, elder, outdone, world, tables>>

\* Its newest row, null or not, is written again under this job's timestamp.
RefreshCopiesRow(u) ==
  /\ phase["public"] = "copying" /\ Visits("public", u)
  /\ Prepares("public", u, IF u \in exists THEN {newest[u]} ELSE {})
  /\ UNCHANGED fellBack

Wrote(j) == {u \in Underlyings : rows[j][u] # {}}
WrotePriced(j) == {u \in Underlyings : rows[j][u] \ {NoPrice} # {}}

\* Mutant: the spot is read from the newest row, priced or not.
SpotsOfNewest(j, s) ==
  \A u \in Underlyings :
    IF u \in Wrote(j) \ outdone[j].any THEN s[u] \in rows[j][u] ELSE s[u] = spot[u]

\* latest_priced_market: the newest row with a price.  Of two rows with one
\* timestamp it may pick either.
SpotsOfPriced(j, s) ==
  \A u \in Underlyings :
    IF u \in WrotePriced(j) \ outdone[j].priced
    THEN s[u] \in rows[j][u] \ {NoPrice} ELSE s[u] = spot[u]

CommitsRows(j) ==
  /\ phase[j] # "idle" /\ todo[j] = <<>>
  /\ newest' \in {n \in [Underlyings -> Prices \cup {NoPrice}] :
       \A u \in Underlyings :
         IF u \in Wrote(j) \ outdone[j].any THEN n[u] \in rows[j][u] ELSE n[u] = newest[u]}
  /\ spot' \in {s \in [Underlyings -> Prices \cup {NoPrice}] : SpotsOfPriced(j, s)}
  /\ exists' = exists \cup Wrote(j)
  /\ outdone' = [outdone EXCEPT ![j] = NotOutdone,
                   ![Other(j)] = IF elder[Other(j)]
                                 THEN [any |-> @.any \cup Wrote(j), priced |-> @.priced \cup WrotePriced(j)]
                                 ELSE @]
  /\ phase' = [phase EXCEPT ![j] = "idle"]
  /\ rows' = [rows EXCEPT ![j] = NoRows]
  /\ elder' = [elder EXCEPT ![j] = FALSE]
  /\ asked' = IF j = "public" THEN {} ELSE asked
  /\ UNCHANGED <<todo, world>>

PriceNext ==
  \/ \E u \in Underlyings : Moves(u)
  \/ \E a \in Accounts : BatchStored(a)
  \/ PollMarketStarts \/ PollMarketFails \/ RefreshStarts \/ RefreshBatchFails
  \/ \E u \in Underlyings :
       PollMarketQuotes(u) \/ RefreshQuotes(u) \/ RefreshCopies(u) \/ RefreshCopiesRow(u)
  \/ \E j \in Jobs : CommitsRows(j)

PriceSpec == PriceInit /\ [][PriceNext]_priceVars

\* The scheduler runs both jobs to their end and starts them again.
PriceFairness ==
  /\ WF_priceVars(RefreshStarts)
  /\ \A u \in Underlyings :
       /\ WF_priceVars(PollMarketQuotes(u) \/ PollMarketFails)
       /\ WF_priceVars(RefreshQuotes(u) \/ RefreshCopies(u)) /\ WF_priceVars(RefreshCopiesRow(u))
  /\ \A j \in Jobs : WF_priceVars(CommitsRows(j))

PriceFairSpec == PriceSpec /\ PriceFairness

-----------------------------------------------------------------------------
\* An underlying that has a spot keeps one: a poll without a market-data
\* subscription, a failed refresh and rows committed out of order may make the
\* spot older, but never blank it.
SpotNeverLost ==
  [][\A u \in Underlyings : spot[u] # NoPrice => spot'[u] # NoPrice]_priceVars

\* A refresh in which Yahoo had the current price of all that was asked for.
CleanRefresh ==
  /\ phase["public"] = "quoting"
  /\ \A u \in asked : rows["public"][u] = {quote[u]}
  /\ CommitsRows("public")

\* As long as clean refreshes recur, and once the sources no longer fall back on
\* former closes (which both jobs write like quotes, under a new timestamp), the
\* spot of every underlying that is on a watchlist or under an option somebody
\* holds comes to be the market's price and stays it, although copies of older
\* rows and slow polls keep being stored over fresher ones.
SpotRecovers ==
  \A u \in Underlyings :
    /\ []<><<CleanRefresh>>_priceVars
    /\ <>[](u \notin fellBack)
    /\ \/ u \in Watched
       \/ \E a \in Accounts : u \in Holds[a]
    => <>[](spot[u] = quote[u])
=============================================================================
