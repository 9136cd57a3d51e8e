------------------------------ MODULE NetWorth ------------------------------
(***************************************************************************)
(* The household's net worth: the latest balances of its CPF and Endowus   *)
(* accounts and the latest net liquidation of its broker account, in one   *)
(* currency, and the chart of its monthly history.                         *)
(*                                                                         *)
(* GET /networth reads the accounts and the currencies of the latest       *)
(* balances, waits for the exchange rates, and then reads one source after *)
(* the other, each as it is by then.                                       *)
(*                                                                         *)
(* Days are numbered so that month m has the days 2m-1 and, its last, 2m.  *)
(***************************************************************************)
EXTENDS StatementStore, SequencesExt

CONSTANTS
  ReadOrder,    \* the external accounts in the order net_worth reads them
  Months,       \* the months of the chart
  Decembers,    \* those that end a year
  RateOf,       \* what a unit of each currency is worth in the target's
  Target,       \* the display currency
  Dollar,
  BrokerBase,   \* the broker account's base currency
  NetLiqs       \* the net liquidations the broker may report

ASSUME RatesAreTyped ==
  /\ ReadOrder \in Seq(Externals) /\ Range(ReadOrder) = Externals /\ IsInjective(ReadOrder)
  /\ RateOf \in [Currencies -> Nat] /\ {Target, Dollar} \subseteq Currencies /\ RateOf[Target] = 1
  /\ BrokerBase \in Currencies /\ NetLiqs \subseteq Nat /\ None \notin Nat
  /\ Months \subseteq Nat /\ Decembers \subseteq Months

VARIABLES
  brokerBase,  \* the base_currency stored for the broker account
  netLiq,      \* its latest snapshot's net liquidation
  request      \* the request: its rates, the base currency it read, the accounts left
               \* to read, their sum so far, and (history) whether it is still true

vars == <<storeVars, brokerBase, netLiq, request>>

NoRequest == [rates |-> {}, base |-> None, left |-> <<>>, sum |-> None, still |-> TRUE, phase |-> "none"]

TypeOK ==
  /\ StoreTypeOK
  /\ brokerBase \in Currencies \cup {None}
  /\ netLiq \in NetLiqs \cup {None}
  /\ request \in [rates : SUBSET Currencies, base : Currencies \cup {None}, left : Seq(Externals),
                  sum : Nat \cup {None}, still : BOOLEAN, phase : {"none", "rates", "sums"}]

Init ==
  /\ StoreInit
  /\ brokerBase = None
  /\ netLiq = None
  /\ request = NoRequest

\* What changes while a request adds up may be in its sum or not.
Disturbs ==
  request' = IF request.phase = "sums" /\ <<balances, netLiq>>' # <<balances, netLiq>>
             THEN [request EXCEPT !.still = FALSE] ELSE request

\* poll_account: a snapshot, which may lack its net liquidation, and the base
\* currency, if the same answer carries it.
AccountPolled ==
  /\ netLiq' \in NetLiqs \cup {None}
  /\ brokerBase' \in {brokerBase, BrokerBase}
  /\ UNCHANGED storeVars
  /\ Disturbs

-----------------------------------------------------------------------------
(* The headline.                                                             *)

Of(a) == {r \in balances : r.account = a}

\* Mutant: the most recent day of any account.
LatestBalancesOfAny(a) == {r \in Of(a) : \A s \in balances : Day(s) <= Day(r)}

\* Every balance at an account's most recent day.
LatestBalances(a) == {r \in Of(a) : \A s \in Of(a) : Day(s) <= Day(r)}

Headline == UNION {LatestBalances(a) : a \in Externals}

\* Mutant: a value without a rate counts as it is.
ConvertAnyway(value, ccy, rates) == IF ccy \in rates THEN value * RateOf[ccy] ELSE value

\* _convert: no rate, no value.
Convert(value, ccy, rates) == IF ccy \in rates THEN value * RateOf[ccy] ELSE None

\* Without a stored base currency the broker account counts as dollars.
BaseOf(stored) == IF stored = None THEN Dollar ELSE stored

\* _all_currencies_in_scope
CurrenciesInScope ==
  ({base[a] : a \in Externals} \ {None})
    \cup {CurrencyOf[r.from] : r \in Headline} \cup {BaseOf(brokerBase)}

\* The accounts and currencies are read; some of the rates are resolved.
RequestReads ==
  /\ request.phase = "none"
  /\ \E found \in SUBSET CurrenciesInScope :
       request' = [NoRequest EXCEPT !.rates = found \cup {Target}, !.base = brokerBase, !.phase = "rates"]
  /\ UNCHANGED <<storeVars, brokerBase, netLiq>>

ConvertedRow(r) == Convert(Amount(r), CurrencyOf[r.from], request.rates)

\* _ibkr_source: the latest snapshot's net liquidation, if it has one.
RequestAddsBroker ==
  /\ request.phase = "rates"
  /\ request' = [request EXCEPT
       !.phase = "sums", !.left = ReadOrder,
       !.sum = IF netLiq = None THEN 0 ELSE Convert(netLiq, BaseOf(request.base), request.rates)]
  /\ UNCHANGED <<storeVars, brokerBase, netLiq>>

\* _external_source: a balance without a rate leaves the source unconverted,
\* and the total empty.
RequestAddsExternal ==
  /\ request.left # <<>>
  /\ LET rows == LatestBalances(Head(request.left)) IN
     request' = [request EXCEPT
       !.left = Tail(@),
       !.sum = IF @ = None \/ \E r \in rows : ConvertedRow(r) = None
               THEN None ELSE @ + SumFunction([r \in rows |-> ConvertedRow(r)])]
  /\ UNCHANGED <<storeVars, brokerBase, netLiq>>

\* The total goes out, None as an empty one.
RequestAnswers ==
  /\ request.phase = "sums" /\ request.left = <<>>
  /\ request' = NoRequest
  /\ UNCHANGED <<storeVars, brokerBase, netLiq>>

Next ==
  \/ StoreNext /\ UNCHANGED <<brokerBase, netLiq>> /\ Disturbs
  \/ AccountPolled
  \/ RequestReads \/ RequestAddsBroker \/ RequestAddsExternal \/ RequestAnswers

Spec == Init /\ [][Next]_vars

-----------------------------------------------------------------------------
(* The chart.                                                                *)

\* Mutant: the bound of every month is its last day.
LastDay(m) == 2 * m

\* _month_end: an exclusive bound, the next month's first day, except that a
\* December's is its own last day.
MonthEnd(m) == IF m \in Decembers THEN 2 * m ELSE 2 * m + 1

\* A category's latest balance below the bound.
LatestPerCategory(a, upper) ==
  {r \in Of(a) : /\ Day(r) < upper
                 /\ \A s \in Of(a) : Category(s) = Category(r) /\ Day(s) < upper => Day(s) <= Day(r)}

\* _external_month_series; the empty sum stands for the missing month.
MonthTotal(a, m) == SumFunction([r \in LatestPerCategory(a, MonthEnd(m)) |-> Amount(r)])

\* history, for the external accounts: an account's base currency converts all
\* its months, and one without a rate is left out.  (Without a base currency an
\* account has no balances.)
Chart(m, rates) ==
  LET converted(a) == Convert(MonthTotal(a, m), base[a], rates)
  IN  SumFunction([a \in Externals |-> IF converted(a) = None THEN 0 ELSE converted(a)])

\* The amount the stored rows of a month's days and before give each category.
StatedBy(a, m) ==
  LET until == {r \in Of(a) : Day(r) <= 2 * m}
      latest(c) == CHOOSE r \in until : Category(r) = c /\ \A s \in until : Category(s) = c => Day(s) <= Day(r)
  IN  SumFunction([c \in {Category(r) : r \in until} |-> Amount(latest(c))])

Value(r) == Amount(r) * RateOf[CurrencyOf[r.from]]

\* What the external accounts are worth, summed from the stored rows and true rates.
ExternalWorth == SumFunction([r \in Headline |-> Value(r)])

Worth == ExternalWorth + (IF netLiq = None THEN 0 ELSE netLiq * RateOf[BrokerBase])

-----------------------------------------------------------------------------
\* A balance that an uploaded statement reports is stored, under this upload
\* or another one, unless an upload that shared it has been deleted.
StatementsWhole ==
  \A f \in uploads : \A r \in Rows(f) :
    \/ \E s \in balances : SameBalance(r, s)
    \/ r \in orphaned

\* A combined total that is about to be answered is the whole worth, whatever
\* was uploaded, deleted or polled while the rates were fetched: a missing rate
\* blanks it.  What changes while it is added up may be in it or not, and the broker's value
\* counts as it should only when its base currency was stored before the
\* request began.
CombinedIsWhole ==
  /\ request.phase = "sums" /\ request.left = <<>> /\ request.still
  /\ netLiq = None \/ request.base = BrokerBase
  => request.sum \in {None, Worth}

\* The chart's value of a month other than a December is what the statements
\* up to its last day say: each category's balance of the latest day, carried
\* forward over months without one.
MonthsAreCarried ==
  \A a \in Externals, m \in Months \ Decembers : MonthTotal(a, m) = StatedBy(a, m)

\* "Latest balance per category on/before this month end": every month.  The code
\* does not keep it: a balance of December 31 counts from January on (README, 3).
MonthEndsCount ==
  \A a \in Externals, m \in Months : MonthTotal(a, m) = StatedBy(a, m)

\* An account's latest statement has all the categories that the account ever
\* had, in its base currency, and is of a day before the month's bound.
StatedBefore(a, m) ==
  \A r \in Of(a) :
    /\ CurrencyOf[r.from] = base[a] /\ Day(r) < MonthEnd(m)
    /\ \E s \in Of(a) : Category(s) = Category(r) /\ \A t \in Of(a) : Day(t) <= Day(s)

\* While m is the current month, the chart's value of it is the headline of the
\* external accounts, whichever rates were found: where the headline is blank for
\* want of a rate, the chart is short of exactly the balances that lack it.  The
\* chart takes one currency and one day per account, the headline one per
\* balance: they agree on accounts that StatedBefore holds of, which it does
\* not of one with a balance of December 31 in a December (MonthEndsCount).
HeadlineOnChart ==
  \A m \in Months, rates \in SUBSET Currencies :
    Target \in rates /\ (\A a \in Externals : StatedBefore(a, m))
      => Chart(m, rates) = SumFunction([r \in {h \in Headline : CurrencyOf[h.from] \in rates} |-> Value(r)])
=============================================================================
