------------------------------- MODULE Income -------------------------------
(***************************************************************************)
(* GET /income: every account's premium income and its yield on the        *)
(* account's net liquidation, and the household's, in one display currency.*)
(*                                                                         *)
(* Chain premium stays in the currency its option trades in, the account's *)
(* own figures in its base currency, and neither a chain nor a summary     *)
(* says which is which: the handler infers the premium currency from the   *)
(* executions.  It reads account after account, and of each the chains,    *)
(* the snapshot and the currencies in statements of their own, while       *)
(* trades, polls and rebuilds go on.                                       *)
(*                                                                         *)
(* Not every execution names its currency, and not every account summary   *)
(* its base.  The model's chains carry their real currency all the same,   *)
(* and only the properties look at it; the request sees what is named.     *)
(***************************************************************************)
EXTENDS IncomeReport, FiniteSets

CONSTANTS
  Accounts,
  Scopes,        \* what account_scope resolves to: one account, or all in order
  Currencies, Worth,  \* and what a unit of each is worth
  Base,          \* an account's base currency at IBKR
  Markets,       \* the currencies an account trades in
  Silent,        \* bound: the accounts whose feeds may leave a currency out
  NetLiq,        \* its net liquidation, in its base currency
  Display,       \* the display currency
  Months, None,
  MaxChains, MaxWithdrawal   \* bounds by account: its chains, a month's withdrawal

ASSUME ConstantsFit ==
  /\ Scopes \subseteq Seq(Accounts)
  /\ Worth \in [Currencies -> Nat \ {0}] /\ None \notin Currencies
  /\ Display \in Currencies /\ Worth[Display] = 1
  /\ Base \in [Accounts -> Currencies] /\ Markets \in [Accounts -> SUBSET Currencies]
  /\ Silent \subseteq Accounts
  /\ NetLiq \in [Accounts -> Nat \ {0}]
  /\ Months \subseteq Nat /\ IsFiniteSet(Months)
  /\ MaxChains \in [Accounts -> Nat] /\ MaxWithdrawal \in [Accounts -> Nat]

VARIABLES
  book,      \* an account's executions, chain by chain
  named,     \* the currencies that its executions name
  chains,    \* its stored roll chains
  polled,    \* the accounts with a snapshot
  based,     \* the accounts whose base currency is stored
  overlay,   \* an account's withdrawals by month
  request    \* the accounts left to read, what is read of the first, the summaries

vars == <<book, named, chains, polled, based, overlay, request>>

Chain == [ccy : Currencies, opened_at : Months, status : {"open", "closed"},
          cumulative_credit : Nat, open_credit : Nat]

Idle == [left |-> <<>>, step |-> "none", chains |-> <<>>, withdrawn |-> <<>>, snapshot |-> FALSE,
         summaries |-> <<>>]

Summaries ==
  [account : Accounts, chains : Seq(Chain), all_time : Int, withdrawn : Nat,
   net_liquidation : Nat, base_currency : Currencies \cup {None},
   premium_currency : Currencies \cup {None}, currency_mismatch : BOOLEAN,
   premium_ambiguous : BOOLEAN, evident : BOOLEAN, yield : (Int \X Nat) \cup {None}]

TypeOK ==
  /\ book \in [Accounts -> Seq(Chain)] /\ chains \in [Accounts -> Seq(Chain)]
  /\ \A a \in Accounts : Len(chains[a]) <= Len(book[a]) /\ Len(book[a]) <= MaxChains[a]
  /\ named \in [Accounts -> SUBSET Currencies]
  /\ polled \subseteq Accounts /\ based \subseteq Accounts
  /\ overlay \in [Accounts -> [Months -> Nat]]
  /\ \A a \in Accounts, m \in Months : overlay[a][m] <= MaxWithdrawal[a]
  /\ request \in [left : Seq(Accounts), step : {"none", "chains", "snapshot", "currencies"},
                  chains : Seq(Chain), withdrawn : [Months -> Nat] \cup {<<>>},
                  snapshot : BOOLEAN, summaries : Seq(Summaries)]

Init ==
  /\ book = [a \in Accounts |-> <<>>]
  /\ named = [a \in Accounts |-> {}]
  /\ chains = [a \in Accounts |-> <<>>]
  /\ polled = {} /\ based = {}
  /\ overlay = [a \in Accounts |-> [m \in Months |-> 0]]
  /\ request = Idle

-----------------------------------------------------------------------------
(* The account's trades and what is stored of them.                          *)

Trades == UNCHANGED <<chains, polled, based, overlay, request>>

\* A row's currency is recorded, if the feed names it.
Recorded(a, c) ==
  \/ named' = [named EXCEPT ![a] = @ \cup {c}]
  \/ a \in Silent /\ UNCHANGED named

\* An option is sold.
Sells(a, c, m) ==
  /\ c \in Markets[a] /\ Len(book[a]) < MaxChains[a]
  /\ book' = [book EXCEPT ![a] = Append(@,
                [ccy |-> c, opened_at |-> m, status |-> "open",
                 cumulative_credit |-> 2, open_credit |-> 2])]
  /\ Recorded(a, c)
  /\ Trades

\* It is bought back for less.
BuysBack(a, n) ==
  /\ n \in DOMAIN book[a] /\ book[a][n].status = "open"
  /\ book' = [book EXCEPT ![a][n].cumulative_credit = 1, ![a][n].open_credit = 0,
                          ![a][n].status = "closed"]
  /\ Recorded(a, book[a][n].ccy)
  /\ Trades

\* The clean-up deletes the poll's copies for a statement's, which name none.
LosesCurrency(a, c) ==
  /\ a \in Silent /\ c \in named[a]
  /\ named' = [named EXCEPT ![a] = @ \ {c}]
  /\ UNCHANGED book /\ Trades

\* build_rolls, as ChainRebuild and RollChains have it.
RebuildsChains(a) ==
  /\ chains' = [chains EXCEPT ![a] = book[a]]
  /\ UNCHANGED <<book, named, polled, based, overlay, request>>

\* poll_account: the snapshot and, in the same commit, the base currency, if the
\* answer has one.
AccountPolled(a) ==
  /\ polled' = polled \cup {a}
  /\ \/ based' = based \cup {a}
     \/ a \in Silent /\ UNCHANGED based
  /\ UNCHANGED <<book, named, chains, overlay, request>>

\* Mutant: the amount is added to the month's.
AddsAdjustment(a, m, amount) ==
  /\ overlay' = [overlay EXCEPT ![a][m] = @ + amount]
  /\ UNCHANGED <<book, named, chains, polled, based, request>>

\* PUT /income/adjustments: one account's one month is inserted or replaced.
UpsertsAdjustment(a, m, amount) ==
  /\ overlay' = [overlay EXCEPT ![a][m] = amount]
  /\ UNCHANGED <<book, named, chains, polled, based, request>>

-----------------------------------------------------------------------------
(* The request.                                                              *)

Serves == UNCHANGED <<book, named, chains, polled, based, overlay>>

RequestStarts(scope) ==
  /\ request.step = "none"
  /\ request' = [Idle EXCEPT !.left = scope, !.step = "chains"]
  /\ Serves

First == Head(request.left)

ReadsChains ==
  /\ request.step = "chains" /\ request.left # <<>>
  /\ request' = [request EXCEPT !.chains = chains[First], !.step = "snapshot"]
  /\ Serves

ReadsSnapshot ==
  /\ request.step = "snapshot"
  /\ request' = [request EXCEPT !.withdrawn = overlay[First],
                              !.snapshot = First \in polled, !.step = "currencies"]
  /\ Serves

StoredBase(a) == IF a \in based THEN Base[a] ELSE None

\* account_trade_currencies: rows without a currency are skipped.
TradeCurrencies(a) == named[a]

\* For the properties: every currency traded in is named by an execution.
Evident(a) == named[a] = {book[a][n].ccy : n \in DOMAIN book[a]}

\* Mutant: any of several foreign currencies is taken.
PremiumCurrencyOfAny(base, foreign) ==
  IF base = None \/ foreign = {} THEN base ELSE CHOOSE c \in foreign : TRUE

\* The base unless there are foreign trades; with several foreign currencies, none.
PremiumCurrency(base, foreign) ==
  IF base = None \/ foreign = {} THEN base
  ELSE IF Cardinality(foreign) = 1 THEN CHOOSE c \in foreign : TRUE
  ELSE None

\* A ratio of two amounts, with the rate from one currency to another.
Ratio(over, from, under, to) == <<over * Worth[from], under * Worth[to]>>

\* _income_for: a yield is shown as long as nothing is known to need converting
\* or the rate is known.
Summary(a, base, foreign, rated) ==
  LET snapshot == request.snapshot
      income   == ComputeIncome(request.chains, request.withdrawn)
      mismatch == base # None /\ foreign # {}
      premium  == PremiumCurrency(base, foreign)
  IN  [account |-> a, chains |-> request.chains, all_time |-> income.all_time, withdrawn |-> income.withdrawn,
       net_liquidation |-> IF snapshot THEN NetLiq[a] ELSE 0,
       base_currency |-> base, premium_currency |-> premium, currency_mismatch |-> mismatch,
       premium_ambiguous |-> mismatch /\ premium = None, evident |-> Evident(a),
       yield |-> CASE ~snapshot                            -> None
                   [] snapshot /\ ~mismatch                -> <<income.all_time, NetLiq[a]>>
                   [] snapshot /\ mismatch /\ premium # None /\ rated ->
                        Ratio(income.all_time, premium, NetLiq[a], base)
                   [] OTHER                                -> None]

\* The base currency and the foreign ones; the rate may be missing.
ReadsCurrencies(rated) ==
  /\ request.step = "currencies"
  /\ LET base    == StoredBase(First)
         foreign == IF base = None THEN {} ELSE TradeCurrencies(First) \ {base}
     IN  request' = [request EXCEPT
           !.summaries = Append(@, Summary(First, base, foreign, rated)),
           !.left = Tail(@), !.step = "chains", !.chains = <<>>, !.withdrawn = <<>>, !.snapshot = FALSE]
  /\ Serves

Known(S) == S \ {None}

\* Mutant: an account without a premium currency needs no rate.
ConvertibleAnyway(sums, rates) ==
  Known({s.base_currency : s \in sums} \cup {s.premium_currency : s \in sums}) \subseteq rates

\* Every currency in play has a rate, and every account's premium has one currency.
Convertible(sums, rates) ==
  /\ \A s \in sums : ~s.premium_ambiguous
  /\ Known({s.base_currency : s \in sums} \cup {s.premium_currency : s \in sums}) \subseteq rates

\* _combine: the sums are converted, or raw.
Combined(sums, rates) ==
  LET convertible == Convertible(sums, rates)
      factor(c)   == IF convertible /\ c # None THEN Worth[c] ELSE 1
      all_time    == SumOf(LAMBDA s : s.all_time * factor(s.premium_currency), sums)
      withdrawn   == SumOf(LAMBDA s : s.withdrawn * factor(s.base_currency), sums)
      net_liq     == SumOf(LAMBDA s : s.net_liquidation * factor(s.base_currency), sums)
      mismatch    == \/ \E s \in sums : s.currency_mismatch
                     \/ Cardinality(Known({s.base_currency : s \in sums})) > 1
                     \/ Cardinality(Known({s.premium_currency : s \in sums})) > 1
  IN  [all_time |-> all_time, remaining |-> all_time - withdrawn,
       display_currency |-> IF convertible THEN Display ELSE None,
       yield |-> IF net_liq # 0 /\ (convertible \/ ~mismatch) THEN <<all_time, net_liq>> ELSE None]

\* The answer to a request for one account is its summary, to one for several
\* their sum: rate_map resolves some of the rates, the display currency's own always.
Answers(found) ==
  Combined(Range(request.summaries), found \cup {Display})

\* Every account is read; what changes from here on does not reach the answer.
AllRead == request.step = "chains" /\ request.left = <<>>

RequestAnswers ==
  /\ AllRead
  /\ request' = Idle
  /\ Serves

Next ==
  \/ /\ ~AllRead
     /\ \E a \in Accounts :
          \/ \E c \in Currencies : LosesCurrency(a, c) \/ \E m \in Months : Sells(a, c, m)
          \/ \E n \in 1..MaxChains[a] : BuysBack(a, n)
          \/ RebuildsChains(a) \/ AccountPolled(a)
          \/ \E m \in Months, amount \in 0..MaxWithdrawal[a] : UpsertsAdjustment(a, m, amount)
  \/ \E scope \in Scopes : RequestStarts(scope)
  \/ ReadsChains \/ ReadsSnapshot
  \/ \E rated \in BOOLEAN : ReadsCurrencies(rated)
  \/ RequestAnswers

Spec == Init /\ [][Next]_vars

-----------------------------------------------------------------------------
(* What the figures are in truth: each chain in its own currency.            *)

Premium(s) ==
  SumOf(LAMBDA n : Counted(s.chains[n]) * Worth[s.chains[n].ccy], DOMAIN s.chains)

Liquid(s)  == s.net_liquidation * Worth[Base[s.account]]

Equal(ratio, over, under) == ratio[1] * under = ratio[2] * over

\* An account whose base currency is not stored counts as one in the display
\* currency: "unknown isn't evidence of a mismatch".
PremiumTaken(s)    == IF s.base_currency = None THEN s.all_time ELSE Premium(s)
LiquidTaken(s)     == IF s.base_currency = None THEN s.net_liquidation ELSE Liquid(s)
WithdrawalTaken(s) == s.withdrawn * (IF s.base_currency = None THEN 1 ELSE Worth[Base[s.account]])

\* Premise: no account trades both in its base currency and in a foreign one.
\* The handler would take all its premium for foreign.
OneKindOfMarket == \A a \in Accounts : Base[a] \notin Markets[a] \/ Markets[a] \subseteq {Base[a]}

\* A yield that an account's summary shows is its premium over its net
\* liquidation, both in one currency, whatever was traded, polled, cleaned up or
\* rebuilt between the statements that read them: once the account's base
\* currency is stored, and if its trades named theirs when they were read.
YieldInOneCurrency ==
  \A s \in Range(request.summaries) :
    s.yield # None /\ s.base_currency # None /\ s.evident => Equal(s.yield, Premium(s), Liquid(s))

\* "rather than silently dividing two different currencies": every yield shown.
\* The code does not keep it: executions that name no currency, and a base
\* currency that is not stored, are no evidence of a foreign one (README, 3).
YieldAlways ==
  \A s \in Range(request.summaries) : s.yield # None => Equal(s.yield, Premium(s), Liquid(s))

\* A household answer that names a display currency has every amount of a known
\* currency converted into it from the currency it was in, next to the accounts
\* whose currency is not known, and so has its yield; one that names none shows no
\* yield of accounts in different currencies.  Whichever rates were missing, for
\* accounts whose trades named their currencies.
HouseholdInOneCurrency ==
  LET sums == Range(request.summaries) IN
  /\ AllRead /\ Cardinality(sums) > 1
  /\ \A s \in sums : s.base_currency # None => s.evident
  => \A found \in SUBSET Currencies :
       LET answer  == Answers(found)
           premium == SumOf(PremiumTaken, sums)
       IN  /\ answer.display_currency # None =>
                /\ answer.all_time = premium
                /\ answer.remaining = premium - SumOf(WithdrawalTaken, sums)
           /\ /\ answer.yield # None
              /\ answer.display_currency # None \/ \A s \in sums : s.base_currency # None
              => Equal(answer.yield, premium, SumOf(LiquidTaken, sums))
=============================================================================
