----------------------------- MODULE Income_proofs -----------------------------
(***************************************************************************)
(* Proofs about the income request, for any accounts, currencies, trades   *)
(* and rates.  Its invariant, IncomeInv, says what the stored chains have  *)
(* to do with the executions, what the request knows of the account it is  *)
(* reading, and what every summary it has made says of its account.        *)
(***************************************************************************)
EXTENDS Income, Sums_proofs, SequenceTheorems

(***************************************************************************)
(* Types.                                                                  *)
(***************************************************************************)
Overlays == [Months -> Nat] \cup {<<>>}

\* What a request for one account is given.
Requests ==
  [left : Seq(Accounts), step : {"none", "chains", "snapshot", "currencies"},
   chains : Seq(Chain), withdrawn : Overlays, snapshot : BOOLEAN, summaries : Seq(Summaries)]

LEMMA CountedInt == \A c \in Chain : Counted(c) \in Int
BY DEF Chain, Counted

LEMMA ChainsCounted ==
  ASSUME NEW chs \in Seq(Chain)
  PROVE IsFiniteSet(DOMAIN chs) /\ DOMAIN chs = 1..Len(chs) /\ \A n \in DOMAIN chs : Counted(chs[n]) \in Int
<1>1. DOMAIN chs = 1..Len(chs) /\ Len(chs) \in Nat OBVIOUS
<1>2. IsFiniteSet(1..Len(chs)) BY <1>1, FS_Interval
<1>3. \A n \in DOMAIN chs : chs[n] \in Chain OBVIOUS
<1> QED BY <1>1, <1>2, <1>3, CountedInt

\* What the chains have earned, summed chain by chain.
Earned(chs) == SumFunctionOnSet([n \in DOMAIN chs |-> Counted(chs[n])], DOMAIN chs)

LEMMA OverlayFinite ==
  ASSUME NEW overlaid \in Overlays
  PROVE IsFiniteSet(DOMAIN overlaid) /\ \A m \in DOMAIN overlaid : overlaid[m] \in Nat
<1>1. CASE overlaid = <<>>
  <2>1. DOMAIN overlaid = {} BY <1>1
  <2> QED BY <2>1, FS_EmptySet
<1>2. CASE overlaid \in [Months -> Nat] BY <1>2, ConstantsFit
<1> QED BY <1>1, <1>2 DEF Overlays

LEMMA Reported ==
  ASSUME NEW chs \in Seq(Chain), NEW overlaid \in Overlays
  PROVE /\ ComputeIncome(chs, overlaid).all_time = Earned(chs)
        /\ Earned(chs) \in Int
        /\ ComputeIncome(chs, overlaid).withdrawn \in Nat
<1>1. IsFiniteSet(DOMAIN chs) /\ \A n \in DOMAIN chs : Counted(chs[n]) \in Int BY ChainsCounted
<1>2. IsFiniteSet(DOMAIN overlaid) /\ \A m \in DOMAIN overlaid : overlaid[m] \in Nat BY OverlayFinite
<1>3. Earned(chs) \in Int BY <1>1, SumInt DEF Earned
<1> QED BY <1>1, <1>2, <1>3, AllTime, WithdrawnNat DEF Earned

LEMMA PremiumCurrencyType ==
  ASSUME NEW base \in Currencies \cup {None}, NEW foreign \in SUBSET Currencies
  PROVE PremiumCurrency(base, foreign) \in Currencies \cup {None}
<1>1. CASE base = None \/ foreign = {} BY <1>1 DEF PremiumCurrency
<1>2. CASE ~(base = None \/ foreign = {}) /\ Cardinality(foreign) = 1
  <2>1. PremiumCurrency(base, foreign) = CHOOSE c \in foreign : TRUE BY <1>2 DEF PremiumCurrency
  <2>2. \E c \in foreign : TRUE BY <1>2
  <2> QED BY <2>1, <2>2
<1>3. CASE ~(base = None \/ foreign = {}) /\ Cardinality(foreign) # 1 BY <1>3 DEF PremiumCurrency
<1> QED BY <1>1, <1>2, <1>3

\* The premium's currency is the only foreign one, or none of several.
LEMMA OneForeign ==
  ASSUME NEW base, base # None, NEW foreign, IsFiniteSet(foreign), foreign # {}, None \notin foreign,
         PremiumCurrency(base, foreign) # None
  PROVE foreign = {PremiumCurrency(base, foreign)}
<1>1. Cardinality(foreign) = 1 BY DEF PremiumCurrency
<1>2. PICK x : foreign = {x} BY <1>1, FS_Singleton
<1>3. PremiumCurrency(base, foreign) = CHOOSE c \in foreign : TRUE BY <1>1 DEF PremiumCurrency
<1> QED BY <1>2, <1>3

\* An account is open as long as it is being read.
TypeInv == TypeOK /\ (request.step \in {"snapshot", "currencies"} => request.left # <<>>)

LEMMA FirstIsAccount ==
  ASSUME TypeInv, request.left # <<>>
  PROVE First \in Accounts /\ Tail(request.left) \in Seq(Accounts)
<1>1. request.left \in Seq(Accounts) BY DEF TypeInv, TypeOK
<1> QED BY <1>1 DEF First

\* The currencies an account has traded in, named or not.
Traded(a) == {book[a][n].ccy : n \in DOMAIN book[a]}

LEMMA TradedType ==
  ASSUME TypeOK, NEW a \in Accounts PROVE Traded(a) \subseteq Currencies /\ IsFiniteSet(Traded(a))
<1> DEFINE S == DOMAIN book[a]
           k == [n \in S |-> book[a][n].ccy]
<1>1. book[a] \in Seq(Chain) BY DEF TypeOK
<1>2. S = 1..Len(book[a]) /\ Len(book[a]) \in Nat BY <1>1
<1>3. \A n \in S : book[a][n] \in Chain BY <1>1
<1>4. \A n \in S : book[a][n].ccy \in Currencies BY <1>3 DEF Chain
<1>5. k \in Surjection(S, Traded(a)) BY DEF Surjection, Traded
<1>6. IsFiniteSet(S) BY <1>2, FS_Interval
<1> HIDE DEF S, k
<1>7. IsFiniteSet(Traded(a)) BY <1>5, <1>6, FS_Surjection
<1> QED BY <1>4, <1>7 DEF Traded, S

\* What ReadsCurrencies finds out.
ForeignCurrencies(a) == IF StoredBase(a) = None THEN {} ELSE TradeCurrencies(a) \ {StoredBase(a)}

LEMMA BaseAndForeign ==
  ASSUME TypeOK, NEW a \in Accounts
  PROVE /\ StoredBase(a) \in Currencies \cup {None}
        /\ StoredBase(a) \in {Base[a], None} /\ Base[a] \in Currencies
        /\ ForeignCurrencies(a) \in SUBSET Currencies
        /\ None \notin ForeignCurrencies(a)
<1>1. Base[a] \in Currencies /\ None \notin Currencies BY ConstantsFit
<1>2. TradeCurrencies(a) \subseteq Currencies BY DEF TypeOK, TradeCurrencies
<1> QED BY <1>1, <1>2 DEF StoredBase, ForeignCurrencies

\* A yield is missing, in one currency already, or converted at the rate.
SummaryYield(s) ==
  \/ s.yield = None
  \/ /\ ~s.currency_mismatch
     /\ s.yield = <<s.all_time, NetLiq[s.account]>>
  \/ /\ s.currency_mismatch /\ s.premium_currency # None
     /\ s.yield = Ratio(s.all_time, s.premium_currency, NetLiq[s.account], s.base_currency)

LEMMA SummaryFields ==
  ASSUME TypeOK, NEW a \in Accounts, NEW rated \in BOOLEAN
  PROVE LET base    == StoredBase(a)
            foreign == ForeignCurrencies(a)
            s       == Summary(a, base, foreign, rated)
        IN  /\ s \in Summaries
            /\ s.account = a /\ s.chains = request.chains
            /\ s.all_time = Earned(request.chains)
            /\ s.net_liquidation = IF request.snapshot THEN NetLiq[a] ELSE 0
            /\ s.base_currency = base
            /\ s.premium_currency = PremiumCurrency(base, foreign)
            /\ s.currency_mismatch = (base # None /\ foreign # {})
            /\ s.premium_ambiguous = (s.currency_mismatch /\ s.premium_currency = None)
            /\ s.evident = Evident(a)
            /\ s.yield # None => request.snapshot
            /\ SummaryYield(s)
<1> DEFINE base    == StoredBase(a)
           foreign == ForeignCurrencies(a)
           s       == Summary(a, base, foreign, rated)
           income  == ComputeIncome(request.chains, request.withdrawn)
           premium == PremiumCurrency(base, foreign)
           mismatch == base # None /\ foreign # {}
           yield   == CASE ~request.snapshot                 -> None
                        [] request.snapshot /\ ~mismatch     -> <<income.all_time, NetLiq[a]>>
                        [] request.snapshot /\ mismatch /\ premium # None /\ rated ->
                             Ratio(income.all_time, premium, NetLiq[a], base)
                        [] OTHER                             -> None
<1>1. s = [account |-> a, chains |-> request.chains, all_time |-> income.all_time, withdrawn |-> income.withdrawn,
           net_liquidation |-> IF request.snapshot THEN NetLiq[a] ELSE 0,
           base_currency |-> base, premium_currency |-> premium, currency_mismatch |-> mismatch,
           premium_ambiguous |-> mismatch /\ premium = None, evident |-> Evident(a), yield |-> yield]
  BY DEF Summary
<1>2. request.chains \in Seq(Chain) /\ request.withdrawn \in Overlays /\ request.snapshot \in BOOLEAN
  BY DEF TypeOK, Overlays
<1>3. income.all_time = Earned(request.chains) /\ income.all_time \in Int /\ income.withdrawn \in Nat
  BY <1>2, Reported
<1>4. NetLiq[a] \in Nat BY ConstantsFit
<1>5. base \in Currencies \cup {None} /\ premium \in Currencies \cup {None}
  BY BaseAndForeign, PremiumCurrencyType
<1>6. mismatch \in BOOLEAN /\ Evident(a) \in BOOLEAN BY DEF Evident
<1>7. \A c \in Currencies : Worth[c] \in Nat \ {0} BY ConstantsFit
<1> HIDE DEF s, income, base, foreign, premium
<1>8. /\ yield # None => request.snapshot
      /\ \/ yield = None
         \/ ~mismatch /\ yield = <<income.all_time, NetLiq[a]>>
         \/ mismatch /\ premium # None /\ yield = Ratio(income.all_time, premium, NetLiq[a], base)
  <2>1. CASE ~request.snapshot BY <2>1
  <2>2. CASE request.snapshot /\ ~mismatch
    <3>1. yield = <<income.all_time, NetLiq[a]>> BY <2>2
    <3> QED BY <2>2, <3>1
  <2>3. CASE request.snapshot /\ mismatch /\ premium # None /\ rated
    <3>1. yield = Ratio(income.all_time, premium, NetLiq[a], base) BY <2>3
    <3> QED BY <2>3, <3>1
  <2>4. CASE request.snapshot /\ mismatch /\ ~(premium # None /\ rated)
    <3>1. yield = None BY <2>4
    <3> QED BY <2>4, <3>1
  <2> QED BY <2>1, <2>2, <2>3, <2>4
<1> HIDE DEF mismatch, yield
<1>9. yield \in (Int \X Nat) \cup {None}
  <2>1. CASE mismatch /\ premium # None /\ yield = Ratio(income.all_time, premium, NetLiq[a], base)
    <3>1. base # None BY <2>1 DEF mismatch
    <3>2. Worth[premium] \in Nat /\ Worth[base] \in Nat BY <1>5, <1>7, <2>1, <3>1
    <3>3. income.all_time * Worth[premium] \in Int /\ NetLiq[a] * Worth[base] \in Nat
      BY <1>3, <1>4, <3>2
    <3> QED BY <2>1, <3>3 DEF Ratio
  <2> QED BY <1>3, <1>4, <1>8, <2>1
<1>10. s \in Summaries BY <1>1, <1>2, <1>3, <1>4, <1>5, <1>6, <1>9 DEF Summaries
<1>11. SummaryYield(s) BY <1>1, <1>8 DEF SummaryYield
<1>12. /\ s.account = a /\ s.chains = request.chains
       /\ s.all_time = Earned(request.chains)
       /\ s.net_liquidation = IF request.snapshot THEN NetLiq[a] ELSE 0
       /\ s.base_currency = base
       /\ s.premium_currency = premium
       /\ s.currency_mismatch = mismatch
       /\ s.premium_ambiguous = (mismatch /\ premium = None)
       /\ s.evident = Evident(a)
       /\ s.yield # None => request.snapshot
  BY <1>1, <1>3, <1>8
<1> QED BY <1>10, <1>11, <1>12 DEF s, base, foreign, premium, mismatch

LEMMA InitTyped == Init => TypeInv
<1> SUFFICES ASSUME Init PROVE TypeInv OBVIOUS
<1>1. <<>> \in Seq(Chain) /\ <<>> \in Seq(Accounts) /\ <<>> \in Seq(Summaries) /\ Len(<<>>) = 0 OBVIOUS
<1>2. Idle \in Requests /\ Idle.step = "none" BY <1>1 DEF Idle, Requests, Overlays
<1>3. MaxChains \in [Accounts -> Nat] /\ MaxWithdrawal \in [Accounts -> Nat] BY ConstantsFit
<1>4. request \in Requests BY <1>2 DEF Init
<1>5. /\ book \in [Accounts -> Seq(Chain)] /\ chains \in [Accounts -> Seq(Chain)]
      /\ overlay \in [Accounts -> [Months -> Nat]] /\ polled \subseteq Accounts /\ based \subseteq Accounts
      /\ named \in [Accounts -> SUBSET Currencies]
  BY <1>1 DEF Init
<1>6. /\ \A a \in Accounts : Len(chains[a]) <= Len(book[a]) /\ Len(book[a]) <= MaxChains[a]
      /\ \A a \in Accounts, m \in Months : overlay[a][m] <= MaxWithdrawal[a]
  BY <1>1, <1>3 DEF Init
<1> QED BY <1>2, <1>4, <1>5, <1>6 DEF Init, TypeInv, TypeOK, Requests, Overlays

\* A sale adds a chain to the account's, in a currency of its markets.
LEMMA SellsBook ==
  ASSUME TypeOK, NEW a \in Accounts, NEW c \in Currencies, NEW m \in Months, Sells(a, c, m)
  PROVE \E ch \in Chain :
          /\ ch.ccy = c /\ c \in Markets[a] /\ Len(book[a]) < MaxChains[a]
          /\ book' = [book EXCEPT ![a] = Append(book[a], ch)]
          /\ Recorded(a, c)
<1> DEFINE ch == [ccy |-> c, opened_at |-> m, status |-> "open", cumulative_credit |-> 2, open_credit |-> 2]
<1>1. ch \in Chain BY DEF Chain
<1>2. ch.ccy = c /\ book' = [book EXCEPT ![a] = Append(book[a], ch)] BY DEF Sells
<1>3. c \in Markets[a] /\ Len(book[a]) < MaxChains[a] /\ Recorded(a, c) BY DEF Sells
<1> HIDE DEF ch
<1> QED BY <1>1, <1>2, <1>3

\* A buy-back leaves the chain its currency.
LEMMA BuysBackBook ==
  ASSUME TypeOK, NEW a \in Accounts, NEW n, BuysBack(a, n)
  PROVE \E ch \in Chain :
          /\ n \in DOMAIN book[a] /\ ch.ccy = book[a][n].ccy
          /\ book' = [book EXCEPT ![a] = [book[a] EXCEPT ![n] = ch]]
          /\ Recorded(a, ch.ccy)
<1> DEFINE ch == [book[a][n] EXCEPT !.cumulative_credit = 1, !.open_credit = 0, !.status = "closed"]
<1>1. book \in [Accounts -> Seq(Chain)] /\ book[a] \in Seq(Chain) BY DEF TypeOK
<1>2. n \in DOMAIN book[a] /\ book[a][n] \in Chain BY <1>1 DEF BuysBack
<1>3. ch \in Chain /\ ch.ccy = book[a][n].ccy BY <1>2 DEF Chain
<1>4. book' = [book EXCEPT ![a][n].cumulative_credit = 1, ![a][n].open_credit = 0, ![a][n].status = "closed"]
  BY DEF BuysBack
<1>5. book' = [book EXCEPT ![a] = [book[a] EXCEPT ![n] = ch]] BY <1>1, <1>2, <1>4
<1>6. Recorded(a, book[a][n].ccy) BY DEF BuysBack
<1> HIDE DEF ch
<1> QED BY <1>2, <1>3, <1>5, <1>6

LEMMA RecordedTyped ==
  ASSUME TypeOK, NEW a \in Accounts, NEW c \in Currencies, Recorded(a, c)
  PROVE named' \in [Accounts -> SUBSET Currencies]
<1>1. named \in [Accounts -> SUBSET Currencies] BY DEF TypeOK
<1>2. named[a] \cup {c} \in SUBSET Currencies BY <1>1
<1>3. named' = [named EXCEPT ![a] = named[a] \cup {c}] \/ named' = named BY DEF Recorded
<1> QED BY <1>1, <1>2, <1>3

LEMMA TypedBook ==
  ASSUME TypeOK, NEW a \in Accounts, NEW b,
         b \in Seq(Chain), Len(book[a]) <= Len(b), Len(b) <= MaxChains[a],
         book' = [book EXCEPT ![a] = b], named' \in [Accounts -> SUBSET Currencies], Trades
  PROVE TypeOK'
<1>1. book' \in [Accounts -> Seq(Chain)] BY DEF TypeOK
<1>2. \A x \in Accounts : Len(chains[x]) <= Len(book'[x]) /\ Len(book'[x]) <= MaxChains[x]
  <2>1. ASSUME NEW x \in Accounts PROVE Len(chains[x]) <= Len(book'[x]) /\ Len(book'[x]) <= MaxChains[x]
    <3>1. chains[a] \in Seq(Chain) /\ book[a] \in Seq(Chain) BY DEF TypeOK
    <3>2. Len(chains[a]) \in Nat /\ Len(book[a]) \in Nat /\ Len(b) \in Nat BY <3>1
    <3>3. book'[x] = IF x = a THEN b ELSE book[x] BY DEF TypeOK
    <3>4. Len(chains[x]) <= Len(book[x]) /\ Len(book[x]) <= MaxChains[x] BY DEF TypeOK
    <3> QED BY <3>2, <3>3, <3>4
  <2> QED BY <2>1
<1> QED BY <1>1, <1>2 DEF TypeOK, Trades

LEMMA TypedRequest ==
  ASSUME TypeOK, request' \in Requests, Serves PROVE TypeOK'
BY DEF TypeOK, Serves, Requests, Overlays

LEMMA RequestTyped == TypeOK => request \in Requests BY DEF TypeOK, Requests, Overlays

LEMMA TypePreserved == TypeInv /\ [Next]_vars => TypeInv'
<1> SUFFICES ASSUME TypeInv, [Next]_vars PROVE TypeInv' OBVIOUS
<1> USE DEF TypeInv
<1>0. TypeOK /\ request \in Requests BY RequestTyped
<1>1. ASSUME NEW a \in Accounts, NEW c \in Currencies, NEW m \in Months, Sells(a, c, m) PROVE TypeInv'
  <2>1. PICK ch \in Chain : /\ Len(book[a]) < MaxChains[a]
                            /\ book' = [book EXCEPT ![a] = Append(book[a], ch)]
                            /\ Recorded(a, c)
    BY <1>0, <1>1, SellsBook
  <2>2. book[a] \in Seq(Chain) /\ MaxChains[a] \in Nat BY <1>0, ConstantsFit DEF TypeOK
  <2> DEFINE b == Append(book[a], ch)
  <2>3. b \in Seq(Chain) /\ Len(b) = Len(book[a]) + 1 /\ Len(book[a]) \in Nat BY <2>2
  <2> HIDE DEF b
  <2>4. Len(book[a]) <= Len(b) /\ Len(b) <= MaxChains[a] BY <2>1, <2>2, <2>3
  <2>5. Trades /\ UNCHANGED request BY <1>1 DEF Sells, Trades
  <2>6. named' \in [Accounts -> SUBSET Currencies] BY <1>0, <2>1, RecordedTyped
  <2>7. TypeOK' BY <1>0, <2>1, <2>3, <2>4, <2>5, <2>6, TypedBook DEF b
  <2> QED BY <2>5, <2>7
<1>2. ASSUME NEW a \in Accounts, NEW n, BuysBack(a, n) PROVE TypeInv'
  <2>1. PICK ch \in Chain : /\ n \in DOMAIN book[a] /\ Recorded(a, ch.ccy)
                            /\ book' = [book EXCEPT ![a] = [book[a] EXCEPT ![n] = ch]]
    BY <1>0, <1>2, BuysBackBook
  <2>2. book[a] \in Seq(Chain) /\ Len(book[a]) <= MaxChains[a] BY <1>0 DEF TypeOK
  <2> DEFINE b == [book[a] EXCEPT ![n] = ch]
  <2>3. b \in Seq(Chain) /\ Len(b) = Len(book[a]) /\ Len(book[a]) \in Nat BY <2>1, <2>2
  <2> HIDE DEF b
  <2>4. Len(book[a]) <= Len(b) /\ Len(b) <= MaxChains[a] BY <2>2, <2>3
  <2>5. Trades /\ UNCHANGED request BY <1>2 DEF BuysBack, Trades
  <2>6. named' \in [Accounts -> SUBSET Currencies]
    <3>1. ch.ccy \in Currencies BY DEF Chain
    <3> QED BY <1>0, <2>1, <3>1, RecordedTyped
  <2>7. TypeOK' BY <1>0, <2>1, <2>3, <2>4, <2>5, <2>6, TypedBook DEF b
  <2> QED BY <2>5, <2>7
<1>12. ASSUME NEW a \in Accounts, NEW c \in Currencies, LosesCurrency(a, c) PROVE TypeInv'
  BY <1>0, <1>12 DEF LosesCurrency, Trades, TypeOK
<1>3. ASSUME NEW a \in Accounts, RebuildsChains(a) PROVE TypeInv'
  <2>1. chains' = [chains EXCEPT ![a] = book[a]] /\ UNCHANGED <<book, named, polled, based, overlay, request>>
    BY <1>3 DEF RebuildsChains
  <2>2. chains' \in [Accounts -> Seq(Chain)] BY <1>0, <2>1 DEF TypeOK
  <2>3. book[a] \in Seq(Chain) BY <1>0 DEF TypeOK
  <2>4. Len(book[a]) \in Nat BY <2>3
  <2>5. \A x \in Accounts : Len(chains'[x]) <= Len(book[x]) BY <1>0, <2>1, <2>4 DEF TypeOK
  <2> QED BY <1>0, <2>1, <2>2, <2>5 DEF TypeOK
<1>4. ASSUME NEW a \in Accounts, AccountPolled(a) PROVE TypeInv'
  BY <1>0, <1>4 DEF AccountPolled, TypeOK
<1>5. ASSUME NEW a \in Accounts, NEW m \in Months, NEW amount \in 0..MaxWithdrawal[a],
             UpsertsAdjustment(a, m, amount)
      PROVE TypeInv'
  <2>1. overlay' = [overlay EXCEPT ![a][m] = amount] /\ UNCHANGED <<book, named, chains, polled, based, request>>
    BY <1>5 DEF UpsertsAdjustment
  <2>2. amount \in Nat /\ amount <= MaxWithdrawal[a] BY ConstantsFit
  <2>3. overlay \in [Accounts -> [Months -> Nat]] BY <1>0 DEF TypeOK
  <2>4. \A x \in Accounts, y \in Months :
          overlay'[x][y] = IF x = a /\ y = m THEN amount ELSE overlay[x][y]
    BY <2>1, <2>3
  <2>5. overlay' \in [Accounts -> [Months -> Nat]] BY <2>1, <2>2, <2>3
  <2>6. \A x \in Accounts, y \in Months : overlay'[x][y] <= MaxWithdrawal[x]
    BY <1>0, <2>2, <2>4 DEF TypeOK
  <2> QED BY <1>0, <2>1, <2>5, <2>6 DEF TypeOK
<1>6. ASSUME NEW scope \in Scopes, RequestStarts(scope) PROVE TypeInv'
  <2>1. scope \in Seq(Accounts) BY ConstantsFit
  <2>2. request' = [Idle EXCEPT !.left = scope, !.step = "chains"] /\ Serves BY <1>6 DEF RequestStarts
  <2>3. request' = [left |-> scope, step |-> "chains", chains |-> <<>>, withdrawn |-> <<>>,
                    snapshot |-> FALSE, summaries |-> <<>>]
    BY <2>2 DEF Idle
  <2>4. <<>> \in Seq(Chain) /\ <<>> \in Seq(Summaries) OBVIOUS
  <2>5. request' \in Requests /\ request'.step = "chains" BY <2>1, <2>3, <2>4 DEF Requests, Overlays
  <2> QED BY <1>0, <2>2, <2>5, TypedRequest
<1>7. CASE ReadsChains
  <2>1. request.left # <<>> /\ request' = [request EXCEPT !.chains = chains[First], !.step = "snapshot"] /\ Serves
    BY <1>7 DEF ReadsChains
  <2>2. chains[First] \in Seq(Chain) BY <1>0, <2>1, FirstIsAccount DEF TypeOK
  <2>3. request' \in Requests /\ request'.left = request.left BY <1>0, <2>1, <2>2 DEF Requests
  <2> QED BY <1>0, <2>1, <2>3, TypedRequest
<1>8. CASE ReadsSnapshot
  <2>1. /\ request.left # <<>> /\ Serves
        /\ request' = [request EXCEPT !.withdrawn = overlay[First],
                                      !.snapshot = First \in polled, !.step = "currencies"]
    BY <1>8 DEF ReadsSnapshot
  <2>2. overlay[First] \in Overlays BY <1>0, <2>1, FirstIsAccount DEF TypeOK, Overlays
  <2> DEFINE known == First \in polled
             over == overlay[First]
  <2>3. known \in BOOLEAN OBVIOUS
  <2>4. request' = [request EXCEPT !.withdrawn = over, !.snapshot = known, !.step = "currencies"] BY <2>1
  <2>5. over \in Overlays BY <2>2
  <2> HIDE DEF known, over
  <2>6. request' \in Requests /\ request'.left = request.left BY <1>0, <2>3, <2>4, <2>5 DEF Requests
  <2> QED BY <1>0, <2>1, <2>6, TypedRequest
<1>9. ASSUME NEW rated \in BOOLEAN, ReadsCurrencies(rated) PROVE TypeInv'
  <2> DEFINE s == Summary(First, StoredBase(First), ForeignCurrencies(First), rated)
  <2>1. request.left # <<>> BY <1>9 DEF ReadsCurrencies
  <2>2. /\ Serves
        /\ request' = [request EXCEPT !.summaries = Append(@, s), !.left = Tail(@), !.step = "chains",
                                      !.chains = <<>>, !.withdrawn = <<>>, !.snapshot = FALSE]
    BY <1>9 DEF ReadsCurrencies, ForeignCurrencies
  <2>3. s \in Summaries BY <1>0, <2>1, FirstIsAccount, SummaryFields
  <2>4. Tail(request.left) \in Seq(Accounts) BY <2>1, FirstIsAccount
  <2>5. Append(request.summaries, s) \in Seq(Summaries)
    <3>1. request.summaries \in Seq(Summaries) BY <1>0 DEF Requests
    <3> HIDE DEF s
    <3> QED BY <2>3, <3>1
  <2> HIDE DEF s
  <2>6. <<>> \in Seq(Chain) /\ <<>> \in Overlays BY DEF Overlays
  <2>7. request' \in Requests /\ request'.step = "chains" BY <1>0, <2>2, <2>4, <2>5, <2>6 DEF Requests
  <2> QED BY <1>0, <2>2, <2>7, TypedRequest
<1>10. CASE RequestAnswers
  <2>1. request' = Idle /\ Serves BY <1>10 DEF RequestAnswers
  <2>2. <<>> \in Seq(Chain) /\ <<>> \in Seq(Accounts) /\ <<>> \in Seq(Summaries) OBVIOUS
  <2>3. request' \in Requests /\ request'.step = "none" BY <2>1, <2>2 DEF Requests, Overlays, Idle
  <2> QED BY <1>0, <2>1, <2>3, TypedRequest
<1>11. CASE UNCHANGED vars BY <1>0, <1>11 DEF vars, TypeOK
<1> QED BY <1>1, <1>2, <1>3, <1>4, <1>5, <1>6, <1>7, <1>8, <1>9, <1>10, <1>11, <1>12 DEF Next

\* The tables and the request are typed in every reachable state.
THEOREM TypeCorrect == Spec => []TypeOK
<1>1. Spec => []TypeInv BY InitTyped, TypePreserved, PTL DEF Spec
<1>2. TypeInv => TypeOK BY DEF TypeInv
<1> QED BY <1>1, <1>2, PTL

(***************************************************************************)
(* What the request knows.                                                 *)
(***************************************************************************)
\* A stored chain is of a currency that is traded, and so is every currency named.
BooksAgree ==
  \A a \in Accounts :
    /\ Traded(a) \subseteq Markets[a]
    /\ TradeCurrencies(a) \subseteq Traded(a)
    /\ \A n \in DOMAIN chains[a] : chains[a][n].ccy \in Traded(a)

\* The chains read were traded before the currencies are read.
ReadSoFar ==
  request.step \in {"snapshot", "currencies"} =>
    \A n \in DOMAIN request.chains : request.chains[n].ccy \in Traded(First)

\* A summary's figures, and what its currencies say about its chains.
Truthful(s) ==
  /\ s \in Summaries
  /\ s.all_time = Earned(s.chains)
  /\ s.base_currency \in {Base[s.account], None}
  /\ s.net_liquidation \in {0, NetLiq[s.account]}
  /\ s.premium_ambiguous = (s.currency_mismatch /\ s.premium_currency = None)
  /\ ~s.currency_mismatch => s.premium_currency = s.base_currency
  /\ s.currency_mismatch => s.base_currency # None
  /\ s.evident /\ s.base_currency # None /\ s.premium_currency # None =>
       \A n \in DOMAIN s.chains : s.chains[n].ccy = s.premium_currency
  /\ s.yield # None => s.net_liquidation = NetLiq[s.account]
  /\ SummaryYield(s)

IncomeInv ==
  /\ TypeInv /\ BooksAgree /\ ReadSoFar
  /\ \A s \in Range(request.summaries) : Truthful(s)

\* An account's trades come in its markets' currencies, and none is forgotten.
LEMMA TradesGrow ==
  ASSUME TypeOK, [Next]_vars, NEW x \in Accounts, Traded(x) \subseteq Markets[x]
  PROVE Traded(x) \subseteq Traded(x)' /\ Traded(x)' \subseteq Markets[x]
<1> DEFINE Held(b) == {b[n].ccy : n \in DOMAIN b}
<1>0. /\ Traded(x) = Held(book[x]) /\ Traded(x)' = Held(book'[x])
      /\ book \in [Accounts -> Seq(Chain)]
  BY DEF Traded, TypeOK
<1>1. ASSUME NEW a \in Accounts, NEW c \in Currencies, NEW m \in Months, Sells(a, c, m)
      PROVE Held(book[x]) \subseteq Held(book'[x]) /\ Held(book'[x]) \subseteq Held(book[x]) \cup Markets[x]
  <2>1. PICK ch \in Chain : ch.ccy = c /\ c \in Markets[a] /\ book' = [book EXCEPT ![a] = Append(book[a], ch)]
    BY <1>1, SellsBook
  <2>2. CASE x # a BY <1>0, <2>1, <2>2
  <2>3. CASE x = a
    <3>1. book'[x] = Append(book[x], ch) /\ book[x] \in Seq(Chain) BY <1>0, <2>1, <2>3
    <3>2. /\ DOMAIN book[x] = 1..Len(book[x]) /\ DOMAIN book'[x] = 1..(Len(book[x]) + 1)
          /\ \A n \in DOMAIN book[x] : book'[x][n] = book[x][n]
          /\ book'[x][Len(book[x]) + 1] = ch /\ Len(book[x]) \in Nat
      BY <3>1
    <3>3. \A n \in DOMAIN book'[x] : n \in DOMAIN book[x] \/ n = Len(book[x]) + 1 BY <3>2
    <3>4. \A n \in DOMAIN book[x] : n \in DOMAIN book'[x] BY <3>2
    <3> QED BY <2>1, <2>3, <3>2, <3>3, <3>4
  <2> QED BY <2>2, <2>3
<1>2. ASSUME NEW a \in Accounts, NEW n, BuysBack(a, n)
      PROVE Held(book'[x]) = Held(book[x])
  <2>1. PICK ch \in Chain : /\ n \in DOMAIN book[a] /\ ch.ccy = book[a][n].ccy
                            /\ book' = [book EXCEPT ![a] = [book[a] EXCEPT ![n] = ch]]
    BY <1>2, BuysBackBook
  <2>2. CASE x # a BY <1>0, <2>1, <2>2
  <2>3. CASE x = a
    <3>1. book'[x] = [book[x] EXCEPT ![n] = ch] BY <1>0, <2>1, <2>3
    <3>2. DOMAIN book'[x] = DOMAIN book[x] BY <3>1
    <3>3. \A k \in DOMAIN book[x] : book'[x][k].ccy = book[x][k].ccy BY <2>1, <2>3, <3>1
    <3> QED BY <3>2, <3>3
  <2> QED BY <2>2, <2>3
<1>3. ASSUME UNCHANGED book PROVE Held(book'[x]) = Held(book[x]) BY <1>3
<1>4. \/ UNCHANGED book
      \/ \E a \in Accounts : \/ \E c \in Currencies, m \in Months : Sells(a, c, m)
                             \/ \E n \in 1..MaxChains[a] : BuysBack(a, n)
  BY DEF Next, vars, LosesCurrency, RebuildsChains, AccountPolled, UpsertsAdjustment, RequestStarts,
         Serves, ReadsChains, ReadsSnapshot, ReadsCurrencies, RequestAnswers
<1> HIDE DEF Held
<1> QED BY <1>0, <1>1, <1>2, <1>3, <1>4

\* The currencies named are those of trades.
LEMMA NamedPreserved ==
  ASSUME TypeOK, BooksAgree, [Next]_vars, NEW x \in Accounts
  PROVE TradeCurrencies(x)' \subseteq Traded(x)'
<1>0. /\ TradeCurrencies(x) \subseteq Traded(x) /\ Traded(x) \subseteq Traded(x)'
      /\ named \in [Accounts -> SUBSET Currencies] /\ book \in [Accounts -> Seq(Chain)]
  BY TradesGrow DEF BooksAgree, TypeOK
<1>1. ASSUME NEW a \in Accounts, NEW c, Recorded(a, c)
      PROVE named'[x] \subseteq named[x] \cup (IF x = a THEN {c} ELSE {})
  BY <1>0, <1>1 DEF Recorded
<1>2. ASSUME NEW a \in Accounts, NEW c \in Currencies, NEW m \in Months, Sells(a, c, m)
      PROVE TradeCurrencies(x)' \subseteq Traded(x)'
  <2>1. PICK ch \in Chain : /\ ch.ccy = c /\ Recorded(a, c)
                            /\ book' = [book EXCEPT ![a] = Append(book[a], ch)]
    BY <1>2, SellsBook
  <2>2. CASE x = a
    <3>1. book'[x] = Append(book[x], ch) /\ book[x] \in Seq(Chain) BY <1>0, <2>1, <2>2
    <3>2. Len(book[x]) + 1 \in DOMAIN book'[x] /\ book'[x][Len(book[x]) + 1] = ch BY <3>1
    <3>3. c \in Traded(x)' BY <2>1, <3>2 DEF Traded
    <3> QED BY <1>0, <1>1, <2>1, <3>3 DEF TradeCurrencies
  <2>3. CASE x # a BY <1>0, <1>1, <2>1, <2>3 DEF TradeCurrencies
  <2> QED BY <2>2, <2>3
<1>3. ASSUME NEW a \in Accounts, NEW n, BuysBack(a, n)
      PROVE TradeCurrencies(x)' \subseteq Traded(x)'
  <2>1. n \in DOMAIN book[a] /\ Recorded(a, book[a][n].ccy) BY <1>3 DEF BuysBack
  <2>2. book[a][n].ccy \in Traded(a) BY <2>1 DEF Traded
  <2> QED BY <1>0, <1>1, <2>1, <2>2 DEF TradeCurrencies
<1>4. ASSUME NEW a \in Accounts, NEW c \in Currencies, LosesCurrency(a, c)
      PROVE named'[x] \subseteq named[x]
  BY <1>0, <1>4 DEF LosesCurrency
<1>5. \/ UNCHANGED named
      \/ \E a \in Accounts : \/ \E c \in Currencies, m \in Months : Sells(a, c, m)
                             \/ \E n \in 1..MaxChains[a] : BuysBack(a, n)
                             \/ \E c \in Currencies : LosesCurrency(a, c)
  BY DEF Next, vars, RebuildsChains, AccountPolled, UpsertsAdjustment, RequestStarts,
         Serves, ReadsChains, ReadsSnapshot, ReadsCurrencies, RequestAnswers
<1>6. ASSUME named'[x] \subseteq named[x] PROVE TradeCurrencies(x)' \subseteq Traded(x)'
  BY <1>0, <1>6 DEF TradeCurrencies
<1> QED BY <1>2, <1>3, <1>4, <1>5, <1>6

LEMMA BooksPreserved ==
  ASSUME TypeOK, BooksAgree, [Next]_vars PROVE BooksAgree'
<1> SUFFICES ASSUME NEW x \in Accounts
             PROVE /\ Traded(x)' \subseteq Markets[x]
                   /\ TradeCurrencies(x)' \subseteq Traded(x)'
                   /\ \A n \in DOMAIN chains'[x] : chains'[x][n].ccy \in Traded(x)'
  BY DEF BooksAgree
<1>1. Traded(x) \subseteq Traded(x)' /\ Traded(x)' \subseteq Markets[x]
  BY TradesGrow DEF BooksAgree
<1>2. \A n \in DOMAIN chains[x] : chains[x][n].ccy \in Traded(x) BY DEF BooksAgree
<1>3. chains' # chains => \E a \in Accounts : RebuildsChains(a)
  BY DEF Next, vars, Sells, BuysBack, LosesCurrency, Trades, AccountPolled, UpsertsAdjustment,
         RequestStarts, Serves, ReadsChains, ReadsSnapshot, ReadsCurrencies, RequestAnswers
<1>4. ASSUME NEW a \in Accounts, RebuildsChains(a) PROVE chains'[x] \in {chains[x], book[x]}
  BY <1>4 DEF RebuildsChains, TypeOK
<1>5. \A n \in DOMAIN book[x] : book[x][n].ccy \in Traded(x) BY DEF Traded
<1>6. chains'[x] \in {chains[x], book[x]} BY <1>3, <1>4
<1> QED BY <1>1, <1>2, <1>5, <1>6, NamedPreserved

\* Steps that are not the request's leave it alone.
LEMMA OtherSteps ==
  ASSUME [Next]_vars
  PROVE \/ UNCHANGED request
        \/ \E scope \in Scopes : RequestStarts(scope)
        \/ ReadsChains \/ ReadsSnapshot \/ RequestAnswers
        \/ \E rated \in BOOLEAN : ReadsCurrencies(rated)
<1>1. \A a \in Accounts : /\ \A c \in Currencies, m \in Months : Sells(a, c, m) => UNCHANGED request
                          /\ \A c \in Currencies : LosesCurrency(a, c) => UNCHANGED request
                          /\ \A n \in 1..MaxChains[a] : BuysBack(a, n) => UNCHANGED request
                          /\ RebuildsChains(a) \/ AccountPolled(a) => UNCHANGED request
                          /\ \A m \in Months, amount \in 0..MaxWithdrawal[a] :
                               UpsertsAdjustment(a, m, amount) => UNCHANGED request
  BY DEF Sells, BuysBack, LosesCurrency, Trades, RebuildsChains, AccountPolled, UpsertsAdjustment
<1>2. UNCHANGED vars => UNCHANGED request BY DEF vars
<1> QED BY <1>1, <1>2 DEF Next

\* A new summary is truthful: what was read first is still so when the currencies are read.
LEMMA NewSummary ==
  ASSUME OneKindOfMarket, TypeOK, BooksAgree, ReadSoFar, request.step = "currencies",
         First \in Accounts, NEW rated \in BOOLEAN
  PROVE Truthful(Summary(First, StoredBase(First), ForeignCurrencies(First), rated))
<1> DEFINE a       == First
           base    == StoredBase(a)
           foreign == ForeignCurrencies(a)
           s       == Summary(a, base, foreign, rated)
<1>1. /\ s \in Summaries
      /\ s.account = a /\ s.chains = request.chains
      /\ s.all_time = Earned(request.chains)
      /\ s.net_liquidation = IF request.snapshot THEN NetLiq[a] ELSE 0
      /\ s.base_currency = base
      /\ s.premium_currency = PremiumCurrency(base, foreign)
      /\ s.currency_mismatch = (base # None /\ foreign # {})
      /\ s.premium_ambiguous = (s.currency_mismatch /\ s.premium_currency = None)
      /\ s.evident = Evident(a)
      /\ s.yield # None => request.snapshot
      /\ SummaryYield(s)
  BY SummaryFields
<1>2. /\ base \in {Base[a], None} /\ Base[a] \in Currencies /\ None \notin Currencies
      /\ None \notin foreign
  BY BaseAndForeign, ConstantsFit
<1>3. /\ base # None => foreign = TradeCurrencies(a) \ {base}
      /\ base = None => foreign = {}
  BY DEF ForeignCurrencies
<1>4. \A n \in DOMAIN request.chains : request.chains[n].ccy \in Traded(a) BY DEF ReadSoFar
<1>5. s.evident => TradeCurrencies(a) = Traded(a) BY <1>1 DEF Evident, TradeCurrencies, Traded
<1>6. TradeCurrencies(a) \subseteq Traded(a) /\ Traded(a) \subseteq Markets[a] BY DEF BooksAgree
<1>7. IsFiniteSet(foreign)
  <2>1. IsFiniteSet(TradeCurrencies(a)) BY <1>6, TradedType, FS_Subset
  <2>2. foreign \subseteq TradeCurrencies(a) BY <1>3
  <2> HIDE DEF foreign
  <2> QED BY <2>1, <2>2, FS_Subset
<1>8. a \in Accounts OBVIOUS
<1> HIDE DEF a, s, base, foreign
<1>9. ASSUME ~s.currency_mismatch PROVE s.premium_currency = base
  <2>1. base = None \/ foreign = {} BY <1>1, <1>9
  <2> QED BY <1>1, <2>1 DEF PremiumCurrency
<1>10. ASSUME s.evident, base # None, foreign = {}
       PROVE s.premium_currency = base /\ \A n \in DOMAIN request.chains : request.chains[n].ccy = base
  <2>1. PremiumCurrency(base, foreign) = base BY <1>10 DEF PremiumCurrency
  <2>2. Traded(a) \subseteq {base} BY <1>3, <1>5, <1>10
  <2> QED BY <1>1, <1>4, <2>1, <2>2
<1>11. ASSUME s.evident, base # None, foreign # {}, s.premium_currency # None
       PROVE \A n \in DOMAIN request.chains : request.chains[n].ccy = s.premium_currency
  <2>1. foreign = {s.premium_currency} BY <1>1, <1>2, <1>7, <1>11, OneForeign
  <2>2. base = Base[a] BY <1>2, <1>11
  <2>3. ~(Markets[a] \subseteq {Base[a]}) BY <1>3, <1>6, <1>11, <2>2
  <2>4. Base[a] \notin Traded(a) BY <1>6, <1>8, <2>3 DEF OneKindOfMarket
  <2>5. Traded(a) = foreign BY <1>3, <1>5, <1>11, <2>2, <2>4
  <2> QED BY <1>4, <2>1, <2>5
<1>12. s.evident /\ s.base_currency # None /\ s.premium_currency # None =>
         \A n \in DOMAIN s.chains : s.chains[n].ccy = s.premium_currency
  BY <1>1, <1>10, <1>11
<1>13. /\ s.yield # None => s.net_liquidation = NetLiq[s.account]
       /\ s.currency_mismatch => s.base_currency # None
       /\ ~s.currency_mismatch => s.premium_currency = s.base_currency
  BY <1>1, <1>9
<1>14. s.base_currency \in {Base[s.account], None} /\ s.net_liquidation \in {0, NetLiq[s.account]}
  BY <1>1, <1>2
<1> QED BY <1>1, <1>12, <1>13, <1>14 DEF Truthful, s, a, base, foreign

LEMMA AppendRange ==
  ASSUME NEW S, NEW q \in Seq(S), NEW e \in S PROVE Range(Append(q, e)) = Range(q) \cup {e}
<1> DEFINE r == Append(q, e)
<1>1. /\ DOMAIN q = 1..Len(q) /\ DOMAIN r = 1..(Len(q) + 1) /\ Len(q) \in Nat
      /\ \A n \in DOMAIN q : r[n] = q[n]
      /\ r[Len(q) + 1] = e
  OBVIOUS
<1> HIDE DEF r
<1>2. \A n \in DOMAIN r : n \in DOMAIN q \/ n = Len(q) + 1 BY <1>1
<1>3. (\A n \in DOMAIN q : n \in DOMAIN r) /\ Len(q) + 1 \in DOMAIN r BY <1>1
<1> QED BY <1>1, <1>2, <1>3 DEF Range, r

\* The request's knowledge, after any step of a premise-abiding household.
LEMMA KnowledgePreserved ==
  ASSUME OneKindOfMarket, IncomeInv, [Next]_vars
  PROVE ReadSoFar' /\ \A s \in Range(request'.summaries) : Truthful(s)
<1>0. TypeOK /\ TypeInv /\ BooksAgree /\ ReadSoFar /\ request \in Requests
      /\ \A s \in Range(request.summaries) : Truthful(s)
  BY RequestTyped DEF IncomeInv, TypeInv
<1>2. \A x \in Accounts : Traded(x) \subseteq Traded(x)'
  BY <1>0, TradesGrow DEF BooksAgree
<1>3. CASE UNCHANGED request
  <2>1. First' = First /\ request' = request BY <1>3 DEF First
  <2>2. request.step \in {"snapshot", "currencies"} => First \in Accounts
    BY <1>0, FirstIsAccount DEF TypeInv
  <2> QED BY <1>0, <1>2, <2>1, <2>2 DEF ReadSoFar
<1>4. ASSUME NEW scope, RequestStarts(scope) \/ RequestAnswers
      PROVE ReadSoFar' /\ \A s \in Range(request'.summaries) : Truthful(s)
  <2>1. /\ request'.step \in {"none", "chains"} /\ request'.snapshot = FALSE /\ request'.summaries = <<>>
    <3>1. \/ request' = [left |-> scope, step |-> "chains", chains |-> <<>>, withdrawn |-> <<>>,
                         snapshot |-> FALSE, summaries |-> <<>>]
          \/ request' = [left |-> <<>>, step |-> "none", chains |-> <<>>, withdrawn |-> <<>>,
                         snapshot |-> FALSE, summaries |-> <<>>]
      BY <1>4 DEF RequestStarts, RequestAnswers, Idle
    <3>2. CASE request' = [left |-> scope, step |-> "chains", chains |-> <<>>, withdrawn |-> <<>>,
                           snapshot |-> FALSE, summaries |-> <<>>]
      BY <3>2
    <3>3. CASE request' = [left |-> <<>>, step |-> "none", chains |-> <<>>, withdrawn |-> <<>>,
                           snapshot |-> FALSE, summaries |-> <<>>]
      BY <3>3
    <3> QED BY <3>1, <3>2, <3>3
  <2>2. Range(request'.summaries) = {} BY <2>1 DEF Range
  <2> QED BY <2>1, <2>2 DEF ReadSoFar
<1>5. CASE ReadsChains
  <2>1. request' = [request EXCEPT !.chains = chains[First], !.step = "snapshot"] /\ request.left # <<>>
    BY <1>5 DEF ReadsChains
  <2>2. /\ request'.chains = chains[First] /\ request'.step = "snapshot" /\ request'.left = request.left
        /\ request'.snapshot = request.snapshot /\ request'.summaries = request.summaries
    BY <1>0, <2>1 DEF Requests
  <2>3. First' = First /\ First \in Accounts BY <1>0, <2>1, <2>2, FirstIsAccount DEF First
  <2>4. \A n \in DOMAIN chains[First] : chains[First][n].ccy \in Traded(First)
    BY <1>0, <2>3 DEF BooksAgree
  <2> QED BY <1>0, <1>2, <2>2, <2>3, <2>4 DEF ReadSoFar
<1>6. CASE ReadsSnapshot
  <2>0. request.step = "snapshot" BY <1>6 DEF ReadsSnapshot
  <2>1. request' = [request EXCEPT !.withdrawn = overlay[First], !.snapshot = First \in polled,
                                   !.step = "currencies"]
    BY <1>6 DEF ReadsSnapshot
  <2>2. /\ request'.chains = request.chains /\ request'.step = "currencies" /\ request'.left = request.left
        /\ request'.snapshot = (First \in polled) /\ request'.summaries = request.summaries
    BY <1>0, <2>1 DEF Requests
  <2>3. First' = First /\ First \in Accounts
    BY <1>0, <2>0, <2>2, FirstIsAccount DEF First, TypeInv
  <2> QED BY <1>0, <1>2, <2>0, <2>2, <2>3 DEF ReadSoFar
<1>7. ASSUME NEW rated \in BOOLEAN, ReadsCurrencies(rated)
      PROVE ReadSoFar' /\ \A s \in Range(request'.summaries) : Truthful(s)
  <2> DEFINE new == Summary(First, StoredBase(First), ForeignCurrencies(First), rated)
  <2>0. request.step = "currencies" BY <1>7 DEF ReadsCurrencies
  <2>1. request' = [request EXCEPT !.summaries = Append(@, new), !.left = Tail(@), !.step = "chains",
                                   !.chains = <<>>, !.withdrawn = <<>>, !.snapshot = FALSE]
    BY <1>7 DEF ReadsCurrencies, ForeignCurrencies
  <2>2. First \in Accounts BY <1>0, <2>0, FirstIsAccount DEF TypeInv
  <2>3. Truthful(new) BY <1>0, <2>0, <2>2, NewSummary
  <2>4. new \in Summaries BY <2>3 DEF Truthful
  <2> HIDE DEF new
  <2>5. /\ request'.step = "chains" /\ request'.snapshot = FALSE
        /\ request'.summaries = Append(request.summaries, new)
    BY <1>0, <2>1 DEF Requests
  <2>6. Range(request'.summaries) = Range(request.summaries) \cup {new}
    <3>1. request.summaries \in Seq(Summaries) BY <1>0 DEF Requests
    <3> QED BY <2>4, <2>5, <3>1, AppendRange
  <2> QED BY <1>0, <2>3, <2>5, <2>6 DEF ReadSoFar
<1> QED BY <1>3, <1>4, <1>5, <1>6, <1>7, OtherSteps

LEMMA IncomeInductive == OneKindOfMarket /\ IncomeInv /\ [Next]_vars => IncomeInv'
<1> SUFFICES ASSUME OneKindOfMarket, IncomeInv, [Next]_vars PROVE IncomeInv' OBVIOUS
<1>1. TypeInv' BY TypePreserved DEF IncomeInv
<1>2. BooksAgree' BY BooksPreserved DEF IncomeInv, TypeInv
<1> QED BY <1>1, <1>2, KnowledgePreserved DEF IncomeInv

LEMMA InitIncome == Init => IncomeInv
<1> SUFFICES ASSUME Init PROVE IncomeInv OBVIOUS
<1>1. TypeInv BY InitTyped
<1>2. BooksAgree BY DEF Init, BooksAgree, Traded, TradeCurrencies
<1>3. request.step = "none" /\ request.snapshot = FALSE /\ request.summaries = <<>> BY DEF Init, Idle
<1>4. ReadSoFar BY <1>3 DEF ReadSoFar
<1>5. Range(request.summaries) = {} BY <1>3 DEF Range
<1> QED BY <1>1, <1>2, <1>4, <1>5 DEF IncomeInv

(***************************************************************************)
(* What the answers say.                                                   *)
(***************************************************************************)
LEMMA WorthNat == \A c \in Currencies : Worth[c] \in Nat BY ConstantsFit

\* The premium in the display currency of an account whose premium has one currency.
LEMMA PremiumIs ==
  ASSUME NEW s, Truthful(s), s.evident, s.base_currency # None, s.premium_currency # None
  PROVE /\ Premium(s) = s.all_time * Worth[s.premium_currency]
        /\ s.all_time \in Int /\ Worth[s.premium_currency] \in Nat
<1> DEFINE D == DOMAIN s.chains
           f == [n \in D |-> Counted(s.chains[n])]
           g == [n \in D |-> Counted(s.chains[n]) * Worth[s.chains[n].ccy]]
           w == Worth[s.premium_currency]
<1>1. s \in Summaries BY DEF Truthful
<1>2. s.chains \in Seq(Chain) /\ s.all_time \in Int /\ s.premium_currency \in Currencies
  BY <1>1 DEF Summaries
<1>3. IsFiniteSet(D) /\ \A n \in D : Counted(s.chains[n]) \in Int BY <1>2, ChainsCounted
<1>4. \A n \in D : s.chains[n].ccy = s.premium_currency BY DEF Truthful
<1>5. w \in Nat BY <1>2, WorthNat
<1>6. \A n \in D : f[n] \in Int /\ g[n] = f[n] * w BY <1>3, <1>4
<1>7. Premium(s) = SumFunctionOnSet(g, D) BY DEF Premium, SumOf, SumFunction
<1>8. s.all_time = SumFunctionOnSet(f, D) BY DEF Truthful, Earned
<1> HIDE DEF D, f, g, w
<1>9. w \in Int BY <1>5
<1>10. SumFunctionOnSet(g, D) = SumFunctionOnSet(f, D) * w BY <1>3, <1>6, <1>9, SumScaled
<1> QED BY <1>2, <1>5, <1>7, <1>8, <1>10 DEF w

LEMMA LiquidIs ==
  ASSUME NEW s, Truthful(s), s.base_currency # None
  PROVE /\ Liquid(s) = s.net_liquidation * Worth[s.base_currency]
        /\ s.net_liquidation \in Nat /\ Worth[s.base_currency] \in Nat
        /\ s.base_currency = Base[s.account] /\ s.base_currency \in Currencies
<1>1. s \in Summaries /\ s.base_currency = Base[s.account] BY DEF Truthful
<1>2. s.net_liquidation \in Nat /\ s.base_currency \in Currencies BY <1>1 DEF Summaries
<1> QED BY <1>1, <1>2, WorthNat DEF Liquid

LEMMA SwapFactors == \A x, y, w \in Int : x * (y * w) = y * (x * w)
<1>1. SUFFICES ASSUME NEW x \in Int, NEW y \in Int, NEW w \in Int PROVE x * (y * w) = y * (x * w) OBVIOUS
<1>2. x * (y * w) = (x * y) * w OBVIOUS
<1>3. y * (x * w) = (y * x) * w OBVIOUS
<1>4. x * y = y * x OBVIOUS
<1> QED BY <1>2, <1>3, <1>4

LEMMA YieldIsRight == IncomeInv => YieldInOneCurrency
<1> SUFFICES ASSUME IncomeInv, NEW s \in Range(request.summaries),
                    s.yield # None, s.base_currency # None, s.evident
             PROVE Equal(s.yield, Premium(s), Liquid(s))
  BY DEF YieldInOneCurrency
<1>1. Truthful(s) BY DEF IncomeInv
<1>2. s.net_liquidation = NetLiq[s.account] BY <1>1 DEF Truthful
<1> DEFINE all == s.all_time
           net == s.net_liquidation
           p == Worth[s.premium_currency]
           b == Worth[s.base_currency]
<1>3. Liquid(s) = net * b /\ net \in Int /\ b \in Int BY <1>1, <1>2, LiquidIs
<1>4. CASE ~s.currency_mismatch /\ s.yield = <<all, NetLiq[s.account]>>
  <2>1. s.premium_currency = s.base_currency BY <1>1, <1>2, <1>4 DEF Truthful
  <2>2. Premium(s) = all * b /\ all \in Int BY <1>1, <1>2, <2>1, PremiumIs
  <2>3. s.yield[1] = all /\ s.yield[2] = net BY <1>2, <1>4
  <2> HIDE DEF all, net, b
  <2>4. all * (net * b) = net * (all * b) BY <1>3, <2>2, SwapFactors
  <2> QED BY <1>3, <2>2, <2>3, <2>4 DEF Equal
<1>5. CASE s.premium_currency # None
           /\ s.yield = Ratio(all, s.premium_currency, NetLiq[s.account], s.base_currency)
  <2>1. Premium(s) = all * p /\ all \in Int /\ p \in Int BY <1>1, <1>2, <1>5, PremiumIs
  <2>2. s.yield[1] = all * p /\ s.yield[2] = net * b BY <1>2, <1>5 DEF Ratio
  <2> HIDE DEF all, net, b, p
  <2>3. \A x, y \in Int : x * y = y * x OBVIOUS
  <2>4. all * p \in Int /\ net * b \in Int BY <1>3, <2>1
  <2>5. (all * p) * (net * b) = (net * b) * (all * p) BY <2>3, <2>4
  <2> QED BY <1>3, <2>1, <2>2, <2>5 DEF Equal
<1> QED BY <1>1, <1>4, <1>5 DEF Truthful, SummaryYield

\* Whatever is traded, polled and rebuilt between the reads, a yield is in one currency.
THEOREM YieldIsInOneCurrency == ASSUME OneKindOfMarket PROVE Spec => []YieldInOneCurrency
<1>1. IncomeInv /\ [Next]_vars => IncomeInv' BY IncomeInductive
<1>2. Spec => []IncomeInv BY <1>1, InitIncome, PTL DEF Spec
<1> QED BY <1>2, YieldIsRight, PTL

\* Two elements of a set that has at most one are the same.
LEMMA AtMostOne ==
  ASSUME NEW S, IsFiniteSet(S), ~(Cardinality(S) > 1), NEW x \in S, NEW y \in S PROVE x = y
<1>1. Cardinality(S) \in Nat BY FS_CardinalityType
<1>2. Cardinality(S) # 0 BY FS_EmptySet
<1>3. Cardinality(S) = 1 BY <1>1, <1>2
<1>4. PICK z : S = {z} BY <1>3, FS_Singleton
<1> QED BY <1>4

\* What a unit of a currency counts in a combined answer.
Factor(sums, rates, c) == IF Convertible(sums, rates) /\ c # None THEN Worth[c] ELSE 1

Mixed(sums) ==
  \/ \E s \in sums : s.currency_mismatch
  \/ Cardinality(Known({s.base_currency : s \in sums})) > 1
  \/ Cardinality(Known({s.premium_currency : s \in sums})) > 1

AllTimeOf(sums, rates) ==
  SumFunctionOnSet([s \in sums |-> s.all_time * Factor(sums, rates, s.premium_currency)], sums)
TakenOf(sums, rates) ==
  SumFunctionOnSet([s \in sums |-> s.withdrawn * Factor(sums, rates, s.base_currency)], sums)
NetOf(sums, rates) ==
  SumFunctionOnSet([s \in sums |-> s.net_liquidation * Factor(sums, rates, s.base_currency)], sums)

LEMMA CombinedIs ==
  ASSUME NEW sums, NEW rates
  PROVE Combined(sums, rates) =
          [all_time |-> AllTimeOf(sums, rates),
           remaining |-> AllTimeOf(sums, rates) - TakenOf(sums, rates),
           display_currency |-> IF Convertible(sums, rates) THEN Display ELSE None,
           yield |-> IF NetOf(sums, rates) # 0 /\ (Convertible(sums, rates) \/ ~Mixed(sums))
                     THEN <<AllTimeOf(sums, rates), NetOf(sums, rates)>> ELSE None]
BY DEF Combined, AllTimeOf, TakenOf, NetOf, Mixed, Factor, SumOf, SumFunction

\* A household whose trades named their currencies, where its bases are stored.
Household(sums) ==
  /\ IsFiniteSet(sums)
  /\ \A s \in sums : Truthful(s) /\ (s.base_currency # None => s.evident)

PremiumOf(sums) == SumFunctionOnSet([s \in sums |-> PremiumTaken(s)], sums)
LiquidOf(sums)  == SumFunctionOnSet([s \in sums |-> LiquidTaken(s)], sums)
TakenIn(sums)   == SumFunctionOnSet([s \in sums |-> WithdrawalTaken(s)], sums)

\* Without an ambiguous premium every account's has a currency.
LEMMA Unambiguous ==
  ASSUME NEW s, Truthful(s), s.base_currency # None, ~s.premium_ambiguous
  PROVE s.premium_currency # None
<1>1. CASE s.currency_mismatch BY <1>1 DEF Truthful
<1>2. CASE ~s.currency_mismatch BY <1>2 DEF Truthful
<1> QED BY <1>1, <1>2

\* Of an account without a base currency, no currency is known.
LEMMA Unknown ==
  ASSUME NEW s, Truthful(s), s.base_currency = None
  PROVE /\ s.premium_currency = None /\ PremiumTaken(s) = s.all_time
        /\ LiquidTaken(s) = s.net_liquidation /\ WithdrawalTaken(s) = s.withdrawn * 1
        /\ s.all_time \in Int /\ s.net_liquidation \in Nat
<1>1. s \in Summaries /\ s.premium_currency = None BY DEF Truthful
<1> QED BY <1>1 DEF PremiumTaken, LiquidTaken, WithdrawalTaken, Summaries

\* With all rates known, every amount is converted from the currency it was in.
LEMMA AllConverted ==
  ASSUME NEW sums, NEW rates, Household(sums), Convertible(sums, rates)
  PROVE /\ AllTimeOf(sums, rates) = PremiumOf(sums)
        /\ TakenOf(sums, rates) = TakenIn(sums)
        /\ NetOf(sums, rates) = LiquidOf(sums)
        /\ PremiumOf(sums) \in Int /\ LiquidOf(sums) \in Int
<1>0. IsFiniteSet(sums) BY DEF Household
<1>1. ASSUME NEW s \in sums
      PROVE /\ s.all_time * Factor(sums, rates, s.premium_currency) = PremiumTaken(s)
            /\ s.withdrawn * Factor(sums, rates, s.base_currency) = WithdrawalTaken(s)
            /\ s.net_liquidation * Factor(sums, rates, s.base_currency) = LiquidTaken(s)
            /\ PremiumTaken(s) \in Int /\ LiquidTaken(s) \in Int
  <2>1. Truthful(s) /\ ~s.premium_ambiguous BY DEF Household, Convertible
  <2>2. CASE s.base_currency # None
    <3>1. s.premium_currency # None /\ s.evident BY <2>1, <2>2, Unambiguous DEF Household
    <3>2. /\ Factor(sums, rates, s.premium_currency) = Worth[s.premium_currency]
          /\ Factor(sums, rates, s.base_currency) = Worth[s.base_currency]
      BY <2>2, <3>1 DEF Factor
    <3>3. /\ Premium(s) = s.all_time * Worth[s.premium_currency]
          /\ s.all_time \in Int /\ Worth[s.premium_currency] \in Nat
      BY <2>1, <2>2, <3>1, PremiumIs
    <3>4. /\ Liquid(s) = s.net_liquidation * Worth[s.base_currency]
          /\ s.net_liquidation \in Nat /\ Worth[s.base_currency] \in Nat
          /\ s.base_currency = Base[s.account]
      BY <2>1, <2>2, LiquidIs
    <3>5. PremiumTaken(s) = Premium(s) /\ LiquidTaken(s) = Liquid(s)
          /\ WithdrawalTaken(s) = s.withdrawn * Worth[Base[s.account]]
      BY <2>2 DEF PremiumTaken, LiquidTaken, WithdrawalTaken
    <3> QED BY <3>2, <3>3, <3>4, <3>5
  <2>3. CASE s.base_currency = None
    <3>1. /\ s.premium_currency = None /\ PremiumTaken(s) = s.all_time
          /\ LiquidTaken(s) = s.net_liquidation /\ WithdrawalTaken(s) = s.withdrawn * 1
          /\ s.all_time \in Int /\ s.net_liquidation \in Nat
      BY <2>1, <2>3, Unknown
    <3>2. Factor(sums, rates, s.premium_currency) = 1 /\ Factor(sums, rates, s.base_currency) = 1
      BY <2>3, <3>1 DEF Factor
    <3> QED BY <3>1, <3>2
  <2> QED BY <2>2, <2>3
<1>2. AllTimeOf(sums, rates) = PremiumOf(sums) BY <1>0, <1>1, SumAgrees DEF AllTimeOf, PremiumOf
<1>3. TakenOf(sums, rates) = TakenIn(sums) BY <1>0, <1>1, SumAgrees DEF TakenOf, TakenIn
<1>4. NetOf(sums, rates) = LiquidOf(sums) BY <1>0, <1>1, SumAgrees DEF NetOf, LiquidOf
<1>5. PremiumOf(sums) \in Int BY <1>0, <1>1, SumInt DEF PremiumOf
<1>6. LiquidOf(sums) \in Int BY <1>0, <1>1, SumInt DEF LiquidOf
<1> QED BY <1>2, <1>3, <1>4, <1>5, <1>6

LEMMA KnownFinite ==
  ASSUME NEW S, IsFiniteSet(S), NEW f PROVE IsFiniteSet(Known({f[s] : s \in S}))
<1> DEFINE g == [s \in S |-> f[s]]
           T == {f[s] : s \in S}
<1>1. g \in Surjection(S, T) BY DEF Surjection
<1> HIDE DEF g, T
<1>2. IsFiniteSet(T) BY <1>1, FS_Surjection
<1> QED BY <1>2, FS_Subset DEF Known, T

\* Without conversion, and nothing mixed, everything is in one currency.
LEMMA OneCurrency ==
  ASSUME NEW sums, NEW rates, Household(sums), ~Convertible(sums, rates), ~Mixed(sums), sums # {},
         \A s \in sums : s.base_currency # None
  PROVE \E w \in Int : /\ PremiumOf(sums) = AllTimeOf(sums, rates) * w
                       /\ LiquidOf(sums) = NetOf(sums, rates) * w
                       /\ AllTimeOf(sums, rates) \in Int /\ NetOf(sums, rates) \in Int
<1>0. IsFiniteSet(sums) BY DEF Household
<1> DEFINE bases == Known({s.base_currency : s \in sums})
<1>1. IsFiniteSet(bases)
  <2> DEFINE f == [s \in sums |-> s.base_currency]
  <2>1. {f[s] : s \in sums} = {s.base_currency : s \in sums} OBVIOUS
  <2>2. IsFiniteSet(Known({f[s] : s \in sums})) BY <1>0, KnownFinite
  <2> QED BY <2>1, <2>2
<1>2. PICK one \in sums : TRUE OBVIOUS
<1>3. \A s \in sums : s.base_currency \in bases BY DEF Household, Known
<1>4. ~(Cardinality(bases) > 1) BY DEF Mixed
<1> DEFINE b == one.base_currency
           w == Worth[b]
<1>5. \A s \in sums : s.base_currency = b
  <2>1. b \in bases BY <1>3
  <2> HIDE DEF bases, b
  <2> QED BY <1>1, <1>3, <1>4, <2>1, AtMostOne
<1>6. ASSUME NEW s \in sums
      PROVE /\ PremiumTaken(s) = s.all_time * w /\ LiquidTaken(s) = s.net_liquidation * w
            /\ s.all_time \in Int /\ s.net_liquidation \in Int
            /\ s.all_time * Factor(sums, rates, s.premium_currency) = s.all_time
            /\ s.net_liquidation * Factor(sums, rates, s.base_currency) = s.net_liquidation
            /\ w \in Int
  <2>1. Truthful(s) /\ s.base_currency # None /\ s.evident BY DEF Household
  <2>2. ~s.currency_mismatch BY DEF Mixed
  <2>3. s.base_currency = b /\ s.premium_currency = b BY <1>5, <2>1, <2>2 DEF Truthful
  <2>4. Premium(s) = s.all_time * w /\ s.all_time \in Int /\ w \in Nat BY <2>1, <2>3, PremiumIs
  <2>5. Liquid(s) = s.net_liquidation * w /\ s.net_liquidation \in Nat BY <2>1, <2>3, LiquidIs
  <2>6. Factor(sums, rates, s.premium_currency) = 1 /\ Factor(sums, rates, s.base_currency) = 1 BY DEF Factor
  <2>7. PremiumTaken(s) = Premium(s) /\ LiquidTaken(s) = Liquid(s)
    BY <2>1 DEF PremiumTaken, LiquidTaken
  <2> HIDE DEF b, w
  <2> QED BY <2>4, <2>5, <2>6, <2>7
<1>7. w \in Int BY <1>2, <1>6
<1> DEFINE P == [s \in sums |-> PremiumTaken(s)]
           L == [s \in sums |-> LiquidTaken(s)]
           A == [s \in sums |-> s.all_time * Factor(sums, rates, s.premium_currency)]
           N == [s \in sums |-> s.net_liquidation * Factor(sums, rates, s.base_currency)]
<1>8. \A s \in sums : /\ A[s] \in Int /\ P[s] = A[s] * w
                      /\ N[s] \in Int /\ L[s] = N[s] * w
  <2> HIDE DEF w
  <2> QED BY <1>6
<1>9. /\ PremiumOf(sums) = SumFunctionOnSet(P, sums) /\ LiquidOf(sums) = SumFunctionOnSet(L, sums)
      /\ AllTimeOf(sums, rates) = SumFunctionOnSet(A, sums) /\ NetOf(sums, rates) = SumFunctionOnSet(N, sums)
  BY DEF PremiumOf, LiquidOf, AllTimeOf, NetOf
<1> HIDE DEF P, L, A, N, w
<1>10. SumFunctionOnSet(P, sums) = SumFunctionOnSet(A, sums) * w BY <1>0, <1>7, <1>8, SumScaled
<1>11. SumFunctionOnSet(L, sums) = SumFunctionOnSet(N, sums) * w BY <1>0, <1>7, <1>8, SumScaled
<1>12. SumFunctionOnSet(A, sums) \in Int /\ SumFunctionOnSet(N, sums) \in Int BY <1>0, <1>8, SumInt
<1> QED BY <1>7, <1>9, <1>10, <1>11, <1>12

LEMMA HouseholdIsRight == IncomeInv => HouseholdInOneCurrency
<1> DEFINE sums == Range(request.summaries)
<1> DEFINE BasesKnown == \A s \in sums : s.base_currency # None
<1> SUFFICES ASSUME IncomeInv, Cardinality(sums) > 1,
                    \A s \in sums : s.base_currency # None => s.evident,
                    NEW found \in SUBSET Currencies
             PROVE LET answer == Answers(found)
                   IN  /\ answer.display_currency # None =>
                            answer.all_time = PremiumOf(sums) /\ answer.remaining = PremiumOf(sums) - TakenIn(sums)
                       /\ answer.yield # None /\ (answer.display_currency # None \/ BasesKnown)
                            => Equal(answer.yield, PremiumOf(sums), LiquidOf(sums))
  BY DEF HouseholdInOneCurrency, PremiumOf, LiquidOf, TakenIn, SumOf, SumFunction
<1> DEFINE rates  == found \cup {Display}
           answer == Answers(found)
<1>1. Household(sums)
  <2>1. request.summaries \in Seq(Summaries) BY DEF IncomeInv, TypeInv, TypeOK
  <2>2. DOMAIN request.summaries = 1..Len(request.summaries) /\ Len(request.summaries) \in Nat BY <2>1
  <2>3. request.summaries \in Surjection(DOMAIN request.summaries, sums)
    <3>1. request.summaries \in [DOMAIN request.summaries -> sums] BY <2>1 DEF Range
    <3> QED BY <3>1 DEF Surjection, Range
  <2>4. IsFiniteSet(DOMAIN request.summaries) BY <2>2, FS_Interval
  <2> HIDE DEF sums
  <2>5. IsFiniteSet(sums) BY <2>3, <2>4, FS_Surjection
  <2> QED BY <2>5 DEF Household, IncomeInv, sums
<1>2. sums # {} BY FS_EmptySet
<1>3. answer = [all_time |-> AllTimeOf(sums, rates),
                remaining |-> AllTimeOf(sums, rates) - TakenOf(sums, rates),
                display_currency |-> IF Convertible(sums, rates) THEN Display ELSE None,
                yield |-> IF NetOf(sums, rates) # 0 /\ (Convertible(sums, rates) \/ ~Mixed(sums))
                          THEN <<AllTimeOf(sums, rates), NetOf(sums, rates)>> ELSE None]
  BY CombinedIs DEF Answers
<1> DEFINE all == AllTimeOf(sums, rates)
           net == NetOf(sums, rates)
<1>4. /\ answer.all_time = all /\ answer.remaining = all - TakenOf(sums, rates)
      /\ answer.display_currency # None => Convertible(sums, rates)
      /\ answer.yield # None =>
           /\ Convertible(sums, rates) \/ ~Mixed(sums)
           /\ answer.yield[1] = all /\ answer.yield[2] = net
  BY <1>3
<1> HIDE DEF sums, rates, answer
<1>5. CASE Convertible(sums, rates)
  <2>1. /\ all = PremiumOf(sums) /\ TakenOf(sums, rates) = TakenIn(sums) /\ net = LiquidOf(sums)
        /\ PremiumOf(sums) \in Int /\ LiquidOf(sums) \in Int
    BY <1>1, <1>5, AllConverted
  <2> HIDE DEF all, net
  <2>2. \A x, y \in Int : x * y = y * x OBVIOUS
  <2> QED BY <1>4, <2>1, <2>2 DEF Equal, answer
<1>6. CASE ~Convertible(sums, rates)
  <2>1. SUFFICES ASSUME answer.yield # None, BasesKnown PROVE Equal(answer.yield, PremiumOf(sums), LiquidOf(sums))
    BY <1>4, <1>6 DEF answer
  <2>2. ~Mixed(sums) BY <1>4, <1>6, <2>1
  <2>3. PICK w \in Int : /\ PremiumOf(sums) = all * w /\ LiquidOf(sums) = net * w
                         /\ all \in Int /\ net \in Int
    BY <1>1, <1>2, <1>6, <2>1, <2>2, OneCurrency
  <2> HIDE DEF all, net
  <2>4. all * (net * w) = net * (all * w) BY <2>3, SwapFactors
  <2> QED BY <1>4, <2>1, <2>3, <2>4 DEF Equal
<1> QED BY <1>5, <1>6

\* Whichever rates are missing, the household's figures do not mix currencies.
THEOREM HouseholdIsInOneCurrency == ASSUME OneKindOfMarket PROVE Spec => []HouseholdInOneCurrency
<1>1. IncomeInv /\ [Next]_vars => IncomeInv' BY IncomeInductive
<1>2. Spec => []IncomeInv BY <1>1, InitIncome, PTL DEF Spec
<1> QED BY <1>2, HouseholdIsRight, PTL
=============================================================================
