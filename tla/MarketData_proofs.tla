------------------------- MODULE MarketData_proofs -------------------------
(* Proofs about what the backend fetches from the market: FxRates, Pollers  *)
(* and PriceFeed.  The modules share no variable; one lemma serves two.     *)
EXTENDS FxRates, Pollers, PriceFeed, WellFoundedInduction, TLAPS

\* Induction on numbers, by a least counterexample.
LEMMA LeastNat ==
  ASSUME NEW T, T \subseteq Nat, T # {}
  PROVE \E m \in T : \A t \in T : m <= t
<1>1. \E m \in T : \A t \in T : ~(<<t, m>> \in OpToRel(<, Nat))
  BY NatLessThanWellFounded, WFMin
<1>2. ASSUME NEW m \in T, NEW t \in T, ~(m <= t) PROVE <<t, m>> \in OpToRel(<, Nat)
  BY <1>2 DEF OpToRel
<1> QED BY <1>1, <1>2

-----------------------------------------------------------------------------
(* FxRates: the rates' cache, for any pairs, requests and time to live.    *)

LEMMA OlderType == \A n \in Ages : Older(n) \in Ages
BY TTLPositive DEF Older, Ages

\* An age that has reached TTL stays there, and the order of two ages is kept.
LEMMA OlderMonotone ==
  ASSUME NEW m \in Ages, NEW n \in Ages, m <= n PROVE Older(m) <= Older(n)
BY TTLPositive DEF Older, Ages

Replies == [pair : Pairs \cup {None}, label : {"ibkr", "public", "cache", None},
            age : Ages, inverted : BOOLEAN]

\* What get_rate answers without a fetch is a reply.
LEMMA FallbackType ==
  ASSUME TypeOK, NEW p \in Pairs PROVE Fallback(p) \in Replies
<1> DEFINE q == Opposite[p]
<1>1. q \in Pairs BY InverseIsPair
<1>2. TTL \in Ages BY TTLPositive DEF Ages
<1>3. CASE source[q] # None
  <2>1. Fallback(p) = [pair |-> p, label |-> source[q], age |-> age[q], inverted |-> TRUE]
    BY <1>3 DEF Fallback
  <2> QED BY <1>1, <2>1 DEF TypeOK, Replies
<1>4. CASE source[q] = None /\ source[p] # None
  <2>1. Fallback(p) = [pair |-> p, label |-> "cache", age |-> age[p], inverted |-> FALSE]
    BY <1>4 DEF Fallback, Direct
  <2> QED BY <2>1 DEF TypeOK, Replies
<1>5. CASE source[q] = None /\ source[p] = None
  <2>1. Fallback(p) = [pair |-> p, label |-> None, age |-> TTL, inverted |-> FALSE]
    BY <1>5 DEF Fallback, NoReply
  <2> QED BY <1>2, <2>1 DEF Replies
<1> QED BY <1>3, <1>4, <1>5

(***************************************************************************)
(* Types.                                                                  *)
(***************************************************************************)
LEMMA StoresType ==
  ASSUME TypeOK, NEW c \in Callers, asking[c] # None,
         NEW name \in {"ibkr", "public"}, Stores(c, name)
  PROVE TypeOK'
<1>1. asking[c] \in Pairs BY DEF TypeOK
<1>2. 0 \in Ages /\ TTL \in Ages BY TTLPositive DEF Ages
<1>3. reply' = [pair |-> asking[c], label |-> name, age |-> 0, inverted |-> FALSE]
  BY DEF Stores
<1>4. reply' \in Replies BY <1>1, <1>2, <1>3 DEF Replies
<1> QED BY <1>1, <1>2, <1>4 DEF TypeOK, Stores, Replies

LEMMA RateTypePreserved == TypeOK /\ [Next]_vars => TypeOK'
<1> SUFFICES ASSUME TypeOK, [Next]_vars PROVE TypeOK' OBVIOUS
<1>0. 0 \in Ages /\ TTL \in Ages BY TTLPositive DEF Ages
<1>1. CASE Tick BY <1>1, OlderType DEF TypeOK, Tick
<1>2. CASE Restarts BY <1>0, <1>2 DEF TypeOK, Restarts
<1>3. ASSUME NEW c \in Callers, NEW p \in Pairs, AnswersFresh(c, p) PROVE TypeOK'
  <2>1. reply' = [pair |-> p, label |-> source[p], age |-> age[p], inverted |-> FALSE]
    BY <1>3 DEF AnswersFresh, Direct
  <2>2. reply' \in Replies BY <2>1 DEF TypeOK, Replies
  <2> QED BY <1>3, <2>2 DEF TypeOK, AnswersFresh, Replies
<1>4. ASSUME NEW c \in Callers, NEW p \in Pairs, AnswersThrottled(c, p) PROVE TypeOK'
  <2>1. reply' \in Replies BY <1>4, FallbackType DEF AnswersThrottled
  <2> QED BY <1>4, <2>1 DEF TypeOK, AnswersThrottled, Replies
<1>5. ASSUME NEW c \in Callers, NEW p \in Pairs, FetchStarts(c, p) PROVE TypeOK'
  BY <1>0, <1>5 DEF TypeOK, FetchStarts, Feeds
<1>6. ASSUME NEW c \in Callers, IbkrAnswers(c) PROVE TypeOK'
  BY <1>6, StoresType DEF IbkrAnswers, Idle
<1>7. ASSUME NEW c \in Callers, IbkrFails(c) PROVE TypeOK'
  BY <1>7 DEF TypeOK, IbkrFails, Feeds
<1>8. ASSUME NEW c \in Callers, SemaphoreTaken(c) PROVE TypeOK'
  BY <1>8 DEF TypeOK, SemaphoreTaken, Feeds
<1>9. ASSUME NEW c \in Callers, YahooAnswers(c) PROVE TypeOK'
  BY <1>9, StoresType DEF YahooAnswers, Idle
<1>10. ASSUME NEW c \in Callers, YahooFails(c) PROVE TypeOK'
  <2>1. asking[c] \in Pairs BY <1>10 DEF TypeOK, YahooFails, Idle
  <2>2. reply' \in Replies BY <1>10, <2>1, FallbackType DEF YahooFails
  <2> QED BY <1>0, <1>10, <2>2 DEF TypeOK, YahooFails, Replies
<1>11. CASE UNCHANGED vars BY <1>11 DEF TypeOK, vars
<1> QED BY <1>1, <1>2, <1>3, <1>4, <1>5, <1>6, <1>7, <1>8, <1>9, <1>10, <1>11 DEF Next

LEMMA RateInitType == Init => TypeOK
<1> SUFFICES ASSUME Init PROVE TypeOK OBVIOUS
<1>1. TTL \in Ages BY TTLPositive DEF Ages
<1>2. reply = [pair |-> None, label |-> None, age |-> TTL, inverted |-> FALSE]
  BY DEF Init, NoReply
<1>3. reply \in Replies BY <1>1, <1>2 DEF Replies
<1> QED BY <1>1, <1>3 DEF Init, TypeOK, Feeds, Replies

\* The rates' cache keeps its types, whatever the pairs, the callers and the time
\* to live.
THEOREM RateTypeCorrect == Spec => []TypeOK
BY RateInitType, RateTypePreserved, PTL DEF Spec

(***************************************************************************)
(* Fetches of one pair.                                                    *)
(***************************************************************************)
\* A fetch never started before the last stamp of its pair.
Stamped == \A c \in Callers : asking[c] # None => tried[asking[c]] <= since[c]

SpacingInv == TypeOK /\ Stamped /\ FetchesSpaced

\* The end of a fetch disturbs nobody else's.
LEMMA FetchEnds ==
  ASSUME SpacingInv, NEW c \in Callers,
         asking' = [asking EXCEPT ![c] = None], since' = [since EXCEPT ![c] = TTL], tried' = tried
  PROVE Stamped' /\ FetchesSpaced'
BY DEF SpacingInv, TypeOK, Stamped, FetchesSpaced

LEMMA SpacingPreserved == SpacingInv /\ [Next]_vars => SpacingInv'
<1> SUFFICES ASSUME SpacingInv, [Next]_vars PROVE Stamped' /\ FetchesSpaced'
  BY RateTypePreserved DEF SpacingInv
<1>1. CASE Tick
  <2>1. Stamped'
    <3> SUFFICES ASSUME NEW c \in Callers, asking[c] # None
                 PROVE tried'[asking[c]] <= since'[c]
      BY <1>1 DEF Stamped, Tick
    <3>1. /\ asking[c] \in Pairs /\ tried[asking[c]] \in Ages /\ since[c] \in Ages
          /\ tried[asking[c]] <= since[c]
      BY DEF SpacingInv, TypeOK, Stamped
    <3>2. tried'[asking[c]] = Older(tried[asking[c]]) /\ since'[c] = Older(since[c])
      BY <1>1, <3>1 DEF Tick
    <3> QED BY <3>1, <3>2, OlderMonotone
  <2>2. FetchesSpaced'
    <3>1. \A c \in Callers : since[c] = TTL => since'[c] = TTL
      BY <1>1, TTLPositive DEF Tick, Older
    <3> QED BY <1>1, <3>1 DEF SpacingInv, FetchesSpaced, Tick
  <2> QED BY <2>1, <2>2
<1>2. CASE Restarts BY <1>2 DEF Restarts, Stamped, FetchesSpaced
<1>3. ASSUME NEW c \in Callers, NEW p \in Pairs, FetchStarts(c, p) PROVE Stamped' /\ FetchesSpaced'
  <2>1. \A d \in Callers : asking[d] = p => since[d] = TTL
    BY <1>3, NoneIsNoPair, TTLPositive DEF SpacingInv, TypeOK, Stamped, FetchStarts, Ages
  <2>2. \A d \in Callers \ {c} : asking'[d] = asking[d] /\ since'[d] = since[d]
    BY <1>3 DEF FetchStarts, SpacingInv, TypeOK
  <2>3. asking'[c] = p /\ since'[c] = 0
    BY <1>3 DEF FetchStarts, SpacingInv, TypeOK
  <2>4. tried'[p] = 0 /\ \A r \in Pairs \ {p} : tried'[r] = tried[r]
    BY <1>3 DEF FetchStarts, SpacingInv, TypeOK
  <2>5. Stamped'
    BY <2>1, <2>2, <2>3, <2>4, TTLPositive DEF Stamped, SpacingInv, TypeOK, Ages
  <2>6. FetchesSpaced'
    BY <2>1, <2>2, <2>3 DEF FetchesSpaced, SpacingInv
  <2> QED BY <2>5, <2>6
<1>4. ASSUME NEW c \in Callers, IbkrAnswers(c) \/ YahooAnswers(c) \/ YahooFails(c)
      PROVE Stamped' /\ FetchesSpaced'
  BY <1>4, FetchEnds DEF IbkrAnswers, YahooAnswers, YahooFails, Stores
<1>5. ASSUME UNCHANGED <<asking, tried, since>> PROVE Stamped' /\ FetchesSpaced'
  BY <1>5 DEF SpacingInv, Stamped, FetchesSpaced
<1> QED
  BY <1>1, <1>2, <1>3, <1>4, <1>5
  DEF Next, vars, AnswersFresh, AnswersThrottled, IbkrFails, SemaphoreTaken

\* Two calls fetch one pair at once only when the earlier has waited for a whole
\* time to live, for any number of callers: get_rate stamps before it awaits.
THEOREM Spacing == Spec => []FetchesSpaced
<1>1. Init => SpacingInv
  <2>1. Init => Stamped /\ FetchesSpaced BY DEF Init, Stamped, FetchesSpaced
  <2> QED BY <2>1, RateInitType DEF SpacingInv
<1>2. SpacingInv => FetchesSpaced BY DEF SpacingInv
<1> QED BY <1>1, <1>2, SpacingPreserved, PTL DEF Spec

(***************************************************************************)
(* What an answer says.                                                    *)
(***************************************************************************)
\* An answer without a fetch is the other direction's, is flagged, or is none, and
\* is none only when neither direction was ever stored.
LEMMA FallbackAnswers ==
  ASSUME TypeOK, NEW p \in Pairs
  PROVE /\ Fallback(p).pair = p
        /\ Fallback(p).inverted \/ Fallback(p).label \in {"cache", None}
        /\ Fallback(p).label = None => source[p] = None /\ source[Opposite[p]] = None
<1> DEFINE q == Opposite[p]
<1>1. CASE source[q] # None BY <1>1 DEF Fallback
<1>2. CASE source[q] = None /\ source[p] # None BY <1>2, NoneIsNoPair DEF Fallback, Direct
<1>3. CASE source[q] = None /\ source[p] = None BY <1>3 DEF Fallback, NoReply
<1> QED BY <1>1, <1>2, <1>3

\* A fetched rate is labelled by its feed and is new.
LEMMA StoresAnswers ==
  ASSUME NEW c \in Callers, NEW name \in {"ibkr", "public"}, Stores(c, name)
  PROVE reply'.label = name /\ reply'.age = 0
BY DEF Stores

\* A fresh rate is labelled by its feed and younger than the time to live.
LEMMA FreshAnswers ==
  ASSUME NEW c \in Callers, NEW p \in Pairs, AnswersFresh(c, p)
  PROVE reply'.label = source[p] /\ source[p] # None /\ reply'.age < TTL
BY DEF AnswersFresh, Direct, Fresh

\* A rate that is not flagged "cache" and is not the other direction's is never
\* older than the time to live, whatever failed on the way.
THEOREM Flagged == Spec => []StaleIsFlagged
<1>1. Init => StaleIsFlagged
  BY NoneIsNoPair DEF Init, StaleIsFlagged, NoReply
<1>2. TypeOK /\ StaleIsFlagged /\ [Next]_vars => StaleIsFlagged'
  <2> SUFFICES ASSUME TypeOK, StaleIsFlagged, [Next]_vars PROVE StaleIsFlagged' OBVIOUS
  <2>1. ASSUME NEW c \in Callers, NEW p \in Pairs, AnswersFresh(c, p) PROVE StaleIsFlagged'
    BY <2>1, FreshAnswers DEF StaleIsFlagged
  <2>2. ASSUME NEW p \in Pairs, reply' = Fallback(p) PROVE StaleIsFlagged'
    <3>1. reply'.inverted \/ reply'.label \in {"cache", None} BY <2>2, FallbackAnswers
    <3> QED BY <3>1, NoneIsNoPair DEF StaleIsFlagged
  <2>3. ASSUME NEW c \in Callers, NEW name \in {"ibkr", "public"}, Stores(c, name)
        PROVE StaleIsFlagged'
    BY <2>3, StoresAnswers, TTLPositive DEF StaleIsFlagged
  <2>4. ASSUME NEW c \in Callers, YahooFails(c) PROVE StaleIsFlagged'
    <3>1. asking[c] \in Pairs BY <2>4 DEF TypeOK, YahooFails, Idle
    <3> QED BY <2>2, <2>4, <3>1 DEF YahooFails
  <2>5. CASE UNCHANGED reply BY <2>5 DEF StaleIsFlagged
  <2> QED
    BY <2>1, <2>2, <2>3, <2>4, <2>5
    DEF Next, vars, Tick, Restarts, AnswersThrottled, FetchStarts, IbkrAnswers, IbkrFails,
        SemaphoreTaken, YahooAnswers
<1> QED BY <1>1, <1>2, RateTypeCorrect, PTL DEF Spec

\* A call answers without a rate only if neither direction of its pair was ever
\* stored since the start, for any number of callers and any failures.
THEOREM Unsuppressed == Spec => NeverSuppressed
<1> DEFINE Says(p) == reply' # reply /\ reply'.pair = p /\ reply'.label = None
                        => source[p] = None /\ source[Opposite[p]] = None
<1>1. TypeOK /\ [Next]_vars => [\A p \in Pairs : Says(p)]_vars
  <2> SUFFICES ASSUME TypeOK, Next, NEW p \in Pairs PROVE Says(p) OBVIOUS
  <2>1. ASSUME NEW c \in Callers, NEW r \in Pairs, AnswersFresh(c, r) PROVE Says(p)
    BY <2>1, FreshAnswers
  <2>2. ASSUME NEW r \in Pairs, reply' = Fallback(r) PROVE Says(p)
    BY <2>2, FallbackAnswers
  <2>3. ASSUME NEW c \in Callers, NEW name \in {"ibkr", "public"}, Stores(c, name)
        PROVE Says(p)
    BY <2>3, StoresAnswers, NoneIsNoPair
  <2>4. ASSUME NEW c \in Callers, YahooFails(c) PROVE Says(p)
    <3>1. asking[c] \in Pairs BY <2>4 DEF TypeOK, YahooFails, Idle
    <3> QED BY <2>2, <2>4, <3>1 DEF YahooFails
  <2>5. CASE UNCHANGED reply BY <2>5
  <2> QED
    BY <2>1, <2>2, <2>3, <2>4, <2>5
    DEF Next, Tick, Restarts, AnswersThrottled, FetchStarts, IbkrAnswers, IbkrFails,
        SemaphoreTaken, YahooAnswers
<1> QED BY <1>1, RateTypeCorrect, PTL DEF Spec, NeverSuppressed

-----------------------------------------------------------------------------
(* Pollers: positions and the burst, for any registry and contracts.       *)

\* A step that leaves the timer alone, re-arms it, or is one of its own three.
LEMMA TimerSteps ==
  ASSUME [PollNext]_pollVars
  PROVE UNCHANGED timer \/ RearmBurst \/ SettleFires \/ SettleMisfires \/ SettleJob
<1>1. ASSUME NEW a \in Registered, NEW c \in Contracts, Opens(a, c) \/ Closes(a, c)
      PROVE UNCHANGED timer
  BY <1>1 DEF Opens, Closes
<1>2. ASSUME NEW a \in Registered, Clears(a) \/ PullFetches(a) \/ PullRaises(a) \/ LogsOut(a)
      PROVE UNCHANGED timer
  BY <1>2 DEF Clears, PullFetches, PullRaises, LogsOut
<1>3. ASSUME NEW a \in Registered, PullStores(a) PROVE RearmBurst
  BY <1>3 DEF PullStores
<1>4. CASE PollStarts \/ PollFetches \/ PollFails \/ PollStores
  BY <1>4 DEF PollStarts, PollFetches, PollFails, PollStores
<1>5. CASE UNCHANGED pollVars BY <1>5 DEF pollVars, timer
<1> QED BY <1>1, <1>2, <1>3, <1>4, <1>5 DEF PollNext

\* No interleaving of logins, the timer, its misfires and its thread leaves the
\* job in burst without a settle to come, but for a misfire since the last login.
THEOREM Settles == PollSpec => []BurstIsTimed
<1>1. PollInit => BurstIsTimed BY DEF PollInit, BurstIsTimed
<1>2. BurstIsTimed /\ [PollNext]_pollVars => BurstIsTimed'
  <2> SUFFICES ASSUME BurstIsTimed, [PollNext]_pollVars PROVE BurstIsTimed' OBVIOUS
  <2>1. CASE UNCHANGED timer BY <2>1, Zenon DEF timer, BurstIsTimed
  <2>2. CASE RearmBurst BY <2>2, Zenon DEF RearmBurst, BurstIsTimed
  <2>3. CASE SettleFires BY <2>3, Zenon DEF SettleFires, BurstIsTimed
  <2>4. CASE SettleMisfires BY <2>4, Zenon DEF SettleMisfires, BurstIsTimed
  <2>5. CASE SettleJob
    <3>1. cadence' # "burst" BY <2>5 DEF SettleJob
    <3> QED BY <3>1 DEF BurstIsTimed
  <2> QED BY <2>1, <2>2, <2>3, <2>4, <2>5, TimerSteps
<1> QED BY <1>1, <1>2, PTL DEF PollSpec

(***************************************************************************)
(* ActiveRuntimes: a recursive function on the registry's indices.         *)
(***************************************************************************)
\* g[n] selects, of the first n gateways, those whose user is logged in.
SelectsActive(g, N) ==
  g = [n \in 0..N |->
         IF n = 0 THEN <<>>
         ELSE IF loggedIn[Registry[n]] THEN Append(g[n - 1], Registry[n]) ELSE g[n - 1]]

\* There is such a function: the one for n - 1, with one more value.
LEMMA ActiveExists ==
  ASSUME NEW N \in Nat PROVE \E g : SelectsActive(g, N)
<1> DEFINE T == {n \in Nat : ~ \E g : SelectsActive(g, n)}
<1> SUFFICES ASSUME T # {} PROVE FALSE OBVIOUS
<1>1. PICK m \in T : \A t \in T : m <= t
  <2>1. T \subseteq Nat OBVIOUS
  <2> HIDE DEF T
  <2> QED BY <2>1, LeastNat
<1>2. CASE m = 0
  <2> DEFINE g == [n \in 0..0 |-> <<>>]
  <2>1. SelectsActive(g, 0) BY DEF SelectsActive
  <2> QED BY <1>2, <2>1
<1>3. CASE m # 0
  <2>1. m - 1 \in Nat /\ m - 1 \notin T BY <1>1, <1>3
  <2>2. PICK g : SelectsActive(g, m - 1) BY <2>1
  <2> DEFINE h == [n \in 0..m |->
                     IF n # m THEN g[n]
                     ELSE IF loggedIn[Registry[m]] THEN Append(g[m - 1], Registry[m]) ELSE g[m - 1]]
  <2>3. ASSUME NEW n \in 0..m
        PROVE h[n] = IF n = 0 THEN <<>>
                     ELSE IF loggedIn[Registry[n]] THEN Append(h[n - 1], Registry[n]) ELSE h[n - 1]
    <3>1. CASE n = m
      <4>1. h[m - 1] = g[m - 1] BY <2>1
      <4> QED BY <1>3, <3>1, <4>1
    <3>2. CASE n # m
      <4>1. n \in 0..(m - 1) BY <2>1, <3>2
      <4>2. g[n] = IF n = 0 THEN <<>>
                   ELSE IF loggedIn[Registry[n]] THEN Append(g[n - 1], Registry[n]) ELSE g[n - 1]
        BY <2>2, <4>1 DEF SelectsActive
      <4>3. h[n] = g[n] BY <3>2
      <4>4. n # 0 => h[n - 1] = g[n - 1] BY <3>2
      <4> QED BY <4>2, <4>3, <4>4
    <3> QED BY <3>1, <3>2
  <2>4. h = [n \in 0..m |-> h[n]] OBVIOUS
  <2>5. SelectsActive(h, m)
    <3> HIDE DEF h
    <3> QED BY <2>3, <2>4 DEF SelectsActive
  <2> QED BY <2>5
<1> QED BY <1>2, <1>3

\* It selects sequences of accounts.
LEMMA ActiveSelected ==
  ASSUME NEW N \in Nat, N <= Len(Registry), NEW g, SelectsActive(g, N)
  PROVE g[N] \in Seq(Registered)
<1> DEFINE T == {n \in Nat : n <= N /\ g[n] \notin Seq(Registered)}
<1>1. SUFFICES ASSUME T # {} PROVE FALSE OBVIOUS
<1>2. PICK m \in T : \A t \in T : m <= t
  <2>1. T \subseteq Nat OBVIOUS
  <2> HIDE DEF T
  <2> QED BY <1>1, <2>1, LeastNat
<1>3. g[m] = IF m = 0 THEN <<>>
             ELSE IF loggedIn[Registry[m]] THEN Append(g[m - 1], Registry[m]) ELSE g[m - 1]
  <2>1. m \in 0..N BY <1>2
  <2> HIDE DEF T
  <2> QED BY <2>1 DEF SelectsActive
<1>4. m # 0 => g[m - 1] \in Seq(Registered) /\ Registry[m] \in Registered
  <2>1. ASSUME m # 0 PROVE m - 1 \in Nat /\ m - 1 \notin T /\ m - 1 <= N BY <1>2, <2>1
  <2>2. m # 0 => m \in 1..Len(Registry) BY RegistryIsSeq
  <2> QED BY <2>1, <2>2, RegistryIsSeq
<1>5. g[m] \in Seq(Registered)
  <2> HIDE DEF T
  <2>1. CASE m = 0 BY <1>3, <2>1
  <2>2. CASE m # 0 BY <1>3, <1>4, <2>2
  <2> QED BY <2>1, <2>2
<1> QED BY <1>2, <1>5

\* What the job walks is a sequence of accounts.
LEMMA ActiveTyped == ActiveRuntimes \in Seq(Registered)
<1> DEFINE N == Len(Registry)
           g == CHOOSE g : SelectsActive(g, N)
<1>1. N \in Nat BY RegistryIsSeq
<1>2. SelectsActive(g, N) BY <1>1, ActiveExists
<1>3. g[N] \in Seq(Registered) BY <1>1, <1>2, ActiveSelected
<1> QED BY <1>3 DEF ActiveRuntimes, SelectsActive

(***************************************************************************)
(* Types.                                                                  *)
(***************************************************************************)
\* What has been read was read for the first account of the walk.
Reading == answer # NoListing => walk # <<>>

WalkInv == PollTypeOK /\ Reading

\* Both writers store rows of contracts, however the rows were listed.
LEMMA StoreTyped ==
  ASSUME PollTypeOK, NEW a \in Registered, NEW ans \in Answers, NEW greeks \in BOOLEAN,
         StoreBatch(a, ans, greeks)
  PROVE batch' \in [Registered -> Batches]
<1> DEFINE new == [open |-> Numbered(ans).open, zero |-> Numbered(ans).zero, greeks |-> greeks]
<1>1. new \in Batches BY NoConidIsNone DEF Answers, Batches, Numbered
<1>2. batch' = batch \/ batch' = [batch EXCEPT ![a] = new] BY DEF StoreBatch
<1> HIDE DEF new
<1> QED BY <1>1, <1>2 DEF PollTypeOK

\* Listings name contracts, and rows that have none.
LEMMA ListingTyped ==
  ASSUME PollTypeOK, NEW a \in Registered PROVE Listings(a) \cup {NoPositions} \subseteq Answers
BY DEF PollTypeOK, Listings, NoPositions, Answers

\* The account at IBKR trades.
LEMMA BrokerTyped ==
  ASSUME WalkInv, NEW a \in Registered, NEW c \in Contracts, Opens(a, c) \/ Closes(a, c)
  PROVE WalkInv'
<1>1. /\ book' \in [Registered -> SUBSET Contracts] /\ flat' \in [Registered -> SUBSET Contracts]
  BY DEF WalkInv, PollTypeOK, Opens, Closes
<1>2. trades' \in 0..MaxTrades BY BoundsAreNats DEF WalkInv, PollTypeOK, Opens, Closes
<1>3. UNCHANGED <<batch, loggedIn, pull, walk, answer, logins, cadence, armed, firing, misfired>>
  BY DEF Opens, Closes, timer
<1> QED BY <1>1, <1>2, <1>3 DEF WalkInv, PollTypeOK, Reading

\* Closed contracts are cleared from the listing.
LEMMA ClearsTyped ==
  ASSUME WalkInv, NEW a \in Registered, Clears(a) PROVE WalkInv'
<1>1. flat' \in [Registered -> SUBSET Contracts] BY DEF WalkInv, PollTypeOK, Clears
<1> QED BY <1>1 DEF WalkInv, PollTypeOK, Reading, Clears, timer

\* A login pulls, gives up, stores what it pulled, or ends.
LEMMA LoginTyped ==
  ASSUME WalkInv, NEW a \in Registered,
         PullFetches(a) \/ PullRaises(a) \/ PullStores(a) \/ LogsOut(a)
  PROVE WalkInv'
<1>0. PollTypeOK BY DEF WalkInv
<1>1. CASE PullFetches(a)
  <2>1. PICK ans \in Answers : pull' = [pull EXCEPT ![a] = ans]
    BY <1>0, <1>1, ListingTyped DEF PullFetches
  <2>2. pull' \in [Registered -> Answers \cup {NoListing}] BY <1>0, <2>1 DEF PollTypeOK
  <2>3. logins' \in 0..MaxLogins BY <1>0, <1>1, BoundsAreNats DEF PollTypeOK, PullFetches
  <2> QED BY <1>1, <2>2, <2>3 DEF WalkInv, PollTypeOK, Reading, PullFetches, broker, timer
<1>2. CASE PullRaises(a) BY <1>2 DEF WalkInv, PollTypeOK, Reading, PullRaises, broker, timer
<1>3. CASE PullStores(a)
  <2>1. pull[a] \in Answers BY <1>0, <1>3 DEF PollTypeOK, PullStores
  <2>2. batch' \in [Registered -> Batches] BY <1>0, <1>3, <2>1, StoreTyped DEF PullStores
  <2> QED BY <1>3, <2>2 DEF WalkInv, PollTypeOK, Reading, PullStores, RearmBurst, broker
<1>4. CASE LogsOut(a) BY <1>4 DEF WalkInv, PollTypeOK, Reading, LogsOut, broker, timer
<1> QED BY <1>1, <1>2, <1>3, <1>4

\* The job starts its walk, reads, and goes on with or without what it read.
LEMMA WalkTyped ==
  ASSUME WalkInv, PollStarts \/ PollFetches \/ PollFails \/ PollStores PROVE WalkInv'
<1>0. PollTypeOK /\ walk \in Seq(Registered) BY DEF WalkInv, PollTypeOK
<1>1. CASE PollStarts
  <2>1. walk' \in Seq(Registered) /\ walk' # <<>> BY <1>1, ActiveTyped DEF PollStarts
  <2> QED BY <1>1, <2>1 DEF WalkInv, PollTypeOK, Reading, PollStarts, broker, timer
<1>2. walk # <<>> => Head(walk) \in Registered /\ Tail(walk) \in Seq(Registered) BY <1>0
<1>3. CASE PollFetches
  <2>1. answer' \in Answers /\ walk # <<>> BY <1>0, <1>2, <1>3, ListingTyped DEF PollFetches
  <2> QED BY <1>3, <2>1 DEF WalkInv, PollTypeOK, Reading, PollFetches, broker, timer
<1>4. CASE PollFails
  BY <1>2, <1>4 DEF WalkInv, PollTypeOK, Reading, PollFails, broker, timer
<1>5. CASE PollStores
  <2>1. walk # <<>> /\ answer \in Answers BY <1>5 DEF WalkInv, PollTypeOK, Reading, PollStores
  <2>2. batch' \in [Registered -> Batches] BY <1>0, <1>2, <1>5, <2>1, StoreTyped DEF PollStores
  <2> QED BY <1>2, <1>5, <2>1, <2>2 DEF WalkInv, PollTypeOK, Reading, PollStores, broker, timer
<1> QED BY <1>1, <1>3, <1>4, <1>5

\* Batches hold only rows with a conid, whoever stores them, and the walk, which
\* is fixed when the job starts, never runs past its end.
THEOREM PollTypeCorrect == PollSpec => []PollTypeOK
<1>1. PollInit => WalkInv
  <2>1. <<>> \in Seq(Registered) OBVIOUS
  <2>2. 0 \in 0..MaxTrades /\ 0 \in 0..MaxLogins BY BoundsAreNats
  <2>3. [open |-> {}, zero |-> {}, greeks |-> FALSE] \in Batches BY DEF Batches
  <2>4. PollInit => PollTypeOK BY <2>1, <2>2, <2>3 DEF PollInit, PollTypeOK
  <2>5. PollInit => Reading BY DEF PollInit, Reading
  <2> QED BY <2>4, <2>5 DEF WalkInv
<1>2. WalkInv /\ [PollNext]_pollVars => WalkInv'
  <2> SUFFICES ASSUME WalkInv, [PollNext]_pollVars PROVE WalkInv' OBVIOUS
  <2>1. ASSUME NEW a \in Registered, NEW c \in Contracts, Opens(a, c) \/ Closes(a, c) PROVE WalkInv'
    BY <2>1, BrokerTyped
  <2>2. ASSUME NEW a \in Registered, Clears(a) PROVE WalkInv' BY <2>2, ClearsTyped
  <2>3. ASSUME NEW a \in Registered, PullFetches(a) \/ PullRaises(a) \/ PullStores(a) \/ LogsOut(a)
        PROVE WalkInv'
    BY <2>3, LoginTyped
  <2>4. CASE PollStarts \/ PollFetches \/ PollFails \/ PollStores BY <2>4, WalkTyped
  <2>5. CASE SettleFires \/ SettleMisfires \/ SettleJob
    BY <2>5 DEF WalkInv, PollTypeOK, Reading, SettleFires, SettleMisfires, SettleJob, broker
  <2>6. CASE UNCHANGED pollVars BY <2>6 DEF WalkInv, PollTypeOK, Reading, pollVars
  <2> QED BY <2>1, <2>2, <2>3, <2>4, <2>5, <2>6 DEF PollNext
<1>3. WalkInv => PollTypeOK BY DEF WalkInv
<1> QED BY <1>1, <1>2, <1>3, PTL DEF PollSpec

-----------------------------------------------------------------------------
(* PriceFeed: the two price jobs, for any underlyings and prices.          *)

\* Only a job that commits changes a spot.
LEMMA OnlyCommitsSetSpot ==
  ASSUME [PriceNext]_priceVars PROVE (\E j \in Jobs : CommitsRows(j)) \/ UNCHANGED spot
<1>1. ASSUME NEW u \in Underlyings, Moves(u) PROVE UNCHANGED spot
  BY <1>1 DEF Moves, tables
<1>2. ASSUME NEW a \in Accounts, BatchStored(a) PROVE UNCHANGED spot
  BY <1>2 DEF BatchStored, tables
<1>3. CASE PollMarketStarts \/ RefreshStarts
  BY <1>3 DEF PollMarketStarts, RefreshStarts, Starts, tables
<1>4. CASE PollMarketFails \/ RefreshBatchFails
  BY <1>4 DEF PollMarketFails, RefreshBatchFails, tables
<1>5. ASSUME NEW u \in Underlyings,
             PollMarketQuotes(u) \/ RefreshQuotes(u) \/ RefreshCopies(u) \/ RefreshCopiesRow(u)
      PROVE UNCHANGED spot
  BY <1>5 DEF PollMarketQuotes, RefreshQuotes, RefreshCopies, RefreshCopiesRow, Quoted, Prepares, tables
<1>6. CASE UNCHANGED priceVars BY <1>6 DEF priceVars
<1> QED BY <1>1, <1>2, <1>3, <1>4, <1>5, <1>6 DEF PriceNext

\* A spot that is known stays known, however the two jobs' commits interleave.
THEOREM SpotKept == PriceSpec => SpotNeverLost
<1>1. ASSUME [PriceNext]_priceVars, NEW u \in Underlyings, spot[u] # NoPrice PROVE spot'[u] # NoPrice
  <2>1. ASSUME NEW j \in Jobs, CommitsRows(j) PROVE spot'[u] # NoPrice
    BY <1>1, <2>1 DEF CommitsRows, SpotsOfPriced
  <2> QED BY <1>1, <2>1, OnlyCommitsSetSpot
<1>2. [PriceNext]_priceVars => [\A u \in Underlyings : spot[u] # NoPrice => spot'[u] # NoPrice]_priceVars
  BY <1>1
<1> QED BY <1>2, PTL DEF PriceSpec, SpotNeverLost

(***************************************************************************)
(* InOrder: a recursive function on the catalogue's indices.               *)
(***************************************************************************)
\* g[n] selects, of the first n underlyings of the catalogue, those in us.
SelectsNamed(g, us, N) ==
  g = [n \in 0..N |->
         IF n = 0 THEN <<>>
         ELSE IF Catalogue[n] \in us THEN Append(g[n - 1], Catalogue[n]) ELSE g[n - 1]]

\* There is such a function: the one for n - 1, with one more value.
LEMMA NamedExists ==
  ASSUME NEW us, NEW N \in Nat PROVE \E g : SelectsNamed(g, us, N)
<1> DEFINE T == {n \in Nat : ~ \E g : SelectsNamed(g, us, n)}
<1> SUFFICES ASSUME T # {} PROVE FALSE OBVIOUS
<1>1. PICK m \in T : \A t \in T : m <= t
  <2>1. T \subseteq Nat OBVIOUS
  <2> HIDE DEF T
  <2> QED BY <2>1, LeastNat
<1>2. CASE m = 0
  <2> DEFINE g == [n \in 0..0 |-> <<>>]
  <2>1. SelectsNamed(g, us, 0) BY DEF SelectsNamed
  <2> QED BY <1>2, <2>1
<1>3. CASE m # 0
  <2>1. m - 1 \in Nat /\ m - 1 \notin T BY <1>1, <1>3
  <2>2. PICK g : SelectsNamed(g, us, m - 1) BY <2>1
  <2> DEFINE h == [n \in 0..m |->
                     IF n # m THEN g[n]
                     ELSE IF Catalogue[m] \in us THEN Append(g[m - 1], Catalogue[m]) ELSE g[m - 1]]
  <2>3. ASSUME NEW n \in 0..m
        PROVE h[n] = IF n = 0 THEN <<>>
                     ELSE IF Catalogue[n] \in us THEN Append(h[n - 1], Catalogue[n]) ELSE h[n - 1]
    <3>1. CASE n = m
      <4>1. h[m - 1] = g[m - 1] BY <2>1
      <4> QED BY <1>3, <3>1, <4>1
    <3>2. CASE n # m
      <4>1. n \in 0..(m - 1) BY <2>1, <3>2
      <4>2. g[n] = IF n = 0 THEN <<>>
                   ELSE IF Catalogue[n] \in us THEN Append(g[n - 1], Catalogue[n]) ELSE g[n - 1]
        BY <2>2, <4>1 DEF SelectsNamed
      <4>3. h[n] = g[n] BY <3>2
      <4>4. n # 0 => h[n - 1] = g[n - 1] BY <3>2
      <4> QED BY <4>2, <4>3, <4>4
    <3> QED BY <3>1, <3>2
  <2>4. h = [n \in 0..m |-> h[n]] OBVIOUS
  <2>5. SelectsNamed(h, us, m)
    <3> HIDE DEF h
    <3> QED BY <2>3, <2>4 DEF SelectsNamed
  <2> QED BY <2>5
<1> QED BY <1>2, <1>3

\* It selects sequences of underlyings.
LEMMA NamedSelected ==
  ASSUME NEW us, NEW N \in Nat, N <= Len(Catalogue), NEW g, SelectsNamed(g, us, N)
  PROVE g[N] \in Seq(Underlyings)
<1> DEFINE T == {n \in Nat : n <= N /\ g[n] \notin Seq(Underlyings)}
<1>1. SUFFICES ASSUME T # {} PROVE FALSE OBVIOUS
<1>2. PICK m \in T : \A t \in T : m <= t
  <2>1. T \subseteq Nat OBVIOUS
  <2> HIDE DEF T
  <2> QED BY <1>1, <2>1, LeastNat
<1>3. g[m] = IF m = 0 THEN <<>>
             ELSE IF Catalogue[m] \in us THEN Append(g[m - 1], Catalogue[m]) ELSE g[m - 1]
  <2>1. m \in 0..N BY <1>2
  <2> HIDE DEF T
  <2> QED BY <2>1 DEF SelectsNamed
<1>4. m # 0 => g[m - 1] \in Seq(Underlyings) /\ Catalogue[m] \in Underlyings
  <2>1. ASSUME m # 0 PROVE m - 1 \in Nat /\ m - 1 \notin T /\ m - 1 <= N BY <1>2, <2>1
  <2>2. m # 0 => m \in 1..Len(Catalogue) BY TrackedKnown
  <2> QED BY <2>1, <2>2, TrackedKnown
<1>5. g[m] \in Seq(Underlyings)
  <2> HIDE DEF T
  <2>1. CASE m = 0 BY <1>3, <2>1
  <2>2. CASE m # 0 BY <1>3, <1>4, <2>2
  <2> QED BY <2>1, <2>2
<1> QED BY <1>2, <1>5

\* What a job is started for is a sequence of underlyings.
LEMMA InOrderTyped == ASSUME NEW us PROVE InOrder(us) \in Seq(Underlyings)
<1> DEFINE N == Len(Catalogue)
           g == CHOOSE g : SelectsNamed(g, us, N)
<1>1. N \in Nat BY TrackedKnown
<1>2. SelectsNamed(g, us, N) BY <1>1, NamedExists
<1>3. g[N] \in Seq(Underlyings) BY <1>1, <1>2, NamedSelected
<1> QED BY <1>3 DEF InOrder, SelectsNamed
(***************************************************************************)
(* Types.                                                                  *)
(***************************************************************************)
\* There are two jobs.
LEMMA OtherJob == \A j \in Jobs : Other(j) \in Jobs /\ Other(j) # j
BY DEF Jobs, Other

\* A job that starts, prepares a row or commits keeps the types.
LEMMA StartTyped ==
  ASSUME PriceTypeOK, NEW j \in Jobs, Starts(j) PROVE PriceTypeOK'
<1>1. Tracked \subseteq Underlyings
  BY TrackedKnown DEF Tracked, PositionUnderlyings
<1>2. InOrder(Tracked) \in Seq(Underlyings) BY InOrderTyped
<1>3. (phase[Other(j)] # "idle") \in BOOLEAN OBVIOUS
<1> QED BY <1>1, <1>2, <1>3, OtherJob DEF PriceTypeOK, Starts, world, tables

\* A row joins what its job has prepared, whether its price was quoted or copied.
LEMMA PrepareTyped ==
  ASSUME PriceTypeOK, NEW j \in Jobs, NEW u \in Underlyings, Visits(j, u),
         NEW prices \in SUBSET (Prices \cup {NoPrice}), Prepares(j, u, prices),
         fellBack' \subseteq Underlyings
  PROVE PriceTypeOK'
<1>1. todo[j] \in Seq(Underlyings) /\ todo[j] # <<>> BY DEF PriceTypeOK, Visits
<1>2. Tail(todo[j]) \in Seq(Underlyings) BY <1>1
<1>3. todo' = [todo EXCEPT ![j] = Tail(todo[j])] BY DEF Prepares
<1>4. todo' \in [Jobs -> Seq(Underlyings)] BY <1>2, <1>3 DEF PriceTypeOK
<1>5. rows[j][u] \cup prices \in SUBSET (Prices \cup {NoPrice}) BY DEF PriceTypeOK
<1>6. rows' = [rows EXCEPT ![j][u] = rows[j][u] \cup prices] BY DEF Prepares
<1>7. rows' \in [Jobs -> [Underlyings -> SUBSET (Prices \cup {NoPrice})]]
  BY <1>5, <1>6 DEF PriceTypeOK
<1> QED BY <1>4, <1>7 DEF PriceTypeOK, Prepares, tables

\* A commit marks what the other job, when it is the elder, may no longer set.
LEMMA CommitTyped ==
  ASSUME PriceTypeOK, NEW j \in Jobs, CommitsRows(j) PROVE PriceTypeOK'
<1> DEFINE o == Other(j)
<1>1. o \in Jobs /\ o # j BY OtherJob
<1>2. Wrote(j) \subseteq Underlyings /\ WrotePriced(j) \subseteq Underlyings
  BY DEF Wrote, WrotePriced
<1>3. outdone' \in [Jobs -> [any : SUBSET Underlyings, priced : SUBSET Underlyings]]
  <2> DEFINE Marks == [any : SUBSET Underlyings, priced : SUBSET Underlyings]
             new == IF elder[o]
                    THEN [any |-> outdone[o].any \cup Wrote(j), priced |-> outdone[o].priced \cup WrotePriced(j)]
                    ELSE outdone[o]
  <2>1. outdone' = [outdone EXCEPT ![j] = NotOutdone, ![o] = new]
    BY <1>1 DEF CommitsRows, PriceTypeOK
  <2>2. NotOutdone \in Marks BY DEF NotOutdone
  <2>3. outdone \in [Jobs -> Marks] /\ outdone[o] \in Marks BY <1>1 DEF PriceTypeOK
  <2>4. new \in Marks BY <1>2, <2>3
  <2> HIDE DEF new, Marks, o
  <2>5. outdone' \in [Jobs -> Marks] BY <1>1, <2>1, <2>2, <2>3, <2>4
  <2> QED BY <2>5 DEF Marks
<1>4. NoRows \in [Underlyings -> SUBSET (Prices \cup {NoPrice})] BY DEF NoRows
<1>5. rows' \in [Jobs -> [Underlyings -> SUBSET (Prices \cup {NoPrice})]]
  BY <1>4 DEF PriceTypeOK, CommitsRows
<1>6. /\ phase' \in [Jobs -> {"idle", "quoting", "copying"}]
      /\ elder' \in [Jobs -> BOOLEAN]
      /\ asked' \subseteq Underlyings /\ exists' \subseteq Underlyings
  BY <1>2 DEF PriceTypeOK, CommitsRows
<1> QED BY <1>3, <1>5, <1>6 DEF PriceTypeOK, CommitsRows, world

\* Every step keeps the types.
LEMMA StepTyped == PriceTypeOK /\ [PriceNext]_priceVars => PriceTypeOK'
<1> SUFFICES ASSUME PriceTypeOK, [PriceNext]_priceVars PROVE PriceTypeOK' OBVIOUS
<1>1. ASSUME NEW u \in Underlyings, Moves(u) PROVE PriceTypeOK'
  <2>1. quote[u] + 1 \in Prices BY <1>1, PricesAreSet DEF PriceTypeOK, Moves, Prices
  <2>2. quote' \in [Underlyings -> Prices] BY <1>1, <2>1 DEF PriceTypeOK, Moves
  <2> QED BY <1>1, <2>2 DEF PriceTypeOK, Moves, jobs, tables
<1>2. ASSUME NEW a \in Accounts, BatchStored(a) PROVE PriceTypeOK'
  BY <1>2 DEF PriceTypeOK, BatchStored, jobs, tables
<1>3. CASE PollMarketStarts \/ RefreshStarts
  BY <1>3, StartTyped DEF PollMarketStarts, RefreshStarts, Jobs
<1>4. CASE PollMarketFails
  <2>1. "ibkr" \in Jobs /\ <<>> \in Seq(Underlyings) BY DEF Jobs
  <2>2. NoRows \in [Underlyings -> SUBSET (Prices \cup {NoPrice})] BY DEF NoRows
  <2>3. NotOutdone \in [any : SUBSET Underlyings, priced : SUBSET Underlyings] BY DEF NotOutdone
  <2> QED BY <1>4, <2>1, <2>2, <2>3 DEF PriceTypeOK, PollMarketFails, world, tables
<1>5. CASE RefreshBatchFails
  BY <1>5, InOrderTyped DEF PriceTypeOK, RefreshBatchFails, world, tables
<1>6. ASSUME NEW u \in Underlyings,
             PollMarketQuotes(u) \/ RefreshQuotes(u) \/ RefreshCopies(u) \/ RefreshCopiesRow(u)
      PROVE PriceTypeOK'
  <2>1. "ibkr" \in Jobs /\ "public" \in Jobs BY DEF Jobs
  <2>2. SeenPrices(u) \subseteq Prices /\ newest[u] \in Prices \cup {NoPrice}
    BY PricesAreSet DEF PriceTypeOK, SeenPrices, Prices
  <2>3. ASSUME NEW j \in Jobs, Visits(j, u), NEW price \in SeenPrices(u) \cup {NoPrice}, Quoted(j, u, price)
        PROVE PriceTypeOK'
    <3>1. fellBack' \subseteq Underlyings BY <2>3 DEF Quoted, PriceTypeOK
    <3>2. {price} \in SUBSET (Prices \cup {NoPrice}) BY <2>2
    <3>3. Prepares(j, u, {price}) BY <2>3 DEF Quoted
    <3> QED BY <2>3, <3>1, <3>2, <3>3, PrepareTyped
  <2>4. CASE PollMarketQuotes(u) \/ RefreshQuotes(u)
    BY <2>1, <2>3, <2>4 DEF PollMarketQuotes, RefreshQuotes
  <2>5. CASE RefreshCopies(u)
    BY <2>1, <2>2, <2>5, PrepareTyped DEF RefreshCopies, PriceTypeOK
  <2>6. CASE RefreshCopiesRow(u)
    BY <2>1, <2>2, <2>6, PrepareTyped DEF RefreshCopiesRow, PriceTypeOK
  <2> QED BY <1>6, <2>4, <2>5, <2>6
<1>7. ASSUME NEW j \in Jobs, CommitsRows(j) PROVE PriceTypeOK' BY <1>7, CommitTyped
<1>8. CASE UNCHANGED priceVars BY <1>8 DEF priceVars, PriceTypeOK
<1> QED BY <1>1, <1>2, <1>3, <1>4, <1>5, <1>6, <1>7, <1>8 DEF PriceNext

\* The two jobs' rows, marks and underlyings still to visit keep their types.
THEOREM PriceTypeCorrect == PriceSpec => []PriceTypeOK
<1>1. PriceInit => PriceTypeOK
  <2>1. <<>> \in Seq(Underlyings) OBVIOUS
  <2>2. 0 \in Prices BY PricesAreSet DEF Prices
  <2> QED BY <2>1, <2>2 DEF PriceInit, PriceTypeOK, NoRows, Unpriced, NotOutdone
<1> QED BY <1>1, StepTyped, PTL DEF PriceSpec
=============================================================================
