------------------------------- MODULE FxRates -------------------------------
(***************************************************************************)
(* Exchange rates: a cache with a time to live, a last-known copy that     *)
(* never expires, and fetches from IBKR and then Yahoo, at most one per    *)
(* pair and time to live.  A fetch waits for its feeds, so several requests*)
(* are in get_rate at once.                                                *)
(*                                                                         *)
(* The cache and the last-known copy are always written together and never *)
(* removed: one entry stands for both, fresh until its age is TTL.  Ages   *)
(* stop at TTL, from where on the code does not tell them apart.           *)
(***************************************************************************)
EXTENDS Naturals, FiniteSets

CONSTANTS
  Pairs,      \* ordered pairs of different currencies
  Opposite,   \* a pair's opposite direction
  Callers,    \* requests in get_rate at the same time
  Slots,      \* Yahoo requests that run at once
  TTL,        \* ticks of the clock an entry stays fresh
  None

ASSUME TTLPositive == TTL \in Nat \ {0} /\ Slots \in Nat \ {0}
ASSUME InverseIsPair ==
  /\ Opposite \in [Pairs -> Pairs]
  /\ \A p \in Pairs : Opposite[p] # p /\ Opposite[Opposite[p]] = p
ASSUME NoneIsNoPair == None \notin Pairs \cup {"ibkr", "public", "cache"}

VARIABLES
  source,   \* which feed the stored rate of a pair came from, None without one
  age,      \* how old it is
  tried,    \* ticks since the last fetch of a pair was started, TTL without one
  asking,   \* the pair a caller is fetching
  feed,     \* the feed it waits for
  since,    \* ticks since it started
  reply     \* the answer of the last call: its pair, label, age and direction

vars == <<source, age, tried, asking, feed, since, reply>>

Ages == 0..TTL
Feeds == {"ibkr", "queue", "yahoo"}
NoReply == [pair |-> None, label |-> None, age |-> TTL, inverted |-> FALSE]

TypeOK ==
  /\ source \in [Pairs -> {"ibkr", "public", None}]
  /\ age \in [Pairs -> Ages]
  /\ tried \in [Pairs -> Ages]
  /\ asking \in [Callers -> Pairs \cup {None}]
  /\ feed \in [Callers -> Feeds]
  /\ since \in [Callers -> Ages]
  /\ reply \in [pair : Pairs \cup {None}, label : {"ibkr", "public", "cache", None},
                age : Ages, inverted : BOOLEAN]

Init ==
  /\ source = [p \in Pairs |-> None]
  /\ age = [p \in Pairs |-> TTL]
  /\ tried = [p \in Pairs |-> TTL]
  /\ asking = [c \in Callers |-> None]
  /\ feed = [c \in Callers |-> "ibkr"]
  /\ since = [c \in Callers |-> TTL]
  /\ reply = NoReply

Older(n) == IF n < TTL THEN n + 1 ELSE TTL

\* Mutant: a failed attempt blocks its pair for good.
TickKeepsTried ==
  /\ age' = [p \in Pairs |-> Older(age[p])]
  /\ since' = [c \in Callers |-> Older(since[c])]
  /\ UNCHANGED <<source, tried, asking, feed, reply>>

Tick ==
  /\ age' = [p \in Pairs |-> Older(age[p])]
  /\ tried' = [p \in Pairs |-> Older(tried[p])]
  /\ since' = [c \in Callers |-> Older(since[c])]
  /\ UNCHANGED <<source, asking, feed, reply>>

\* The process restarts: nothing is persisted.
Restarts ==
  /\ source' = [p \in Pairs |-> None]
  /\ age' = [p \in Pairs |-> TTL]
  /\ tried' = [p \in Pairs |-> TTL]
  /\ asking' = [c \in Callers |-> None]
  /\ since' = [c \in Callers |-> TTL]
  /\ UNCHANGED <<feed, reply>>

-----------------------------------------------------------------------------
(* Answers.                                                                  *)

\* Mutant: entries do not expire.
FreshForever(p) == source[p] # None

Fresh(p) == source[p] # None /\ age[p] < TTL

Direct(p, label) == [pair |-> p, label |-> label, age |-> age[p], inverted |-> FALSE]

\* Mutant: the other direction helps out only while it is fresh.
FallbackFresh(p) ==
  LET q == Opposite[p] IN
  IF Fresh(q) THEN [pair |-> p, label |-> source[q], age |-> age[q], inverted |-> TRUE]
  ELSE IF Fresh(p) THEN Direct(p, "cache")
  ELSE [NoReply EXCEPT !.pair = p]

\* The inverse of the other direction, fresh or last known, under the label it
\* was stored with; else this direction's last-known rate; else nothing.
Fallback(p) ==
  LET q == Opposite[p] IN
  IF source[q] # None THEN [pair |-> p, label |-> source[q], age |-> age[q], inverted |-> TRUE]
  ELSE IF source[p] # None THEN Direct(p, "cache")
  ELSE [NoReply EXCEPT !.pair = p]

Idle(c) == asking[c] = None

AnswersFresh(c, p) ==
  /\ Idle(c) /\ Fresh(p)
  /\ reply' = Direct(p, source[p])
  /\ UNCHANGED <<source, age, tried, asking, feed, since>>

\* A fetch was started less than TTL ago, by this or another caller.
AnswersThrottled(c, p) ==
  /\ Idle(c) /\ ~Fresh(p) /\ tried[p] < TTL
  /\ reply' = Fallback(p)
  /\ UNCHANGED <<source, age, tried, asking, feed, since>>

\* Mutant: the attempt is not stamped before the feeds are awaited.
FetchStartsUnstamped(c, p) ==
  /\ Idle(c) /\ ~Fresh(p) /\ tried[p] = TTL
  /\ asking' = [asking EXCEPT ![c] = p]
  /\ feed' = [feed EXCEPT ![c] = "ibkr"]
  /\ since' = [since EXCEPT ![c] = 0]
  /\ UNCHANGED <<source, age, tried, reply>>

FetchStarts(c, p) ==
  /\ Idle(c) /\ ~Fresh(p) /\ tried[p] = TTL
  /\ tried' = [tried EXCEPT ![p] = 0]
  /\ asking' = [asking EXCEPT ![c] = p]
  /\ feed' = [feed EXCEPT ![c] = "ibkr"]
  /\ since' = [since EXCEPT ![c] = 0]
  /\ UNCHANGED <<source, age, reply>>

\* Mutant: a rate is stored under a name no reader knows.
StoresUnnamed(c, name) ==
  /\ source' = [source EXCEPT ![asking[c]] = "yahoo"]
  /\ age' = [age EXCEPT ![asking[c]] = 0]
  /\ asking' = [asking EXCEPT ![c] = None]
  /\ since' = [since EXCEPT ![c] = TTL]
  /\ reply' = [pair |-> asking[c], label |-> name, age |-> 0, inverted |-> FALSE]
  /\ UNCHANGED <<tried, feed>>

\* _store, and the fetched rate is the answer.
Stores(c, name) ==
  LET p == asking[c] IN
  /\ source' = [source EXCEPT ![p] = name]
  /\ age' = [age EXCEPT ![p] = 0]
  /\ asking' = [asking EXCEPT ![c] = None]
  /\ since' = [since EXCEPT ![c] = TTL]
  /\ reply' = [pair |-> p, label |-> name, age |-> 0, inverted |-> FALSE]
  /\ UNCHANGED <<tried, feed>>

IbkrAnswers(c) == ~Idle(c) /\ feed[c] = "ibkr" /\ Stores(c, "ibkr")

\* No gateway is logged in, or it has no valid rate: on to the semaphore.
IbkrFails(c) ==
  /\ ~Idle(c) /\ feed[c] = "ibkr"
  /\ feed' = [feed EXCEPT ![c] = "queue"]
  /\ UNCHANGED <<source, age, tried, asking, since, reply>>

AtYahoo == {c \in Callers : ~Idle(c) /\ feed[c] = "yahoo"}

SemaphoreTaken(c) ==
  /\ ~Idle(c) /\ feed[c] = "queue" /\ Cardinality(AtYahoo) < Slots
  /\ feed' = [feed EXCEPT ![c] = "yahoo"]
  /\ UNCHANGED <<source, age, tried, asking, since, reply>>

YahooAnswers(c) == ~Idle(c) /\ feed[c] = "yahoo" /\ Stores(c, "public")

YahooFails(c) ==
  /\ ~Idle(c) /\ feed[c] = "yahoo"
  /\ reply' = Fallback(asking[c])
  /\ asking' = [asking EXCEPT ![c] = None]
  /\ since' = [since EXCEPT ![c] = TTL]
  /\ UNCHANGED <<source, age, tried, feed>>

Next ==
  \/ Tick \/ Restarts
  \/ \E c \in Callers, p \in Pairs : AnswersFresh(c, p) \/ AnswersThrottled(c, p) \/ FetchStarts(c, p)
  \/ \E c \in Callers :
       IbkrAnswers(c) \/ IbkrFails(c) \/ SemaphoreTaken(c) \/ YahooAnswers(c) \/ YahooFails(c)

Spec == Init /\ [][Next]_vars

Answered(c, p) == asking[c] = p /\ (IbkrAnswers(c) \/ YahooAnswers(c))

\* Time passes, calls for every pair keep coming and end, and the feeds do
\* answer again and again.
Fairness ==
  /\ WF_vars(Tick)
  /\ \A c \in Callers :
       WF_vars(IbkrAnswers(c) \/ IbkrFails(c)) /\ SF_vars(SemaphoreTaken(c))
         /\ WF_vars(YahooAnswers(c) \/ YahooFails(c))
  /\ \A p \in Pairs :
       /\ SF_vars(\E c \in Callers : FetchStarts(c, p))
       /\ SF_vars(\E c \in Callers : Answered(c, p))

FairSpec == Spec /\ Fairness

-----------------------------------------------------------------------------
\* Dead or slow feeds are not hammered: two calls fetch one pair at the same
\* time only when the earlier has been waiting for a whole TTL.
FetchesSpaced ==
  \A c, d \in Callers :
    c # d /\ asking[c] # None /\ asking[c] = asking[d] => since[c] = TTL \/ since[d] = TTL

\* "degrades to a stale rate instead of suppressed figures": once either
\* direction of a pair has been fetched, no call goes without a rate, whatever
\* fails and whoever else is fetching.
NeverSuppressed ==
  [][\A p \in Pairs :
       reply' # reply /\ reply'.pair = p /\ reply'.label = None
         => source[p] = None /\ source[Opposite[p]] = None]_vars

\* A rate that is not flagged "cache" is no older than TTL, unless it is the
\* other direction's inverted: that keeps its label however old it is.
StaleIsFlagged ==
  reply.label \in {"ibkr", "public"} /\ ~reply.inverted => reply.age < TTL

\* "a stale rate (flagged as such)": every one.  The code does not keep it: an
\* inverse is served with its own label (README, 3).
OldIsFlagged == reply.label \in {"ibkr", "public"} => reply.age < TTL

\* A pair whose feeds keep answering is fresh again and again, over outages,
\* throttled calls and restarts.
RateRecovers == \A p \in Pairs : []<>Fresh(p)
=============================================================================
