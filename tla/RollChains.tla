----------------------------- MODULE RollChains -----------------------------
(***************************************************************************)
(* The roll-chain builder (analytics/rolls.py) for one underlying, run     *)
(* against the broker account it describes.  A day has three phases: the   *)
(* user trades, the broker settles assignments and expiries, and the       *)
(* builder reads the day's rows in its sort order.  The builder is a fold  *)
(* over sorted rows, so its state after a day is what a rebuild makes of   *)
(* the history so far.                                                     *)
(*                                                                         *)
(* Money is in units: an option lot trades at 1, a lot of shares is        *)
(* delivered at its strike and traded at SharePrice; no commission.        *)
(***************************************************************************)
EXTENDS IncomeReport

CONSTANTS
  Contracts,                \* listed options: [right, strike, expiry]; one conid each
  Feeds,                    \* whose rows an account may have: "poll", "flex", "both"
  CHAIN_CONTINUATION_DAYS,
  SharePrice,
  Histories,                \* which of the histories below the account may have
  MaxDay, MaxLots, MaxTrades  \* bounds: days, lots short per contract, trades

(* Histories that the builder does not follow (README, RollChains).           *)
(*   day_trade    Flex: a short is closed on the day of a sale at its strike,  *)
(*                or assigned or expires on the day of a trade in its right    *)
(*   overlap      two expiries of one strike are short at once                 *)
(*   block_trade  more than one lot of shares is traded in one order           *)
(*   partial      Flex: an assignment takes some of the lots of a short        *)
(*   netting      live feed: an assignment takes shares that another delivered *)
ASSUME HistoriesAssumption ==
  Histories \subseteq {"day_trade", "overlap", "block_trade", "partial", "netting"}

ASSUME FeedsAssumption == Feeds \subseteq {"poll", "flex", "both"}
ASSUME ContractsAreTyped ==
  Contracts \subseteq [right : {"P", "C"}, strike : Nat, expiry : Nat] /\ IsFiniteSet(Contracts)
ASSUME BoundsAreTyped ==
  /\ MaxDay \in Nat \ {0} /\ MaxLots \in Nat /\ MaxTrades \in Nat
  /\ CHAIN_CONTINUATION_DAYS \in Nat /\ SharePrice \in Int

VARIABLES
  day, phase, feed,
  held, shares, cash,       \* the account: short lots by contract, lots of shares, cash
  trades,                   \* how many trades the user made
  tape,                     \* the day's rows, in the order they happened
  chains,                   \* every chain built
  active                    \* active_chains: index of a key's chain, 0 if none

account == <<held, shares, cash>>
vars == <<day, phase, feed, account, trades, tape, chains, active>>

KeyOf(c) == <<c.right, c.strike>>
Keys     == {KeyOf(c) : c \in Contracts}

Kinds == {"sell", "buy", "zero", "eae", "assigned", "assignedA", "delivered", "stock", "copy"}
Row   == [kind : Kinds, contract : Contracts, side : {"B", "S", "A"}, qty : Nat]

Chain == [right : {"P", "C"}, strike : Nat, status : {"open", "closed"},
          close_reason : {"none", "bought_back", "expired", "assigned_closed"},
          opened_at : 1..MaxDay, closed_at : 0..MaxDay, cumulative_credit : Int, open_credit : Int,
          opt_pos : Int, stk_pos : Int, current_expiry : Nat, last_conid : Contracts,
          conids : SUBSET Contracts]  \* of its legs

TypeOK ==
  /\ day \in 1..MaxDay /\ phase \in {"trade", "settle", "read"} /\ feed \in Feeds
  /\ held \in [Contracts -> 0..MaxLots] /\ shares \in Int /\ cash \in Int
  /\ trades \in 0..MaxTrades
  /\ tape \in Seq(Row)
  /\ chains \in Seq(Chain)
  /\ active \in [Keys -> 0..Len(chains)]

Init ==
  /\ day = 1 /\ phase = "trade" /\ feed \in Feeds
  /\ held = [c \in Contracts |-> 0] /\ shares = 0 /\ cash = 0
  /\ trades = 0
  /\ tape = <<>>
  /\ chains = <<>>
  /\ active = [k \in Keys |-> 0]

-----------------------------------------------------------------------------
(* The account: it sells options and trades the shares it is left with.      *)

OptRow(kind, c, side, q) == [kind |-> kind, contract |-> c, side |-> side, qty |-> q]

Report(rows) == tape' = tape \o rows

Trade ==
  /\ phase = "trade"
  /\ trades < MaxTrades
  /\ trades' = trades + 1
  /\ UNCHANGED <<day, phase, feed, chains, active>>

\* Flex rows of a day are dated, not timed.
ClearToClose(c) ==
  \/ "day_trade" \in Histories \/ feed = "poll"
  \/ \A i \in 1..Len(tape) : tape[i].kind = "sell" => KeyOf(tape[i].contract) # KeyOf(c)

ClearToSettle(c) ==
  \/ "day_trade" \in Histories \/ feed = "poll"
  \/ \A i \in 1..Len(tape) :
       tape[i].kind \in {"sell", "buy"} => tape[i].contract.right # c.right

SellToOpen(c, q) ==
  /\ Trade
  /\ day <= c.expiry
  /\ held[c] + q <= MaxLots
  /\ "overlap" \in Histories \/ \A o \in Contracts \ {c} : KeyOf(o) = KeyOf(c) => held[o] = 0
  /\ held' = [held EXCEPT ![c] = @ + q]
  /\ cash' = cash + q
  /\ Report(<<OptRow("sell", c, "S", q)>>)
  /\ UNCHANGED shares

BuyToClose(c, q) ==
  /\ Trade
  /\ q <= held[c]
  /\ ClearToClose(c)
  /\ held' = [held EXCEPT ![c] = @ - q]
  /\ cash' = cash - q
  /\ Report(<<OptRow("buy", c, "B", q)>>)
  /\ UNCHANGED shares

\* The user sells delivered shares, or covers the ones a call took.
TradeShares(c, side, q) ==
  /\ Trade
  /\ IF side = "S" THEN q <= shares ELSE q <= -shares
  /\ "block_trade" \in Histories \/ q = 1
  /\ shares' = IF side = "S" THEN shares - q ELSE shares + q
  /\ cash' = IF side = "S" THEN cash + q * SharePrice ELSE cash - q * SharePrice
  /\ Report(<<OptRow("stock", c, side, q)>>)
  /\ UNCHANGED held

MarketCloses ==
  /\ phase = "trade"
  /\ phase' = "settle"
  /\ UNCHANGED <<day, feed, account, trades, tape, chains, active>>

\* Flex reports the option and the shares; the live feed an option row with side A
\* and no strike, and the shares ("copy") as a trade like any other.
AssignmentRows(c, q) ==
  LET side == IF c.right = "P" THEN "B" ELSE "S"
      flex == <<OptRow("assigned", c, "B", q), OptRow("delivered", c, side, q)>>
      poll == <<OptRow("assignedA", c, "A", q), OptRow("copy", c, side, q)>>
  IN  CASE feed = "flex" -> flex
        [] feed = "poll" -> poll
        [] feed = "both" -> flex \o poll

Assign(c, q) ==
  /\ phase = "settle"
  /\ q <= held[c]
  /\ "partial" \in Histories \/ feed = "poll" \/ q = held[c]
  /\ \/ "netting" \in Histories \/ feed = "flex"
     \/ IF c.right = "P" THEN shares >= 0 ELSE shares <= 0
  /\ ClearToSettle(c)
  /\ held' = [held EXCEPT ![c] = @ - q]
  /\ shares' = IF c.right = "P" THEN shares + q ELSE shares - q
  /\ cash' = IF c.right = "P" THEN cash - q * c.strike ELSE cash + q * c.strike
  /\ Report(AssignmentRows(c, q))
  /\ UNCHANGED <<day, phase, feed, trades, chains, active>>

\* IBKR's Flex report shows an expiry as an OptionEAE row, a $0 buy, both or not at
\* all; the live feed never does.
Expire(c, kinds) ==
  /\ phase = "settle"
  /\ c.expiry = day /\ held[c] > 0
  /\ feed = "poll" => kinds = <<>>
  /\ ClearToSettle(c)
  /\ held' = [held EXCEPT ![c] = 0]
  /\ Report([i \in 1..Len(kinds) |->
       OptRow(kinds[i], c, IF kinds[i] = "eae" /\ c.right = "P" THEN "S" ELSE "B", held[c])])
  /\ UNCHANGED <<day, phase, feed, shares, cash, trades, chains, active>>

BooksClose ==
  /\ phase = "settle"
  /\ \A c \in Contracts : c.expiry = day => held[c] = 0
  /\ phase' = "read"
  /\ UNCHANGED <<day, feed, account, trades, tape, chains, active>>

NextDay ==
  /\ phase = "read" /\ tape = <<>>
  /\ day < MaxDay
  /\ day' = day + 1
  /\ phase' = "trade"
  /\ UNCHANGED <<feed, account, trades, tape, chains, active>>

-----------------------------------------------------------------------------
(* What the builder does to a chain.                                         *)

\* Live rows carry their time.  Flex rows carry a date: options come before stock
\* and buys before sells.  A live copy of a Flex row is later than the date.
Rank(row) ==
  CASE feed = "poll"                             -> 0
    [] feed # "poll" /\ row.kind = "assignedA"  -> 4
    [] OTHER -> (IF row.kind \in {"delivered", "stock", "copy"} THEN 2 ELSE 0)
                  + (IF row.side = "B" THEN 0 ELSE 1)

IsNext(i) ==
  /\ \A j \in 1..Len(tape) : Rank(tape[i]) <= Rank(tape[j])
  /\ feed = "poll" => i = 1

Credit(row) ==
  CASE row.kind = "sell" -> row.qty
    [] row.kind = "buy"  -> -row.qty
    [] row.kind \in {"stock", "copy"} ->
         IF row.side = "S" THEN row.qty * SharePrice ELSE -(row.qty * SharePrice)
    [] row.kind = "delivered" ->
         IF row.side = "S" THEN row.qty * row.contract.strike ELSE -(row.qty * row.contract.strike)
    [] OTHER -> 0

Close(ch, when, reason) ==
  [ch EXCEPT !.status = "closed", !.closed_at = when, !.close_reason = reason]

Reopen(ch) == [ch EXCEPT !.status = "open", !.closed_at = 0, !.close_reason = "none"]

\* Mutant: the short's credit is left as it is.
KeepingCredit(ch, pos) == [ch EXCEPT !.opt_pos = pos]

\* _short_reduced: the credit riding on the short shrinks with it.
WithShort(ch, pos) ==
  [ch EXCEPT !.opt_pos = pos,
             !.open_credit = CASE pos >= 0                  -> 0
                               [] pos < 0 /\ ch.opt_pos < 0 -> (@ * (-pos)) \div (-ch.opt_pos)
                               [] OTHER                     -> @]

\* Synthetic expiry: an open short whose expiry lies before `today`.
Lapse(ch, today) ==
  IF ch.opt_pos < 0 /\ ch.current_expiry < today
  THEN LET flat == WithShort(ch, 0) IN
       IF ch.stk_pos = 0 THEN Close(flat, ch.current_expiry, "expired") ELSE flat
  ELSE ch

\* The chain of a row's key as the row finds it, if there is one.
Active   == {active[k] : k \in Keys} \ {0}
Found(k) == Lapse(chains[active[k]], day)

\* The live feed's assignment row has no strike: by conid, then by right.
ByConid(c) == {n \in Active : chains[n].last_conid = c /\ chains[n].opt_pos < 0}
ByRight(r) == {n \in Active : chains[n].right = r /\ chains[n].opt_pos < 0}

\* A chain of the same right that a buy closed today at another strike.
RollCandidates(k) ==
  {n \in Active :
     LET ch == chains[n] IN
       /\ ch.right = k[1] /\ ch.strike # k[2]
       /\ ch.opt_pos = 0 /\ ch.stk_pos = 0 /\ ch.status = "closed"
       /\ ch.close_reason \in {"none", "bought_back"}
       /\ ch.closed_at = day}

NewChain(k, c) ==
  [right |-> k[1], strike |-> k[2], status |-> "open", close_reason |-> "none",
   opened_at |-> day, closed_at |-> 0, cumulative_credit |-> 0, open_credit |-> 0, opt_pos |-> 0,
   stk_pos |-> 0, current_expiry |-> c.expiry, last_conid |-> c, conids |-> {c}]

Sold(ch, row) ==
  [ch EXCEPT
    !.open_credit = IF ch.opt_pos < 0 THEN @ + Credit(row) ELSE Credit(row),
    !.cumulative_credit = @ + Credit(row),
    !.opt_pos = @ - row.qty,
    !.current_expiry = row.contract.expiry,
    !.last_conid = row.contract,
    !.conids = @ \cup {row.contract}]

Bought(ch, row) ==
  WithShort([ch EXCEPT !.cumulative_credit = @ + Credit(row), !.conids = @ \cup {row.contract}],
            ch.opt_pos + row.qty)

\* Shares that an assignment delivers to a chain or takes from it.
Delivered(ch, row) ==
  [ch EXCEPT !.stk_pos = IF ch.right = "P" THEN @ + row.qty ELSE @ - row.qty]

-----------------------------------------------------------------------------
(* build_roll_chains: one action per branch of its loop.                     *)

Take(i, kinds) ==
  /\ phase = "read"
  /\ i \in 1..Len(tape) /\ IsNext(i)
  /\ tape[i].kind \in kinds
  /\ tape' = RemoveAt(tape, i)
  /\ UNCHANGED <<day, phase, feed, account, trades>>

Update(n, ch) == chains' = [chains EXCEPT ![n] = ch] /\ UNCHANGED active

\* The chains with the short that the row found expired, if it has lapsed.
Lapsed(k) == IF active[k] = 0 THEN chains ELSE [chains EXCEPT ![active[k]] = Found(k)]

\* A row that is left out still expires the short it found.
Skip(k) == chains' = Lapsed(k) /\ UNCHANGED active

Continues(k) ==
  /\ active[k] # 0
  /\ \/ Found(k).status = "open"
     \/ day - Found(k).closed_at <= CHAIN_CONTINUATION_DAYS

ReadSellContinues(i) ==
  LET row == tape[i]  k == KeyOf(row.contract) IN
  /\ Take(i, {"sell"})
  /\ Continues(k)
  /\ Update(active[k],
            Sold(IF Found(k).status = "closed" THEN Reopen(Found(k)) ELSE Found(k), row))

\* Cross-strike roll: the chain moves to the new strike's key.
ReadSellRolls(i) ==
  LET row == tape[i]  k == KeyOf(row.contract) IN
  /\ Take(i, {"sell"})
  /\ ~Continues(k)
  /\ \E n \in RollCandidates(k) :
       /\ chains' = [Lapsed(k) EXCEPT ![n] =
                       Sold([Reopen(@) EXCEPT !.right = k[1], !.strike = k[2]], row)]
       /\ active' = [j \in Keys |-> CASE j = k                                   -> n
                                      [] j # k /\ j = <<chains[n].right, chains[n].strike>> -> 0
                                      [] OTHER                                   -> active[j]]

\* Mutant: an index past the end.
ReadSellOpensPast(i) ==
  LET row == tape[i]  k == KeyOf(row.contract) IN
  /\ Take(i, {"sell"})
  /\ ~Continues(k) /\ RollCandidates(k) = {}
  /\ chains' = Append(Lapsed(k), Sold(NewChain(k, row.contract), row))
  /\ active' = [active EXCEPT ![k] = Len(chains) + 2]

ReadSellOpens(i) ==
  LET row == tape[i]  k == KeyOf(row.contract) IN
  /\ Take(i, {"sell"})
  /\ ~Continues(k) /\ RollCandidates(k) = {}
  /\ chains' = Append(Lapsed(k), Sold(NewChain(k, row.contract), row))
  /\ active' = [active EXCEPT ![k] = Len(chains) + 1]

\* Mutant: no check that the chain still has a short.
ReadExpirationTwice(i) ==
  LET row == tape[i]  k == KeyOf(row.contract) IN
  /\ Take(i, {"eae"})
  /\ IF active[k] = 0 THEN Skip(k)
     ELSE Update(active[k], Close(WithShort(Found(k), Found(k).opt_pos + row.qty), day, "expired"))

\* An OptionEAE row only ever closes; on a flat chain it is a duplicate.
ReadExpiration(i) ==
  LET row == tape[i]  k == KeyOf(row.contract)  ch == Found(k)
      pos == IF ch.opt_pos < 0 THEN ch.opt_pos + row.qty ELSE ch.opt_pos - row.qty IN
  /\ Take(i, {"eae"})
  /\ IF active[k] = 0 \/ ch.opt_pos = 0 THEN Skip(k)
     ELSE Update(active[k],
                 IF pos = 0 /\ ch.stk_pos = 0
                 THEN Close(WithShort(ch, pos), day, "expired") ELSE WithShort(ch, pos))

\* A buy closes the chain of its key when neither short nor shares are left.  One
\* that finds no chain is a closed chain of its own that nothing finds again.
ReadBuy(i) ==
  LET row == tape[i]  k == KeyOf(row.contract)
      ch == Bought(Found(k), row)
      reason == IF row.kind = "zero" THEN "expired" ELSE "bought_back"
      orphan == [Bought(NewChain(k, row.contract), row) EXCEPT !.open_credit = 0] IN
  /\ Take(i, {"buy", "zero"})
  /\ row.kind = "zero" => active[k] # 0 /\ Found(k).opt_pos < 0
  /\ IF active[k] = 0
     THEN chains' = Append(chains, Close(orphan, day, reason)) /\ UNCHANGED active
     ELSE Update(active[k],
                 IF ch.opt_pos >= 0 /\ ch.stk_pos = 0 THEN Close(ch, day, reason) ELSE ch)

\* A $0 buy with no short to close is a duplicate expiry record.
ReadZeroBuySkipped(i) ==
  LET k == KeyOf(tape[i].contract) IN
  /\ Take(i, {"zero"})
  /\ active[k] = 0 \/ Found(k).opt_pos >= 0
  /\ Skip(k)

\* Mutant: the shares are booked even if a STK assignment row will book them.
AssignedWithShares(ch, row) ==
  LET value == row.qty * ch.strike IN
  Reopen([Delivered(Bought(ch, row), row)
            EXCEPT !.cumulative_credit = IF ch.right = "P" THEN @ - value ELSE @ + value])

\* Without a STK assignment row in the history the delivered shares are booked here.
Assigned(ch, row) ==
  LET value == row.qty * ch.strike IN
  Reopen(IF feed = "poll"
         THEN [Delivered(Bought(ch, row), row)
                 EXCEPT !.cumulative_credit = IF ch.right = "P" THEN @ - value ELSE @ + value]
         ELSE Bought(ch, row))

AssignmentTargets(row) ==
  LET k == KeyOf(row.contract) IN
  IF row.kind = "assigned" /\ active[k] # 0 THEN {active[k]}
  ELSE IF ByConid(row.contract) # {} THEN ByConid(row.contract)
  ELSE ByRight(row.contract.right)

\* An assignment with no short to close is a duplicate and is left out.
ReadAssignment(i) ==
  LET row == tape[i]  targets == AssignmentTargets(row) IN
  /\ Take(i, {"assigned", "assignedA"})
  /\ IF targets = {} THEN UNCHANGED <<chains, active>>
     ELSE \E n \in targets :
            Update(n, Assigned(IF row.kind = "assigned" /\ n = active[KeyOf(row.contract)]
                               THEN Found(KeyOf(row.contract)) ELSE chains[n], row))

\* The delivered shares, and the option if it is still open.
ReadDelivery(i) ==
  LET row == tape[i]  k == KeyOf(row.contract)
      targets == IF active[k] # 0 THEN {active[k]} ELSE ByRight(k[1]) IN
  /\ Take(i, {"delivered"})
  /\ IF targets = {} THEN UNCHANGED <<chains, active>>
     ELSE \E n \in targets :
            LET ch == IF chains[n].opt_pos < 0 THEN WithShort(chains[n], 0) ELSE chains[n] IN
            Update(n, Reopen([Delivered(ch, row) EXCEPT !.cumulative_credit = @ + Credit(row)]))

\* A share trade goes to one chain that holds the opposite, whatever its size.
ReadStock(i) ==
  LET row == tape[i]
      targets == {n \in Active : IF row.side = "S" THEN chains[n].stk_pos > 0
                                                   ELSE chains[n].stk_pos < 0} IN
  /\ Take(i, {"stock", "copy"})
  /\ IF targets = {} THEN UNCHANGED <<chains, active>>
     ELSE \E n \in targets :
            LET ch == [chains[n] EXCEPT
                         !.stk_pos = IF row.side = "S" THEN @ - row.qty ELSE @ + row.qty,
                         !.cumulative_credit = @ + Credit(row)] IN
            Update(n, IF ch.stk_pos = 0 /\ ch.opt_pos >= 0
                      THEN Close(ch, day, "assigned_closed") ELSE ch)

-----------------------------------------------------------------------------
UserTrades ==
  \E c \in Contracts, q \in 1..MaxLots :
    \/ SellToOpen(c, q) \/ BuyToClose(c, q)
    \/ \E side \in {"B", "S"} : TradeShares(c, side, q)

BrokerSettles ==
  \E c \in Contracts :
    \/ \E q \in 1..MaxLots : Assign(c, q)
    \/ \E kinds \in {<<>>, <<"eae">>, <<"zero">>, <<"zero", "eae">>} : Expire(c, kinds)

ReadRow(i) ==
  \/ ReadSellContinues(i) \/ ReadSellRolls(i) \/ ReadSellOpens(i)
  \/ ReadExpiration(i)
  \/ ReadBuy(i) \/ ReadZeroBuySkipped(i)
  \/ ReadAssignment(i) \/ ReadDelivery(i) \/ ReadStock(i)

Next ==
  \/ UserTrades \/ MarketCloses
  \/ BrokerSettles \/ BooksClose
  \/ \E i \in 1..Len(tape) : ReadRow(i)
  \/ NextDay

Spec == Init /\ [][Next]_vars

-----------------------------------------------------------------------------
(* What a rebuild on the morning after `day` stores.                         *)

Rebuilt == phase = "read" /\ tape = <<>>

EndOfData(n) ==
  LET ch == chains[n] IN
  IF n \in Active /\ ch.status = "open" THEN Lapse(ch, day + 1) ELSE ch

\* The chains show the short positions the account has, strike by strike: no expiry,
\* roll, assignment or duplicate record closes a short that is there or leaves one
\* open that is gone.
ShortsMatch ==
  Rebuilt =>
    \A k \in Keys :
      SumOf(LAMBDA c : held[c], {c \in Contracts : KeyOf(c) = k}) =
      SumOf(LAMBDA n : -EndOfData(n).opt_pos,
            {n \in Active : <<chains[n].right, chains[n].strike>> = k})

\* Every cash flow is in one chain, once: the cumulative credits add up to the
\* account's cash, the stock positions to its shares.
CashMatches ==
  Rebuilt =>
    /\ cash = SumOf(LAMBDA n : chains[n].cumulative_credit, 1..Len(chains))
    /\ shares = SumOf(LAMBDA n : chains[n].stk_pos, 1..Len(chains))

\* open_credit is the credit riding on the short that is open right now, and a chain
\* is closed exactly when it has neither short nor shares left.
ChainsSettle ==
  Rebuilt =>
    \A n \in 1..Len(chains) :
      LET ch == EndOfData(n) IN
        /\ ch.open_credit = (IF ch.opt_pos < 0 THEN -ch.opt_pos ELSE 0)
        /\ ch.status = "closed" <=> ch.opt_pos >= 0 /\ ch.stk_pos = 0

\* The income page's total is the money in hand: the account's cash flow without the
\* premium of the shorts still open (a unit a lot), whatever was rolled, assigned,
\* expired or settled in the meantime.
IncomeIsBanked ==
  Rebuilt =>
    LET stored == [n \in 1..Len(chains) |-> EndOfData(n)] IN
    ComputeIncome(stored, <<>>).all_time = cash - SumOf(LAMBDA c : held[c], Contracts)

\* Mutant: closed chains are looked at too.
StoredChainsOf(c) == {n \in 1..Len(chains) : c \in chains[n].conids}

\* open_roll_chains: the open chains one of whose legs is in a contract.
OpenChainsOf(c) == {n \in 1..Len(chains) : c \in chains[n].conids /\ EndOfData(n).status = "open"}

\* The positions panel finds a short's own chain by its contract, over rolls, chains
\* closed and begun again: one open chain at the contract's strike has it in its legs,
\* and is short.  (A chain that was rolled away from the contract has it too.)
PositionsFindTheirChain ==
  Rebuilt =>
    \A c \in Contracts : held[c] > 0 =>
      \E n \in OpenChainsOf(c) :
        /\ {m \in OpenChainsOf(c) : <<chains[m].right, chains[m].strike>> = KeyOf(c)} = {n}
        /\ EndOfData(n).opt_pos < 0

\* "The poll duplicate must be a no-op" (test_rolls.py): the live copy of an
\* assignment that Flex reported changes no chain.  The code does not keep it: the copy
\* may find another short of the same right (README, 3).
DuplicateIsNoOp ==
  [][\A i \in 1..Len(tape) :
       feed = "both" /\ tape[i].kind = "assignedA" /\ tape' = RemoveAt(tape, i)
         => UNCHANGED chains]_vars
====
