----------------------------- MODULE Executions -----------------------------
(***************************************************************************)
(* Rows of the executions table and the cross-feed duplicate rules of      *)
(* analytics/dedup.py.  A fill is one execution at the broker, numbered in *)
(* time; a row is one feed's record of it.                                 *)
(***************************************************************************)
EXTENDS Integers, FiniteSets

CONSTANTS
  MaxFill,   \* the fills are 1..MaxFill
  Options,   \* those in option contracts; the others are stock
  KeyOf      \* contract, side, quantity and price of a fill, as one value

Fills == 1..MaxFill

ASSUME MaxFillIsNatural == MaxFill \in Nat
ASSUME OptionsAreFills  == Options \subseteq Fills
ASSUME KeysOfFills      == DOMAIN KeyOf = Fills

\* A row is identified by its exec_id: the one IBKR's live API or its Flex report
\* gives the fill, or, in an uploaded CSV, one made from the fill and its line.
PollRow(f)      == [feed |-> "poll", fill |-> f, line |-> 0]
FlexRow(f)      == [feed |-> "flex", fill |-> f, line |-> 0]
CsvRow(f, line) == [feed |-> "csv",  fill |-> f, line |-> line]

Rows == [feed : {"poll", "flex", "csv"}, fill : Fills, line : 0..MaxFill]

Authoritative(r) == r.feed \in {"flex", "csv"}

\* option_content_key is None for stock and for a row without a conid, and no CSV
\* row has one.
HasKey(r)  == r.fill \in Options /\ r.feed # "csv"
KeyOfRow(r) == KeyOf[r.fill]

AuthoritativeKeys(rs) == {KeyOfRow(r) : r \in {q \in rs : Authoritative(q) /\ HasKey(q)}}

\* Mutant: an authoritative row counts as a duplicate of itself.
HasTwin(r, keys) == HasKey(r) /\ KeyOfRow(r) \in keys

IsSuperseded(r, keys) == ~Authoritative(r) /\ HasKey(r) /\ KeyOfRow(r) \in keys

\* superseded_poll_exec_ids: poll rows with an authoritative twin in the same set.
Superseded(rs) == {r \in rs : IsSuperseded(r, AuthoritativeKeys(rs))}
====
