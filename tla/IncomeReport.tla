---------------------------- MODULE IncomeReport ----------------------------
(***************************************************************************)
(* compute_income (analytics/income.py): an account's roll chains as       *)
(* monthly premium income.  Win rate, counts and notes are left out; a     *)
(* month without a withdrawal has one of 0.                                *)
(***************************************************************************)
EXTENDS Integers, Sequences, SequencesExt

SumOf(f(_), S) == SumFunction([x \in S |-> f(x)])

\* Mutant: an open chain counts the premium still at risk.
CountedInFull(c) == c.cumulative_credit

\* A closed chain counts in full, an open one what it has banked.
Counted(c) ==
  IF c.status = "closed" THEN c.cumulative_credit ELSE c.cumulative_credit - c.open_credit

\* Income by the month a chain was opened in, overlaid with the month's
\* withdrawal.
IncomeMonths(chs, withdrawn) ==
  [m \in {chs[n].opened_at : n \in DOMAIN chs} \cup DOMAIN withdrawn |->
     [pnl |-> SumOf(LAMBDA n : Counted(chs[n]), {n \in DOMAIN chs : chs[n].opened_at = m}),
      withdrawal |-> IF m \in DOMAIN withdrawn THEN withdrawn[m] ELSE 0]]

ComputeIncome(chs, withdrawn) ==
  LET months == IncomeMonths(chs, withdrawn)
      year   == SumOf(LAMBDA m : months[m].pnl, DOMAIN months)
      taken  == SumOf(LAMBDA m : months[m].withdrawal, DOMAIN months)
  IN  [months |-> months, all_time |-> year, withdrawn |-> taken, remaining |-> year - taken]
=============================================================================
