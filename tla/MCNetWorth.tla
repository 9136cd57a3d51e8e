----------------------------- MODULE MCNetWorth -----------------------------
(* NetWorth with a CPF account whose two statements start on the same day   *)
(* (OA stands for the three sub-accounts), and an Endowus account that loses *)
(* a goal and changes its display currency.  Month 2 ends a year.            *)
EXTENDS NetWorth, TLC

CONSTANTS f1, f2, g1, g2, cpf, endowus, w1, w2

SomeReports ==
  (f1 :> (<<1, "OA">> :> 1 @@ <<2, "OA">> :> 4))
  @@ (f2 :> (<<1, "OA">> :> 1 @@ <<4, "OA">> :> 7))
  @@ (g1 :> (<<2, "home">> :> 10 @@ <<2, "travel">> :> 2))
  @@ (g2 :> (<<5, "home">> :> 9))

InOrder == <<cpf, endowus>>

SomeAccounts == [f \in Files |-> IF f \in {g1, g2} THEN endowus ELSE cpf]
SomeCurrencies == [f \in Files |-> IF f = g2 THEN "USD" ELSE "SGD"]
SomeRates == "SGD" :> 3 @@ "USD" :> 1
====
