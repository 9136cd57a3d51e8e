------------------------------ MODULE MCIncome ------------------------------
(* Income with a Singapore account that trades options in two foreign        *)
(* currencies and a dollar account that trades in its own.                   *)
EXTENDS Income, TLC

CONSTANTS a1, a2

OneOrAll   == {<<a2>>, <<a2, a1>>}
SomeWorth  == "USD" :> 1 @@ "EUR" :> 2 @@ "SGD" :> 3
SomeBases  == a1 :> "SGD" @@ a2 :> "USD"
Foreign    == a1 :> {"USD", "EUR"} @@ a2 :> {"USD"}
SomeLiqs   == a1 :> 5 @@ a2 :> 7
FewChains  == a1 :> 2 @@ a2 :> 1
Withdrawals == a1 :> 1 @@ a2 :> 0
====
