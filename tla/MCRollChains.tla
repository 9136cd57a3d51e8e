---------------------------- MODULE MCRollChains ----------------------------
(* RollChains with listed options.                                           *)
EXTENDS RollChains

Option(right, strike, expiry) == [right |-> right, strike |-> strike, expiry |-> expiry]

\* Two strikes of a put, one of them with two expiries, the second of which is beyond
\* the last day.
Puts == {Option("P", 2, 1), Option("P", 2, 4), Option("P", 3, 2)}

\* The same and a call.
Listed == Puts \cup {Option("C", 3, 2)}
====
