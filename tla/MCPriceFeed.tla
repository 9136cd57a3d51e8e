----------------------------- MODULE MCPriceFeed -----------------------------
(* PriceFeed with one underlying that is watched and one that is only held.  *)
EXTENDS PriceFeed

CONSTANTS u1, u2, a1, a2

InOrderOfName == <<u1, u2>>
WatchFirst == {u1}
HoldSecond == [a \in {a1, a2} |-> IF a = a1 THEN {u2} ELSE {}]
====
