------------------------------ MODULE MCFxRates ------------------------------
(* FxRates for the two directions of one pair of currencies.                 *)
EXTENDS FxRates

CONSTANTS there, back

BothWays == [p \in Pairs |-> IF p = there THEN back ELSE there]
====
