--------------------------- MODULE MCChainRebuild ---------------------------
(* ChainRebuild with values for the functions on fills.                      *)
EXTENDS ChainRebuild

DistinctKeys == [f \in Fills |-> f]

\* Every fill opens a position of its own.
OwnPositions == [f \in Fills |-> f]

\* Fills 1 and 2 trade one position, the others one each.
SharedPosition == [f \in Fills |-> IF f = 2 THEN 1 ELSE f]
====
