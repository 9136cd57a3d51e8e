-------------------------- MODULE MCExecutionStore --------------------------
(* ExecutionStore with values for KeyOf.                                     *)
EXTENDS ExecutionStore

\* Every fill differs from every other in contract, side, quantity or price.
DistinctKeys == [f \in Fills |-> f]

\* Fills 1 and 2 are the same trade done twice.
TwinKeys == [f \in Fills |-> IF f = 2 THEN 1 ELSE f]
====
