------------------------------ MODULE MCPollers ------------------------------
(* Pollers with a registry of two gateways, and of one.                      *)
EXTENDS Pollers

CONSTANTS a1, a2

TwoUsers == <<a1, a2>>
OneUser == <<a1>>

\* The second gateway of the walk answers; the first may fail for ever.
Second == {a2}
First == {a1}
====
