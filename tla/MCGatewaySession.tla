-------------------------- MODULE MCGatewaySession --------------------------
(* GatewaySession with interchangeable clients, for model checking.          *)
EXTENDS GatewaySession, TLC

Symmetry == Permutations(Clients)
====
