---------------------------- MODULE MCSessionFeed ----------------------------
(* SessionFeed for a tab that connects twice and one that connects once.     *)
EXTENDS SessionFeed, TLC

CONSTANTS t1, t2

SocketsOfTabs == t1 :> 2 @@ t2 :> 1
====
