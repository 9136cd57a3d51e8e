----------------------------- MODULE FillLedger -----------------------------
(***************************************************************************)
(* What the executions table promises, whichever feed reported what and    *)
(* however often: the trading history it holds only grows.  A fill once    *)
(* known stays known, and a fill once confirmed by an authoritative feed   *)
(* (Flex or a statement upload) stays confirmed.                           *)
(***************************************************************************)
CONSTANT Fills
VARIABLES known, confirmed

Init == known = {} /\ confirmed = {}

Learn ==
  /\ known' \in SUBSET Fills /\ known \subseteq known'
  /\ confirmed' \in SUBSET known' /\ confirmed \subseteq confirmed'

Spec == Init /\ [][Learn]_<<known, confirmed>>
====
