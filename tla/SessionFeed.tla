----------------------------- MODULE SessionFeed -----------------------------
(***************************************************************************)
(* How a browser tab follows a gateway's session state.  Every change is   *)
(* broadcast to the open WebSockets, one send after the other; a socket    *)
(* that opens is entered in the broadcast set and then sent a snapshot; a  *)
(* tab reconnects when its socket closes.  A tab also asks for the state   *)
(* once by REST when it loads, next to its first socket.                   *)
(*                                                                         *)
(* Each handler broadcasts in the step that changes the state, but for a   *)
(* login that raises: it logs the gateway out between the two.             *)
(*                                                                         *)
(* The state is the number of its changes.  Broadcasts that run at once    *)
(* are taken to reach a socket in the order in which they started.         *)
(***************************************************************************)
EXTENDS Naturals, Sequences

CONSTANTS
  Tabs,
  Loading,     \* tabs that are about to load; the others were open before the
               \* backend started, and only reconnect
  MaxChanges,  \* bound: changes of the session state
  MaxSockets   \* bound: sockets each tab opens

ASSUME ConstantsFit ==
  /\ Loading \subseteq Tabs
  /\ MaxChanges \in Nat
  /\ MaxSockets \in [Tabs -> Nat]

Sockets == UNION {{t} \X (1..MaxSockets[t]) : t \in Tabs}

VARIABLES
  state,      \* the session state in the registry
  unsent,     \* a login that raised has still to broadcast its change
  active,     \* manager.active
  pending,    \* what running broadcasts have still to send to a socket
  wire,       \* what a socket has been sent and its tab has not handled
  link,       \* a socket: "unused", "opened" (no snapshot yet), "live", "dead"
  opened,     \* how many sockets a tab has opened
  seed,       \* a tab's REST request: "asked", its answer on the way, or "done"
  seeded,     \* the state in an answer on its way, 0 without one
  view,       \* the state a tab shows, 0 before it knows any
  overtaken   \* history: the tab's REST answer came after newer messages

feedVars ==
  <<state, unsent, active, pending, wire, link, opened, seed, seeded, view, overtaken>>

Versions == 1..(MaxChanges + 1)
OpenStatus == {"opened", "live"}

\* Types; a socket that is open at the server's end is in the broadcast set.
FeedTypeOK ==
  /\ state \in Versions /\ unsent \in BOOLEAN
  /\ active \subseteq Sockets
  /\ pending \in [Sockets -> Seq(Versions)]
  /\ wire \in [Sockets -> Seq(Versions)]
  /\ link \in [Sockets -> {"unused", "opened", "live", "dead"}]
  /\ opened \in [Tabs -> Nat] /\ \A t \in Tabs : opened[t] <= MaxSockets[t]
  /\ seed \in [Tabs -> {"asked", "answered", "done"}]
  /\ seeded \in [Tabs -> Versions \cup {0}]
  /\ view \in [Tabs -> Versions \cup {0}]
  /\ overtaken \in [Tabs -> BOOLEAN]
  /\ \A s \in Sockets : link[s] \in OpenStatus => s \in active

FeedInit ==
  /\ state = 1 /\ unsent = FALSE
  /\ active = {}
  /\ pending = [s \in Sockets |-> <<>>]
  /\ wire = [s \in Sockets |-> <<>>]
  /\ link = [s \in Sockets |-> "unused"]
  /\ opened = [t \in Tabs |-> 0]
  /\ seed = [t \in Tabs |-> IF t \in Loading THEN "asked" ELSE "done"]
  /\ seeded = [t \in Tabs |-> 0]
  /\ view = [t \in Tabs |-> 0]
  /\ overtaken = [t \in Tabs |-> FALSE]

Current(t) == <<t, opened[t]>>
HasSocket(t) == opened[t] > 0 /\ link[Current(t)] \in OpenStatus

-----------------------------------------------------------------------------
(* The server.                                                               *)

\* broadcast_session: the payload and the sockets are those of this moment.
Broadcasting(payload) ==
  pending' = [s \in Sockets |-> IF s \in active THEN Append(pending[s], payload) ELSE pending[s]]

Changes ==
  /\ state <= MaxChanges
  /\ state' = state + 1
  /\ Broadcasting(state + 1)
  /\ UNCHANGED <<unsent, active, wire, link, opened, seed, seeded, view, overtaken>>

\* A login raises: the state changes, and the logout is awaited.
FailsUntold ==
  /\ state <= MaxChanges /\ ~unsent
  /\ state' = state + 1
  /\ unsent' = TRUE
  /\ UNCHANGED <<active, pending, wire, link, opened, seed, seeded, view, overtaken>>

\* Mutant: the logout raises as well, and nothing catches it.
NeverTells == unsent /\ UNCHANGED feedVars

\* The logout ended, one way or the other.
TellsLate ==
  /\ unsent
  /\ unsent' = FALSE
  /\ Broadcasting(state)
  /\ UNCHANGED <<state, active, wire, link, opened, seed, seeded, view, overtaken>>

\* Mutant: a send that fails empties the broadcast set.
DropsAll(s) == active' = {}

\* A send that fails is taken for a closed socket, and the others go on.
DropsDead(s) == active' = active \ {s}

\* The next send of a broadcast to a socket.  Those that follow a failed send
\* fail as well.
Sends(s) ==
  /\ pending[s] # <<>>
  /\ IF link[s] \in OpenStatus
     THEN /\ wire' = [wire EXCEPT ![s] = Append(@, Head(pending[s]))]
          /\ pending' = [pending EXCEPT ![s] = Tail(@)]
          /\ UNCHANGED active
     ELSE /\ DropsDead(s)
          /\ pending' = [pending EXCEPT ![s] = <<>>]
          /\ UNCHANGED wire
  /\ UNCHANGED <<state, unsent, link, opened, seed, seeded, view, overtaken>>

\* The login cookie is checked, the socket accepted and entered in the set.
Opens(t) ==
  /\ ~HasSocket(t) /\ opened[t] < MaxSockets[t]
  /\ opened' = [opened EXCEPT ![t] = @ + 1]
  /\ link' = [link EXCEPT ![<<t, opened[t] + 1>>] = "opened"]
  /\ active' = active \cup {<<t, opened[t] + 1>>}
  /\ UNCHANGED <<state, unsent, pending, wire, seed, seeded, view, overtaken>>

\* Mutant: the snapshot holds what was read before the socket was entered.
SendsEarlierSnapshot(s) ==
  /\ link[s] = "opened"
  /\ link' = [link EXCEPT ![s] = "live"]
  /\ wire' = [wire EXCEPT ![s] = Append(@, 1)]
  /\ UNCHANGED <<state, unsent, active, pending, opened, seed, seeded, view, overtaken>>

\* registry.to_dict() of this moment, sent next to the broadcasts.
SendsSnapshot(s) ==
  /\ link[s] = "opened"
  /\ link' = [link EXCEPT ![s] = "live"]
  /\ wire' = [wire EXCEPT ![s] = Append(@, state)]
  /\ UNCHANGED <<state, unsent, active, pending, opened, seed, seeded, view, overtaken>>

-----------------------------------------------------------------------------
(* The network and the tabs.                                                 *)

\* A connection breaks, and what was on its way is lost.  The server learns
\* of it from receive_text or from the next send.
Breaks(s) ==
  /\ link[s] \in OpenStatus
  /\ link' = [link EXCEPT ![s] = "dead"]
  /\ wire' = [wire EXCEPT ![s] = <<>>]
  /\ UNCHANGED <<state, unsent, active, pending, opened, seed, seeded, view, overtaken>>

Disconnects(s) ==
  /\ link[s] = "dead" /\ s \in active
  /\ active' = active \ {s}
  /\ UNCHANGED <<state, unsent, pending, wire, link, opened, seed, seeded, view, overtaken>>

\* onmessage: a message of a tab's socket replaces what it shows.
Receives(t) ==
  /\ HasSocket(t) /\ wire[Current(t)] # <<>>
  /\ view' = [view EXCEPT ![t] = Head(wire[Current(t)])]
  /\ wire' = [wire EXCEPT ![Current(t)] = Tail(@)]
  /\ overtaken' = [overtaken EXCEPT ![t] = FALSE]
  /\ UNCHANGED <<state, unsent, active, pending, link, opened, seed, seeded>>

SeedAnswered(t) ==
  /\ seed[t] = "asked"
  /\ seed' = [seed EXCEPT ![t] = "answered"]
  /\ seeded' = [seeded EXCEPT ![t] = state]
  /\ UNCHANGED <<state, unsent, active, pending, wire, link, opened, view, overtaken>>

\* .then(setSessions): the answer replaces what the tab shows, newer or not.
SeedArrives(t) ==
  /\ seed[t] = "answered"
  /\ seed' = [seed EXCEPT ![t] = "done"]
  /\ view' = [view EXCEPT ![t] = seeded[t]]
  /\ overtaken' = [overtaken EXCEPT ![t] = seeded[t] < view[t]]
  /\ seeded' = [seeded EXCEPT ![t] = 0]
  /\ UNCHANGED <<state, unsent, active, pending, wire, link, opened>>

\* .catch(() => {})
SeedFails(t) ==
  /\ seed[t] # "done"
  /\ seed' = [seed EXCEPT ![t] = "done"]
  /\ seeded' = [seeded EXCEPT ![t] = 0]
  /\ UNCHANGED <<state, unsent, active, pending, wire, link, opened, view, overtaken>>

FeedNext ==
  \/ Changes \/ FailsUntold \/ TellsLate
  \/ \E s \in Sockets : Sends(s) \/ SendsSnapshot(s) \/ Breaks(s) \/ Disconnects(s)
  \/ \E t \in Tabs : Opens(t) \/ Receives(t) \/ SeedAnswered(t) \/ SeedArrives(t) \/ SeedFails(t)

FeedSpec == FeedInit /\ [][FeedNext]_feedVars

\* What goes on without a change of state or of the network: coroutines that
\* can run do, the awaited logout ends (the request has a timeout), open
\* connections deliver, requests end, and a tab without a socket connects again
\* after its pause.  One condition for all is enough, since the bounds leave
\* none of them more than finitely many steps.
Progress ==
  \/ TellsLate
  \/ \E s \in Sockets : Sends(s) \/ SendsSnapshot(s)
  \/ \E t \in Tabs : Opens(t) \/ Receives(t) \/ SeedArrives(t) \/ SeedFails(t)

FeedFairness == WF_feedVars(Progress)

FeedFairSpec == FeedSpec /\ FeedFairness

-----------------------------------------------------------------------------
\* A tab whose socket is up and has nothing on the way shows the registry's
\* state: no change falls between the snapshot and the broadcasts, and none is
\* lost with another tab's broken connection.  Only the REST answer of its own
\* load can have replaced it, and only while a login that raised waits for its
\* logout is there a change the tabs have not been told of.
QuietMeansCurrent ==
  \A t \in Tabs :
    LET s == Current(t) IN
    ~unsent /\ HasSocket(t) /\ link[s] = "live" /\ pending[s] = <<>> /\ wire[s] = <<>>
      => view[t] = state \/ overtaken[t]

\* A tab that stays connected comes to show the registry's state, however often
\* its connections broke before, unless its REST answer was overtaken.
ViewConverges ==
  \A t \in Tabs :
    <>[]HasSocket(t) => <>[](view[t] = state \/ overtaken[t])
=============================================================================
