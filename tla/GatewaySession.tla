--------------------------- MODULE GatewaySession ---------------------------
(***************************************************************************)
(* The session lifecycle of ONE user's IBKR gateway: the in-memory         *)
(* SessionState (core/state.py), the login and logout requests and the     *)
(* passive monitor that share it (poller/jobs/session.py), and the gateway *)
(* container with its two-factor push, which the backend sees only through *)
(* Docker and auth_status/logout calls.                                    *)
(*                                                                         *)
(* Everything runs on one asyncio loop, so a step is the code between two  *)
(* awaits.  What a coroutine read before an await may be stale after it.   *)
(***************************************************************************)
EXTENDS Naturals, FiniteSets

CONSTANTS
  Clients,     \* browser tabs or API callers; each has one request in flight
  Monitor,     \* the session_monitor job (max_instances=1: a single process)
  StaleViews,  \* TRUE: a caller may act although its buttons would be disabled
  Faults       \* TRUE: a login or an adoption may raise what is not an IBKRError
               \* (a transport error after its retries, a database error)

ASSUME MonitorIsNoClient == Monitor \notin Clients
ASSUME FlagsAreBoolean   == StaleViews \in BOOLEAN /\ Faults \in BOOLEAN

Procs == Clients \cup {Monitor}

VARIABLES
  \* SessionState (display-only fields -- connected, message, times -- left out)
  status, authenticated, competing, account_id, user_logged_in,
  login_requested_at,   \* "none", "recent" (within the adopt window) or "old"
  \* control: where each coroutine awaits, and the monitor's auth_status answer
  pc, answer,
  \* the gateway container and the push on the user's phone
  gateway, push,
  \* history: `fresh` - the gateway's session was approved through a push sent
  \* after the last login click; `loggedOut` - the last logout ("quiet": nothing
  \* was in flight when it finished) with no login click since
  fresh, loggedOut

session == <<status, authenticated, competing, account_id, user_logged_in, login_requested_at>>
vars == <<session, pc, answer, gateway, push, fresh, loggedOut>>

Statuses      == {"unknown", "disconnected", "authenticated", "pulling", "logging_in"}
GatewayStates == {"down", "idle", "competing", "authenticated"}
Answers       == GatewayStates \cup {"refused", "broken"}

\* clicked: login broadcast, container not restarted yet      await, grace: polling
\* auth_status       detect: finding the account       pull: batch pull and persist
\* abort: logout after a failed login       asked: auth_status answered
\* release, released: a logout call in flight, and returned
PCs == {"idle", "clicked", "await", "grace", "detect", "pull", "abort",
        "asked", "release", "released"}

TypeOK ==
  /\ status \in Statuses
  /\ authenticated \in BOOLEAN /\ competing \in BOOLEAN /\ user_logged_in \in BOOLEAN
  /\ account_id \in {"none", "known"}
  /\ login_requested_at \in {"none", "recent", "old"}
  /\ pc \in [Procs -> PCs]
  /\ answer \in Answers
  /\ gateway \in GatewayStates
  /\ push \in {"none", "new", "old"}
  /\ fresh \in BOOLEAN
  /\ loggedOut \in {"no", "quiet", "busy"}

LoginInProgress  == status \in {"logging_in", "pulling"}
LoginPCs         == {"clicked", "await", "grace", "detect", "pull"}
Working          == \E p \in Procs : pc[p] \in LoginPCs
Goto(p, to)      == pc' = [pc EXCEPT ![p] = to]

\* The lifespan stops the containers, but goes on if Docker is unavailable: a
\* gateway that outlived the previous backend may be in any state.
Init ==
  /\ status = "unknown" /\ account_id = "none" /\ login_requested_at = "none"
  /\ authenticated = FALSE /\ competing = FALSE /\ user_logged_in = FALSE
  /\ pc = [p \in Procs |-> "idle"]
  /\ answer = "broken"
  /\ gateway \in GatewayStates
  /\ push \in {"none", "old"}
  /\ fresh = FALSE
  /\ loggedOut = "no"

-----------------------------------------------------------------------------
(* The buttons: Pull Fresh Data while logged out, Logout while logged in,  *)
(* both disabled while a login is in progress.                              *)

LoginButton  == ~user_logged_in /\ ~LoginInProgress
LogoutButton == user_logged_in /\ ~LoginInProgress

SetDisconnected ==
  /\ status' = "disconnected"
  /\ authenticated' = FALSE

\* orchestrate_login up to its first broadcast.  A push sent before this click
\* is an old one from here on.
OrchestrateLogin(c) ==
  /\ pc[c] = "idle"
  /\ StaleViews \/ LoginButton
  /\ status' = "logging_in"
  /\ competing' = FALSE
  /\ login_requested_at' = "recent"
  /\ Goto(c, "clicked")
  /\ push' = IF push = "new" THEN "old" ELSE push
  /\ fresh' = FALSE
  /\ loggedOut' = "no"
  /\ UNCHANGED <<authenticated, account_id, user_logged_in, answer, gateway>>

\* Restarting the container cuts every logout call on its way to the old one; the
\* client's two retries are spent before the new one can be authenticated.
CutCalls(c) ==
  pc' = [p \in Procs |-> CASE p = c               -> "await"
                           [] pc[p] = "release"   -> "released"
                           [] p # c /\ pc[p] = "abort" -> "idle"
                           [] OTHER               -> pc[p]]

\* _restart_ibeam blocks the loop: no other coroutine runs until Docker answers.
RestartIbeam(c) ==
  /\ pc[c] = "clicked"
  /\ gateway' = "down"
  /\ push' = "new"
  /\ fresh' = FALSE
  /\ CutCalls(c)
  /\ UNCHANGED <<session, answer, loggedOut>>

RestartIbeamFails(c) ==
  /\ pc[c] = "clicked"
  /\ SetDisconnected
  /\ Goto(c, "idle")
  /\ UNCHANGED <<competing, account_id, user_logged_in, login_requested_at,
                 answer, gateway, push, fresh, loggedOut>>

\* One round of either polling loop that sees the gateway authenticated.
SeesAuthentication(c) ==
  /\ pc[c] \in {"await", "grace"}
  /\ gateway = "authenticated"
  /\ Goto(c, "detect")
  /\ UNCHANGED <<session, answer, gateway, push, fresh, loggedOut>>

\* Only the first loop looks at `competing`.
SeesCompeting(c) ==
  /\ pc[c] = "await"
  /\ gateway = "competing"
  /\ ~competing
  /\ competing' = TRUE
  /\ UNCHANGED <<status, authenticated, account_id, user_logged_in, login_requested_at,
                 pc, answer, gateway, push, fresh, loggedOut>>

DeadlinePasses(c) ==
  /\ pc[c] = "await"
  /\ Goto(c, "grace")
  /\ UNCHANGED <<session, answer, gateway, push, fresh, loggedOut>>

\* Mutant: the timeout leaves LOGGING_IN on display.
GracePassesBusy(c) ==
  /\ pc[c] = "grace"
  /\ Goto(c, "idle")
  /\ UNCHANGED <<session, answer, gateway, push, fresh, loggedOut>>

\* The request times out; login_requested_at stays, for the monitor to adopt.
GracePasses(c) ==
  /\ pc[c] = "grace"
  /\ SetDisconnected
  /\ Goto(c, "idle")
  /\ UNCHANGED <<competing, account_id, user_logged_in, login_requested_at,
                 answer, gateway, push, fresh, loggedOut>>

\* The first polling loop swallows every exception; the grace loop, account
\* detection and the batch pull let a transport or database error through.
LoginRaises(c) ==
  /\ Faults
  /\ pc[c] \in {"grace", "detect", "pull"}
  /\ SetDisconnected
  /\ login_requested_at' = "none"
  /\ Goto(c, "abort")
  /\ UNCHANGED <<competing, account_id, user_logged_in,
                 answer, gateway, push, fresh, loggedOut>>

\* client.logout(): the gateway ends its session, or the call fails.
GatewayLogsOut ==
  /\ gateway' = IF gateway = "authenticated" THEN "idle" ELSE gateway
  /\ fresh' = FALSE

GatewayKeeps == UNCHANGED <<gateway, fresh>>

\* The clean-up logout of a failed login; whatever it raises is swallowed.
AbortLogout(c) ==
  /\ pc[c] = "abort"
  /\ GatewayLogsOut \/ GatewayKeeps
  /\ Goto(c, "idle")
  /\ UNCHANGED <<session, answer, push, loggedOut>>

-----------------------------------------------------------------------------
(* _finalize_authenticated_session, run by a login request or, when it      *)
(* adopts a late approval, by the monitor.                                   *)

\* Account found and registered: the state becomes PULLING, whatever it was.
AccountDetected(p) ==
  /\ pc[p] = "detect"
  /\ status' = "pulling"
  /\ authenticated' = TRUE
  /\ account_id' = "known"
  /\ Goto(p, "pull")
  /\ UNCHANGED <<competing, user_logged_in, login_requested_at,
                 answer, gateway, push, fresh, loggedOut>>

\* Mutant: no account, and the state is left as it was.
AccountMissingBusy(p) ==
  /\ pc[p] = "detect"
  /\ Goto(p, "idle")
  /\ UNCHANGED <<session, answer, gateway, push, fresh, loggedOut>>

AccountMissing(p) ==
  /\ pc[p] = "detect"
  /\ SetDisconnected
  /\ Goto(p, "idle")
  /\ UNCHANGED <<competing, account_id, user_logged_in, login_requested_at,
                 answer, gateway, push, fresh, loggedOut>>

\* Mutant: the login click is not consumed.
PullFinishedKeepingClick(p) ==
  /\ pc[p] = "pull"
  /\ status' = "authenticated"
  /\ authenticated' = TRUE
  /\ account_id' = "known"
  /\ user_logged_in' = TRUE
  /\ Goto(p, "idle")
  /\ UNCHANGED <<competing, login_requested_at, answer, gateway, push, fresh, loggedOut>>

\* Batch pull, persist and optional Flex import are behind it: the user is
\* logged in and the login click is consumed.
PullFinished(p) ==
  /\ pc[p] = "pull"
  /\ status' = "authenticated"
  /\ authenticated' = TRUE
  /\ account_id' = "known"
  /\ user_logged_in' = TRUE
  /\ login_requested_at' = "none"
  /\ Goto(p, "idle")
  /\ UNCHANGED <<competing, answer, gateway, push, fresh, loggedOut>>

\* monitor_one only logs what an adoption raises: the state is left as it is.
AdoptionRaises ==
  /\ Faults
  /\ pc[Monitor] \in {"detect", "pull"}
  /\ Goto(Monitor, "idle")
  /\ UNCHANGED <<session, answer, gateway, push, fresh, loggedOut>>

-----------------------------------------------------------------------------
(* orchestrate_logout.                                                       *)

OrchestrateLogout(c) ==
  /\ pc[c] = "idle"
  /\ StaleViews \/ LogoutButton
  /\ Goto(c, "release")
  /\ UNCHANGED <<session, answer, gateway, push, fresh, loggedOut>>

\* A logout call, the user's or the monitor's, is served or refused.
ReleaseServed(p) ==
  /\ pc[p] = "release"
  /\ GatewayLogsOut
  /\ Goto(p, "released")
  /\ UNCHANGED <<session, answer, push, loggedOut>>

ReleaseRefused(p) ==
  /\ pc[p] = "release"
  /\ Goto(p, "released")
  /\ UNCHANGED <<session, answer, gateway, push, fresh, loggedOut>>

\* Mutant: the logout forgets to clear the login click.
LogoutKeepsClick(c) ==
  /\ pc[c] = "released"
  /\ SetDisconnected
  /\ user_logged_in' = FALSE
  /\ competing' = FALSE
  /\ loggedOut' = IF Working THEN "busy" ELSE "quiet"
  /\ Goto(c, "idle")
  /\ UNCHANGED <<account_id, login_requested_at, answer, gateway, push, fresh>>

\* A logout waits for nobody: a login or an adoption still in flight goes on.
LogoutFinishes(c) ==
  /\ pc[c] = "released"
  /\ SetDisconnected
  /\ user_logged_in' = FALSE
  /\ competing' = FALSE
  /\ login_requested_at' = "none"
  /\ loggedOut' = IF Working THEN "busy" ELSE "quiet"
  /\ Goto(c, "idle")
  /\ UNCHANGED <<account_id, answer, gateway, push, fresh>>

-----------------------------------------------------------------------------
(* monitor_one: ask auth_status; with the answer in hand, look at the state  *)
(* as it is by then.                                                         *)

\* A gateway that is down answers with an error; one that is up may, too.
MonitorAsks(a) ==
  /\ pc[Monitor] = "idle"
  /\ a \in {"refused", "broken"} \cup ({gateway} \ {"down"})
  /\ answer' = a
  /\ Goto(Monitor, "asked")
  /\ UNCHANGED <<session, gateway, push, fresh, loggedOut>>

\* Mutant: a timed-out request no longer counts as a recent click.
IntentWhileLoggingIn == login_requested_at = "recent" /\ LoginInProgress

\* _recent_login_intent: the click is within the adopt window.
RecentLoginIntent == login_requested_at = "recent"

MonitorHolds(a) == pc[Monitor] = "asked" /\ answer = a

MonitorSkips ==
  /\ pc[Monitor] = "asked"
  /\ answer \in GatewayStates
  /\ LoginInProgress \/ (user_logged_in /\ answer = "authenticated")
  /\ Goto(Monitor, "idle")
  /\ UNCHANGED <<session, answer, gateway, push, fresh, loggedOut>>

MonitorAdopts ==
  /\ MonitorHolds("authenticated")
  /\ ~LoginInProgress /\ ~user_logged_in /\ RecentLoginIntent
  /\ Goto(Monitor, "detect")
  /\ UNCHANGED <<session, answer, gateway, push, fresh, loggedOut>>

\* Mutant: a stray is released only if nobody ever clicked.
MonitorReleasesUnclicked ==
  /\ MonitorHolds("authenticated")
  /\ ~LoginInProgress /\ ~user_logged_in /\ login_requested_at = "none"
  /\ Goto(Monitor, "release")
  /\ UNCHANGED <<session, answer, gateway, push, fresh, loggedOut>>

MonitorReleases ==
  /\ MonitorHolds("authenticated")
  /\ ~LoginInProgress /\ ~user_logged_in /\ ~RecentLoginIntent
  /\ Goto(Monitor, "release")
  /\ UNCHANGED <<session, answer, gateway, push, fresh, loggedOut>>

\* The state is overwritten without a second look at it.
MonitorReleased ==
  /\ pc[Monitor] = "released"
  /\ SetDisconnected
  /\ Goto(Monitor, "idle")
  /\ UNCHANGED <<competing, account_id, user_logged_in, login_requested_at,
                 answer, gateway, push, fresh, loggedOut>>

\* Mutant: the gateway's answer is taken for a status.
MonitorStoresAnswer ==
  /\ pc[Monitor] = "asked" /\ answer \in {"idle", "competing"}
  /\ ~LoginInProgress
  /\ status' = answer
  /\ authenticated' = FALSE
  /\ Goto(Monitor, "idle")
  /\ UNCHANGED <<competing, account_id, user_logged_in, login_requested_at,
                 answer, gateway, push, fresh, loggedOut>>

\* Not authenticated: a competing session is shown, a lost one keeps
\* user_logged_in, and `competing` is never taken back here.
MonitorSeesNoSession ==
  /\ pc[Monitor] = "asked" /\ answer \in {"idle", "competing"}
  /\ ~LoginInProgress
  /\ SetDisconnected
  /\ competing' = (competing \/ (answer = "competing" /\ ~user_logged_in))
  /\ Goto(Monitor, "idle")
  /\ UNCHANGED <<account_id, user_logged_in, login_requested_at,
                 answer, gateway, push, fresh, loggedOut>>

\* The except branches: they ask who is logged in, not whether a login runs.
MonitorFails ==
  /\ \/ pc[Monitor] = "asked" /\ answer \in {"refused", "broken"}
     \/ pc[Monitor] \in {"release", "released"} /\ answer = "authenticated"
  /\ IF user_logged_in
     THEN UNCHANGED <<status, authenticated>>
     ELSE /\ status' = "disconnected"
          /\ authenticated' = (authenticated /\ answer # "refused")
  /\ Goto(Monitor, "idle")
  /\ UNCHANGED <<competing, account_id, user_logged_in, login_requested_at,
                 answer, gateway, push, fresh, loggedOut>>

-----------------------------------------------------------------------------
(* The clock, the phone and the gateway.                                     *)

\* The 300 s adopt window closes; the login request may even be polling still.
IntentAges ==
  /\ login_requested_at = "recent"
  /\ login_requested_at' = "old"
  /\ UNCHANGED <<status, authenticated, competing, account_id, user_logged_in,
                 pc, answer, gateway, push, fresh, loggedOut>>

UserApproves ==
  /\ push # "none" /\ gateway \in {"idle", "competing"}
  /\ gateway' = "authenticated"
  /\ fresh' = (push = "new")
  /\ push' = "none"
  /\ UNCHANGED <<session, pc, answer, loggedOut>>

PushLapses ==
  /\ push # "none"
  /\ push' = "none"
  /\ UNCHANGED <<session, pc, answer, gateway, fresh, loggedOut>>

\* The container comes up or dies, IBKR drops the session, another device
\* takes it, or the gateway re-establishes one nobody asked for.
GatewayDrifts ==
  /\ gateway' \in GatewayStates \ {gateway}
  /\ fresh' = FALSE
  /\ UNCHANGED <<session, pc, answer, push, loggedOut>>

\* The backend process restarts: requests die, the session state is in memory
\* only, and the lifespan stops the container if Docker lets it.
BackendRestarts ==
  /\ status' = "unknown" /\ account_id' = "none" /\ login_requested_at' = "none"
  /\ authenticated' = FALSE /\ competing' = FALSE /\ user_logged_in' = FALSE
  /\ pc' = [p \in Procs |-> "idle"]
  /\ gateway' \in {gateway, "down"}
  /\ fresh' = FALSE
  /\ push' = IF push = "new" THEN "old" ELSE push
  /\ UNCHANGED <<answer, loggedOut>>

-----------------------------------------------------------------------------
ClientStep(c) ==
  \/ RestartIbeam(c) \/ RestartIbeamFails(c)
  \/ SeesAuthentication(c) \/ SeesCompeting(c) \/ DeadlinePasses(c) \/ GracePasses(c)
  \/ AccountDetected(c) \/ AccountMissing(c) \/ PullFinished(c)
  \/ LoginRaises(c) \/ AbortLogout(c)
  \/ ReleaseServed(c) \/ ReleaseRefused(c) \/ LogoutFinishes(c)

MonitorStep ==
  \/ \E a \in Answers : MonitorAsks(a)
  \/ MonitorSkips \/ MonitorAdopts \/ MonitorReleases \/ MonitorReleased
  \/ MonitorSeesNoSession \/ MonitorFails
  \/ AccountDetected(Monitor) \/ AccountMissing(Monitor) \/ PullFinished(Monitor)
  \/ AdoptionRaises
  \/ ReleaseServed(Monitor) \/ ReleaseRefused(Monitor)

UserClicks == \E c \in Clients : OrchestrateLogin(c) \/ OrchestrateLogout(c)

Environment == IntentAges \/ UserApproves \/ PushLapses \/ GatewayDrifts

Next ==
  \/ UserClicks
  \/ \E c \in Clients : ClientStep(c)
  \/ MonitorStep
  \/ Environment
  \/ BackendRestarts

Spec == Init /\ [][Next]_vars

(***************************************************************************)
(* Fairness.  Coroutines run on; the scheduler starts the monitor again    *)
(* and again; a gateway that is up does not answer every auth_status call, *)
(* refuse every logout and hide its account forever.  Nothing is asked of  *)
(* the user, the phone or the container, except that clicks and restarts   *)
(* of the backend do not go on without end.                                *)
(***************************************************************************)
MonitorHears == gateway # "down" /\ MonitorAsks(gateway)

Fairness ==
  /\ \A c \in Clients : WF_vars(ClientStep(c))
  /\ WF_vars(MonitorStep)
  /\ SF_vars(MonitorHears)
  /\ SF_vars(ReleaseServed(Monitor))
  /\ SF_vars(AccountDetected(Monitor))
  /\ <>[][~(UserClicks \/ BackendRestarts)]_vars

FairSpec == Spec /\ Fairness

-----------------------------------------------------------------------------
(* Invariants.                                                               *)

\* An AUTHENTICATED gateway is logged in on a known account and has consumed
\* its login click: whichever of several logins and adoptions wrote last, a
\* later loss of the session cannot be taken for a late approval of that click.
AuthenticatedIsConsistent ==
  status = "authenticated" =>
    /\ authenticated /\ user_logged_in
    /\ account_id = "known" /\ login_requested_at = "none"

\* While the monitor's logout is on its way to the gateway, the session it will
\* end is never one the user approved for a click still in its adopt window
\* ("a slow approval no longer gets logged straight back out").
ApprovedLoginNotReleased ==
  pc[Monitor] = "release" => ~(fresh /\ login_requested_at = "recent")

\* After a logout that finished with no login or adoption in flight, nobody is
\* logged in again without a new click ("so the monitor won't re-adopt").
LogoutNotReadopted == loggedOut = "quiet" => ~user_logged_in

\* LOGGING_IN and PULLING mean that some login or adoption is running: the
\* monitor, which stands back in these states, will be let in again.
BusyMeansWorking == LoginInProgress => Working

(* Claims of the repository that the code does not keep (README, 3).         *)

\* The monitor adopts only what authenticated after the login request returned.  A call
\* that fails while the container restarts overwrites LOGGING_IN.
AdoptsAfterReturn ==
  pc[Monitor] \in {"detect", "pull"} =>
    \A c \in Clients : pc[c] \notin LoginPCs

\* A logout holds until the next click, whatever was in flight.  A pull in flight
\* ends by declaring the session live.
LogoutHolds == loggedOut # "no" => ~user_logged_in

(* Liveness, under FairSpec.                                                 *)

\* A gateway authenticated with no user logged in is released or adopted.
StrayReleased ==
  (gateway = "authenticated" /\ ~user_logged_in)
     ~> (gateway # "authenticated" \/ user_logged_in)

\* A push approved for the last click, even after its request timed out, leads
\* to a live session while the click is recent and the gateway stays up.
LateApprovalAdopted ==
  (fresh /\ login_requested_at = "recent")
     ~> (status = "authenticated" \/ ~fresh \/ login_requested_at = "old")
====
