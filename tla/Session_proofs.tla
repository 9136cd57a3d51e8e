-------------------------- MODULE Session_proofs ---------------------------
(* Proofs about a gateway's session and about what the browser tabs show of *)
(* it: GatewaySession and SessionFeed.  The modules share no variable.      *)
EXTENDS GatewaySession, SessionFeed, SequenceTheorems, TLAPS

-----------------------------------------------------------------------------
(* GatewaySession: one gateway, for any number of clients.                 *)

(***************************************************************************)
(* Types.  TypeOK in two halves: flags for Zenon, the rest for SMT.        *)
(***************************************************************************)
FlagsOK ==
  /\ authenticated \in BOOLEAN /\ competing \in BOOLEAN
  /\ user_logged_in \in BOOLEAN /\ fresh \in BOOLEAN

ControlOK ==
  /\ status \in Statuses
  /\ account_id \in {"none", "known"}
  /\ login_requested_at \in {"none", "recent", "old"}
  /\ pc \in [Procs -> PCs]
  /\ answer \in Answers
  /\ gateway \in GatewayStates
  /\ push \in {"none", "new", "old"}
  /\ loggedOut \in {"no", "quiet", "busy"}

LEMMA FlagsPreserved == FlagsOK /\ [Next]_vars => FlagsOK'
<1> SUFFICES ASSUME FlagsOK, [Next]_vars PROVE FlagsOK' OBVIOUS
<1> USE DEF FlagsOK, session
<1>1. ASSUME NEW c \in Clients, OrchestrateLogin(c) \/ OrchestrateLogout(c) PROVE
      FlagsOK'
  BY Zenon, <1>1 DEF OrchestrateLogin, OrchestrateLogout
<1>2. ASSUME NEW c \in Clients, ClientStep(c) PROVE FlagsOK'
  BY Zenon, <1>2 DEF ClientStep, RestartIbeam, CutCalls, RestartIbeamFails,
        SetDisconnected, SeesAuthentication, SeesCompeting, DeadlinePasses,
        GracePasses, AccountDetected, AccountMissing, PullFinished, LoginRaises,
        AbortLogout, GatewayLogsOut, GatewayKeeps, ReleaseServed, ReleaseRefused,
        LogoutFinishes
<1>3. CASE MonitorStep
  BY Zenon, <1>3 DEF MonitorStep, MonitorAsks, MonitorSkips, MonitorAdopts,
        MonitorHolds, MonitorReleases, MonitorReleased, SetDisconnected,
        MonitorSeesNoSession, MonitorFails, AccountDetected, AccountMissing,
        PullFinished, AdoptionRaises, ReleaseServed, GatewayLogsOut, ReleaseRefused
<1>4. CASE Environment BY Zenon, <1>4 DEF Environment, IntentAges, UserApproves,
      PushLapses, GatewayDrifts
<1>5. CASE BackendRestarts BY Zenon, <1>5 DEF BackendRestarts
<1>6. CASE UNCHANGED vars BY Zenon, <1>6 DEF vars
<1> QED BY <1>1, <1>2, <1>3, <1>4, <1>5, <1>6 DEF Next, UserClicks

LEMMA ControlPreserved == ControlOK /\ [Next]_vars => ControlOK'
<1> SUFFICES ASSUME ControlOK, [Next]_vars PROVE ControlOK' OBVIOUS
<1> USE DEF ControlOK, session, Statuses, GatewayStates, Answers, PCs, Procs, Goto
<1>1. ASSUME NEW c \in Clients, OrchestrateLogin(c) \/ OrchestrateLogout(c) PROVE
      ControlOK'
  <2>1. CASE OrchestrateLogin(c) BY <2>1 DEF OrchestrateLogin
  <2>2. CASE OrchestrateLogout(c) BY <2>2 DEF OrchestrateLogout
  <2> QED BY <1>1, <2>1, <2>2
<1>2. ASSUME NEW c \in Clients, ClientStep(c) PROVE ControlOK'
  <2>1. CASE RestartIbeam(c) BY <2>1 DEF RestartIbeam, CutCalls
  <2>2. CASE RestartIbeamFails(c) BY <2>2 DEF RestartIbeamFails, SetDisconnected
  <2>3. CASE SeesAuthentication(c) BY <2>3 DEF SeesAuthentication
  <2>4. CASE SeesCompeting(c) BY <2>4 DEF SeesCompeting
  <2>5. CASE DeadlinePasses(c) BY <2>5 DEF DeadlinePasses
  <2>6. CASE GracePasses(c) BY <2>6 DEF GracePasses, SetDisconnected
  <2>7. CASE AccountDetected(c) BY <2>7 DEF AccountDetected
  <2>8. CASE AccountMissing(c) BY <2>8 DEF AccountMissing, SetDisconnected
  <2>9. CASE PullFinished(c) BY <2>9 DEF PullFinished
  <2>10. CASE LoginRaises(c) BY <2>10 DEF LoginRaises, SetDisconnected
  <2>11. CASE AbortLogout(c) BY <2>11 DEF AbortLogout, GatewayLogsOut, GatewayKeeps
  <2>12. CASE ReleaseServed(c) BY <2>12 DEF ReleaseServed, GatewayLogsOut
  <2>13. CASE ReleaseRefused(c) BY <2>13 DEF ReleaseRefused
  <2>14. CASE LogoutFinishes(c) BY <2>14 DEF LogoutFinishes, SetDisconnected
  <2> QED BY <1>2, <2>1, <2>2, <2>3, <2>4, <2>5, <2>6, <2>7, <2>8, <2>9, <2>10, <2>11,
        <2>12, <2>13, <2>14 DEF ClientStep
<1>3. CASE MonitorStep
  <2>1. ASSUME NEW a \in Answers, MonitorAsks(a) PROVE ControlOK'
    BY <2>1 DEF MonitorAsks
  <2>2. CASE MonitorSkips BY <2>2 DEF MonitorSkips
  <2>3. CASE MonitorAdopts BY <2>3 DEF MonitorAdopts, MonitorHolds
  <2>4. CASE MonitorReleases BY <2>4 DEF MonitorReleases, MonitorHolds
  <2>5. CASE MonitorReleased BY <2>5 DEF MonitorReleased, SetDisconnected
  <2>6. CASE MonitorSeesNoSession BY <2>6 DEF MonitorSeesNoSession, SetDisconnected
  <2>7. CASE MonitorFails BY <2>7 DEF MonitorFails
  <2>8. CASE AccountDetected(Monitor) BY <2>8 DEF AccountDetected
  <2>9. CASE AccountMissing(Monitor) BY <2>9 DEF AccountMissing, SetDisconnected
  <2>10. CASE PullFinished(Monitor) BY <2>10 DEF PullFinished
  <2>11. CASE AdoptionRaises BY <2>11 DEF AdoptionRaises
  <2>12. CASE ReleaseServed(Monitor) BY <2>12 DEF ReleaseServed, GatewayLogsOut
  <2>13. CASE ReleaseRefused(Monitor) BY <2>13 DEF ReleaseRefused
  <2> QED BY <1>3, <2>1, <2>2, <2>3, <2>4, <2>5, <2>6, <2>7, <2>8, <2>9, <2>10, <2>11,
        <2>12, <2>13 DEF MonitorStep
<1>4. CASE Environment
  <2>1. CASE IntentAges BY <2>1 DEF IntentAges
  <2>2. CASE UserApproves BY <2>2 DEF UserApproves
  <2>3. CASE PushLapses BY <2>3 DEF PushLapses
  <2>4. CASE GatewayDrifts BY <2>4 DEF GatewayDrifts
  <2> QED BY <1>4, <2>1, <2>2, <2>3, <2>4 DEF Environment
<1>5. CASE BackendRestarts BY <1>5 DEF BackendRestarts
<1>6. CASE UNCHANGED vars BY <1>6 DEF vars
<1> QED BY <1>1, <1>2, <1>3, <1>4, <1>5, <1>6 DEF Next, UserClicks

\* Every variable keeps its type (core/state.py, session.py).
THEOREM TypeCorrect == Spec => []TypeOK
<1>1. Init => TypeOK
  BY DEF Init, TypeOK, Statuses, GatewayStates, Answers, PCs
<1>2. TypeOK <=> FlagsOK /\ ControlOK
  BY DEF TypeOK, FlagsOK, ControlOK
<1>3. TypeOK /\ [Next]_vars => TypeOK'
  <2> SUFFICES ASSUME TypeOK, [Next]_vars PROVE TypeOK' OBVIOUS
  <2>1. FlagsOK' /\ ControlOK' BY <1>2, FlagsPreserved, ControlPreserved
  <2> QED BY <2>1 DEF TypeOK, FlagsOK, ControlOK
<1> QED BY <1>1, <1>3, PTL DEF Spec

(***************************************************************************)
(* What an AUTHENTICATED state says: inductive as it stands.               *)
(***************************************************************************)
LEMMA ConsistencyPreserved ==
  AuthenticatedIsConsistent /\ [Next]_vars => AuthenticatedIsConsistent'
<1> SUFFICES ASSUME AuthenticatedIsConsistent, [Next]_vars PROVE
      AuthenticatedIsConsistent' OBVIOUS
<1> USE DEF AuthenticatedIsConsistent, session
<1>1. ASSUME NEW c \in Clients, OrchestrateLogin(c) \/ OrchestrateLogout(c) PROVE
      AuthenticatedIsConsistent'
  <2>1. CASE OrchestrateLogin(c) BY <2>1 DEF OrchestrateLogin
  <2>2. CASE OrchestrateLogout(c) BY <2>2 DEF OrchestrateLogout
  <2> QED BY <1>1, <2>1, <2>2
<1>2. ASSUME NEW c \in Clients, ClientStep(c) PROVE AuthenticatedIsConsistent'
  <2>1. CASE RestartIbeam(c) BY <2>1 DEF RestartIbeam, CutCalls
  <2>2. CASE RestartIbeamFails(c) BY <2>2 DEF RestartIbeamFails, SetDisconnected
  <2>3. CASE SeesAuthentication(c) BY <2>3 DEF SeesAuthentication
  <2>4. CASE SeesCompeting(c) BY <2>4 DEF SeesCompeting
  <2>5. CASE DeadlinePasses(c) BY <2>5 DEF DeadlinePasses
  <2>6. CASE GracePasses(c) BY <2>6 DEF GracePasses, SetDisconnected
  <2>7. CASE AccountDetected(c) BY <2>7 DEF AccountDetected
  <2>8. CASE AccountMissing(c) BY <2>8 DEF AccountMissing, SetDisconnected
  <2>9. CASE PullFinished(c) BY <2>9 DEF PullFinished
  <2>10. CASE LoginRaises(c) BY <2>10 DEF LoginRaises, SetDisconnected
  <2>11. CASE AbortLogout(c) BY <2>11 DEF AbortLogout, GatewayLogsOut, GatewayKeeps
  <2>12. CASE ReleaseServed(c) BY <2>12 DEF ReleaseServed, GatewayLogsOut
  <2>13. CASE ReleaseRefused(c) BY <2>13 DEF ReleaseRefused
  <2>14. CASE LogoutFinishes(c) BY <2>14 DEF LogoutFinishes, SetDisconnected
  <2> QED BY <1>2, <2>1, <2>2, <2>3, <2>4, <2>5, <2>6, <2>7, <2>8, <2>9, <2>10, <2>11,
        <2>12, <2>13, <2>14 DEF ClientStep
<1>3. CASE MonitorStep
  <2>1. ASSUME NEW a \in Answers, MonitorAsks(a) PROVE AuthenticatedIsConsistent'
    BY <2>1 DEF MonitorAsks
  <2>2. CASE MonitorSkips BY <2>2 DEF MonitorSkips
  <2>3. CASE MonitorAdopts BY <2>3 DEF MonitorAdopts, MonitorHolds
  <2>4. CASE MonitorReleases BY <2>4 DEF MonitorReleases, MonitorHolds
  <2>5. CASE MonitorReleased BY <2>5 DEF MonitorReleased, SetDisconnected
  <2>6. CASE MonitorSeesNoSession BY <2>6 DEF MonitorSeesNoSession, SetDisconnected
  <2>7. CASE MonitorFails BY <2>7 DEF MonitorFails
  <2>8. CASE AccountDetected(Monitor) BY <2>8 DEF AccountDetected
  <2>9. CASE AccountMissing(Monitor) BY <2>9 DEF AccountMissing, SetDisconnected
  <2>10. CASE PullFinished(Monitor) BY <2>10 DEF PullFinished
  <2>11. CASE AdoptionRaises BY <2>11 DEF AdoptionRaises
  <2>12. CASE ReleaseServed(Monitor) BY <2>12 DEF ReleaseServed, GatewayLogsOut
  <2>13. CASE ReleaseRefused(Monitor) BY <2>13 DEF ReleaseRefused
  <2> QED BY <1>3, <2>1, <2>2, <2>3, <2>4, <2>5, <2>6, <2>7, <2>8, <2>9, <2>10, <2>11,
        <2>12, <2>13 DEF MonitorStep
<1>4. CASE Environment
  <2>1. CASE IntentAges BY <2>1 DEF IntentAges
  <2>2. CASE UserApproves BY <2>2 DEF UserApproves
  <2>3. CASE PushLapses BY <2>3 DEF PushLapses
  <2>4. CASE GatewayDrifts BY <2>4 DEF GatewayDrifts
  <2> QED BY <1>4, <2>1, <2>2, <2>3, <2>4 DEF Environment
<1>5. CASE BackendRestarts BY <1>5 DEF BackendRestarts
<1>6. CASE UNCHANGED vars BY <1>6 DEF vars
<1> QED BY <1>1, <1>2, <1>3, <1>4, <1>5, <1>6 DEF Next, UserClicks

\* A gateway shown AUTHENTICATED is logged in and has consumed its click, whatever
\* logins, adoptions, logouts and monitor ticks overlap (session.py:427-604).
THEOREM Consistency == Spec => []AuthenticatedIsConsistent
<1>1. Init => AuthenticatedIsConsistent BY DEF Init, AuthenticatedIsConsistent
<1> QED BY <1>1, ConsistencyPreserved, PTL DEF Spec

(***************************************************************************)
(* The monitor's logout and the session it may end.  Only a click makes    *)
(* the intent recent, and a click leaves no push and no session that       *)
(* answers it; the restart that sends the push cuts the logout.            *)
(***************************************************************************)
ReleaseInv ==
  pc[Monitor] = "release" /\ login_requested_at = "recent" => push # "new" /\ ~fresh

LEMMA ReleasePreserved == ControlOK /\ ReleaseInv /\ [Next]_vars => ReleaseInv'
<1> SUFFICES ASSUME ControlOK, ReleaseInv, [Next]_vars PROVE ReleaseInv' OBVIOUS
<1> USE DEF ReleaseInv, ControlOK, session, Goto, Procs, PCs
<1>1. ASSUME NEW c \in Clients, OrchestrateLogin(c) \/ OrchestrateLogout(c) PROVE
      ReleaseInv'
  <2>1. CASE OrchestrateLogin(c) BY <2>1 DEF OrchestrateLogin
  <2>2. CASE OrchestrateLogout(c) BY <2>2, MonitorIsNoClient DEF OrchestrateLogout
  <2> QED BY <1>1, <2>1, <2>2
<1>2. ASSUME NEW c \in Clients, ClientStep(c) PROVE ReleaseInv'
  <2>1. CASE RestartIbeam(c) BY <2>1 DEF RestartIbeam, CutCalls
  <2>2. CASE RestartIbeamFails(c) BY <2>2 DEF RestartIbeamFails, SetDisconnected
  <2>3. CASE SeesAuthentication(c) BY <2>3 DEF SeesAuthentication
  <2>4. CASE SeesCompeting(c) BY <2>4 DEF SeesCompeting
  <2>5. CASE DeadlinePasses(c) BY <2>5 DEF DeadlinePasses
  <2>6. CASE GracePasses(c) BY <2>6 DEF GracePasses, SetDisconnected
  <2>7. CASE AccountDetected(c) BY <2>7 DEF AccountDetected
  <2>8. CASE AccountMissing(c) BY <2>8 DEF AccountMissing, SetDisconnected
  <2>9. CASE PullFinished(c) BY <2>9 DEF PullFinished
  <2>10. CASE LoginRaises(c) BY <2>10 DEF LoginRaises, SetDisconnected
  <2>11. CASE AbortLogout(c) BY <2>11 DEF AbortLogout, GatewayLogsOut, GatewayKeeps
  <2>12. CASE ReleaseServed(c) BY <2>12 DEF ReleaseServed, GatewayLogsOut
  <2>13. CASE ReleaseRefused(c) BY <2>13 DEF ReleaseRefused
  <2>14. CASE LogoutFinishes(c) BY <2>14 DEF LogoutFinishes, SetDisconnected
  <2> QED BY <1>2, <2>1, <2>2, <2>3, <2>4, <2>5, <2>6, <2>7, <2>8, <2>9, <2>10, <2>11,
        <2>12, <2>13, <2>14 DEF ClientStep
<1>3. CASE MonitorStep
  <2>1. ASSUME NEW a \in Answers, MonitorAsks(a) PROVE ReleaseInv'
    BY <2>1 DEF MonitorAsks
  <2>2. CASE MonitorSkips BY <2>2 DEF MonitorSkips
  <2>3. CASE MonitorAdopts BY <2>3 DEF MonitorAdopts, MonitorHolds
  <2>4. CASE MonitorReleases BY <2>4 DEF MonitorReleases, MonitorHolds,
        RecentLoginIntent
  <2>5. CASE MonitorReleased BY <2>5 DEF MonitorReleased, SetDisconnected
  <2>6. CASE MonitorSeesNoSession BY <2>6 DEF MonitorSeesNoSession, SetDisconnected
  <2>7. CASE MonitorFails BY <2>7 DEF MonitorFails
  <2>8. CASE AccountDetected(Monitor) BY <2>8 DEF AccountDetected
  <2>9. CASE AccountMissing(Monitor) BY <2>9 DEF AccountMissing, SetDisconnected
  <2>10. CASE PullFinished(Monitor) BY <2>10 DEF PullFinished
  <2>11. CASE AdoptionRaises BY <2>11 DEF AdoptionRaises
  <2>12. CASE ReleaseServed(Monitor) BY <2>12 DEF ReleaseServed, GatewayLogsOut
  <2>13. CASE ReleaseRefused(Monitor) BY <2>13 DEF ReleaseRefused
  <2> QED BY <1>3, <2>1, <2>2, <2>3, <2>4, <2>5, <2>6, <2>7, <2>8, <2>9, <2>10, <2>11,
        <2>12, <2>13 DEF MonitorStep
<1>4. CASE Environment
  <2>1. CASE IntentAges BY <2>1 DEF IntentAges
  <2>2. CASE UserApproves BY <2>2 DEF UserApproves
  <2>3. CASE PushLapses BY <2>3 DEF PushLapses
  <2>4. CASE GatewayDrifts BY <2>4 DEF GatewayDrifts
  <2> QED BY <1>4, <2>1, <2>2, <2>3, <2>4 DEF Environment
<1>5. CASE BackendRestarts BY <1>5 DEF BackendRestarts
<1>6. CASE UNCHANGED vars BY <1>6 DEF vars
<1> QED BY <1>1, <1>2, <1>3, <1>4, <1>5, <1>6 DEF Next, UserClicks

\* The monitor never logs out a session approved for a click that is still in its
\* adopt window (session.py:235-256, docs/architecture.md:79-82).
THEOREM ReleaseSpares == Spec => []ApprovedLoginNotReleased
<1>1. Init => ReleaseInv BY DEF Init, ReleaseInv, Procs
<1>2. TypeOK => ControlOK BY DEF TypeOK, ControlOK
<1>3. ReleaseInv => ApprovedLoginNotReleased
  BY DEF ReleaseInv, ApprovedLoginNotReleased
<1> QED BY <1>1, <1>2, <1>3, TypeCorrect, ReleasePreserved, PTL DEF Spec

(***************************************************************************)
(* A quiet logout: no login or adoption runs after it, and none can start  *)
(* without a click.                                                        *)
(***************************************************************************)
LogoutInv ==
  loggedOut = "quiet" => ~user_logged_in /\ login_requested_at = "none" /\ ~Working

LEMMA LogoutPreserved == ControlOK /\ LogoutInv /\ [Next]_vars => LogoutInv'
<1> SUFFICES ASSUME ControlOK, LogoutInv, [Next]_vars PROVE LogoutInv' OBVIOUS
<1> USE DEF LogoutInv, ControlOK, session, Goto, Procs, PCs, Working, LoginPCs
<1>1. ASSUME NEW c \in Clients, OrchestrateLogin(c) \/ OrchestrateLogout(c) PROVE
      LogoutInv'
  <2>1. CASE OrchestrateLogin(c) BY <2>1 DEF OrchestrateLogin
  <2>2. CASE OrchestrateLogout(c) BY <2>2 DEF OrchestrateLogout
  <2> QED BY <1>1, <2>1, <2>2
<1>2. ASSUME NEW c \in Clients, ClientStep(c) PROVE LogoutInv'
  <2>1. CASE RestartIbeam(c) BY <2>1 DEF RestartIbeam, CutCalls
  <2>2. CASE RestartIbeamFails(c) BY <2>2 DEF RestartIbeamFails, SetDisconnected
  <2>3. CASE SeesAuthentication(c) BY <2>3 DEF SeesAuthentication
  <2>4. CASE SeesCompeting(c) BY <2>4 DEF SeesCompeting
  <2>5. CASE DeadlinePasses(c) BY <2>5 DEF DeadlinePasses
  <2>6. CASE GracePasses(c) BY <2>6 DEF GracePasses, SetDisconnected
  <2>7. CASE AccountDetected(c) BY <2>7 DEF AccountDetected
  <2>8. CASE AccountMissing(c) BY <2>8 DEF AccountMissing, SetDisconnected
  <2>9. CASE PullFinished(c) BY <2>9 DEF PullFinished
  <2>10. CASE LoginRaises(c) BY <2>10 DEF LoginRaises, SetDisconnected
  <2>11. CASE AbortLogout(c) BY <2>11 DEF AbortLogout, GatewayLogsOut, GatewayKeeps
  <2>12. CASE ReleaseServed(c) BY <2>12 DEF ReleaseServed, GatewayLogsOut
  <2>13. CASE ReleaseRefused(c) BY <2>13 DEF ReleaseRefused
  <2>14. CASE LogoutFinishes(c) BY <2>14 DEF LogoutFinishes, SetDisconnected
  <2> QED BY <1>2, <2>1, <2>2, <2>3, <2>4, <2>5, <2>6, <2>7, <2>8, <2>9, <2>10, <2>11,
        <2>12, <2>13, <2>14 DEF ClientStep
<1>3. CASE MonitorStep
  <2>1. ASSUME NEW a \in Answers, MonitorAsks(a) PROVE LogoutInv'
    BY <2>1 DEF MonitorAsks
  <2>2. CASE MonitorSkips BY <2>2 DEF MonitorSkips
  <2>3. CASE MonitorAdopts BY <2>3 DEF MonitorAdopts, MonitorHolds, RecentLoginIntent
  <2>4. CASE MonitorReleases BY <2>4 DEF MonitorReleases, MonitorHolds
  <2>5. CASE MonitorReleased BY <2>5 DEF MonitorReleased, SetDisconnected
  <2>6. CASE MonitorSeesNoSession BY <2>6 DEF MonitorSeesNoSession, SetDisconnected
  <2>7. CASE MonitorFails BY <2>7 DEF MonitorFails
  <2>8. CASE AccountDetected(Monitor) BY <2>8 DEF AccountDetected
  <2>9. CASE AccountMissing(Monitor) BY <2>9 DEF AccountMissing, SetDisconnected
  <2>10. CASE PullFinished(Monitor) BY <2>10 DEF PullFinished
  <2>11. CASE AdoptionRaises BY <2>11 DEF AdoptionRaises
  <2>12. CASE ReleaseServed(Monitor) BY <2>12 DEF ReleaseServed, GatewayLogsOut
  <2>13. CASE ReleaseRefused(Monitor) BY <2>13 DEF ReleaseRefused
  <2> QED BY <1>3, <2>1, <2>2, <2>3, <2>4, <2>5, <2>6, <2>7, <2>8, <2>9, <2>10, <2>11,
        <2>12, <2>13 DEF MonitorStep
<1>4. CASE Environment
  <2>1. CASE IntentAges BY <2>1 DEF IntentAges
  <2>2. CASE UserApproves BY <2>2 DEF UserApproves
  <2>3. CASE PushLapses BY <2>3 DEF PushLapses
  <2>4. CASE GatewayDrifts BY <2>4 DEF GatewayDrifts
  <2> QED BY <1>4, <2>1, <2>2, <2>3, <2>4 DEF Environment
<1>5. CASE BackendRestarts BY <1>5 DEF BackendRestarts
<1>6. CASE UNCHANGED vars BY <1>6 DEF vars
<1> QED BY <1>1, <1>2, <1>3, <1>4, <1>5, <1>6 DEF Next, UserClicks

\* After a logout with nothing in flight nobody is logged in before the next click
\* (session.py:595-602).
THEOREM LogoutSticks == Spec => []LogoutNotReadopted
<1>1. Init => LogoutInv BY DEF Init, LogoutInv
<1>2. TypeOK => ControlOK BY DEF TypeOK, ControlOK
<1>3. LogoutInv => LogoutNotReadopted BY DEF LogoutInv, LogoutNotReadopted
<1> QED BY <1>1, <1>2, <1>3, TypeCorrect, LogoutPreserved, PTL DEF Spec

(***************************************************************************)
(* LOGGING_IN and PULLING belong to a running login or adoption.           *)
(***************************************************************************)
LEMMA BusyPreserved ==
  ~Faults /\ ControlOK /\ BusyMeansWorking /\ [Next]_vars => BusyMeansWorking'
<1> SUFFICES ASSUME ~Faults, ControlOK, BusyMeansWorking, [Next]_vars PROVE
      BusyMeansWorking' OBVIOUS
<1> USE DEF BusyMeansWorking, ControlOK, session, Goto, Procs, PCs, Working, LoginPCs,
      LoginInProgress
<1>1. ASSUME NEW c \in Clients, OrchestrateLogin(c) \/ OrchestrateLogout(c) PROVE
      BusyMeansWorking'
  <2>1. CASE OrchestrateLogin(c) BY <2>1 DEF OrchestrateLogin
  <2>2. CASE OrchestrateLogout(c) BY <2>2 DEF OrchestrateLogout
  <2> QED BY <1>1, <2>1, <2>2
<1>2. ASSUME NEW c \in Clients, ClientStep(c) PROVE BusyMeansWorking'
  <2>1. CASE RestartIbeam(c) BY <2>1 DEF RestartIbeam, CutCalls
  <2>2. CASE RestartIbeamFails(c) BY <2>2 DEF RestartIbeamFails, SetDisconnected
  <2>3. CASE SeesAuthentication(c) BY <2>3 DEF SeesAuthentication
  <2>4. CASE SeesCompeting(c) BY <2>4 DEF SeesCompeting
  <2>5. CASE DeadlinePasses(c) BY <2>5 DEF DeadlinePasses
  <2>6. CASE GracePasses(c) BY <2>6 DEF GracePasses, SetDisconnected
  <2>7. CASE AccountDetected(c) BY <2>7 DEF AccountDetected
  <2>8. CASE AccountMissing(c) BY <2>8 DEF AccountMissing, SetDisconnected
  <2>9. CASE PullFinished(c) BY <2>9 DEF PullFinished
  <2>10. CASE LoginRaises(c) BY <2>10 DEF LoginRaises, SetDisconnected
  <2>11. CASE AbortLogout(c) BY <2>11 DEF AbortLogout, GatewayLogsOut, GatewayKeeps
  <2>12. CASE ReleaseServed(c) BY <2>12 DEF ReleaseServed, GatewayLogsOut
  <2>13. CASE ReleaseRefused(c) BY <2>13 DEF ReleaseRefused
  <2>14. CASE LogoutFinishes(c) BY <2>14 DEF LogoutFinishes, SetDisconnected
  <2> QED BY <1>2, <2>1, <2>2, <2>3, <2>4, <2>5, <2>6, <2>7, <2>8, <2>9, <2>10, <2>11,
        <2>12, <2>13, <2>14 DEF ClientStep
<1>3. CASE MonitorStep
  <2>1. ASSUME NEW a \in Answers, MonitorAsks(a) PROVE BusyMeansWorking'
    BY <2>1 DEF MonitorAsks
  <2>2. CASE MonitorSkips BY <2>2 DEF MonitorSkips
  <2>3. CASE MonitorAdopts BY <2>3 DEF MonitorAdopts, MonitorHolds
  <2>4. CASE MonitorReleases BY <2>4 DEF MonitorReleases, MonitorHolds
  <2>5. CASE MonitorReleased BY <2>5 DEF MonitorReleased, SetDisconnected
  <2>6. CASE MonitorSeesNoSession BY <2>6 DEF MonitorSeesNoSession, SetDisconnected
  <2>7. CASE MonitorFails BY <2>7 DEF MonitorFails
  <2>8. CASE AccountDetected(Monitor) BY <2>8 DEF AccountDetected
  <2>9. CASE AccountMissing(Monitor) BY <2>9 DEF AccountMissing, SetDisconnected
  <2>10. CASE PullFinished(Monitor) BY <2>10 DEF PullFinished
  <2>11. CASE AdoptionRaises BY <2>11 DEF AdoptionRaises
  <2>12. CASE ReleaseServed(Monitor) BY <2>12 DEF ReleaseServed, GatewayLogsOut
  <2>13. CASE ReleaseRefused(Monitor) BY <2>13 DEF ReleaseRefused
  <2> QED BY <1>3, <2>1, <2>2, <2>3, <2>4, <2>5, <2>6, <2>7, <2>8, <2>9, <2>10, <2>11,
        <2>12, <2>13 DEF MonitorStep
<1>4. CASE Environment
  <2>1. CASE IntentAges BY <2>1 DEF IntentAges
  <2>2. CASE UserApproves BY <2>2 DEF UserApproves
  <2>3. CASE PushLapses BY <2>3 DEF PushLapses
  <2>4. CASE GatewayDrifts BY <2>4 DEF GatewayDrifts
  <2> QED BY <1>4, <2>1, <2>2, <2>3, <2>4 DEF Environment
<1>5. CASE BackendRestarts BY <1>5 DEF BackendRestarts
<1>6. CASE UNCHANGED vars BY <1>6 DEF vars
<1> QED BY <1>1, <1>2, <1>3, <1>4, <1>5, <1>6 DEF Next, UserClicks

\* As long as neither a login nor an adoption raises, the states in which the
\* monitor stands back always have someone working in them (session.py:228-233).
THEOREM BusyWorks == ~Faults => (Spec => []BusyMeansWorking)
<1> SUFFICES ASSUME ~Faults PROVE Spec => []BusyMeansWorking OBVIOUS
<1>1. Init => BusyMeansWorking BY DEF Init, BusyMeansWorking, LoginInProgress
<1>2. TypeOK => ControlOK BY DEF TypeOK, ControlOK
<1>3. ControlOK /\ BusyMeansWorking /\ [Next]_vars => BusyMeansWorking'
  BY BusyPreserved
<1> QED BY <1>1, <1>2, <1>3, TypeCorrect, PTL DEF Spec

-----------------------------------------------------------------------------
(* SessionFeed: the broadcasts, for any tabs, sockets and changes.         *)

LEMMA SocketOfTab ==
  ASSUME NEW t \in Tabs, NEW i \in 1..MaxSockets[t] PROVE <<t, i>> \in Sockets
BY DEF Sockets

LEMMA TabOfSocket ==
  ASSUME NEW s \in Sockets PROVE \E t \in Tabs : \E i \in 1..MaxSockets[t] : s = <<t, i>>
BY DEF Sockets

\* The socket of a tab that has opened one.
LEMMA CurrentIsSocket ==
  ASSUME FeedTypeOK, NEW t \in Tabs, opened[t] > 0 PROVE Current(t) \in Sockets
BY SocketOfTab, ConstantsFit DEF FeedTypeOK, Current

\* The socket a tab opens next.
LEMMA NextIsSocket ==
  ASSUME FeedTypeOK, NEW t \in Tabs, opened[t] < MaxSockets[t]
  PROVE /\ opened[t] \in Nat /\ MaxSockets[t] \in Nat
        /\ opened[t] + 1 \in 1..MaxSockets[t]
        /\ <<t, opened[t] + 1>> \in Sockets
<1>1. opened[t] \in Nat /\ MaxSockets[t] \in Nat BY ConstantsFit DEF FeedTypeOK
<1>2. opened[t] + 1 \in 1..MaxSockets[t] BY <1>1
<1> QED BY <1>1, <1>2, SocketOfTab

\* There is room for one more change.
LEMMA NextVersion ==
  ASSUME FeedTypeOK, state <= MaxChanges PROVE state \in Nat /\ state + 1 \in Versions
<1>1. state \in 1..(MaxChanges + 1) /\ MaxChanges \in Nat BY ConstantsFit DEF FeedTypeOK, Versions
<1> QED BY <1>1 DEF Versions

(***************************************************************************)
(* Types.                                                                  *)
(***************************************************************************)
LEMMA FeedInitType == FeedInit => FeedTypeOK
<1> SUFFICES ASSUME FeedInit PROVE FeedTypeOK OBVIOUS
<1>1. 1 \in Versions /\ 0 \in Versions \cup {0} BY ConstantsFit DEF Versions
<1>2. state \in Versions /\ unsent \in BOOLEAN BY <1>1 DEF FeedInit
<1>3. pending \in [Sockets -> Seq(Versions)] /\ wire \in [Sockets -> Seq(Versions)] BY DEF FeedInit
<1>4. link \in [Sockets -> {"unused", "opened", "live", "dead"}] /\ active \subseteq Sockets
  BY DEF FeedInit
<1>5. opened \in [Tabs -> Nat] /\ \A t \in Tabs : opened[t] <= MaxSockets[t]
  BY ConstantsFit DEF FeedInit
<1>6. seed \in [Tabs -> {"asked", "answered", "done"}] BY DEF FeedInit
<1>7. /\ seeded \in [Tabs -> Versions \cup {0}] /\ view \in [Tabs -> Versions \cup {0}]
      /\ overtaken \in [Tabs -> BOOLEAN]
  BY <1>1 DEF FeedInit
<1>8. \A s \in Sockets : link[s] \in OpenStatus => s \in active BY DEF FeedInit, OpenStatus
<1> QED BY <1>2, <1>3, <1>4, <1>5, <1>6, <1>7, <1>8 DEF FeedTypeOK

LEMMA FeedTypePreserved == FeedTypeOK /\ [FeedNext]_feedVars => FeedTypeOK'
<1> SUFFICES ASSUME FeedTypeOK, [FeedNext]_feedVars PROVE FeedTypeOK' OBVIOUS
<1> USE ConstantsFit DEF OpenStatus
<1>0. ASSUME NEW payload \in Versions, Broadcasting(payload)
      PROVE pending' \in [Sockets -> Seq(Versions)]
  <2>1. ASSUME NEW q \in Seq(Versions) PROVE Append(q, payload) \in Seq(Versions)
    BY <2>1, AppendProperties
  <2> QED BY <1>0, <2>1 DEF FeedTypeOK, Broadcasting
<1>1. CASE Changes
  <2>1. state + 1 \in Versions BY <1>1, NextVersion DEF Changes
  <2>2. pending' \in [Sockets -> Seq(Versions)] BY <1>0, <1>1, <2>1 DEF Changes
  <2> QED BY <1>1, <2>1, <2>2 DEF FeedTypeOK, Changes
<1>11. CASE FailsUntold
  <2>1. state + 1 \in Versions BY <1>11, NextVersion DEF FailsUntold
  <2> QED BY <1>11, <2>1 DEF FeedTypeOK, FailsUntold
<1>12. CASE TellsLate
  <2>1. pending' \in [Sockets -> Seq(Versions)] BY <1>0, <1>12 DEF TellsLate, FeedTypeOK
  <2> QED BY <1>12, <2>1 DEF FeedTypeOK, TellsLate
<1>2. ASSUME NEW s \in Sockets, Sends(s) PROVE FeedTypeOK'
  <2>1. Head(pending[s]) \in Versions /\ Tail(pending[s]) \in Seq(Versions)
    BY <1>2, HeadTailProperties DEF FeedTypeOK, Sends
  <2>2. CASE link[s] \in OpenStatus
    <3>1. Append(wire[s], Head(pending[s])) \in Seq(Versions)
      BY <2>1, AppendProperties DEF FeedTypeOK
    <3>2. /\ wire' = [wire EXCEPT ![s] = Append(wire[s], Head(pending[s]))]
          /\ pending' = [pending EXCEPT ![s] = Tail(pending[s])]
          /\ UNCHANGED <<state, unsent, active, link, opened, seed, seeded, view, overtaken>>
      BY <1>2, <2>2 DEF Sends
    <3>3. /\ wire' \in [Sockets -> Seq(Versions)]
          /\ pending' \in [Sockets -> Seq(Versions)]
      BY <2>1, <3>1, <3>2 DEF FeedTypeOK
    <3> QED BY <3>2, <3>3 DEF FeedTypeOK
  <2>3. CASE link[s] \notin OpenStatus
    <3>1. /\ active' = active \ {s}
          /\ pending' = [pending EXCEPT ![s] = <<>>]
          /\ UNCHANGED <<state, unsent, wire, link, opened, seed, seeded, view, overtaken>>
      BY <1>2, <2>3 DEF Sends, DropsDead
    <3>2. pending' \in [Sockets -> Seq(Versions)] BY <3>1, EmptySeq DEF FeedTypeOK
    <3> QED BY <2>3, <3>1, <3>2 DEF FeedTypeOK
  <2> QED BY <2>2, <2>3
<1>3. ASSUME NEW s \in Sockets, SendsSnapshot(s) PROVE FeedTypeOK'
  BY <1>3 DEF FeedTypeOK, SendsSnapshot
<1>4. ASSUME NEW s \in Sockets, Breaks(s) PROVE FeedTypeOK'
  BY <1>4, EmptySeq DEF FeedTypeOK, Breaks
<1>5. ASSUME NEW s \in Sockets, Disconnects(s) PROVE FeedTypeOK'
  BY <1>5 DEF FeedTypeOK, Disconnects
<1>6. ASSUME NEW t \in Tabs, Opens(t) PROVE FeedTypeOK'
  <2>1. /\ opened[t] \in Nat /\ MaxSockets[t] \in Nat
        /\ opened[t] + 1 \in 1..MaxSockets[t]
        /\ <<t, opened[t] + 1>> \in Sockets
    BY <1>6, NextIsSocket DEF Opens
  <2>2. opened' \in [Tabs -> Nat] /\ \A u \in Tabs : opened'[u] <= MaxSockets[u]
    BY <1>6, <2>1 DEF FeedTypeOK, Opens
  <2>3. /\ link' \in [Sockets -> {"unused", "opened", "live", "dead"}]
        /\ active' \subseteq Sockets
        /\ \A s \in Sockets : link'[s] \in OpenStatus => s \in active'
    BY <1>6, <2>1 DEF FeedTypeOK, Opens
  <2> QED BY <1>6, <2>2, <2>3 DEF FeedTypeOK, Opens
<1>7. ASSUME NEW t \in Tabs, Receives(t) PROVE FeedTypeOK'
  <2>1. Current(t) \in Sockets BY <1>7, CurrentIsSocket DEF Receives, HasSocket
  <2>2. Head(wire[Current(t)]) \in Versions /\ Tail(wire[Current(t)]) \in Seq(Versions)
    BY <1>7, <2>1, HeadTailProperties DEF FeedTypeOK, Receives
  <2> QED BY <1>7, <2>1, <2>2 DEF FeedTypeOK, Receives
<1>8. ASSUME NEW t \in Tabs, SeedAnswered(t) \/ SeedFails(t) PROVE FeedTypeOK'
  BY <1>8 DEF FeedTypeOK, SeedAnswered, SeedFails
<1>9. ASSUME NEW t \in Tabs, SeedArrives(t) PROVE FeedTypeOK'
  BY <1>9 DEF FeedTypeOK, SeedArrives, Versions
<1>10. CASE UNCHANGED feedVars BY <1>10 DEF FeedTypeOK, feedVars
<1> QED BY <1>1, <1>2, <1>3, <1>4, <1>5, <1>6, <1>7, <1>8, <1>9, <1>10, <1>11, <1>12 DEF FeedNext

\* The feed's variables keep their types, and a socket that is open at the server's
\* end is in the broadcast set.
THEOREM FeedTypeCorrect == FeedSpec => []FeedTypeOK
BY FeedInitType, FeedTypePreserved, PTL DEF FeedSpec

(***************************************************************************)
(* A quiet tab shows the state.                                            *)
(***************************************************************************)
Final(q) == q[Len(q)]

IsOpen(s) == link[s] \in OpenStatus

\* A socket that is not opened yet has nothing to be sent.
UnusedIsEmpty ==
  /\ \A s \in Sockets : link[s] = "unused" => s \notin active /\ pending[s] = <<>>
  /\ \A t \in Tabs : \A i \in 1..MaxSockets[t] : i > opened[t] => link[<<t, i>>] = "unused"

\* Unless a login has still to broadcast its change, the last that is to be sent to an
\* open socket is the state; so is the last on its wire once nothing is to be sent.
LastIsCurrent ==
  \A s \in Sockets : ~unsent /\ IsOpen(s) =>
    /\ pending[s] # <<>> => Final(pending[s]) = state
    /\ link[s] = "live" /\ pending[s] = <<>> /\ wire[s] # <<>> => Final(wire[s]) = state

\* A REST answer is no newer than the state, and overtakes only once.
SeedsAreOld ==
  \A t \in Tabs : seeded[t] <= state /\ (overtaken[t] => seed[t] = "done")

FeedInv == FeedTypeOK /\ UnusedIsEmpty /\ LastIsCurrent /\ SeedsAreOld /\ QuietMeansCurrent

LEMMA FinalOfAppend ==
  ASSUME NEW S, NEW q \in Seq(S), NEW e \in S
  PROVE Append(q, e) # <<>> /\ Final(Append(q, e)) = e
BY AppendProperties DEF Final

LEMMA FinalOfTail ==
  ASSUME NEW S, NEW q \in Seq(S), q # <<>>
  PROVE IF Tail(q) = <<>> THEN Head(q) = Final(q) ELSE Final(Tail(q)) = Final(q)
<1>1. Len(q) \in Nat \ {0} /\ Len(Tail(q)) = Len(q) - 1 /\ Tail(q) \in Seq(S)
  BY HeadTailProperties, EmptySeq, LenProperties
<1>2. CASE Tail(q) = <<>>
  <2>0. Len(Tail(q)) = 0 BY <1>1, <1>2, EmptySeq
  <2>1. Len(q) = 1
    <3>1. \A n \in Nat : n - 1 = 0 => n = 1 OBVIOUS
    <3>2. Len(q) \in Nat /\ Len(q) - 1 = 0 BY <1>1, <2>0
    <3> QED BY <3>1, <3>2
  <2>2. Head(q) = q[1] BY HeadTailProperties
  <2> QED BY <1>2, <2>1, <2>2 DEF Final
<1>3. CASE Tail(q) # <<>>
  <2>1. Len(Tail(q)) \in 1..Len(Tail(q)) BY <1>1, <1>3, EmptySeq
  <2>2. Tail(q)[Len(Tail(q))] = q[Len(Tail(q)) + 1] BY <1>1, <2>1
  <2> QED BY <1>1, <1>3, <2>2 DEF Final
<1> QED BY <1>2, <1>3

LEMMA UnusedPreserved == FeedInv /\ [FeedNext]_feedVars => UnusedIsEmpty'
<1> SUFFICES ASSUME FeedTypeOK, UnusedIsEmpty, [FeedNext]_feedVars PROVE UnusedIsEmpty' BY DEF FeedInv
<1> USE DEF UnusedIsEmpty, OpenStatus, FeedTypeOK
<1>1. CASE Changes \/ FailsUntold \/ TellsLate
  BY <1>1 DEF Changes, FailsUntold, TellsLate, Broadcasting
<1>2. ASSUME NEW s \in Sockets, Sends(s) PROVE UnusedIsEmpty'
  BY <1>2, SocketOfTab DEF Sends, DropsDead
<1>3. ASSUME NEW s \in Sockets, SendsSnapshot(s) \/ Breaks(s) \/ Disconnects(s) PROVE UnusedIsEmpty'
  BY <1>3, SocketOfTab DEF SendsSnapshot, Breaks, Disconnects
<1>4. ASSUME NEW t \in Tabs, Opens(t) PROVE UnusedIsEmpty'
  <2>1. opened[t] + 1 \in 1..MaxSockets[t] BY <1>4, NextIsSocket DEF Opens
  <2>2. <<t, opened[t] + 1>> \in Sockets BY <2>1, SocketOfTab
  <2>3. ASSUME NEW r \in Sockets, link'[r] = "unused"
        PROVE r \notin active' /\ pending'[r] = <<>>
    BY <1>4, <2>2, <2>3 DEF Opens
  <2>4. ASSUME NEW u \in Tabs, NEW i \in 1..MaxSockets[u], i > opened'[u]
        PROVE link'[<<u, i>>] = "unused"
    <3>1. i > opened[u] BY <1>4, <2>4, ConstantsFit DEF Opens
    <3>2. <<u, i>> # <<t, opened[t] + 1>> BY <1>4, <2>4 DEF Opens
    <3> QED BY <1>4, <2>2, <3>1, <3>2, SocketOfTab DEF Opens
  <2> QED BY <2>3, <2>4
<1>5. ASSUME NEW t \in Tabs, Receives(t) \/ SeedAnswered(t) \/ SeedArrives(t) \/ SeedFails(t)
      PROVE UnusedIsEmpty'
  BY <1>5 DEF Receives, SeedAnswered, SeedArrives, SeedFails
<1>6. CASE UNCHANGED feedVars BY <1>6 DEF feedVars
<1> QED BY <1>1, <1>2, <1>3, <1>4, <1>5, <1>6 DEF FeedNext

LEMMA LastPreserved == FeedInv /\ [FeedNext]_feedVars => LastIsCurrent'
<1> SUFFICES ASSUME FeedTypeOK, UnusedIsEmpty, LastIsCurrent, [FeedNext]_feedVars,
                    NEW s \in Sockets, IsOpen(s)', ~unsent'
             PROVE /\ pending'[s] # <<>> => Final(pending'[s]) = state'
                   /\ link'[s] = "live" /\ pending'[s] = <<>> /\ wire'[s] # <<>>
                        => Final(wire'[s]) = state'
  BY DEF FeedInv, LastIsCurrent, Final
<1> DEFINE Goal == /\ pending'[s] # <<>> => Final(pending'[s]) = state'
                   /\ link'[s] = "live" /\ pending'[s] = <<>> /\ wire'[s] # <<>>
                        => Final(wire'[s]) = state'
<1>0. ASSUME pending'[s] = pending[s], wire'[s] = wire[s], link'[s] = link[s],
             UNCHANGED <<state, unsent>>
      PROVE Goal
  BY <1>0 DEF LastIsCurrent, IsOpen
<1>1. CASE Changes \/ TellsLate
  <2>1. s \in active BY <1>1 DEF Changes, TellsLate, IsOpen, FeedTypeOK
  <2>2. state' \in Versions BY <1>1, NextVersion DEF Changes, TellsLate, FeedTypeOK
  <2>3. pending'[s] = Append(pending[s], state')
    BY <1>1, <2>1 DEF Changes, TellsLate, Broadcasting
  <2>4. pending[s] \in Seq(Versions) BY DEF FeedTypeOK
  <2> QED BY <2>2, <2>3, <2>4, FinalOfAppend
<1>10. CASE FailsUntold BY <1>10 DEF FailsUntold
<1>2. ASSUME NEW r \in Sockets, Sends(r) PROVE Goal
  <2>1. CASE r # s BY <1>0, <1>2, <2>1 DEF Sends, FeedTypeOK
  <2>2. CASE r = s
    <3>1. link[s] \in OpenStatus /\ link'[s] = link[s] /\ state' = state /\ ~unsent
      BY <1>2, <2>2 DEF Sends, IsOpen
    <3>2. /\ wire'[s] = Append(wire[s], Head(pending[s]))
          /\ pending'[s] = Tail(pending[s]) /\ pending[s] # <<>>
      BY <1>2, <2>2, <3>1 DEF Sends, FeedTypeOK
    <3>3. pending[s] \in Seq(Versions) /\ wire[s] \in Seq(Versions) BY DEF FeedTypeOK
    <3>4. Head(pending[s]) \in Versions BY <3>2, <3>3, HeadTailProperties
    <3>5. Final(pending[s]) = state BY <3>1, <3>2 DEF LastIsCurrent, IsOpen
    <3>6. Final(wire'[s]) = Head(pending[s]) BY <3>2, <3>3, <3>4, FinalOfAppend
    <3> QED BY <3>1, <3>2, <3>3, <3>5, <3>6, FinalOfTail
  <2> QED BY <2>1, <2>2
<1>3. ASSUME NEW r \in Sockets, SendsSnapshot(r) PROVE Goal
  <2>1. CASE r # s BY <1>0, <1>3, <2>1 DEF SendsSnapshot, FeedTypeOK
  <2>2. CASE r = s
    <3>1. /\ wire'[s] = Append(wire[s], state) /\ pending'[s] = pending[s] /\ state' = state
          /\ link[s] = "opened" /\ ~unsent
      BY <1>3, <2>2 DEF SendsSnapshot, FeedTypeOK
    <3>2. wire[s] \in Seq(Versions) /\ state \in Versions BY DEF FeedTypeOK
    <3>3. Final(wire'[s]) = state BY <3>1, <3>2, FinalOfAppend
    <3>4. pending[s] # <<>> => Final(pending[s]) = state
      BY <3>1 DEF LastIsCurrent, IsOpen, OpenStatus
    <3> QED BY <3>1, <3>3, <3>4
  <2> QED BY <2>1, <2>2
<1>4. ASSUME NEW r \in Sockets, Breaks(r) PROVE Goal
  <2>1. r # s BY <1>4 DEF Breaks, FeedTypeOK, IsOpen, OpenStatus
  <2> QED BY <1>0, <1>4, <2>1 DEF Breaks, FeedTypeOK
<1>5. ASSUME NEW r \in Sockets, Disconnects(r) PROVE Goal BY <1>0, <1>5 DEF Disconnects
<1>6. ASSUME NEW t \in Tabs, Opens(t) PROVE Goal
  <2>1. opened[t] \in Nat /\ opened[t] + 1 \in 1..MaxSockets[t] BY <1>6, NextIsSocket DEF Opens
  <2>2. <<t, opened[t] + 1>> \in Sockets BY <2>1, SocketOfTab
  <2>3. link[<<t, opened[t] + 1>>] = "unused" BY <2>1, ConstantsFit DEF UnusedIsEmpty, FeedTypeOK
  <2>4. CASE s = <<t, opened[t] + 1>>
    <3>1. pending'[s] = <<>> BY <1>6, <2>2, <2>3, <2>4 DEF Opens, UnusedIsEmpty
    <3>2. link'[s] = "opened" BY <1>6, <2>2, <2>4 DEF Opens, FeedTypeOK
    <3> QED BY <3>1, <3>2
  <2>5. CASE s # <<t, opened[t] + 1>> BY <1>0, <1>6, <2>5 DEF Opens, FeedTypeOK
  <2> QED BY <2>4, <2>5
<1>7. ASSUME NEW t \in Tabs, Receives(t) PROVE Goal
  <2>1. Current(t) \in Sockets BY <1>7, CurrentIsSocket DEF Receives, HasSocket
  <2>2. CASE s # Current(t) BY <1>0, <1>7, <2>2 DEF Receives, FeedTypeOK
  <2>3. CASE s = Current(t)
    <3>1. /\ wire'[s] = Tail(wire[s]) /\ wire[s] # <<>> /\ pending'[s] = pending[s]
          /\ link'[s] = link[s] /\ state' = state /\ ~unsent
      BY <1>7, <2>1, <2>3 DEF Receives, FeedTypeOK
    <3>2. wire[s] \in Seq(Versions) BY DEF FeedTypeOK
    <3>3. IsOpen(s) BY <3>1 DEF IsOpen
    <3>4. Tail(wire[s]) # <<>> => Final(Tail(wire[s])) = Final(wire[s])
      BY <3>1, <3>2, FinalOfTail
    <3> QED BY <3>1, <3>3, <3>4 DEF LastIsCurrent
  <2> QED BY <2>2, <2>3
<1>8. ASSUME NEW t \in Tabs, SeedAnswered(t) \/ SeedArrives(t) \/ SeedFails(t) PROVE Goal
  BY <1>0, <1>8 DEF SeedAnswered, SeedArrives, SeedFails
<1>9. CASE UNCHANGED feedVars BY <1>0, <1>9 DEF feedVars
<1> QED BY <1>1, <1>2, <1>3, <1>4, <1>5, <1>6, <1>7, <1>8, <1>9, <1>10 DEF FeedNext

LEMMA SeedsPreserved == FeedInv /\ [FeedNext]_feedVars => SeedsAreOld'
<1> SUFFICES ASSUME FeedTypeOK, SeedsAreOld, [FeedNext]_feedVars, NEW t \in Tabs
             PROVE seeded'[t] <= state' /\ (overtaken'[t] => seed'[t] = "done")
  BY DEF FeedInv, SeedsAreOld
<1> DEFINE Goal == seeded'[t] <= state' /\ (overtaken'[t] => seed'[t] = "done")
<1>0. /\ state \in Nat /\ state >= 1 /\ seeded[t] \in Nat /\ seeded[t] <= state
      /\ overtaken[t] => seed[t] = "done"
  BY ConstantsFit DEF FeedTypeOK, SeedsAreOld, Versions
<1>1. CASE Changes \/ FailsUntold
  <2>1. state' = state + 1 /\ UNCHANGED <<seeded, seed, overtaken>>
    BY <1>1 DEF Changes, FailsUntold
  <2> QED BY <1>0, <2>1
<1>9. CASE TellsLate BY <1>0, <1>9 DEF TellsLate
<1>2. ASSUME NEW s \in Sockets, Sends(s) \/ SendsSnapshot(s) \/ Breaks(s) \/ Disconnects(s)
      PROVE Goal
  BY <1>0, <1>2 DEF Sends, SendsSnapshot, Breaks, Disconnects
<1>3. ASSUME NEW u \in Tabs, Opens(u) PROVE Goal BY <1>0, <1>3 DEF Opens
<1>4. ASSUME NEW u \in Tabs, Receives(u) PROVE Goal BY <1>0, <1>4 DEF Receives, FeedTypeOK
<1>5. ASSUME NEW u \in Tabs, SeedAnswered(u) PROVE Goal
  BY <1>0, <1>5 DEF SeedAnswered, FeedTypeOK
<1>6. ASSUME NEW u \in Tabs, SeedArrives(u) PROVE Goal
  BY <1>0, <1>6 DEF SeedArrives, FeedTypeOK
<1>7. ASSUME NEW u \in Tabs, SeedFails(u) PROVE Goal
  BY <1>0, <1>7 DEF SeedFails, FeedTypeOK
<1>8. CASE UNCHANGED feedVars BY <1>0, <1>8 DEF feedVars
<1> QED BY <1>1, <1>2, <1>3, <1>4, <1>5, <1>6, <1>7, <1>8, <1>9 DEF FeedNext

LEMMA QuietPreserved == FeedInv /\ [FeedNext]_feedVars => QuietMeansCurrent'
<1> SUFFICES ASSUME FeedInv, [FeedNext]_feedVars, NEW t \in Tabs, HasSocket(t)', ~unsent',
                    link'[Current(t)'] = "live",
                    pending'[Current(t)'] = <<>>, wire'[Current(t)'] = <<>>
             PROVE view'[t] = state' \/ overtaken'[t]
  BY DEF QuietMeansCurrent
<1> DEFINE Goal == view'[t] = state' \/ overtaken'[t]
           c == Current(t)
<1>0. /\ FeedTypeOK /\ UnusedIsEmpty /\ LastIsCurrent /\ SeedsAreOld
      /\ ~unsent /\ HasSocket(t) /\ link[c] = "live" /\ pending[c] = <<>> /\ wire[c] = <<>>
           => view[t] = state \/ overtaken[t]
  BY DEF FeedInv, QuietMeansCurrent
<1>1. ASSUME UNCHANGED <<state, unsent, opened>>, link'[c] = link[c], pending'[c] = pending[c],
             wire'[c] = wire[c], view'[t] = view[t], overtaken'[t] = overtaken[t]
      PROVE Goal
  BY <1>0, <1>1 DEF HasSocket, Current
<1>2. ASSUME opened'[t] = opened[t] PROVE opened[t] > 0 /\ c \in Sockets /\ Current(t)' = c
  BY <1>0, <1>2, CurrentIsSocket DEF HasSocket, Current
<1>14. CASE FailsUntold BY <1>14 DEF FailsUntold
<1>3. CASE Changes \/ TellsLate
  <2>1. opened[t] > 0 /\ c \in Sockets /\ Current(t)' = c BY <1>2, <1>3 DEF Changes, TellsLate
  <2>2. c \in active BY <1>0, <1>3, <2>1 DEF Changes, TellsLate, FeedTypeOK, OpenStatus
  <2>3. pending'[c] = Append(pending[c], state')
    BY <1>3, <2>1, <2>2 DEF Changes, TellsLate, Broadcasting
  <2>4. state' \in Versions BY <1>0, <1>3, NextVersion DEF Changes, TellsLate, FeedTypeOK
  <2>5. pending[c] \in Seq(Versions) BY <1>0, <2>1 DEF FeedTypeOK
  <2> QED BY <2>1, <2>3, <2>4, <2>5, FinalOfAppend
<1>4. ASSUME NEW s \in Sockets, Sends(s) PROVE Goal
  <2>1. opened[t] > 0 /\ c \in Sockets /\ Current(t)' = c BY <1>2, <1>4 DEF Sends
  <2>2. CASE s # c BY <1>0, <1>1, <1>4, <2>1, <2>2 DEF Sends, FeedTypeOK
  <2>3. CASE s = c
    <3>1. link[c] \in OpenStatus BY <1>4, <2>1 DEF Sends, OpenStatus
    <3>2. pending[c] # <<>> /\ wire'[c] = Append(wire[c], Head(pending[c]))
      BY <1>0, <1>4, <2>1, <2>3, <3>1 DEF Sends, FeedTypeOK
    <3>3. pending[c] \in Seq(Versions) /\ wire[c] \in Seq(Versions) BY <1>0, <2>1 DEF FeedTypeOK
    <3>4. Head(pending[c]) \in Versions BY <3>2, <3>3, HeadTailProperties
    <3> QED BY <2>1, <3>2, <3>3, <3>4, FinalOfAppend
  <2> QED BY <2>2, <2>3
<1>5. ASSUME NEW s \in Sockets, SendsSnapshot(s) PROVE Goal
  <2>1. opened[t] > 0 /\ c \in Sockets /\ Current(t)' = c BY <1>2, <1>5 DEF SendsSnapshot
  <2>2. CASE s # c BY <1>0, <1>1, <1>5, <2>1, <2>2 DEF SendsSnapshot, FeedTypeOK
  <2>3. CASE s = c
    <3>1. wire'[c] = Append(wire[c], state) BY <1>0, <1>5, <2>1, <2>3 DEF SendsSnapshot, FeedTypeOK
    <3>2. wire[c] \in Seq(Versions) /\ state \in Versions BY <1>0, <2>1 DEF FeedTypeOK
    <3> QED BY <2>1, <3>1, <3>2, FinalOfAppend
  <2> QED BY <2>2, <2>3
<1>6. ASSUME NEW s \in Sockets, Breaks(s) PROVE Goal
  <2>1. opened[t] > 0 /\ c \in Sockets /\ Current(t)' = c BY <1>2, <1>6 DEF Breaks
  <2>2. s # c BY <1>0, <1>6, <2>1 DEF Breaks, FeedTypeOK
  <2> QED BY <1>0, <1>1, <1>6, <2>1, <2>2 DEF Breaks, FeedTypeOK
<1>7. ASSUME NEW s \in Sockets, Disconnects(s) PROVE Goal BY <1>1, <1>7 DEF Disconnects
<1>8. ASSUME NEW u \in Tabs, Opens(u) PROVE Goal
  <2>1. /\ opened[u] \in Nat /\ opened[u] + 1 \in 1..MaxSockets[u]
        /\ <<u, opened[u] + 1>> \in Sockets
    BY <1>0, <1>8, NextIsSocket DEF Opens
  <2>2. CASE u = t
    <3>1. Current(t)' = <<t, opened[t] + 1>> BY <1>0, <1>8, <2>2 DEF Opens, Current, FeedTypeOK
    <3>2. link'[<<t, opened[t] + 1>>] = "opened" BY <1>0, <1>8, <2>1, <2>2 DEF Opens, FeedTypeOK
    <3> QED BY <3>1, <3>2
  <2>3. CASE u # t
    <3>1. opened'[t] = opened[t] BY <1>0, <1>8, <2>3 DEF Opens, FeedTypeOK
    <3>2. opened[t] > 0 /\ c \in Sockets /\ Current(t)' = c BY <1>2, <3>1
    <3>3. <<u, opened[u] + 1>> # c BY <2>3 DEF Current
    <3>4. /\ link'[c] = link[c]
          /\ UNCHANGED <<state, unsent, pending, wire, view, overtaken>>
      BY <1>0, <1>8, <3>2, <3>3 DEF Opens, FeedTypeOK
    <3>5. HasSocket(t) BY <3>1, <3>2, <3>4 DEF HasSocket
    <3> QED BY <1>0, <3>2, <3>4, <3>5
  <2> QED BY <2>2, <2>3
<1>9. ASSUME NEW u \in Tabs, Receives(u) PROVE Goal
  <2>1. opened[t] > 0 /\ c \in Sockets /\ Current(t)' = c BY <1>2, <1>9 DEF Receives
  <2>2. CASE u # t
    <3>1. Current(u) # c BY <2>2 DEF Current
    <3> QED BY <1>0, <1>1, <1>9, <2>1, <2>2, <3>1 DEF Receives, FeedTypeOK
  <2>3. CASE u = t
    <3>1. /\ wire[c] # <<>> /\ wire'[c] = Tail(wire[c]) /\ view'[t] = Head(wire[c])
          /\ UNCHANGED <<state, unsent, link, pending>>
      BY <1>0, <1>9, <2>1, <2>3 DEF Receives, FeedTypeOK
    <3>2. wire[c] \in Seq(Versions) BY <1>0, <2>1 DEF FeedTypeOK
    <3>3. Head(wire[c]) = Final(wire[c]) BY <2>1, <3>1, <3>2, FinalOfTail
    <3>4. Final(wire[c]) = state
      BY <1>0, <2>1, <3>1 DEF LastIsCurrent, IsOpen, OpenStatus
    <3> QED BY <3>1, <3>3, <3>4
  <2> QED BY <2>2, <2>3
<1>10. ASSUME NEW u \in Tabs, SeedAnswered(u) PROVE Goal BY <1>1, <1>10 DEF SeedAnswered
<1>11. ASSUME NEW u \in Tabs, SeedArrives(u) PROVE Goal
  <2>1. CASE u # t BY <1>0, <1>1, <1>11, <2>1 DEF SeedArrives, FeedTypeOK
  <2>2. CASE u = t
    <3>1. /\ seed[t] = "answered" /\ view'[t] = seeded[t] /\ overtaken'[t] = (seeded[t] < view[t])
          /\ UNCHANGED <<state, unsent, link, pending, wire, opened>>
      BY <1>0, <1>11, <2>2 DEF SeedArrives, FeedTypeOK
    <3>2. view[t] = state
      <4>1. ~unsent /\ HasSocket(t) /\ link[c] = "live" /\ pending[c] = <<>> /\ wire[c] = <<>>
        BY <3>1 DEF HasSocket, Current
      <4>2. ~overtaken[t] BY <1>0, <3>1 DEF SeedsAreOld
      <4> QED BY <1>0, <4>1, <4>2
    <3>3. seeded[t] \in Nat /\ state \in Nat /\ seeded[t] <= state
      BY <1>0, ConstantsFit DEF SeedsAreOld, FeedTypeOK, Versions
    <3>4. seeded[t] = state \/ seeded[t] < view[t] BY <3>2, <3>3
    <3> QED BY <3>1, <3>4
  <2> QED BY <2>1, <2>2
<1>12. ASSUME NEW u \in Tabs, SeedFails(u) PROVE Goal BY <1>1, <1>12 DEF SeedFails
<1>13. CASE UNCHANGED feedVars BY <1>1, <1>13 DEF feedVars
<1> QED BY <1>3, <1>4, <1>5, <1>6, <1>7, <1>8, <1>9, <1>10, <1>11, <1>12, <1>13, <1>14 DEF FeedNext

LEMMA InitFeedInv == FeedInit => FeedInv
<1> SUFFICES ASSUME FeedInit PROVE FeedInv OBVIOUS
<1>1. FeedTypeOK BY FeedInitType
<1>2. UnusedIsEmpty BY SocketOfTab DEF FeedInit, UnusedIsEmpty
<1>3. LastIsCurrent BY DEF FeedInit, LastIsCurrent, IsOpen, OpenStatus
<1>4. SeedsAreOld
  <2>1. \A t \in Tabs : ~overtaken[t] BY DEF FeedInit
  <2>2. \A t \in Tabs : seeded[t] = 0 /\ state = 1 BY DEF FeedInit
  <2>3. ASSUME NEW t \in Tabs PROVE seeded[t] <= state
    <3>1. seeded[t] = 0 /\ state = 1 BY <2>2
    <3> QED BY <3>1
  <2> QED BY <2>1, <2>3 DEF SeedsAreOld
<1>5. QuietMeansCurrent BY DEF FeedInit, QuietMeansCurrent, HasSocket
<1> QED BY <1>1, <1>2, <1>3, <1>4, <1>5 DEF FeedInv

\* A tab whose socket is up and has nothing on the way shows the registry's state,
\* for any number of tabs, broken sockets and broadcasts under way, unless its own
\* REST answer overtook the socket's messages or a login that raised waits for its
\* logout.
THEOREM Quiet == FeedSpec => []QuietMeansCurrent
<1>1. FeedInv /\ [FeedNext]_feedVars => FeedInv'
  <2> SUFFICES ASSUME FeedInv, [FeedNext]_feedVars PROVE FeedInv' OBVIOUS
  <2>1. FeedTypeOK' BY FeedTypePreserved DEF FeedInv
  <2> QED BY <2>1, UnusedPreserved, LastPreserved, SeedsPreserved, QuietPreserved DEF FeedInv
<1>2. FeedInv => QuietMeansCurrent BY DEF FeedInv
<1> QED BY <1>1, <1>2, InitFeedInv, PTL DEF FeedSpec
=============================================================================
