------------------------ MODULE MonitorClientProofs ------------------------
(***************************************************************************)
(* The MONITOR client is a legal user of the role checker, so the theorems *)
(* of RoleCheckerProofs hold of the composition; and its sessions neither  *)
(* leak subscriptions nor leave an open connection without a watcher.      *)
(***************************************************************************)
EXTENDS MonitorClient, RoleCheckerProofs

(* What is open in which part of runOnce.                                  *)
SessionShape ==
    /\ cur # NoSession <=> clientPc \in {"subscribe", "handshake", "reading", "sending"}
    /\ connOpen => cur # NoSession
    /\ buf > 0 => clientPc \in {"reading", "sending"}
    /\ connected => clientPc \in {"reading", "sending"}
    /\ clientPc = "subscribe" => watcher[cur] = "off"

(* The inductive invariant of the composition.                             *)
ClientInv ==
    /\ TypeOK
    /\ SessionShape
    /\ NoLeakedSubscription
    /\ OpenSessionIsGuarded

(* The steps of Client.Run that do not touch the checker.                  *)
LocalStep ==
    \/ ClientTop \/ GateOpen \/ AfterSession \/ BackoffElapsed \/ BackoffCancelled
    \/ DialOk \/ DialFail \/ DialTimeout \/ DialCancelled \/ HandshakeOk \/ HandshakeFail
    \/ FillBuffer \/ ReadEvent \/ ReadSkipped \/ ReadServerError \/ ReadEOF \/ ReadFailed
    \/ SendEvent \/ SendDropped \/ SendCancelled

-----------------------------------------------------------------------------
(* What Client.Run does by itself leaves the checker alone.                *)
LEMMA LocalStepKeepsChecker == LocalStep => UNCHANGED rcVars
BY DEF LocalStep, ClientTop, GateOpen, AfterSession, BackoffElapsed, BackoffCancelled, DialOk,
       DialFail, DialTimeout, DialCancelled, HandshakeOk, HandshakeFail, FillBuffer, ReadEvent,
       ReadSkipped, ReadServerError, ReadEOF, ReadFailed, SendEvent, SendDropped, SendCancelled

(* ... and the gate watchers too.                                          *)
LEMMA LocalStepKeepsWatchers == LocalStep => UNCHANGED watcher
BY DEF LocalStep, ClientTop, GateOpen, AfterSession, BackoffElapsed, BackoffCancelled, DialOk,
       DialFail, DialTimeout, DialCancelled, HandshakeOk, HandshakeFail, FillBuffer, ReadEvent,
       ReadSkipped, ReadServerError, ReadEOF, ReadFailed, SendEvent, SendDropped, SendCancelled

(* The steps of Client.Run: its own, and the three that meet the checker.  *)
LEMMA RunNextSplit == RunNext => LocalStep \/ GateShut \/ GateResume \/ SubscribeSession
BY DEF RunNext, LocalStep

(* Every step of the composition is a step of the role checker or leaves   *)
(* it alone.                                                               *)
LEMMA StepImplementsChecker == ClientInv /\ [Next]_vars => [RCNext]_rcVars
<1> SUFFICES ASSUME ClientInv, [Next]_vars
             PROVE  [RCNext]_rcVars
    OBVIOUS
<1>1. CASE LocalStep
    BY <1>1, LocalStepKeepsChecker
<1>2. CASE GateShut \/ GateResume
    BY <1>2 DEF GateShut, GateResume, RCNext
<1>3. CASE SubscribeSession
    <2>1. cur \in Subscribers \ {Waiter}
        BY <1>3 DEF SubscribeSession, ClientInv, SessionShape, TypeOK, Sessions
    <2>2. CASE GateInstalled
        BY <1>3, <2>1, <2>2 DEF SubscribeSession, SubscriberNext, RCNext
    <2>3. CASE ~GateInstalled
        BY <1>3, <2>3 DEF SubscribeSession, rcVars
    <2> QED
        BY <2>2, <2>3 DEF ClientInv
<1>4. CASE GateNext
    BY <1>4 DEF GateNext, RCNext
<1>5. CASE CtxClose \/ DispatcherTake
    BY <1>5 DEF CtxClose, DispatcherTake
<1>6. ASSUME NEW s \in Sessions, WatcherNext(s)
      PROVE  [RCNext]_rcVars
    <2>1. s \in Subscribers \ {Waiter}
        BY DEF Sessions
    <2>2. CASE WatchActive(s)
        BY <2>2 DEF WatchActive
    <2>3. CASE WatchReceive(s) \/ WatchDemoted(s) \/ WatchExit(s)
        BY <2>1, <2>3 DEF WatchReceive, WatchDemoted, WatchExit, SubscriberNext, RCNext
    <2> QED
        BY <1>6, <2>2, <2>3 DEF WatcherNext
<1>7. CASE Signal \/ AppCancel
    BY <1>7 DEF Signal, AppCancel, RCNext
<1>8. CASE UNCHANGED vars
    BY <1>8 DEF vars
<1> QED
    BY <1>1, <1>2, <1>3, <1>4, <1>5, <1>6, <1>7, <1>8, RunNextSplit DEF Next

-----------------------------------------------------------------------------
(* monitor.New and role.New establish the invariant of the composition.    *)
LEMMA InitInv == Init => ClientInv
<1> SUFFICES ASSUME Init PROVE ClientInv
    OBVIOUS
<1> USE DEF Init
<1>1. RCTypeOK
    BY RCInitInv DEF RCInv
<1>2. TypeOK
    <2>1. buf \in 0..MaxBuf /\ backoff \in BackoffMin..BackoffMax /\ outLen \in 0..OutCap
        BY BoundsAssumption, BackoffAssumption
    <2>2. watcher \in [Sessions -> {"off", "watching", "checking"}]
        OBVIOUS
    <2> QED
        BY <1>1, <2>1, <2>2, Zenon DEF TypeOK
<1>3. SessionShape /\ OpenSessionIsGuarded
    BY DEF SessionShape, OpenSessionIsGuarded
<1>4. NoLeakedSubscription
    BY DEF NoLeakedSubscription, RCInit
<1> QED
    BY <1>2, <1>3, <1>4 DEF ClientInv

(* Each variable of the client stays in its range.                         *)
LEMMA ClientTypeStep == ClientInv /\ [Next]_vars => TypeOK'
<1> SUFFICES ASSUME ClientInv, [Next]_vars
             PROVE  TypeOK'
    OBVIOUS
<1>0. RCTypeOK'
    BY StepImplementsChecker, RCTypeStep DEF ClientInv, TypeOK
<1> USE BoundsAssumption, BackoffAssumption
<1> USE DEF TypeOK, ClientInv
<1>1. CASE LocalStep
    <2>1. CASE ClientTop \/ GateOpen \/ AfterSession \/ BackoffCancelled \/ DialFail
               \/ DialTimeout \/ DialCancelled \/ SendDropped
        BY <1>0, <2>1 DEF ClientTop, GateOpen, AfterSession, BackoffCancelled, DialFail,
                          DialTimeout, DialCancelled, SendDropped, session
    <2>2. CASE BackoffElapsed
        BY <1>0, <2>2 DEF BackoffElapsed, session
    <2>3. CASE DialOk \/ HandshakeOk
        BY <1>0, <2>3 DEF DialOk, HandshakeOk
    <2>4. CASE FillBuffer \/ ReadEvent \/ ReadSkipped
        BY <1>0, <2>4 DEF FillBuffer, ReadEvent, ReadSkipped
    <2>5. CASE HandshakeFail \/ ReadServerError \/ ReadEOF \/ ReadFailed \/ SendCancelled
        <3>1. PICK pc \in {"ended", "stopped"} : EndSession(pc) /\ UNCHANGED <<backoff, outLen, watcher>>
            BY <2>5 DEF HandshakeFail, ReadServerError, ReadEOF, ReadFailed, SendCancelled
        <3>2. 0 \in 0..MaxBuf
            OBVIOUS
        <3> QED
            BY <1>0, <3>1, <3>2, Zenon DEF EndSession
    <2>6. CASE SendEvent
        BY <1>0, <2>6 DEF SendEvent, session
    <2> QED
        BY <1>1, <2>1, <2>2, <2>3, <2>4, <2>5, <2>6 DEF LocalStep
<1>2. CASE GateShut \/ GateResume
    BY <1>0, <1>2 DEF GateShut, GateResume, session
<1>3. CASE SubscribeSession
    BY <1>0, <1>3 DEF SubscribeSession, session
<1>4. CASE GateNext \/ Signal \/ AppCancel
    BY <1>0, <1>4 DEF GateNext, Signal, AppCancel, clVars, session
<1>5. CASE CtxClose
    BY <1>0, <1>5 DEF CtxClose
<1>6. CASE DispatcherTake
    BY <1>0, <1>6 DEF DispatcherTake, session
<1>7. ASSUME NEW s \in Sessions, WatcherNext(s)
      PROVE  TypeOK'
    BY <1>0, <1>7 DEF WatcherNext, WatchReceive, WatchActive, WatchDemoted, WatchExit, session
<1>8. CASE UNCHANGED vars
    BY <1>0, <1>8 DEF vars, clVars, session
<1> QED
    BY <1>1, <1>2, <1>3, <1>4, <1>5, <1>6, <1>7, <1>8, RunNextSplit DEF Next

(* The session's shape: what each exit path of runOnce clears.             *)
LEMMA ShapeStep == ClientInv /\ [Next]_vars => SessionShape'
<1> SUFFICES ASSUME ClientInv, [Next]_vars
             PROVE  SessionShape'
    OBVIOUS
<1> USE NoSessionAssumption, BoundsAssumption
<1> USE DEF SessionShape, ClientInv
<1>1. CASE LocalStep
    <2>1. CASE ClientTop \/ GateOpen \/ AfterSession \/ BackoffCancelled \/ DialFail
               \/ DialTimeout \/ DialCancelled \/ SendDropped \/ BackoffElapsed \/ SendEvent
        BY <2>1 DEF ClientTop, GateOpen, AfterSession, BackoffCancelled, DialFail,
                    DialTimeout, DialCancelled, SendDropped, BackoffElapsed, SendEvent, session
    <2>2. CASE DialOk
        BY <2>2 DEF DialOk, Sessions
    <2>3. CASE HandshakeOk \/ FillBuffer \/ ReadEvent \/ ReadSkipped
        BY <2>3 DEF HandshakeOk, FillBuffer, ReadEvent, ReadSkipped
    <2>4. CASE HandshakeFail \/ ReadServerError \/ ReadEOF \/ ReadFailed \/ SendCancelled
        BY <2>4 DEF HandshakeFail, ReadServerError, ReadEOF, ReadFailed, SendCancelled, EndSession
    <2> QED
        BY <1>1, <2>1, <2>2, <2>3, <2>4 DEF LocalStep
<1>2. CASE GateShut \/ GateResume \/ SubscribeSession
    BY <1>2 DEF GateShut, GateResume, SubscribeSession, session
<1>3. CASE GateNext \/ Signal \/ AppCancel \/ DispatcherTake \/ UNCHANGED vars
    BY <1>3 DEF GateNext, Signal, AppCancel, DispatcherTake, vars, clVars, session
<1>4. CASE CtxClose
    BY <1>4 DEF CtxClose
<1>5. ASSUME NEW s \in Sessions, WatcherNext(s)
      PROVE  SessionShape'
    <2>1. watcher[cur] = "off" => s # cur
        BY <1>5 DEF WatcherNext, WatchReceive, WatchActive, WatchDemoted, WatchExit
    <2> QED
        BY <1>5, <2>1 DEF WatcherNext, WatchReceive, WatchActive, WatchDemoted, WatchExit,
                          session, TypeOK
<1> QED
    BY <1>1, <1>2, <1>3, <1>4, <1>5, RunNextSplit DEF Next

(* The waiter list and the live readers move together.                     *)
LEMMA LeakStep == ClientInv /\ [Next]_vars => NoLeakedSubscription'
<1> SUFFICES ASSUME ClientInv, [Next]_vars
             PROVE  NoLeakedSubscription'
    OBVIOUS
<1> USE DEF NoLeakedSubscription, ClientInv, Sessions
<1>1. CASE LocalStep \/ CtxClose \/ DispatcherTake \/ UNCHANGED vars
    <2>1. UNCHANGED <<rcVars, watcher>>
        BY <1>1, LocalStepKeepsChecker, LocalStepKeepsWatchers
        DEF CtxClose, DispatcherTake, vars, clVars
    <2> QED
        BY <2>1 DEF rcVars, channels
<1>2. CASE GateShut \/ GateResume
    BY <1>2 DEF GateShut, GateResume, WaitCall, WaitReturn, channels
<1>3. CASE SubscribeSession
    <2>1. cur \in Subscribers \ {Waiter}
        BY <1>3 DEF SubscribeSession, SessionShape, TypeOK
    <2> QED
        BY <1>3, <2>1 DEF SubscribeSession, Subscribe, channels, TypeOK
<1>4. CASE GateNext
    <2> USE DEF clVars
    <2>1. CASE (RoleChange \/ CheckerNext) /\ UNCHANGED clVars
        BY <2>1 DEF RoleChange, CheckerNext, ProbeDial, ProbeFail, ProbeReply, StoreIsMaster,
                    PublishRole, Notify, Tick, CheckerStop, channels
    <2>2. CASE WaitNext /\ UNCHANGED clVars
        BY <2>2 DEF WaitNext, WaitCheck, WaitSubscribe, WaitRecheck, WaitReceive, WaitCancelled,
                    Subscribe, Unsubscribe, channels
    <2> QED
        BY <1>4, <2>1, <2>2 DEF GateNext
<1>5. CASE Signal \/ AppCancel
    BY <1>5 DEF Signal, AppCancel, Cancel, clVars, channels
<1>6. ASSUME NEW s \in Sessions, WatcherNext(s)
      PROVE  NoLeakedSubscription'
    <2>1. CASE WatchReceive(s) \/ WatchActive(s)
        BY <1>6, <2>1 DEF WatchReceive, WatchActive, Receive, rcVars, channels, TypeOK
    <2>2. CASE WatchDemoted(s) \/ WatchExit(s)
        BY <1>6, <2>2 DEF WatchDemoted, WatchExit, Unsubscribe, TypeOK
    <2> QED
        BY <1>6, <2>1, <2>2 DEF WatcherNext
<1> QED
    BY <1>1, <1>2, <1>3, <1>4, <1>5, <1>6, RunNextSplit DEF Next

(* A watcher leaves an open session only on shutdown.                      *)
LEMMA GuardStep == ClientInv /\ [Next]_vars => OpenSessionIsGuarded'
<1> SUFFICES ASSUME ClientInv, [Next]_vars,
                    GateInstalled, connOpen', clientPc' # "subscribe", ~cancelled'
             PROVE  watcher'[cur'] # "off"
    BY DEF OpenSessionIsGuarded
<1> USE DEF OpenSessionIsGuarded, ClientInv
<1>1. CASE LocalStep
    <2>1. UNCHANGED <<cancelled, watcher>>
        BY <1>1, LocalStepKeepsChecker, LocalStepKeepsWatchers DEF rcVars
    <2>2. UNCHANGED <<cur, connOpen>> /\ (clientPc # "subscribe")
        BY <1>1 DEF LocalStep, ClientTop, GateOpen, AfterSession, BackoffElapsed, BackoffCancelled,
            DialOk, DialFail, DialTimeout, DialCancelled, HandshakeOk, HandshakeFail, FillBuffer,
            ReadEvent, ReadSkipped, ReadServerError, ReadEOF, ReadFailed, SendEvent, SendDropped,
            SendCancelled, EndSession, session
    <2> QED
        BY <2>1, <2>2
<1>2. CASE GateShut \/ GateResume
    BY <1>2 DEF GateShut, GateResume, WaitCall, WaitReturn, session
<1>3. CASE SubscribeSession
    BY <1>3 DEF SubscribeSession, session, SessionShape, TypeOK
<1>4. CASE GateNext
    BY <1>4 DEF GateNext, RoleChange, CheckerNext, ProbeDial, ProbeFail, ProbeReply, StoreIsMaster,
                PublishRole, Notify, Tick, CheckerStop, WaitNext, WaitCheck, WaitSubscribe,
                WaitRecheck, WaitReceive, WaitCancelled, clVars, session
<1>5. CASE Signal \/ AppCancel
    BY <1>5 DEF Signal, AppCancel, Cancel
<1>6. CASE CtxClose
    BY <1>6 DEF CtxClose
<1>7. CASE DispatcherTake \/ UNCHANGED vars
    BY <1>7 DEF DispatcherTake, vars, rcVars, clVars, session
<1>8. ASSUME NEW s \in Sessions, WatcherNext(s)
      PROVE  watcher'[cur'] # "off"
    BY <1>8 DEF WatcherNext, WatchReceive, WatchActive, WatchDemoted, WatchExit, rcVars,
                session, TypeOK, SessionShape
<1> QED
    BY <1>1, <1>2, <1>3, <1>4, <1>5, <1>6, <1>7, <1>8, RunNextSplit DEF Next

(* The four parts of the invariant together are inductive.                 *)
LEMMA ClientInvStep == ClientInv /\ [Next]_vars => ClientInv'
BY ClientTypeStep, ShapeStep, LeakStep, GuardStep DEF ClientInv

-----------------------------------------------------------------------------
(* The invariant of the composition.                                       *)
THEOREM ClientInvariant == Spec => []ClientInv
BY InitInv, ClientInvStep, PTL DEF Spec

(* Type correctness of Client, Checker and the session goroutines.         *)
THEOREM TypeCorrect == Spec => []TypeOK
<1>1. ClientInv => TypeOK
    BY DEF ClientInv
<1> QED
    BY <1>1, ClientInvariant, PTL

(* Client.Run, with its sessions and watchers, uses the role checker as    *)
(* the open specification allows: the composition implements RCSpec.       *)
THEOREM ClientImplementsChecker == Spec => RCSpec
<1>1. Init => RCInit
    BY DEF Init
<1> QED
    BY <1>1, ClientInvariant, StepImplementsChecker, PTL DEF Spec, RCSpec

(* Client.Run's pause on a replica never outlasts the promotion unnoticed. *)
THEOREM PauseNeverLosesWakeup == Spec => []NoLostWakeup
BY ClientImplementsChecker, WaitNeverLosesWakeup, PTL

(* Checker.waiters holds exactly the channels somebody still reads.        *)
THEOREM SubscriptionsNeverLeak == Spec => []NoLeakedSubscription
<1>1. ClientInv => NoLeakedSubscription
    BY DEF ClientInv
<1> QED
    BY <1>1, ClientInvariant, PTL

(* No MONITOR connection stays open without the goroutine that drops it on *)
(* a demotion, except during shutdown.                                     *)
THEOREM SessionsAreGuarded == Spec => []OpenSessionIsGuarded
<1>1. ClientInv => OpenSessionIsGuarded
    BY DEF ClientInv
<1> QED
    BY <1>1, ClientInvariant, PTL

(* A session that saw the master role is woken when it is demoted.         *)
THEOREM DemotionReachesWatcher == Spec => []SessionWakeup
<1>1. ClientInv /\ RCInv => SessionWakeup
    <2> SUFFICES ASSUME ClientInv, RCInv, NEW s \in Sessions,
                        watcher[s] = "watching", ~Active, ~signal[s], seen[s] = "master"
                 PROVE  NotifyPending
        BY DEF SessionWakeup
    <2>1. s \in waiters
        BY DEF ClientInv, NoLeakedSubscription
    <2>2. current = "master" \/ checkerPc = "notify"
        BY <2>1 DEF RCInv, NoMissedTransition
    <2> QED
        BY <2>2 DEF RCInv, StoredRolesAgree, NotifyPending, Active
<1> QED
    BY <1>1, ClientInvariant, ClientImplementsChecker, CheckerInvariant, PTL

(* Outside a session nothing is open and /readyz is told so.               *)
THEOREM NothingOpenOutsideSession == Spec => []QuiescentOutsideSession
<1>1. ClientInv => QuiescentOutsideSession
    BY DEF ClientInv, SessionShape, QuiescentOutsideSession, TypeOK
<1> QED
    BY <1>1, ClientInvariant, PTL
=============================================================================
