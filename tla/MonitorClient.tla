--------------------------- MODULE MonitorClient ---------------------------
(***************************************************************************)
(* The MONITOR client of internal/monitor/client.go composed with the role *)
(* checker that gates it.  Client.Run is one goroutine (clientPc); every   *)
(* session adds the goroutine that closes the connection when the context  *)
(* ends (CtxClose) and the gate watcher (watcher[s]).  The watcher of an   *)
(* ended session may outlive it, so sessions are numbered by their         *)
(* subscription: Sessions is a pool of recycled identities.                *)
(*                                                                         *)
(* The context is runCtx of internal/app/app.go: a signal cancels it, and  *)
(* so does the monitor goroutine when Client.Run returns.                  *)
(***************************************************************************)
EXTENDS RoleChecker

CONSTANTS
    NoSession,      \* no session is open
    GateInstalled,  \* SetGate was called (role_check.enabled)
    DropOnFull,     \* pipeline.drop_on_full
    OutCap,         \* capacity of the events channel
    MaxBuf,         \* bound: lines one socket read leaves in the bufio.Reader
    BackoffMin, BackoffMax

ASSUME NoSessionAssumption == NoSession \notin Subscribers
ASSUME ModesAssumption == GateInstalled \in BOOLEAN /\ DropOnFull \in BOOLEAN
ASSUME BoundsAssumption == OutCap \in Nat /\ MaxBuf \in Nat \ {0}
ASSUME BackoffAssumption ==
    /\ BackoffMin \in Nat \ {0} /\ BackoffMax \in Nat
    /\ BackoffMin <= BackoffMax

Sessions == Subscribers \ {Waiter}

VARIABLES
    clientPc,   \* where Client.Run is
    cur,        \* the session runOnce is in, or NoSession
    connOpen,   \* its connection has not been closed on this side
    buf,        \* complete lines in its bufio.Reader
    connected,  \* Registry.monitorConnected
    backoff,    \* the local variable of Run
    outLen,     \* events waiting in the events channel
    watcher     \* the gate watcher of each session

session == <<cur, connOpen, buf, connected>>
clVars  == <<clientPc, session, backoff, outLen, watcher>>
vars    == <<rcVars, clVars>>

TypeOK ==
    /\ RCTypeOK
    /\ clientPc \in {"top", "gate", "waiting", "dial", "subscribe", "handshake",
                     "reading", "sending", "ended", "backoff", "stopped"}
    /\ cur \in Sessions \cup {NoSession}
    /\ connOpen \in BOOLEAN
    /\ buf \in 0..MaxBuf
    /\ connected \in BOOLEAN
    /\ backoff \in BackoffMin..BackoffMax
    /\ outLen \in 0..OutCap
    /\ watcher \in [Sessions -> {"off", "watching", "checking"}]

Init ==
    /\ RCInit
    /\ clientPc = "top"
    /\ cur = NoSession
    /\ connOpen = FALSE
    /\ buf = 0
    /\ connected = FALSE
    /\ backoff = BackoffMin
    /\ outLen = 0
    /\ watcher = [s \in Sessions |-> "off"]

-----------------------------------------------------------------------------
(* Client.Run.                                                             *)

ClientTop ==
    /\ clientPc = "top"
    /\ clientPc' = IF cancelled THEN "stopped" ELSE "gate"
    /\ UNCHANGED <<rcVars, session, backoff, outLen, watcher>>

GateOpen ==
    /\ clientPc = "gate" /\ (GateInstalled => Active)
    /\ clientPc' = "dial"
    /\ UNCHANGED <<rcVars, session, backoff, outLen, watcher>>

GateShut ==
    /\ clientPc = "gate" /\ GateInstalled /\ ~Active
    /\ clientPc' = "waiting"
    /\ WaitCall
    /\ UNCHANGED <<session, backoff, outLen, watcher>>

(* gate.Wait returns: nil resets the backoff, ctx.Err() ends Run.          *)
GateResume ==
    /\ clientPc = "waiting" /\ WaitReturn
    /\ IF waitPc = "ok"
         THEN clientPc' = "dial" /\ backoff' = BackoffMin
         ELSE clientPc' = "stopped" /\ UNCHANGED backoff
    /\ UNCHANGED <<session, outLen, watcher>>

(* runOnce returned an error that is not a context error: no backoff when  *)
(* the gate has just been shut.                                            *)
AfterSession ==
    /\ clientPc = "ended"
    /\ clientPc' = IF GateInstalled /\ ~Active THEN "top" ELSE "backoff"
    /\ UNCHANGED <<rcVars, session, backoff, outLen, watcher>>

(* Variant with a bug: the doubling is not capped. *)
BackoffElapsedUncapped ==
    /\ clientPc = "backoff"
    /\ clientPc' = "top"
    /\ backoff' = 2 * backoff
    /\ UNCHANGED <<rcVars, session, outLen, watcher>>

BackoffElapsed ==
    /\ clientPc = "backoff"
    /\ clientPc' = "top"
    /\ backoff' = IF 2 * backoff > BackoffMax THEN BackoffMax ELSE 2 * backoff
    /\ UNCHANGED <<rcVars, session, outLen, watcher>>

BackoffCancelled ==
    /\ clientPc = "backoff" /\ cancelled
    /\ clientPc' = "stopped"
    /\ UNCHANGED <<rcVars, session, backoff, outLen, watcher>>

-----------------------------------------------------------------------------
(* runOnce up to the reply to MONITOR.                                     *)

DialOk ==
    /\ clientPc = "dial" /\ ~cancelled
    /\ \E s \in Sessions : watcher[s] = "off" /\ cur' = s
    /\ clientPc' = "subscribe"
    /\ connOpen' = TRUE
    /\ UNCHANGED <<rcVars, buf, connected, backoff, outLen, watcher>>

DialFail ==
    /\ clientPc = "dial"
    /\ clientPc' = "ended"
    /\ UNCHANGED <<rcVars, session, backoff, outLen, watcher>>

(* The dialer's own timeout surfaces as an error that errors.Is matches    *)
(* with context.DeadlineExceeded, and Run returns it.  (A timeout that the *)
(* poller reports before the dialer's context does is a DialFail.)         *)
DialTimeout ==
    /\ clientPc = "dial"
    /\ clientPc' = "stopped"
    /\ UNCHANGED <<rcVars, session, backoff, outLen, watcher>>

DialCancelled ==
    /\ clientPc = "dial" /\ cancelled
    /\ clientPc' = "stopped"
    /\ UNCHANGED <<rcVars, session, backoff, outLen, watcher>>

(* With a gate: subscribe and start the watcher.                           *)
SubscribeSession ==
    /\ clientPc = "subscribe"
    /\ clientPc' = "handshake"
    /\ IF GateInstalled
         THEN Subscribe(cur) /\ watcher' = [watcher EXCEPT ![cur] = "watching"]
         ELSE UNCHANGED <<channels, watcher>>
    /\ UNCHANGED <<cancelled, serverRole, published, probing, waitPc, session, backoff, outLen>>

(* AUTH (if configured) and MONITOR are answered with +OK.                 *)
HandshakeOk ==
    /\ clientPc = "handshake" /\ connOpen
    /\ clientPc' = "reading"
    /\ connected' = TRUE
    /\ UNCHANGED <<rcVars, cur, connOpen, buf, backoff, outLen, watcher>>

(* Variant with a bug: the connected gauge is not reset. *)
EndSessionStillConnected(pc) ==
    /\ clientPc' = pc
    /\ cur' = NoSession
    /\ connOpen' = FALSE
    /\ buf' = 0
    /\ UNCHANGED connected

(* The deferred functions of runOnce, and what its return leads to.        *)
EndSession(pc) ==
    /\ clientPc' = pc
    /\ cur' = NoSession
    /\ connOpen' = FALSE
    /\ buf' = 0
    /\ connected' = FALSE

(* A closed connection, an error reply or a lost server: never a context   *)
(* error, even when the context is why the connection was closed.          *)
HandshakeFail ==
    /\ clientPc = "handshake"
    /\ EndSession("ended")
    /\ UNCHANGED <<rcVars, backoff, outLen, watcher>>

-----------------------------------------------------------------------------
(* readLoop.                                                               *)

(* ReadString finds no complete line and reads the socket.                 *)
FillBuffer ==
    /\ clientPc = "reading" /\ buf = 0 /\ connOpen
    /\ buf' \in 1..MaxBuf
    /\ UNCHANGED <<rcVars, clientPc, cur, connOpen, connected, backoff, outLen, watcher>>

(* A line that is an event goes to the send; an empty or unparsable line   *)
(* is skipped; a '-' line ends the session.  Buffered lines are served     *)
(* also after the connection has been closed.                              *)
ReadEvent ==
    /\ clientPc = "reading" /\ buf > 0
    /\ clientPc' = "sending"
    /\ buf' = buf - 1
    /\ UNCHANGED <<rcVars, cur, connOpen, connected, backoff, outLen, watcher>>

ReadSkipped ==
    /\ clientPc = "reading" /\ buf > 0
    /\ buf' = buf - 1
    /\ UNCHANGED <<rcVars, clientPc, cur, connOpen, connected, backoff, outLen, watcher>>

ReadServerError ==
    /\ clientPc = "reading" /\ buf > 0
    /\ EndSession("ended")
    /\ UNCHANGED <<rcVars, backoff, outLen, watcher>>

ReadEOF ==
    /\ clientPc = "reading" /\ buf = 0 /\ connOpen
    /\ EndSession("ended")
    /\ UNCHANGED <<rcVars, backoff, outLen, watcher>>

(* A reset, a read timeout, or the connection closed on this side.         *)
ReadFailed ==
    /\ clientPc = "reading" /\ buf = 0
    /\ EndSession(IF cancelled THEN "stopped" ELSE "ended")
    /\ UNCHANGED <<rcVars, backoff, outLen, watcher>>

SendEvent ==
    /\ clientPc = "sending" /\ outLen < OutCap
    /\ clientPc' = "reading"
    /\ outLen' = outLen + 1
    /\ UNCHANGED <<rcVars, session, backoff, watcher>>

SendDropped ==
    /\ clientPc = "sending" /\ DropOnFull /\ outLen = OutCap
    /\ clientPc' = "reading"
    /\ UNCHANGED <<rcVars, session, backoff, outLen, watcher>>

(* Variant with a bug: the blocking send looks at the context only when there is room. *)
SendCancelledIfRoom ==
    /\ clientPc = "sending" /\ ~DropOnFull /\ cancelled /\ outLen < OutCap
    /\ EndSession("stopped")
    /\ UNCHANGED <<rcVars, backoff, outLen, watcher>>

SendCancelled ==
    /\ clientPc = "sending" /\ ~DropOnFull /\ cancelled
    /\ EndSession("stopped")
    /\ UNCHANGED <<rcVars, backoff, outLen, watcher>>

-----------------------------------------------------------------------------
(* The helper goroutines of a session.                                     *)

CtxClose ==
    /\ cancelled /\ connOpen
    /\ connOpen' = FALSE
    /\ UNCHANGED <<rcVars, clientPc, cur, buf, connected, backoff, outLen, watcher>>

WatchReceive(s) ==
    /\ watcher[s] = "watching"
    /\ Receive(s)
    /\ watcher' = [watcher EXCEPT ![s] = "checking"]
    /\ UNCHANGED <<cancelled, serverRole, published, probing, waitPc,
                   clientPc, session, backoff, outLen>>

(* Variant with a bug: the watcher leaves after its first notification. *)
WatchActiveLeaves(s) ==
    /\ watcher[s] = "checking" /\ Active
    /\ watcher' = [watcher EXCEPT ![s] = "off"]
    /\ Unsubscribe(s)
    /\ UNCHANGED <<cancelled, serverRole, published, probing, waitPc,
                   clientPc, session, backoff, outLen>>

(* A transition that left the gate active is ignored; otherwise close the  *)
(* connection and unsubscribe.                                             *)
WatchActive(s) ==
    /\ watcher[s] = "checking" /\ Active
    /\ watcher' = [watcher EXCEPT ![s] = "watching"]
    /\ UNCHANGED <<rcVars, clientPc, session, backoff, outLen>>

(* Variant with a bug: no deferred unsubscribe on this path. *)
WatchDemotedLeaks(s) ==
    /\ watcher[s] = "checking" /\ ~Active
    /\ watcher' = [watcher EXCEPT ![s] = "off"]
    /\ connOpen' = (connOpen /\ cur # s)
    /\ UNCHANGED <<rcVars, clientPc, cur, buf, connected, backoff, outLen>>

(* Variant with a bug: the watcher returns without closing the connection. *)
WatchDemotedNoClose(s) ==
    /\ watcher[s] = "checking" /\ ~Active
    /\ watcher' = [watcher EXCEPT ![s] = "off"]
    /\ Unsubscribe(s)
    /\ UNCHANGED <<cancelled, serverRole, published, probing, waitPc,
                   clientPc, session, backoff, outLen>>

WatchDemoted(s) ==
    /\ watcher[s] = "checking" /\ ~Active
    /\ watcher' = [watcher EXCEPT ![s] = "off"]
    /\ connOpen' = (connOpen /\ cur # s)
    /\ Unsubscribe(s)
    /\ UNCHANGED <<cancelled, serverRole, published, probing, waitPc,
                   clientPc, cur, buf, connected, backoff, outLen>>

(* Variant with a bug: the cancel function empties the whole waiter list. *)
WatchExitClearsList(s) ==
    /\ watcher[s] = "watching" /\ (cur # s \/ cancelled)
    /\ watcher' = [watcher EXCEPT ![s] = "off"]
    /\ waiters' = {}
    /\ UNCHANGED <<signal, seen>>
    /\ UNCHANGED <<cancelled, serverRole, published, probing, waitPc,
                   clientPc, session, backoff, outLen>>

(* closed or ctx.Done().                                                   *)
WatchExit(s) ==
    /\ watcher[s] = "watching" /\ (cur # s \/ cancelled)
    /\ watcher' = [watcher EXCEPT ![s] = "off"]
    /\ Unsubscribe(s)
    /\ UNCHANGED <<cancelled, serverRole, published, probing, waitPc,
                   clientPc, session, backoff, outLen>>

WatcherNext(s) ==
    \/ WatchReceive(s)
    \/ WatchActive(s)
    \/ WatchDemoted(s)
    \/ WatchExit(s)

-----------------------------------------------------------------------------
(* The surroundings.                                                       *)

(* The dispatcher of app.go takes an event.                                *)
DispatcherTake ==
    /\ outLen > 0
    /\ outLen' = outLen - 1
    /\ UNCHANGED <<rcVars, clientPc, session, backoff, watcher>>

(* SIGINT or SIGTERM.                                                      *)
Signal == Cancel /\ UNCHANGED clVars

(* The monitor goroutine of app.Run cancels runCtx when Run has returned.  *)
AppCancel == clientPc = "stopped" /\ Cancel /\ UNCHANGED clVars

RunNext ==
    \/ ClientTop
    \/ GateOpen
    \/ GateShut
    \/ GateResume
    \/ AfterSession
    \/ BackoffElapsed
    \/ BackoffCancelled
    \/ DialOk
    \/ DialFail
    \/ DialTimeout
    \/ DialCancelled
    \/ SubscribeSession
    \/ HandshakeOk
    \/ HandshakeFail
    \/ FillBuffer
    \/ ReadEvent
    \/ ReadSkipped
    \/ ReadServerError
    \/ ReadEOF
    \/ ReadFailed
    \/ SendEvent
    \/ SendDropped
    \/ SendCancelled

GateNext == (RoleChange \/ CheckerNext \/ WaitNext) /\ UNCHANGED clVars

Next ==
    \/ RunNext
    \/ GateNext
    \/ CtxClose
    \/ \E s \in Sessions : WatcherNext(s)
    \/ DispatcherTake
    \/ Signal
    \/ AppCancel

(* What the program itself will do: its goroutines are scheduled, timers   *)
(* fire, a dial or a probe ends within its timeout, an operation on a      *)
(* closed connection returns.  A select picks evenly among its ready cases *)
(* so the checker cannot prefer its ticker to the context for ever (SF).   *)
(* Nothing is assumed of the Redis server (a reply, a line, an error, a    *)
(* failover), of the dispatcher or of signals.                             *)
ClientStep ==
    \/ ClientTop \/ GateOpen \/ GateShut \/ GateResume \/ AfterSession
    \/ BackoffElapsed \/ BackoffCancelled
    \/ DialOk \/ DialFail \/ DialTimeout \/ DialCancelled \/ SubscribeSession
    \/ ~connOpen /\ HandshakeFail
    \/ ReadEvent \/ ReadSkipped \/ ReadServerError
    \/ ~connOpen /\ ReadFailed
    \/ SendEvent \/ SendDropped \/ SendCancelled

Fairness ==
    /\ WF_vars(ClientStep)
    /\ WF_vars(CheckerNext /\ UNCHANGED clVars)
    /\ SF_vars(CheckerStop /\ UNCHANGED clVars)
    /\ WF_vars(WaitNext /\ UNCHANGED clVars)
    /\ WF_vars(CtxClose)
    /\ WF_vars(AppCancel)
    /\ \A s \in Sessions : WF_vars(WatcherNext(s))

Spec == Init /\ [][Next]_vars
FairSpec == Spec /\ Fairness

-----------------------------------------------------------------------------
(* Registry.Readiness as far as this module goes: MONITOR is up and a role *)
(* has been determined.                                                    *)
Ready == connected /\ roleKnown

(* No subscription leaks and none is lost: the checker's waiter list holds *)
(* exactly the channels that a live watcher, or a Wait in progress, still  *)
(* reads.  Reconnects would otherwise grow Checker.waiters for ever.       *)
NoLeakedSubscription ==
    /\ \A s \in Sessions : s \in waiters <=> watcher[s] # "off"
    /\ Waiter \in waiters <=> waitPc \in {"recheck", "select"}

(* An open MONITOR connection past its subscription is always guarded: its *)
(* watcher has not left, except because the context is done, when CtxClose *)
(* closes the connection instead.                                          *)
OpenSessionIsGuarded ==
    GateInstalled /\ connOpen /\ clientPc # "subscribe" =>
        cancelled \/ watcher[cur] # "off"

(* Whatever the session's exit path, a client that is not streaming does   *)
(* not advertise itself as connected, and holds no connection.             *)
QuiescentOutsideSession ==
    cur = NoSession => ~connected /\ ~connOpen /\ buf = 0

(* A session that subscribed while the role was still master is woken when *)
(* it is demoted: the watcher holds a token or the notification is coming. *)
SessionWakeup ==
    \A s \in Sessions :
        watcher[s] = "watching" /\ ~Active =>
            signal[s] \/ NotifyPending \/ seen[s] # "master"

(* Once the context is done, Client.Run returns: the blocking dial, Wait,  *)
(* backoff, handshake, read and send all give way.                         *)
ShutdownStopsClient == cancelled ~> clientPc = "stopped"

(* ... and the whole role checker stops, and no watcher is left behind.    *)
ShutdownStopsHelpers ==
    cancelled ~> checkerPc = "done" /\ waiters = {}

(* A client paused on a replica resumes once the gate is active.           *)
PromotionResumes ==
    clientPc = "waiting" /\ Active ~> clientPc # "waiting" \/ ~Active

(* A demotion after the subscription closes the connection, unless the     *)
(* role flips back first.                                                  *)
DemotionCloses ==
    \A s \in Sessions :
        (watcher[s] = "watching" /\ ~Active /\ seen[s] = "master")
            ~> (~connOpen \/ cur # s \/ Active)

(* What the README promises without that proviso: a watched session does   *)
(* not stay open on a replica.                                             *)
ReplicaSessionCloses ==
    \A s \in Sessions :
        (watcher[s] = "watching" /\ ~Active) ~> (~connOpen \/ cur # s \/ Active)

(* The comment on Client.Run: it "blocks until ctx is cancelled".          *)
RunBlocksUntilCancelled == clientPc = "stopped" => cancelled

(* The comment on LastError: /readyz fails closed during an outage.        *)
ReadyFailsClosed == Ready => ~probeErr
=============================================================================
