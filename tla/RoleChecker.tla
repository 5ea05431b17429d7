---------------------------- MODULE RoleChecker ----------------------------
(***************************************************************************)
(* The replication-role checker of internal/role/role.go: the probe loop   *)
(* (Run, probeOnce, queryRole), the published role, and the notification   *)
(* protocol through which other goroutines learn of a transition           *)
(* (Subscribe, cancel, notify, Wait).                                      *)
(*                                                                         *)
(* Every subscriber owns a channel of capacity one, so a channel is the    *)
(* Boolean signal[s]: "a token is buffered".  The Wait call is one more    *)
(* subscriber, Waiter, whose channel is made anew in every iteration.      *)
(*                                                                         *)
(* RCSpec is open: Subscribe, cancel, receive and Wait may be called at    *)
(* any time by the subscribers.  MonitorClient closes it with the real     *)
(* callers.                                                                *)
(***************************************************************************)
EXTENDS Naturals, FiniteSets

CONSTANTS
    Subscribers,    \* identities of subscription channels
    Waiter,         \* the subscriber that stands for the channel of Wait
    WireRoles,      \* what "role:" may say in INFO replication
    AllowReplica    \* role.Options.AllowReplica

ASSUME SubscribersAssumption == IsFiniteSet(Subscribers) /\ Waiter \in Subscribers
ASSUME WireRolesAssumption == WireRoles # {}
ASSUME AllowReplicaAssumption == AllowReplica \in BOOLEAN

VARIABLES
    cancelled,   \* runCtx is done
    serverRole,  \* the role the Redis server would report now
    isMaster,    \* Checker.isMaster
    current,     \* Checker.current
    probeErr,    \* Checker.probeErr # nil
    roleKnown,   \* Registry.roleKnown
    checkerPc,   \* where Checker.Run is
    probed,      \* the role probeOnce holds between the reply and notify
    waiters,     \* Checker.waiters
    signal,      \* a token is buffered in the subscriber's channel
    seen,        \* history: the role current when s subscribed or last received
    waitPc       \* where Checker.Wait is

published == <<isMaster, current, roleKnown>>
probing   == <<probeErr, checkerPc, probed>>
channels  == <<waiters, signal, seen>>
rcVars    == <<cancelled, serverRole, published, probing, channels, waitPc>>

-----------------------------------------------------------------------------
(* parseRoleFromInfo: "slave" is renamed, any other word is kept as it is. *)
ParseRole(v) == IF v \in {"slave", "replica"} THEN "replica" ELSE v

Roles == {ParseRole(v) : v \in WireRoles} \cup {"unknown"}

(* Registry.SetRedisRole.                                                  *)
RoleKnown(r) == r \notin {"", "unknown"}

(* IsMaster and its alias IsActive. *)
Active == AllowReplica \/ isMaster

RCTypeOK ==
    /\ cancelled \in BOOLEAN
    /\ serverRole \in WireRoles
    /\ isMaster \in BOOLEAN
    /\ current \in Roles
    /\ probeErr \in BOOLEAN
    /\ roleKnown \in BOOLEAN
    /\ checkerPc \in {"probe", "asking", "store", "publish", "notify", "idle", "done"}
    /\ probed \in Roles
    /\ waiters \subseteq Subscribers
    /\ signal \in [Subscribers -> BOOLEAN]
    /\ seen \in [Subscribers -> Roles]
    /\ waitPc \in {"idle", "check", "subscribe", "recheck", "select", "after", "ok", "err"}

RCInit ==
    /\ cancelled = FALSE
    /\ serverRole \in WireRoles
    /\ isMaster = FALSE
    /\ current = "unknown"
    /\ probeErr = FALSE
    /\ roleKnown = FALSE
    /\ checkerPc = "probe"
    /\ probed = "unknown"
    /\ waiters = {}
    /\ signal = [s \in Subscribers |-> FALSE]
    /\ seen = [s \in Subscribers |-> "unknown"]
    /\ waitPc = "idle"

-----------------------------------------------------------------------------
(* The surroundings: Redis fails over, and somebody cancels the context.   *)

RoleChange ==
    /\ \E r \in WireRoles \ {serverRole} : serverRole' = r
    /\ UNCHANGED <<cancelled, published, probing, channels, waitPc>>

Cancel ==
    /\ ~cancelled
    /\ cancelled' = TRUE
    /\ UNCHANGED <<serverRole, published, probing, channels, waitPc>>

-----------------------------------------------------------------------------
(* Checker.Run and probeOnce.                                              *)

(* The dial of queryRole fails at once when the context is done; what      *)
(* follows it is bounded by the read deadline only.                        *)
ProbeDial ==
    /\ checkerPc = "probe" /\ ~cancelled
    /\ checkerPc' = "asking"
    /\ UNCHANGED <<cancelled, serverRole, published, probeErr, probed, channels, waitPc>>

(* Any failing step of queryRole: the error is kept and nothing else.      *)
ProbeFail ==
    /\ checkerPc \in {"probe", "asking"}
    /\ checkerPc' = "idle"
    /\ probeErr' = TRUE
    /\ UNCHANGED <<cancelled, serverRole, published, probed, channels, waitPc>>

ProbeReply ==
    /\ checkerPc = "asking"
    /\ checkerPc' = "store"
    /\ probeErr' = FALSE
    /\ probed' = ParseRole(serverRole)
    /\ UNCHANGED <<cancelled, serverRole, published, channels, waitPc>>

(* c.isMaster.Store: the gate flips before the role is published.          *)
StoreIsMaster ==
    /\ checkerPc = "store"
    /\ checkerPc' = "publish"
    /\ isMaster' = (probed = "master")
    /\ UNCHANGED <<cancelled, serverRole, current, roleKnown, probeErr, probed, channels, waitPc>>

(* Variant with a bug: subscribers hear of a change of mastership only. *)
PublishRoleQuiet ==
    /\ checkerPc = "publish"
    /\ checkerPc' = IF (probed = "master") # (current = "master") THEN "notify" ELSE "idle"
    /\ current' = probed
    /\ roleKnown' = RoleKnown(probed)
    /\ UNCHANGED <<cancelled, serverRole, isMaster, probeErr, probed, channels, waitPc>>

(* c.current.Store and Registry.SetRedisRole; notify only on a change.     *)
PublishRole ==
    /\ checkerPc = "publish"
    /\ checkerPc' = IF probed # current THEN "notify" ELSE "idle"
    /\ current' = probed
    /\ roleKnown' = RoleKnown(probed)
    /\ UNCHANGED <<cancelled, serverRole, isMaster, probeErr, probed, channels, waitPc>>

(* Variant with a bug: one waiter is woken, not all of them. *)
NotifyOne ==
    /\ checkerPc = "notify"
    /\ checkerPc' = "idle"
    /\ \E t \in waiters \cup {Waiter} : signal' = [signal EXCEPT ![t] = @ \/ t \in waiters]
    /\ UNCHANGED <<cancelled, serverRole, published, probeErr, probed, waiters, seen, waitPc>>

(* A non-blocking send to every waiter: a full channel keeps its token.    *)
Notify ==
    /\ checkerPc = "notify"
    /\ checkerPc' = "idle"
    /\ signal' = [s \in Subscribers |-> signal[s] \/ s \in waiters]
    /\ UNCHANGED <<cancelled, serverRole, published, probeErr, probed, waiters, seen, waitPc>>

(* The select of Run: the ticker or the context.                           *)
Tick ==
    /\ checkerPc = "idle"
    /\ checkerPc' = "probe"
    /\ UNCHANGED <<cancelled, serverRole, published, probeErr, probed, channels, waitPc>>

(* Variant with a bug: the context is looked at only after a good probe. *)
CheckerStopIfHealthy ==
    /\ checkerPc = "idle" /\ cancelled /\ ~probeErr
    /\ checkerPc' = "done"
    /\ UNCHANGED <<cancelled, serverRole, published, probeErr, probed, channels, waitPc>>

CheckerStop ==
    /\ checkerPc = "idle" /\ cancelled
    /\ checkerPc' = "done"
    /\ UNCHANGED <<cancelled, serverRole, published, probeErr, probed, channels, waitPc>>

CheckerNext ==
    \/ ProbeDial
    \/ ProbeFail
    \/ ProbeReply
    \/ StoreIsMaster
    \/ PublishRole
    \/ Notify
    \/ Tick
    \/ CheckerStop

-----------------------------------------------------------------------------
(* subscribe and the cancel function it returns, each under Checker.mu.    *)
(* Subscribe makes a fresh, empty channel.                                 *)

Subscribe(s) ==
    /\ s \notin waiters
    /\ waiters' = waiters \cup {s}
    /\ signal' = [signal EXCEPT ![s] = FALSE]
    /\ seen' = [seen EXCEPT ![s] = current]

Unsubscribe(s) ==
    /\ waiters' = waiters \ {s}
    /\ signal' = [signal EXCEPT ![s] = FALSE]
    /\ seen' = [seen EXCEPT ![s] = "unknown"]

Receive(s) ==
    /\ signal[s]
    /\ signal' = [signal EXCEPT ![s] = FALSE]
    /\ seen' = [seen EXCEPT ![s] = current]
    /\ UNCHANGED waiters

-----------------------------------------------------------------------------
(* Checker.Wait: one goroutine at a time, as in Client.Run.                *)

WaitCall ==
    /\ waitPc = "idle"
    /\ waitPc' = "check"
    /\ UNCHANGED <<cancelled, serverRole, published, probing, channels>>

(* The IsMaster read on entry and the one after a token.                   *)
WaitCheck ==
    /\ waitPc \in {"check", "after"}
    /\ waitPc' = IF Active THEN "ok" ELSE "subscribe"
    /\ UNCHANGED <<cancelled, serverRole, published, probing, channels>>

WaitSubscribe ==
    /\ waitPc = "subscribe"
    /\ waitPc' = "recheck"
    /\ Subscribe(Waiter)
    /\ UNCHANGED <<cancelled, serverRole, published, probing>>

(* Variant with a bug: no re-check after subscribing. *)
WaitRecheckSkipped ==
    /\ waitPc = "recheck"
    /\ waitPc' = "select"
    /\ UNCHANGED <<cancelled, serverRole, published, probing, channels>>

(* The re-check after the registration.                                    *)
WaitRecheck ==
    /\ waitPc = "recheck"
    /\ IF Active
         THEN waitPc' = "ok" /\ Unsubscribe(Waiter)
         ELSE waitPc' = "select" /\ UNCHANGED channels
    /\ UNCHANGED <<cancelled, serverRole, published, probing>>

WaitReceive ==
    /\ waitPc = "select" /\ signal[Waiter]
    /\ waitPc' = "after"
    /\ Unsubscribe(Waiter)
    /\ UNCHANGED <<cancelled, serverRole, published, probing>>

WaitCancelled ==
    /\ waitPc = "select" /\ cancelled
    /\ waitPc' = "err"
    /\ Unsubscribe(Waiter)
    /\ UNCHANGED <<cancelled, serverRole, published, probing>>

WaitReturn ==
    /\ waitPc \in {"ok", "err"}
    /\ waitPc' = "idle"
    /\ UNCHANGED <<cancelled, serverRole, published, probing, channels>>

WaitNext ==
    \/ WaitCheck
    \/ WaitSubscribe
    \/ WaitRecheck
    \/ WaitReceive
    \/ WaitCancelled

-----------------------------------------------------------------------------
(* Calls by the other subscribers.                                         *)
SubscriberNext ==
    /\ \E s \in Subscribers \ {Waiter} : Subscribe(s) \/ Unsubscribe(s) \/ Receive(s)
    /\ UNCHANGED <<cancelled, serverRole, published, probing, waitPc>>

RCNext ==
    \/ RoleChange
    \/ Cancel
    \/ CheckerNext
    \/ WaitCall
    \/ WaitNext
    \/ WaitReturn
    \/ SubscriberNext

RCSpec == RCInit /\ [][RCNext]_rcVars

-----------------------------------------------------------------------------
(* A transition has been decided and its notification is still to come.    *)
NotifyPending ==
    \/ checkerPc = "notify"
    \/ checkerPc = "publish" /\ probed # current

(* Wait never sleeps through a promotion: when it is blocked in its select *)
(* while the gate is active, a token is in its channel or the checker is   *)
(* still going to send one.  This is what the re-check after subscribing   *)
(* ("close the race window") and the order isMaster.Store, notify are for. *)
NoLostWakeup ==
    waitPc = "select" /\ Active => signal[Waiter] \/ NotifyPending

(* Coalescing loses no transition: a subscriber with an empty channel has  *)
(* seen the published role, however many transitions and notifications     *)
(* were folded into one token, unless the notification is still to come.   *)
NoMissedTransition ==
    \A s \in waiters : ~signal[s] => seen[s] = current \/ checkerPc = "notify"
=============================================================================
