------------------------- MODULE RoleCheckerProofs -------------------------
(***************************************************************************)
(* The notification protocol of the role checker, proved for any set of    *)
(* subscribers, any words on the wire and any order of calls.              *)
(***************************************************************************)
EXTENDS RoleChecker, TLAPS

(* isMaster and current are stored one after the other: they agree except  *)
(* in between, when isMaster already follows the probed role.              *)
StoredRolesAgree ==
    IF checkerPc = "publish" THEN isMaster = (probed = "master")
                             ELSE isMaster = (current = "master")

(* A blocked Wait is in the checker's list.                                *)
WaiterRegistered == waitPc \in {"recheck", "select"} => Waiter \in waiters

(* The inductive invariant.                                                *)
RCInv ==
    /\ RCTypeOK
    /\ StoredRolesAgree
    /\ WaiterRegistered
    /\ NoLostWakeup
    /\ NoMissedTransition

-----------------------------------------------------------------------------
(* The parser's result is one of the roles the checker can publish.        *)
LEMMA ParseRoleType == \A v \in WireRoles : ParseRole(v) \in Roles
BY DEF Roles

(* The type invariant is inductive by itself: every action keeps every     *)
(* variable of role.go's Checker in its range.                             *)
LEMMA RCTypeStep == RCTypeOK /\ [RCNext]_rcVars => RCTypeOK'
<1> SUFFICES ASSUME RCTypeOK, [RCNext]_rcVars
             PROVE  RCTypeOK'
    OBVIOUS
<1> USE SubscribersAssumption
<1>0. "unknown" \in Roles
    BY DEF Roles
<1>1. CASE RoleChange
    BY <1>1 DEF RoleChange, RCTypeOK, published, probing, channels
<1>2. CASE Cancel
    BY <1>2 DEF Cancel, RCTypeOK, published, probing, channels
<1>3. CASE CheckerNext
    <2>1. CASE ProbeReply
        BY <2>1, ParseRoleType DEF ProbeReply, RCTypeOK, published, channels
    <2>2. CASE ProbeDial \/ ProbeFail \/ Tick \/ CheckerStop
        BY <2>2 DEF ProbeDial, ProbeFail, Tick, CheckerStop, RCTypeOK, published, channels
    <2>3. CASE StoreIsMaster \/ PublishRole
        BY <2>3 DEF StoreIsMaster, PublishRole, RoleKnown, RCTypeOK, channels
    <2>4. CASE Notify
        BY <2>4 DEF Notify, RCTypeOK, published
    <2> QED
        BY <1>3, <2>1, <2>2, <2>3, <2>4 DEF CheckerNext
<1>4. CASE WaitCall \/ WaitReturn \/ WaitCheck
    BY <1>4 DEF WaitCall, WaitReturn, WaitCheck, RCTypeOK, published, probing, channels
<1>5. CASE WaitSubscribe
    BY <1>5 DEF WaitSubscribe, Subscribe, RCTypeOK, published, probing
<1>6. CASE WaitRecheck \/ WaitReceive \/ WaitCancelled
    BY <1>0, <1>6 DEF WaitRecheck, WaitReceive, WaitCancelled, Unsubscribe, RCTypeOK,
                      published, probing, channels
<1>7. CASE SubscriberNext
    BY <1>0, <1>7, ZenonT(60) DEF SubscriberNext, Subscribe, Unsubscribe, Receive, RCTypeOK, published, probing
<1>8. CASE UNCHANGED rcVars
    BY <1>8 DEF rcVars, RCTypeOK, published, probing, channels
<1> QED
    BY <1>1, <1>2, <1>3, <1>4, <1>5, <1>6, <1>7, <1>8 DEF RCNext, WaitNext

(* The two stored roles stay in step.                                      *)
LEMMA AgreeStep == RCTypeOK /\ StoredRolesAgree /\ [RCNext]_rcVars => StoredRolesAgree'
<1> SUFFICES ASSUME RCTypeOK, StoredRolesAgree, [RCNext]_rcVars
             PROVE  StoredRolesAgree'
    OBVIOUS
<1>1. CASE CheckerNext
    BY <1>1 DEF CheckerNext, ProbeDial, ProbeFail, ProbeReply, StoreIsMaster, PublishRole,
                Notify, Tick, CheckerStop, StoredRolesAgree, RCTypeOK, published
<1>2. CASE UNCHANGED <<published, probing>>
    BY <1>2 DEF published, probing, StoredRolesAgree
<1>3. CASE RoleChange \/ Cancel \/ WaitCall \/ WaitReturn
    BY <1>2, <1>3 DEF RoleChange, Cancel, WaitCall, WaitReturn
<1>4. CASE WaitNext \/ SubscriberNext
    BY <1>2, <1>4 DEF WaitNext, SubscriberNext, WaitCheck, WaitSubscribe, WaitRecheck,
                      WaitReceive, WaitCancelled
<1>5. CASE UNCHANGED rcVars
    BY <1>2, <1>5 DEF rcVars
<1> QED
    BY <1>1, <1>3, <1>4, <1>5 DEF RCNext

(* Nobody but Wait takes its channel off the list.                         *)
LEMMA RegisteredStep == RCTypeOK /\ WaiterRegistered /\ [RCNext]_rcVars => WaiterRegistered'
<1> SUFFICES ASSUME RCTypeOK, WaiterRegistered, [RCNext]_rcVars
             PROVE  WaiterRegistered'
    OBVIOUS
<1>1. CASE UNCHANGED <<waiters, waitPc>>
    BY <1>1 DEF WaiterRegistered
<1>2. CASE RoleChange \/ Cancel \/ CheckerNext \/ UNCHANGED rcVars
    BY <1>1, <1>2 DEF RoleChange, Cancel, CheckerNext, ProbeDial, ProbeFail, ProbeReply,
                StoreIsMaster, PublishRole, Notify, Tick, CheckerStop, channels, rcVars
<1>3. CASE WaitCall \/ WaitReturn \/ WaitCheck
    BY <1>3 DEF WaitCall, WaitReturn, WaitCheck, WaiterRegistered
<1>4. CASE WaitSubscribe \/ WaitRecheck \/ WaitReceive \/ WaitCancelled
    BY <1>4 DEF WaitSubscribe, WaitRecheck, WaitReceive, WaitCancelled, Subscribe, Unsubscribe,
                channels, WaiterRegistered
<1>5. CASE SubscriberNext
    BY <1>5 DEF SubscriberNext, Subscribe, Unsubscribe, Receive, WaiterRegistered
<1> QED
    BY <1>2, <1>3, <1>4, <1>5 DEF RCNext, WaitNext

-----------------------------------------------------------------------------
(* No wake-up is lost, given that the stored roles agree and that Wait is  *)
(* registered.                                                             *)
LEMMA WakeupStep ==
    RCInv /\ [RCNext]_rcVars => NoLostWakeup'
<1> SUFFICES ASSUME RCInv, [RCNext]_rcVars,
                    waitPc' = "select", Active'
             PROVE  signal'[Waiter] \/ NotifyPending'
    BY DEF NoLostWakeup
<1> USE DEF RCInv, NoLostWakeup, NotifyPending, Active
<1> USE SubscribersAssumption
<1>1. CASE UNCHANGED <<isMaster, current, checkerPc, probed, signal, waitPc>>
    BY <1>1
<1>2. CASE RoleChange \/ Cancel \/ UNCHANGED rcVars
    BY <1>1, <1>2 DEF RoleChange, Cancel, rcVars, published, probing, channels
<1>3. CASE CheckerNext
    <2>1. CASE ProbeDial \/ ProbeFail \/ ProbeReply \/ Tick \/ CheckerStop
        BY <2>1 DEF ProbeDial, ProbeFail, ProbeReply, Tick, CheckerStop, published, channels
    <2>2. CASE StoreIsMaster
        <3>1. isMaster' = (probed = "master") /\ checkerPc' = "publish"
              /\ UNCHANGED <<current, probed, signal, waitPc>>
            BY <2>2 DEF StoreIsMaster, channels
        <3>2. isMaster = (current = "master") /\ checkerPc = "store"
            BY <2>2 DEF StoreIsMaster, StoredRolesAgree
        <3>3. CASE probed = current
            BY <3>1, <3>2, <3>3
        <3>4. CASE probed # current
            BY <3>1, <3>4
        <3> QED
            BY <3>3, <3>4
    <2>3. CASE PublishRole
        BY <2>3 DEF PublishRole, channels
    <2>4. CASE Notify
        <3>1. Waiter \in waiters
            BY <2>4 DEF Notify, WaiterRegistered
        <3> QED
            BY <2>4, <3>1 DEF Notify
    <2> QED
        BY <1>3, <2>1, <2>2, <2>3, <2>4 DEF CheckerNext
<1>4. CASE WaitCall \/ WaitReturn \/ WaitCheck \/ WaitSubscribe \/ WaitReceive \/ WaitCancelled
    BY <1>4 DEF WaitCall, WaitReturn, WaitCheck, WaitSubscribe, WaitReceive, WaitCancelled
<1>5. CASE WaitRecheck
    BY <1>5 DEF WaitRecheck, published
<1>6. CASE SubscriberNext
    BY <1>6 DEF SubscriberNext, Subscribe, Unsubscribe, Receive, published, probing, RCTypeOK
<1> QED
    BY <1>2, <1>3, <1>4, <1>5, <1>6 DEF RCNext, WaitNext

(* No transition is missed by a subscriber whose channel is empty.         *)
LEMMA MissedStep ==
    RCInv /\ [RCNext]_rcVars => NoMissedTransition'
<1> SUFFICES ASSUME RCInv, [RCNext]_rcVars,
                    NEW s \in waiters', ~signal'[s]
             PROVE  seen'[s] = current' \/ checkerPc' = "notify"
    BY DEF NoMissedTransition
<1> USE DEF RCInv, NoMissedTransition
<1> USE SubscribersAssumption
<1>1. CASE UNCHANGED <<current, checkerPc, channels>>
    BY <1>1 DEF channels
<1>2. CASE RoleChange \/ Cancel \/ WaitCall \/ WaitReturn \/ WaitCheck \/ UNCHANGED rcVars
    BY <1>1, <1>2 DEF RoleChange, Cancel, WaitCall, WaitReturn, WaitCheck, rcVars, published, probing
<1>3. CASE CheckerNext
    <2>1. CASE Notify
        BY <2>1 DEF Notify, RCTypeOK
    <2>2. CASE PublishRole
        BY <2>2 DEF PublishRole, channels
    <2>3. CASE ProbeDial \/ ProbeFail \/ ProbeReply \/ StoreIsMaster \/ Tick \/ CheckerStop
        BY <2>3 DEF ProbeDial, ProbeFail, ProbeReply, StoreIsMaster, Tick, CheckerStop,
                    published, channels
    <2> QED
        BY <1>3, <2>1, <2>2, <2>3 DEF CheckerNext
<1>4. CASE WaitSubscribe \/ WaitRecheck \/ WaitReceive \/ WaitCancelled
    BY <1>4 DEF WaitSubscribe, WaitRecheck, WaitReceive, WaitCancelled, Subscribe, Unsubscribe,
                channels, published, probing, RCTypeOK
<1>5. CASE SubscriberNext
    BY <1>5 DEF SubscriberNext, Subscribe, Unsubscribe, Receive, published, probing, RCTypeOK
<1> QED
    BY <1>2, <1>3, <1>4, <1>5 DEF RCNext, WaitNext

-----------------------------------------------------------------------------
(* role.New establishes the inductive invariant.                           *)
LEMMA RCInitInv == RCInit => RCInv
BY DEF RCInit, RCInv, RCTypeOK, Roles, StoredRolesAgree, WaiterRegistered, NoLostWakeup,
       NoMissedTransition

(* The five parts of the invariant together are inductive.                 *)
LEMMA RCInvStep == RCInv /\ [RCNext]_rcVars => RCInv'
BY RCTypeStep, AgreeStep, RegisteredStep, WakeupStep, MissedStep DEF RCInv

(* The role checker's state always satisfies the inductive invariant.      *)
THEOREM CheckerInvariant == RCSpec => []RCInv
BY RCInitInv, RCInvStep, PTL DEF RCSpec

(* Checker.Wait cannot sleep through a promotion, for any number of        *)
(* subscribers and whatever they do.                                       *)
THEOREM WaitNeverLosesWakeup == RCSpec => []NoLostWakeup
<1>1. RCInv => NoLostWakeup
    BY DEF RCInv
<1> QED
    BY <1>1, CheckerInvariant, PTL

(* The capacity-one channels of subscribe coalesce notifications without   *)
(* hiding a transition.                                                    *)
THEOREM SubscribersMissNothing == RCSpec => []NoMissedTransition
<1>1. RCInv => NoMissedTransition
    BY DEF RCInv
<1> QED
    BY <1>1, CheckerInvariant, PTL
=============================================================================
