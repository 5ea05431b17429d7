------------------------- MODULE PushgatewayProofs -------------------------
(***************************************************************************)
(* The Pushgateway channel of pushgateway.go, proved for any set of        *)
(* gateways: below the engine it changes nothing of what AlertEngineProofs *)
(* shows, an alert counted as sent was taken by every gateway, and no push *)
(* outlives its Send.                                                      *)
(***************************************************************************)
EXTENDS Pushgateway, AlertEngineProofs

PushStep == EngineWithPush \/ (Others /\ UNCHANGED pushVars)

(* Send, spread over goroutines, is for the engine a call that returns.    *)
LEMMA PushStepIsEngineStep == [PushStep]_allVars => [Next]_vars
<1> SUFFICES ASSUME [PushStep]_allVars PROVE [Next]_vars
    OBVIOUS
<1>1. CASE PushNext
    BY <1>1 DEF PushNext, PushStart, PushOk, PushFail, PushReturn, Next, EngineNext, SendReturns
<1>2. CASE (LoopNext \/ OtherChannelReturns) \/ Others
    BY <1>2 DEF OtherChannelReturns, Next, EngineNext
<1>3. CASE UNCHANGED allVars
    BY <1>3 DEF allVars
<1> QED
    BY <1>1, <1>2, <1>3 DEF PushStep, EngineWithPush

(* The engine with the Pushgateway channel implements the engine, so what  *)
(* is proved of the one holds of the other.                                *)
THEOREM PushImplementsEngine == PushSpec => Spec
<1>1. PushInit => Init
    BY DEF PushInit
<1>2. [EngineWithPush \/ (Others /\ UNCHANGED pushVars)]_allVars => [Next]_vars
    BY PushStepIsEngineStep DEF PushStep
<1> QED
    BY <1>1, <1>2, PTL DEF PushSpec, Spec

-----------------------------------------------------------------------------
(* A push answered with success is on record; pushes are under way only    *)
(* during a Send; and what counts as sent is everywhere.                   *)
PushInv ==
    /\ push \in [Urls -> {"idle", "busy", "ok", "failed"}]
    /\ accepted \subseteq Urls
    /\ \A u \in Urls : push[u] = "ok" => u \in accepted
    /\ NoPushOutlivesSend
    /\ SentMeansEveryGateway

(* While the Pushgateway channel is at work, the alert has not ended there.*)
LEMMA NotYetSent ==
    ASSUME EngineTypeInv, DispatchInv, Sending
    PROVE  outcome[PushChannel].result # "sent"
<1>1. PushChannel \in Channels /\ ~(PushChannel < ch)
    BY RetryAssumption DEF Sending, PushChannel, Channels
<1>2. Untried(PushChannel)
    BY <1>1 DEF DispatchInv, Sending
<1> QED
    BY <1>2 DEF Untried, Pending

(* The channel's invariant is kept by every step of engine and channel.    *)
LEMMA PushInvStep ==
    EngineTypeInv /\ DispatchInv /\ PushInv /\ [PushStep]_allVars => PushInv'
<1> SUFFICES ASSUME EngineTypeInv, DispatchInv, PushInv, [PushStep]_allVars PROVE PushInv'
    OBVIOUS
<1> USE DEF PushInv, pushVars
<1>0. PushChannel \in Channels /\ outcome \in [Channels -> [result : {"none", "sent", "failed"}, tries : 0..RetryMax]]
    BY RetryAssumption DEF PushChannel, Channels, EngineTypeInv, TypeOK
<1>1. CASE PushStart
    <2>1. Sending' /\ outcome' = outcome
        BY <1>1 DEF PushStart, Sending, vars, dispatch, PushChannel
    <2>2. outcome[PushChannel].result # "sent"
        BY <1>1, NotYetSent DEF PushStart
    <2> QED
        BY <1>1, <2>1, <2>2 DEF PushStart, NoPushOutlivesSend, SentMeansEveryGateway, PushChannel
<1>2. ASSUME NEW u \in Urls, PushOk(u) \/ PushFail(u)
      PROVE  PushInv'
    <2>1. Sending
        BY <1>2 DEF PushOk, PushFail, NoPushOutlivesSend
    <2>2. Sending' /\ outcome' = outcome
        BY <1>2, <2>1 DEF PushOk, PushFail, Sending, vars, dispatch, PushChannel
    <2>3. outcome[PushChannel].result # "sent"
        BY <2>1, NotYetSent
    <2>4. CASE PushOk(u)
        BY <2>2, <2>3, <2>4 DEF PushOk, NoPushOutlivesSend, SentMeansEveryGateway, PushChannel
    <2>5. CASE PushFail(u)
        <3>1. accepted' \subseteq Urls /\ accepted \subseteq accepted'
            BY <2>5 DEF PushFail
        <3> QED
            BY <2>2, <2>3, <2>5, <3>1 DEF PushFail, NoPushOutlivesSend, SentMeansEveryGateway, PushChannel
    <2> QED
        BY <1>2, <2>4, <2>5
<1>3. CASE PushReturn
    <2>1. push' = [u \in Urls |-> "idle"] /\ accepted' = accepted
        BY <1>3 DEF PushReturn
    <2>2. CASE \A u \in Urls : push[u] = "ok"
        BY <2>1, <2>2 DEF NoPushOutlivesSend, SentMeansEveryGateway
    <2>3. CASE ~(\A u \in Urls : push[u] = "ok")
        <3>1. SendFail \/ SendFailLast
            BY <1>3, <2>3 DEF PushReturn
        <3>2. ch = PushChannel /\ outcome[PushChannel].result # "sent"
            BY <1>3, NotYetSent DEF PushReturn, Sending
        <3>3. CASE SendFail
            BY <2>1, <3>2, <3>3 DEF SendFail, NoPushOutlivesSend, SentMeansEveryGateway, PushChannel
        <3>4. CASE SendFailLast
            <4>1. outcome'[PushChannel].result = "failed"
                BY <1>0, <3>2, <3>4 DEF SendFailLast, GiveUp, Ended
            <4> QED
                BY <2>1, <4>1 DEF NoPushOutlivesSend, SentMeansEveryGateway, PushChannel
        <3> QED
            BY <3>1, <3>3, <3>4
    <2> QED
        BY <2>2, <2>3
<1>4. CASE OtherChannelReturns /\ UNCHANGED pushVars
    <2>1. ch # PushChannel /\ (SendOk \/ SendFail \/ SendFailLast)
        BY <1>4 DEF OtherChannelReturns, SendReturns
    <2>2. outcome'[PushChannel] = outcome[PushChannel]
        BY <1>0, <2>1 DEF SendOk, SendFail, SendFailLast, GiveUp, Ended
    <2>3. ~Sending
        BY <2>1 DEF Sending
    <2> QED
        BY <1>4, <2>2, <2>3 DEF NoPushOutlivesSend, SentMeansEveryGateway, PushChannel
<1>5. CASE LoopNext /\ UNCHANGED pushVars
    <2>1. ~Sending
        BY <1>5 DEF Sending, LoopNext, Take, Stop, Suppress, Fire, Retry, RetryAborted
    <2>2. outcome'[PushChannel].result = "sent" => outcome[PushChannel].result = "sent"
        <3>1. CASE Take
            BY <1>0, <3>1 DEF Take, Pending, PushChannel
        <3>2. CASE RetryAborted
            BY <1>0, <3>2 DEF RetryAborted, GiveUp, Ended
        <3>3. CASE Stop \/ Suppress \/ Fire \/ Retry
            BY <3>3 DEF Stop, Suppress, Fire, Retry
        <3> QED
            BY <1>5, <3>1, <3>2, <3>3 DEF LoopNext
    <2> QED
        BY <1>5, <2>1, <2>2 DEF NoPushOutlivesSend, SentMeansEveryGateway, PushChannel
<1>6. CASE (Others /\ UNCHANGED pushVars) \/ UNCHANGED allVars
    <2>1. UNCHANGED <<pc, ch, outcome, push, accepted>>
        BY <1>6 DEF Others, SubmitAccepted, SubmitDropped, Pass, Cancel, vars, allVars, dispatch
    <2> QED
        BY <2>1 DEF NoPushOutlivesSend, SentMeansEveryGateway, Sending, PushChannel
<1> QED
    BY <1>1, <1>2, <1>3, <1>4, <1>5, <1>6 DEF PushStep, EngineWithPush, PushNext

(* The invariant of the channel, on top of the engine's.                   *)
LEMMA PushInvariant == PushSpec => []PushInv
<1>1. PushInit => PushInv
    <2> SUFFICES ASSUME PushInit PROVE PushInv
        OBVIOUS
    <2>1. outcome[PushChannel].result = "none"
        BY RetryAssumption DEF PushInit, Init, Pending, PushChannel, Channels
    <2> QED
        BY <2>1 DEF PushInit, PushInv, NoPushOutlivesSend, SentMeansEveryGateway
<1>2. EngineTypeInv /\ DispatchInv /\ PushInv /\ [EngineWithPush \/ (Others /\ UNCHANGED pushVars)]_allVars => PushInv'
    BY PushInvStep DEF PushStep
<1> QED
    BY <1>1, <1>2, PushImplementsEngine, DispatchInvariant, PTL DEF PushSpec

(* Type correctness of engine and channel.                                 *)
THEOREM PushTypes == PushSpec => []PushTypeOK
<1>1. TypeOK /\ PushInv => PushTypeOK
    BY DEF PushInv, PushTypeOK
<1> QED
    BY <1>1, PushInvariant, PushImplementsEngine, EngineTypes, PTL

(* "The call succeeds when every push succeeds": an alert counted as sent  *)
(* was taken by every gateway, whichever attempt it was and whatever the   *)
(* gateways answered before.                                               *)
THEOREM SentIsEverywhere == PushSpec => []SentMeansEveryGateway
<1>1. PushInv => SentMeansEveryGateway
    BY DEF PushInv
<1> QED
    BY <1>1, PushInvariant, PTL

(* No push is in flight outside the Send it belongs to, so the gateways    *)
(* see alerts in order.                                                    *)
THEOREM SendWaitsForItsPushes == PushSpec => []NoPushOutlivesSend
<1>1. PushInv => NoPushOutlivesSend
    BY DEF PushInv
<1> QED
    BY <1>1, PushInvariant, PTL
=============================================================================
