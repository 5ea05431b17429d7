---------------------------- MODULE Pushgateway ----------------------------
(***************************************************************************)
(* The Pushgateway channel of internal/alert/pushgateway.go below the      *)
(* alert engine.  Send pushes the alert to every configured URL, one       *)
(* goroutine each, waits for all of them and fails if one of them failed.  *)
(* The engine visits the channel last (buildAlertEngine); the other        *)
(* channels are a single HTTP request and stay atomic.                     *)
(***************************************************************************)
EXTENDS AlertEngine

CONSTANT Urls   \* alerts.pushgateway.urls; Validate wants at least one

ASSUME UrlsAssumption == Urls # {}

VARIABLES
    push,       \* the goroutine of each URL
    accepted    \* history: the gateways that took the alert being sent

pushVars == <<push, accepted>>
allVars  == <<vars, pushVars>>

PushChannel == NumChannels

PushTypeOK ==
    /\ TypeOK
    /\ push \in [Urls -> {"idle", "busy", "ok", "failed"}]
    /\ accepted \subseteq Urls

PushInit ==
    /\ Init
    /\ push = [u \in Urls |-> "idle"]
    /\ accepted = {}

Sending == pc = "send" /\ ch = PushChannel

-----------------------------------------------------------------------------
(* The loop that starts the goroutines.                                    *)
PushStart ==
    /\ Sending /\ push = [u \in Urls |-> "idle"]
    /\ push' = [u \in Urls |-> "busy"]
    /\ accepted' = IF attempt = 1 THEN {} ELSE accepted
    /\ UNCHANGED vars

(* PushContext: the gateway answers with success, ...                      *)
PushOk(u) ==
    /\ push[u] = "busy"
    /\ push' = [push EXCEPT ![u] = "ok"]
    /\ accepted' = accepted \cup {u}
    /\ UNCHANGED vars

(* ... or with an error, or not in time, whether it took the alert or not. *)
PushFail(u) ==
    /\ push[u] = "busy"
    /\ push' = [push EXCEPT ![u] = "failed"]
    /\ accepted' \in {accepted, accepted \cup {u}}
    /\ UNCHANGED vars

(* Variant with a bug: one gateway that takes the alert is enough. *)
PushReturnAny ==
    /\ Sending /\ \A u \in Urls : push[u] \in {"ok", "failed"}
    /\ IF \E u \in Urls : push[u] = "ok" THEN SendOk ELSE SendFail \/ SendFailLast
    /\ push' = [u \in Urls |-> "idle"]
    /\ UNCHANGED accepted

(* Variant with a bug: the first failure returns at once. *)
PushReturnEarly ==
    /\ Sending
    /\ \/ (\A u \in Urls : push[u] = "ok") /\ SendOk
       \/ (\E u \in Urls : push[u] = "failed") /\ (SendFail \/ SendFailLast)
    /\ push' = [u \in Urls |-> IF push[u] = "busy" THEN "busy" ELSE "idle"]
    /\ UNCHANGED accepted

(* wg.Wait returns and errs decides.                                       *)
PushReturn ==
    /\ Sending /\ \A u \in Urls : push[u] \in {"ok", "failed"}
    /\ IF \A u \in Urls : push[u] = "ok" THEN SendOk ELSE SendFail \/ SendFailLast
    /\ push' = [u \in Urls |-> "idle"]
    /\ UNCHANGED accepted

PushNext ==
    \/ PushStart
    \/ \E u \in Urls : PushOk(u) \/ PushFail(u)
    \/ PushReturn

OtherChannelReturns == ch # PushChannel /\ SendReturns

EngineWithPush ==
    \/ (LoopNext \/ OtherChannelReturns) /\ UNCHANGED pushVars
    \/ PushNext

PushSpec ==
    /\ PushInit /\ [][EngineWithPush \/ (Others /\ UNCHANGED pushVars)]_allVars
    /\ WF_allVars(EngineWithPush)
    /\ SF_allVars(Stop /\ UNCHANGED pushVars)

-----------------------------------------------------------------------------
(* "The call succeeds when every push succeeds": an alert that the engine  *)
(* counts as sent, on whichever attempt, was taken by every gateway.       *)
SentMeansEveryGateway ==
    outcome[PushChannel].result = "sent" => accepted = Urls

(* No push outlives its Send: none is in flight while the engine sleeps,   *)
(* works on another alert or has stopped, so the engine starts no push of  *)
(* an alert before those of the one before it have returned.  (A request   *)
(* that timed out may still reach its gateway later.)                      *)
NoPushOutlivesSend == (\E u \in Urls : push[u] # "idle") => Sending
=============================================================================
