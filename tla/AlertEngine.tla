---------------------------- MODULE AlertEngine ----------------------------
(***************************************************************************)
(* The alert engine of internal/alert/alert.go: one goroutine takes events *)
(* from a bounded queue, matches them, limits the rate of alerts per       *)
(* (command, source IP) and sends each alert to every channel in turn,     *)
(* with bounded retries and exponential backoff.                           *)
(*                                                                         *)
(* An event is what handle makes of it: "quiet" if no rule matches or its  *)
(* source IP is ignored, and its rate-limit key otherwise.  Time is a      *)
(* counter.                                                                *)
(***************************************************************************)
EXTENDS Naturals, Sequences, FiniteSets

CONSTANTS
    Keys,               \* rate-limit keys, command|ip
    NumChannels,        \* channels, in the order handle visits them
    RateLimit,          \* alerts.rate_limit.enabled
    RateMax,            \* alerts.rate_limit.max_alerts
    RateWindow,         \* alerts.rate_limit.window
    RetryMax,           \* alerts.retry.max_attempts
    InitialBackoff, MaxBackoff,
    Minute,             \* the cap of an unlimited backoff
    AlertCap,           \* capacity of Engine.in
    DropOnFull,
    MaxTime, MaxEvents  \* bounds

Channels == 1..NumChannels
Events   == Keys \cup {"quiet"}

ASSUME KeysAssumption == Keys \cap {"quiet", "none"} = {}
ASSUME RateAssumption == RateLimit \in BOOLEAN /\ RateMax \in Nat /\ RateWindow \in Nat
ASSUME RetryAssumption ==
    /\ NumChannels \in Nat \ {0} /\ RetryMax \in Nat \ {0}
    /\ InitialBackoff \in Nat /\ MaxBackoff \in Nat /\ Minute \in Nat
    /\ MaxBackoff > 0 => InitialBackoff <= MaxBackoff
ASSUME QueueAssumption == AlertCap \in Nat \ {0} /\ DropOnFull \in BOOLEAN
ASSUME BoundsAssumption == MaxTime \in Nat /\ MaxEvents \in Nat

VARIABLES
    cancelled,      \* the context is done
    now,            \* time.Now()
    submitted,      \* number of Submit calls, for the bound
    in,             \* Engine.in
    pc,             \* where Engine.Run is
    ev,             \* the event handle works on, or "none"
    rates,          \* Engine.rates: a bucket for every key met so far
    ch,             \* the channel sendOne works on
    attempt,        \* its attempt
    backoff,        \* its next sleep
    failingChannels,\* Registry.failingAlertChannels
    fired,          \* history: the times at which alerts of a key were let through
    outcome         \* history: how the alert of the latest event ended on each channel

dispatch == <<ch, attempt, backoff>>
vars == <<cancelled, now, submitted, in, pc, ev, rates, dispatch,
          failingChannels, fired, outcome>>

TypeOK ==
    /\ cancelled \in BOOLEAN
    /\ now \in 0..MaxTime
    /\ submitted \in 0..MaxEvents
    /\ in \in Seq(Events) /\ Len(in) <= AlertCap
    /\ pc \in {"select", "handle", "send", "sleep", "closed"}
    /\ ev \in Events \cup {"none"}
    /\ DOMAIN rates \subseteq Keys
    /\ \A k \in DOMAIN rates : rates[k] \in [windowStart : Nat, count : Nat]
    /\ ch \in Channels
    /\ attempt \in 1..RetryMax
    /\ backoff \in Nat
    /\ failingChannels \subseteq Channels
    /\ fired \in [Keys -> Seq(Nat)]
    /\ outcome \in [Channels -> [result : {"none", "sent", "failed"}, tries : 0..RetryMax]]

Pending == [result |-> "none", tries |-> 0]

Init ==
    /\ cancelled = FALSE
    /\ now = 0
    /\ submitted = 0
    /\ in = <<>>
    /\ pc = "select"
    /\ ev = "none"
    /\ rates = [k \in {} |-> 0]
    /\ ch = 1
    /\ attempt = 1
    /\ backoff = InitialBackoff
    /\ failingChannels = {}
    /\ fired = [k \in Keys |-> <<>>]
    /\ outcome = [c \in Channels |-> Pending]

-----------------------------------------------------------------------------
(* nextBackoff: double, up to MaxBackoff, or to a minute when that is 0.   *)
BackoffCap == IF MaxBackoff > 0 THEN MaxBackoff ELSE Minute

(* Variant with a bug: no cap. *)
NextBackoffUncapped(cur) == 2 * cur

NextBackoff(cur) == IF 2 * cur > BackoffCap THEN BackoffCap ELSE 2 * cur

(* rateLimitAllow: a bucket that is older than the window starts anew.     *)
Unlimited == ~RateLimit \/ RateMax = 0 \/ RateWindow = 0

(* Variant with a bug: the boundary belongs to the next window. *)
FreshWindowEarly(k) ==
    k \in DOMAIN rates => now >= rates[k].windowStart + RateWindow

FreshWindow(k) ==
    k \in DOMAIN rates => now > rates[k].windowStart + RateWindow

RateLimitAllow(k) == ~Unlimited /\ ~FreshWindow(k) => rates[k].count < RateMax

(* Variant with a bug: a new bucket does not count its first alert. *)
CountedBucketFromZero(k) ==
    IF k \in DOMAIN rates /\ now <= rates[k].windowStart + RateWindow
      THEN [rates[k] EXCEPT !.count = @ + 1]
      ELSE [windowStart |-> now, count |-> 0]

(* Engine.rates after a call that allowed k.                               *)
CountedBucket(k) ==
    IF FreshWindow(k) THEN [windowStart |-> now, count |-> 1]
                      ELSE [rates[k] EXCEPT !.count = @ + 1]

Counted(k) ==
    [j \in DOMAIN rates \cup {k} |-> IF j = k THEN CountedBucket(k) ELSE rates[j]]

-----------------------------------------------------------------------------
(* Submit, by the dispatcher.                                              *)

SubmitAccepted ==
    /\ submitted < MaxEvents /\ Len(in) < AlertCap
    /\ \E e \in Events : in' = Append(in, e)
    /\ submitted' = submitted + 1
    /\ UNCHANGED <<cancelled, now, pc, ev, rates, dispatch, failingChannels, fired, outcome>>

SubmitDropped ==
    /\ submitted < MaxEvents /\ DropOnFull /\ Len(in) = AlertCap
    /\ submitted' = submitted + 1
    /\ UNCHANGED <<cancelled, now, in, pc, ev, rates, dispatch, failingChannels, fired, outcome>>

(* The select of Run.                                                      *)
Take ==
    /\ pc = "select" /\ in # <<>>
    /\ ev' = Head(in)
    /\ in' = Tail(in)
    /\ pc' = "handle"
    /\ outcome' = [c \in Channels |-> Pending]
    /\ UNCHANGED <<cancelled, now, submitted, rates, dispatch, failingChannels, fired>>

Stop ==
    /\ pc = "select" /\ cancelled
    /\ pc' = "closed"
    /\ UNCHANGED <<cancelled, now, submitted, in, ev, rates, dispatch, failingChannels, fired, outcome>>

(* handle: no match, an ignored source, or too many alerts of this key.    *)
Suppress ==
    /\ pc = "handle"
    /\ ev \in Keys => ~RateLimitAllow(ev)
    /\ pc' = "select"
    /\ ev' = "none"
    /\ UNCHANGED <<cancelled, now, submitted, in, rates, dispatch, failingChannels, fired, outcome>>

(* handle: the alert is let through and goes to the first channel.         *)
Fire ==
    /\ pc = "handle" /\ ev \in Keys /\ RateLimitAllow(ev)
    /\ rates' = IF Unlimited THEN rates ELSE Counted(ev)
    /\ fired' = [fired EXCEPT ![ev] = Append(@, now)]
    /\ pc' = "send"
    /\ ch' = 1
    /\ attempt' = 1
    /\ backoff' = InitialBackoff
    /\ UNCHANGED <<cancelled, now, submitted, in, ev, failingChannels, outcome>>

-----------------------------------------------------------------------------
(* sendOne.                                                                *)

(* sendOne returns: the next channel, or the end of handle.                *)
NextChannel ==
    /\ IF ch < NumChannels THEN ch' = ch + 1 /\ pc' = "send" /\ UNCHANGED ev
                           ELSE ch' = ch /\ pc' = "select" /\ ev' = "none"
    /\ attempt' = 1
    /\ backoff' = InitialBackoff

(* Registry.SetAlertChannelFailing, and how the alert ended on ch.          *)
SetAlertChannelFailing(bad) ==
    failingChannels' = IF bad THEN failingChannels \cup {ch} ELSE failingChannels \ {ch}

Ended(result) ==
    outcome' = [outcome EXCEPT ![ch] = [result |-> result, tries |-> attempt]]

(* Variant with a bug: the first failing channel ends the dispatch. *)
GiveUpDispatch ==
    /\ Ended("failed")
    /\ SetAlertChannelFailing(TRUE)
    /\ pc' = "select"
    /\ ev' = "none"
    /\ UNCHANGED dispatch

(* What follows the loop of sendOne however it ended, by its last attempt  *)
(* or by the context: the failure is logged, marked in the registry and    *)
(* captured.                                                               *)
GiveUp ==
    /\ Ended("failed")
    /\ SetAlertChannelFailing(TRUE)
    /\ NextChannel

SendOk ==
    /\ pc = "send"
    /\ Ended("sent")
    /\ SetAlertChannelFailing(FALSE)
    /\ NextChannel
    /\ UNCHANGED <<cancelled, now, submitted, in, rates, fired>>

(* Variant with a bug: one attempt too many. *)
SendFailOneMore ==
    /\ pc = "send" /\ attempt <= RetryMax
    /\ pc' = "sleep"
    /\ UNCHANGED <<cancelled, now, submitted, in, ev, rates, dispatch, failingChannels, fired, outcome>>

SendFail ==
    /\ pc = "send" /\ attempt < RetryMax
    /\ pc' = "sleep"
    /\ UNCHANGED <<cancelled, now, submitted, in, ev, rates, dispatch, failingChannels, fired, outcome>>

(* Variant with a bug: one attempt too few. *)
SendFailLastEarly ==
    /\ pc = "send" /\ attempt >= RetryMax - 1
    /\ GiveUp
    /\ UNCHANGED <<cancelled, now, submitted, in, rates, fired>>

SendFailLast ==
    /\ pc = "send" /\ attempt = RetryMax
    /\ GiveUp
    /\ UNCHANGED <<cancelled, now, submitted, in, rates, fired>>

(* Variant with a bug: the attempt is not counted. *)
RetryUncounted ==
    /\ pc = "sleep" /\ (backoff = 0 => ~cancelled)
    /\ pc' = "send"
    /\ backoff' = NextBackoff(backoff)
    /\ UNCHANGED <<cancelled, now, submitted, in, ev, rates, ch, attempt, failingChannels, fired, outcome>>

(* sleepWithContext returns true, or false because of the context.  A zero *)
(* sleep looks at the context first; otherwise either may win.             *)
Retry ==
    /\ pc = "sleep" /\ (backoff = 0 => ~cancelled)
    /\ pc' = "send"
    /\ attempt' = attempt + 1
    /\ backoff' = NextBackoff(backoff)
    /\ UNCHANGED <<cancelled, now, submitted, in, ev, rates, ch, failingChannels, fired, outcome>>

RetryAborted ==
    /\ pc = "sleep" /\ cancelled
    /\ GiveUp
    /\ UNCHANGED <<cancelled, now, submitted, in, rates, fired>>

-----------------------------------------------------------------------------
(* Only handle looks at the clock, so it is enough that time passes before *)
(* an alert is dispatched, however long the dispatch before it took.       *)
Pass ==
    /\ now < MaxTime /\ pc \in {"select", "handle"}
    /\ now' = now + 1
    /\ UNCHANGED <<cancelled, submitted, in, pc, ev, rates, dispatch, failingChannels, fired, outcome>>

Cancel ==
    /\ ~cancelled
    /\ cancelled' = TRUE
    /\ UNCHANGED <<now, submitted, in, pc, ev, rates, dispatch, failingChannels, fired, outcome>>

(* Channel.Send returns.                                                   *)
SendReturns == SendOk \/ SendFail \/ SendFailLast

(* The engine's own steps, and the rest of the world's.                    *)
LoopNext ==
    \/ Take
    \/ Stop
    \/ Suppress
    \/ Fire
    \/ Retry
    \/ RetryAborted

Others ==
    \/ SubmitAccepted
    \/ SubmitDropped
    \/ Pass
    \/ Cancel

EngineNext == LoopNext \/ SendReturns

Next == EngineNext \/ Others

Spec == Init /\ [][Next]_vars

(* The engine's goroutine runs, each Send ends within its timeout, and the *)
(* select of Run does not overlook the context for ever.                   *)
FairSpec == Spec /\ WF_vars(EngineNext) /\ SF_vars(Stop)

-----------------------------------------------------------------------------
(* The alerts of k let through from time t to time t + RateWindow.         *)
FiredIn(k, t) == {i \in DOMAIN fired[k] : fired[k][i] \in t .. t + RateWindow}

(* How much the limiter lets through: its windows are fixed, not sliding,  *)
(* so a stretch of one window's length can meet two of them, but not the   *)
(* first alert of both: 2 * max_alerts - 1.  ("At most `max_alerts` alerts *)
(* per `window`", config.example.yaml:176, holds of each fixed window.)    *)
RateBound ==
    ~Unlimited => \A k \in Keys : \A t \in 0..MaxTime :
        Cardinality(FiredIn(k, t)) <= 2 * RateMax - 1

(* The bucket of a key counts exactly the alerts let through since its     *)
(* window began: no event of another key, and no retry, is charged to it.  *)
BucketCountsFired ==
    ~Unlimited => \A k \in Keys :
        IF k \in DOMAIN rates
          THEN /\ rates[k].count <= RateMax
               /\ rates[k].count =
                    Cardinality({i \in DOMAIN fired[k] : fired[k][i] >= rates[k].windowStart})
          ELSE fired[k] = <<>>

(* "A transient failure on one [channel] does not prevent delivery to the  *)
(* others": an alert that has been handled was tried on every channel, and *)
(* readiness shows exactly the channels on which it failed.                *)
EveryChannelTried ==
    pc \in {"select", "closed"} /\ (\E c \in Channels : outcome[c].tries > 0) =>
        /\ \A c \in Channels : outcome[c].tries > 0
        /\ failingChannels = {c \in Channels : outcome[c].result = "failed"}

(* As long as the daemon is not shut down, a channel is given up only      *)
(* after RetryMax attempts, however the channels before it fared.          *)
GivenUpOnlyWhenExhausted ==
    ~cancelled => \A c \in Channels :
        outcome[c].result = "failed" => outcome[c].tries = RetryMax

(* sentryx.Capture is called, after the loop, for every dispatch that did  *)
(* not succeed; it does not look at the error.                             *)
Captured(c) == outcome[c].result = "failed"

(* "sentryx.Capture is invoked only after all retries are exhausted"       *)
(* (sendOne), "Sentry only captures after all attempts for a channel are   *)
(* exhausted" (README), also at shutdown.                                  *)
CapturedOnlyWhenExhausted ==
    \A c \in Channels : Captured(c) => outcome[c].tries = RetryMax

(* No sleep exceeds the cap, provided the first one does not, and none is  *)
(* shorter than the one before it: doubling saturates.                     *)
BackoffGrowsToCap ==
    InitialBackoff <= BackoffCap =>
        /\ backoff \in InitialBackoff .. BackoffCap
        /\ attempt > 1 => backoff = BackoffCap \/ backoff = InitialBackoff * 2 ^ (attempt - 1)

(* Shutdown ends the engine however its channels fail: each Send ends and  *)
(* the remaining attempts are bounded.                                     *)
ShutdownStopsEngine == cancelled ~> pc = "closed"
=============================================================================
