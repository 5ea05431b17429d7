------------------------- MODULE AlertEngineProofs -------------------------
(***************************************************************************)
(* The alert engine of alert.go, proved for any keys, channels, limits and *)
(* attempts: types, what the rate limiter lets through, which channels an  *)
(* alert is tried on, and the backoff.                                     *)
(***************************************************************************)
EXTENDS AlertEngine, FiniteSetTheorems, TLAPS

(* What the program counter says of the event and of the attempt.          *)
EngineShape ==
    /\ pc \in {"select", "closed"} <=> ev = "none"
    /\ pc \in {"send", "sleep"} => ev \in Keys
    /\ pc = "sleep" => attempt < RetryMax

EngineTypeInv == TypeOK /\ EngineShape

(* nextBackoff returns a duration.                                         *)
LEMMA NextBackoffType == ASSUME NEW cur \in Nat PROVE NextBackoff(cur) \in Nat
BY RetryAssumption DEF NextBackoff, BackoffCap

(* The engine starts with the types.                                       *)
LEMMA EngineTypeInit == Init => EngineTypeInv
<1> SUFFICES ASSUME Init PROVE EngineTypeInv
    OBVIOUS
<1>1. 1 \in Channels /\ 1 \in 1..RetryMax /\ 0 \in 0..RetryMax /\ InitialBackoff \in Nat
    BY RetryAssumption DEF Channels
<1>2. outcome \in [Channels -> [result : {"none", "sent", "failed"}, tries : 0..RetryMax]]
    BY <1>1 DEF Init, Pending
<1>3. fired \in [Keys -> Seq(Nat)] /\ in \in Seq(Events) /\ Len(in) <= AlertCap
    <2>1. <<>> \in Seq(Nat) /\ <<>> \in Seq(Events) /\ Len(<<>>) = 0
        OBVIOUS
    <2> QED
        BY <2>1, QueueAssumption DEF Init
<1>4. DOMAIN rates \subseteq Keys /\ \A k \in DOMAIN rates : rates[k] \in [windowStart : Nat, count : Nat]
    BY DEF Init
<1>5. cancelled \in BOOLEAN
    BY DEF Init
<1>6. TypeOK
    BY <1>1, <1>2, <1>3, <1>4, <1>5, BoundsAssumption DEF Init, TypeOK
<1> QED
    BY <1>6 DEF Init, EngineTypeInv, EngineShape

(* sendOne ends, and handle goes on to the next channel or returns.        *)
LEMMA EndedTypes ==
    ASSUME EngineTypeInv, pc \in {"send", "sleep"}, NEW result \in {"sent", "failed"}, NEW bad \in BOOLEAN,
           Ended(result), SetAlertChannelFailing(bad), NextChannel
    PROVE  /\ outcome' \in [Channels -> [result : {"none", "sent", "failed"}, tries : 0..RetryMax]]
           /\ failingChannels' \subseteq Channels
           /\ ch' \in Channels /\ attempt' \in 1..RetryMax /\ backoff' \in Nat
           /\ pc' \in {"send", "select"} /\ ev' \in Events \cup {"none"}
           /\ pc' = "select" <=> ev' = "none"
           /\ pc' = "send" => ev' \in Keys
<1> USE RetryAssumption DEF EngineTypeInv, TypeOK, EngineShape, Channels
<1>1. outcome' \in [Channels -> [result : {"none", "sent", "failed"}, tries : 0..RetryMax]]
    <2>1. [result |-> result, tries |-> attempt] \in [result : {"none", "sent", "failed"}, tries : 0..RetryMax]
        OBVIOUS
    <2> QED
        BY <2>1 DEF Ended
<1>2. failingChannels' \subseteq Channels
    BY DEF SetAlertChannelFailing
<1>3. ch' \in Channels /\ attempt' \in 1..RetryMax /\ backoff' \in Nat
    BY DEF NextChannel
<1>4. /\ pc' \in {"send", "select"} /\ ev' \in Events \cup {"none"}
      /\ pc' = "select" <=> ev' = "none"
      /\ pc' = "send" => ev' \in Keys
    BY DEF NextChannel, Events
<1> QED
    BY <1>1, <1>2, <1>3, <1>4

(* Engine.rates after an alert was let through is again a map of buckets.  *)
LEMMA CountedTypes ==
    ASSUME EngineTypeInv, NEW k \in Keys
    PROVE  /\ DOMAIN Counted(k) \subseteq Keys
           /\ \A j \in DOMAIN Counted(k) : Counted(k)[j] \in [windowStart : Nat, count : Nat]
<1> USE DEF EngineTypeInv, TypeOK
<1>1. DOMAIN Counted(k) = DOMAIN rates \cup {k}
    BY DEF Counted
<1>2. now \in Nat
    BY BoundsAssumption
<1>3. CountedBucket(k) \in [windowStart : Nat, count : Nat]
    <2>1. CASE FreshWindow(k)
        BY <1>2, <2>1 DEF CountedBucket
    <2>2. CASE ~FreshWindow(k)
        <3>1. k \in DOMAIN rates /\ rates[k] \in [windowStart : Nat, count : Nat]
            BY <2>2 DEF FreshWindow
        <3>2. [rates[k] EXCEPT !.count = @ + 1] \in [windowStart : Nat, count : Nat]
            BY <3>1, SMTT(30)
        <3> QED
            BY <2>2, <3>2 DEF CountedBucket
    <2> QED
        BY <2>1, <2>2
<1> QED
    BY <1>1, <1>3 DEF Counted

(* Types and shape are kept by every step of the engine.                   *)
LEMMA EngineTypeStep == EngineTypeInv /\ [Next]_vars => EngineTypeInv'
<1> SUFFICES ASSUME EngineTypeInv, [Next]_vars PROVE EngineTypeInv'
    OBVIOUS
<1> USE QueueAssumption, BoundsAssumption, RetryAssumption, KeysAssumption
<1> USE DEF EngineTypeInv, TypeOK, EngineShape, dispatch
<1>1. CASE SubmitAccepted
    <2>1. PICK e \in Events : in' = Append(in, e)
        BY <1>1 DEF SubmitAccepted
    <2>2. in' \in Seq(Events) /\ Len(in') <= AlertCap
        BY <1>1, <2>1 DEF SubmitAccepted
    <2> QED
        BY <1>1, <2>2 DEF SubmitAccepted
<1>2. CASE SubmitDropped
    BY <1>2 DEF SubmitDropped
<1>3. CASE Take
    <2>1. Head(in) \in Events /\ Tail(in) \in Seq(Events) /\ Len(Tail(in)) <= AlertCap
        BY <1>3 DEF Take
    <2>2. Head(in) # "none"
        BY <2>1 DEF Events
    <2>3. outcome' \in [Channels -> [result : {"none", "sent", "failed"}, tries : 0..RetryMax]]
        BY <1>3 DEF Take, Pending
    <2> QED
        BY <1>3, <2>1, <2>2, <2>3 DEF Take
<1>4. CASE Stop
    BY <1>4 DEF Stop
<1>5. CASE Suppress
    BY <1>5 DEF Suppress
<1>6. CASE Fire
    <2>1. fired' \in [Keys -> Seq(Nat)]
        <3>1. Append(fired[ev], now) \in Seq(Nat)
            BY <1>6 DEF Fire
        <3> QED
            BY <1>6, <3>1 DEF Fire
    <2>2. DOMAIN rates' \subseteq Keys /\ \A k \in DOMAIN rates' : rates'[k] \in [windowStart : Nat, count : Nat]
        BY <1>6, CountedTypes DEF Fire
    <2> QED
        BY <1>6, <2>1, <2>2 DEF Fire, Channels
<1>7. CASE SendOk
    BY <1>7, EndedTypes DEF SendOk
<1>8. CASE SendFail
    BY <1>8 DEF SendFail
<1>9. CASE SendFailLast \/ RetryAborted
    BY <1>9, EndedTypes DEF SendFailLast, RetryAborted, GiveUp
<1>10. CASE Retry
    <2>1. backoff' \in Nat /\ attempt' \in 1..RetryMax
        BY <1>10, NextBackoffType, SMTT(30) DEF Retry
    <2> QED
        BY <1>10, <2>1 DEF Retry
<1>11. CASE Pass
    BY <1>11 DEF Pass
<1>12. CASE Cancel
    <2>1. cancelled' \in BOOLEAN
        BY <1>12 DEF Cancel
    <2> QED
        BY <1>12, <2>1 DEF Cancel
<1>13. CASE UNCHANGED vars
    BY <1>13 DEF vars
<1> QED
    BY <1>1, <1>2, <1>3, <1>4, <1>5, <1>6, <1>7, <1>8, <1>9, <1>10, <1>11, <1>12, <1>13
    DEF Next, EngineNext, LoopNext, SendReturns, Others

(* Type correctness of the engine: one event in hand, the queue within its *)
(* capacity, a valid channel and attempt.                                  *)
THEOREM EngineTypes == Spec => []TypeOK
<1>1. EngineTypeInv => TypeOK
    BY DEF EngineTypeInv
<1> QED
    BY <1>1, EngineTypeInit, EngineTypeStep, PTL DEF Spec

-----------------------------------------------------------------------------
(* The rate limiter, seen as the history f of one key's alerts together    *)
(* with the windowStart ws and the count c of its bucket.                  *)

Since(f, t) == {i \in DOMAIN f : t <= f[i]}

Between(f, t, u) == {i \in DOMAIN f : t <= f[i] /\ f[i] < u}

Stretch(f, t) == {i \in DOMAIN f : f[i] \in t .. t + RateWindow}

(* The bucket counts the alerts since its window began, the first of them  *)
(* began it, and none is later than its end.  A stretch that reaches into  *)
(* the window meets at most RateMax - 1 alerts from before it: the first   *)
(* alert of the window before is more than RateWindow earlier.             *)
BucketInv(f, ws, c) ==
    /\ c = Cardinality(Since(f, ws))
    /\ c <= RateMax
    /\ \E i \in DOMAIN f : f[i] = ws
    /\ \A i \in DOMAIN f : f[i] <= ws + RateWindow
    /\ \A t \in Nat : ws <= t + RateWindow => Cardinality(Between(f, t, ws)) <= RateMax - 1
    /\ \A t \in Nat : Cardinality(Stretch(f, t)) <= 2 * RateMax - 1

(* Only finitely many alerts have been let through.                        *)
LEMMA HistoriesFinite ==
    ASSUME NEW f \in Seq(Nat), NEW t \in Nat, NEW u \in Nat
    PROVE  /\ IsFiniteSet(Since(f, t)) /\ Cardinality(Since(f, t)) \in Nat
           /\ IsFiniteSet(Between(f, t, u)) /\ Cardinality(Between(f, t, u)) \in Nat
           /\ IsFiniteSet(Stretch(f, t)) /\ Cardinality(Stretch(f, t)) \in Nat
<1>1. IsFiniteSet(DOMAIN f)
    <2>1. DOMAIN f = 1..Len(f) /\ Len(f) \in Int /\ 1 \in Int
        OBVIOUS
    <2> QED
        BY <2>1, FS_Interval
<1>2. Since(f, t) \subseteq DOMAIN f /\ Between(f, t, u) \subseteq DOMAIN f /\ Stretch(f, t) \subseteq DOMAIN f
    BY DEF Since, Between, Stretch
<1>3. IsFiniteSet(Since(f, t)) /\ IsFiniteSet(Between(f, t, u)) /\ IsFiniteSet(Stretch(f, t))
    BY <1>1, <1>2, FS_Subset
<1> QED
    BY <1>3, FS_CardinalityType

(* One more alert: what it adds to each of the three sets.                 *)
LEMMA OneMoreAlert ==
    ASSUME NEW f \in Seq(Nat), NEW n \in Nat, NEW t \in Nat, NEW u \in Nat
    PROVE  LET g == Append(f, n)
           IN  /\ Since(g, t) = IF t <= n THEN Since(f, t) \cup {Len(f) + 1} ELSE Since(f, t)
               /\ u <= n => Between(g, t, u) = Between(f, t, u)
               /\ t + RateWindow < n => Stretch(g, t) = Stretch(f, t)
               /\ Len(f) + 1 \notin Since(f, t)
<1> DEFINE g == Append(f, n)
<1>1. /\ DOMAIN f = 1..Len(f) /\ Len(f) \in Nat /\ DOMAIN g = 1..Len(f) + 1
      /\ g[Len(f) + 1] = n /\ \A i \in DOMAIN f : g[i] = f[i] /\ f[i] \in Nat
    OBVIOUS
<1>2. \A i : i \in DOMAIN g <=> i \in DOMAIN f \/ i = Len(f) + 1
    BY <1>1
<1> HIDE DEF g
<1>3. Len(f) + 1 \notin DOMAIN f
    BY <1>1
<1>4. Since(g, t) = IF t <= n THEN Since(f, t) \cup {Len(f) + 1} ELSE Since(f, t)
    BY <1>1, <1>2 DEF Since
<1>5. u <= n => Between(g, t, u) = Between(f, t, u)
    BY <1>1, <1>2 DEF Between
<1>6. t + RateWindow < n => Stretch(g, t) = Stretch(f, t)
    BY <1>1, <1>2, RateAssumption DEF Stretch
<1> QED
    BY <1>3, <1>4, <1>5, <1>6 DEF Since, g

(* A stretch that reaches into the window: the alerts before the window    *)
(* and those in it.                                                        *)
LEMMA StretchBound ==
    ASSUME NEW f \in Seq(Nat), NEW t \in Nat, NEW ws \in Nat, RateMax > 0,
           Cardinality(Between(f, t, ws)) <= RateMax - 1, Cardinality(Since(f, ws)) <= RateMax
    PROVE  Cardinality(Stretch(f, t)) <= 2 * RateMax - 1
<1> DEFINE A == Between(f, t, ws)
           B == Since(f, ws)
<1>1. /\ IsFiniteSet(A) /\ Cardinality(A) \in Nat /\ IsFiniteSet(B) /\ Cardinality(B) \in Nat
      /\ Cardinality(Stretch(f, t)) \in Nat
    BY HistoriesFinite
<1>2. Stretch(f, t) \subseteq A \cup B
    BY RateAssumption DEF Stretch, Between, Since
<1>3. IsFiniteSet(A \cup B) /\ Cardinality(A \cup B) = Cardinality(A) + Cardinality(B) - Cardinality(A \cap B)
    BY <1>1, FS_Union
<1>4. Cardinality(A \cap B) \in Nat
    BY <1>1, FS_Intersection, FS_CardinalityType
<1>5. Cardinality(Stretch(f, t)) <= Cardinality(A \cup B)
    BY <1>2, <1>3, FS_Subset
<1> HIDE DEF A, B
<1>6. Cardinality(A) <= RateMax - 1 /\ Cardinality(B) <= RateMax
    BY DEF A, B
<1> QED
    BY <1>1, <1>3, <1>4, <1>5, <1>6, RateAssumption

(* The alert that starts the first bucket of a key.                        *)
LEMMA FirstAlert ==
    ASSUME NEW n \in Nat, RateMax > 0
    PROVE  BucketInv(<<n>>, n, 1)
<1> DEFINE f == <<n>>
<1>1. f \in Seq(Nat) /\ DOMAIN f = {1} /\ f[1] = n
    OBVIOUS
<1> HIDE DEF f
<1>2. Since(f, n) = {1} /\ \A t \in Nat : Between(f, t, n) = {} /\ Stretch(f, t) \subseteq {1}
    BY <1>1 DEF Since, Between, Stretch
<1>3. Cardinality({1}) = 1 /\ IsFiniteSet({1}) /\ Cardinality({}) = 0
    BY FS_Singleton, FS_EmptySet
<1>4. \A t \in Nat : Cardinality(Stretch(f, t)) <= 1
    BY <1>2, <1>3, FS_Subset
<1>5. BucketInv(f, n, 1)
    <2>1. \A t \in Nat : Cardinality(Stretch(f, t)) \in Nat
        BY <1>1, HistoriesFinite
    <2>2. /\ 1 = Cardinality(Since(f, n)) /\ 1 <= RateMax
          /\ \E i \in DOMAIN f : f[i] = n
        BY <1>1, <1>2, <1>3, RateAssumption
    <2>3. \A i \in DOMAIN f : f[i] <= n + RateWindow
        BY <1>1, RateAssumption
    <2>4. \A t \in Nat : Cardinality(Between(f, t, n)) <= RateMax - 1
        BY <1>2, <1>3, RateAssumption
    <2>5. \A t \in Nat : Cardinality(Stretch(f, t)) <= 2 * RateMax - 1
        BY <1>4, <2>1, RateAssumption
    <2> QED
        BY <2>2, <2>3, <2>4, <2>5 DEF BucketInv
<1> QED
    BY <1>5 DEF f

(* An alert of a later window: a new bucket.                               *)
LEMMA FreshAlert ==
    ASSUME NEW f \in Seq(Nat), NEW ws \in Nat, NEW c \in Nat, NEW n \in Nat, RateMax > 0,
           BucketInv(f, ws, c), ws + RateWindow < n
    PROVE  BucketInv(Append(f, n), n, 1)
<1> DEFINE g == Append(f, n)
           l == Len(f) + 1
<1>0. g \in Seq(Nat) /\ l \in DOMAIN g /\ g[l] = n /\ \A i \in DOMAIN g : g[i] = n \/ (i \in DOMAIN f /\ g[i] = f[i])
    OBVIOUS
<1> HIDE DEF g, l
<1>1. \A i \in DOMAIN f : f[i] \in Nat /\ f[i] < n
    BY RateAssumption DEF BucketInv
<1>2. Since(f, n) = {}
    BY <1>1 DEF Since
<1>3. Since(g, n) = {l}
    BY <1>2, OneMoreAlert DEF g, l
<1>4. Cardinality(Since(g, n)) = 1
    BY <1>3, FS_Singleton
<1>5. ASSUME NEW i \in DOMAIN g PROVE g[i] <= n + RateWindow
    <2>1. CASE g[i] = n
        BY <2>1, RateAssumption
    <2>2. CASE i \in DOMAIN f /\ g[i] = f[i]
        BY <1>1, <2>2, RateAssumption
    <2> QED
        BY <1>0, <2>1, <2>2
<1>6. ASSUME NEW t \in Nat, n <= t + RateWindow
      PROVE  Cardinality(Between(g, t, n)) <= RateMax - 1
    <2>1. PICK i \in DOMAIN f : f[i] = ws
        BY DEF BucketInv
    <2>2. Between(g, t, n) = Between(f, t, n)
        BY OneMoreAlert DEF g
    <2>3. Between(f, t, n) \subseteq Since(f, ws) \ {i}
        BY <1>1, <1>6, <2>1, RateAssumption DEF Between, Since
    <2>4. IsFiniteSet(Since(f, ws)) /\ i \in Since(f, ws)
        BY <2>1, HistoriesFinite DEF Since
    <2>5. IsFiniteSet(Since(f, ws) \ {i}) /\ Cardinality(Since(f, ws) \ {i}) = Cardinality(Since(f, ws)) - 1
        BY <2>4, FS_RemoveElement
    <2>6. Cardinality(Between(f, t, n)) <= Cardinality(Since(f, ws) \ {i})
        BY <2>3, <2>5, FS_Subset
    <2>7. Cardinality(Between(f, t, n)) \in Nat /\ Cardinality(Since(f, ws)) \in Nat
        BY HistoriesFinite
    <2> QED
        BY <2>2, <2>5, <2>6, <2>7, RateAssumption DEF BucketInv
<1>7. ASSUME NEW t \in Nat
      PROVE  Cardinality(Stretch(g, t)) <= 2 * RateMax - 1
    <2>1. CASE t + RateWindow < n
        <3>1. Stretch(g, t) = Stretch(f, t)
            BY <2>1, OneMoreAlert DEF g
        <3> QED
            BY <3>1 DEF BucketInv
    <2>2. CASE n <= t + RateWindow
        <3>1. Cardinality(Since(g, n)) <= RateMax
            BY <1>4, RateAssumption
        <3> QED
            BY <1>0, <1>6, <2>2, <3>1, StretchBound
    <2> QED
        BY <2>1, <2>2, RateAssumption
<1>8. BucketInv(g, n, 1)
    BY <1>0, <1>4, <1>5, <1>6, <1>7, RateAssumption DEF BucketInv
<1> QED
    BY <1>8 DEF g

(* An alert within the window, while the bucket is not full.               *)
LEMMA CountedAlert ==
    ASSUME NEW f \in Seq(Nat), NEW ws \in Nat, NEW c \in Nat, NEW n \in Nat, RateMax > 0,
           BucketInv(f, ws, c), ws <= n, n <= ws + RateWindow, c < RateMax
    PROVE  BucketInv(Append(f, n), ws, c + 1)
<1> DEFINE g == Append(f, n)
           l == Len(f) + 1
<1>0. /\ g \in Seq(Nat) /\ \A i \in DOMAIN f : i \in DOMAIN g /\ g[i] = f[i]
      /\ \A i \in DOMAIN g : g[i] = n \/ (i \in DOMAIN f /\ g[i] = f[i])
    OBVIOUS
<1> HIDE DEF g, l
<1>1. Since(g, ws) = Since(f, ws) \cup {l} /\ l \notin Since(f, ws)
    BY OneMoreAlert DEF g, l
<1>2. Cardinality(Since(g, ws)) = c + 1
    BY <1>1, HistoriesFinite, FS_AddElement DEF BucketInv
<1>3. /\ \E i \in DOMAIN g : g[i] = ws
      /\ \A i \in DOMAIN g : g[i] <= ws + RateWindow
    BY <1>0 DEF BucketInv
<1>4. ASSUME NEW t \in Nat, ws <= t + RateWindow
      PROVE  Cardinality(Between(g, t, ws)) <= RateMax - 1
    <2>1. Between(g, t, ws) = Between(f, t, ws)
        BY OneMoreAlert DEF g
    <2> QED
        BY <1>4, <2>1 DEF BucketInv
<1>5. c + 1 <= RateMax
    BY RateAssumption
<1>6. ASSUME NEW t \in Nat
      PROVE  Cardinality(Stretch(g, t)) <= 2 * RateMax - 1
    <2>1. CASE t + RateWindow < ws
        <3>1. Stretch(g, t) = Stretch(f, t)
            BY <2>1, OneMoreAlert, RateAssumption DEF g
        <3> QED
            BY <3>1 DEF BucketInv
    <2>2. CASE ws <= t + RateWindow
        BY <1>0, <1>2, <1>4, <1>5, <2>2, StretchBound
    <2> QED
        BY <2>1, <2>2, RateAssumption
<1>7. BucketInv(g, ws, c + 1)
    BY <1>2, <1>3, <1>4, <1>5, <1>6 DEF BucketInv
<1> QED
    BY <1>7 DEF g

(* Every key met so far has such a bucket; of the others no alert was let  *)
(* through.                                                                *)
KeyInv(k) ==
    IF k \in DOMAIN rates
      THEN /\ rates[k].windowStart <= now
           /\ BucketInv(fired[k], rates[k].windowStart, rates[k].count)
      ELSE fired[k] = <<>>

LimiterInv == ~Unlimited => \A k \in Keys : KeyInv(k)

(* Letting an alert through keeps the bucket of its key.                   *)
LEMMA FireKeepsKey ==
    ASSUME EngineTypeInv, LimiterInv, ~Unlimited, Fire
    PROVE  KeyInv(ev)'
<1> DEFINE f == fired[ev]
           b == rates[ev]
<1>0. ev \in Keys /\ RateLimitAllow(ev) /\ ev' = ev /\ now' = now /\ now \in Nat /\ RateMax > 0
    BY BoundsAssumption, RateAssumption DEF Fire, EngineTypeInv, TypeOK, Unlimited
<1>1. f \in Seq(Nat) /\ fired'[ev] = Append(f, now)
    BY <1>0 DEF Fire, EngineTypeInv, TypeOK
<1>2. ev \in DOMAIN rates' /\ rates'[ev] = CountedBucket(ev)
    BY <1>0 DEF Fire, Counted
<1>3. KeyInv(ev)
    BY <1>0 DEF LimiterInv
<1>4. CASE ev \notin DOMAIN rates
    <2>1. Append(f, now) = <<now>>
        <3>1. f = <<>>
            BY <1>3, <1>4 DEF KeyInv
        <3> QED
            BY <1>0, <3>1
    <2>2. BucketInv(Append(f, now), now, 1)
        BY <1>0, <2>1, FirstAlert
    <2>3. rates'[ev].windowStart = now /\ rates'[ev].count = 1
        BY <1>2, <1>4 DEF CountedBucket, FreshWindow
    <2> QED
        BY <1>0, <1>1, <1>2, <2>2, <2>3 DEF KeyInv
<1>5. CASE ev \in DOMAIN rates
    <2>1. b \in [windowStart : Nat, count : Nat]
        BY <1>5 DEF EngineTypeInv, TypeOK
    <2>2. b.windowStart \in Nat /\ b.count \in Nat /\ b.windowStart <= now /\ BucketInv(f, b.windowStart, b.count)
        BY <1>3, <1>5, <2>1 DEF KeyInv
    <2>3. CASE FreshWindow(ev)
        <3>1. rates'[ev].windowStart = now /\ rates'[ev].count = 1
            BY <1>2, <2>3 DEF CountedBucket
        <3>2. b.windowStart + RateWindow < now
            BY <1>0, <1>5, <2>2, <2>3, RateAssumption DEF FreshWindow
        <3>3. BucketInv(Append(f, now), now, 1)
            BY <1>0, <1>1, <2>2, <3>2, FreshAlert
        <3> QED
            BY <1>0, <1>1, <1>2, <3>1, <3>3 DEF KeyInv
    <2>4. CASE ~FreshWindow(ev)
        <3>1. rates'[ev].windowStart = b.windowStart /\ rates'[ev].count = b.count + 1
            BY <1>2, <2>1, <2>4 DEF CountedBucket
        <3>2. now <= b.windowStart + RateWindow /\ b.count < RateMax
            BY <1>0, <2>2, <2>4, RateAssumption DEF FreshWindow, RateLimitAllow
        <3>3. BucketInv(Append(f, now), b.windowStart, b.count + 1)
            BY <1>0, <1>1, <2>2, <3>2, CountedAlert
        <3> QED
            BY <1>0, <1>1, <1>2, <2>2, <3>1, <3>3 DEF KeyInv
    <2> QED
        BY <2>3, <2>4
<1> QED
    BY <1>4, <1>5

(* The limiter's invariant is kept by every step: only Fire touches it,    *)
(* and time does not run backwards.                                        *)
LEMMA LimiterStep == EngineTypeInv /\ LimiterInv /\ [Next]_vars => LimiterInv'
<1> SUFFICES ASSUME EngineTypeInv, LimiterInv, ~Unlimited, [Next]_vars, NEW k \in Keys
             PROVE  KeyInv(k)'
    BY DEF LimiterInv, Unlimited
<1>0. KeyInv(k) /\ now \in Nat
    BY BoundsAssumption DEF LimiterInv, EngineTypeInv, TypeOK
<1>1. CASE Fire
    <2>1. CASE k = ev
        <3>1. KeyInv(ev)' /\ ev' = ev
            BY <1>1, FireKeepsKey DEF Fire
        <3> QED
            BY <2>1, <3>1 DEF KeyInv
    <2>2. CASE k # ev
        <3>1. fired'[k] = fired[k] /\ now' = now
            BY <1>1, <2>2 DEF Fire, EngineTypeInv, TypeOK
        <3>2. rates' = Counted(ev)
            BY <1>1 DEF Fire
        <3>3. /\ k \in DOMAIN rates' <=> k \in DOMAIN rates
              /\ k \in DOMAIN rates => rates'[k] = rates[k]
            BY <2>2, <3>2 DEF Counted
        <3> QED
            BY <1>0, <3>1, <3>3 DEF KeyInv
    <2> QED
        BY <2>1, <2>2
<1>2. ASSUME UNCHANGED <<rates, fired>>, now' = now \/ now' = now + 1
      PROVE  KeyInv(k)'
    <2>1. k \in DOMAIN rates => rates[k].windowStart \in Nat
        BY DEF EngineTypeInv, TypeOK
    <2>2. k \in DOMAIN rates /\ rates[k].windowStart <= now => rates[k].windowStart <= now'
        BY <1>0, <1>2, <2>1
    <2> QED
        BY <1>0, <1>2, <2>2 DEF KeyInv
<1>3. CASE SubmitAccepted \/ SubmitDropped \/ Take \/ Stop \/ Suppress
    BY <1>2, <1>3 DEF SubmitAccepted, SubmitDropped, Take, Stop, Suppress
<1>4. CASE SendReturns \/ Retry \/ RetryAborted
    BY <1>2, <1>4 DEF SendReturns, SendOk, SendFail, SendFailLast, Retry, RetryAborted
<1>5. CASE Pass \/ Cancel \/ UNCHANGED vars
    BY <1>2, <1>5 DEF Pass, Cancel, vars
<1> QED
    BY <1>1, <1>3, <1>4, <1>5 DEF Next, EngineNext, LoopNext, Others

(* The invariant of the limiter.                                           *)
LEMMA LimiterInvariant == Spec => [](EngineTypeInv /\ LimiterInv)
<1>1. Init => LimiterInv
    BY DEF Init, LimiterInv, KeyInv
<1> QED
    BY <1>1, EngineTypeInit, EngineTypeStep, LimiterStep, PTL DEF Spec

(* The bucket of a key counts exactly the alerts of this key since its     *)
(* window began, and never more than max_alerts.                           *)
THEOREM BucketsCountWhatFired == Spec => []BucketCountsFired
<1>1. LimiterInv => BucketCountsFired
    <2> SUFFICES ASSUME LimiterInv, ~Unlimited, NEW k \in Keys
                 PROVE  IF k \in DOMAIN rates
                          THEN /\ rates[k].count <= RateMax
                               /\ rates[k].count = Cardinality({i \in DOMAIN fired[k] :
                                                                   fired[k][i] >= rates[k].windowStart})
                          ELSE fired[k] = <<>>
        BY DEF BucketCountsFired
    <2>1. KeyInv(k)
        BY DEF LimiterInv
    <2>2. {i \in DOMAIN fired[k] : fired[k][i] >= rates[k].windowStart} = Since(fired[k], rates[k].windowStart)
        BY DEF Since
    <2> QED
        BY <2>1, <2>2 DEF KeyInv, BucketInv
<1> QED
    BY <1>1, LimiterInvariant, PTL

(* The limiter lets at most 2 * max_alerts - 1 alerts of a key through in  *)
(* any stretch as long as its window.                                      *)
THEOREM LimiterBoundsRate == Spec => []RateBound
<1>1. LimiterInv => RateBound
    <2> SUFFICES ASSUME LimiterInv, ~Unlimited, NEW k \in Keys, NEW t \in 0..MaxTime
                 PROVE  Cardinality(FiredIn(k, t)) <= 2 * RateMax - 1
        BY DEF RateBound
    <2>1. FiredIn(k, t) = Stretch(fired[k], t) /\ t \in Nat
        BY BoundsAssumption DEF FiredIn, Stretch
    <2>2. KeyInv(k)
        BY DEF LimiterInv
    <2>3. CASE k \in DOMAIN rates
        BY <2>1, <2>2, <2>3 DEF KeyInv, BucketInv
    <2>4. CASE k \notin DOMAIN rates
        <3>1. fired[k] = <<>>
            BY <2>2, <2>4 DEF KeyInv
        <3>2. Stretch(fired[k], t) = {}
            BY <3>1 DEF Stretch
        <3> QED
            BY <2>1, <3>2, FS_EmptySet, RateAssumption DEF Unlimited
    <2> QED
        BY <2>3, <2>4
<1> QED
    BY <1>1, LimiterInvariant, PTL

-----------------------------------------------------------------------------
(* The dispatch of an alert, channel after channel.                        *)

Untried(c) == outcome[c] = Pending

(* The alert ended on c, and readiness knows how.                          *)
Settled(c) ==
    /\ outcome[c].tries > 0
    /\ c \in failingChannels <=> outcome[c].result = "failed"

(* handle has settled the channels before ch and not yet looked at ch and  *)
(* those behind it; between two alerts it is all of them or none.          *)
DispatchInv ==
    /\ pc = "handle" => \A c \in Channels : Untried(c)
    /\ pc \in {"send", "sleep"} => \A c \in Channels : IF c < ch THEN Settled(c) ELSE Untried(c)
    /\ pc \in {"select", "closed"} => (\A c \in Channels : Untried(c)) \/ (\A c \in Channels : Settled(c))

(* sendOne settles its channel and no other.                               *)
LEMMA EndedSettles ==
    ASSUME EngineTypeInv, DispatchInv, pc \in {"send", "sleep"}, NEW result \in {"sent", "failed"}, NEW bad \in BOOLEAN,
           bad <=> result = "failed", Ended(result), SetAlertChannelFailing(bad), NextChannel
    PROVE  DispatchInv'
<1> USE RetryAssumption DEF EngineTypeInv, TypeOK
<1>0. ch \in Channels /\ ch \in Nat /\ NumChannels \in Nat /\ \A c \in Channels : c \in Nat /\ c <= NumChannels
    BY DEF Channels
<1>1. \A c \in Channels : outcome'[c] = IF c = ch THEN [result |-> result, tries |-> attempt] ELSE outcome[c]
    BY <1>0 DEF Ended
<1>2. \A c \in Channels : c \in failingChannels' <=> IF c = ch THEN bad ELSE c \in failingChannels
    BY DEF SetAlertChannelFailing
<1>3. ASSUME NEW c \in Channels, c < ch \/ c = ch
      PROVE  outcome'[c].tries > 0 /\ (c \in failingChannels' <=> outcome'[c].result = "failed")
    <2>1. CASE c = ch
        <3>1. outcome'[c].tries = attempt /\ outcome'[c].result = result /\ attempt > 0
            BY <1>1, <2>1
        <3> QED
            BY <1>2, <2>1, <3>1
    <2>2. CASE c < ch /\ c # ch
        <3>1. Settled(c)
            BY <2>2 DEF DispatchInv
        <3> QED
            BY <1>1, <1>2, <2>2, <3>1 DEF Settled
    <2> QED
        BY <1>0, <1>3, <2>1, <2>2
<1>5. CASE ch < NumChannels
    <2>1. pc' = "send" /\ ch' = ch + 1
        BY <1>5 DEF NextChannel
    <2>2. ASSUME NEW c \in Channels, c < ch + 1
          PROVE  outcome'[c].tries > 0 /\ (c \in failingChannels' <=> outcome'[c].result = "failed")
        BY <1>0, <1>3, <2>2
    <2>3. ASSUME NEW c \in Channels, ~(c < ch + 1)
          PROVE  outcome'[c] = Pending
        <3>1. ~(c < ch) /\ c # ch
            BY <1>0, <2>3
        <3>2. Untried(c)
            BY <3>1 DEF DispatchInv
        <3> QED
            BY <1>1, <3>1, <3>2 DEF Untried
    <2> QED
        BY <2>1, <2>2, <2>3 DEF DispatchInv, Settled, Untried
<1>6. CASE ~(ch < NumChannels)
    <2>1. pc' = "select"
        BY <1>6 DEF NextChannel
    <2>2. \A c \in Channels : c < ch \/ c = ch
        BY <1>0, <1>6
    <2> QED
        BY <1>3, <2>1, <2>2 DEF DispatchInv, Settled
<1> QED
    BY <1>5, <1>6

(* The order of the dispatch is kept by every step.                        *)
LEMMA DispatchStep == EngineTypeInv /\ DispatchInv /\ [Next]_vars => DispatchInv'
<1> SUFFICES ASSUME EngineTypeInv, DispatchInv, [Next]_vars PROVE DispatchInv'
    OBVIOUS
<1> USE DEF dispatch
<1>1. CASE Take
    BY <1>1 DEF Take, DispatchInv, Untried
<1>2. CASE Suppress \/ Stop
    BY <1>2 DEF Suppress, Stop, DispatchInv, Untried, Settled
<1>3. CASE Fire
    <2>1. \A c \in Channels : ~(c < ch') /\ outcome'[c] = Pending
        BY <1>3 DEF Fire, DispatchInv, Untried, Channels
    <2> QED
        BY <1>3, <2>1 DEF Fire, DispatchInv, Untried
<1>4. CASE SendOk
    BY <1>4, EndedSettles DEF SendOk
<1>5. CASE SendFailLast \/ RetryAborted
    BY <1>5, EndedSettles DEF SendFailLast, RetryAborted, GiveUp
<1>6. CASE SendFail \/ Retry
    BY <1>6 DEF SendFail, Retry, DispatchInv, Untried, Settled
<1>7. CASE Others \/ UNCHANGED vars
    <2>1. UNCHANGED <<pc, ch, outcome, failingChannels>>
        BY <1>7 DEF Others, SubmitAccepted, SubmitDropped, Pass, Cancel, vars
    <2> QED
        BY <2>1 DEF DispatchInv, Untried, Settled
<1> QED
    BY <1>1, <1>2, <1>3, <1>4, <1>5, <1>6, <1>7 DEF Next, EngineNext, LoopNext, SendReturns

(* The invariant of the dispatch.                                          *)
LEMMA DispatchInvariant == Spec => [](EngineTypeInv /\ DispatchInv)
<1>1. Init => DispatchInv
    BY DEF Init, DispatchInv, Untried
<1> QED
    BY <1>1, EngineTypeInit, EngineTypeStep, DispatchStep, PTL DEF Spec

(* A failure on one channel does not keep the alert from the others, and   *)
(* readiness shows the channels it failed on.                              *)
THEOREM NoChannelIsSkipped == Spec => []EveryChannelTried
<1>1. EngineTypeInv /\ DispatchInv => EveryChannelTried
    <2> SUFFICES ASSUME EngineTypeInv, DispatchInv, pc \in {"select", "closed"},
                        NEW d \in Channels, outcome[d].tries > 0
                 PROVE  /\ \A c \in Channels : outcome[c].tries > 0
                        /\ failingChannels = {c \in Channels : outcome[c].result = "failed"}
        BY DEF EveryChannelTried
    <2>1. ~Untried(d)
        BY DEF Untried, Pending
    <2>2. \A c \in Channels : Settled(c)
        BY <2>1 DEF DispatchInv
    <2>3. failingChannels \subseteq Channels
        BY DEF EngineTypeInv, TypeOK
    <2> QED
        BY <2>2, <2>3 DEF Settled
<1> QED
    BY <1>1, DispatchInvariant, PTL

(* Until the shutdown, sendOne gives a channel up only after its last      *)
(* attempt.                                                                *)
THEOREM GivingUpNeedsEveryAttempt == Spec => []GivenUpOnlyWhenExhausted
<1>1. Init => GivenUpOnlyWhenExhausted
    BY DEF Init, Pending, GivenUpOnlyWhenExhausted
<1>2. EngineTypeInv /\ GivenUpOnlyWhenExhausted /\ [Next]_vars => GivenUpOnlyWhenExhausted'
    <2> SUFFICES ASSUME EngineTypeInv, GivenUpOnlyWhenExhausted, [Next]_vars, NEW c \in Channels,
                        outcome'[c].result = "failed"
                 PROVE  outcome'[c].tries = RetryMax \/ cancelled'
        BY DEF GivenUpOnlyWhenExhausted
    <2>1. cancelled => cancelled'
        BY DEF Next, EngineNext, LoopNext, Others, SendReturns, SubmitAccepted, SubmitDropped, Take, Stop, Suppress,
               Fire, SendOk, SendFail, SendFailLast, Retry, RetryAborted, Pass, Cancel, vars
    <2>2. ASSUME outcome' = outcome PROVE outcome'[c].tries = RetryMax \/ cancelled'
        BY <2>1, <2>2 DEF GivenUpOnlyWhenExhausted
    <2>3. ASSUME NEW result \in {"sent", "failed"}, Ended(result)
          PROVE  outcome'[c] = IF c = ch THEN [result |-> result, tries |-> attempt] ELSE outcome[c]
        BY <2>3 DEF Ended, EngineTypeInv, TypeOK
    <2>4. CASE Take
        BY <2>4 DEF Take, Pending
    <2>5. CASE SendOk
        <3>1. outcome'[c] = IF c = ch THEN [result |-> "sent", tries |-> attempt] ELSE outcome[c]
            BY <2>3, <2>5 DEF SendOk
        <3>2. outcome'[c] = outcome[c]
            BY <3>1
        <3> QED
            BY <2>1, <3>2 DEF GivenUpOnlyWhenExhausted
    <2>6. CASE SendFailLast
        <3>1. outcome'[c] = IF c = ch THEN [result |-> "failed", tries |-> attempt] ELSE outcome[c]
            BY <2>3, <2>6 DEF SendFailLast, GiveUp
        <3>2. attempt = RetryMax
            BY <2>6 DEF SendFailLast
        <3> QED
            BY <2>1, <3>1, <3>2 DEF GivenUpOnlyWhenExhausted
    <2>7. CASE RetryAborted
        BY <2>1, <2>7 DEF RetryAborted
    <2>8. CASE Others \/ Stop \/ Suppress \/ Fire \/ SendFail \/ Retry \/ UNCHANGED vars
        BY <2>2, <2>8 DEF Others, SubmitAccepted, SubmitDropped, Pass, Cancel, Stop, Suppress, Fire, SendFail, Retry,
                          vars
    <2> QED
        BY <2>4, <2>5, <2>6, <2>7, <2>8 DEF Next, EngineNext, LoopNext, SendReturns
<1> QED
    BY <1>1, <1>2, EngineTypeInit, EngineTypeStep, PTL DEF Spec

-----------------------------------------------------------------------------
(* The backoff.  The provers know of exponentiation only that a set of n   *)
(* elements has 2^n subsets; adding an element doubles them.               *)

(* So 2^(n + 1) is twice 2^n.                                              *)
LEMMA PowerDoubles == ASSUME NEW n \in Nat PROVE 2^n \in Nat /\ 2^(n + 1) = 2 * 2^n
<1> DEFINE S == 1..n
           T == 1..n + 1
           New == {A \cup {n + 1} : A \in SUBSET S}
           Add == [A \in SUBSET S |-> A \cup {n + 1}]
<1>1. IsFiniteSet(S) /\ Cardinality(S) = n
    BY FS_Interval
<1>2. IsFiniteSet(T) /\ Cardinality(T) = n + 1
    BY FS_Interval
<1>3. IsFiniteSet(SUBSET S) /\ Cardinality(SUBSET S) = 2^n
    BY <1>1, FS_SUBSET
<1>4. Cardinality(SUBSET T) = 2^(n + 1)
    BY <1>2, FS_SUBSET
<1>5. n + 1 \notin S /\ T = S \cup {n + 1}
    OBVIOUS
<1> HIDE DEF S, T
<1>6. SUBSET T = (SUBSET S) \cup New
    <2>1. ASSUME NEW B \in SUBSET T PROVE B \in SUBSET S \/ B \in New
        <3>1. B \ {n + 1} \in SUBSET S
            BY <1>5
        <3>2. CASE n + 1 \in B
            <4>1. B = (B \ {n + 1}) \cup {n + 1}
                BY <3>2
            <4> QED
                BY <3>1, <4>1
        <3>3. CASE n + 1 \notin B
            BY <1>5, <3>3
        <3> QED
            BY <3>2, <3>3
    <2>2. ASSUME NEW B \in (SUBSET S) \cup New PROVE B \in SUBSET T
        BY <1>5
    <2> QED
        BY <2>1, <2>2
<1>7. (SUBSET S) \cap New = {}
    BY <1>5
<1>8. Add \in Bijection(SUBSET S, New)
    <2>1. Add \in [SUBSET S -> New]
        OBVIOUS
    <2>2. ASSUME NEW A \in SUBSET S, NEW B \in SUBSET S, Add[A] = Add[B]
          PROVE  A = B
        <3>1. A \cup {n + 1} = B \cup {n + 1}
            BY <2>2
        <3>2. n + 1 \notin A /\ n + 1 \notin B
            BY <1>5
        <3> QED
            BY <3>1, <3>2
    <2>3. \A B \in New : \E A \in SUBSET S : Add[A] = B
        OBVIOUS
    <2> QED
        BY <2>1, <2>2, <2>3 DEF Bijection, Injection, Surjection, IsInjective
<1>9. IsFiniteSet(New) /\ Cardinality(New) = 2^n
    <2>1. ExistsBijection(SUBSET S, New)
        BY <1>8 DEF ExistsBijection
    <2> QED
        BY <1>3, <2>1, FS_Bijection
<1>10. Cardinality(SUBSET T) = 2^n + 2^n - Cardinality({})
    BY <1>3, <1>6, <1>7, <1>9, FS_Union
<1>11. 2^n \in Nat /\ Cardinality({}) = 0
    BY <1>3, FS_CardinalityType, FS_EmptySet
<1> QED
    BY <1>4, <1>10, <1>11

(* What sendOne sleeps before attempt a + 1, as long as the cap is above.  *)
BackoffInv ==
    /\ attempt = 1 => backoff = InitialBackoff
    /\ BackoffGrowsToCap

(* nextBackoff doubles up to the cap.                                      *)
LEMMA BackoffDoubles ==
    ASSUME NEW b \in Nat, NEW a \in Nat \ {0}, InitialBackoff <= BackoffCap,
           b \in InitialBackoff .. BackoffCap,
           b = BackoffCap \/ b = InitialBackoff * 2^(a - 1)
    PROVE  /\ NextBackoff(b) \in InitialBackoff .. BackoffCap
           /\ NextBackoff(b) = BackoffCap \/ NextBackoff(b) = InitialBackoff * 2^a
<1>1. InitialBackoff \in Nat /\ BackoffCap \in Nat
    BY RetryAssumption DEF BackoffCap
<1>2. NextBackoff(b) \in InitialBackoff .. BackoffCap
    BY <1>1 DEF NextBackoff
<1>3. 2^(a - 1) \in Nat /\ 2^a = 2 * 2^(a - 1)
    <2>1. a - 1 \in Nat /\ (a - 1) + 1 = a
        OBVIOUS
    <2> QED
        BY <2>1, PowerDoubles
<1>4. ASSUME NEW p \in Nat PROVE 2 * (InitialBackoff * p) = InitialBackoff * (2 * p)
    BY <1>1
<1>5. NextBackoff(b) = BackoffCap \/ NextBackoff(b) = InitialBackoff * 2^a
    <2>1. CASE b = BackoffCap
        BY <1>1, <2>1 DEF NextBackoff
    <2>2. CASE b = InitialBackoff * 2^(a - 1)
        <3>1. 2 * b = InitialBackoff * 2^a
            BY <1>3, <1>4, <2>2
        <3> QED
            BY <3>1 DEF NextBackoff
    <2> QED
        BY <2>1, <2>2
<1> QED
    BY <1>2, <1>5

(* Sleeps double from initial_backoff and stay at the cap once there; none *)
(* exceeds it, provided the first does not.                                *)
THEOREM BackoffSaturates == Spec => []BackoffGrowsToCap
<1>1. Init => BackoffInv
    <2> SUFFICES ASSUME Init PROVE BackoffInv
        OBVIOUS
    <2>1. InitialBackoff \in Nat /\ BackoffCap \in Nat
        BY RetryAssumption DEF BackoffCap
    <2> QED
        BY <2>1 DEF Init, BackoffInv, BackoffGrowsToCap
<1>2. EngineTypeInv /\ BackoffInv /\ [Next]_vars => BackoffInv'
    <2> SUFFICES ASSUME EngineTypeInv, BackoffInv, [Next]_vars PROVE BackoffInv'
        OBVIOUS
    <2>1. InitialBackoff \in Nat /\ BackoffCap \in Nat
        BY RetryAssumption DEF BackoffCap
    <2>2. ASSUME UNCHANGED <<attempt, backoff>> PROVE BackoffInv'
        BY <2>2 DEF BackoffInv, BackoffGrowsToCap, BackoffCap
    <2>3. ASSUME attempt' = 1, backoff' = InitialBackoff PROVE BackoffInv'
        BY <2>1, <2>3 DEF BackoffInv, BackoffGrowsToCap, BackoffCap
    <2>4. CASE Retry
        <3>1. attempt \in Nat \ {0} /\ backoff \in Nat /\ attempt' = attempt + 1 /\ backoff' = NextBackoff(backoff)
            BY <2>4 DEF Retry, EngineTypeInv, TypeOK
        <3>2. ASSUME InitialBackoff <= BackoffCap
              PROVE  /\ backoff' \in InitialBackoff .. BackoffCap
                     /\ backoff' = BackoffCap \/ backoff' = InitialBackoff * 2^attempt
            <4>1. backoff \in InitialBackoff .. BackoffCap
                BY <3>2 DEF BackoffInv, BackoffGrowsToCap
            <4>2. backoff = BackoffCap \/ backoff = InitialBackoff * 2^(attempt - 1)
                <5>1. CASE attempt = 1
                    <6>1. InitialBackoff * 2^(1 - 1) = InitialBackoff
                        <7>1. 2^0 = 1 /\ 1 - 1 = 0
                            OBVIOUS
                        <7> QED
                            BY <2>1, <7>1
                    <6> QED
                        BY <5>1, <6>1 DEF BackoffInv
                <5>2. CASE attempt > 1
                    BY <3>2, <5>2 DEF BackoffInv, BackoffGrowsToCap
                <5> QED
                    BY <3>1, <5>1, <5>2
            <4> QED
                BY <3>1, <3>2, <4>1, <4>2, BackoffDoubles
        <3>3. attempt' # 1 /\ attempt' - 1 = attempt
            BY <3>1
        <3> QED
            BY <3>2, <3>3 DEF BackoffInv, BackoffGrowsToCap, BackoffCap
    <2>5. CASE Fire
        BY <2>3, <2>5 DEF Fire
    <2>6. CASE SendOk \/ SendFailLast \/ RetryAborted
        BY <2>3, <2>6 DEF SendOk, SendFailLast, RetryAborted, GiveUp, NextChannel
    <2>7. CASE Others \/ Take \/ Stop \/ Suppress \/ SendFail \/ UNCHANGED vars
        BY <2>2, <2>7 DEF Others, SubmitAccepted, SubmitDropped, Pass, Cancel, Take, Stop, Suppress, SendFail,
                          dispatch, vars
    <2> QED
        BY <2>4, <2>5, <2>6, <2>7 DEF Next, EngineNext, LoopNext, SendReturns
<1>3. BackoffInv => BackoffGrowsToCap
    BY DEF BackoffInv
<1> QED
    BY <1>1, <1>2, <1>3, EngineTypeInit, EngineTypeStep, PTL DEF Spec
=============================================================================
