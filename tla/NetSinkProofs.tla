--------------------------- MODULE NetSinkProofs ---------------------------
(***************************************************************************)
(* The network sinks of network.go below the pipeline, proved for any      *)
(* number of outputs and events: they are sinks as the pipeline takes them *)
(* to be, no two records run together at a peer, and what is counted as    *)
(* written is what the kernel took, record by record and in order.         *)
(***************************************************************************)
EXTENDS NetSink, PipelineProofs, SequenceTheorems, WellFoundedInduction

(* Dialing and writing in parts is, for the pipeline, a Sink.Write that    *)
(* has not returned yet.                                                   *)
LEMMA NetStepIsPipelineStep == [NetNext]_allVars => [Next]_vars
<1> SUFFICES ASSUME [NetNext]_allVars PROVE [Next]_vars
    OBVIOUS
<1>1. CASE LoopNext
    BY <1>1 DEF Next
<1>2. ASSUME NEW o \in Outputs, NetConsumerStep(o) \/ PlainWrite(o) \/ PeerReads(o)
      PROVE  [Next]_vars
    BY <1>2 DEF NetConsumerStep, PlainWrite, PeerReads, Next
<1>3. ASSUME NEW o \in Outputs, NetWrite(o)
      PROVE  [Next]_vars
    <2>1. UNCHANGED vars \/ SinkStep(o)
        BY <1>3 DEF NetWrite, DialOk, DialFail, WriteSome, WriteLast, WriteDatagram, WriteErr, SinkStep, SinkReturns
    <2> QED
        BY <2>1 DEF Next
<1>4. CASE UNCHANGED allVars
    BY <1>4 DEF allVars
<1> QED
    BY <1>1, <1>2, <1>3, <1>4 DEF NetNext

(* A pipeline with these sinks is a pipeline: every event is accounted     *)
(* for, in order, and the logs are audit logs.                             *)
THEOREM NetImplementsPipeline == NetSpec => Spec
<1>1. NetInit => Init
    BY DEF NetInit
<1> QED
    BY <1>1, NetStepIsPipelineStep, PTL DEF NetSpec, Spec

-----------------------------------------------------------------------------
(* What a connection has taken: records one after the other, the last one  *)
(* perhaps without its newline.                                            *)
Framed(s) ==
    \A i \in DOMAIN s :
        /\ (s[i] = NL) <=> (i % 2 = 0)
        /\ i > 2 /\ i % 2 = 1 => s[i - 2] < s[i]

(* The events whose record is whole.                                       *)
Whole(s) == {s[i] : i \in {j \in DOMAIN s : j % 2 = 1 /\ j + 1 \in DOMAIN s}}

(* The body of a newer event after whole records.                          *)
LEMMA BodyFollows ==
    ASSUME NEW s \in Seq(Nat), NEW e \in Nat, e > 0, Len(s) % 2 = 0, Framed(s), Below(Whole(s), {e})
    PROVE  LET t == Append(s, e)
           IN  t \in Seq(Nat) /\ Framed(t) /\ Whole(t) = Whole(s) /\ Len(t) % 2 = 1 /\ t[Len(t)] = e
<1> DEFINE t == Append(s, e)
           n == Len(s)
<1>1. /\ n \in Nat /\ DOMAIN s = 1..n /\ DOMAIN t = 1..n + 1 /\ Len(t) = n + 1 /\ t[n + 1] = e
      /\ t \in Seq(Nat) /\ \A i \in 1..n : t[i] = s[i] /\ s[i] \in Nat
    OBVIOUS
<1> HIDE DEF t, n
<1>2. n % 2 = 0
    BY DEF n
<1>3. (n + 1) % 2 = 1
    BY <1>1, <1>2
<1>4. ASSUME NEW i \in 1..n + 1
      PROVE  (t[i] = NL) <=> (i % 2 = 0)
    <2>1. CASE i \in 1..n
        BY <1>1, <2>1 DEF Framed
    <2>2. CASE i = n + 1
        BY <1>1, <1>3, <2>2 DEF NL
    <2> QED
        BY <1>1, <2>1, <2>2
<1>5. ASSUME NEW i \in 1..n + 1, i > 2, i % 2 = 1
      PROVE  t[i - 2] < t[i]
    <2>1. CASE i \in 1..n
        <3>1. s[i - 2] < s[i]
            BY <1>1, <1>5, <2>1 DEF Framed
        <3>2. i - 2 \in 1..n
            BY <1>1, <1>5, <2>1
        <3> QED
            BY <1>1, <2>1, <3>1, <3>2
    <2>2. CASE i = n + 1
        <3>1. n - 1 \in 1..n /\ (n - 1) % 2 = 1 /\ (n - 1) + 1 \in 1..n /\ i - 2 = n - 1
            BY <1>1, <1>2, <1>5, <2>2
        <3>2. s[n - 1] \in Whole(s)
            BY <1>1, <3>1 DEF Whole
        <3> QED
            BY <1>1, <2>2, <3>1, <3>2 DEF Below
    <2> QED
        BY <1>1, <2>1, <2>2
<1>6. Framed(t)
    BY <1>1, <1>4, <1>5 DEF Framed
<1>7. \A j \in 1..n + 1 : j % 2 = 1 /\ j + 1 \in 1..n + 1 <=> j \in 1..n /\ j % 2 = 1 /\ j + 1 \in 1..n
    <2> SUFFICES ASSUME NEW j \in 1..n + 1, j % 2 = 1, j + 1 \in 1..n + 1
                 PROVE  j \in 1..n /\ j + 1 \in 1..n
        BY <1>1
    <2>1. j # n
        BY <1>2
    <2> QED
        BY <1>1, <2>1
<1>8. Whole(t) = Whole(s)
    <2>1. {j \in DOMAIN t : j % 2 = 1 /\ j + 1 \in DOMAIN t} = {j \in DOMAIN s : j % 2 = 1 /\ j + 1 \in DOMAIN s}
        BY <1>1, <1>7
    <2> QED
        BY <1>1, <2>1 DEF Whole
<1> QED
    BY <1>1, <1>3, <1>6, <1>8 DEF t

(* The newline after a body makes it a record.                             *)
LEMMA NewlineFollows ==
    ASSUME NEW s \in Seq(Nat), Len(s) % 2 = 1, Framed(s)
    PROVE  LET t == Append(s, NL)
           IN  t \in Seq(Nat) /\ Framed(t) /\ Whole(t) = Whole(s) \cup {s[Len(s)]} /\ Len(t) % 2 = 0
<1> DEFINE t == Append(s, NL)
           n == Len(s)
<1>0. NL \in Nat
    BY DEF NL
<1>1. /\ n \in Nat /\ DOMAIN s = 1..n /\ DOMAIN t = 1..n + 1 /\ Len(t) = n + 1 /\ t[n + 1] = NL
      /\ t \in Seq(Nat) /\ \A i \in 1..n : t[i] = s[i] /\ s[i] \in Nat
    BY <1>0
<1> HIDE DEF t, n
<1>2. n % 2 = 1
    BY DEF n
<1>3. (n + 1) % 2 = 0 /\ n \in 1..n
    BY <1>1, <1>2
<1>4. ASSUME NEW i \in 1..n + 1
      PROVE  (t[i] = NL) <=> (i % 2 = 0)
    <2>1. CASE i \in 1..n
        BY <1>1, <2>1 DEF Framed
    <2>2. CASE i = n + 1
        BY <1>1, <1>3, <2>2
    <2> QED
        BY <1>1, <2>1, <2>2
<1>5. ASSUME NEW i \in 1..n + 1, i > 2, i % 2 = 1
      PROVE  t[i - 2] < t[i]
    <2>1. i \in 1..n
        BY <1>1, <1>3, <1>5
    <2>2. s[i - 2] < s[i]
        BY <1>1, <1>5, <2>1 DEF Framed
    <2>3. i - 2 \in 1..n
        BY <1>1, <1>5, <2>1
    <2> QED
        BY <1>1, <2>1, <2>2, <2>3
<1>6. Framed(t)
    BY <1>1, <1>4, <1>5 DEF Framed
<1>7. \A j : j \in DOMAIN t /\ j % 2 = 1 /\ j + 1 \in DOMAIN t
                <=> (j \in DOMAIN s /\ j % 2 = 1 /\ j + 1 \in DOMAIN s) \/ j = n
    BY <1>1, <1>2, <1>3, SMTT(30)
<1>8. Whole(t) = Whole(s) \cup {s[n]}
    BY <1>1, <1>3, <1>7 DEF Whole
<1> QED
    BY <1>1, <1>3, <1>6, <1>8 DEF t, n

-----------------------------------------------------------------------------
(* The streams w of a sink, its connection k, of which m symbols of event  *)
(* h are on the wire, and the set L of events it has written.              *)

(* Across connections too, records come in order.                          *)
Successive(w) == \A c, d \in DOMAIN w : c < d => Below(Whole(w[c]), Whole(w[d]))

AllWhole(w) == UNION {Whole(w[c]) : c \in DOMAIN w}

Wired(w, k, m, h, L) ==
    /\ w \in Seq(Seq(Nat))
    /\ k \in {0, Len(w)}
    /\ m \in {0, 1}
    /\ m = 1 => k # 0
    /\ \A c \in DOMAIN w : Framed(w[c])
    /\ k # 0 => Len(w[k]) % 2 = m
    /\ m = 1 => w[k][Len(w[k])] = h
    /\ Successive(w)
    /\ L = AllWhole(w)

(* Where no record is begun, it does not matter what is in hand.           *)
LEMMA WiredIdle ==
    ASSUME NEW w, NEW k, NEW h, NEW g, NEW L, Wired(w, k, 0, h, L)
    PROVE  Wired(w, k, 0, g, L)
<1>1. 0 # 1
    OBVIOUS
<1> QED
    BY <1>1, Zenon DEF Wired

(* After a reset the record that was begun stays incomplete.               *)
LEMMA WiredClose ==
    ASSUME NEW w, NEW k, NEW m, NEW h, NEW g, NEW L, Wired(w, k, m, h, L)
    PROVE  Wired(w, 0, 0, g, L)
<1>1. w \in Seq(Seq(Nat)) /\ (\A c \in DOMAIN w : Framed(w[c])) /\ Successive(w) /\ L = AllWhole(w)
    BY DEF Wired
<1>2. 0 \in {0, Len(w)} /\ 0 \in {0, 1} /\ 0 # 1
    OBVIOUS
<1> QED
    BY <1>1, <1>2 DEF Wired

(* A new connection has taken nothing.                                     *)
LEMMA WiredDial ==
    ASSUME NEW w, NEW m, NEW h, NEW L, Wired(w, 0, m, h, L)
    PROVE  m = 0 /\ Wired(Append(w, <<>>), Len(w) + 1, 0, h, L)
<1> DEFINE v == Append(w, <<>>)
           n == Len(w)
<1>0. w \in Seq(Seq(Nat)) /\ m = 0 /\ <<>> \in Seq(Nat)
    BY DEF Wired
<1>1. /\ n \in Nat /\ DOMAIN w = 1..n /\ v \in Seq(Seq(Nat)) /\ Len(v) = n + 1 /\ DOMAIN v = 1..n + 1
      /\ v[n + 1] = <<>> /\ \A c \in 1..n : v[c] = w[c]
    BY <1>0
<1> HIDE DEF v, n
<1>2. Framed(<<>>) /\ Whole(<<>>) = {} /\ Len(<<>>) % 2 = 0
    BY DEF Framed, Whole
<1>3. ASSUME NEW c \in 1..n + 1 PROVE Framed(v[c])
    <2>1. CASE c \in 1..n
        BY <1>1, <2>1 DEF Wired
    <2>2. CASE c = n + 1
        BY <1>1, <1>2, <2>2
    <2> QED
        BY <1>1, <2>1, <2>2
<1>4. ASSUME NEW c \in 1..n + 1, NEW d \in 1..n + 1, c < d
      PROVE  Below(Whole(v[c]), Whole(v[d]))
    <2>1. CASE d = n + 1
        BY <1>1, <1>2, <2>1 DEF Below
    <2>2. CASE d # n + 1
        <3>1. c \in 1..n /\ d \in 1..n
            BY <1>1, <1>4, <2>2
        <3> QED
            BY <1>1, <1>4, <3>1 DEF Wired, Successive
    <2> QED
        BY <2>1, <2>2
<1>5. L = AllWhole(v)
    <2>1. ASSUME NEW x, x \in L PROVE x \in AllWhole(v)
        <3>1. PICK c \in 1..n : x \in Whole(w[c])
            BY <1>1, <2>1 DEF Wired, AllWhole
        <3>2. c \in DOMAIN v /\ v[c] = w[c]
            BY <1>1
        <3> QED
            BY <3>1, <3>2 DEF AllWhole
    <2>2. ASSUME NEW x, x \in AllWhole(v) PROVE x \in L
        <3>1. PICK c \in 1..n + 1 : x \in Whole(v[c])
            BY <1>1, <2>2 DEF AllWhole
        <3>2. c # n + 1
            BY <1>1, <1>2, <3>1
        <3>3. c \in DOMAIN w /\ v[c] = w[c]
            BY <1>1, <3>2
        <3> QED
            BY <3>1, <3>3 DEF Wired, AllWhole
    <2> QED
        BY <2>1, <2>2
<1>6. Wired(v, n + 1, 0, h, L)
    BY <1>0, <1>1, <1>2, <1>3, <1>4, <1>5 DEF Wired, Successive
<1> QED
    BY <1>0, <1>6 DEF v, n

(* The stream of the latest connection becomes t: its whole records gain   *)
(* X, all newer than the others.                                           *)
Gains(w, k, t, X) ==
    /\ w \in Seq(Seq(Nat)) /\ k \in DOMAIN w /\ k = Len(w) /\ Successive(w)
    /\ \A c \in DOMAIN w : Framed(w[c])
    /\ t \in Seq(Nat) /\ Framed(t) /\ Whole(t) = Whole(w[k]) \cup X
    /\ Below(AllWhole(w), X)

Gained(w, k, t, X, v) ==
    /\ v \in Seq(Seq(Nat)) /\ Len(v) = Len(w) /\ v[k] = t
    /\ \A c \in DOMAIN v : Framed(v[c])
    /\ Successive(v)
    /\ AllWhole(v) = AllWhole(w) \cup X

(* This keeps the framing and the order, and the log gains X.              *)
LEMMA WiredStream ==
    ASSUME NEW w, NEW k, NEW t, NEW X, Gains(w, k, t, X)
    PROVE  Gained(w, k, t, X, [w EXCEPT ![k] = t])
<1> USE DEF Gains
<1> DEFINE v == [w EXCEPT ![k] = t]
<1>1. /\ v \in Seq(Seq(Nat)) /\ Len(v) = Len(w) /\ DOMAIN v = DOMAIN w /\ v[k] = t
      /\ \A c \in DOMAIN w : c # k => v[c] = w[c]
    OBVIOUS
<1>2. \A c \in DOMAIN w : c \in Nat /\ c <= k
    OBVIOUS
<1> HIDE DEF v
<1>3. \A c \in DOMAIN v : Framed(v[c])
    BY <1>1
<1>4. ASSUME NEW c \in DOMAIN w, NEW d \in DOMAIN w, c < d
      PROVE  Below(Whole(v[c]), Whole(v[d]))
    <2>1. c # k /\ Below(Whole(w[c]), Whole(w[d]))
        BY <1>2, <1>4 DEF Successive
    <2>2. CASE d = k
        <3>1. Whole(w[c]) \subseteq AllWhole(w)
            BY DEF AllWhole
        <3>2. Below(Whole(w[c]), Whole(w[k]) \cup X)
            BY <2>1, <2>2, <3>1 DEF Below
        <3> QED
            BY <1>1, <2>1, <2>2, <3>2
    <2>3. CASE d # k
        BY <1>1, <2>1, <2>3
    <2> QED
        BY <2>2, <2>3
<1>5. AllWhole(v) = AllWhole(w) \cup X
    <2>1. ASSUME NEW x \in AllWhole(v) PROVE x \in AllWhole(w) \cup X
        <3>1. PICK c \in DOMAIN w : x \in Whole(v[c])
            BY <1>1, <2>1 DEF AllWhole
        <3>2. x \in Whole(w[c]) \cup X
            BY <1>1, <3>1
        <3> QED
            BY <3>2 DEF AllWhole
    <2>2. ASSUME NEW x \in AllWhole(w) PROVE x \in AllWhole(v)
        <3>1. PICK c \in DOMAIN w : x \in Whole(w[c])
            BY <2>2 DEF AllWhole
        <3>2. c \in DOMAIN v /\ x \in Whole(v[c])
            BY <1>1, <3>1
        <3> QED
            BY <3>2 DEF AllWhole
    <2>3. ASSUME NEW x \in X PROVE x \in AllWhole(v)
        <3>1. k \in DOMAIN v /\ x \in Whole(v[k])
            BY <1>1
        <3> QED
            BY <3>1 DEF AllWhole
    <2> QED
        BY <2>1, <2>2, <2>3
<1> QED
    BY <1>1, <1>3, <1>4, <1>5 DEF Gained, Successive, v

(* The body of the event in hand goes on the wire.                         *)
LEMMA WiredBody ==
    ASSUME NEW w, NEW k, NEW h \in Nat, NEW L, Wired(w, k, 0, h, L), k # 0, h > 0, Below(L, {h})
    PROVE  Wired([w EXCEPT ![k] = Append(@, h)], k, 1, h, L)
<1> DEFINE s == w[k]
           t == Append(s, h)
           v == [w EXCEPT ![k] = t]
<1>1. w \in Seq(Seq(Nat)) /\ k = Len(w) /\ Successive(w) /\ L = AllWhole(w) /\ \A c \in DOMAIN w : Framed(w[c])
    BY DEF Wired
<1>2. k \in DOMAIN w /\ k \in Nat /\ s \in Seq(Nat)
    BY <1>1
<1>3. Len(s) % 2 = 0 /\ Framed(s)
    BY <1>1, <1>2 DEF Wired
<1>4. Below(Whole(s), {h})
    <2>1. Whole(s) \subseteq L
        BY <1>1, <1>2 DEF AllWhole
    <2> QED
        BY <2>1 DEF Below
<1> HIDE DEF s
<1>5. t \in Seq(Nat) /\ Framed(t) /\ Whole(t) = Whole(s) /\ Len(t) % 2 = 1 /\ t[Len(t)] = h
    BY <1>2, <1>3, <1>4, BodyFollows
<1> HIDE DEF t
<1>6. Whole(t) = Whole(w[k]) \cup {} /\ Below(AllWhole(w), {})
    BY <1>5 DEF s, Below
<1>7. /\ v \in Seq(Seq(Nat)) /\ Len(v) = Len(w) /\ v[k] = t
      /\ \A c \in DOMAIN v : Framed(v[c])
      /\ Successive(v) /\ AllWhole(v) = AllWhole(w) \cup {}
    <2>1. Gains(w, k, t, {})
        BY <1>1, <1>2, <1>5, <1>6 DEF Gains
    <2> QED
        BY <2>1, WiredStream DEF Gained
<1> HIDE DEF v
<1>8. Wired(v, k, 1, h, L)
    BY <1>1, <1>5, <1>7 DEF Wired
<1> QED
    BY <1>8 DEF v, t, s

(* Its newline completes the record, and the event is written.             *)
LEMMA WiredNewline ==
    ASSUME NEW w, NEW k, NEW h, NEW g, NEW L, Wired(w, k, 1, h, L), Below(L, {h})
    PROVE  Wired([w EXCEPT ![k] = Append(@, NL)], k, 0, g, L \cup {h})
<1> DEFINE s == w[k]
           t == Append(s, NL)
           v == [w EXCEPT ![k] = t]
<1>1. /\ w \in Seq(Seq(Nat)) /\ k # 0 /\ k = Len(w) /\ Successive(w) /\ L = AllWhole(w)
      /\ \A c \in DOMAIN w : Framed(w[c])
    BY DEF Wired
<1>2. k \in DOMAIN w /\ k \in Nat /\ s \in Seq(Nat)
    BY <1>1
<1>3. Len(s) % 2 = 1 /\ Framed(s) /\ s[Len(s)] = h
    BY <1>1, <1>2 DEF Wired
<1> HIDE DEF s
<1>4. t \in Seq(Nat) /\ Framed(t) /\ Whole(t) = Whole(s) \cup {h} /\ Len(t) % 2 = 0
    BY <1>2, <1>3, NewlineFollows
<1> HIDE DEF t
<1>5. Whole(t) = Whole(w[k]) \cup {h} /\ Below(AllWhole(w), {h})
    BY <1>1, <1>4 DEF s
<1>6. /\ v \in Seq(Seq(Nat)) /\ Len(v) = Len(w) /\ v[k] = t
      /\ \A c \in DOMAIN v : Framed(v[c])
      /\ Successive(v) /\ AllWhole(v) = AllWhole(w) \cup {h}
    <2>1. Gains(w, k, t, {h})
        BY <1>1, <1>2, <1>4, <1>5 DEF Gains
    <2> QED
        BY <2>1, WiredStream DEF Gained
<1> HIDE DEF v
<1>7. Wired(v, k, 0, g, L \cup {h})
    BY <1>1, <1>4, <1>6 DEF Wired
<1> QED
    BY <1>7 DEF v, t, s

-----------------------------------------------------------------------------
NetTypes ==
    /\ network \in [Outputs -> {"tcp", "udp", "none"}]
    /\ conn \in [Outputs -> Nat]
    /\ wire \in [Outputs -> Seq(Seq(Nat))]
    /\ sent \in [Outputs -> {0, 1}]

(* The events that went out on connections.                                *)
Logged(o) == IF network[o] = "none" THEN {} ELSE Elems(written[o])

(* A record is begun only inside Write, and only TCP can stop half-way.    *)
SinkInv(o) ==
    /\ Wired(wire[o], conn[o], sent[o], inHand[o][1], Logged(o))
    /\ sent[o] = 1 => InWrite(o) /\ network[o] = "tcp"

NetInv == NetTypes /\ \A o \in Outputs : SinkInv(o)

(* The event in hand is an event, newer than all that was written.         *)
LEMMA HandIsNewest ==
    ASSUME PipelineInv, NEW o \in Outputs, InWrite(o)
    PROVE  /\ inHand[o] = <<inHand[o][1]>> /\ inHand[o][1] \in Nat /\ inHand[o][1] > 0
           /\ Below(Elems(written[o]), {inHand[o][1]})
           /\ written[o] \in Seq(Nat)
<1>1. inHand[o] \in Seq(Nat) /\ inHand[o] # <<>> /\ Len(inHand[o]) <= 1 /\ written[o] \in Seq(Nat)
    BY DEF PipelineInv, TypeInv, TypeOK, PipelineShape, ConsumerTypeOK, InWrite
<1>2. inHand[o] = <<inHand[o][1]>> /\ inHand[o][1] \in Nat
    BY <1>1
<1>3. Elems(inHand[o]) = {inHand[o][1]}
    BY <1>2, ElemsSingle
<1>4. Sorted(Stages(o)) /\ Partition(Places(o), produced)
    BY DEF PipelineInv, FlowInv
<1>5. Below(Elems(written[o]), Elems(inHand[o]))
    <2>1. Below(Elems(Stages(o)[1]), Elems(Stages(o)[2]))
        BY <1>4 DEF Sorted
    <2> QED
        BY <2>1 DEF Stages
<1>6. inHand[o][1] \in 1..produced
    <2>1. Elems(inHand[o]) = Places(o)[7]
        BY DEF Places
    <2> QED
        BY <1>3, <1>4, <2>1 DEF Partition
<1> QED
    BY <1>1, <1>2, <1>3, <1>5, <1>6

(* The parts of a record that a write can send.                            *)
LEMMA RecordParts ==
    ASSUME NEW x \in Nat, NEW y \in Nat
    PROVE  /\ SubSeq(<<x, y>>, 1, 1) = <<x>>
           /\ SubSeq(<<x, y>>, 2, 2) = <<y>>
           /\ SubSeq(<<x, y>>, 1, 2) = <<x, y>>
<1> DEFINE r == <<x, y>>
<1>1. r[1] = x /\ r[2] = y
    OBVIOUS
<1> HIDE DEF r
<1>2. ASSUME NEW m \in 1..2, NEW n \in 1..2, m <= n
      PROVE  /\ SubSeq(r, m, n) \in Seq(Nat) /\ Len(SubSeq(r, m, n)) = n - m + 1
             /\ \A i \in 1..n - m + 1 : SubSeq(r, m, n)[i] = r[m + i - 1]
    <2>1. (\A i \in m..n : r[i] \in Nat) /\ m \in Int /\ n \in Int
        BY <1>1
    <2> QED
        BY <1>2, <2>1, SubSeqProperties
<1>3. ASSUME NEW s \in Seq(Nat), Len(s) = 1 PROVE s = <<s[1]>>
    BY <1>3
<1>4. ASSUME NEW s \in Seq(Nat), Len(s) = 2 PROVE s = <<s[1], s[2]>>
    BY <1>4
<1>5. SubSeq(r, 1, 1) = <<x>>
    <2>1. SubSeq(r, 1, 1) \in Seq(Nat) /\ Len(SubSeq(r, 1, 1)) = 1
        BY <1>2
    <2>2. SubSeq(r, 1, 1)[1] = x
        BY <1>1, <1>2
    <2> QED
        BY <1>3, <2>1, <2>2
<1>6. SubSeq(r, 2, 2) = <<y>>
    <2>1. SubSeq(r, 2, 2) \in Seq(Nat) /\ Len(SubSeq(r, 2, 2)) = 1
        BY <1>2
    <2>2. SubSeq(r, 2, 2)[1] = y
        BY <1>1, <1>2
    <2> QED
        BY <1>3, <2>1, <2>2
<1>7. SubSeq(r, 1, 2) = <<x, y>>
    <2>1. SubSeq(r, 1, 2) \in Seq(Nat) /\ Len(SubSeq(r, 1, 2)) = 2
        BY <1>2
    <2>2. SubSeq(r, 1, 2)[1] = x /\ SubSeq(r, 1, 2)[2] = y
        BY <1>1, <1>2
    <2> QED
        BY <1>4, <2>1, <2>2
<1> QED
    BY <1>5, <1>6, <1>7 DEF r

(* What Write does to the streams of its sink: it adds the body, or the    *)
(* newline after it, or a datagram.                                        *)
LEMMA PutStreams ==
    ASSUME NetTypes, NEW o \in Outputs, conn[o] \in DOMAIN wire[o], inHand[o][1] \in Nat, NEW n \in {1, 2},
           Put(o, n), sent[o] = 0 \/ n = 1
    PROVE  LET h == inHand[o][1]
               w == wire[o]
               k == conn[o]
           IN  /\ sent[o] = 0 /\ n = 1 => wire'[o] = [w EXCEPT ![k] = Append(@, h)]
               /\ sent[o] = 1 /\ n = 1 => wire'[o] = [w EXCEPT ![k] = Append(@, NL)]
               /\ n = 2 => wire'[o] = [[w EXCEPT ![k] = Append(@, h)] EXCEPT ![k] = Append(@, NL)]
               /\ \A p \in Outputs : p # o => wire'[p] = wire[p]
               /\ wire' \in [Outputs -> Seq(Seq(Nat))]
<1> DEFINE h == inHand[o][1]
           w == wire[o]
           k == conn[o]
           part == SubSeq(<<h, NL>>, sent[o] + 1, sent[o] + n)
<1>0. w \in Seq(Seq(Nat)) /\ k \in DOMAIN w /\ w[k] \in Seq(Nat) /\ NL \in Nat /\ h \in Nat /\ sent[o] \in {0, 1}
    BY DEF NetTypes, NL
<1>1. wire' = [wire EXCEPT ![o] = [w EXCEPT ![k] = w[k] \o part]]
    BY DEF Put, Record
<1>2. part = IF n = 2 THEN <<h, NL>> ELSE IF sent[o] = 0 THEN <<h>> ELSE <<NL>>
    <2>1. /\ SubSeq(<<h, NL>>, 1, 1) = <<h>>
          /\ SubSeq(<<h, NL>>, 2, 2) = <<NL>>
          /\ SubSeq(<<h, NL>>, 1, 2) = <<h, NL>>
        BY <1>0, RecordParts
    <2> HIDE DEF h
    <2>2. CASE n = 2
        <3>1. sent[o] = 0
            BY <2>2
        <3>2. part = SubSeq(<<h, NL>>, 1, 2)
            BY <2>2, <3>1
        <3> QED
            BY <2>1, <2>2, <3>2
    <2>3. CASE n = 1 /\ sent[o] = 0
        <3>1. part = SubSeq(<<h, NL>>, 1, 1)
            BY <2>3
        <3> QED
            BY <2>1, <2>3, <3>1
    <2>4. CASE n = 1 /\ sent[o] = 1
        <3>1. part = SubSeq(<<h, NL>>, 2, 2)
            BY <2>4
        <3> QED
            BY <2>1, <2>4, <3>1
    <2> QED
        BY <1>0, <2>2, <2>3, <2>4
<1> HIDE DEF h, w, k, part
<1>3. w[k] \o part = IF n = 2 THEN Append(Append(w[k], h), NL)
                     ELSE Append(w[k], IF sent[o] = 0 THEN h ELSE NL)
    <2>1. ASSUME NEW s \in Seq(Nat), NEW x \in Nat PROVE s \o <<x>> = Append(s, x)
        OBVIOUS
    <2>2. ASSUME NEW s \in Seq(Nat), NEW x \in Nat, NEW y \in Nat
          PROVE  s \o <<x, y>> = Append(Append(s, x), y)
        OBVIOUS
    <2> QED
        BY <1>0, <1>2, <2>1, <2>2
<1>4. w[k] \o part \in Seq(Nat)
    BY <1>0, <1>3
<1>5. [w EXCEPT ![k] = w[k] \o part] \in Seq(Seq(Nat))
    BY <1>0, <1>4
<1>6. wire' \in [Outputs -> Seq(Seq(Nat))]
    BY <1>1, <1>5 DEF NetTypes
<1>7. wire'[o] = [w EXCEPT ![k] = w[k] \o part] /\ \A p \in Outputs : p # o => wire'[p] = wire[p]
    BY <1>1 DEF NetTypes
<1>8. [[w EXCEPT ![k] = Append(@, h)] EXCEPT ![k] = Append(@, NL)] = [w EXCEPT ![k] = Append(Append(w[k], h), NL)]
    BY <1>0
<1>9. n = 1 => wire'[o] = [w EXCEPT ![k] = Append(w[k], IF sent[o] = 0 THEN h ELSE NL)]
    BY <1>3, <1>7
<1>10. n = 2 => wire'[o] = [w EXCEPT ![k] = Append(Append(w[k], h), NL)]
    BY <1>3, <1>7
<1>11. sent[o] = 0 /\ n = 1 => wire'[o] = [w EXCEPT ![k] = Append(w[k], h)]
    BY <1>9
<1>12. sent[o] = 1 /\ n = 1 => wire'[o] = [w EXCEPT ![k] = Append(w[k], NL)]
    <2>1. sent[o] = 1 => sent[o] # 0
        OBVIOUS
    <2> QED
        BY <1>9, <2>1
<1> QED
    BY <1>6, <1>7, <1>8, <1>10, <1>11, <1>12 DEF h, w, k

(* A sink that is left alone keeps its invariant.                          *)
LEMMA SinkFrame ==
    ASSUME NEW o \in Outputs, SinkInv(o),
           wire'[o] = wire[o], conn'[o] = conn[o], sent'[o] = sent[o], network'[o] = network[o],
           inHand'[o] = inHand[o], written'[o] = written[o], consPc'[o] = consPc[o]
    PROVE  SinkInv(o)'
BY DEF SinkInv, InWrite, Logged

(* Consumer.Run around Write, with its deferred Close.                     *)
LEMMA ConsumerKeepsSink ==
    ASSUME PipelineInv, NetInv, NEW o \in Outputs, NetConsumerStep(o)
    PROVE  NetInv'
<1>0. NetTypes /\ SinkInv(o)
    BY DEF NetInv
<1>1. UNCHANGED <<network, wire, sent, written>> /\ conn' \in [Outputs -> Nat]
      /\ \A p \in Outputs : p # o => conn'[p] = conn[p]
    <2>1. UNCHANGED <<network, wire, sent>> /\ (Close(o) \/ UNCHANGED conn)
        BY DEF NetConsumerStep, CloseAtEnd
    <2>2. conn' \in [Outputs -> Nat] /\ \A p \in Outputs : p # o => conn'[p] = conn[p]
        <3>1. conn \in [Outputs -> Nat]
            BY <1>0 DEF NetTypes
        <3>2. CASE conn' = [conn EXCEPT ![o] = 0]
            BY <3>1, <3>2
        <3>3. CASE conn' = conn
            BY <3>1, <3>3
        <3> QED
            BY <2>1, <3>2, <3>3 DEF Close
    <2>3. written' = written
        BY DEF NetConsumerStep, ConsumerStep, ConsumerLoop, ConsumerTake, DrainTake, TakeNext, ConsumerCtxDone,
               DrainEmpty, DrainDeadline, CloseSink, history
    <2> QED
        BY <2>1, <2>2, <2>3
<1>2. ~InWrite(o)
    BY DEF NetConsumerStep, ConsumerStep, ConsumerLoop, ConsumerTake, DrainTake, ConsumerCtxDone,
           DrainEmpty, DrainDeadline, InWrite
<1>3. sent[o] = 0
    BY <1>0, <1>2 DEF SinkInv, NetTypes
<1>4. SinkInv(o)'
    <2>1. Wired(wire[o], conn[o], 0, inHand[o][1], Logged(o))
        BY <1>0, <1>3 DEF SinkInv
    <2>2. conn'[o] = 0 \/ conn'[o] = conn[o]
        BY <1>0 DEF NetConsumerStep, CloseAtEnd, Close, NetTypes
    <2>3. Wired(wire[o], conn'[o], 0, inHand'[o][1], Logged(o))
        BY <2>1, <2>2, WiredIdle, WiredClose
    <2>4. Logged(o)' = Logged(o)
        BY <1>1 DEF Logged
    <2> QED
        BY <1>1, <1>3, <2>3, <2>4 DEF SinkInv
<1>5. ASSUME NEW p \in Outputs, p # o PROVE SinkInv(p)'
    <2>1. inHand'[p] = inHand[p] /\ consPc'[p] = consPc[p]
        BY <1>5 DEF NetConsumerStep, ConsumerStep, ConsumerLoop, ConsumerTake, DrainTake, TakeNext, ConsumerCtxDone,
           DrainEmpty, DrainDeadline, CloseSink, PipelineInv, TypeInv, TypeOK, ConsumerTypeOK
    <2>2. SinkInv(p)
        BY DEF NetInv
    <2> QED
        BY <1>1, <1>5, <2>1, <2>2, SinkFrame
<1> QED
    BY <1>0, <1>1, <1>4, <1>5 DEF NetInv, NetTypes

(* NetSink.Write: its dial, its partial writes and its errors.             *)
LEMMA WriteKeepsSink ==
    ASSUME PipelineInv, NetInv, NEW o \in Outputs, NetWrite(o)
    PROVE  NetInv'
<1> DEFINE h == inHand[o][1]
<1>1. InWrite(o) /\ network[o] # "none" /\ network' = network
    BY DEF NetWrite, DialOk, DialFail, WriteSome, WriteLast, WriteDatagram, WriteErr, InWrite, Put, netVars
<1>0. NetTypes /\ Wired(wire[o], conn[o], sent[o], h, Elems(written[o])) /\ (sent[o] = 1 => network[o] = "tcp")
      /\ wire[o] \in Seq(Seq(Nat)) /\ sent[o] \in {0, 1}
    BY <1>1 DEF NetInv, SinkInv, Logged, NetTypes
<1>2. inHand[o] = <<h>> /\ h \in Nat /\ h > 0 /\ Below(Elems(written[o]), {h}) /\ written[o] \in Seq(Nat)
    BY <1>1, HandIsNewest
<1>3. conn[o] # 0 => conn[o] \in DOMAIN wire[o]
    BY <1>0 DEF Wired
<1>4. ASSUME NEW p \in Outputs, p # o
      PROVE  inHand'[p] = inHand[p] /\ written'[p] = written[p] /\ consPc'[p] = consPc[p]
    BY <1>4 DEF NetWrite, DialOk, DialFail, WriteSome, WriteLast, WriteDatagram, WriteErr, WriteOk, WriteFail,
                vars, outVars, history, PipelineInv, TypeInv, TypeOK, ConsumerTypeOK
<1>5. ASSUME NetTypes', Wired(wire'[o], conn'[o], sent'[o], inHand'[o][1], Elems(written'[o])),
             sent'[o] = 1 => InWrite(o)' /\ network'[o] = "tcp",
             \A p \in Outputs : p # o => /\ wire'[p] = wire[p] /\ conn'[p] = conn[p]
                                         /\ sent'[p] = sent[p] /\ network'[p] = network[p]
      PROVE  NetInv'
    <2>1. SinkInv(o)'
        BY <1>1, <1>5 DEF SinkInv, Logged
    <2>2. ASSUME NEW p \in Outputs, p # o PROVE SinkInv(p)'
        BY <1>4, <1>5, <2>2, SinkFrame DEF NetInv
    <2> QED
        BY <1>5, <2>1, <2>2 DEF NetInv
<1>6. ASSUME WriteOk(o)
      PROVE  Elems(written'[o]) = Elems(written[o]) \cup {h}
    <2>1. written'[o] = written[o] \o <<h>>
        BY <1>2, <1>6 DEF WriteOk, PipelineInv, TypeInv, TypeOK, ConsumerTypeOK
    <2>2. ASSUME NEW s \in Seq(Nat), NEW x \in Nat PROVE s \o <<x>> = Append(s, x)
        OBVIOUS
    <2> HIDE DEF h
    <2>3. written'[o] = Append(written[o], h)
        BY <1>2, <2>1, <2>2
    <2> QED
        BY <1>2, <2>3, ElemsAppend
<1>7. ASSUME WriteFail(o) PROVE written' = written
    BY <1>7 DEF WriteFail
<1>8. CASE DialOk(o)
    <2>1. conn[o] = 0 /\ UNCHANGED <<vars, network, sent>>
          /\ wire'[o] = Append(wire[o], <<>>) /\ conn'[o] = Len(wire[o]) + 1
        BY <1>0, <1>8 DEF DialOk, NetTypes
    <2>2. sent[o] = 0 /\ Wired(Append(wire[o], <<>>), Len(wire[o]) + 1, 0, h, Elems(written[o]))
        BY <1>0, <2>1, WiredDial
    <2>3. UNCHANGED <<inHand, written>>
        BY <2>1 DEF vars, outVars, history
    <2>4. NetTypes'
        <3>1. Append(wire[o], <<>>) \in Seq(Seq(Nat)) /\ Len(wire[o]) + 1 \in Nat
            BY <1>0
        <3> QED
            BY <1>0, <1>8, <3>1 DEF DialOk, NetTypes
    <2>5. \A p \in Outputs : p # o => wire'[p] = wire[p] /\ conn'[p] = conn[p]
        BY <1>0, <1>8 DEF DialOk, NetTypes
    <2> QED
        BY <1>5, <2>1, <2>2, <2>3, <2>4, <2>5
<1>9. CASE DialFail(o)
    <2>1. conn[o] = 0 /\ UNCHANGED netVars /\ WriteFail(o)
        BY <1>9 DEF DialFail
    <2>2. sent[o] = 0 /\ Wired(wire[o], conn[o], 0, inHand'[o][1], Elems(written[o]))
        <3>1. sent[o] = 0
            BY <1>0, <2>1 DEF Wired
        <3> QED
            BY <1>0, <3>1, WiredIdle
    <2> QED
        BY <1>0, <1>5, <1>7, <2>1, <2>2 DEF netVars, NetTypes
<1>10. CASE WriteSome(o)
    <2>1. /\ conn[o] # 0 /\ network[o] = "tcp" /\ Put(o, 1) /\ UNCHANGED <<network, conn, inHand, written, consPc>>
          /\ sent' = [sent EXCEPT ![o] = @ + 1]
        BY <1>10 DEF WriteSome, Put, vars, outVars, history
    <2>2. sent[o] = 0
        BY <1>0, <1>10 DEF WriteSome, Record
    <2>3. sent'[o] = 1 /\ sent' \in [Outputs -> {0, 1}] /\ \A p \in Outputs : p # o => sent'[p] = sent[p]
        BY <1>0, <2>1, <2>2 DEF NetTypes
    <2>4. wire'[o] = [wire[o] EXCEPT ![conn[o]] = Append(@, h)]
          /\ (\A p \in Outputs : p # o => wire'[p] = wire[p]) /\ wire' \in [Outputs -> Seq(Seq(Nat))]
        BY <1>0, <1>2, <1>3, <2>1, <2>2, PutStreams
    <2>5. Wired(wire'[o], conn[o], 1, h, Elems(written[o]))
        <3>1. Wired(wire[o], conn[o], 0, h, Elems(written[o]))
            BY <1>0, <2>2
        <3> HIDE DEF h
        <3>2. Wired([wire[o] EXCEPT ![conn[o]] = Append(@, h)], conn[o], 1, h, Elems(written[o]))
            BY <1>2, <2>1, <3>1, WiredBody
        <3> QED
            BY <2>4, <3>2
    <2> QED
        BY <1>0, <1>1, <1>5, <2>1, <2>3, <2>4, <2>5 DEF NetTypes, InWrite
<1>11. CASE WriteLast(o)
    <2>1. /\ conn[o] # 0 /\ network[o] = "tcp" /\ Put(o, 1) /\ UNCHANGED <<network, conn>> /\ WriteOk(o)
          /\ sent' = [sent EXCEPT ![o] = 0]
        BY <1>11 DEF WriteLast, Put
    <2>2. sent[o] = 1
        BY <1>0, <1>11 DEF WriteLast, Record
    <2>3. sent'[o] = 0 /\ sent' \in [Outputs -> {0, 1}] /\ \A p \in Outputs : p # o => sent'[p] = sent[p]
        BY <1>0, <2>1 DEF NetTypes
    <2>4. wire'[o] = [wire[o] EXCEPT ![conn[o]] = Append(@, NL)]
          /\ (\A p \in Outputs : p # o => wire'[p] = wire[p]) /\ wire' \in [Outputs -> Seq(Seq(Nat))]
        BY <1>0, <1>2, <1>3, <2>1, <2>2, PutStreams
    <2>5. Wired(wire'[o], conn[o], 0, inHand'[o][1], Elems(written'[o]))
        <3>1. Wired(wire[o], conn[o], 1, h, Elems(written[o]))
            BY <1>0, <2>2
        <3> HIDE DEF h
        <3>2. Wired([wire[o] EXCEPT ![conn[o]] = Append(@, NL)], conn[o], 0, inHand'[o][1], Elems(written[o]) \cup {h})
            BY <1>2, <3>1, WiredNewline
        <3> QED
            BY <1>6, <2>1, <2>4, <3>2
    <2> QED
        BY <1>0, <1>5, <2>1, <2>3, <2>4, <2>5 DEF NetTypes
<1>12. CASE WriteDatagram(o)
    <2>1. /\ conn[o] # 0 /\ network[o] = "udp" /\ Put(o, 2) /\ UNCHANGED <<network, conn, sent>> /\ WriteOk(o)
        BY <1>12 DEF WriteDatagram, Put, Record
    <2>2. sent[o] = 0
        BY <1>0, <2>1
    <2> DEFINE w1 == [wire[o] EXCEPT ![conn[o]] = Append(@, h)]
    <2>3. wire'[o] = [w1 EXCEPT ![conn[o]] = Append(@, NL)]
          /\ (\A p \in Outputs : p # o => wire'[p] = wire[p]) /\ wire' \in [Outputs -> Seq(Seq(Nat))]
        BY <1>0, <1>2, <1>3, <2>1, <2>2, PutStreams
    <2>4. Wired(w1, conn[o], 1, h, Elems(written[o]))
        BY <1>0, <1>2, <2>1, <2>2, WiredBody
    <2> HIDE DEF w1, h
    <2>5. Wired(wire'[o], conn[o], 0, inHand'[o][1], Elems(written'[o]))
        <3>1. Wired([w1 EXCEPT ![conn[o]] = Append(@, NL)], conn[o], 0, inHand'[o][1], Elems(written[o]) \cup {h})
            BY <1>2, <2>4, WiredNewline
        <3> QED
            BY <1>6, <2>1, <2>3, <3>1
    <2> QED
        BY <1>0, <1>5, <2>1, <2>2, <2>3, <2>5 DEF NetTypes
<1>13. CASE WriteErr(o)
    <2>1. /\ UNCHANGED <<network, wire>> /\ WriteFail(o)
          /\ conn' = [conn EXCEPT ![o] = 0] /\ sent' = [sent EXCEPT ![o] = 0]
        BY <1>13 DEF WriteErr, Close
    <2>2. /\ conn'[o] = 0 /\ sent'[o] = 0 /\ conn' \in [Outputs -> Nat] /\ sent' \in [Outputs -> {0, 1}]
          /\ \A p \in Outputs : p # o => conn'[p] = conn[p] /\ sent'[p] = sent[p]
        BY <1>0, <2>1 DEF NetTypes
    <2>3. Wired(wire[o], 0, 0, inHand'[o][1], Elems(written[o]))
        BY <1>0, WiredClose
    <2> QED
        BY <1>0, <1>5, <1>7, <2>1, <2>2, <2>3 DEF NetTypes
<1> QED
    BY <1>8, <1>9, <1>10, <1>11, <1>12, <1>13 DEF NetWrite

(* A sink of stdout or a file has no connection.                           *)
LEMMA PlainKeepsSink ==
    ASSUME PipelineInv, NetInv, NEW o \in Outputs, PlainWrite(o)
    PROVE  NetInv'
<1>1. network[o] = "none" /\ UNCHANGED <<network, conn, wire, sent>>
    BY DEF PlainWrite, netVars
<1>2. sent[o] = 0 /\ SinkInv(o)
    BY <1>1 DEF NetInv, SinkInv, NetTypes
<1>3. Logged(o) = {} /\ Logged(o)' = {}
    BY <1>1 DEF Logged
<1>4. Wired(wire[o], conn[o], 0, inHand'[o][1], {})
    <2>1. Wired(wire[o], conn[o], 0, inHand[o][1], {})
        BY <1>2, <1>3 DEF SinkInv
    <2> QED
        BY <2>1, WiredIdle
<1>5. SinkInv(o)'
    BY <1>1, <1>2, <1>3, <1>4 DEF SinkInv
<1>6. ASSUME NEW p \in Outputs, p # o PROVE SinkInv(p)'
    <2>1. inHand'[p] = inHand[p] /\ written'[p] = written[p] /\ consPc'[p] = consPc[p]
        BY <1>6 DEF PlainWrite, SinkStep, SinkReturns, WriteOk, WriteFail, PipelineInv, TypeInv, TypeOK, ConsumerTypeOK
    <2> QED
        BY <1>1, <2>1, SinkFrame DEF NetInv
<1> QED
    BY <1>1, <1>5, <1>6 DEF NetInv, NetTypes

(* The producer side and the dispatcher touch no sink.                     *)
LEMMA LoopLeavesSinks ==
    ASSUME NetInv, LoopNext, UNCHANGED netVars
    PROVE  NetInv'
<1>1. UNCHANGED <<consPc, inHand, written>>
    <2>1. UNCHANGED outVars \/ DispatchOutput
        BY DEF LoopNext, Produce, Producer, ProducerSend, ProducerDrop, ProducerGiveUp, ProducerStop, Dispatcher,
               DispatcherIgnore, DispatcherTake, DispatchAlert, DispatcherStop, Engine, EngineTake, EngineStop,
               EngineHandled, Shutdown, Finished, vars
    <2>2. CASE UNCHANGED outVars
        BY <2>2 DEF outVars, history
    <2>3. CASE DispatchOutput
        BY <2>3 DEF DispatchOutput, Submit, SubmitAccepted, SubmitDropped, history
    <2> QED
        BY <2>1, <2>2, <2>3
<1>2. ASSUME NEW p \in Outputs PROVE SinkInv(p)'
    BY <1>1, SinkFrame DEF NetInv, netVars
<1> QED
    BY <1>2 DEF NetInv, NetTypes, netVars

(* One step of any process keeps the framing and the log.                  *)
LEMMA NetInvStep == PipelineInv /\ NetInv /\ [NetNext]_allVars => NetInv'
<1> SUFFICES ASSUME PipelineInv, NetInv, [NetNext]_allVars PROVE NetInv'
    OBVIOUS
<1>1. CASE LoopNext /\ UNCHANGED netVars
    BY <1>1, LoopLeavesSinks
<1>2. ASSUME NEW o \in Outputs, NetConsumerStep(o) PROVE NetInv'
    BY <1>2, ConsumerKeepsSink
<1>3. ASSUME NEW o \in Outputs, NetWrite(o) PROVE NetInv'
    BY <1>3, WriteKeepsSink
<1>5. ASSUME NEW o \in Outputs, PlainWrite(o) PROVE NetInv'
    BY <1>5, PlainKeepsSink
<1>4. ASSUME UNCHANGED <<vars, network, conn, wire, sent>> PROVE NetInv'
    <2>1. UNCHANGED <<consPc, inHand, written>>
        BY <1>4 DEF vars, outVars, history
    <2>2. ASSUME NEW p \in Outputs PROVE SinkInv(p)'
        BY <1>4, <2>1, SinkFrame DEF NetInv
    <2> QED
        BY <1>4, <2>2 DEF NetInv, NetTypes
<1> QED
    BY <1>1, <1>2, <1>3, <1>4, <1>5 DEF NetNext, PeerReads, allVars, netVars

(* Before the first dial nothing is on a wire and nothing is written.      *)
LEMMA NetInvInit == NetInit => NetInv
<1> SUFFICES ASSUME NetInit PROVE NetInv
    OBVIOUS
<1>1. <<>> \in Seq(Seq(Nat)) /\ DOMAIN <<>> = {}
    OBVIOUS
<1>2. NetTypes
    BY <1>1, SinkKindsAssumption DEF NetInit, NetTypes
<1>3. ASSUME NEW o \in Outputs PROVE SinkInv(o)
    <2>1. wire[o] = <<>> /\ conn[o] = 0 /\ sent[o] = 0 /\ written[o] = <<>>
        BY DEF NetInit, Init, ConsumerInit
    <2>2. Elems(<<>>) = {} /\ AllWhole(<<>>) = {}
        BY <1>1, ElemsEmpty DEF AllWhole
    <2>3. Wired(<<>>, 0, 0, inHand[o][1], {})
        BY <1>1, <2>2 DEF Wired, Successive
    <2>4. Wired(wire[o], conn[o], sent[o], inHand[o][1], Logged(o))
        BY <2>1, <2>2, <2>3 DEF Logged
    <2>5. sent[o] # 1
        BY <2>1
    <2> QED
        BY <2>4, <2>5 DEF SinkInv
<1> QED
    BY <1>2, <1>3 DEF NetInv

(* The inductive invariant of the network sinks.                           *)
LEMMA NetInvariant == NetSpec => []NetInv
<1>1. NetSpec => []PipelineInv
    BY NetImplementsPipeline, PipelineInvariant, PTL
<1> QED
    BY <1>1, NetInvInit, NetInvStep, PTL DEF NetSpec

(* However writes end, time out or fail, on every connection of network.go *)
(* bodies and newlines alternate and the events come in order.             *)
THEOREM RecordsAreFramed == NetSpec => []RecordsNeverMerge
<1>1. NetInv => RecordsNeverMerge
    <2> SUFFICES ASSUME NetInv, NEW o \in Outputs, NEW c \in DOMAIN wire[o]
                 PROVE  Framed(wire[o][c])
        BY DEF RecordsNeverMerge, Framed
    <2> QED
        BY DEF NetInv, SinkInv, Wired
<1> QED
    BY <1>1, NetInvariant, PTL

-----------------------------------------------------------------------------
(* From sets to sequences: induction over the connections and over the     *)
(* records of one, as the absence of a least counterexample.               *)

(* A set of natural numbers that is not empty has a least one.             *)
LEMMA LeastOfNat ==
    ASSUME NEW S, S \subseteq Nat, S # {}
    PROVE  \E m \in S : \A y \in S : m <= y
<1>1. PICK x \in S : \A y \in S : ~(<<y, x>> \in OpToRel(<, Nat))
    BY NatLessThanWellFounded, WFMin
<1>2. \A y \in S : x <= y
    <2> SUFFICES ASSUME NEW y \in S, ~(x <= y) PROVE FALSE
        OBVIOUS
    <2>1. y \in Nat /\ x \in Nat /\ y < x
        OBVIOUS
    <2>2. <<y, x>> \in OpToRel(<, Nat)
        BY <2>1 DEF OpToRel
    <2> QED
        BY <1>1, <2>2
<1> QED
    BY <1>1, <1>2

(* A sequence whose neighbours are in order is in order.                   *)
LEMMA NeighboursInOrder ==
    ASSUME NEW s \in Seq(Nat), \A i \in DOMAIN s : i + 1 \in DOMAIN s => s[i] < s[i + 1]
    PROVE  Increasing(s)
<1> SUFFICES ASSUME NEW i \in DOMAIN s, \E j \in DOMAIN s : i < j /\ ~(s[i] < s[j]) PROVE FALSE
    BY DEF Increasing
<1>1. Len(s) \in Nat /\ DOMAIN s = 1..Len(s) /\ \A k \in DOMAIN s : s[k] \in Nat
    OBVIOUS
<1> DEFINE S == {j \in DOMAIN s : i < j /\ ~(s[i] < s[j])}
<1>2. S \subseteq Nat /\ S # {}
    BY <1>1
<1>3. PICK m \in S : \A y \in S : m <= y
    BY <1>2, LeastOfNat
<1>4. m - 1 \in DOMAIN s /\ m - 1 \notin S /\ i <= m - 1
    BY <1>1, <1>3
<1>5. s[m - 1] < s[m]
    <2>1. (m - 1) + 1 = m /\ m \in DOMAIN s
        BY <1>1, <1>3
    <2>2. (m - 1) + 1 \in DOMAIN s => s[m - 1] < s[(m - 1) + 1]
        BY <1>4
    <2> QED
        BY <2>1, <2>2
<1>6. s[i] <= s[m - 1]
    BY <1>1, <1>4
<1> QED
    BY <1>1, <1>3, <1>4, <1>5, <1>6

(* Each place of an increasing sequence holds the same event as in another *)
(* one with the same events.                                               *)
LEMMA SamePlaces ==
    ASSUME NEW a \in Seq(Nat), NEW b \in Seq(Nat), Increasing(a), Increasing(b), Elems(a) = Elems(b),
           NEW k \in DOMAIN a
    PROVE  k \in DOMAIN b /\ a[k] = b[k]
<1> DEFINE Same(j) == j \in DOMAIN b /\ a[j] = b[j]
           S == {j \in DOMAIN a : ~Same(j)}
<1> SUFFICES ASSUME S # {} PROVE FALSE
    OBVIOUS
<1>1. /\ Len(a) \in Nat /\ DOMAIN a = 1..Len(a) /\ \A j \in DOMAIN a : a[j] \in Nat
      /\ Len(b) \in Nat /\ DOMAIN b = 1..Len(b) /\ \A j \in DOMAIN b : b[j] \in Nat
    OBVIOUS
<1>2. S \subseteq Nat
    BY <1>1
<1>3. PICK m \in S : \A y \in S : m <= y
    BY <1>2, LeastOfNat
<1>4. ASSUME NEW j \in 1..m - 1 PROVE j \in DOMAIN a /\ j \in DOMAIN b /\ a[j] = b[j]
    <2>1. j \in DOMAIN a /\ ~(m <= j)
        BY <1>1, <1>3
    <2> QED
        BY <1>3, <2>1
<1>5. PICK p \in DOMAIN b : b[p] = a[m]
    <2>1. a[m] \in Elems(b)
        BY <1>3 DEF Elems
    <2> QED
        BY <2>1 DEF Elems
<1>6. p >= m
    <2> SUFFICES ASSUME p < m PROVE FALSE
        BY <1>1, <1>3
    <2>1. p \in 1..m - 1
        BY <1>1, <1>3
    <2>2. p \in DOMAIN a /\ a[p] = a[m]
        BY <1>4, <1>5, <2>1
    <2> QED
        BY <1>1, <1>3, <2>2 DEF Increasing
<1>7. m \in DOMAIN b
    BY <1>1, <1>3, <1>5, <1>6
<1>8. PICK q \in DOMAIN a : a[q] = b[m]
    <2>1. b[m] \in Elems(a)
        BY <1>7 DEF Elems
    <2> QED
        BY <2>1 DEF Elems
<1>9. q >= m
    <2> SUFFICES ASSUME q < m PROVE FALSE
        BY <1>1, <1>3
    <2>1. q \in 1..m - 1
        BY <1>1, <1>3
    <2>2. q \in DOMAIN b /\ b[q] = b[m]
        BY <1>4, <1>8, <2>1
    <2> QED
        BY <1>1, <1>7, <2>2 DEF Increasing
<1>10. a[m] <= b[m]
    <2>1. m < q => a[m] < a[q]
        BY <1>3 DEF Increasing
    <2>2. m < q \/ m = q
        BY <1>1, <1>3, <1>9
    <2>3. a[m] \in Nat /\ a[q] \in Nat
        BY <1>1, <1>3
    <2> QED
        BY <1>8, <2>1, <2>2, <2>3, SMTT(30)
<1>11. b[m] <= a[m]
    <2>1. m < p => b[m] < b[p]
        BY <1>7 DEF Increasing
    <2>2. m < p \/ m = p
        BY <1>1, <1>6, <1>7
    <2>3. b[m] \in Nat /\ b[p] \in Nat
        BY <1>1, <1>7
    <2> QED
        BY <1>5, <2>1, <2>2, <2>3, SMTT(30)
<1>12. a[m] = b[m]
    BY <1>1, <1>3, <1>7, <1>10, <1>11
<1> QED
    BY <1>3, <1>7, <1>12

(* So there is one way to put a set of events in order.                    *)
LEMMA OneOrder ==
    ASSUME NEW a \in Seq(Nat), NEW b \in Seq(Nat), Increasing(a), Increasing(b), Elems(a) = Elems(b)
    PROVE  a = b
<1>1. \A k \in DOMAIN a : k \in DOMAIN b /\ a[k] = b[k]
    BY SamePlaces
<1>2. \A k \in DOMAIN b : k \in DOMAIN a
    BY SamePlaces
<1>3. DOMAIN a = DOMAIN b
    BY <1>1, <1>2
<1> QED
    BY <1>1, <1>3

-----------------------------------------------------------------------------
(* The parts of w put together one after the other, up to the n-th.        *)
Joins(g, w, n) == g = [i \in 1..n |-> IF i = 1 THEN w[i] ELSE g[i - 1] \o w[i]]

(* One more part can always be added.                                      *)
LEMMA JoinOneMore ==
    ASSUME NEW w, NEW m \in Nat \ {0}, NEW g, Joins(g, w, m - 1)
    PROVE  \E h : Joins(h, w, m)
<1> DEFINE last == IF m = 1 THEN w[m] ELSE g[m - 1] \o w[m]
           h == [i \in 1..m |-> IF i = m THEN last ELSE g[i]]
<1>1. ASSUME NEW i \in 1..m
      PROVE  h[i] = IF i = 1 THEN w[i] ELSE h[i - 1] \o w[i]
    <2>1. CASE i = m
        <3>1. i # 1 => i - 1 \in 1..m /\ i - 1 # m
            BY <2>1
        <3> QED
            BY <2>1, <3>1
    <2>2. CASE i # m
        <3>1. i \in 1..m - 1 /\ (i # 1 => i - 1 \in 1..m /\ i - 1 # m)
            BY <2>2
        <3>2. g[i] = IF i = 1 THEN w[i] ELSE g[i - 1] \o w[i]
            BY <3>1 DEF Joins
        <3> QED
            BY <2>2, <3>1, <3>2
    <2> QED
        BY <2>1, <2>2
<1>2. h = [i \in 1..m |-> h[i]]
    OBVIOUS
<1> HIDE DEF h
<1>3. h = [i \in 1..m |-> IF i = 1 THEN w[i] ELSE h[i - 1] \o w[i]]
    BY <1>1, <1>2
<1> QED
    BY <1>3 DEF Joins

(* So all of them can be put together.                                     *)
LEMMA JoinExists ==
    ASSUME NEW w, NEW n \in Nat
    PROVE  \E g : Joins(g, w, n)
<1> DEFINE S == {k \in Nat : ~\E g : Joins(g, w, k)}
<1> SUFFICES ASSUME S # {} PROVE FALSE
    OBVIOUS
<1>1. PICK m \in S : \A y \in S : m <= y
    BY LeastOfNat
<1>2. Joins([i \in 1..0 |-> 0], w, 0)
    BY DEF Joins
<1>3. m # 0
    BY <1>1, <1>2
<1>4. m - 1 \in Nat /\ m - 1 \notin S
    BY <1>1, <1>3
<1>5. PICK g : Joins(g, w, m - 1)
    BY <1>4
<1>6. m \in Nat \ {0}
    BY <1>1, <1>3
<1> QED
    BY <1>1, <1>5, <1>6, JoinOneMore

(* FlattenSeq is the last of the joins.                                    *)
LEMMA FlattenJoins ==
    ASSUME NEW w, Len(w) \in Nat, Len(w) # 0
    PROVE  \E g : Joins(g, w, Len(w)) /\ FlattenSeq(w) = g[Len(w)]
<1> DEFINE f == CHOOSE g : g = [i \in 1..Len(w) |-> IF i = 1 THEN w[i] ELSE g[i - 1] \o w[i]]
<1>1. FlattenSeq(w) = f[Len(w)]
    BY DEF FlattenSeq
<1>2. \E g : g = [i \in 1..Len(w) |-> IF i = 1 THEN w[i] ELSE g[i - 1] \o w[i]]
    BY JoinExists DEF Joins
<1>3. f = [i \in 1..Len(w) |-> IF i = 1 THEN w[i] ELSE f[i - 1] \o w[i]]
    BY <1>2, Zenon
<1> QED
    BY <1>1, <1>3 DEF Joins

(* The first i parts, put together, are in order and hold what they hold.  *)
JoinedWell(x, w, i) ==
    /\ x \in Seq(Nat)
    /\ Increasing(x)
    /\ Elems(x) = UNION {Elems(w[c]) : c \in 1..i}

(* Parts in order, each older than the next.                               *)
Parts(w) ==
    /\ w \in Seq(Seq(Nat))
    /\ \A c \in DOMAIN w : Increasing(w[c])
    /\ \A c, d \in DOMAIN w : c < d => Below(Elems(w[c]), Elems(w[d]))

(* One more part keeps the order.                                          *)
LEMMA JoinKeepsOrder ==
    ASSUME NEW w, Parts(w), NEW i \in DOMAIN w, i # 1, NEW x, JoinedWell(x, w, i - 1)
    PROVE  JoinedWell(x \o w[i], w, i)
<1>1. Len(w) \in Nat /\ DOMAIN w = 1..Len(w) /\ w[i] \in Seq(Nat) /\ Increasing(w[i])
    BY DEF Parts
<1>2. Below(Elems(x), Elems(w[i]))
    <2> SUFFICES ASSUME NEW a \in Elems(x), NEW b \in Elems(w[i]) PROVE a < b
        BY DEF Below
    <2>1. PICK c \in 1..i - 1 : a \in Elems(w[c])
        BY DEF JoinedWell
    <2>2. c \in DOMAIN w /\ c < i
        BY <1>1
    <2> QED
        BY <2>1, <2>2 DEF Parts, Below
<1>3. x \in Seq(Nat) /\ Increasing(x) /\ Elems(x) = UNION {Elems(w[c]) : c \in 1..i - 1}
    BY DEF JoinedWell
<1>4. x \o w[i] \in Seq(Nat) /\ Increasing(x \o w[i]) /\ Elems(x \o w[i]) = Elems(x) \cup Elems(w[i])
    BY <1>1, <1>2, <1>3, IncreasingConcat
<1>5. UNION {Elems(w[c]) : c \in 1..i} = (UNION {Elems(w[c]) : c \in 1..i - 1}) \cup Elems(w[i])
    <2>1. \A c : c \in 1..i <=> c \in 1..i - 1 \/ c = i
        BY <1>1
    <2> QED
        BY <2>1
<1> QED
    BY <1>3, <1>4, <1>5 DEF JoinedWell

(* Parts in order, put together, are in order.                             *)
LEMMA FlattenInOrder ==
    ASSUME NEW w, Parts(w), Len(w) # 0
    PROVE  JoinedWell(FlattenSeq(w), w, Len(w))
<1>1. Len(w) \in Nat /\ DOMAIN w = 1..Len(w) /\ w[1] \in Seq(Nat) /\ Increasing(w[1])
    BY DEF Parts
<1>2. PICK g : Joins(g, w, Len(w)) /\ FlattenSeq(w) = g[Len(w)]
    BY <1>1, FlattenJoins
<1>3. \A i \in 1..Len(w) : g[i] = IF i = 1 THEN w[i] ELSE g[i - 1] \o w[i]
    BY <1>2 DEF Joins
<1> DEFINE S == {i \in 1..Len(w) : ~JoinedWell(g[i], w, i)}
<1>4. CASE S = {}
    BY <1>1, <1>2, <1>4
<1>5. CASE S # {}
    <2>1. S \subseteq Nat
        BY <1>1
    <2>2. PICK m \in S : \A y \in S : m <= y
        BY <1>5, <2>1, LeastOfNat
    <2>3. m # 1
        <3>1. g[1] = w[1]
            BY <1>1, <1>3
        <3>2. UNION {Elems(w[c]) : c \in 1..1} = Elems(w[1])
            <4>1. \A c : c \in 1..1 <=> c = 1
                OBVIOUS
            <4> QED
                BY <4>1
        <3>3. JoinedWell(g[1], w, 1)
            BY <1>1, <3>1, <3>2 DEF JoinedWell
        <3> QED
            BY <2>2, <3>3
    <2>4. m - 1 \in 1..Len(w) /\ m - 1 \notin S
        BY <1>1, <2>2, <2>3
    <2>5. JoinedWell(g[m - 1], w, m - 1)
        BY <2>4
    <2>6. JoinedWell(g[m - 1] \o w[m], w, m)
        BY <1>1, <2>2, <2>3, <2>5, JoinKeepsOrder
    <2>7. g[m] = g[m - 1] \o w[m]
        BY <1>3, <2>2, <2>3
    <2> QED
        BY <2>2, <2>6, <2>7
<1> QED
    BY <1>4, <1>5

(* The events of the whole records of a stream.                            *)
LEMMA CompleteIsWhole ==
    ASSUME NEW s \in Seq(Nat), Framed(s)
    PROVE  /\ Complete(s) \in Seq(Nat)
           /\ Increasing(Complete(s))
           /\ Elems(Complete(s)) = Whole(s)
<1> DEFINE n == Len(s) \div 2
           x == Complete(s)
<1>1. Len(s) \in Nat /\ DOMAIN s = 1..Len(s) /\ n \in Nat /\ 2 * n <= Len(s) /\ Len(s) <= 2 * n + 1
    OBVIOUS
<1>2. x = [j \in 1..n |-> s[2 * j - 1]]
    BY DEF Complete
<1> HIDE DEF n, x
<1>3. \A j \in 1..n : 2 * j - 1 \in DOMAIN s /\ 2 * j \in DOMAIN s /\ (2 * j - 1) % 2 = 1
    BY <1>1
<1>4. x \in Seq(Nat) /\ DOMAIN x = 1..n /\ Len(x) = n
    BY <1>1, <1>2, <1>3, SMTT(30)
<1>5. Increasing(x)
    <2> SUFFICES ASSUME NEW j \in DOMAIN x, j + 1 \in DOMAIN x PROVE x[j] < x[j + 1]
        BY <1>4, NeighboursInOrder
    <2> DEFINE i == 2 * (j + 1) - 1
    <2>1. i \in DOMAIN s /\ i % 2 = 1
        BY <1>3, <1>4
    <2>a. j \in Nat /\ j >= 1
        BY <1>4
    <2>2. i > 2 /\ i - 2 = 2 * j - 1
        BY <2>a
    <2>3. s[i - 2] < s[i]
        BY <2>1, <2>2 DEF Framed
    <2> QED
        BY <1>2, <1>4, <2>2, <2>3
<1>6. ASSUME NEW e \in Elems(x) PROVE e \in Whole(s)
    <2>1. PICK j \in 1..n : e = s[2 * j - 1]
        BY <1>2, <1>4 DEF Elems
    <2>2. (2 * j - 1) + 1 = 2 * j
        BY <1>1
    <2> QED
        BY <1>3, <2>1, <2>2 DEF Whole
<1>7. ASSUME NEW e \in Whole(s) PROVE e \in Elems(x)
    <2>1. PICK i \in DOMAIN s : i % 2 = 1 /\ i + 1 \in DOMAIN s /\ e = s[i]
        BY DEF Whole
    <2>a. i \in Nat /\ i >= 1 /\ i + 1 <= Len(s)
        BY <1>1, <2>1
    <2> DEFINE k == i \div 2
               j == k + 1
    <2>b. k \in Nat /\ 2 * k <= i /\ i <= 2 * k + 1
        BY <2>a
    <2> HIDE DEF k
    <2>d. i # 2 * k
        BY <2>1, <2>b
    <2>c. j \in Nat /\ 2 * j = i + 1
        BY <2>a, <2>b, <2>d
    <2> HIDE DEF j
    <2>2. j \in 1..n /\ 2 * j - 1 = i
        BY <1>1, <2>a, <2>c
    <2> QED
        BY <1>2, <1>4, <2>1, <2>2 DEF Elems
<1> QED
    BY <1>4, <1>5, <1>6, <1>7 DEF x

(* Counters.Written of a network output and what its peers are sent agree, *)
(* record by record: the log is the whole records of the connections, in   *)
(* the order of the connections.                                           *)
THEOREM LogIsTheWire == NetSpec => []WireMatchesLog
<1>1. ASSUME PipelineInv, NetInv PROVE WireMatchesLog
    <2> SUFFICES ASSUME NEW o \in Outputs, network[o] # "none"
                 PROVE  written[o] = FlattenSeq([c \in DOMAIN wire[o] |-> Complete(wire[o][c])])
        BY DEF WireMatchesLog
    <2> DEFINE w == wire[o]
               x == [c \in DOMAIN w |-> Complete(w[c])]
               L == written[o]
    <2>1. L \in Seq(Nat) /\ Increasing(L)
        <3>1. Sorted(Stages(o)) /\ Stages(o)[1] = L
            BY <1>1 DEF PipelineInv, FlowInv, Stages
        <3> QED
            BY <3>1 DEF Sorted
    <2>2. Wired(w, conn[o], sent[o], inHand[o][1], Elems(L))
        BY <1>1 DEF NetInv, SinkInv, Logged
    <2> HIDE DEF w, L
    <2>3. w \in Seq(Seq(Nat)) /\ (\A c \in DOMAIN w : Framed(w[c])) /\ Successive(w) /\ Elems(L) = AllWhole(w)
        BY <2>2 DEF Wired
    <2>4. Len(w) \in Nat /\ DOMAIN w = 1..Len(w) /\ \A c \in DOMAIN w : w[c] \in Seq(Nat)
        BY <2>3
    <2>5. ASSUME NEW c \in DOMAIN w
          PROVE  x[c] \in Seq(Nat) /\ Increasing(x[c]) /\ Elems(x[c]) = Whole(w[c])
        BY <2>3, <2>4, CompleteIsWhole
    <2>6. x \in Seq(Seq(Nat)) /\ DOMAIN x = DOMAIN w /\ Len(x) = Len(w)
        BY <2>4, <2>5
    <2> HIDE DEF x
    <2>7. Parts(x)
        BY <2>3, <2>5, <2>6 DEF Parts, Successive
    <2>8. FlattenSeq(x) \in Seq(Nat) /\ Increasing(FlattenSeq(x)) /\ Elems(FlattenSeq(x)) = Elems(L)
        <3>1. CASE Len(x) = 0
            <4>1. FlattenSeq(x) = x /\ x = <<>>
                BY <2>6, <3>1 DEF FlattenSeq
            <4>2. AllWhole(w) = {}
                BY <2>4, <2>6, <3>1 DEF AllWhole
            <4> QED
                BY <2>3, <4>1, <4>2 DEF Elems, Increasing
        <3>2. CASE Len(x) # 0
            <4>1. JoinedWell(FlattenSeq(x), x, Len(x))
                BY <2>7, <3>2, FlattenInOrder
            <4>2. UNION {Elems(x[c]) : c \in 1..Len(x)} = AllWhole(w)
                BY <2>4, <2>5, <2>6 DEF AllWhole
            <4> QED
                BY <2>3, <4>1, <4>2 DEF JoinedWell
        <3> QED
            BY <3>1, <3>2
    <2>9. L = FlattenSeq(x)
        BY <2>1, <2>8, OneOrder
    <2> QED
        BY <2>9 DEF L, x, w
<1>2. NetSpec => []PipelineInv
    BY NetImplementsPipeline, PipelineInvariant, PTL
<1> QED
    BY <1>1, <1>2, NetInvariant, PTL
=============================================================================
