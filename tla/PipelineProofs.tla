--------------------------- MODULE PipelineProofs ---------------------------
(***************************************************************************)
(* The pipeline of app.go and output.go, proved for any number of outputs, *)
(* any capacities and any number of events: types, the accounting of every *)
(* event, first in first out, the health of the outputs, and that the      *)
(* pipeline implements AuditLog.                                           *)
(***************************************************************************)
EXTENDS Pipeline, FiniteSetTheorems, TLAPS

-----------------------------------------------------------------------------
(* Facts about increasing sequences of events.                             *)

Increasing(s) == \A i, j \in DOMAIN s : i < j => s[i] < s[j]

Below(S, T) == \A x \in S, y \in T : x < y

(* Sequences of events hold events.                                        *)
LEMMA ElemsOfNat == ASSUME NEW s \in Seq(Nat) PROVE Elems(s) \subseteq Nat
BY DEF Elems

(* An empty channel holds none.                                            *)
LEMMA ElemsEmpty == Elems(<<>>) = {}
BY DEF Elems

(* A goroutine with one event in hand holds that one.                      *)
LEMMA ElemsSingle == ASSUME NEW e PROVE Elems(<<e>>) = {e}
BY DEF Elems

(* A send to a channel adds its event.                                     *)
LEMMA ElemsAppend ==
    ASSUME NEW s \in Seq(Nat), NEW e \in Nat
    PROVE  Elems(Append(s, e)) = Elems(s) \cup {e}
<1>1. ASSUME NEW x \in Elems(Append(s, e)) PROVE x \in Elems(s) \cup {e}
    BY <1>1 DEF Elems
<1>2. ASSUME NEW x \in Elems(s) PROVE x \in Elems(Append(s, e))
    <2>1. PICK i \in DOMAIN s : s[i] = x
        BY <1>2 DEF Elems
    <2>2. i \in DOMAIN Append(s, e) /\ Append(s, e)[i] = x
        BY <2>1
    <2> QED
        BY <2>2 DEF Elems
<1>3. e \in Elems(Append(s, e))
    <2>1. Len(s) + 1 \in DOMAIN Append(s, e) /\ Append(s, e)[Len(s) + 1] = e
        OBVIOUS
    <2> QED
        BY <2>1 DEF Elems
<1> QED
    BY <1>1, <1>2, <1>3

(* What a receive yields was in the channel.                               *)
LEMMA HeadIsElem == ASSUME NEW s \in Seq(Nat), s # <<>> PROVE Head(s) \in Elems(s)
BY DEF Elems

(* Taking the first element of an increasing sequence takes the smallest.  *)
LEMMA ElemsTail ==
    ASSUME NEW s \in Seq(Nat), s # <<>>, Increasing(s)
    PROVE  /\ Elems(Tail(s)) = Elems(s) \ {Head(s)}
           /\ Below({Head(s)}, Elems(Tail(s)))
           /\ Increasing(Tail(s))
<1>1. ASSUME NEW x \in Elems(Tail(s)) PROVE x \in Elems(s) /\ Head(s) < x
    <2>1. PICK i \in DOMAIN Tail(s) : Tail(s)[i] = x
        BY <1>1 DEF Elems
    <2>2. i + 1 \in DOMAIN s /\ s[i + 1] = x /\ 1 \in DOMAIN s /\ 1 < i + 1 /\ Head(s) = s[1]
        BY <2>1
    <2> QED
        BY <2>2 DEF Elems, Increasing
<1>2. ASSUME NEW x \in Elems(s), x # Head(s) PROVE x \in Elems(Tail(s))
    <2>1. PICK i \in DOMAIN s : s[i] = x
        BY <1>2 DEF Elems
    <2>2. i - 1 \in DOMAIN Tail(s) /\ Tail(s)[i - 1] = x
        BY <1>2, <2>1
    <2> QED
        BY <2>2 DEF Elems
<1>3. Head(s) \in Nat
    OBVIOUS
<1>4. Increasing(Tail(s))
    BY DEF Increasing
<1> QED
    BY <1>1, <1>2, <1>3, <1>4, ElemsOfNat DEF Below

(* A newer event may be sent to a channel in order.                        *)
LEMMA IncreasingAppend ==
    ASSUME NEW s \in Seq(Nat), NEW e \in Nat, Increasing(s), Below(Elems(s), {e})
    PROVE  Increasing(Append(s, e))
<1>1. \A i \in DOMAIN s : s[i] < e
    BY DEF Below, Elems
<1> QED
    BY <1>1 DEF Increasing

(* Two parts in order, the first older than the second, are in order.      *)
LEMMA IncreasingConcat ==
    ASSUME NEW s \in Seq(Nat), NEW t \in Seq(Nat),
           Increasing(s), Increasing(t), Below(Elems(s), Elems(t))
    PROVE  /\ s \o t \in Seq(Nat)
           /\ Increasing(s \o t)
           /\ Elems(s \o t) = Elems(s) \cup Elems(t)
<1>1. \A i \in DOMAIN s, j \in DOMAIN t : s[i] < t[j]
    BY DEF Below, Elems
<1>2. Increasing(s \o t)
    BY <1>1, SMTT(30) DEF Increasing
<1>3. ASSUME NEW x \in Elems(s \o t) PROVE x \in Elems(s) \cup Elems(t)
    BY <1>3 DEF Elems
<1>4. ASSUME NEW x \in Elems(s) PROVE x \in Elems(s \o t)
    <2>1. PICK i \in DOMAIN s : s[i] = x
        BY <1>4 DEF Elems
    <2>2. i \in DOMAIN (s \o t) /\ (s \o t)[i] = x
        BY <2>1
    <2> QED
        BY <2>2 DEF Elems
<1>5. ASSUME NEW x \in Elems(t) PROVE x \in Elems(s \o t)
    <2>1. PICK i \in DOMAIN t : t[i] = x
        BY <1>5 DEF Elems
    <2>2. Len(s) + i \in DOMAIN (s \o t) /\ (s \o t)[Len(s) + i] = x
        BY <2>1
    <2> QED
        BY <2>2 DEF Elems
<1> QED
    BY <1>2, <1>3, <1>4, <1>5

-----------------------------------------------------------------------------
(* What the program counters say of the events in hand.                    *)
PipelineShape ==
    /\ prodPc = "send" => produced > 0
    /\ dispPc = "fan" <=> held # <<>>
    /\ dispPc # "fan" => dispPos = 1
    /\ \A o \in Outputs : consPc[o] \in {"write", "drainWrite"} <=> inHand[o] # <<>>

TypeInv == TypeOK /\ PipelineShape

(* The state in which app.Run starts its goroutines has the types.         *)
LEMMA TypeInvInit == Init => TypeInv
<1> SUFFICES ASSUME Init PROVE TypeInv
    OBVIOUS
<1>1. ConsumerTypeOK
    <2>1. <<>> \in Seq(Nat) /\ Len(<<>>) = 0
        OBVIOUS
    <2> QED
        BY <2>1, QueueCapAssumption DEF Init, ConsumerInit, ConsumerTypeOK
<1>2. <<>> \in Seq(1..MaxEvents) /\ Len(<<>>) = 0 /\ 1 \in 1..NumOutputs + 1
    BY OutputsAssumption
<1>3. enginePc \in {"select", "handle", "done"} /\ cancelled \in BOOLEAN
    BY DEF Init
<1>4. TypeOK
    BY <1>1, <1>2, <1>3, QueueCapAssumption, EventCapAssumption DEF Init, TypeOK
<1> QED
    BY <1>4 DEF Init, ConsumerInit, TypeInv, PipelineShape

(* The consumers' part of the types and of the shape is kept by whatever   *)
(* step a consumer takes.                                                  *)
LEMMA ConsumerTypeStep ==
    ASSUME TypeInv, NEW o \in Outputs, ConsumerLoop(o) \/ SinkReturns(o), UNCHANGED dropOnFull
    PROVE  /\ ConsumerTypeOK'
           /\ \A p \in Outputs : consPc'[p] \in {"write", "drainWrite"} <=> inHand'[p] # <<>>
<1> USE DEF TypeInv, TypeOK, PipelineShape, ConsumerTypeOK, health, history
<1>1. ASSUME NEW pc \in {"write", "drainWrite"}, TakeNext(o, pc)
      PROVE  /\ ConsumerTypeOK'
             /\ \A p \in Outputs : consPc'[p] \in {"write", "drainWrite"} <=> inHand'[p] # <<>>
    <2>1. Head(queue[o]) \in Nat /\ Tail(queue[o]) \in Seq(Nat) /\ Len(Tail(queue[o])) <= QueueCap
        BY <1>1, QueueCapAssumption DEF TakeNext
    <2>2. Len(<<Head(queue[o])>>) <= 1 /\ <<Head(queue[o])>> \in Seq(Nat) /\ <<Head(queue[o])>> # <<>>
        BY <2>1
    <2> QED
        BY <1>1, <2>1, <2>2 DEF TakeNext
<1>2. CASE ConsumerTake(o)
    BY <1>1, <1>2 DEF ConsumerTake
<1>3. CASE DrainTake(o)
    BY <1>1, <1>3 DEF DrainTake
<1>4. CASE ConsumerCtxDone(o) \/ DrainEmpty(o) \/ DrainDeadline(o)
    BY <1>4 DEF ConsumerCtxDone, DrainEmpty, DrainDeadline, CloseSink
<1>5. ASSUME NEW bad \in BOOLEAN, MarkFailing(o, bad)
      PROVE  /\ failing' \in [Outputs -> BOOLEAN]
             /\ failingOutputs' \subseteq {SinkName[p] : p \in Outputs}
    BY <1>5 DEF MarkFailing, SetOutputFailing
<1>6. CASE WriteOk(o)
    <2>1. written[o] \o inHand[o] \in Seq(Nat)
        OBVIOUS
    <2>2. <<>> \in Seq(Nat) /\ Len(<<>>) = 0
        OBVIOUS
    <2>3. /\ failing' \in [Outputs -> BOOLEAN]
          /\ failingOutputs' \subseteq {SinkName[p] : p \in Outputs}
        BY <1>5, <1>6 DEF WriteOk
    <2>4. consPc' \in [Outputs -> {"select", "write", "drain", "drainWrite", "closed"}]
        BY <1>6 DEF WriteOk
    <2>5. inHand' \in [Outputs -> Seq(Nat)] /\ \A p \in Outputs : Len(inHand'[p]) <= 1
        BY <1>6, <2>2 DEF WriteOk
    <2>6. \A p \in Outputs : consPc'[p] \in {"write", "drainWrite"} <=> inHand'[p] # <<>>
        BY <1>6 DEF WriteOk
    <2> QED
        BY <1>6, <2>1, <2>3, <2>4, <2>5, <2>6 DEF WriteOk
<1>7. CASE WriteFail(o)
    <2>1. Head(inHand[o]) \in Nat
        BY <1>7 DEF WriteFail
    <2>2. <<>> \in Seq(Nat) /\ Len(<<>>) = 0
        OBVIOUS
    <2>3. /\ failing' \in [Outputs -> BOOLEAN]
          /\ failingOutputs' \subseteq {SinkName[p] : p \in Outputs}
        BY <1>5, <1>7 DEF WriteFail
    <2>4. consPc' \in [Outputs -> {"select", "write", "drain", "drainWrite", "closed"}]
        BY <1>7 DEF WriteFail
    <2>5. inHand' \in [Outputs -> Seq(Nat)] /\ \A p \in Outputs : Len(inHand'[p]) <= 1
        BY <1>7, <2>2 DEF WriteFail
    <2>6. \A p \in Outputs : consPc'[p] \in {"write", "drainWrite"} <=> inHand'[p] # <<>>
        BY <1>7 DEF WriteFail
    <2> QED
        BY <1>7, <2>1, <2>3, <2>4, <2>5, <2>6, SMTT(30) DEF WriteFail
<1> QED
    BY <1>2, <1>3, <1>4, <1>6, <1>7 DEF ConsumerLoop, SinkReturns

(* Types and shape are kept by every step of the pipeline.                 *)
LEMMA TypeInvStep == TypeInv /\ [Next]_vars => TypeInv'
<1> SUFFICES ASSUME TypeInv, [Next]_vars
             PROVE  TypeInv'
    OBVIOUS
<1> USE OutputsAssumption, QueueCapAssumption, EventCapAssumption
<1> USE DEF TypeInv, PipelineShape, TypeOK, prodVars, dispVars, engineVars
<1>1. ASSUME UNCHANGED <<dropOnFull, outVars>>
      PROVE  /\ ConsumerTypeOK'
             /\ \A o \in Outputs : consPc'[o] \in {"write", "drainWrite"} <=> inHand'[o] # <<>>
    BY <1>1 DEF ConsumerTypeOK, outVars, health, history
<1>2. CASE Produce
    BY <1>1, <1>2 DEF Produce
<1>3. CASE Producer
    <2>1. CASE ProducerSend
        <3>1. produced \in 1..MaxEvents
            BY <2>1 DEF ProducerSend
        <3>2. events' \in Seq(1..MaxEvents) /\ Len(events') <= EventCap
            BY <2>1, <3>1 DEF ProducerSend
        <3> QED
            BY <1>1, <2>1, <3>2 DEF ProducerSend
    <2>2. CASE ProducerDrop \/ ProducerGiveUp
        <3>1. produced \in 1..MaxEvents
            BY <2>2 DEF ProducerDrop, ProducerGiveUp
        <3> QED
            BY <1>1, <2>2, <3>1 DEF ProducerDrop, ProducerGiveUp
    <2>3. CASE ProducerStop
        BY <1>1, <2>3 DEF ProducerStop
    <2> QED
        BY <1>3, <2>1, <2>2, <2>3 DEF Producer
<1>4. CASE Dispatcher
    <2>1. CASE DispatcherIgnore \/ DispatcherTake
        <3>1. Head(events) \in 1..MaxEvents /\ Tail(events) \in Seq(1..MaxEvents)
              /\ Len(Tail(events)) <= EventCap
            BY <2>1, SMTT(30) DEF DispatcherIgnore, DispatcherTake
        <3>2. <<Head(events)>> \in Seq(1..MaxEvents) /\ Len(<<Head(events)>>) = 1
              /\ <<Head(events)>> # <<>>
            BY <3>1
        <3>3. CASE DispatcherIgnore
            BY <1>1, <3>1, <3>3 DEF DispatcherIgnore
        <3>4. CASE DispatcherTake
            BY <1>1, <3>1, <3>2, <3>4 DEF DispatcherTake
        <3> QED
            BY <2>1, <3>3, <3>4
    <2>2. CASE DispatchOutput
        <3>1. Head(held) \in Nat
            BY <2>2 DEF DispatchOutput
        <3>2. PICK o \in Outputs : o = dispPos /\ Submit(o, Head(held))
            BY <2>2 DEF DispatchOutput
        <3>3. CASE SubmitAccepted(o, Head(held))
            <4>1. Append(queue[o], Head(held)) \in Seq(Nat)
                  /\ Len(Append(queue[o], Head(held))) <= QueueCap
                BY <3>1, <3>3 DEF SubmitAccepted, ConsumerTypeOK
            <4>2. ConsumerTypeOK'
                BY <2>2, <3>3, <4>1 DEF SubmitAccepted, DispatchOutput, ConsumerTypeOK, health, history
            <4> QED
                BY <2>2, <3>2, <3>3, <4>2 DEF SubmitAccepted, DispatchOutput, Outputs
        <3>4. CASE SubmitDropped(o, Head(held))
            <4>1. ConsumerTypeOK'
                BY <2>2, <3>1, <3>4 DEF SubmitDropped, DispatchOutput, ConsumerTypeOK, health, history
            <4> QED
                BY <2>2, <3>2, <3>4, <4>1 DEF SubmitDropped, DispatchOutput, Outputs
        <3> QED
            BY <3>2, <3>3, <3>4 DEF Submit
    <2>3. CASE DispatchAlert
        BY <1>1, <2>3 DEF DispatchAlert
    <2>4. CASE DispatcherStop
        BY <1>1, <2>4 DEF DispatcherStop
    <2> QED
        BY <1>4, <2>1, <2>2, <2>3, <2>4 DEF Dispatcher
<1>5. CASE Engine \/ EngineHandled
    <2>1. CASE EngineTake
        BY <1>1, <2>1 DEF EngineTake
    <2>2. CASE EngineStop \/ EngineHandled
        BY <1>1, <2>2 DEF EngineStop, EngineHandled
    <2> QED
        BY <1>5, <2>1, <2>2 DEF Engine
<1>6. CASE Shutdown
    <2>1. cancelled' \in BOOLEAN
        BY <1>6 DEF Shutdown
    <2> QED
        BY <1>1, <1>6, <2>1 DEF Shutdown
<1>7. CASE \E o \in Outputs : ConsumerStep(o) \/ SinkStep(o)
    <2>1. PICK o \in Outputs : ConsumerStep(o) \/ SinkStep(o)
        BY <1>7
    <2>2. (ConsumerLoop(o) \/ SinkReturns(o)) /\ Unmoved
        BY <2>1 DEF ConsumerStep, SinkStep
    <2> QED
        BY <2>2, ConsumerTypeStep DEF Unmoved
<1>8. CASE UNCHANGED vars
    BY <1>1, <1>8 DEF vars
<1> QED
    BY <1>2, <1>3, <1>4, <1>5, <1>6, <1>7, <1>8 DEF Next, LoopNext, Finished

-----------------------------------------------------------------------------
(* The way of an event to output o as a row of sequences, the oldest event *)
(* first: Line(o) before it is put together, and the last six of Places(o).*)
Stages(o) ==
    << written[o], inHand[o], queue[o],
       IF dispPos <= o THEN held ELSE <<>>,
       events,
       IF prodPc = "send" THEN <<produced>> ELSE <<>> >>

(* Within a stage and from stage to stage, events come in order.           *)
Sorted(S) ==
    /\ \A k \in 1..6 : S[k] \in Seq(Nat) /\ Increasing(S[k])
    /\ \A j, k \in 1..6 : j < k => Below(Elems(S[j]), Elems(S[k]))

(* Eleven places share the events 1..n out among them.                        *)
Partition(P, n) ==
    /\ \A k \in 1..11 : P[k] \subseteq 1..n
    /\ \A e \in 1..n : \E k \in 1..11 : e \in P[k]
    /\ \A j, k \in 1..11 : j # k => P[j] \cap P[k] = {}

(* Event e goes from place i to place j.                                   *)
Moves(P, Q, e, i, j) ==
    \A k \in 1..11 : Q[k] = IF k = i THEN P[k] \ {e} ELSE IF k = j THEN P[k] \cup {e} ELSE P[k]

FlowInv == \A o \in Outputs : Sorted(Stages(o)) /\ Partition(Places(o), produced)

PipelineInv == TypeInv /\ FlowInv

(* An event that goes from one place to another stays accounted for.       *)
LEMMA MoveKeepsPartition ==
    ASSUME NEW P, NEW Q, NEW n \in Nat, NEW e, NEW i \in 1..11, NEW j \in 1..11,
           Partition(P, n), i # j, e \in P[i], Moves(P, Q, e, i, j)
    PROVE  Partition(Q, n)
<1>1. e \in 1..n
    BY DEF Partition
<1>2. \A k \in 1..11 : Q[k] \subseteq 1..n
    BY <1>1 DEF Partition, Moves
<1>3. ASSUME NEW x \in 1..n PROVE \E k \in 1..11 : x \in Q[k]
    <2>1. PICK k \in 1..11 : x \in P[k]
        BY DEF Partition
    <2>2. CASE x = e
        BY <2>2 DEF Moves
    <2>3. CASE x # e
        BY <2>1, <2>3 DEF Moves
    <2> QED
        BY <2>2, <2>3
<1>4. ASSUME NEW k \in 1..11, NEW l \in 1..11, k # l, NEW x \in Q[k], x \in Q[l] PROVE FALSE
    <2>1. CASE x = e
        BY <1>4, <2>1 DEF Moves, Partition
    <2>2. CASE x # e
        BY <1>4, <2>2 DEF Moves, Partition
    <2> QED
        BY <2>1, <2>2
<1> QED
    BY <1>2, <1>3, <1>4 DEF Partition

(* The first event of stage j + 1 goes to the end of stage j.              *)
Advances(S, T, j) ==
    /\ S[j + 1] # <<>>
    /\ T[j] = Append(S[j], Head(S[j + 1]))
    /\ T[j + 1] = Tail(S[j + 1])
    /\ \A k \in 1..6 \ {j, j + 1} : T[k] = S[k]

HandsOver(S, T, j) ==
    /\ Head(S[j + 1]) \in Elems(S[j + 1])
    /\ Elems(T[j]) = Elems(S[j]) \cup {Head(S[j + 1])}
    /\ Elems(T[j + 1]) = Elems(S[j + 1]) \ {Head(S[j + 1])}

(* It overtakes nobody and is then in stage j only.                        *)
LEMMA AdvanceKeepsOrder ==
    ASSUME NEW S, NEW T, NEW j \in 1..5, Sorted(S), Advances(S, T, j)
    PROVE  Sorted(T) /\ HandsOver(S, T, j)
<1> DEFINE h == Head(S[j + 1])
<1> USE DEF Advances
<1>0. j \in 1..6 /\ j + 1 \in 1..6 /\ j < j + 1
    OBVIOUS
<1>1. /\ S[j] \in Seq(Nat) /\ S[j + 1] \in Seq(Nat) /\ h \in Nat /\ Tail(S[j + 1]) \in Seq(Nat)
      /\ Append(S[j], h) \in Seq(Nat)
      /\ Increasing(S[j]) /\ Increasing(S[j + 1]) /\ Below(Elems(S[j]), Elems(S[j + 1]))
    <2>1. /\ S[j] \in Seq(Nat) /\ S[j + 1] \in Seq(Nat)
          /\ Increasing(S[j]) /\ Increasing(S[j + 1]) /\ Below(Elems(S[j]), Elems(S[j + 1]))
        BY <1>0 DEF Sorted
    <2>2. h \in Nat /\ Tail(S[j + 1]) \in Seq(Nat)
        BY <2>1
    <2> QED
        BY <2>1, <2>2
<1>2. h \in Elems(S[j + 1])
    BY <1>1, HeadIsElem
<1>3. Elems(T[j]) = Elems(S[j]) \cup {h}
    BY <1>1, ElemsAppend
<1>4. /\ Elems(T[j + 1]) = Elems(S[j + 1]) \ {h}
      /\ Below({h}, Elems(T[j + 1]))
      /\ Increasing(T[j + 1])
    BY <1>1, ElemsTail
<1>5. Increasing(T[j])
    <2>1. Below(Elems(S[j]), {h})
        BY <1>1, <1>2 DEF Below
    <2> QED
        BY <1>1, <2>1, IncreasingAppend
<1>6. ASSUME NEW k \in 1..6 PROVE T[k] \in Seq(Nat) /\ Increasing(T[k])
    BY <1>1, <1>4, <1>5 DEF Sorted
<1>7. ASSUME NEW k \in 1..6, NEW l \in 1..6, k < l, NEW x \in Elems(T[k]), NEW y \in Elems(T[l])
      PROVE  x < y
    <2>1. x \in Elems(S[k]) \/ (k = j /\ x = h)
        BY <1>3, <1>4
    <2>2. (y \in Elems(S[l]) /\ (l = j + 1 => h < y)) \/ (l = j /\ y = h)
        <3>1. CASE l = j
            <4>1. y \in Elems(S[j]) \cup {h}
                BY <1>3, <1>7, <3>1, Zenon
            <4>2. l # j + 1
                BY <3>1
            <4> QED
                BY <3>1, <4>1, <4>2, Zenon
        <3>2. CASE l = j + 1
            BY <1>4, <3>2 DEF Below
        <3>3. CASE l \notin {j, j + 1}
            BY <3>3
        <3> QED
            BY <3>1, <3>2, <3>3
    <2>3. CASE x \in Elems(S[k]) /\ y \in Elems(S[l])
        BY <1>7, <2>3 DEF Sorted, Below
    <2>4. CASE k = j /\ x = h
        <3>1. y \in Elems(S[l]) /\ (l = j + 1 => h < y)
            BY <1>7, <2>2, <2>4
        <3>2. CASE l > j + 1
            <4>1. Below(Elems(S[j + 1]), Elems(S[l]))
                BY <1>0, <3>2 DEF Sorted
            <4> QED
                BY <1>2, <2>4, <3>1, <4>1 DEF Below
        <3> QED
            BY <1>7, <2>4, <3>1, <3>2
    <2>5. CASE x \in Elems(S[k]) /\ l = j /\ y = h
        <3>0. k < j + 1
            BY <1>7, <2>5
        <3>1. Below(Elems(S[k]), Elems(S[j + 1]))
            BY <1>0, <3>0 DEF Sorted
        <3> QED
            BY <1>2, <2>5, <3>1 DEF Below
    <2> QED
        BY <2>1, <2>2, <2>3, <2>4, <2>5
<1> QED
    BY <1>2, <1>3, <1>4, <1>6, <1>7 DEF Sorted, Below, HandsOver

(* The first event of stage j leaves the row.                              *)
Leaves(S, T, j) ==
    /\ S[j] # <<>>
    /\ T[j] = Tail(S[j])
    /\ \A k \in 1..6 \ {j} : T[k] = S[k]

GivesAway(S, T, j) ==
    /\ Head(S[j]) \in Elems(S[j])
    /\ Elems(T[j]) = Elems(S[j]) \ {Head(S[j])}

(* The others stay in order.                                               *)
LEMMA LeaveKeepsOrder ==
    ASSUME NEW S, NEW T, NEW j \in 1..6, Sorted(S), Leaves(S, T, j)
    PROVE  Sorted(T) /\ GivesAway(S, T, j)
<1> USE DEF Leaves
<1>1. S[j] \in Seq(Nat) /\ Increasing(S[j]) /\ Tail(S[j]) \in Seq(Nat)
    BY DEF Sorted
<1>2. Elems(T[j]) = Elems(S[j]) \ {Head(S[j])} /\ Increasing(T[j])
    BY <1>1, ElemsTail
<1>3. ASSUME NEW k \in 1..6 PROVE T[k] \in Seq(Nat) /\ Increasing(T[k]) /\ Elems(T[k]) \subseteq Elems(S[k])
    BY <1>1, <1>2 DEF Sorted
<1> QED
    BY <1>1, <1>2, <1>3, HeadIsElem DEF Sorted, Below, GivesAway

(* The last six places are the stages.                                     *)
StagesArePlaces == \A o \in Outputs : \A k \in 1..6 : Places(o)[k + 5] = Elems(Stages(o)[k])

(* This is so in every state.                                              *)
LEMMA StagePlaces == StagesArePlaces
<1> SUFFICES ASSUME NEW o \in Outputs, NEW k \in 1..6
             PROVE  Places(o)[k + 5] = Elems(Stages(o)[k])
    BY DEF StagesArePlaces
<1>1. CASE k = 1
    BY <1>1 DEF Places, Stages
<1>2. CASE k = 2
    BY <1>2 DEF Places, Stages
<1>3. CASE k = 3
    BY <1>3 DEF Places, Stages
<1>4. CASE k = 4
    BY <1>4, ElemsEmpty DEF Places, Stages
<1>5. CASE k = 5
    BY <1>5 DEF Places, Stages
<1>6. CASE k = 6
    <2>1. Elems(IF prodPc = "send" THEN <<produced>> ELSE <<>>) = IF prodPc = "send" THEN {produced} ELSE {}
        BY ElemsEmpty, ElemsSingle
    <2> QED
        BY <1>6, <2>1 DEF Places, Stages
<1> QED
    BY <1>1, <1>2, <1>3, <1>4, <1>5, <1>6

(* What a step means for an output with the row S and the places P, which  *)
(* become T and Q: nothing, an event goes on to the next stage, an event   *)
(* leaves the row for place c, or event m enters.                        *)
Idles(S, T, P, Q, n, m) ==
    /\ \A k \in 1..6 : T[k] = S[k]
    /\ \A k \in 1..5 : Q[k] = P[k]
    /\ m = n

GoesOn(S, T, P, Q, n, m) ==
    /\ \E j \in 1..5 : Advances(S, T, j)
    /\ \A k \in 1..5 : Q[k] = P[k]
    /\ m = n

GoesOut(S, T, P, Q, n, m) ==
    /\ \E j \in 1..6, c \in 1..5 :
        /\ Leaves(S, T, j)
        /\ Q[c] = P[c] \cup {Head(S[j])}
        /\ \A k \in 1..5 \ {c} : Q[k] = P[k]
    /\ m = n

Enters(S, T, P, Q, n, m) ==
    /\ S[6] = <<>> /\ T[6] = <<m>>
    /\ \A k \in 1..5 : T[k] = S[k]
    /\ \A k \in 1..5 : Q[k] = P[k]
    /\ m = n + 1

Flows(S, T, P, Q, n, m) ==
    \/ Idles(S, T, P, Q, n, m)
    \/ GoesOn(S, T, P, Q, n, m)
    \/ GoesOut(S, T, P, Q, n, m)
    \/ Enters(S, T, P, Q, n, m)

(* Each of these keeps the order and the accounting.                       *)
LEMMA FlowKeepsInv ==
    ASSUME NEW S, NEW T, NEW P, NEW Q, NEW n \in Nat, NEW m,
           \A k \in 1..6 : P[k + 5] = Elems(S[k]),
           \A k \in 1..6 : Q[k + 5] = Elems(T[k]),
           Sorted(S), Partition(P, n), Flows(S, T, P, Q, n, m)
    PROVE  Sorted(T) /\ Partition(Q, m)
<1>3. CASE Idles(S, T, P, Q, n, m)
    <2>1. ASSUME NEW k \in 1..11 PROVE Q[k] = P[k]
        <3>1. CASE k \in 1..5
            BY <1>3, <3>1 DEF Idles
        <3>2. CASE k \in 6..11
            <4>1. k - 5 \in 1..6 /\ k = (k - 5) + 5
                BY <3>2
            <4> QED
                BY <1>3, <4>1 DEF Idles
        <3> QED
            BY <3>1, <3>2
    <2> QED
        BY <1>3, <2>1 DEF Idles, Sorted, Partition
<1>4. CASE GoesOn(S, T, P, Q, n, m)
    <2>0. PICK j \in 1..5 : Advances(S, T, j)
        BY <1>4 DEF GoesOn
    <2> DEFINE h == Head(S[j + 1])
    <2>1. /\ Sorted(T)
          /\ h \in Elems(S[j + 1])
          /\ Elems(T[j]) = Elems(S[j]) \cup {h}
          /\ Elems(T[j + 1]) = Elems(S[j + 1]) \ {h}
        <3>1. Sorted(T) /\ HandsOver(S, T, j)
            BY <2>0, AdvanceKeepsOrder
        <3> QED
            BY <3>1 DEF HandsOver
    <2>2. Moves(P, Q, h, j + 6, j + 5)
        <3> SUFFICES ASSUME NEW k \in 1..11
                     PROVE  Q[k] = IF k = j + 6 THEN P[k] \ {h}
                                            ELSE IF k = j + 5 THEN P[k] \cup {h}
                                            ELSE P[k]
            BY DEF Moves
        <3>1. CASE k \in 1..5
            BY <1>4, <3>1 DEF GoesOn
        <3>2. CASE k \in 6..11
            <4>1. PICK l \in 1..6 : k = l + 5
                <5>1. k - 5 \in 1..6 /\ k = (k - 5) + 5
                    BY <3>2
                <5> QED
                    BY <5>1
            <4>2. P[k] = Elems(S[l]) /\ Q[k] = Elems(T[l])
                BY <4>1
            <4>3. CASE l = j
                BY <2>1, <4>1, <4>2, <4>3
            <4>4. CASE l = j + 1
                BY <2>1, <4>1, <4>2, <4>4
            <4>5. CASE l \notin {j, j + 1}
                BY <2>0, <4>1, <4>2, <4>5 DEF Advances
            <4> QED
                BY <4>3, <4>4, <4>5
        <3> QED
            BY <3>1, <3>2
    <2>3. h \in P[j + 6]
        <3>1. j + 1 \in 1..6 /\ (j + 1) + 5 = j + 6
            OBVIOUS
        <3> QED
            BY <2>1, <3>1
    <2>4. Partition(Q, n)
        <3>1. j + 6 \in 1..11 /\ j + 5 \in 1..11 /\ j + 6 # j + 5
            OBVIOUS
        <3> HIDE DEF h
        <3> QED
            BY <2>2, <2>3, <3>1, MoveKeepsPartition
    <2> QED
        BY <1>4, <2>1, <2>4 DEF GoesOn
<1>5. CASE GoesOut(S, T, P, Q, n, m)
    <2>0. PICK j \in 1..6, c \in 1..5 :
            /\ Leaves(S, T, j)
            /\ Q[c] = P[c] \cup {Head(S[j])}
            /\ \A k \in 1..5 \ {c} : Q[k] = P[k]
        BY <1>5 DEF GoesOut
    <2> DEFINE h == Head(S[j])
    <2>1. /\ Sorted(T)
          /\ h \in Elems(S[j])
          /\ Elems(T[j]) = Elems(S[j]) \ {h}
        <3>1. Sorted(T) /\ GivesAway(S, T, j)
            BY <2>0, LeaveKeepsOrder
        <3> QED
            BY <3>1 DEF GivesAway
    <2>2. Moves(P, Q, h, j + 5, c)
        <3> SUFFICES ASSUME NEW k \in 1..11
                     PROVE  Q[k] = IF k = j + 5 THEN P[k] \ {h}
                                            ELSE IF k = c THEN P[k] \cup {h}
                                            ELSE P[k]
            BY DEF Moves
        <3>1. CASE k \in 1..5
            BY <2>0, <3>1
        <3>2. CASE k \in 6..11
            <4>1. PICK l \in 1..6 : k = l + 5
                <5>1. k - 5 \in 1..6 /\ k = (k - 5) + 5
                    BY <3>2
                <5> QED
                    BY <5>1
            <4>2. P[k] = Elems(S[l]) /\ Q[k] = Elems(T[l])
                BY <4>1
            <4>3. CASE l = j
                BY <2>1, <4>1, <4>2, <4>3
            <4>4. CASE l # j
                BY <2>0, <4>1, <4>2, <4>4 DEF Leaves
            <4> QED
                BY <4>3, <4>4
        <3> QED
            BY <3>1, <3>2
    <2>3. h \in P[j + 5]
        BY <2>1
    <2>4. Partition(Q, n)
        <3>1. j + 5 \in 1..11 /\ c \in 1..11 /\ j + 5 # c
            OBVIOUS
        <3> HIDE DEF h
        <3> QED
            BY <2>2, <2>3, <3>1, MoveKeepsPartition
    <2> QED
        BY <1>5, <2>1, <2>4 DEF GoesOut
<1>6. CASE Enters(S, T, P, Q, n, m)
    <2>1. \A k \in 1..10 : Q[k] = P[k]
        <3> SUFFICES ASSUME NEW k \in 1..10
                     PROVE  Q[k] = P[k]
            OBVIOUS
        <3>1. CASE k \in 1..5
            BY <1>6, <3>1 DEF Enters
        <3>2. CASE k \in 6..10
            <4>1. k - 5 \in 1..5 /\ k - 5 \in 1..6 /\ k = (k - 5) + 5
                BY <3>2
            <4> QED
                BY <1>6, <4>1 DEF Enters
        <3> QED
            BY <3>1, <3>2
    <2>2. Q[11] = {m} /\ P[11] = {}
        <3>1. 6 \in 1..6 /\ 6 + 5 = 11
            OBVIOUS
        <3> QED
            BY <1>6, <3>1, ElemsEmpty, ElemsSingle DEF Enters
    <2>3. \A k \in 1..10 : P[k] \subseteq 1..n
        BY DEF Partition
    <2>4. Partition(Q, m)
        <3>1. \A k \in 1..11 : Q[k] \subseteq 1..m
            BY <1>6, <2>1, <2>2, <2>3 DEF Enters
        <3>2. ASSUME NEW e \in 1..m PROVE \E k \in 1..11 : e \in Q[k]
            <4>1. CASE e = m
                BY <2>2, <4>1
            <4>2. CASE e # m
                <5>1. e \in 1..n
                    BY <1>6, <4>2 DEF Enters
                <5>2. PICK k \in 1..11 : e \in P[k]
                    BY <5>1 DEF Partition
                <5>3. k \in 1..10
                    BY <2>2, <5>2
                <5> QED
                    BY <2>1, <5>2, <5>3
            <4> QED
                BY <4>1, <4>2
        <3>3. ASSUME NEW k \in 1..11, NEW l \in 1..11, k # l, NEW x \in Q[k], x \in Q[l]
              PROVE  FALSE
            <4>1. CASE k \in 1..10 /\ l \in 1..10
                BY <2>1, <3>3, <4>1 DEF Partition
            <4>2. CASE k = 11 \/ l = 11
                BY <1>6, <2>1, <2>2, <2>3, <3>3, <4>2, SMTT(30) DEF Enters
            <4> QED
                BY <4>1, <4>2
        <3> QED
            BY <3>1, <3>2, <3>3 DEF Partition
    <2>5. Sorted(T)
        <3>1. \A k \in 1..5 : Elems(S[k]) \subseteq 1..n
            <4> SUFFICES ASSUME NEW k \in 1..5 PROVE Elems(S[k]) \subseteq 1..n
                OBVIOUS
            <4>1. k + 5 \in 1..10 /\ k \in 1..6
                OBVIOUS
            <4> QED
                BY <2>3, <4>1
        <3>2. <<m>> \in Seq(Nat) /\ Increasing(<<m>>)
            BY <1>6 DEF Enters, Increasing
        <3>3. \A k \in 1..6 : T[k] \in Seq(Nat) /\ Increasing(T[k])
            <4> SUFFICES ASSUME NEW k \in 1..6
                         PROVE  T[k] \in Seq(Nat) /\ Increasing(T[k])
                OBVIOUS
            <4>1. CASE k \in 1..5
                BY <1>6, <4>1 DEF Enters, Sorted
            <4>2. CASE k = 6
                BY <1>6, <3>2, <4>2 DEF Enters
            <4> QED
                BY <4>1, <4>2
        <3>4. ASSUME NEW k \in 1..6, NEW l \in 1..6, k < l
              PROVE  Below(Elems(T[k]), Elems(T[l]))
            <4>1. k \in 1..5 /\ T[k] = S[k]
                BY <1>6, <3>4 DEF Enters
            <4>2. CASE l \in 1..5
                BY <1>6, <3>4, <4>1, <4>2 DEF Enters, Sorted
            <4>3. CASE l = 6
                <5>1. Elems(T[l]) = {m}
                    BY <1>6, <4>3, ElemsSingle DEF Enters
                <5>2. Elems(T[k]) \subseteq 1..n
                    BY <3>1, <4>1
                <5> QED
                    BY <1>6, <5>1, <5>2 DEF Below, Enters
            <4> QED
                BY <4>2, <4>3
        <3> QED
            BY <3>3, <3>4 DEF Sorted
    <2> QED
        BY <1>6, <2>4, <2>5 DEF Enters
<1> QED
    BY <1>3, <1>4, <1>5, <1>6 DEF Flows

-----------------------------------------------------------------------------
StepFlows(o) == Flows(Stages(o), Stages(o)', Places(o), Places(o)', produced, produced')

(* Nothing that output o can see has changed.                              *)
UnmovedFor(o) ==
    /\ written'[o] = written[o] /\ inHand'[o] = inHand[o] /\ queue'[o] = queue[o]
    /\ errored'[o] = errored[o] /\ dropped'[o] = dropped[o]
    /\ (IF dispPos <= o THEN held ELSE <<>>)' = (IF dispPos <= o THEN held ELSE <<>>)
    /\ (IF prodPc = "send" THEN <<produced>> ELSE <<>>)' = (IF prodPc = "send" THEN <<produced>> ELSE <<>>)
    /\ UNCHANGED <<events, monDropped, abandoned, ignored, produced>>

(* Then the row stays as it is.                                            *)
LEMMA UnmovedIdles == ASSUME NEW o \in Outputs, UnmovedFor(o) PROVE StepFlows(o)
BY DEF UnmovedFor, StepFlows, Flows, Idles, Stages, Places

(* What the monitor goroutine does.                                        *)
LEMMA ProducerFlows ==
    ASSUME TypeInv, Produce \/ Producer, NEW o \in Outputs
    PROVE  StepFlows(o)
<1> USE DEF prodVars, dispVars, outVars, history, Stages, Places
<1>1. CASE Produce
    <2>1. Enters(Stages(o), Stages(o)', Places(o), Places(o)', produced, produced')
        BY <1>1 DEF Produce, Enters
    <2> QED
        BY <2>1 DEF StepFlows, Flows
<1>2. CASE ProducerSend
    <2>1. Head(<<produced>>) = produced /\ Tail(<<produced>>) = <<>>
        OBVIOUS
    <2>2. Advances(Stages(o), Stages(o)', 5)
        BY <1>2, <2>1 DEF ProducerSend, Advances
    <2>3. GoesOn(Stages(o), Stages(o)', Places(o), Places(o)', produced, produced')
        BY <1>2, <2>2 DEF ProducerSend, GoesOn
    <2> QED
        BY <2>3 DEF StepFlows, Flows
<1>3. CASE ProducerDrop \/ ProducerGiveUp
    <2>1. Head(<<produced>>) = produced /\ Tail(<<produced>>) = <<>>
        OBVIOUS
    <2>2. Leaves(Stages(o), Stages(o)', 6) /\ Head(Stages(o)[6]) = produced
        BY <1>3, <2>1 DEF ProducerDrop, ProducerGiveUp, Leaves
    <2>3. PICK c \in {1, 5} :
            /\ Places(o)'[c] = Places(o)[c] \cup {produced}
            /\ \A k \in 1..5 \ {c} : Places(o)'[k] = Places(o)[k]
        <3>1. CASE ProducerDrop
            <4>1. Places(o)'[1] = Places(o)[1] \cup {produced} /\ \A k \in 1..5 \ {1} : Places(o)'[k] = Places(o)[k]
                BY <3>1 DEF ProducerDrop
            <4> QED
                BY <4>1
        <3>2. CASE ProducerGiveUp
            <4>1. Places(o)'[5] = Places(o)[5] \cup {produced} /\ \A k \in 1..5 \ {5} : Places(o)'[k] = Places(o)[k]
                BY <3>2 DEF ProducerGiveUp
            <4> QED
                BY <4>1
        <3> QED
            BY <1>3, <3>1, <3>2
    <2>4. produced' = produced
        BY <1>3 DEF ProducerDrop, ProducerGiveUp
    <2>5. GoesOut(Stages(o), Stages(o)', Places(o), Places(o)', produced, produced')
        <3> HIDE DEF Places, Stages
        <3>1. c \in 1..5 /\ 6 \in 1..6
            OBVIOUS
        <3> QED
            BY <2>2, <2>3, <2>4, <3>1 DEF GoesOut
    <2> QED
        BY <2>5 DEF StepFlows, Flows
<1>4. CASE ProducerStop
    BY <1>4, UnmovedIdles DEF ProducerStop, UnmovedFor
<1> QED
    BY <1>1, <1>2, <1>3, <1>4 DEF Producer

(* What the dispatcher does.                                               *)
LEMMA DispatcherFlows ==
    ASSUME TypeInv, Dispatcher, NEW o \in Outputs
    PROVE  StepFlows(o)
<1> USE OutputsAssumption DEF prodVars, dispVars, outVars, history, Stages, Places
<1> USE DEF TypeInv, TypeOK, PipelineShape
<1>0. o \in Nat /\ o >= 1 /\ o <= NumOutputs
    BY DEF Outputs
<1>1. CASE DispatcherIgnore
    <2>1. Leaves(Stages(o), Stages(o)', 5) /\ Head(Stages(o)[5]) = Head(events)
        BY <1>1 DEF DispatcherIgnore, Leaves
    <2>2. /\ Places(o)'[2] = Places(o)[2] \cup {Head(events)}
          /\ \A k \in 1..5 \ {2} : Places(o)'[k] = Places(o)[k]
        BY <1>1 DEF DispatcherIgnore
    <2>3. GoesOut(Stages(o), Stages(o)', Places(o), Places(o)', produced, produced')
        <3>1. produced' = produced
            BY <1>1 DEF DispatcherIgnore
        <3>2. 5 \in 1..6 /\ 2 \in 1..5
            OBVIOUS
        <3> QED
            BY <2>1, <2>2, <3>1, <3>2, Zenon DEF GoesOut
    <2> QED
        BY <2>3 DEF StepFlows, Flows
<1>2. CASE DispatcherTake
    <2>1. Append(<<>>, Head(events)) = <<Head(events)>>
        OBVIOUS
    <2>2. held = <<>> /\ dispPos = 1
        BY <1>2 DEF DispatcherTake
    <2>3. Advances(Stages(o), Stages(o)', 4)
        BY <1>0, <1>2, <2>1, <2>2 DEF DispatcherTake, Advances
    <2>4. GoesOn(Stages(o), Stages(o)', Places(o), Places(o)', produced, produced')
        BY <1>2, <2>3 DEF DispatcherTake, GoesOn
    <2> QED
        BY <2>4 DEF StepFlows, Flows
<1>3. CASE DispatchOutput
    <2>1. Submit(dispPos, Head(held)) /\ dispPos \in Nat /\ dispPos' = dispPos + 1
          /\ UNCHANGED <<prodVars, events, held, ignored>>
        BY <1>3 DEF DispatchOutput
    <2>2. CASE o # dispPos
        <3>1. (dispPos <= o) = (dispPos + 1 <= o)
            BY <1>0, <2>1, <2>2
        <3>2. /\ queue'[o] = queue[o] /\ dropped'[o] = dropped[o]
              /\ UNCHANGED <<written, inHand, errored>>
            BY <2>1, <2>2 DEF Submit, SubmitAccepted, SubmitDropped, ConsumerTypeOK
        <3> QED
            BY <2>1, <3>1, <3>2, UnmovedIdles DEF UnmovedFor
    <2>3. CASE o = dispPos
        <3>0. dispPos <= o /\ ~(dispPos' <= o)
            BY <1>0, <2>1, <2>3
        <3>1. held # <<>> /\ Tail(held) = <<>>
            BY <1>3 DEF DispatchOutput
        <3>2. CASE SubmitAccepted(o, Head(held))
            <4>1. queue'[o] = Append(queue[o], Head(held)) /\ UNCHANGED <<written, inHand, errored, dropped>>
                BY <3>2 DEF SubmitAccepted, ConsumerTypeOK
            <4>2. Advances(Stages(o), Stages(o)', 3)
                BY <2>1, <3>0, <3>1, <4>1, SMTT(30) DEF Advances
            <4>3. GoesOn(Stages(o), Stages(o)', Places(o), Places(o)', produced, produced')
                BY <2>1, <4>1, <4>2 DEF GoesOn
            <4> QED
                BY <4>3 DEF StepFlows, Flows
        <3>3. CASE SubmitDropped(o, Head(held))
            <4>1. dropped'[o] = dropped[o] \cup {Head(held)} /\ UNCHANGED <<queue, written, inHand, errored>>
                BY <3>3 DEF SubmitDropped, ConsumerTypeOK
            <4>2. Leaves(Stages(o), Stages(o)', 4) /\ Head(Stages(o)[4]) = Head(held)
                BY <2>1, <3>0, <3>1, <4>1 DEF Leaves
            <4>3. /\ Places(o)'[3] = Places(o)[3] \cup {Head(held)}
                  /\ \A k \in 1..5 \ {3} : Places(o)'[k] = Places(o)[k]
                BY <2>1, <4>1
            <4>4. GoesOut(Stages(o), Stages(o)', Places(o), Places(o)', produced, produced')
                BY <2>1, <4>2, <4>3 DEF GoesOut
            <4> QED
                BY <4>4 DEF StepFlows, Flows
        <3> QED
            BY <2>1, <2>3, <3>2, <3>3 DEF Submit
    <2> QED
        BY <2>2, <2>3
<1>4. CASE DispatchAlert
    BY <1>0, <1>4, UnmovedIdles DEF DispatchAlert, UnmovedFor
<1>5. CASE DispatcherStop
    BY <1>5, UnmovedIdles DEF DispatcherStop, UnmovedFor
<1> QED
    BY <1>1, <1>2, <1>3, <1>4, <1>5 DEF Dispatcher

(* What the consumer of output p does, seen from output o.                 *)
LEMMA ConsumerFlows ==
    ASSUME TypeInv, NEW p \in Outputs, ConsumerStep(p) \/ SinkStep(p), NEW o \in Outputs
    PROVE  StepFlows(o)
<1> USE DEF history, Stages, Places
<1>0. UNCHANGED <<produced, prodPc, monDropped, abandoned, events, held, dispPos, ignored>>
    BY DEF ConsumerStep, SinkStep, Unmoved, prodVars, dispVars
<1>1. CASE o # p
    <2>1. /\ queue'[o] = queue[o] /\ inHand'[o] = inHand[o] /\ written'[o] = written[o]
          /\ errored'[o] = errored[o] /\ dropped'[o] = dropped[o]
        BY <1>1 DEF ConsumerStep, SinkStep, ConsumerLoop, SinkReturns, ConsumerTake, DrainTake, TakeNext,
                    ConsumerCtxDone, DrainEmpty, DrainDeadline, CloseSink, WriteOk, WriteFail,
                    TypeInv, TypeOK, ConsumerTypeOK
    <2> QED
        BY <1>0, <2>1, UnmovedIdles DEF UnmovedFor
<1>2. ASSUME o = p, NEW pc, TakeNext(o, pc), inHand[o] = <<>>
      PROVE  StepFlows(o)
    <2>1. /\ inHand'[o] = <<Head(queue[o])>> /\ queue'[o] = Tail(queue[o]) /\ queue[o] # <<>>
          /\ UNCHANGED <<written, errored, dropped>>
        BY <1>2 DEF TakeNext, TypeInv, TypeOK, ConsumerTypeOK
    <2>2. Append(<<>>, Head(queue[o])) = <<Head(queue[o])>>
        OBVIOUS
    <2>3. Advances(Stages(o), Stages(o)', 2)
        BY <1>0, <1>2, <2>1, <2>2 DEF Advances
    <2>4. GoesOn(Stages(o), Stages(o)', Places(o), Places(o)', produced, produced')
        BY <1>0, <2>1, <2>3 DEF GoesOn
    <2> QED
        BY <2>4 DEF StepFlows, Flows
<1>3. CASE o = p /\ (ConsumerTake(o) \/ DrainTake(o))
    BY <1>2, <1>3 DEF ConsumerTake, DrainTake, TypeInv, PipelineShape
<1>4. CASE o = p /\ (ConsumerCtxDone(o) \/ DrainEmpty(o) \/ DrainDeadline(o))
    BY <1>0, <1>4, UnmovedIdles DEF ConsumerCtxDone, DrainEmpty, DrainDeadline, CloseSink, UnmovedFor
<1>5. CASE o = p /\ WriteOk(o)
    <2>1. inHand[o] # <<>> /\ Tail(inHand[o]) = <<>> /\ inHand[o] = <<Head(inHand[o])>>
        BY <1>5 DEF WriteOk, TypeInv, TypeOK, PipelineShape, ConsumerTypeOK
    <2>2. /\ inHand'[o] = <<>> /\ written'[o] = written[o] \o inHand[o]
          /\ UNCHANGED <<queue, errored, dropped>>
        BY <1>5 DEF WriteOk, TypeInv, TypeOK, PipelineShape, ConsumerTypeOK
    <2>3. written[o] \o inHand[o] = Append(written[o], Head(inHand[o]))
        BY <2>1 DEF TypeInv, TypeOK, ConsumerTypeOK
    <2>4. Advances(Stages(o), Stages(o)', 1)
        BY <1>0, <2>1, <2>2, <2>3 DEF Advances
    <2>5. GoesOn(Stages(o), Stages(o)', Places(o), Places(o)', produced, produced')
        BY <1>0, <2>2, <2>4 DEF GoesOn
    <2> QED
        BY <2>5 DEF StepFlows, Flows
<1>6. CASE o = p /\ WriteFail(o)
    <2>1. inHand[o] # <<>> /\ Tail(inHand[o]) = <<>>
        BY <1>6 DEF WriteFail, TypeInv, TypeOK, PipelineShape, ConsumerTypeOK
    <2>2. /\ inHand'[o] = <<>> /\ errored'[o] = errored[o] \cup {Head(inHand[o])}
          /\ UNCHANGED <<queue, written, dropped>>
        BY <1>6 DEF WriteFail, TypeInv, TypeOK, PipelineShape, ConsumerTypeOK
    <2>3. Leaves(Stages(o), Stages(o)', 2) /\ Head(Stages(o)[2]) = Head(inHand[o])
        BY <1>0, <2>1, <2>2 DEF Leaves
    <2>4. /\ Places(o)'[4] = Places(o)[4] \cup {Head(inHand[o])}
          /\ \A k \in 1..5 \ {4} : Places(o)'[k] = Places(o)[k]
        BY <1>0, <2>2
    <2>5. GoesOut(Stages(o), Stages(o)', Places(o), Places(o)', produced, produced')
        BY <1>0, <2>3, <2>4 DEF GoesOut
    <2> QED
        BY <2>5 DEF StepFlows, Flows
<1> QED
    BY <1>1, <1>3, <1>4, <1>5, <1>6 DEF ConsumerStep, SinkStep, ConsumerLoop, SinkReturns

(* Every step is one of the four, for every output.                        *)
LEMMA NextFlows ==
    ASSUME TypeInv, [Next]_vars, NEW o \in Outputs
    PROVE  StepFlows(o)
<1>1. CASE Produce \/ Producer
    BY <1>1, ProducerFlows
<1>2. CASE Dispatcher
    BY <1>2, DispatcherFlows
<1>3. CASE \E p \in Outputs : ConsumerStep(p) \/ SinkStep(p)
    BY <1>3, ConsumerFlows
<1>4. CASE Engine \/ EngineHandled \/ Shutdown \/ UNCHANGED vars
    <2>1. UNCHANGED <<outVars, prodVars, events, dispVars>>
        BY <1>4 DEF Engine, EngineTake, EngineStop, EngineHandled, Shutdown, vars
    <2>2. UnmovedFor(o)
        BY <2>1 DEF UnmovedFor, outVars, history, prodVars, dispVars
    <2> QED
        BY <2>2, UnmovedIdles
<1> QED
    BY <1>1, <1>2, <1>3, <1>4 DEF Next, LoopNext, Finished

(* At the start there is no event anywhere.                                *)
LEMMA FlowInvInit == Init => FlowInv
<1> SUFFICES ASSUME Init, NEW o \in Outputs
             PROVE  Sorted(Stages(o)) /\ Partition(Places(o), produced)
    BY DEF FlowInv
<1>1. Stages(o) = << <<>>, <<>>, <<>>, <<>>, <<>>, <<>> >>
    BY DEF Init, ConsumerInit, Stages
<1>2. \A k \in 1..6 : Stages(o)[k] = <<>>
    BY <1>1
<1>3. Sorted(Stages(o))
    <2>1. <<>> \in Seq(Nat) /\ Increasing(<<>>)
        BY DEF Increasing
    <2> QED
        BY <1>2, <2>1, ElemsEmpty DEF Sorted, Below
<1>4. Places(o) = << {}, {}, {}, {}, {}, {}, {}, {}, {}, {}, {} >>
    BY ElemsEmpty DEF Init, ConsumerInit, Places
<1>5. \A k \in 1..11 : Places(o)[k] = {}
    BY <1>4
<1>6. Partition(Places(o), produced)
    BY <1>5 DEF Init, Partition
<1> QED
    BY <1>3, <1>6

(* The inductive invariant: the types, the shape, and for every output the *)
(* order along the row and the sharing out of the events among the places. *)
THEOREM PipelineInvariant == Spec => []PipelineInv
<1>1. Init => PipelineInv
    BY TypeInvInit, FlowInvInit DEF PipelineInv
<1>2. PipelineInv /\ StagesArePlaces /\ StagesArePlaces' /\ [Next]_vars => PipelineInv'
    <2> SUFFICES ASSUME PipelineInv, StagesArePlaces, StagesArePlaces', [Next]_vars
                 PROVE  PipelineInv'
        OBVIOUS
    <2>1. TypeInv'
        BY TypeInvStep DEF PipelineInv
    <2>2. ASSUME NEW o \in Outputs
          PROVE  Sorted(Stages(o)') /\ Partition(Places(o)', produced')
        <3>1. Flows(Stages(o), Stages(o)', Places(o), Places(o)', produced, produced')
            BY NextFlows DEF StepFlows, PipelineInv
        <3>2. \A k \in 1..6 : Places(o)[k + 5] = Elems(Stages(o)[k])
            BY DEF StagesArePlaces
        <3>3. \A k \in 1..6 : Places(o)'[k + 5] = Elems(Stages(o)'[k])
            BY DEF StagesArePlaces
        <3>4. Sorted(Stages(o)) /\ Partition(Places(o), produced) /\ produced \in Nat
            BY DEF PipelineInv, FlowInv, TypeInv, TypeOK
        <3> QED
            BY <3>1, <3>2, <3>3, <3>4, FlowKeepsInv
    <2>3. FlowInv'
        BY <2>2 DEF FlowInv
    <2> QED
        BY <2>1, <2>3 DEF PipelineInv
<1> QED
    BY <1>1, <1>2, StagePlaces, PTL DEF Spec

(* Type correctness of the pipeline: channels within their capacities, one *)
(* event at most in a goroutine's hands.                                   *)
THEOREM PipelineTypes == Spec => []TypeOK
<1>1. PipelineInv => TypeOK
    BY DEF PipelineInv, TypeInv
<1> QED
    BY <1>1, PipelineInvariant, PTL

(* A send is given up once: the monitor goroutine ends with it.            *)
LEMMA AtMostOneAbandoned == Spec => []OnlyLastAbandoned
<1>1. Init => OnlyLastAbandoned
    BY DEF Init, OnlyLastAbandoned
<1>2. OnlyLastAbandoned /\ [Next]_vars => OnlyLastAbandoned'
    <2> SUFFICES ASSUME OnlyLastAbandoned, [Next]_vars
                 PROVE  OnlyLastAbandoned'
        OBVIOUS
    <2> USE DEF OnlyLastAbandoned
    <2>1. CASE Produce
        BY <2>1 DEF Produce
    <2>2. CASE ProducerSend \/ ProducerDrop \/ ProducerStop
        BY <2>2 DEF ProducerSend, ProducerDrop, ProducerStop
    <2>3. CASE ProducerGiveUp
        <3>1. abandoned = {}
            BY <2>3 DEF ProducerGiveUp
        <3> QED
            BY <2>3, <3>1 DEF ProducerGiveUp
    <2>4. ASSUME UNCHANGED <<prodVars, dropOnFull>>, cancelled => cancelled' PROVE OnlyLastAbandoned'
        BY <2>4 DEF prodVars
    <2>5. CASE Dispatcher
        BY <2>4, <2>5 DEF Dispatcher, DispatcherIgnore, DispatcherTake, DispatchOutput, DispatchAlert, DispatcherStop
    <2>6. CASE Engine \/ EngineHandled \/ Shutdown \/ Finished \/ UNCHANGED vars
        BY <2>4, <2>6 DEF Engine, EngineTake, EngineStop, EngineHandled, Shutdown, Finished, vars
    <2>7. CASE \E o \in Outputs : ConsumerStep(o) \/ SinkStep(o)
        BY <2>4, <2>7 DEF ConsumerStep, SinkStep, Unmoved
    <2> QED
        BY <2>1, <2>2, <2>3, <2>5, <2>6, <2>7 DEF Next, LoopNext, Producer
<1> QED
    BY <1>1, <1>2, PTL DEF Spec

(* No event is counted twice and at most the last goes uncounted, for every *)
(* output, whatever the queues' sizes and whenever the daemon is shut down. *)
THEOREM EveryEventIsAccounted == Spec => []EveryEventAccounted
<1>1. PipelineInv /\ OnlyLastAbandoned => EveryEventAccounted
    <2> SUFFICES ASSUME PipelineInv, NEW o \in Outputs, NEW e \in 1..produced
                 PROVE  Cardinality({i \in DOMAIN Places(o) : e \in Places(o)[i]}) = 1
        BY DEF EveryEventAccounted
    <2>1. Partition(Places(o), produced)
        BY DEF PipelineInv, FlowInv
    <2>2. DOMAIN Places(o) = 1..11
        BY DEF Places
    <2>3. PICK k \in 1..11 : e \in Places(o)[k]
        BY <2>1 DEF Partition
    <2>4. \A j \in 1..11 : e \in Places(o)[j] => j = k
        BY <2>1, <2>3 DEF Partition
    <2>5. {i \in DOMAIN Places(o) : e \in Places(o)[i]} = {k}
        BY <2>2, <2>3, <2>4
    <2> QED
        BY <2>5, FS_Singleton
<1> QED
    BY <1>1, PipelineInvariant, AtMostOneAbandoned, PTL

(* First in, first out: a sorted row makes one increasing line.            *)
THEOREM EventsStayInOrder == Spec => []InOrder
<1>1. PipelineInv => InOrder
    <2> SUFFICES ASSUME PipelineInv, NEW o \in Outputs PROVE Increasing(Line(o))
        BY DEF InOrder, Increasing
    <2> DEFINE S == Stages(o)
               L2 == S[1] \o S[2]
               L3 == L2 \o S[3]
               L4 == L3 \o S[4]
               L5 == L4 \o S[5]
               L6 == L5 \o S[6]
    <2>1. Sorted(S)
        BY DEF PipelineInv, FlowInv
    <2> HIDE DEF S
    <2>2. \A k \in 1..6 : S[k] \in Seq(Nat) /\ Increasing(S[k])
        BY <2>1 DEF Sorted
    <2>3. \A j, k \in 1..6 : j < k => Below(Elems(S[j]), Elems(S[k]))
        BY <2>1 DEF Sorted
    <2>4. L2 \in Seq(Nat) /\ Increasing(L2) /\ Elems(L2) = Elems(S[1]) \cup Elems(S[2])
        BY <2>2, <2>3, IncreasingConcat
    <2>5. ASSUME NEW k \in 3..6 PROVE Below(Elems(L2), Elems(S[k]))
        BY <2>3, <2>4 DEF Below
    <2> HIDE DEF L2
    <2>6. L3 \in Seq(Nat) /\ Increasing(L3) /\ Elems(L3) = Elems(L2) \cup Elems(S[3])
        <3>1. S[3] \in Seq(Nat) /\ Increasing(S[3]) /\ Below(Elems(L2), Elems(S[3]))
            BY <2>2, <2>5
        <3> QED
            BY <2>4, <3>1, IncreasingConcat
    <2>7. ASSUME NEW k \in 4..6 PROVE Below(Elems(L3), Elems(S[k]))
        BY <2>3, <2>5, <2>6 DEF Below
    <2> HIDE DEF L3
    <2>8. L4 \in Seq(Nat) /\ Increasing(L4) /\ Elems(L4) = Elems(L3) \cup Elems(S[4])
        <3>1. S[4] \in Seq(Nat) /\ Increasing(S[4]) /\ Below(Elems(L3), Elems(S[4]))
            BY <2>2, <2>7
        <3> QED
            BY <2>6, <3>1, IncreasingConcat
    <2>9. ASSUME NEW k \in 5..6 PROVE Below(Elems(L4), Elems(S[k]))
        BY <2>3, <2>7, <2>8 DEF Below
    <2> HIDE DEF L4
    <2>10. L5 \in Seq(Nat) /\ Increasing(L5) /\ Elems(L5) = Elems(L4) \cup Elems(S[5])
        <3>1. S[5] \in Seq(Nat) /\ Increasing(S[5]) /\ Below(Elems(L4), Elems(S[5]))
            BY <2>2, <2>9
        <3> QED
            BY <2>8, <3>1, IncreasingConcat
    <2>11. Below(Elems(L5), Elems(S[6]))
        BY <2>3, <2>9, <2>10 DEF Below
    <2> HIDE DEF L5
    <2>12. Increasing(L6)
        <3>1. S[6] \in Seq(Nat) /\ Increasing(S[6]) /\ Below(Elems(L5), Elems(S[6]))
            BY <2>2, <2>11
        <3> QED
            BY <2>10, <3>1, IncreasingConcat
    <2>13. L6 = Line(o)
        BY DEF L2, L3, L4, L5, S, Stages, Line
    <2> QED
        BY <2>12, <2>13
<1> QED
    BY <1>1, PipelineInvariant, PTL

-----------------------------------------------------------------------------
(* The pipeline and the audit log it promises.                             *)

(* A successful Sink.Write appends one event, newer than the last one and  *)
(* already delivered by MONITOR.                                           *)
LEMMA WriteImplementsAudit ==
    ASSUME PipelineInv, NEW o \in Outputs, WriteOk(o), UNCHANGED produced
    PROVE  Audit!Write(o)
<1> DEFINE e == Head(inHand[o])
<1>1. inHand[o] \in Seq(Nat) /\ inHand[o] # <<>> /\ Len(inHand[o]) <= 1 /\ written[o] \in Seq(Nat)
    BY DEF PipelineInv, TypeInv, TypeOK, PipelineShape, ConsumerTypeOK, WriteOk
<1>2. e \in Elems(inHand[o]) /\ inHand[o] = <<e>> /\ e \in Nat
    BY <1>1 DEF Elems
<1>3. Sorted(Stages(o)) /\ Partition(Places(o), produced) /\ produced \in Nat
    BY DEF PipelineInv, FlowInv, TypeInv, TypeOK
<1>4. Below(Elems(written[o]), Elems(inHand[o]))
    <2>1. Below(Elems(Stages(o)[1]), Elems(Stages(o)[2]))
        BY <1>3 DEF Sorted
    <2> QED
        BY <2>1 DEF Stages
<1>5. e \in 1..produced
    <2>1. Elems(inHand[o]) = Places(o)[7]
        BY DEF Places
    <2> QED
        BY <1>2, <1>3, <2>1 DEF Partition
<1>6. e \in Audit!LastWritten(o) + 1 .. produced
    <2>1. CASE written[o] = <<>>
        BY <1>5, <2>1 DEF Audit!LastWritten
    <2>2. CASE written[o] # <<>>
        <3>1. Len(written[o]) \in DOMAIN written[o] /\ written[o][Len(written[o])] \in Nat
            BY <1>1, <2>2
        <3>2. written[o][Len(written[o])] \in Elems(written[o])
            BY <3>1 DEF Elems
        <3>3. written[o][Len(written[o])] < e
            BY <1>2, <1>4, <3>2 DEF Below
        <3> QED
            BY <1>5, <2>2, <3>1, <3>3 DEF Audit!LastWritten
    <2> QED
        BY <2>1, <2>2
<1>7. written' = [written EXCEPT ![o] = Append(@, e)]
    <2>1. written[o] \o inHand[o] = Append(written[o], e)
        <3>1. ASSUME NEW s \in Seq(Nat), NEW x \in Nat PROVE s \o <<x>> = Append(s, x)
            OBVIOUS
        <3> HIDE DEF e
        <3> QED
            BY <1>1, <1>2, <3>1
    <2> QED
        BY <2>1 DEF WriteOk
<1> QED
    BY <1>6, <1>7 DEF Audit!Write

(* The pipeline implements the audit log: every log only grows, in the     *)
(* order of the MONITOR stream, without repetition or invention.           *)
THEOREM PipelineImplementsAudit == Spec => AuditSpec
<1>1. Init => Audit!Init
    BY DEF Init, ConsumerInit, Audit!Init
<1>2. PipelineInv /\ [Next]_vars => [Audit!Next]_<<produced, written>>
    <2> SUFFICES ASSUME PipelineInv, Next
                 PROVE  Audit!Next \/ UNCHANGED <<produced, written>>
        BY DEF vars, outVars, history, prodVars
    <2>1. CASE Produce
        BY <2>1 DEF Produce, outVars, history, Audit!Deliver, Audit!Next
    <2>2. CASE Producer
        BY <2>2 DEF Producer, ProducerSend, ProducerDrop, ProducerGiveUp, ProducerStop, outVars, history
    <2>3. CASE Dispatcher
        BY <2>3 DEF Dispatcher, DispatcherIgnore, DispatcherTake, DispatchOutput, DispatchAlert, DispatcherStop,
                    Submit, SubmitAccepted, SubmitDropped, outVars, history, prodVars
    <2>4. CASE Engine \/ EngineHandled \/ Shutdown \/ Finished
        BY <2>4 DEF Engine, EngineTake, EngineStop, EngineHandled, Shutdown, Finished, vars,
                    outVars, history, prodVars
    <2>5. ASSUME NEW o \in Outputs, ConsumerStep(o)
          PROVE  UNCHANGED <<produced, written>>
        BY <2>5 DEF ConsumerStep, ConsumerLoop, ConsumerTake, DrainTake, TakeNext, ConsumerCtxDone, DrainEmpty,
                    DrainDeadline, CloseSink, Unmoved, history, prodVars
    <2>6. ASSUME NEW o \in Outputs, SinkStep(o)
          PROVE  Audit!Next \/ UNCHANGED <<produced, written>>
        <3>1. UNCHANGED produced
            BY <2>6 DEF SinkStep, Unmoved, prodVars
        <3>2. CASE WriteOk(o)
            BY <3>1, <3>2, WriteImplementsAudit DEF Audit!Next
        <3>3. CASE WriteFail(o)
            BY <3>1, <3>3 DEF WriteFail
        <3> QED
            BY <2>6, <3>2, <3>3 DEF SinkStep, SinkReturns
    <2> QED
        BY <2>1, <2>2, <2>3, <2>4, <2>5, <2>6 DEF Next, LoopNext
<1> QED
    BY <1>1, <1>2, PipelineInvariant, PTL DEF Spec, AuditSpec, Audit!Spec

-----------------------------------------------------------------------------
(* What the registry knows of the outputs.                                 *)

(* No two enabled outputs are of the same type.                            *)
DistinctNames == \A o, p \in Outputs : SinkName[o] = SinkName[p] => o = p

(* An output the registry lists as failing is failing, or one of the same  *)
(* name is.                                                                *)
NoFalseAlarm == \A x \in failingOutputs : \E o \in Outputs : failing[o] /\ x = SinkName[o]

(* Every step leaves the health alone or is a result of some Sink.Write.   *)
LEMMA HealthStep ==
    ASSUME [Next]_vars
    PROVE  \/ UNCHANGED health
           \/ \E o \in Outputs, bad \in BOOLEAN : MarkFailing(o, bad)
<1> USE DEF outVars
<1>1. CASE Produce \/ Producer
    BY <1>1 DEF Produce, Producer, ProducerSend, ProducerDrop, ProducerGiveUp, ProducerStop
<1>2. CASE Dispatcher
    BY <1>2 DEF Dispatcher, DispatcherIgnore, DispatcherTake, DispatchOutput, DispatchAlert, DispatcherStop,
                Submit, SubmitAccepted, SubmitDropped
<1>3. CASE Engine \/ EngineHandled \/ Shutdown \/ UNCHANGED vars
    BY <1>3 DEF Engine, EngineTake, EngineStop, EngineHandled, Shutdown, vars
<1>4. ASSUME NEW o \in Outputs, ConsumerStep(o)
      PROVE  UNCHANGED health
    BY <1>4 DEF ConsumerStep, ConsumerLoop, ConsumerTake, DrainTake, TakeNext, ConsumerCtxDone, DrainEmpty,
                DrainDeadline, CloseSink
<1>5. ASSUME NEW o \in Outputs, SinkStep(o)
      PROVE  MarkFailing(o, FALSE) \/ MarkFailing(o, TRUE)
    BY <1>5 DEF SinkStep, SinkReturns, WriteOk, WriteFail
<1> QED
    BY <1>1, <1>2, <1>3, <1>4, <1>5 DEF Next, LoopNext, Finished

(* /readyz raises no false alarm, even when several outputs share a name:  *)
(* the update on a transition goes to the entry the transition is about.   *)
THEOREM RegistryRaisesNoFalseAlarm == Spec => []NoFalseAlarm
<1>1. Init => NoFalseAlarm
    BY DEF Init, ConsumerInit, NoFalseAlarm
<1>2. TypeInv /\ NoFalseAlarm /\ [Next]_vars => NoFalseAlarm'
    <2> SUFFICES ASSUME TypeInv, NoFalseAlarm, [Next]_vars PROVE NoFalseAlarm'
        OBVIOUS
    <2>1. CASE UNCHANGED health
        BY <2>1 DEF NoFalseAlarm, health
    <2>2. ASSUME NEW o \in Outputs, NEW bad \in BOOLEAN, MarkFailing(o, bad)
          PROVE  NoFalseAlarm'
        <3>1. failing \in [Outputs -> BOOLEAN]
            BY DEF TypeInv, TypeOK, ConsumerTypeOK
        <3>2. \A p \in Outputs : failing'[p] = IF p = o THEN bad ELSE failing[p]
            BY <2>2, <3>1 DEF MarkFailing
        <3>3. CASE bad
            BY <2>2, <3>2, <3>3 DEF MarkFailing, SetOutputFailing, NoFalseAlarm
        <3>4. CASE ~bad
            <4> SUFFICES ASSUME NEW x \in failingOutputs'
                         PROVE  \E p \in Outputs : failing'[p] /\ x = SinkName[p]
                BY DEF NoFalseAlarm
            <4>1. x \in failingOutputs /\ (failing[o] => x # SinkName[o])
                BY <2>2, <3>4 DEF MarkFailing, SetOutputFailing
            <4>2. PICK p \in Outputs : failing[p] /\ x = SinkName[p]
                BY <4>1 DEF NoFalseAlarm
            <4> QED
                BY <3>2, <4>1, <4>2
        <3> QED
            BY <3>3, <3>4
    <2> QED
        BY <2>1, <2>2, HealthStep
<1>3. PipelineInv => TypeInv
    BY DEF PipelineInv
<1> QED
    BY <1>1, <1>2, <1>3, PipelineInvariant, PTL DEF Spec

(* When no two enabled outputs are of the same type, the registry lists    *)
(* exactly the outputs whose last write failed.                            *)
THEOREM RegistryIsExact == DistinctNames => (Spec => []FailingOutputsExact)
<1> SUFFICES ASSUME DistinctNames PROVE Spec => []FailingOutputsExact
    OBVIOUS
<1>1. Init => FailingOutputsExact
    BY DEF Init, ConsumerInit, FailingOutputsExact
<1>2. TypeInv /\ FailingOutputsExact /\ [Next]_vars => FailingOutputsExact'
    <2> SUFFICES ASSUME TypeInv, FailingOutputsExact, [Next]_vars PROVE FailingOutputsExact'
        OBVIOUS
    <2>1. CASE UNCHANGED health
        BY <2>1 DEF FailingOutputsExact, health
    <2>2. ASSUME NEW o \in Outputs, NEW bad \in BOOLEAN, MarkFailing(o, bad)
          PROVE  FailingOutputsExact'
        <3>1. failing \in [Outputs -> BOOLEAN]
            BY DEF TypeInv, TypeOK, ConsumerTypeOK
        <3>2. \A p \in Outputs : failing'[p] = IF p = o THEN bad ELSE failing[p]
            BY <2>2, <3>1 DEF MarkFailing
        <3>3. \A p \in Outputs : failing[p] <=> SinkName[p] \in failingOutputs
            BY DEF FailingOutputsExact, DistinctNames
        <3>4. \A p \in Outputs : failing'[p] <=> SinkName[p] \in failingOutputs'
            <4>1. CASE bad
                BY <2>2, <3>2, <3>3, <4>1 DEF MarkFailing, SetOutputFailing, DistinctNames
            <4>2. CASE ~bad
                BY <2>2, <3>2, <3>3, <4>2 DEF MarkFailing, SetOutputFailing, DistinctNames
            <4> QED
                BY <4>1, <4>2
        <3>5. \A x \in failingOutputs' : \E p \in Outputs : x = SinkName[p]
            BY <2>2 DEF MarkFailing, SetOutputFailing, FailingOutputsExact
        <3> QED
            BY <3>4, <3>5 DEF FailingOutputsExact
    <2> QED
        BY <2>1, <2>2, HealthStep
<1>3. PipelineInv => TypeInv
    BY DEF PipelineInv
<1> QED
    BY <1>1, <1>2, <1>3, PipelineInvariant, PTL DEF Spec
=============================================================================
