------------------------------ MODULE Pipeline ------------------------------
(***************************************************************************)
(* The goroutines of internal/app/app.go from the parsed event to the      *)
(* sinks: the monitor goroutine as a producer, the dispatcher, the output  *)
(* consumers, the alert engine as far as its queue goes, and the shutdown  *)
(* that app.Run waits for.                                                 *)
(***************************************************************************)
EXTENDS OutputConsumer, FiniteSets

CONSTANTS
    EventCap,       \* pipeline.event_buffer
    AlertsEnabled,  \* an alert engine was built
    MaxEvents       \* bound: events MONITOR delivers

ASSUME EventCapAssumption == EventCap \in Nat \ {0} /\ MaxEvents \in Nat
ASSUME AlertsAssumption == AlertsEnabled \in BOOLEAN

VARIABLES
    produced,   \* number of events the monitor client has parsed
    prodPc,     \* the monitor goroutine: "read", "send" or "done"
    monDropped, \* events the monitor client dropped, and counted
    abandoned,  \* the event a cancelled send gave up, which nobody counts
    events,     \* the events channel
    dispPc,     \* the dispatcher: "select", "fan" or "done"
    held,       \* the event it fans out: a sequence of length 0 or 1
    dispPos,    \* the next output to submit to; NumOutputs + 1 is the engine
    ignored,    \* events filtered by filter.ignored_commands
    alertLen,   \* events in Engine.in
    enginePc    \* Engine.Run: "select", "handle" or "done"

prodVars   == <<produced, prodPc, monDropped, abandoned>>
dispVars   == <<dispPc, held, dispPos, ignored>>
engineVars == <<alertLen, enginePc>>
vars == <<dropOnFull, cancelled, outVars, prodVars, events, dispVars, engineVars>>

TypeOK ==
    /\ cancelled \in BOOLEAN
    /\ ConsumerTypeOK
    /\ produced \in 0..MaxEvents
    /\ prodPc \in {"read", "send", "done"}
    /\ monDropped \subseteq 1..MaxEvents
    /\ abandoned \subseteq 1..MaxEvents
    /\ events \in Seq(1..MaxEvents) /\ Len(events) <= EventCap
    /\ dispPc \in {"select", "fan", "done"}
    /\ held \in Seq(1..MaxEvents) /\ Len(held) <= 1
    /\ dispPos \in 1..NumOutputs + 1
    /\ ignored \subseteq 1..MaxEvents
    /\ alertLen \in 0..QueueCap
    /\ enginePc \in {"select", "handle", "done"}

Init ==
    /\ cancelled = FALSE
    /\ ConsumerInit
    /\ produced = 0
    /\ prodPc = "read"
    /\ monDropped = {}
    /\ abandoned = {}
    /\ events = <<>>
    /\ dispPc = "select"
    /\ held = <<>>
    /\ dispPos = 1
    /\ ignored = {}
    /\ alertLen = 0
    /\ enginePc = IF AlertsEnabled THEN "select" ELSE "done"

-----------------------------------------------------------------------------
(* The monitor goroutine (see MonitorClient for what is behind it).        *)

Produce ==
    /\ prodPc = "read" /\ produced < MaxEvents
    /\ produced' = produced + 1
    /\ prodPc' = "send"
    /\ UNCHANGED <<dropOnFull, cancelled, outVars, monDropped, abandoned, events, dispVars, engineVars>>

ProducerSend ==
    /\ prodPc = "send" /\ Len(events) < EventCap
    /\ events' = Append(events, produced)
    /\ prodPc' = "read"
    /\ UNCHANGED <<dropOnFull, cancelled, outVars, produced, monDropped, abandoned, dispVars, engineVars>>

ProducerDrop ==
    /\ prodPc = "send" /\ dropOnFull /\ Len(events) = EventCap
    /\ monDropped' = monDropped \cup {produced}
    /\ prodPc' = "read"
    /\ UNCHANGED <<dropOnFull, cancelled, outVars, produced, abandoned, events, dispVars, engineVars>>

(* The blocking send gives way to the context: readLoop returns ctx.Err()  *)
(* and the event is gone, without a counter that says so.                  *)
ProducerGiveUp ==
    /\ prodPc = "send" /\ ~dropOnFull /\ cancelled
    /\ abandoned' = abandoned \cup {produced}
    /\ prodPc' = "done"
    /\ UNCHANGED <<dropOnFull, cancelled, outVars, produced, monDropped, events, dispVars, engineVars>>

(* Client.Run returns because the context is done.                         *)
ProducerStop ==
    /\ prodPc = "read" /\ cancelled
    /\ prodPc' = "done"
    /\ UNCHANGED <<dropOnFull, cancelled, outVars, produced, monDropped, abandoned, events, dispVars, engineVars>>

-----------------------------------------------------------------------------
(* dispatcher.run.                                                         *)

DispatcherIgnore ==
    /\ dispPc = "select" /\ events # <<>>
    /\ ignored' = ignored \cup {Head(events)}
    /\ events' = Tail(events)
    /\ UNCHANGED <<dropOnFull, cancelled, outVars, prodVars, dispPc, held, dispPos, engineVars>>

DispatcherTake ==
    /\ dispPc = "select" /\ events # <<>>
    /\ held' = <<Head(events)>>
    /\ events' = Tail(events)
    /\ dispPc' = "fan"
    /\ UNCHANGED <<dropOnFull, cancelled, outVars, prodVars, dispPos, ignored, engineVars>>

(* One iteration of Manager.Dispatch.                                      *)
DispatchOutput ==
    /\ dispPc = "fan" /\ dispPos \in Outputs
    /\ Submit(dispPos, Head(held))
    /\ dispPos' = dispPos + 1
    /\ UNCHANGED <<dropOnFull, cancelled, prodVars, events, dispPc, held, ignored, engineVars>>

(* Engine.Submit (or no engine), and back to the select.                   *)
DispatchAlert ==
    /\ dispPc = "fan" /\ dispPos = NumOutputs + 1
    /\ \/ AlertsEnabled /\ alertLen < QueueCap /\ alertLen' = alertLen + 1
       \/ AlertsEnabled /\ dropOnFull /\ alertLen = QueueCap /\ UNCHANGED alertLen
       \/ ~AlertsEnabled /\ UNCHANGED alertLen
    /\ dispPc' = "select"
    /\ held' = <<>>
    /\ dispPos' = 1
    /\ UNCHANGED <<dropOnFull, cancelled, outVars, prodVars, events, ignored, enginePc>>

DispatcherStop ==
    /\ dispPc = "select" /\ cancelled
    /\ dispPc' = "done"
    /\ UNCHANGED <<dropOnFull, cancelled, outVars, prodVars, events, held, dispPos, ignored, engineVars>>

-----------------------------------------------------------------------------
(* Engine.Run: handle ends, since attempts and their timeouts are bounded. *)

EngineTake ==
    /\ enginePc = "select" /\ alertLen > 0
    /\ alertLen' = alertLen - 1
    /\ enginePc' = "handle"
    /\ UNCHANGED <<dropOnFull, cancelled, outVars, prodVars, events, dispVars>>

EngineHandled ==
    /\ enginePc = "handle"
    /\ enginePc' = "select"
    /\ UNCHANGED <<dropOnFull, cancelled, outVars, prodVars, events, dispVars, alertLen>>

EngineStop ==
    /\ enginePc = "select" /\ cancelled
    /\ enginePc' = "done"
    /\ UNCHANGED <<dropOnFull, cancelled, outVars, prodVars, events, dispVars, alertLen>>

-----------------------------------------------------------------------------
(* A signal, or the monitor goroutine returning and calling cancel().      *)
Shutdown ==
    /\ ~cancelled
    /\ cancelled' = TRUE
    /\ UNCHANGED <<dropOnFull, outVars, prodVars, events, dispVars, engineVars>>

(* wg.Wait returns and app.Run with it.                                    *)
AllDone ==
    /\ prodPc = "done" /\ dispPc = "done" /\ enginePc = "done"
    /\ \A o \in Outputs : consPc[o] = "closed"

Finished == AllDone /\ UNCHANGED vars

Producer == ProducerSend \/ ProducerDrop \/ ProducerGiveUp \/ ProducerStop

Dispatcher ==
    \/ DispatcherIgnore
    \/ DispatcherTake
    \/ DispatchOutput
    \/ DispatchAlert
    \/ DispatcherStop

Engine == EngineTake \/ EngineStop

Unmoved == UNCHANGED <<dropOnFull, cancelled, prodVars, events, dispVars, engineVars>>

(* Everything but what goes on inside Sink.Write.                          *)
LoopNext ==
    \/ Produce
    \/ Producer
    \/ Dispatcher
    \/ Engine
    \/ EngineHandled
    \/ Shutdown
    \/ Finished

ConsumerStep(o) == ConsumerLoop(o) /\ Unmoved

SinkStep(o) == SinkReturns(o) /\ Unmoved

Next == LoopNext \/ \E o \in Outputs : ConsumerStep(o) \/ SinkStep(o)

(* The goroutines are scheduled; a select picks evenly among ready cases,  *)
(* so none of them overlooks the context for ever (SF).  Whether a sink or *)
(* an alert channel ever returns is not assumed here.                      *)
Fairness ==
    /\ WF_vars(Producer) /\ SF_vars(ProducerStop)
    /\ WF_vars(Dispatcher) /\ SF_vars(DispatcherStop)
    /\ WF_vars(Engine) /\ SF_vars(EngineStop)
    /\ \A o \in Outputs :
        /\ WF_vars(ConsumerStep(o))
        /\ SF_vars(ConsumerCtxDone(o) /\ Unmoved)

(* Every Sink.Write and every handled alert ends.  Network sinks and alert *)
(* channels have timeouts for that; of standard output and files it is an  *)
(* assumption.                                                             *)
DownstreamReturns ==
    /\ WF_vars(EngineHandled)
    /\ \A o \in Outputs : WF_vars(SinkStep(o))

Spec == Init /\ [][Next]_vars
FairSpec == Spec /\ Fairness

-----------------------------------------------------------------------------
Elems(s) == {s[i] : i \in DOMAIN s}

(* Where an event can be, seen from output o.                              *)
Places(o) ==
    << monDropped, ignored, dropped[o], errored[o], abandoned,
       Elems(written[o]), Elems(inHand[o]), Elems(queue[o]),
       IF dispPos <= o THEN Elems(held) ELSE {},
       Elems(events),
       IF prodPc = "send" THEN {produced} ELSE {} >>

(* What is lost without a counter is at most the very last event, given up *)
(* by a blocking send when the daemon is shut down.                        *)
OnlyLastAbandoned ==
    abandoned # {} => abandoned = {produced} /\ prodPc = "done" /\ cancelled /\ ~dropOnFull

(* Nothing is counted twice, and what goes uncounted is known: for every   *)
(* output, each event MONITOR delivered is in exactly one place - written, *)
(* counted as dropped, failed or ignored, still in a channel or in a       *)
(* goroutine's hands, or abandoned as above - at every moment.  (Events    *)
(* that are still in a channel when Run returns end with the process; no   *)
(* counter tells of them either.)                                          *)
EveryEventAccounted ==
    /\ \A o \in Outputs : \A e \in 1..produced :
        Cardinality({i \in DOMAIN Places(o) : e \in Places(o)[i]}) = 1
    /\ OnlyLastAbandoned

(* The events on their way to output o, oldest first.                      *)
Line(o) ==
    written[o] \o inHand[o] \o queue[o]
        \o (IF dispPos <= o THEN held ELSE <<>>)
        \o events
        \o (IF prodPc = "send" THEN <<produced>> ELSE <<>>)

(* First in, first out through three channels and three goroutines.        *)
InOrder ==
    \A o \in Outputs : \A i, j \in DOMAIN Line(o) :
        i < j => Line(o)[i] < Line(o)[j]

(* The pipeline implements the audit log: written is the log.              *)
Audit == INSTANCE AuditLog WITH log <- written
AuditSpec == Audit!Spec

(* README: with drop_on_full "a slow downstream cannot back up the MONITOR *)
(* consumer": a fan-out under way and a send under way come to an end even *)
(* if no sink and no alert channel ever returns.                           *)
SlowDownstreamCannotBackUp ==
    /\ dropOnFull /\ dispPc = "fan" ~> dispPc # "fan"
    /\ dropOnFull /\ prodPc = "send" ~> prodPc # "send"

(* The dispatcher sends to a full queue whose reader has left.             *)
DispatcherStranded ==
    /\ dispPc = "fan" /\ ~dropOnFull
    /\ \/ dispPos \in Outputs /\ consPc[dispPos] = "closed" /\ Len(queue[dispPos]) = QueueCap
       \/ dispPos = NumOutputs + 1 /\ enginePc = "done" /\ alertLen = QueueCap

(* app.Run returns once the context is done, provided that sinks and alert *)
(* channels return from the calls they are in.  Without drop_on_full there *)
(* is one way not to: the dispatcher, and nobody else, is left behind.     *)
ShutdownCompletes ==
    DownstreamReturns => (cancelled ~> (AllDone \/ DispatcherStranded))

(* "It blocks until ctx is cancelled" (app.Run): it returns after that.    *)
RunReturns == DownstreamReturns => (cancelled ~> AllDone)

(* Without drop_on_full, an event that is not filtered reaches every sink, *)
(* be it as an error, unless the daemon is shut down.                      *)
DeliveredUnlessShutdown ==
    DownstreamReturns => \A o \in Outputs : \A e \in 1..MaxEvents :
        ~dropOnFull /\ produced >= e
            ~> (cancelled \/ e \in ignored \cup errored[o] \cup Elems(written[o]))
=============================================================================
