--------------------------- MODULE OutputConsumer ---------------------------
(***************************************************************************)
(* The audit outputs of internal/output/output.go: every sink is wrapped   *)
(* by a Consumer with its own bounded channel and its own goroutine.  The  *)
(* outputs are numbered in the order in which Manager.Dispatch visits      *)
(* them.  Events are numbered in the order MONITOR delivered them.         *)
(*                                                                         *)
(* written, errored and dropped are the histories behind the counters of   *)
(* Consumer.Counters: the events themselves in place of their number.      *)
(***************************************************************************)
EXTENDS Naturals, Sequences

CONSTANTS
    NumOutputs,     \* number of enabled outputs
    SinkName,       \* Sink.Name() of each: its type, not its position
    QueueCap        \* pipeline.consumer_buffer

Outputs == 1..NumOutputs

ASSUME OutputsAssumption == NumOutputs \in Nat /\ DOMAIN SinkName = Outputs
ASSUME QueueCapAssumption == QueueCap \in Nat \ {0}

VARIABLES
    dropOnFull,     \* pipeline.drop_on_full, fixed when the daemon starts
    cancelled,      \* runCtx is done
    queue,          \* Consumer.in
    consPc,         \* where Consumer.Run is
    inHand,         \* the event being written: a sequence of length 0 or 1
    failing,        \* Consumer.failing
    failingOutputs, \* Registry.failingOutputs, keyed by sink name
    written,        \* events written, in order
    errored,        \* events whose write failed
    dropped         \* events dropped by Submit

health  == <<failing, failingOutputs>>
history == <<written, errored, dropped>>
outVars == <<queue, consPc, inHand, health, history>>

ConsumerTypeOK ==
    /\ dropOnFull \in BOOLEAN
    /\ queue \in [Outputs -> Seq(Nat)]
    /\ \A o \in Outputs : Len(queue[o]) <= QueueCap /\ Len(inHand[o]) <= 1
    /\ consPc \in [Outputs -> {"select", "write", "drain", "drainWrite", "closed"}]
    /\ inHand \in [Outputs -> Seq(Nat)]
    /\ failing \in [Outputs -> BOOLEAN]
    /\ failingOutputs \subseteq {SinkName[o] : o \in Outputs}
    /\ written \in [Outputs -> Seq(Nat)]
    /\ errored \in [Outputs -> SUBSET Nat]
    /\ dropped \in [Outputs -> SUBSET Nat]

ConsumerInit ==
    /\ dropOnFull \in BOOLEAN
    /\ queue = [o \in Outputs |-> <<>>]
    /\ consPc = [o \in Outputs |-> "select"]
    /\ inHand = [o \in Outputs |-> <<>>]
    /\ failing = [o \in Outputs |-> FALSE]
    /\ failingOutputs = {}
    /\ written = [o \in Outputs |-> <<>>]
    /\ errored = [o \in Outputs |-> {}]
    /\ dropped = [o \in Outputs |-> {}]

-----------------------------------------------------------------------------
(* Submit(e), run by the dispatcher.  Without drop_on_full it is a plain   *)
(* channel send: it waits for room, whatever happens to the context.       *)

(* Variant with a bug: one event more than the capacity. *)
SubmitAcceptedOneMore(o, e) ==
    /\ Len(queue[o]) <= QueueCap
    /\ queue' = [queue EXCEPT ![o] = Append(@, e)]
    /\ UNCHANGED <<consPc, inHand, health, history>>

SubmitAccepted(o, e) ==
    /\ Len(queue[o]) < QueueCap
    /\ queue' = [queue EXCEPT ![o] = Append(@, e)]
    /\ UNCHANGED <<consPc, inHand, health, history>>

(* Variant with a bug: the drop policy is inverted. *)
SubmitDroppedInverted(o, e) ==
    /\ ~dropOnFull /\ Len(queue[o]) = QueueCap
    /\ dropped' = [dropped EXCEPT ![o] = @ \cup {e}]
    /\ UNCHANGED <<queue, consPc, inHand, health, written, errored>>

SubmitDropped(o, e) ==
    /\ dropOnFull /\ Len(queue[o]) = QueueCap
    /\ dropped' = [dropped EXCEPT ![o] = @ \cup {e}]
    /\ UNCHANGED <<queue, consPc, inHand, health, written, errored>>

Submit(o, e) == SubmitAccepted(o, e) \/ SubmitDropped(o, e)

-----------------------------------------------------------------------------
(* Registry.SetOutputFailing.                                              *)
SetOutputFailing(name, bad) ==
    failingOutputs' = IF bad THEN failingOutputs \cup {name} ELSE failingOutputs \ {name}

(* Consumer.failing.Swap; the registry hears of a change only.             *)
MarkFailing(o, bad) ==
    /\ failing' = [failing EXCEPT ![o] = bad]
    /\ IF failing[o] # bad THEN SetOutputFailing(SinkName[o], bad) ELSE UNCHANGED failingOutputs

-----------------------------------------------------------------------------
(* Consumer.Run.  The select may prefer either ready case.                 *)

(* Variant with a bug: the event is read but left in the queue. *)
TakeNextPeeks(o, pc) ==
    /\ queue[o] # <<>>
    /\ inHand' = [inHand EXCEPT ![o] = <<Head(queue[o])>>]
    /\ consPc' = [consPc EXCEPT ![o] = pc]
    /\ UNCHANGED <<queue, health, history>>

TakeNext(o, pc) ==
    /\ queue[o] # <<>>
    /\ inHand' = [inHand EXCEPT ![o] = <<Head(queue[o])>>]
    /\ queue' = [queue EXCEPT ![o] = Tail(@)]
    /\ consPc' = [consPc EXCEPT ![o] = pc]
    /\ UNCHANGED <<health, history>>

ConsumerTake(o) == consPc[o] = "select" /\ TakeNext(o, "write")

(* Variant with a bug: the context is looked at only when there is work. *)
ConsumerCtxDoneIfWork(o) ==
    /\ consPc[o] = "select" /\ cancelled /\ queue[o] # <<>>
    /\ consPc' = [consPc EXCEPT ![o] = "drain"]
    /\ UNCHANGED <<queue, inHand, health, history>>

ConsumerCtxDone(o) ==
    /\ consPc[o] = "select" /\ cancelled
    /\ consPc' = [consPc EXCEPT ![o] = "drain"]
    /\ UNCHANGED <<queue, inHand, health, history>>

(* drainAfterShutdown goes on until the queue is empty, a write fails or   *)
(* its timer, looked at between two writes, has fired.  Returning from it  *)
(* closes the sink.                                                        *)
DrainTake(o) == consPc[o] = "drain" /\ TakeNext(o, "drainWrite")

CloseSink(o) ==
    /\ consPc' = [consPc EXCEPT ![o] = "closed"]
    /\ UNCHANGED <<queue, inHand, health, history>>

DrainEmpty(o) == consPc[o] = "drain" /\ queue[o] = <<>> /\ CloseSink(o)

DrainDeadline(o) == consPc[o] = "drain" /\ CloseSink(o)

(* Variant with a bug: a success during the drain resets the flag only. *)
WriteOkDrainForgets(o) ==
    /\ consPc[o] \in {"write", "drainWrite"}
    /\ written' = [written EXCEPT ![o] = @ \o inHand[o]]
    /\ inHand' = [inHand EXCEPT ![o] = <<>>]
    /\ IF consPc[o] = "write" THEN MarkFailing(o, FALSE)
         ELSE failing' = [failing EXCEPT ![o] = FALSE] /\ UNCHANGED failingOutputs
    /\ consPc' = [consPc EXCEPT ![o] = IF @ = "write" THEN "select" ELSE "drain"]
    /\ UNCHANGED <<queue, errored, dropped>>

(* writeOne and the body of the drain: both mark the output healthy or     *)
(* failing, and tell the registry only when that changes.                  *)
WriteOk(o) ==
    /\ consPc[o] \in {"write", "drainWrite"}
    /\ written' = [written EXCEPT ![o] = @ \o inHand[o]]
    /\ inHand' = [inHand EXCEPT ![o] = <<>>]
    /\ MarkFailing(o, FALSE)
    /\ consPc' = [consPc EXCEPT ![o] = IF @ = "write" THEN "select" ELSE "drain"]
    /\ UNCHANGED <<queue, errored, dropped>>

(* Variant with a bug: a failure during the drain is not counted. *)
WriteFailDrainForgets(o) ==
    /\ consPc[o] \in {"write", "drainWrite"}
    /\ errored' = IF consPc[o] = "write" THEN [errored EXCEPT ![o] = @ \cup {Head(inHand[o])}]
                                         ELSE errored
    /\ inHand' = [inHand EXCEPT ![o] = <<>>]
    /\ MarkFailing(o, TRUE)
    /\ consPc' = [consPc EXCEPT ![o] = IF @ = "write" THEN "select" ELSE "closed"]
    /\ UNCHANGED <<queue, written, dropped>>

(* Variant with a bug: a failed event goes back to the end of the queue. *)
WriteFailRequeues(o) ==
    /\ consPc[o] = "write" /\ Len(queue[o]) < QueueCap + 1
    /\ queue' = [queue EXCEPT ![o] = @ \o inHand[o]]
    /\ inHand' = [inHand EXCEPT ![o] = <<>>]
    /\ MarkFailing(o, TRUE)
    /\ consPc' = [consPc EXCEPT ![o] = "select"]
    /\ UNCHANGED history

WriteFail(o) ==
    /\ consPc[o] \in {"write", "drainWrite"}
    /\ errored' = [errored EXCEPT ![o] = @ \cup {Head(inHand[o])}]
    /\ inHand' = [inHand EXCEPT ![o] = <<>>]
    /\ MarkFailing(o, TRUE)
    /\ consPc' = [consPc EXCEPT ![o] = IF @ = "write" THEN "select" ELSE "closed"]
    /\ UNCHANGED <<queue, written, dropped>>

(* A call of Sink.Write that returns.                                      *)
SinkReturns(o) == WriteOk(o) \/ WriteFail(o)

ConsumerLoop(o) ==
    \/ ConsumerTake(o)
    \/ ConsumerCtxDone(o)
    \/ DrainTake(o)
    \/ DrainEmpty(o)
    \/ DrainDeadline(o)

-----------------------------------------------------------------------------
(* What /readyz relies on: the registry lists exactly the outputs whose    *)
(* last write failed.  The map is keyed by sink name and updated only on   *)
(* transitions, so an update lost or applied to another output stays.      *)
FailingOutputsExact ==
    failingOutputs = {SinkName[o] : o \in {p \in Outputs : failing[p]}}

=============================================================================
