------------------------------ MODULE AuditLog ------------------------------
(***************************************************************************)
(* What the audit pipeline promises of every output, with queues, the      *)
(* dispatcher, failures and shutdown left out: its log only grows, and is  *)
(* at all times an increasing subsequence of the events MONITOR delivered. *)
(* Events may be missing from a log; none is repeated, reordered or        *)
(* invented.                                                               *)
(***************************************************************************)
EXTENDS Naturals, Sequences

CONSTANT Outputs

VARIABLES
    produced,   \* number of events delivered so far
    log         \* what each output has written

Init ==
    /\ produced = 0
    /\ log = [o \in Outputs |-> <<>>]

Deliver ==
    /\ produced' = produced + 1
    /\ UNCHANGED log

LastWritten(o) == IF log[o] = <<>> THEN 0 ELSE log[o][Len(log[o])]

Write(o) ==
    /\ \E e \in LastWritten(o) + 1 .. produced :
            log' = [log EXCEPT ![o] = Append(@, e)]
    /\ UNCHANGED produced

Next == Deliver \/ \E o \in Outputs : Write(o)

Spec == Init /\ [][Next]_<<produced, log>>
=============================================================================
