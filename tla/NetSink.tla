------------------------------ MODULE NetSink ------------------------------
(***************************************************************************)
(* The sinks below the consumers of Pipeline.  Those of stdout and files   *)
(* write or fail in one call.  The network sink of                         *)
(* internal/output/network.go dials on the first write, gives every write  *)
(* a deadline, and resets the connection after an error.                   *)
(*                                                                         *)
(* A record is two symbols, its body (the event) and its final newline, so *)
(* that a TCP write can end in the middle.  wire[o] holds, for each        *)
(* connection of sink o, what the kernel accepted from it: a TCP peer      *)
(* reads a prefix of that, a UDP peer some of the datagrams.               *)
(***************************************************************************)
EXTENDS Pipeline, SequencesExt

CONSTANTS
    SockBuf,    \* symbols a TCP socket holds that the peer has not read
    SinkKinds   \* the configurations: which output is a network sink

ASSUME SockBufAssumption == SockBuf \in Nat \ {0}
ASSUME SinkKindsAssumption == SinkKinds \subseteq [Outputs -> {"tcp", "udp", "none"}]

VARIABLES
    network,    \* NetSink.network, or "none" for stdout and files
    conn,       \* NetSink.conn: index of a connection in wire, 0 for nil
    wire,
    sent,       \* symbols of the record in hand that are on the wire
    unread      \* symbols of the current connection the peer has not read

netVars == <<network, conn, wire, sent, unread>>
allVars == <<vars, netVars>>

NL == 0

(* Formatter and the newline that Write appends.  The body is taken to     *)
(* have no newline in it: the JSON format escapes them, the text format    *)
(* writes those of an argument as they are (quoteText), and a peer that    *)
(* splits text records at newlines must know about quotes.                 *)
Record(e) == <<e, NL>>

NetInit ==
    /\ Init
    /\ network \in SinkKinds
    /\ conn = [o \in Outputs |-> 0]
    /\ wire = [o \in Outputs |-> <<>>]
    /\ sent = [o \in Outputs |-> 0]
    /\ unread = [o \in Outputs |-> 0]

(* The consumer is inside NetSink.Write.                                   *)
InWrite(o) == network[o] # "none" /\ consPc[o] \in {"write", "drainWrite"}

(* StdoutSink.Write and FileSink.Write.                                    *)
PlainWrite(o) == network[o] = "none" /\ SinkStep(o) /\ UNCHANGED netVars

-----------------------------------------------------------------------------
(* dial: within its timeout there is a connection or an error.             *)

DialOk(o) ==
    /\ InWrite(o) /\ conn[o] = 0
    /\ wire' = [wire EXCEPT ![o] = Append(@, <<>>)]
    /\ conn' = [conn EXCEPT ![o] = Len(wire[o]) + 1]
    /\ unread' = [unread EXCEPT ![o] = 0]
    /\ UNCHANGED <<vars, network, sent>>

DialFail(o) ==
    /\ InWrite(o) /\ conn[o] = 0
    /\ WriteFail(o) /\ Unmoved
    /\ UNCHANGED netVars

(* conn.Write: TCP goes on, symbol by symbol, while the socket has room;   *)
(* it succeeds with the last one.  UDP sends the datagram at once.         *)
Put(o, n) ==
    /\ wire' = [wire EXCEPT ![o][conn[o]] =
                    @ \o SubSeq(Record(inHand[o][1]), sent[o] + 1, sent[o] + n)]
    /\ UNCHANGED <<network, conn>>

WriteSome(o) ==
    /\ InWrite(o) /\ conn[o] # 0 /\ network[o] = "tcp"
    /\ unread[o] < SockBuf /\ sent[o] + 1 < Len(Record(inHand[o][1]))
    /\ Put(o, 1)
    /\ sent' = [sent EXCEPT ![o] = @ + 1]
    /\ unread' = [unread EXCEPT ![o] = @ + 1]
    /\ UNCHANGED vars

(* Variant with a bug: a write that stopped short counts as done. *)
WriteLastShort(o) ==
    /\ InWrite(o) /\ conn[o] # 0 /\ network[o] = "tcp"
    /\ Put(o, 1)
    /\ WriteOk(o) /\ Unmoved
    /\ sent' = [sent EXCEPT ![o] = 0]
    /\ unread' = [unread EXCEPT ![o] = @ + 1]

WriteLast(o) ==
    /\ InWrite(o) /\ conn[o] # 0 /\ network[o] = "tcp"
    /\ unread[o] < SockBuf /\ sent[o] + 1 = Len(Record(inHand[o][1]))
    /\ Put(o, 1)
    /\ WriteOk(o) /\ Unmoved
    /\ sent' = [sent EXCEPT ![o] = 0]
    /\ unread' = [unread EXCEPT ![o] = @ + 1]

WriteDatagram(o) ==
    /\ InWrite(o) /\ conn[o] # 0 /\ network[o] = "udp"
    /\ Put(o, Len(Record(inHand[o][1])))
    /\ WriteOk(o) /\ Unmoved
    /\ UNCHANGED <<sent, unread>>

(* NetSink.Close: what the peer has not read is no longer this sink's.     *)
Close(o) ==
    /\ conn' = [conn EXCEPT ![o] = 0]
    /\ unread' = [unread EXCEPT ![o] = 0]

CloseAtEnd(o) == IF consPc'[o] = "closed" THEN Close(o) ELSE UNCHANGED <<conn, unread>>

(* Variant with a bug: the connection is kept. *)
WriteErrKeeps(o) ==
    /\ InWrite(o) /\ conn[o] # 0
    /\ WriteFail(o) /\ Unmoved
    /\ CloseAtEnd(o)
    /\ sent' = [sent EXCEPT ![o] = 0]
    /\ UNCHANGED <<network, wire>>

(* Variant with a bug: no write deadline, so that only a peer that has     *)
(* read everything reports an error. *)
WriteErrNoDeadline(o) ==
    /\ InWrite(o) /\ conn[o] # 0 /\ unread[o] < SockBuf
    /\ WriteFail(o) /\ Unmoved
    /\ Close(o)
    /\ sent' = [sent EXCEPT ![o] = 0]
    /\ UNCHANGED <<network, wire>>

(* The deadline, a reset, or (UDP) the refusal of an earlier datagram: the *)
(* rest of the record is not sent, the connection is closed and forgotten. *)
WriteErr(o) ==
    /\ InWrite(o) /\ conn[o] # 0
    /\ WriteFail(o) /\ Unmoved
    /\ Close(o)
    /\ sent' = [sent EXCEPT ![o] = 0]
    /\ UNCHANGED <<network, wire>>

(* The peer, which may stop reading at any time.                           *)
PeerReads(o) ==
    /\ conn[o] # 0 /\ unread[o] > 0
    /\ unread' = [unread EXCEPT ![o] = @ - 1]
    /\ UNCHANGED <<vars, network, conn, wire, sent>>

(* Consumer.Run with its deferred Close.                                   *)
NetConsumerStep(o) ==
    /\ ConsumerStep(o)
    /\ CloseAtEnd(o)
    /\ UNCHANGED <<network, wire, sent>>

NetWrite(o) ==
    \/ DialOk(o)
    \/ DialFail(o)
    \/ WriteSome(o)
    \/ WriteLast(o)
    \/ WriteDatagram(o)
    \/ WriteErr(o)

NetNext ==
    \/ LoopNext /\ UNCHANGED netVars
    \/ \E o \in Outputs : NetConsumerStep(o) \/ PlainWrite(o) \/ NetWrite(o) \/ PeerReads(o)

NetSpec == NetInit /\ [][NetNext]_allVars
NetFairSpec == NetSpec /\ Fairness

-----------------------------------------------------------------------------
(* Whatever happens to writes and connections, no two records run together *)
(* at a peer: on every connection bodies and newlines alternate, and the   *)
(* events come in order.                                                   *)
RecordsNeverMerge ==
    \A o \in Outputs : \A c \in DOMAIN wire[o] : \A i \in DOMAIN wire[o][c] :
        /\ (wire[o][c][i] = NL) <=> (i % 2 = 0)
        /\ i > 2 /\ i % 2 = 1 => wire[o][c][i - 2] < wire[o][c][i]

(* The events whose newline was sent on a connection.                      *)
Complete(stream) == [j \in 1..(Len(stream) \div 2) |-> stream[2 * j - 1]]

(* What Counters and /readyz call written by a network sink is what was    *)
(* sent: an event is on the wire, whole, exactly once and on one           *)
(* connection if its write was counted as a success, and never if it was   *)
(* counted as an error.                                                    *)
WireMatchesLog ==
    \A o \in Outputs : network[o] # "none" =>
        written[o] = FlattenSeq([c \in DOMAIN wire[o] |-> Complete(wire[o][c])])

(* What DownstreamReturns assumes of a sink, its timeouts provide: however *)
(* the peer behaves, the Write of a network sink returns.                  *)
TimeoutsBoundWrite ==
    (\A o \in Outputs : WF_allVars(NetWrite(o)))
        => \A o \in Outputs : network[o] = "none" \/ WF_vars(SinkStep(o))
=============================================================================
