--------------------------- MODULE MonitorStream ---------------------------
(***************************************************************************)
(* The bytes between Redis and the daemon: the RESP helpers of             *)
(* internal/resp/resp.go, the handshake and the line loop of the MONITOR   *)
(* client (internal/monitor/client.go) with the parser of MonitorParser,   *)
(* the INFO exchange of the role checker (internal/role/role.go), and what *)
(* the outputs print of an event.  One behaviour is one connection.        *)
(*                                                                         *)
(* The stream arrives in pieces of any size, which a bufio.Reader collects *)
(* until a line, or a body, is complete; it may break between any two of   *)
(* them.  Redis answers a command only after it was written.               *)
(***************************************************************************)
EXTENDS MonitorParser

CONSTANT
    Sessions    \* what the server does: records with auth (the reply to AUTH,
                \* or <<>> when there is no password), ask ("MONITOR" or
                \* "INFO"), reply, lines (after a MONITOR) and role (in an INFO)

VARIABLES
    session,
    asked,      \* the command has been written
    net,        \* sent by the server and not yet received
    rd,         \* the bufio.Reader
    bulk,       \* the length in a bulk header
    results,    \* of Parse, in order: an event is sent, NoEvent is counted
    role        \* what queryRole returns; NoRole stands for an error

streamVars == <<session, asked, net, rd, bulk, results, role>>
vars == <<parserVars, streamVars>>

NoEntry == [foreign |-> TRUE]
NoRole  == <<>>

-----------------------------------------------------------------------------
(* What the server sends.                                                  *)

EOL == <<"CR", "NL">>
OkReply    == <<"+", "OK">> \o EOL
ErrorReply == <<"-", "ERR">> \o EOL
NullReply  == <<"$", "-", "1">> \o EOL

Digit(n) == CHOOSE d \in Digits : DigitValue(d) = n
BulkReply(body) ==
    <<"$", Digit(Len(body) \div 10), Digit(Len(body) % 10)>> \o EOL \o body \o EOL

(* A role is two symbols long, so that a body can break off inside it.     *)
InfoBody(r) ==
    <<"#Replication">> \o EOL \o <<"role:">> \o r \o EOL \o <<"repl_offset:", "1">> \o EOL

EntryLine(e) == [entry |-> e, text |-> RedisLine(e) \o EOL]
OtherLine(t) == [entry |-> NoEntry, text |-> t \o EOL]

Answer(ss) == ss.reply \o FlattenSeq([k \in DOMAIN ss.lines |-> ss.lines[k].text])

ASSUME SessionsAssumption ==
    \A ss \in Sessions : ss.auth \in Seq(STRING) /\ Answer(ss) \in Seq(STRING)

-----------------------------------------------------------------------------
AskPc(ss) == IF ss.ask = "MONITOR" THEN "reply" ELSE "header"

Init ==
    /\ session \in Sessions
    /\ asked = (session.auth = <<>>)
    /\ pc = IF asked THEN AskPc(session) ELSE "auth"
    /\ net = IF asked THEN Answer(session) ELSE session.auth
    /\ rd = <<>>
    /\ bulk = 0
    /\ results = <<>>
    /\ role = NoRole
    /\ ParserInit

(* r.ReadString('\n') and io.ReadFull: read on while there is not enough.  *)
LineEnd == IndexOf(rd, "NL")
HasLine == LineEnd # 0
FirstLine == SubSeq(rd, 1, LineEnd)

Waiting ==
    \/ pc \in {"auth", "reply", "header", "read"} /\ ~HasLine
    \/ pc = "body" /\ Len(rd) < bulk + 2

Arrive ==
    /\ Waiting
    /\ \E n \in 1..Len(net) :
        /\ rd' = rd \o SubSeq(net, 1, n)
        /\ net' = From(net, n + 1)
    /\ UNCHANGED <<parserVars, session, asked, bulk, results, role>>

(* EOF, a read error, a read deadline or a closed connection: what has     *)
(* been received of the line is given up.                                  *)
Break ==
    /\ Waiting
    /\ pc' = "closed"
    /\ UNCHANGED <<given, i, inQuote, sb, args, event, streamVars>>

(* ReadSimpleString *)
Accepted(l) == LET t == TrimEnd(l) IN t # <<>> /\ t[1] = "+"

(* The reply to AUTH; then the command is written.                         *)
ReadAuth ==
    /\ pc = "auth" /\ HasLine
    /\ rd' = From(rd, LineEnd + 1)
    /\ IF Accepted(FirstLine)
         THEN pc' = AskPc(session) /\ asked' = TRUE /\ net' = net \o Answer(session)
         ELSE pc' = "closed" /\ UNCHANGED <<asked, net>>
    /\ UNCHANGED <<given, i, inQuote, sb, args, event, session, bulk, results, role>>

(* Variant with a bug: the line loop gets a reader of its own. *)
ReadReplyOwnReader ==
    /\ pc = "reply" /\ HasLine
    /\ rd' = <<>>
    /\ pc' = IF Accepted(FirstLine) THEN "read" ELSE "closed"
    /\ UNCHANGED <<given, i, inQuote, sb, args, event, session, asked, net, bulk, results, role>>

(* The reply to MONITOR.  The same reader goes on with the lines.          *)
ReadReply ==
    /\ pc = "reply" /\ HasLine
    /\ rd' = From(rd, LineEnd + 1)
    /\ pc' = IF Accepted(FirstLine) THEN "read" ELSE "closed"
    /\ UNCHANGED <<given, i, inQuote, sb, args, event, session, asked, net, bulk, results, role>>

(* readLoop: a line is parsed, ends the session, or is passed over.        *)
ReadLine ==
    /\ pc = "read" /\ HasLine
    /\ line' = FirstLine
    /\ rd' = From(rd, LineEnd + 1)
    /\ pc' = CASE FirstLine[1] = "+" -> "head"
               [] FirstLine[1] = "-" -> "closed"
               [] OTHER -> "read"
    /\ UNCHANGED <<head, s, i, inQuote, sb, args, event, session, asked, net, bulk, results, role>>

(* Parse has returned: the event is sent, or the error counted.            *)
ParseReturns ==
    /\ pc = "done"
    /\ results' = Append(results, event)
    /\ pc' = "read"
    /\ line' = <<>> /\ head' = NoHead /\ s' = <<>> /\ i' = 1
    /\ inQuote' = FALSE /\ sb' = <<>> /\ args' = <<>> /\ event' = NoEvent
    /\ UNCHANGED <<session, asked, net, rd, bulk, role>>

Parsing == ParseNext /\ UNCHANGED streamVars

-----------------------------------------------------------------------------
(* ReadBulkString, the header: NoRole unless it is $ and a number.         *)
IsBulkHeader(h) == h # <<>> /\ h[1] = "$" /\ IsNumber(Tail(h))

ReadHeader ==
    /\ pc = "header" /\ HasLine
    /\ rd' = From(rd, LineEnd + 1)
    /\ LET h == TrimEnd(FirstLine)
       IN  IF IsBulkHeader(h)
             THEN pc' = "body" /\ bulk' = Number(Tail(h))
             ELSE pc' = "closed" /\ UNCHANGED bulk
    /\ UNCHANGED <<given, i, inQuote, sb, args, event, session, asked, net, results, role>>

(* parseRoleFromInfo: the first line that begins with "role:".  A role has *)
(* no blanks around it (TrimSpace), and is not empty: it would be NoRole.  *)
StartsLine(body, k) == k = 1 \/ (k > 2 /\ SubSeq(body, k - 2, k - 1) = EOL)

RoleOf(body) ==
    LET K   == {k \in DOMAIN body : body[k] = "role:" /\ StartsLine(body, k)}
        val == From(body, Min(K) + 1)
        end == {k \in 2..Len(val) : SubSeq(val, k - 1, k) = EOL}
        v   == IF end = {} THEN val ELSE SubSeq(val, 1, Min(end) - 2)
    IN  CASE K = {} -> NoRole
          [] K # {} /\ v = <<"sla", "ve">> -> <<"re", "plica">>
          [] OTHER -> v

(* Variant with a bug: one Read, which returns what has arrived. *)
ReadBodyOnce ==
    /\ pc = "body" /\ rd # <<>>
    /\ role' = RoleOf(SubSeq(rd, 1, Min({bulk, Len(rd)})))
    /\ rd' = <<>>
    /\ pc' = "closed"
    /\ UNCHANGED <<given, i, inQuote, sb, args, event, session, asked, net, bulk, results>>

(* ReadBulkString, the body, and the end of queryRole.                     *)
ReadBody ==
    /\ pc = "body" /\ Len(rd) >= bulk + 2
    /\ role' = RoleOf(SubSeq(rd, 1, bulk))
    /\ rd' = From(rd, bulk + 3)
    /\ pc' = "closed"
    /\ UNCHANGED <<given, i, inQuote, sb, args, event, session, asked, net, bulk, results>>

-----------------------------------------------------------------------------
Finished == pc = "closed" /\ UNCHANGED vars

Next ==
    \/ Arrive
    \/ Break
    \/ ReadAuth
    \/ ReadReply
    \/ ReadLine
    \/ Parsing
    \/ ParseReturns
    \/ ReadHeader
    \/ ReadBody
    \/ Finished

Spec == Init /\ [][Next]_vars

-----------------------------------------------------------------------------
(* What is printed of an event.                                            *)

NeedsQuotes(a) == ToSet(a) \cap {" ", "TAB", "NL", "CR", "\""} # {}

(* Variant with a bug: a backslash is printed as it is. *)
QuoteTextPlain(a) ==
    IF ~NeedsQuotes(a) THEN a
    ELSE <<"\"">> \o FlattenSeq([k \in DOMAIN a |->
                IF a[k] = "\"" THEN <<"\\", a[k]>> ELSE <<a[k]>>]) \o <<"\"">>

(* quoteText, and the quoting in CommandLine.                              *)
QuoteText(a) ==
    IF ~NeedsQuotes(a) THEN a
    ELSE <<"\"">> \o FlattenSeq([k \in DOMAIN a |->
                IF a[k] \in {"\"", "\\"} THEN <<"\\", a[k]>> ELSE <<a[k]>>]) \o <<"\"">>

TextArgs(as) == FlattenSeq([k \in DOMAIN as |-> <<" ">> \o QuoteText(as[k])])

(* CommandLine of the alerts: the command is not quoted.                   *)
CommandLine(ev) == ev.command \o TextArgs(ev.args)

(* The text format, after time, database and source: neither are the       *)
(* command and the subcommand.                                             *)
Fields(ev) ==
    << <<"cmd=">> \o ev.command >>
        \o IF ev.subcommand = <<>> THEN <<>> ELSE << <<"sub=">> \o ev.subcommand >>

BareText(ws) == FlattenSeq([k \in DOMAIN ws |-> <<" ">> \o ws[k]])
TextLine(ev) == BareText(Fields(ev)) \o TextArgs(ev.args)

(* sourceIP of the address "ip:port" that an alert carries.                *)
SourceIP(a) == LET last == LastIndexOf(a, ":") IN IF last = 0 THEN a ELSE Before(a, last)

(* A reader of that text: a blank begins a word, a quote at its beginning  *)
(* means that it extends to the closing one.                               *)
ReadSymbol(st, c) ==
    LET out  == st.out
        more == [out EXCEPT ![Len(out)] = Append(@, c)]
    IN  CASE st.in = "escape" -> [in |-> "quote", out |-> more]
          [] st.in = "quote" /\ c = "\\" -> [in |-> "escape", out |-> out]
          [] st.in = "quote" /\ c = "\"" -> [in |-> "plain", out |-> out]
          [] st.in = "quote" /\ c \notin {"\\", "\""} -> [in |-> "quote", out |-> more]
          [] st.in \in {"begin", "plain"} /\ c = " " -> [in |-> "begin", out |-> Append(out, <<>>)]
          [] st.in = "begin" /\ c = "\"" -> [in |-> "quote", out |-> out]
          [] OTHER -> [in |-> "plain", out |-> more]

ReadArgs(t) ==
    LET st[n \in 0..Len(t)] ==
            IF n = 0 THEN [in |-> "plain", out |-> <<>>] ELSE ReadSymbol(st[n - 1], t[n])
    IN  st[Len(t)].out

-----------------------------------------------------------------------------
(* What is known of a Redis server: the form of the entries, lines and     *)
(* replies that it sends.                                                  *)

IsLine(t) ==
    /\ t \in Seq(STRING) /\ t # <<>>
    /\ t[Len(t)] = "NL" /\ \A k \in 1..Len(t) - 1 : t[k] # "NL"

(* A port is a number or the path of a socket.                             *)
PlainPort(p) == \A k \in DOMAIN p : p[k] # ":"

EntryOk(e) ==
    /\ {e.sec, e.frac, e.db, e.ip, e.port} \subseteq Seq(STRING)
    /\ IsNumber(e.sec) /\ IsNumber(e.frac) /\ IsNumber(e.db)
    /\ e.v6 \in BOOLEAN
    /\ \A k \in DOMAIN e.ip : e.ip[k] # "]"
    /\ \A k \in DOMAIN e.port : e.port[k] # "]"
    /\ PlainPort(e.port)
    /\ ~e.v6 => /\ e.ip # <<>> => e.ip[1] # "["
                /\ e.port = <<>> => \A k \in DOMAIN e.ip : e.ip[k] # ":"
    /\ e.words \in Seq(Seq(STRING)) /\ e.words # <<>>

(* A line that is not an entry is anything in which no port has a colon.   *)
LineOk(l) ==
    /\ IsLine(l.text)
    /\ IF l.entry # NoEntry
         THEN EntryOk(l.entry) /\ l.text = RedisLine(l.entry) \o EOL
         ELSE LET h == ParseHead(TrimEnd(l.text)) IN h # NoHead => PlainPort(h.source.port)

MonitorOk(ss) ==
    /\ IsLine(ss.reply) /\ (ss.reply = OkReply \/ ~Accepted(ss.reply))
    /\ ss.lines \in Seq(ToSet(ss.lines)) /\ \A k \in DOMAIN ss.lines : LineOk(ss.lines[k])

(* A bulk string with or without a role in it, or a line that is none.     *)
InfoOk(ss) ==
    LET body == SubSeq(ss.reply, 6, Len(ss.reply) - 2)
        r    == SubSeq(body, 5, Len(body) - 6)
    IN  /\ ss.lines = <<>>
        /\ \/ /\ IsLine(ss.reply) /\ ~IsBulkHeader(TrimEnd(ss.reply))
              /\ ss.role = NoRole
           \/ /\ body \in Seq(STRING) /\ Len(body) < 100 /\ ss.reply = BulkReply(body)
              /\ \/ /\ \A k \in DOMAIN body : body[k] # "role:"
                    /\ ss.role = NoRole
                 \/ /\ body = InfoBody(r) /\ \A k \in DOMAIN r : r[k] # "NL"
                    /\ ss.role = IF r = <<"sla", "ve">> THEN <<"re", "plica">> ELSE r

ASSUME RedisAssumption ==
    \A ss \in Sessions :
        /\ ss.auth = <<>> \/ IsLine(ss.auth)
        /\ \/ ss.ask = "MONITOR" /\ MonitorOk(ss)
           \/ ss.ask = "INFO" /\ InfoOk(ss)

-----------------------------------------------------------------------------
(* What the entry says, computed from its parts and not from the line.     *)
HeadOf(e) ==
    LET d(k) == IF k \in DOMAIN e.frac THEN DigitValue(e.frac[k]) ELSE 0
    IN  [sec |-> Number(e.sec), db |-> Number(e.db), source |-> [ip |-> e.ip, port |-> e.port],
         nsec |-> 100000000 * d(1) + 10000000 * d(2) + 1000000 * d(3) + 100000 * d(4)
                    + 10000 * d(5) + 1000 * d(6) + 100 * d(7) + 10 * d(8) + d(9)]

(* Lines that reached the loop before the stream ended: all of each was    *)
(* received, and none of those before it was an error of the server.       *)
LineStart(k) == Len(session.reply) +
    Len(FlattenSeq([j \in 1..(k - 1) |-> session.lines[j].text]))

Received == Len(Answer(session)) - Len(net)

Heard ==
    IF ~asked \/ session.reply # OkReply THEN {}
    ELSE {k \in DOMAIN session.lines :
            /\ LineStart(k) + Len(session.lines[k].text) <= Received
            /\ \A j \in 1..(k - 1) : session.lines[j].text[1] # "-"}

(* Whatever the pieces in which the stream arrives and wherever it breaks  *)
(* off, the lines received whole are parsed, each once and in order: an    *)
(* event has exactly the words, the client and the time of its entry,      *)
(* whatever symbols the words consist of.  Nothing of a broken line is     *)
(* parsed, and no line is lost between handshake and loop.                 *)
DeliveredExactly ==
    pc = "closed" /\ session.ask = "MONITOR" =>
        LET parsed == {k \in Heard : session.lines[k].text[1] = "+"}
        IN  /\ Len(results) = Cardinality(parsed)
            /\ \A k \in parsed :
                LET e == session.lines[k].entry
                    n == Cardinality({j \in parsed : j <= k})
                IN  e # NoEntry => results[n] = EventOf(HeadOf(e), e.words)

(* queryRole returns the role that Redis reports when the whole reply      *)
(* arrived, in whatever pieces, and an error when it broke off, be it      *)
(* inside the role.                                                        *)
RoleIsExact ==
    pc = "closed" /\ session.ask = "INFO" =>
        role = IF asked /\ net = <<>> THEN session.role ELSE NoRole

(* The text of an event says what its command and arguments are, whatever  *)
(* symbols the arguments have, as long as the words that are printed       *)
(* without quotes need none: the command in an alert (CommandLine), the    *)
(* command and the subcommand in the text format (encode).  The names of   *)
(* Redis' own commands need none.  Without the premise the text is         *)
(* ambiguous (it is "approximate", says event.go:41): "A B" alone and "A"  *)
(* with the argument "B" are printed alike.  The address of an alert says  *)
(* which client it is about (sourceIP).                                    *)
RenderedFaithfully ==
    event # NoEvent =>
        /\ ~NeedsQuotes(event.command) =>
              ReadArgs(<<" ">> \o CommandLine(event)) = <<event.command>> \o event.args
        /\ (\A k \in DOMAIN Fields(event) : ~NeedsQuotes(Fields(event)[k])) =>
              ReadArgs(TextLine(event)) = Fields(event) \o event.args
        /\ SourceIP(event.source.ip \o <<":">> \o event.source.port) = event.source.ip
=============================================================================
