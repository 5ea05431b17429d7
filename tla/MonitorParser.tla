--------------------------- MODULE MonitorParser ---------------------------
(***************************************************************************)
(* The MONITOR line parser of internal/monitor/parser.go.  Parse reads a   *)
(* line's head (timestamp, database, client address) and then its quoted   *)
(* arguments; the loop of parseQuotedArgs is the state machine below, one  *)
(* action per branch.  MonitorStream gives it lines and takes its events.  *)
(*                                                                         *)
(* A line is a sequence of symbols.  A symbol is a byte; "host", "v6" and  *)
(* "port" stand for stretches of an address without a special character,   *)
(* and "CR", "NL", "TAB", "BS", "BEL", "xA0" and "x00" for bytes that are  *)
(* not printed as themselves.  The bytes written in hexadecimal are those  *)
(* that the digits 0 and a can write.  Numbers are unsigned and small      *)
(* enough for ParseInt and Atoi, which refuse the others.  What Redis      *)
(* prints (RedisLine) is external.                                         *)
(***************************************************************************)
EXTENDS Naturals, Sequences, SequencesExt, FiniteSetsExt, TLC

CONSTANT
    CommandsWithSubcommand  \* upper-case command names

VARIABLES
    line,       \* the line given to Parse
    pc,         \* in Parse: "head", "args" or "done"
    head,       \* timestamp, database and source
    s,          \* the argument of parseQuotedArgs
    i,          \* its index
    inQuote, sb, args,
    event       \* the event, or NoEvent after an error

given      == <<line, head, s>>
parserVars == <<given, pc, i, inQuote, sb, args, event>>

NoEvent == [error |-> TRUE]
NoHead  == [error |-> TRUE]

-----------------------------------------------------------------------------
(* What Redis prints for an entry, a record with sec, frac and db (digits),*)
(* ip, port, v6 and words (the command line): every word between quotes,   *)
(* as sdscatrepr escapes it.                                               *)

(* The hexadecimal escapes of this alphabet, four of the 256.              *)
HexDigits == {"0", "a"}
HexByte(a, b) ==
    CASE a = "a" /\ b = "0" -> "xA0"
      [] a = "a" /\ b = "a" -> "xAA"
      [] a = "0" /\ b = "0" -> "x00"
      [] a = "0" /\ b = "a" -> "NL"

ReprSymbol(c) ==
    CASE c \in {"\"", "\\"} -> <<"\\", c>>
      [] c = "NL"  -> <<"\\", "n">>
      [] c = "CR"  -> <<"\\", "r">>
      [] c = "TAB" -> <<"\\", "t">>
      [] c = "BS"  -> <<"\\", "b">>
      [] c = "BEL" -> <<"\\", "a">>
      [] c = "xA0" -> <<"\\", "x", "a", "0">>
      [] c = "xAA" -> <<"\\", "x", "a", "a">>
      [] c = "x00" -> <<"\\", "x", "0", "0">>
      [] OTHER     -> <<c>>

Repr(w) == <<"\"">> \o FlattenSeq([k \in DOMAIN w |-> ReprSymbol(w[k])]) \o <<"\"">>

ReprAll(ws) ==
    FlattenSeq([k \in DOMAIN ws |-> IF k = 1 THEN Repr(ws[k]) ELSE <<" ">> \o Repr(ws[k])])

Address(e) ==
    CASE e.v6 -> <<"[">> \o e.ip \o <<"]", ":">> \o e.port
      [] ~e.v6 /\ e.port # <<>> -> e.ip \o <<":">> \o e.port
      [] OTHER -> e.ip

RedisLine(e) ==
    <<"+">> \o e.sec \o <<".">> \o e.frac \o <<" ", "[">> \o e.db \o <<" ">> \o Address(e)
        \o <<"]", " ">> \o ReprAll(e.words)

-----------------------------------------------------------------------------
(* strconv and strings, as far as Parse uses them.                         *)

Digits == {"0", "1", "2", "3", "4", "5", "6", "7", "8", "9"}

DigitValue(d) ==
    CASE d = "0" -> 0 [] d = "1" -> 1 [] d = "2" -> 2 [] d = "3" -> 3 [] d = "4" -> 4
      [] d = "5" -> 5 [] d = "6" -> 6 [] d = "7" -> 7 [] d = "8" -> 8 [] d = "9" -> 9

IsNumber(t) == t # <<>> /\ \A k \in DOMAIN t : t[k] \in Digits

Number(t) ==
    LET v[n \in 0..Len(t)] == IF n = 0 THEN 0 ELSE 10 * v[n - 1] + DigitValue(t[n])
    IN  v[Len(t)]

Blanks == {" ", "TAB"}

TrimLeft(t) ==
    LET rest == {k \in DOMAIN t : t[k] \notin Blanks}
    IN  IF rest = {} THEN <<>> ELSE SubSeq(t, Min(rest), Len(t))

(* strings.TrimRight(t, "\r\n") *)
TrimEnd(t) == SubSeq(t, 1, Max({0} \cup {k \in DOMAIN t : t[k] \notin {"CR", "NL"}}))

From(t, k) == SubSeq(t, k, Len(t))
Before(t, k) == SubSeq(t, 1, k - 1)

IndexOf(t, c) == SelectInSeq(t, LAMBDA d : d = c)
LastIndexOf(t, c) == SelectLastInSeq(t, LAMBDA d : d = c)

(* strings.ToUpper, of which a byte that is no UTF-8 does not come back.   *)
UpperSymbol(c) ==
    CASE c = "a" -> "A"
      [] c = "b" -> "B"
      [] c = "n" -> "N"
      [] c = "r" -> "R"
      [] c = "t" -> "T"
      [] c = "x" -> "X"
      [] c \in {"xA0", "xAA"} -> "U+FFFD"
      [] OTHER -> c

ToUpper(w) == [k \in DOMAIN w |-> UpperSymbol(w[k])]

-----------------------------------------------------------------------------
(* parseTimestamp: at most nine digits of the fraction, padded to nine.    *)
Timestamp(t) ==
    LET dot == IndexOf(t, ".")
        end == IF Len(t) > dot + 9 THEN dot + 9 ELSE Len(t)
    IN  [sec  |-> IF dot = 0 THEN t ELSE Before(t, dot),
         frac |-> IF dot = 0 THEN <<>> ELSE SubSeq(t, dot + 1, end)]

TimestampOk(t) ==
    IsNumber(Timestamp(t).sec) /\ (Timestamp(t).frac # <<>> => IsNumber(Timestamp(t).frac))

Nanos(frac) ==
    LET f[n \in Len(frac)..9] == IF n = Len(frac) THEN Number(frac) ELSE 10 * f[n - 1]
    IN  IF frac = <<>> THEN 0 ELSE f[9]

(* parseBracket: the closing bracket is the first one after which comes,   *)
(* blanks apart, a quote or nothing.                                       *)
Closes(t, k) ==
    /\ t[k] = "]"
    /\ LET rest == TrimLeft(From(t, k + 1)) IN rest = <<>> \/ rest[1] = "\""

CloseIndex(t) ==
    LET K == {k \in 2..Len(t) : Closes(t, k)} IN IF K = {} THEN 0 ELSE Min(K)

(* splitHostPort.                                                          *)
SplitHostPort(a) ==
    LET end == IndexOf(a, "]")
        last == LastIndexOf(a, ":")
    IN  CASE a = <<>> -> [ip |-> <<>>, port |-> <<>>]
          [] a # <<>> /\ a[1] = "[" /\ end # 0 ->
                [ip |-> SubSeq(a, 2, end - 1),
                 port |-> IF end < Len(a) /\ a[end + 1] = ":" THEN From(a, end + 2) ELSE <<>>]
          [] OTHER -> IF last = 0 THEN [ip |-> a, port |-> <<>>]
                                  ELSE [ip |-> Before(a, last), port |-> From(a, last + 1)]

(* Parse up to the arguments: NoHead stands for any of its errors.         *)
ParseHead(l) ==
    LET t     == IF l # <<>> /\ l[1] = "+" THEN Tail(l) ELSE l
        space == IndexOf(t, " ")
        ts    == Before(t, space)
        rest  == From(t, space + 1)
        close == CloseIndex(rest)
        body  == SubSeq(rest, 2, close - 1)
        sp    == IndexOf(body, " ")
    IN  IF \/ space <= 1 \/ ~TimestampOk(ts)
           \/ rest = <<>> \/ rest[1] # "[" \/ close = 0
           \/ sp = 0 \/ ~IsNumber(Before(body, sp))
          THEN NoHead
          ELSE [sec |-> Number(Timestamp(ts).sec), nsec |-> Nanos(Timestamp(ts).frac),
                db |-> Number(Before(body, sp)), source |-> SplitHostPort(From(body, sp + 1)),
                rest |-> TrimLeft(From(rest, close + 1))]

-----------------------------------------------------------------------------
ParserInit ==
    /\ line = <<>>
    /\ head = NoHead
    /\ s = <<>>
    /\ i = 1
    /\ inQuote = FALSE
    /\ sb = <<>>
    /\ args = <<>>
    /\ event = NoEvent

Fail ==
    /\ pc' = "done"
    /\ event' = NoEvent

ReadHead ==
    /\ pc = "head"
    /\ head' = ParseHead(TrimEnd(line))
    /\ IF head' = NoHead
         THEN Fail /\ UNCHANGED s
         ELSE pc' = "args" /\ s' = head'.rest /\ UNCHANGED event
    /\ UNCHANGED <<line, i, inQuote, sb, args>>

(* The loop of parseQuotedArgs, outside of quotes.                         *)
Outside == pc = "args" /\ i <= Len(s) /\ ~inQuote

SkipBlank ==
    /\ Outside /\ s[i] \in Blanks
    /\ i' = i + 1
    /\ UNCHANGED <<given, pc, inQuote, sb, args, event>>

OpenQuote ==
    /\ Outside /\ s[i] = "\""
    /\ inQuote' = TRUE
    /\ sb' = <<>>
    /\ i' = i + 1
    /\ UNCHANGED <<given, pc, args, event>>

Unexpected ==
    /\ Outside /\ s[i] \notin Blanks \cup {"\""}
    /\ Fail
    /\ UNCHANGED <<given, i, inQuote, sb, args>>

(* ... and between them: one byte is collected, from n symbols.            *)
Inside == pc = "args" /\ i <= Len(s) /\ inQuote

Collect(c, n) ==
    /\ sb' = Append(sb, c)
    /\ i' = i + n
    /\ UNCHANGED <<given, pc, inQuote, args, event>>

IsEscape == i < Len(s) /\ s[i] = "\\"

IsHexEscape ==
    /\ IsEscape /\ s[i + 1] = "x"
    /\ i + 3 <= Len(s) /\ s[i + 2] \in HexDigits /\ s[i + 3] \in HexDigits

Unescaped(c) ==
    CASE c = "n" -> "NL"
      [] c = "r" -> "CR"
      [] c = "t" -> "TAB"
      [] c = "a" -> "BEL"
      [] c = "b" -> "BS"
      [] OTHER -> c

HexEscape == Inside /\ IsHexEscape /\ Collect(HexByte(s[i + 2], s[i + 3]), 4)

(* Variant with a bug: this branch forgets to advance. *)
EscapeStuck == Inside /\ IsEscape /\ ~IsHexEscape /\ Collect(Unescaped(s[i + 1]), 0)

Escape == Inside /\ IsEscape /\ ~IsHexEscape /\ Collect(Unescaped(s[i + 1]), 2)

Literal == Inside /\ ~IsEscape /\ s[i] # "\"" /\ Collect(s[i], 1)

CloseQuote ==
    /\ Inside /\ s[i] = "\""
    /\ args' = Append(args, sb)
    /\ sb' = <<>>
    /\ inQuote' = FALSE
    /\ i' = i + 1
    /\ UNCHANGED <<given, pc, event>>

EventOf(h, words) ==
    LET command == ToUpper(words[1])
    IN  [sec |-> h.sec, nsec |-> h.nsec, db |-> h.db, source |-> h.source,
         command |-> command, args |-> Tail(words),
         subcommand |-> IF command \in CommandsWithSubcommand /\ Len(words) > 1
                          THEN ToUpper(words[2]) ELSE <<>>]

(* The end of the line: unterminated, without a command, or an event.      *)
EndOfLine ==
    /\ pc = "args" /\ i > Len(s)
    /\ IF inQuote \/ args = <<>>
         THEN Fail
         ELSE pc' = "done" /\ event' = EventOf(head, args)
    /\ UNCHANGED <<given, i, inQuote, sb, args>>

ParseNext ==
    \/ ReadHead
    \/ SkipBlank
    \/ OpenQuote
    \/ Unexpected
    \/ HexEscape
    \/ Escape
    \/ CloseQuote
    \/ Literal
    \/ EndOfLine

-----------------------------------------------------------------------------
(* Every branch of the loop advances and none runs past the end of the     *)
(* line, whatever the line: with no state without a next step, Parse       *)
(* returns on every line.                                                  *)
LoopAdvances ==
    [][pc = "args" => pc' = "done" \/ (i' > i /\ i' <= Len(s) + 1)]_parserVars
=============================================================================
