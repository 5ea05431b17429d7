-------------------------- MODULE MCMonitorStream --------------------------
(* TLC instance of MonitorStream.                                          *)
EXTENDS MonitorStream

(* A letter that is also a hex digit and an escape, the x of an escape,    *)
(* both symbols that Redis escapes, a blank, a bracket and two bytes that  *)
(* are printed as escapes.                                                 *)
Alphabet == {"a", "x", "0", "\"", "\\", " ", "]", "NL", "xA0"}

Words(n) == UNION {[1..k -> Alphabet] : k \in 0..n}

Plain == [sec |-> <<"1">>, frac |-> <<"5">>, db |-> <<"0">>,
          ip |-> <<"host">>, port |-> <<"port">>, v6 |-> FALSE, words |-> << <<"a">>, <<"x">> >>]

(* Every command line of at most two words of at most two symbols, one     *)
(* word of three, and for one command line every kind of head.             *)
MCEntries ==
    {[Plain EXCEPT !.words = <<v>>] : v \in Words(3)}
    \cup {[Plain EXCEPT !.words = <<v, w>>] : v \in Words(1), w \in Words(2)}
    \cup {[Plain EXCEPT !.frac = f, !.sec = t] :
                f \in {<<"0", "0", "0", "0", "0", "1">>, <<"9", "9", "9", "9", "9", "9">>,
                       <<"1", "5", "9", "0", "0", "0", "0", "1", "5", "9", "9">>},
                t \in {<<"0">>, <<"1", "5", "9">>}}
    \cup {[Plain EXCEPT !.v6 = TRUE, !.ip = a] : a \in {<<":", ":", "1">>, <<"v6">>}}
    \cup {[Plain EXCEPT !.ip = <<"unix">>, !.port = <<"/path">>, !.db = <<"1", "5">>],
          [Plain EXCEPT !.ip = <<"lua">>, !.port = <<>>]}

(* Lines that are not Redis': any four symbols after a proper head.        *)
MCForeign ==
    {<<"+", "1", " ", "[", "0", " ", "lua", "]", " ">> \o t :
        t \in UNION {[1..k -> {"\"", "\\", "a", "x", " "}] : k \in 0..4}}
    \cup {<<"+">>, <<"+", "1">>, <<"+", "a", " ", "[">>, <<"+", "1", " ", "a">>}

Monitor(lines) ==
    [auth |-> <<>>, ask |-> "MONITOR", reply |-> OkReply, lines |-> lines, role |-> NoRole]

(* Two lines after one another, with an empty line, a line that is not a   *)
(* simple string or an error of the server before, between or after them.  *)
Two   == <<EntryLine(Plain), EntryLine([Plain EXCEPT !.words = << <<"NL", "\"">> >>])>>
Stray == {OtherLine(<<>>), OtherLine(<<"a">>), OtherLine(<<"-", "ERR">>), OtherLine(<<"+", "a">>)}

MonitorSessions ==
    {Monitor(<<EntryLine(e)>>) : e \in MCEntries}
    \cup {Monitor(<<OtherLine(t)>>) : t \in MCForeign}
    \cup {[Monitor(InsertAt(Two, k, l)) EXCEPT !.auth = OkReply] : k \in 1..3, l \in Stray}
    \cup {[Monitor(Two) EXCEPT !.auth = ErrorReply], [Monitor(<<>>) EXCEPT !.reply = ErrorReply],
          [Monitor(<<>>) EXCEPT !.reply = EOL]}

Info(reply, r) == [auth |-> <<>>, ask |-> "INFO", reply |-> reply, lines |-> <<>>, role |-> r]

InfoSessions ==
    {Info(BulkReply(InfoBody(r)), r) : r \in {<<"ma", "ster">>, <<"re", "plica">>, <<"sen", "tinel">>}}
    \cup {Info(BulkReply(InfoBody(<<"sla", "ve">>)), <<"re", "plica">>),
          Info(BulkReply(<<"a">> \o EOL), NoRole)}
    \cup {Info(r, NoRole) : r \in {NullReply, ErrorReply, OkReply, EOL}}

MCSessions ==
    MonitorSessions \cup InfoSessions
    \cup {[ss EXCEPT !.auth = a] : ss \in InfoSessions, a \in {OkReply, ErrorReply}}

MCSubcommands == {<<"A">>}
=============================================================================
