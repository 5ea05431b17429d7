------------------------ MODULE MonitorStreamProofs ------------------------
(***************************************************************************)
(* The bytes of one connection, whatever the pieces in which they arrive:  *)
(*   - every line given to Parse is one whole line of what was sent, none  *)
(*     is lost, and the loop of parseQuotedArgs advances, for any server;  *)
(*   - Parse undoes what Redis prints of an entry, for any words;          *)
(*   - the lines received whole become their events, each once and in      *)
(*     order; queryRole returns the role that Redis reports;               *)
(*   - what is printed of an event can be read back.                       *)
(***************************************************************************)
EXTENDS MonitorStream, SequenceTheorems, FiniteSetTheorems, WellFoundedInduction, TLAPS

Symbols == Seq(STRING)

(* A set of natural numbers that is not empty has a least one.             *)
LEMMA MinOfNat ==
    ASSUME NEW S, S \subseteq Nat, S # {}
    PROVE  Min(S) \in S /\ \A y \in S : Min(S) <= y
<1>1. PICK x \in S : \A y \in S : ~(<<y, x>> \in OpToRel(<, Nat))
    BY NatLessThanWellFounded, WFMin
<1>2. \A y \in S : x <= y
    <2> SUFFICES ASSUME NEW y \in S, ~(x <= y) PROVE FALSE
        OBVIOUS
    <2>1. y \in Nat /\ x \in Nat /\ y < x
        OBVIOUS
    <2>2. <<y, x>> \in OpToRel(<, Nat)
        BY <2>1 DEF OpToRel
    <2> QED
        BY <1>1, <2>2
<1> QED
    BY <1>1, <1>2 DEF Min

(* A bounded one has a greatest.                                           *)
LEMMA MaxOfNat ==
    ASSUME NEW n \in Nat, NEW S, S \subseteq 0..n, S # {}
    PROVE  Max(S) \in S /\ \A y \in S : Max(S) >= y
<1> DEFINE T == {k \in Nat : k <= n /\ n - k \in S}
<1>1. PICK x : x \in S
    OBVIOUS
<1>2. n - x \in T
    BY <1>1
<1>3. Min(T) \in T /\ \A y \in T : Min(T) <= y
    BY <1>2, MinOfNat
<1> DEFINE m == Min(T)
<1> HIDE DEF m
<1>4. m \in Nat /\ n - m \in S
    BY <1>3 DEF m
<1>5. ASSUME NEW y \in S PROVE n - m >= y
    <2>1. n - y \in T
        OBVIOUS
    <2>2. m <= n - y
        BY <1>3, <2>1 DEF m
    <2> QED
        BY <1>4, <2>2
<1> QED
    BY <1>4, <1>5 DEF Max

(* A part of a sequence of symbols.                                        *)
LEMMA PartTypes ==
    ASSUME NEW t \in Symbols, NEW m \in Nat, NEW n \in Nat, m >= 1, n <= Len(t)
    PROVE  SubSeq(t, m, n) \in Symbols
<1>1. \A k \in m..n : t[k] \in STRING
    BY DEF Symbols
<1> QED
    BY <1>1, SubSeqProperties DEF Symbols

(* What follows the first n symbols.                                       *)
LEMMA FromTypes ==
    ASSUME NEW t \in Symbols, NEW n \in Nat
    PROVE  From(t, n + 1) \in Symbols
BY PartTypes DEF From, Symbols

(* A sequence is its first n symbols and what follows.                     *)
LEMMA FromSplits ==
    ASSUME NEW t \in Symbols, NEW n \in 0..Len(t)
    PROVE  /\ SubSeq(t, 1, n) \in Symbols /\ From(t, n + 1) \in Symbols
           /\ SubSeq(t, 1, n) \o From(t, n + 1) = t
<1>1. SubSeq(t, 1, n) \in Symbols /\ From(t, n + 1) \in Symbols
    BY PartTypes, FromTypes DEF Symbols
<1>2. CASE n = 0
    <2>1. SubSeq(t, 1, n) = <<>>
        BY <1>2, SubSeqEmpty DEF Symbols
    <2>2. From(t, n + 1) = t
        BY <1>2, SubSeqFull DEF From, Symbols
    <2> QED
        BY <1>1, <2>1, <2>2, ConcatEmptySeq DEF Symbols
<1>3. CASE n # 0
    <2>1. n \in Nat /\ Len(t) \in Nat
        BY DEF Symbols
    <2>2. SubSeq(t, 1, n) \o SubSeq(t, n + 1, Len(t)) = SubSeq(t, 1, Len(t))
        <3>1. 1 \in 1..Len(t) + 1 /\ n \in (1 - 1)..Len(t) /\ Len(t) \in n..Len(t) /\ t \in Seq(STRING)
            BY <2>1 DEF Symbols
        <3> QED
            BY <3>1, ConcatAdjacentSubSeq
    <2> QED
        BY <1>1, <2>2, SubSeqFull DEF From, Symbols
<1> QED
    BY <1>1, <1>2, <1>3

(* IndexOf is 0, or the first place of the symbol.                         *)
LEMMA IndexOfFirst ==
    ASSUME NEW t \in Symbols, NEW c
    PROVE  /\ IndexOf(t, c) \in 0..Len(t)
           /\ IndexOf(t, c) # 0 => t[IndexOf(t, c)] = c /\ \A k \in 1..IndexOf(t, c) - 1 : t[k] # c
<1> DEFINE I == {k \in 1..Len(t) : t[k] = c}
<1>1. IndexOf(t, c) = IF I # {} THEN Min(I) ELSE 0
    BY DEF IndexOf, SelectInSeq
<1>2. Len(t) \in Nat
    BY DEF Symbols
<1>3. CASE I = {}
    BY <1>1, <1>2, <1>3
<1>4. CASE I # {}
    <2>1. I \subseteq Nat
        BY <1>2
    <2>2. Min(I) \in I /\ \A y \in I : Min(I) <= y
        BY <1>4, <2>1, MinOfNat
    <2> DEFINE m == Min(I)
    <2> HIDE DEF m
    <2>3. m \in 1..Len(t) /\ t[m] = c
        BY <2>2 DEF m
    <2>4. ASSUME NEW k \in 1..m - 1 PROVE t[k] # c
        <3>1. k \notin I
            BY <1>2, <2>2, <2>3 DEF m
        <3> QED
            BY <1>2, <2>3, <3>1
    <2> QED
        BY <1>1, <1>2, <1>4, <2>3, <2>4 DEF m
<1> QED
    BY <1>3, <1>4

(* TrimEnd, TrimLeft and the closing bracket are inside the sequence.      *)
LEMMA TrimEndTypes == ASSUME NEW t \in Symbols PROVE TrimEnd(t) \in Symbols
<1> DEFINE S == {0} \cup {k \in DOMAIN t : t[k] \notin {"CR", "NL"}}
<1>1. Len(t) \in Nat /\ S \subseteq 0..Len(t) /\ S # {}
    BY DEF Symbols
<1>2. Max(S) \in 0..Len(t)
    BY <1>1, MaxOfNat
<1>3. TrimEnd(t) = SubSeq(t, 1, Max(S))
    BY DEF TrimEnd
<1> HIDE DEF S
<1> QED
    BY <1>2, <1>3, FromSplits

(* The same for the blanks before an argument.                             *)
LEMMA TrimLeftTypes == ASSUME NEW t \in Symbols PROVE TrimLeft(t) \in Symbols
<1> DEFINE S == {k \in DOMAIN t : t[k] \notin Blanks}
<1>1. TrimLeft(t) = IF S = {} THEN <<>> ELSE SubSeq(t, Min(S), Len(t))
    BY DEF TrimLeft
<1>2. Len(t) \in Nat /\ S \subseteq 1..Len(t) /\ <<>> \in Symbols
    BY DEF Symbols
<1> HIDE DEF S
<1>3. CASE S = {}
    BY <1>1, <1>2, <1>3
<1>4. CASE S # {}
    <2>1. S \subseteq Nat
        BY <1>2
    <2>2. Min(S) \in 1..Len(t)
        BY <1>2, <1>4, <2>1, MinOfNat
    <2> QED
        BY <1>1, <1>2, <1>4, <2>2, PartTypes
<1> QED
    BY <1>3, <1>4

(* And for the closing bracket.                                            *)
LEMMA CloseIndexTypes == ASSUME NEW t \in Symbols PROVE CloseIndex(t) \in 0..Len(t)
<1> DEFINE S == {k \in 2..Len(t) : Closes(t, k)}
<1>1. CloseIndex(t) = IF S = {} THEN 0 ELSE Min(S)
    BY DEF CloseIndex
<1>2. Len(t) \in Nat /\ S \subseteq 2..Len(t)
    BY DEF Symbols
<1> HIDE DEF S
<1>3. CASE S = {}
    BY <1>1, <1>2, <1>3
<1>4. CASE S # {}
    <2>1. S \subseteq Nat
        BY <1>2
    <2>2. Min(S) \in 2..Len(t)
        BY <1>2, <1>4, <2>1, MinOfNat
    <2> QED
        BY <1>1, <1>2, <1>4, <2>2
<1> QED
    BY <1>3, <1>4

(* Parse leaves the arguments, a part of the line, for the loop.           *)
LEMMA ParseHeadTypes ==
    ASSUME NEW l \in Symbols, ParseHead(l) # NoHead
    PROVE  ParseHead(l).rest \in Symbols
<1> DEFINE t     == IF l # <<>> /\ l[1] = "+" THEN Tail(l) ELSE l
           space == IndexOf(t, " ")
           rest  == From(t, space + 1)
           close == CloseIndex(rest)
<1>1. t \in Symbols
    <2>1. l # <<>> => Tail(l) \in Symbols
        BY DEF Symbols
    <2> QED
        BY <2>1
<1>2. ParseHead(l).rest = TrimLeft(From(rest, close + 1))
    BY DEF ParseHead
<1> HIDE DEF t
<1>3. space \in Nat
    <2>1. Len(t) \in Nat
        BY <1>1 DEF Symbols
    <2>2. space \in 0..Len(t)
        BY <1>1, IndexOfFirst
    <2> HIDE DEF space
    <2> QED
        BY <2>1, <2>2
<1> HIDE DEF space
<1>4. rest \in Symbols
    BY <1>1, <1>3, FromTypes
<1> HIDE DEF rest
<1>5. close \in Nat
    BY <1>4, CloseIndexTypes DEF Symbols
<1> HIDE DEF close
<1> QED
    BY <1>2, <1>4, <1>5, FromTypes, TrimLeftTypes

-----------------------------------------------------------------------------
(* All that the server has sent, and the part that is not yet consumed.    *)
Sent == session.auth \o (IF asked THEN Answer(session) ELSE <<>>)

ToCome == rd \o net

AtLineStart(q) == q = <<>> \/ q[Len(q)] = "NL"

(* The client stands at the beginning of a line of what was sent.          *)
Standing(rest, sent) == \E q \in Symbols : AtLineStart(q) /\ q \o rest = sent

InParse == pc \in {"head", "args", "done"}

StreamTypes ==
    /\ session \in Sessions /\ rd \in Symbols /\ net \in Symbols /\ Sent \in Symbols
    /\ i \in Nat \ {0}
    /\ pc = "auth" => ~asked
    /\ InParse => line \in Symbols
    /\ pc = "args" => s \in Symbols

StreamInv ==
    pc # "closed" =>
        /\ StreamTypes
        /\ Standing(ToCome, Sent)
        /\ InParse => IsLine(line) /\ Standing(line \o ToCome, Sent)

(* Putting sequences of symbols together.                                  *)
LEMMA Together == \A a, b \in Symbols : a \o b \in Symbols
BY DEF Symbols

(* And in which order.                                                     *)
LEMMA Regroup == \A a, b, c \in Symbols : (a \o b) \o c = a \o (b \o c)
BY ConcatAssociative DEF Symbols

(* What the bufio.Reader returns: one line, and the rest is kept.          *)
LEMMA LineTaken ==
    ASSUME NEW r \in Symbols, NEW n \in Symbols, IndexOf(r, "NL") # 0
    PROVE  LET k == IndexOf(r, "NL")
               l == SubSeq(r, 1, k)
           IN  /\ l \in Symbols /\ From(r, k + 1) \in Symbols
               /\ IsLine(l)
               /\ r \o n = l \o (From(r, k + 1) \o n)
<1> DEFINE k == IndexOf(r, "NL")
           l == SubSeq(r, 1, k)
           left == From(r, k + 1)
<1>1. k \in 1..Len(r) /\ r[k] = "NL" /\ \A j \in 1..k - 1 : r[j] # "NL"
    <2>1. Len(r) \in Nat /\ k \in 0..Len(r)
        BY IndexOfFirst DEF Symbols
    <2>2. r[k] = "NL" /\ \A j \in 1..k - 1 : r[j] # "NL"
        BY IndexOfFirst
    <2> HIDE DEF k
    <2>3. k # 0
        BY DEF k
    <2> QED
        BY <2>1, <2>2, <2>3
<1> HIDE DEF k
<1>2. Len(r) \in Nat /\ k \in Nat /\ k \in 0..Len(r)
    BY <1>1 DEF Symbols
<1>3. l \in Symbols /\ left \in Symbols /\ l \o left = r
    BY <1>2, FromSplits
<1>4. Len(l) = k /\ \A j \in 1..k : l[j] = r[j]
    <2>1. \A j \in 1..k : r[j] \in STRING
        BY <1>1, <1>2 DEF Symbols
    <2>2. /\ Len(SubSeq(r, 1, k)) = IF 1 <= k THEN k - 1 + 1 ELSE 0
          /\ \A j \in 1..k - 1 + 1 : SubSeq(r, 1, k)[j] = r[1 + j - 1]
        BY <1>2, <2>1, SubSeqProperties
    <2> QED
        BY <1>1, <1>2, <2>2
<1>5. IsLine(l)
    <2> HIDE DEF l
    <2>1. l # <<>> /\ l[k] = "NL" /\ \A j \in 1..k - 1 : l[j] # "NL"
        BY <1>1, <1>2, <1>3, <1>4 DEF Symbols
    <2> QED
        BY <1>3, <1>4, <2>1 DEF IsLine, Symbols
<1> HIDE DEF l, left
<1>6. r \o n = l \o (left \o n)
    <2>0. l \in Symbols /\ left \in Symbols
        BY <1>3
    <2>1. (l \o left) \o n = l \o (left \o n)
        BY <2>0, Regroup
    <2>2. l \o left = r
        BY <1>3
    <2> QED
        BY <2>1, <2>2, Zenon
<1> QED
    BY <1>3, <1>5, <1>6 DEF k, l, left

(* After a line the client stands at the beginning of the next one.        *)
LEMMA StandingMoves ==
    ASSUME NEW l \in Symbols, NEW rest \in Symbols, NEW sent, IsLine(l), Standing(l \o rest, sent)
    PROVE  Standing(rest, sent)
<1>1. PICK q \in Symbols : AtLineStart(q) /\ q \o (l \o rest) = sent
    BY DEF Standing
<1>2. q \o l \in Symbols /\ (q \o l) \o rest = sent
    BY <1>1, Together, Regroup
<1>3. (q \o l)[Len(q \o l)] = "NL"
    <2>1. Len(l) \in Nat /\ Len(l) >= 1 /\ Len(q) \in Nat /\ l[Len(l)] = "NL"
        BY DEF IsLine, Symbols
    <2>2. Len(q \o l) = Len(q) + Len(l) /\ (q \o l)[Len(q) + Len(l)] = l[Len(l)]
        BY <2>1 DEF Symbols
    <2> QED
        BY <2>1, <2>2
<1> QED
    BY <1>2, <1>3 DEF Standing, AtLineStart

(* More that is sent does not change where the client stands.              *)
LEMMA StandingGrows ==
    ASSUME NEW rest \in Symbols, NEW sent, NEW more \in Symbols, Standing(rest, sent)
    PROVE  Standing(rest \o more, sent \o more)
<1>1. PICK q \in Symbols : AtLineStart(q) /\ q \o rest = sent
    BY DEF Standing
<1>2. q \o (rest \o more) = sent \o more
    BY <1>1, Together, Regroup
<1> QED
    BY <1>1, <1>2 DEF Standing

(* A step that leaves the stream alone and starts no parsing.              *)
LEMMA StreamFrame ==
    ASSUME StreamInv, UNCHANGED <<session, asked, rd, net, line>>, pc # "closed",
           i' \in Nat \ {0}, pc' # "auth", InParse' => InParse, pc' = "args" => s' \in Symbols
    PROVE  StreamInv'
<1>1. Sent' = Sent /\ ToCome' = ToCome
    BY DEF Sent, ToCome
<1>2. StreamTypes /\ Standing(ToCome, Sent) /\ (InParse => IsLine(line) /\ Standing(line \o ToCome, Sent))
    BY DEF StreamInv
<1>3. StreamTypes'
    BY <1>1, <1>2 DEF StreamTypes, InParse
<1>4. Standing(ToCome', Sent') /\ (InParse' => IsLine(line') /\ Standing(line' \o ToCome', Sent'))
    BY <1>1, <1>2
<1> QED
    BY <1>3, <1>4 DEF StreamInv

(* Every step of the connection.                                           *)
LEMMA StreamStep == StreamInv /\ [Next]_vars => StreamInv'
<1> SUFFICES ASSUME StreamInv, [Next]_vars PROVE StreamInv'
    OBVIOUS
<1> SUFFICES ASSUME pc # "closed", pc' # "closed" PROVE StreamInv'
    <2>1. CASE pc = "closed"
        <3>1. pc' = "closed"
            <4>1. ~ParseNext
                BY <2>1 DEF ParseNext, ReadHead, SkipBlank, OpenQuote, Unexpected, Outside, Inside, HexEscape, Escape,
                            CloseQuote, Literal, EndOfLine
            <4>2. ~Arrive /\ ~Break
                BY <2>1 DEF Arrive, Break, Waiting
            <4>3. ~ReadAuth /\ ~ReadReply /\ ~ReadLine /\ ~ParseReturns /\ ~ReadHeader /\ ~ReadBody
                BY <2>1 DEF ReadAuth, ReadReply, ReadLine, ParseReturns, ReadHeader, ReadBody
            <4> QED
                BY <2>1, <4>1, <4>2, <4>3 DEF Next, Parsing, Finished, vars, parserVars
        <3> QED
            BY <3>1 DEF StreamInv
    <2>2. CASE pc' = "closed"
        BY <2>2 DEF StreamInv
    <2> QED
        BY <2>1, <2>2
<1>0. /\ StreamTypes /\ rd \in Symbols /\ net \in Symbols /\ Sent \in Symbols /\ ToCome \in Symbols
      /\ i \in Nat \ {0} /\ Standing(ToCome, Sent)
      /\ InParse => line \in Symbols /\ IsLine(line) /\ Standing(line \o ToCome, Sent)
    BY Together DEF StreamInv, StreamTypes, ToCome
<1> DEFINE l == FirstLine
           left == From(rd, LineEnd + 1)
<1>t. ASSUME HasLine
      PROVE  l \in Symbols /\ left \in Symbols /\ IsLine(l) /\ ToCome = l \o (left \o net) /\ left \o net \in Symbols
             /\ Standing(left \o net, Sent)
    <2>1. l \in Symbols /\ left \in Symbols /\ IsLine(l) /\ ToCome = l \o (left \o net)
        BY <1>0, <1>t, LineTaken DEF HasLine, LineEnd, FirstLine, ToCome
    <2> HIDE DEF l, left
    <2>2. left \o net \in Symbols
        BY <1>0, <2>1, Together
    <2>3. Standing(l \o (left \o net), Sent)
        BY <1>0, <2>1
    <2> QED
        BY <2>1, <2>2, <2>3, StandingMoves
<1> HIDE DEF l, left
<1>1. CASE Arrive
    <2>1. PICK n \in 1..Len(net) : rd' = rd \o SubSeq(net, 1, n) /\ net' = From(net, n + 1)
        BY <1>1 DEF Arrive
    <2>2. UNCHANGED <<parserVars, session, asked>>
        BY <1>1 DEF Arrive
    <2>3. UNCHANGED <<pc, line, s, i, session, asked>>
        BY <2>2 DEF parserVars, given
    <2>4. n \in 0..Len(net)
        BY <1>0 DEF Symbols
    <2> DEFINE a == SubSeq(net, 1, n)
               b == From(net, n + 1)
    <2>5. a \in Symbols /\ b \in Symbols /\ a \o b = net
        BY <1>0, <2>4, FromSplits
    <2> HIDE DEF a, b
    <2>6. rd' = rd \o a /\ net' = b
        BY <2>1 DEF a, b
    <2>7. rd' \in Symbols /\ net' \in Symbols /\ ToCome' = ToCome
        <3>0. rd \in Symbols /\ a \in Symbols /\ b \in Symbols
            BY <1>0, <2>5
        <3>1. rd \o a \in Symbols /\ (rd \o a) \o b = rd \o (a \o b)
            BY <3>0, Together, Regroup
        <3> QED
            BY <2>5, <2>6, <3>1 DEF ToCome
    <2>8. Sent' = Sent
        BY <2>3 DEF Sent
    <2>9. StreamTypes'
        BY <1>0, <2>3, <2>7, <2>8 DEF StreamTypes, InParse
    <2>10. InParse' => InParse
        BY <2>3 DEF InParse
    <2> QED
        BY <1>0, <2>3, <2>7, <2>8, <2>9, <2>10 DEF StreamInv
<1>2. CASE ReadAuth
    <2>1. HasLine /\ pc = "auth" /\ ~asked /\ rd' = left /\ UNCHANGED <<given, i, session>>
        BY <1>0, <1>2 DEF ReadAuth, StreamTypes, left
    <2>2. pc' = AskPc(session) /\ asked' = TRUE /\ net' = net \o Answer(session)
        BY <1>2 DEF ReadAuth
    <2>3. pc' \in {"reply", "header"}
        BY <2>2 DEF AskPc
    <2> DEFINE A == Answer(session)
    <2>4. A \in Symbols /\ session.auth \in Symbols
        BY <1>0, SessionsAssumption DEF StreamTypes, Symbols
    <2>5. Sent = session.auth
        BY <2>1, <2>4, ConcatEmptySeq DEF Sent, Symbols
    <2>6. Sent' = Sent \o A
        BY <2>1, <2>2, <2>5 DEF Sent
    <2> HIDE DEF A
    <2>7. rd' \in Symbols /\ net' \in Symbols /\ Sent' \in Symbols /\ ToCome' = (left \o net) \o A
        <3>1. net' = net \o A
            BY <2>2 DEF A
        <3>2. net \o A \in Symbols /\ Sent \o A \in Symbols /\ (left \o net) \o A = left \o (net \o A)
            <4>1. left \in Symbols /\ net \in Symbols /\ A \in Symbols /\ Sent \in Symbols
                BY <1>0, <1>t, <2>1, <2>4
            <4>2. net \o A \in Symbols /\ Sent \o A \in Symbols
                BY <4>1, Together
            <4>3. (left \o net) \o A = left \o (net \o A)
                BY <4>1, Regroup
            <4> QED
                BY <4>2, <4>3
        <3> QED
            BY <1>t, <2>1, <2>6, <3>1, <3>2 DEF ToCome
    <2>8. Standing((left \o net) \o A, Sent \o A)
        BY <1>t, <2>1, <2>4, StandingGrows
    <2>9. StreamTypes'
        BY <1>0, <2>1, <2>3, <2>7 DEF StreamTypes, InParse
    <2> QED
        BY <2>3, <2>6, <2>7, <2>8, <2>9 DEF StreamInv, InParse
<1>3. CASE ReadReply \/ ReadHeader
    <2>1. HasLine /\ rd' = left /\ UNCHANGED <<given, i, session, asked, net>> /\ pc' \in {"read", "body"}
        BY <1>3 DEF ReadReply, ReadHeader, left
    <2>2. Sent' = Sent /\ ToCome' = left \o net
        BY <2>1 DEF Sent, ToCome
    <2>3. StreamTypes'
        BY <1>0, <1>t, <2>1, <2>2 DEF StreamTypes, InParse
    <2> QED
        BY <1>t, <2>1, <2>2, <2>3 DEF StreamInv, InParse
<1>4. CASE ReadLine
    <2>1. HasLine /\ rd' = left /\ line' = l /\ UNCHANGED <<i, session, asked, net>> /\ pc' \in {"head", "read"}
        BY <1>4 DEF ReadLine, left, l
    <2>2. Sent' = Sent /\ ToCome' = left \o net
        BY <2>1 DEF Sent, ToCome
    <2>3. StreamTypes'
        BY <1>0, <1>t, <2>1, <2>2 DEF StreamTypes, InParse
    <2>4. IsLine(line') /\ Standing(line' \o ToCome', Sent')
        BY <1>0, <1>t, <2>1, <2>2
    <2> QED
        BY <1>t, <2>1, <2>2, <2>3, <2>4 DEF StreamInv
<1>5. CASE Parsing
    <2>1. UNCHANGED <<session, asked, rd, net, line>> /\ pc \in {"head", "args"} /\ pc' \in {"args", "done"}
        BY <1>5 DEF Parsing, ParseNext, streamVars, given, ReadHead, Fail, SkipBlank, OpenQuote, Unexpected, HexEscape,
                    Escape, CloseQuote, Literal, EndOfLine, Outside, Inside, Collect
    <2>2. i' \in Nat \ {0}
        <3>1. i' = i \/ i' = i + 1 \/ i' = i + 2 \/ i' = i + 4
            BY <1>5 DEF Parsing, ParseNext, ReadHead, SkipBlank, OpenQuote, Unexpected, HexEscape,
                        Escape, CloseQuote, Literal, EndOfLine, Collect
        <3> QED
            BY <1>0, <3>1
    <2>3. pc' = "args" => s' \in Symbols
        <3>1. CASE ReadHead
            <4> SUFFICES ASSUME pc' = "args" PROVE s' \in Symbols
                OBVIOUS
            <4>1. head' = ParseHead(TrimEnd(line)) /\ head' # NoHead /\ s' = head'.rest
                BY <3>1 DEF ReadHead, Fail
            <4>2. TrimEnd(line) \in Symbols
                BY <1>0, <3>1, TrimEndTypes DEF ReadHead, InParse
            <4> QED
                BY <4>1, <4>2, ParseHeadTypes
        <3>2. CASE pc = "args" /\ s' = s
            BY <1>0, <3>2 DEF StreamTypes
        <3> QED
            BY <1>5, <3>1, <3>2 DEF Parsing, ParseNext, SkipBlank, OpenQuote, Unexpected, HexEscape,
                    Escape, CloseQuote, Literal, EndOfLine, Collect, Outside, Inside, given
    <2>4. InParse
        BY <2>1 DEF InParse
    <2>5. pc' # "auth"
        BY <2>1
    <2> QED
        BY <2>1, <2>2, <2>3, <2>4, <2>5, StreamFrame
<1>6. CASE ParseReturns
    <2>1. UNCHANGED <<session, asked, rd, net>> /\ pc' = "read" /\ i' = 1
        BY <1>6 DEF ParseReturns
    <2>2. Sent' = Sent /\ ToCome' = ToCome
        BY <2>1 DEF Sent, ToCome
    <2>3. StreamTypes'
        BY <1>0, <2>1, <2>2 DEF StreamTypes, InParse
    <2> QED
        BY <1>0, <2>1, <2>2, <2>3 DEF StreamInv, InParse
<1>7. CASE UNCHANGED vars
    <2>1. UNCHANGED <<session, asked, rd, net, line, i, pc, s>>
        BY <1>7 DEF vars, streamVars, parserVars, given
    <2>2. Sent' = Sent /\ ToCome' = ToCome
        BY <2>1 DEF Sent, ToCome
    <2>3. StreamTypes'
        BY <1>0, <2>1, <2>2 DEF StreamTypes, InParse
    <2>4. InParse' => InParse
        BY <2>1 DEF InParse
    <2> QED
        BY <1>0, <2>1, <2>2, <2>3, <2>4 DEF StreamInv
<1> QED
    BY <1>1, <1>2, <1>3, <1>4, <1>5, <1>6, <1>7 DEF Next, Break, ReadBody, Finished

(* And the beginning of it.                                                *)
LEMMA StreamInit == Init => StreamInv
<1> SUFFICES ASSUME Init PROVE StreamInv
    OBVIOUS
<1> DEFINE A == Answer(session)
<1>1. session \in Sessions /\ session.auth \in Symbols /\ A \in Symbols /\ <<>> \in Symbols
    BY SessionsAssumption DEF Init, Symbols
<1> HIDE DEF A
<1>2. pc \in {"auth", "reply", "header"} /\ rd = <<>> /\ i = 1 /\ (pc = "auth" => ~asked)
    BY DEF Init, AskPc, ParserInit
<1>3. net \in Symbols /\ Sent = net
    <2>1. CASE asked
        <3>1. net = A /\ Sent = <<>> \o A
            BY <2>1 DEF Init, Sent, A
        <3> QED
            BY <1>1, <3>1, ConcatEmptySeq DEF Symbols
    <2>2. CASE ~asked
        <3>1. net = session.auth /\ Sent = session.auth \o <<>>
            BY <2>2 DEF Init, Sent
        <3> QED
            BY <1>1, <3>1, ConcatEmptySeq DEF Symbols
    <2> QED
        BY <2>1, <2>2
<1>4. ToCome = Sent
    BY <1>2, <1>3, ConcatEmptySeq DEF ToCome, Symbols
<1>5. Standing(ToCome, Sent)
    <2>1. <<>> \o ToCome = Sent
        BY <1>3, <1>4, ConcatEmptySeq DEF Symbols
    <2> QED
        BY <1>1, <2>1 DEF Standing, AtLineStart
<1>6. StreamTypes
    BY <1>1, <1>2, <1>3 DEF StreamTypes, InParse
<1> QED
    BY <1>2, <1>5, <1>6 DEF StreamInv, InParse

(* The stream invariant.                                                   *)
LEMMA StreamInvariant == Spec => []StreamInv
<1>1. Init => StreamInv
    BY StreamInit
<1>2. StreamInv /\ [Next]_vars => StreamInv'
    BY StreamStep
<1> QED
    BY <1>1, <1>2, PTL DEF Spec

-----------------------------------------------------------------------------
(* Whatever is being parsed is one whole line of what the server sent: it  *)
(* begins where a line begins, ends with the first newline after that, and *)
(* what the reader still holds continues it, in however many pieces the    *)
(* stream arrived.                                                         *)
WholeLines == InParse => IsLine(line) /\ Standing(line \o ToCome, Sent)

(* readLoop never parses half a line, nor two at once, nor a piece left    *)
(* over by the handshake.                                                  *)
THEOREM ParsedLinesAreWhole == Spec => []WholeLines
<1>1. StreamInv => WholeLines
    BY DEF StreamInv, WholeLines, InParse
<1> QED
    BY <1>1, StreamInvariant, PTL

InLoop == pc \in {"read", "head", "args", "done"}

(* A step of the loop takes nothing of the stream, or one line.            *)
NoneOrALine ==
    \/ ToCome' = ToCome
    \/ pc = "read" /\ IsLine(line') /\ ToCome = line' \o ToCome'

(* Once the loop has begun the stream is consumed a line at a time: a step *)
(* takes nothing of it, or exactly its first line.                         *)
LineByLine == [][InLoop => NoneOrALine]_vars

(* Together with ParsedLinesAreWhole: no line is lost between two others,  *)
(* whatever the pieces (readLoop, one bufio.Reader for the session).       *)
THEOREM NoLineIsLost == Spec => LineByLine
<1>1. ASSUME StreamInv, [Next]_vars, InLoop
      PROVE  NoneOrALine
    <2>0. rd \in Symbols /\ net \in Symbols
        BY <1>1 DEF StreamInv, StreamTypes, InLoop
    <2>1. CASE Arrive
        <3>1. PICK n \in 1..Len(net) : rd' = rd \o SubSeq(net, 1, n) /\ net' = From(net, n + 1)
            BY <2>1 DEF Arrive
        <3>2. n \in 0..Len(net)
            BY <2>0 DEF Symbols
        <3> DEFINE a == SubSeq(net, 1, n)
                   b == From(net, n + 1)
        <3>3. a \in Symbols /\ b \in Symbols /\ a \o b = net
            BY <2>0, <3>2, FromSplits
        <3> HIDE DEF a, b
        <3>4. rd' = rd \o a /\ net' = b
            BY <3>1 DEF a, b
        <3>5. (rd \o a) \o b = rd \o (a \o b)
            BY <2>0, <3>3, Regroup
        <3> QED
            BY <3>3, <3>4, <3>5 DEF ToCome, NoneOrALine
    <2>2. CASE ReadLine
        <3>1. HasLine /\ pc = "read" /\ line' = FirstLine /\ rd' = From(rd, LineEnd + 1) /\ net' = net
            BY <2>2 DEF ReadLine
        <3>2. IsLine(FirstLine) /\ rd \o net = FirstLine \o (From(rd, LineEnd + 1) \o net)
            BY <2>0, <3>1, LineTaken DEF HasLine, LineEnd, FirstLine
        <3> QED
            BY <3>1, <3>2 DEF ToCome, NoneOrALine
    <2>3. CASE UNCHANGED <<rd, net>>
        BY <2>3 DEF ToCome, NoneOrALine
    <2> QED
        BY <1>1, <2>1, <2>2, <2>3 DEF Next, Break, ReadAuth, ReadReply, Parsing, ParseReturns, ReadHeader, ReadBody,
            Finished, vars, streamVars, InLoop
<1>2. StreamInv /\ [Next]_vars => [InLoop => NoneOrALine]_vars
    BY <1>1
<1> QED
    BY <1>2, StreamInvariant, PTL DEF Spec, LineByLine

-----------------------------------------------------------------------------
(* parseQuotedArgs: every branch of the loop advances and none passes the  *)
(* end of the line, whatever the line.                                     *)
THEOREM ParserAdvances == Spec => LoopAdvances
<1>1. ASSUME StreamInv, [Next]_vars, pc = "args"
      PROVE  UNCHANGED parserVars \/ pc' = "done" \/ (i' > i /\ i' <= Len(s) + 1)
    <2>0. i \in Nat /\ Len(s) \in Nat
        BY <1>1 DEF StreamInv, StreamTypes, Symbols
    <2>1. ParseNext \/ UNCHANGED vars
        BY <1>1 DEF Next, Arrive, Break, Waiting, ReadAuth, ReadReply, ReadLine, Parsing, ParseReturns, ReadHeader,
            ReadBody, Finished
    <2>2. CASE UNCHANGED vars
        BY <2>2 DEF vars
    <2>3. CASE SkipBlank \/ OpenQuote \/ CloseQuote \/ Literal
        <3>1. i' = i + 1 /\ i <= Len(s)
            BY <2>3 DEF SkipBlank, OpenQuote, CloseQuote, Literal, Outside, Inside, Collect
        <3> QED
            BY <2>0, <3>1
    <2>4. CASE HexEscape \/ Escape
        BY <2>0, <2>4 DEF HexEscape, Escape, IsHexEscape, IsEscape, Collect
    <2>5. CASE Unexpected \/ EndOfLine
        BY <2>5 DEF Unexpected, EndOfLine, Fail
    <2>6. ~ReadHead
        BY <1>1 DEF ReadHead
    <2> QED
        BY <2>1, <2>2, <2>3, <2>4, <2>5, <2>6 DEF ParseNext
<1>2. StreamInv /\ [Next]_vars => [pc = "args" => pc' = "done" \/ (i' > i /\ i' <= Len(s) + 1)]_parserVars
    BY <1>1
<1> QED
    BY <1>2, StreamInvariant, PTL DEF Spec, LoopAdvances

-----------------------------------------------------------------------------
(* Sequences put together from parts (FlattenSeq): where each part is.     *)

(* The parts of w put together one after the other, up to the n-th.        *)
Joins(g, w, n) == g = [k \in 1..n |-> IF k = 1 THEN w[k] ELSE g[k - 1] \o w[k]]

(* What \o does.                                                           *)
LEMMA Concatenation ==
    ASSUME NEW A, NEW a \in Seq(A), NEW b \in Seq(A)
    PROVE  /\ a \o b \in Seq(A) /\ Len(a \o b) = Len(a) + Len(b)
           /\ \A p \in 1..Len(a) : (a \o b)[p] = a[p]
           /\ \A j \in 1..Len(b) : (a \o b)[Len(a) + j] = b[j]
<1>1. a \o b \in Seq(A) /\ Len(a) \in Nat /\ Len(b) \in Nat
    BY ConcatProperties
<1>2. Len(a \o b) = Len(a) + Len(b) /\ \A p \in 1..Len(a) + Len(b) : (a \o b)[p] = IF p <= Len(a) THEN a[p] ELSE b[p - Len(a)]
    BY ConcatProperties
<1>3. \A p \in 1..Len(a) : (a \o b)[p] = a[p]
    BY <1>1, <1>2
<1>4. ASSUME NEW j \in 1..Len(b) PROVE (a \o b)[Len(a) + j] = b[j]
    <2>1. Len(a) + j \in 1..Len(a) + Len(b) /\ ~(Len(a) + j <= Len(a)) /\ (Len(a) + j) - Len(a) = j
        BY <1>1
    <2> QED
        BY <1>2, <2>1
<1> QED
    BY <1>1, <1>2, <1>3, <1>4

(* Sequences of one, two and four elements.                                *)
LEMMA Tuples ==
    ASSUME NEW A, NEW a \in A, NEW b \in A, NEW c \in A, NEW d \in A
    PROVE  /\ <<a>> \in Seq(A) /\ Len(<<a>>) = 1 /\ <<a>>[1] = a
           /\ <<a, b>> \in Seq(A) /\ Len(<<a, b>>) = 2
           /\ <<a, b, c, d>> \in Seq(A) /\ Len(<<a, b, c, d>>) = 4
OBVIOUS

(* One element before a sequence.                                          *)
LEMMA Prefixed ==
    ASSUME NEW A, NEW c \in A, NEW t \in Seq(A), NEW x, x = <<c>> \o t
    PROVE  /\ x \in Seq(A) /\ Len(t) \in Nat /\ Len(x) = Len(t) + 1 /\ x[1] = c
           /\ \A p \in 1..Len(t) : x[p + 1] = t[p]
<1> DEFINE q == <<c>>
<1>1. q \in Seq(A) /\ Len(q) = 1 /\ q[1] = c /\ Len(t) \in Nat
    BY Tuples
<1>0. q \in Seq(A) /\ x = q \o t
    BY <1>1
<1> HIDE DEF q
<1>2. x \in Seq(A) /\ Len(x) = Len(q) + Len(t)
    BY <1>0, Concatenation
<1>3. (\A p \in 1..Len(q) : x[p] = q[p]) /\ \A j \in 1..Len(t) : x[Len(q) + j] = t[j]
    BY <1>0, Concatenation
<1>4. ASSUME NEW p \in 1..Len(t) PROVE x[p + 1] = t[p]
    <2>1. p + 1 = Len(q) + p
        BY <1>1
    <2> QED
        BY <1>3, <2>1
<1>5. x[1] = c /\ Len(x) = Len(t) + 1
    BY <1>1, <1>2, <1>3
<1> QED
    BY <1>1, <1>2, <1>4, <1>5

(* One element after it.                                                   *)
LEMMA Suffixed ==
    ASSUME NEW A, NEW c \in A, NEW t \in Seq(A), NEW x, x = t \o <<c>>
    PROVE  /\ x \in Seq(A) /\ Len(t) \in Nat /\ Len(x) = Len(t) + 1 /\ x[Len(t) + 1] = c
           /\ \A p \in 1..Len(t) : x[p] = t[p]
<1> DEFINE q == <<c>>
<1>1. q \in Seq(A) /\ Len(q) = 1 /\ q[1] = c /\ Len(t) \in Nat
    BY Tuples
<1>0. q \in Seq(A) /\ x = t \o q
    BY <1>1
<1> HIDE DEF q
<1>2. x \in Seq(A) /\ Len(x) = Len(t) + Len(q)
    BY <1>0, Concatenation
<1>3. (\A p \in 1..Len(t) : x[p] = t[p]) /\ \A j \in 1..Len(q) : x[Len(t) + j] = q[j]
    BY <1>0, Concatenation
<1>4. x[Len(t) + 1] = c /\ Len(x) = Len(t) + 1
    BY <1>1, <1>2, <1>3
<1> QED
    BY <1>1, <1>2, <1>3, <1>4

(* One more part can always be added.                                      *)
LEMMA JoinOneMore ==
    ASSUME NEW w, NEW m \in Nat \ {0}, NEW g, Joins(g, w, m - 1)
    PROVE  \E h : Joins(h, w, m)
<1> DEFINE last == IF m = 1 THEN w[m] ELSE g[m - 1] \o w[m]
           h == [k \in 1..m |-> IF k = m THEN last ELSE g[k]]
<1>1. ASSUME NEW k \in 1..m
      PROVE  h[k] = IF k = 1 THEN w[k] ELSE h[k - 1] \o w[k]
    <2>1. CASE k = m
        <3>1. k # 1 => k - 1 \in 1..m /\ k - 1 # m
            BY <2>1
        <3> QED
            BY <2>1, <3>1
    <2>2. CASE k # m
        <3>1. k \in 1..m - 1 /\ (k # 1 => k - 1 \in 1..m /\ k - 1 # m)
            BY <2>2
        <3>2. g[k] = IF k = 1 THEN w[k] ELSE g[k - 1] \o w[k]
            BY <3>1 DEF Joins
        <3> QED
            BY <2>2, <3>1, <3>2
    <2> QED
        BY <2>1, <2>2
<1>2. h = [k \in 1..m |-> h[k]]
    OBVIOUS
<1> HIDE DEF h
<1>3. h = [k \in 1..m |-> IF k = 1 THEN w[k] ELSE h[k - 1] \o w[k]]
    BY <1>1, <1>2
<1> QED
    BY <1>3 DEF Joins

(* So all of them can be put together.                                     *)
LEMMA JoinExists ==
    ASSUME NEW w, NEW n \in Nat
    PROVE  \E g : Joins(g, w, n)
<1> DEFINE S == {k \in Nat : ~\E g : Joins(g, w, k)}
<1> SUFFICES ASSUME S # {} PROVE FALSE
    OBVIOUS
<1> DEFINE m == Min(S)
<1>1. m \in S /\ \A y \in S : m <= y
    BY MinOfNat
<1> HIDE DEF m
<1>2. Joins([k \in 1..0 |-> 0], w, 0)
    BY DEF Joins
<1>3. m # 0
    BY <1>1, <1>2
<1>4. m - 1 \in Nat /\ m - 1 \notin S
    BY <1>1, <1>3
<1> QED
    BY <1>1, <1>3, <1>4, JoinOneMore

(* FlattenSeq is the last of them.                                         *)
LEMMA FlattenJoins ==
    ASSUME NEW w, Len(w) \in Nat, Len(w) # 0
    PROVE  \E g : Joins(g, w, Len(w)) /\ FlattenSeq(w) = g[Len(w)]
<1> DEFINE f == CHOOSE g : g = [k \in 1..Len(w) |-> IF k = 1 THEN w[k] ELSE g[k - 1] \o w[k]]
<1>1. FlattenSeq(w) = f[Len(w)]
    BY DEF FlattenSeq
<1>2. \E g : g = [k \in 1..Len(w) |-> IF k = 1 THEN w[k] ELSE g[k - 1] \o w[k]]
    BY JoinExists DEF Joins
<1>3. f = [k \in 1..Len(w) |-> IF k = 1 THEN w[k] ELSE f[k - 1] \o w[k]]
    BY <1>2, Zenon
<1> QED
    BY <1>1, <1>3 DEF Joins

(* Where each part ends.                                                   *)
Offsets(w, off) ==
    /\ off \in [0..Len(w) -> Nat]
    /\ off[0] = 0
    /\ \A k \in 1..Len(w) : off[k] = off[k - 1] + Len(w[k])

(* The first n parts of w are where off says.                              *)
Laid(t, w, n, off) ==
    /\ Len(t) = off[n]
    /\ \A k \in 1..n : \A j \in 1..Len(w[k]) : t[off[k - 1] + j] = w[k][j]

(* A part ends after the parts before it.                                  *)
LEMMA OffsetsGrow ==
    ASSUME NEW A, NEW w \in Seq(Seq(A)), NEW off, Offsets(w, off), NEW a \in 0..Len(w)
    PROVE  \A b \in a..Len(w) : off[a] <= off[b]
<1>1. Len(w) \in Nat /\ \A k \in 0..Len(w) : off[k] \in Nat
    <2>1. off \in [0..Len(w) -> Nat]
        BY DEF Offsets
    <2> QED
        BY <2>1
<1> DEFINE S == {b \in a..Len(w) : ~(off[a] <= off[b])}
<1> SUFFICES ASSUME S # {} PROVE FALSE
    OBVIOUS
<1>2. S \subseteq Nat
    BY <1>1
<1> DEFINE m == Min(S)
<1>3. m \in S /\ \A y \in S : m <= y
    BY <1>2, MinOfNat
<1> HIDE DEF m
<1>4. m # a
    BY <1>1, <1>3
<1>5. m - 1 \in a..Len(w) /\ m - 1 \notin S /\ m \in 1..Len(w) /\ m - 1 \in 0..Len(w)
    BY <1>1, <1>3, <1>4
<1>6. off[a] <= off[m - 1]
    BY <1>5
<1>7. off[m] = off[m - 1] + Len(w[m]) /\ Len(w[m]) \in Nat
    BY <1>5 DEF Offsets
<1>8. m \in 0..Len(w) /\ off[a] \in Nat /\ off[m] \in Nat /\ off[m - 1] \in Nat
    BY <1>1, <1>5
<1>9. off[a] <= off[m]
    BY <1>6, <1>7, <1>8
<1> QED
    BY <1>3, <1>9

(* One more part.                                                          *)
LEMMA LaidOneMore ==
    ASSUME NEW A, NEW w \in Seq(Seq(A)), NEW off, Offsets(w, off), NEW n \in 1..Len(w),
           NEW x \in Seq(A), Laid(x, w, n - 1, off)
    PROVE  Laid(x \o w[n], w, n, off)
<1>1. /\ Len(w) \in Nat /\ n \in Nat /\ n - 1 \in 0..Len(w)
      /\ Len(x) = off[n - 1] /\ off[n - 1] \in Nat /\ off[n] = off[n - 1] + Len(w[n])
      /\ w[n] \in Seq(A) /\ Len(w[n]) \in Nat
    BY DEF Offsets, Laid
<1> DEFINE t == x \o w[n]
<1>2. /\ Len(t) = Len(x) + Len(w[n])
      /\ \A p \in 1..Len(x) : t[p] = x[p]
      /\ \A j \in 1..Len(w[n]) : t[Len(x) + j] = w[n][j]
    <2>1. x \in Seq(A) /\ w[n] \in Seq(A)
        BY <1>1
    <2> QED
        BY <2>1, Concatenation
<1> HIDE DEF t
<1>3. ASSUME NEW k \in 1..n, NEW j \in 1..Len(w[k]) PROVE t[off[k - 1] + j] = w[k][j]
    <2>1. CASE k = n
        BY <1>1, <1>2, <2>1
    <2>2. CASE k # n
        <3>1. k \in 1..n - 1 /\ k \in 1..Len(w) /\ k - 1 \in 0..Len(w) /\ k \in 0..Len(w) /\ n - 1 \in k..Len(w)
            BY <1>1, <2>2
        <3>2. off[k] <= off[n - 1]
            BY <3>1, OffsetsGrow
        <3>3. off[k] = off[k - 1] + Len(w[k]) /\ off[k - 1] \in Nat /\ off[k] \in Nat /\ Len(w[k]) \in Nat
            <4>1. off[k] = off[k - 1] + Len(w[k]) /\ off \in [0..Len(w) -> Nat]
                BY <3>1 DEF Offsets
            <4>2. w[k] \in Seq(A)
                BY <3>1
            <4>3. Len(w[k]) \in Nat
                BY <4>2
            <4>4. off[k] \in Nat /\ off[k - 1] \in Nat
                BY <3>1, <4>1
            <4> QED
                BY <4>1, <4>3, <4>4
        <3>4. off[k - 1] + j \in 1..Len(x)
            <4>1. j \in Nat /\ 1 <= j /\ j <= Len(w[k])
                BY <3>3
            <4>2. Len(x) \in Nat /\ off[k - 1] + j <= Len(x)
                BY <1>1, <3>2, <3>3, <4>1, SMTT(30)
            <4> QED
                BY <3>3, <4>1, <4>2
        <3>5. x[off[k - 1] + j] = w[k][j]
            BY <3>1 DEF Laid
        <3> QED
            BY <1>2, <3>4, <3>5
    <2> QED
        BY <2>1, <2>2
<1> QED
    BY <1>1, <1>2, <1>3 DEF Laid, t

(* The whole of it.                                                        *)
LEMMA FlattenLaid ==
    ASSUME NEW A, NEW w \in Seq(Seq(A))
    PROVE  /\ FlattenSeq(w) \in Seq(A)
           /\ \E off : Offsets(w, off) /\ Laid(FlattenSeq(w), w, Len(w), off)
<1>1. Len(w) \in Nat /\ DOMAIN w = 1..Len(w) /\ \A k \in 1..Len(w) : w[k] \in Seq(A) /\ Len(w[k]) \in Nat
    OBVIOUS
<1>2. CASE Len(w) = 0
    <2>1. FlattenSeq(w) = w /\ w = <<>>
        BY <1>1, <1>2 DEF FlattenSeq
    <2> DEFINE off == [k \in 0..Len(w) |-> 0]
    <2>2. Offsets(w, off)
        BY <1>2, <2>1 DEF Offsets
    <2>3. Laid(w, w, Len(w), off)
        BY <1>2, <2>1 DEF Laid
    <2> QED
        BY <2>1, <2>2, <2>3
<1>3. CASE Len(w) # 0
    <2>1. PICK g : Joins(g, w, Len(w)) /\ FlattenSeq(w) = g[Len(w)]
        BY <1>1, <1>3, FlattenJoins
    <2>2. \A k \in 1..Len(w) : g[k] = IF k = 1 THEN w[k] ELSE g[k - 1] \o w[k]
        BY <2>1 DEF Joins
    <2>3. \A k \in 1..Len(w) : g[k] \in Seq(A)
        <3> DEFINE S == {k \in 1..Len(w) : g[k] \notin Seq(A)}
        <3> SUFFICES ASSUME S # {} PROVE FALSE
            OBVIOUS
        <3>0. S \subseteq Nat
            BY <1>1
        <3> DEFINE m == Min(S)
        <3>1. m \in S /\ \A y \in S : m <= y
            BY <3>0, MinOfNat
        <3> HIDE DEF m
        <3>2. m # 1
            BY <1>1, <2>2, <3>1
        <3>3. m - 1 \in 1..Len(w) /\ m - 1 \notin S
            BY <1>1, <3>1, <3>2
        <3>4. g[m] = g[m - 1] \o w[m] /\ g[m - 1] \in Seq(A) /\ w[m] \in Seq(A)
            BY <1>1, <2>2, <3>1, <3>2, <3>3
        <3>5. g[m - 1] \o w[m] \in Seq(A)
            BY <3>4, Concatenation
        <3> QED
            BY <3>1, <3>4, <3>5
    <2> DEFINE off == [k \in 0..Len(w) |-> IF k = 0 THEN 0 ELSE Len(g[k])]
    <2>4. Offsets(w, off)
        <3>1. off \in [0..Len(w) -> Nat]
            BY <1>1, <2>3
        <3>2. off[0] = 0
            BY <1>1
        <3>3. ASSUME NEW k \in 1..Len(w) PROVE off[k] = off[k - 1] + Len(w[k])
            <4>0. k \in Nat /\ k # 0 /\ k \in 0..Len(w) /\ k - 1 \in 0..Len(w)
                BY <1>1
            <4>1. off[k] = Len(g[k]) /\ off[k - 1] = IF k = 1 THEN 0 ELSE Len(g[k - 1])
                BY <4>0
            <4>2. CASE k = 1
                BY <1>1, <2>2, <4>1, <4>2
            <4>3. CASE k # 1
                <5>1. k - 1 \in 1..Len(w)
                    BY <1>1, <4>3
                <5>2. g[k] = g[k - 1] \o w[k] /\ g[k - 1] \in Seq(A) /\ w[k] \in Seq(A)
                    BY <1>1, <2>2, <2>3, <4>3, <5>1
                <5>3. Len(g[k]) = Len(g[k - 1]) + Len(w[k])
                    BY <5>2, Concatenation
                <5> QED
                    BY <4>1, <4>3, <5>3
            <4> QED
                BY <4>2, <4>3
        <3> HIDE DEF off
        <3> QED
            BY <3>1, <3>2, <3>3 DEF Offsets
    <2>5. off[0] = 0
        BY <2>4 DEF Offsets
    <2> HIDE DEF off
    <2>6. \A k \in 1..Len(w) : Laid(g[k], w, k, off)
        <3> DEFINE S == {k \in 1..Len(w) : ~Laid(g[k], w, k, off)}
        <3> SUFFICES ASSUME S # {} PROVE FALSE
            OBVIOUS
        <3>0. S \subseteq Nat
            BY <1>1
        <3> DEFINE m == Min(S)
        <3>1. m \in S /\ \A y \in S : m <= y
            BY <3>0, MinOfNat
        <3> HIDE DEF m
        <3>2. m \in 1..Len(w) /\ ~Laid(g[m], w, m, off)
            BY <3>1
        <3>3. CASE m = 1
            <4>1. g[1] = w[1] /\ w[1] \in Seq(A) /\ 1 \in 1..Len(w)
                BY <1>1, <2>2, <3>2, <3>3
            <4>2. off[1] = off[0] + Len(w[1])
                <5>1. off[1] = off[1 - 1] + Len(w[1])
                    BY <2>4, <4>1 DEF Offsets
                <5> QED
                    BY <5>1
            <4>3. Len(g[1]) = off[1]
                BY <1>1, <2>5, <4>1, <4>2
            <4>4. ASSUME NEW k \in 1..1, NEW j \in 1..Len(w[k]) PROVE g[1][off[k - 1] + j] = w[k][j]
                <5>1. k = 1 /\ k - 1 = 0 /\ j \in Nat
                    BY <1>1, <4>1
                <5> QED
                    BY <2>5, <4>1, <5>1
            <4> QED
                BY <3>2, <3>3, <4>3, <4>4 DEF Laid
        <3>4. CASE m # 1
            <4>1. m - 1 \in 1..Len(w) /\ m - 1 \notin S
                BY <1>1, <3>1, <3>4
            <4>2. Laid(g[m - 1], w, m - 1, off) /\ g[m] = g[m - 1] \o w[m] /\ g[m - 1] \in Seq(A)
                BY <1>1, <2>2, <2>3, <3>2, <3>4, <4>1
            <4> QED
                BY <2>4, <3>2, <4>2, LaidOneMore
        <3> QED
            BY <3>3, <3>4
    <2>7. Len(w) \in 1..Len(w)
        BY <1>1, <1>3
    <2> QED
        BY <2>1, <2>3, <2>4, <2>6, <2>7
<1> QED
    BY <1>2, <1>3

-----------------------------------------------------------------------------
(* What Redis prints of the words (ReprAll): where each symbol is.         *)

Bytes ==
    STRING \cup {"\"", "\\", " ", "n", "r", "t", "b", "a", "x", "0", "+", ".", "[", "]", ":",
                 "CR", "NL", "TAB", "BEL", "BS", "xA0", "xAA", "x00",
                 "A", "B", "N", "R", "T", "X", "U+FFFD", "cmd=", "sub="}

(* The word w is printed in t: its k-th symbol ends at m[k], the opening   *)
(* quote is at m[0].                                                       *)
Printed(t, w, m) ==
    /\ m \in [0..Len(w) -> Nat]
    /\ t[m[0]] = "\"" /\ t[m[Len(w)] + 1] = "\""
    /\ \A k \in 1..Len(w) :
        /\ m[k] = m[k - 1] + Len(ReprSymbol(w[k])) /\ m[k] <= m[Len(w)]
        /\ \A j \in 1..Len(ReprSymbol(w[k])) : t[m[k - 1] + j] = ReprSymbol(w[k])[j]

(* The opening quote of the n-th word, when the word before ends at p.     *)
QuoteAt(n, p) == IF n = 1 THEN p + 1 ELSE p + 2

(* The words ws are printed in t, and the n-th ends at P[n].               *)
Spelled(t, ws, P) ==
    /\ P \in [0..Len(ws) -> Nat] /\ P[0] = 0 /\ Len(t) = P[Len(ws)]
    /\ \A n \in 1..Len(ws) :
        /\ P[n] <= Len(t)
        /\ n # 1 => t[P[n - 1] + 1] = " "
        /\ \E m : Printed(t, ws[n], m) /\ m[0] = QuoteAt(n, P[n - 1]) /\ P[n] = m[Len(ws[n])] + 1

(* Redis prints a symbol as one, two or four.                              *)
LEMMA ReprSymbolTypes ==
    ASSUME NEW c \in STRING
    PROVE  ReprSymbol(c) \in Seq(Bytes) /\ Len(ReprSymbol(c)) \in {1, 2, 4}
<1>0. c \in Bytes /\ {"\"", "\\", " ", "n", "r", "t", "b", "a", "x", "0"} \subseteq Bytes
    BY DEF Bytes
<1>1. CASE c \in {"\"", "\\", "NL", "CR", "TAB", "BS", "BEL"}
    <2>1. \E d \in Bytes : ReprSymbol(c) = <<"\\", d>>
        BY <1>0, <1>1 DEF ReprSymbol
    <2>2. PICK d \in Bytes : ReprSymbol(c) = <<"\\", d>>
        BY <2>1
    <2>3. "\\" \in Bytes
        BY <1>0
    <2>4. <<"\\", d>> \in Seq(Bytes) /\ Len(<<"\\", d>>) = 2
        BY <2>3, Tuples
    <2> QED
        BY <2>2, <2>4
<1>2. CASE c \in {"xA0", "xAA", "x00"}
    <2>1. \E d, e \in Bytes : ReprSymbol(c) = <<"\\", "x", d, e>>
        BY <1>0, <1>2 DEF ReprSymbol
    <2>2. PICK d, e \in Bytes : ReprSymbol(c) = <<"\\", "x", d, e>>
        BY <2>1
    <2>3. "\\" \in Bytes /\ "x" \in Bytes
        BY <1>0
    <2>4. <<"\\", "x", d, e>> \in Seq(Bytes) /\ Len(<<"\\", "x", d, e>>) = 4
        BY <2>3, Tuples
    <2> QED
        BY <2>2, <2>4
<1>4. CASE c \notin {"\"", "\\", "xA0", "xAA", "x00", "NL", "CR", "TAB", "BS", "BEL"}
    <2>1. ReprSymbol(c) = <<c>>
        BY <1>4 DEF ReprSymbol
    <2> QED
        BY <1>0, <2>1, Tuples
<1> QED
    BY <1>1, <1>2, <1>4

(* A word between its quotes.                                              *)
LEMMA ReprPrinted ==
    ASSUME NEW w \in Seq(STRING)
    PROVE  /\ Repr(w) \in Seq(Bytes)
           /\ \E m : Printed(Repr(w), w, m) /\ m[0] = 1 /\ Len(Repr(w)) = m[Len(w)] + 1
<1> DEFINE W == [k \in DOMAIN w |-> ReprSymbol(w[k])]
           F == FlattenSeq(W)
<1>1. Len(w) \in Nat /\ DOMAIN w = 1..Len(w) /\ \A k \in 1..Len(w) : w[k] \in STRING
    OBVIOUS
<1>2. W \in Seq(Seq(Bytes)) /\ Len(W) = Len(w)
    <2>1. \A k \in 1..Len(w) : ReprSymbol(w[k]) \in Seq(Bytes)
        BY <1>1, ReprSymbolTypes
    <2> QED
        BY <1>1, <2>1
<1>3. \A k \in 1..Len(w) : W[k] = ReprSymbol(w[k])
    BY <1>1
<1> DEFINE q == "\""
<1>4. Repr(w) = (<<q>> \o F) \o <<q>>
    BY DEF Repr
<1>5. q \in Bytes
    BY DEF Bytes
<1> HIDE DEF W
<1>6. F \in Seq(Bytes) /\ \E off : Offsets(W, off) /\ Laid(F, W, Len(W), off)
    BY <1>2, FlattenLaid
<1>7. PICK off : Offsets(W, off) /\ Laid(F, W, Len(W), off)
    BY <1>6
<1> HIDE DEF F, q
<1>8. /\ Repr(w) \in Seq(Bytes) /\ Len(F) \in Nat /\ Len(Repr(w)) = Len(F) + 2
      /\ Repr(w)[1] = q /\ Repr(w)[Len(F) + 2] = q
      /\ \A p \in 1..Len(F) : Repr(w)[p + 1] = F[p]
    <2>1. Len(F) \in Nat
        BY <1>6
    <2> DEFINE a == <<q>> \o F
    <2>2. a \in Seq(Bytes) /\ Len(a) = Len(F) + 1 /\ a[1] = q /\ \A p \in 1..Len(F) : a[p + 1] = F[p]
        <3>1. F \in Seq(Bytes)
            BY <1>6
        <3>2. a = <<q>> \o F
            OBVIOUS
        <3> HIDE DEF a
        <3> QED
            BY <1>5, <3>1, <3>2, Prefixed
    <2> HIDE DEF a
    <2>3. /\ Repr(w) \in Seq(Bytes) /\ Len(Repr(w)) = Len(a) + 1 /\ Repr(w)[Len(a) + 1] = q
          /\ \A p \in 1..Len(a) : Repr(w)[p] = a[p]
        <3>1. Repr(w) = a \o <<q>>
            BY <1>4 DEF a
        <3>2. a \in Seq(Bytes)
            BY <2>2
        <3> QED
            BY <1>5, <3>1, <3>2, Suffixed
    <2>4. Len(Repr(w)) = Len(F) + 2 /\ Repr(w)[1] = q /\ Repr(w)[Len(F) + 2] = q
        <3>0. Len(a) = Len(F) + 1
            BY <2>2
        <3>1. 1 \in 1..Len(a) /\ Len(a) + 1 = Len(F) + 2
            BY <2>1, <3>0
        <3> QED
            BY <2>2, <2>3, <3>1
    <2>5. ASSUME NEW p \in 1..Len(F) PROVE Repr(w)[p + 1] = F[p]
        <3>0. Len(a) = Len(F) + 1
            BY <2>2
        <3>1. p + 1 \in 1..Len(a)
            BY <2>1, <3>0
        <3> QED
            BY <2>2, <2>3, <3>1
    <2> QED
        BY <2>1, <2>3, <2>4, <2>5
<1> DEFINE m == [k \in 0..Len(w) |-> off[k] + 1]
<1>9. \A k \in 0..Len(w) : off[k] \in Nat /\ m[k] = off[k] + 1
    BY <1>2, <1>7 DEF Offsets
<1>10. m \in [0..Len(w) -> Nat]
    BY <1>9
<1> HIDE DEF m
<1>11. m[0] = 1 /\ m[Len(w)] + 1 = Len(F) + 2
    <2>1. 0 \in 0..Len(w) /\ Len(w) \in 0..Len(w)
        BY <1>1
    <2>2. off[0] = 0 /\ Len(F) = off[Len(w)]
        BY <1>2, <1>7 DEF Offsets, Laid
    <2>3. m[0] = off[0] + 1 /\ m[Len(w)] = off[Len(w)] + 1 /\ off[Len(w)] \in Nat
        BY <1>9, <2>1
    <2> QED
        BY <2>2, <2>3
<1>12. ASSUME NEW k \in 1..Len(w)
       PROVE  /\ m[k] = m[k - 1] + Len(ReprSymbol(w[k])) /\ m[k] <= m[Len(w)]
              /\ \A j \in 1..Len(ReprSymbol(w[k])) : Repr(w)[m[k - 1] + j] = ReprSymbol(w[k])[j]
    <2>1. k \in 0..Len(w) /\ k - 1 \in 0..Len(w) /\ k \in 1..Len(W)
        BY <1>1, <1>2
    <2>2. W[k] = ReprSymbol(w[k]) /\ Len(W[k]) \in Nat
        BY <1>1, <1>3, ReprSymbolTypes
    <2>3. off[k] = off[k - 1] + Len(W[k]) /\ \A j \in 1..Len(W[k]) : F[off[k - 1] + j] = W[k][j]
        BY <1>7, <2>1 DEF Offsets, Laid
    <2>4. off[k] <= Len(F)
        <3>1. off[k] <= off[Len(W)]
            BY <1>1, <1>2, <1>7, <2>1, OffsetsGrow
        <3> QED
            BY <1>7, <3>1 DEF Laid
    <2>5. m[k] = m[k - 1] + Len(W[k])
        BY <1>9, <2>1, <2>2, <2>3
    <2>6. ASSUME NEW j \in 1..Len(W[k]) PROVE Repr(w)[m[k - 1] + j] = W[k][j]
        <3>1. off[k - 1] + j \in 1..Len(F) /\ m[k - 1] + j = (off[k - 1] + j) + 1
            <4>1. j \in Nat /\ 1 <= j /\ j <= Len(W[k]) /\ off[k] \in Nat /\ off[k - 1] \in Nat /\ m[k - 1] = off[k - 1] + 1
                BY <1>9, <2>1, <2>2
            <4>2. Len(F) \in Nat /\ Len(W[k]) \in Nat /\ off[k] = off[k - 1] + Len(W[k])
                BY <1>8, <2>2, <2>3
            <4>3. off[k - 1] + j <= Len(F)
                BY <2>4, <4>1, <4>2
            <4> QED
                BY <4>1, <4>2, <4>3
        <3> QED
            BY <1>8, <2>3, <3>1
    <2>7. m[k] <= m[Len(w)]
        <3>1. Len(w) \in 0..Len(w) /\ Len(F) = off[Len(w)]
            BY <1>1, <1>2, <1>7 DEF Laid
        <3> QED
            BY <1>9, <2>1, <2>4, <3>1
    <2> QED
        BY <2>2, <2>5, <2>6, <2>7
<1>13. Printed(Repr(w), w, m)
    BY <1>8, <1>10, <1>11, <1>12 DEF Printed, q
<1> QED
    BY <1>8, <1>11, <1>13

(* The symbols of r stand in t after the first b.                          *)
Copied(t, b, r) == \A p \in 1..Len(r) : t[b + p] = r[p]

(* The text r is the word w, and it is printed in t after the first b.     *)
IsWord(r, w, m) == Printed(r, w, m) /\ m[0] = 1 /\ Len(r) = m[Len(w)] + 1
PrintedAfter(t, b, w, r) == \E h : Printed(t, w, h) /\ h[0] = b + 1 /\ h[Len(w)] + 1 = b + Len(r)

(* A word that is printed in a part is printed in the whole.               *)
LEMMA PrintedMoves ==
    ASSUME NEW w \in Seq(STRING), NEW r, NEW m, IsWord(r, w, m), NEW t, NEW b \in Nat, Copied(t, b, r)
    PROVE  PrintedAfter(t, b, w, r)
<1>0. Printed(r, w, m) /\ m[0] = 1 /\ Len(r) = m[Len(w)] + 1
    BY DEF IsWord
<1> DEFINE h == [k \in 0..Len(w) |-> m[k] + b]
<1>1. Len(w) \in Nat /\ \A k \in 1..Len(w) : w[k] \in STRING
    OBVIOUS
<1>2. m \in [0..Len(w) -> Nat]
    BY <1>0 DEF Printed
<1>3. \A k \in 0..Len(w) : m[k] \in Nat /\ h[k] = m[k] + b
    BY <1>2
<1>4. h \in [0..Len(w) -> Nat]
    BY <1>3
<1> HIDE DEF h
<1>5. 0 \in 0..Len(w) /\ Len(w) \in 0..Len(w)
    BY <1>1
<1>6. h[0] = b + 1 /\ h[Len(w)] + 1 = b + Len(r) /\ Len(r) \in Nat /\ m[Len(w)] \in Nat
    BY <1>0, <1>3, <1>5
<1>7. ASSUME NEW k \in 1..Len(w)
      PROVE  /\ h[k] = h[k - 1] + Len(ReprSymbol(w[k])) /\ h[k] <= h[Len(w)]
             /\ \A j \in 1..Len(ReprSymbol(w[k])) : t[h[k - 1] + j] = ReprSymbol(w[k])[j]
    <2>1. k \in 0..Len(w) /\ k - 1 \in 0..Len(w)
        BY <1>1
    <2> DEFINE n == Len(ReprSymbol(w[k]))
    <2>2. n \in Nat
        BY <1>1, ReprSymbolTypes
    <2> HIDE DEF n
    <2>3. m[k] = m[k - 1] + n /\ m[k] <= m[Len(w)] /\ \A j \in 1..n : r[m[k - 1] + j] = ReprSymbol(w[k])[j]
        BY <1>0 DEF Printed, n
    <2>4. /\ m[k] \in Nat /\ m[k - 1] \in Nat /\ m[Len(w)] \in Nat
          /\ h[k] = m[k] + b /\ h[k - 1] = m[k - 1] + b /\ h[Len(w)] = m[Len(w)] + b
        BY <1>3, <1>5, <2>1
    <2>5. h[k] = h[k - 1] + n /\ h[k] <= h[Len(w)]
        BY <2>2, <2>3, <2>4
    <2>6. ASSUME NEW j \in 1..n PROVE t[h[k - 1] + j] = ReprSymbol(w[k])[j]
        <3>1. j \in Nat /\ 1 <= j /\ j <= n
            BY <2>2
        <3>2. m[k - 1] + j \in 1..Len(r) /\ h[k - 1] + j = b + (m[k - 1] + j)
            <4>1. m[k] \in Nat /\ m[k - 1] \in Nat /\ m[Len(w)] \in Nat /\ h[k - 1] = m[k - 1] + b
                BY <2>4
            <4>2. m[k] = m[k - 1] + n /\ m[k] <= m[Len(w)]
                BY <2>3
            <4>3. m[k - 1] + j <= m[Len(w)]
                BY <2>2, <3>1, <4>1, <4>2
            <4> QED
                BY <1>0, <3>1, <4>1, <4>3
        <3>3. \A p \in 1..Len(r) : t[b + p] = r[p]
            BY DEF Copied
        <3> QED
            BY <2>3, <3>2, <3>3
    <2> QED
        BY <2>5, <2>6 DEF n
<1>8. t[h[0]] = "\"" /\ t[h[Len(w)] + 1] = "\""
    <2>1. r[1] = "\"" /\ r[Len(r)] = "\""
        BY <1>0 DEF Printed
    <2>2. 1 \in 1..Len(r) /\ Len(r) \in 1..Len(r)
        BY <1>0, <1>6
    <2>3. t[b + 1] = r[1] /\ t[b + Len(r)] = r[Len(r)]
        BY <2>2 DEF Copied
    <2> QED
        BY <1>6, <2>1, <2>3
<1>9. Printed(t, w, h)
    BY <1>4, <1>7, <1>8 DEF Printed
<1> QED
    BY <1>6, <1>9 DEF PrintedAfter

(* All of the words.                                                       *)
LEMMA ReprAllSpelled ==
    ASSUME NEW ws \in Seq(Seq(STRING))
    PROVE  ReprAll(ws) \in Seq(Bytes) /\ \E P : Spelled(ReprAll(ws), ws, P)
<1> DEFINE c == " "
           W == [n \in DOMAIN ws |-> IF n = 1 THEN Repr(ws[n]) ELSE <<c>> \o Repr(ws[n])]
           t == FlattenSeq(W)
<1>1. Len(ws) \in Nat /\ DOMAIN ws = 1..Len(ws) /\ \A n \in 1..Len(ws) : ws[n] \in Seq(STRING)
    OBVIOUS
<1>2. ReprAll(ws) = t
    BY DEF ReprAll
<1>3. c \in Bytes
    BY DEF Bytes
<1>4. \A n \in 1..Len(ws) : W[n] = IF n = 1 THEN Repr(ws[n]) ELSE <<c>> \o Repr(ws[n])
    BY <1>1
<1>5. DOMAIN W = 1..Len(ws) /\ W = [n \in 1..Len(ws) |-> W[n]]
    BY <1>1
<1> HIDE DEF W, c
<1> DEFINE d(n) == IF n = 1 THEN 0 ELSE 1
<1>6. ASSUME NEW n \in 1..Len(ws)
      PROVE  LET r == Repr(ws[n])
             IN  /\ r \in Seq(Bytes) /\ Len(r) \in Nat
                 /\ W[n] \in Seq(Bytes) /\ Len(W[n]) = Len(r) + d(n)
                 /\ n # 1 => W[n][1] = c
                 /\ \A p \in 1..Len(r) : W[n][p + d(n)] = r[p]
    <2> DEFINE r == Repr(ws[n])
    <2>1. r \in Seq(Bytes)
        BY <1>1, ReprPrinted
    <2>2. W[n] = IF n = 1 THEN r ELSE <<c>> \o r
        BY <1>4
    <2> HIDE DEF r
    <2>3. CASE n = 1
        <3>1. W[n] = r /\ d(n) = 0 /\ Len(r) \in Nat
            BY <2>1, <2>2, <2>3
        <3> QED
            BY <2>1, <2>3, <3>1 DEF r
    <2>4. CASE n # 1
        <3>1. W[n] = <<c>> \o r /\ d(n) = 1
            BY <2>2, <2>4
        <3>2. /\ W[n] \in Seq(Bytes) /\ Len(r) \in Nat /\ Len(W[n]) = Len(r) + 1 /\ W[n][1] = c
              /\ \A p \in 1..Len(r) : W[n][p + 1] = r[p]
            BY <1>3, <2>1, <3>1, Prefixed
        <3> QED
            BY <2>1, <3>1, <3>2 DEF r
    <2> QED
        BY <2>3, <2>4
<1>7. W \in Seq(Seq(Bytes)) /\ Len(W) = Len(ws)
    BY <1>1, <1>5, <1>6
<1>8. t \in Seq(Bytes) /\ \E off : Offsets(W, off) /\ Laid(t, W, Len(W), off)
    BY <1>7, FlattenLaid
<1>9. PICK P : Offsets(W, P) /\ Laid(t, W, Len(W), P)
    BY <1>8
<1> HIDE DEF t
<1>10. P \in [0..Len(ws) -> Nat] /\ P[0] = 0 /\ Len(t) = P[Len(ws)]
    BY <1>7, <1>9 DEF Offsets, Laid
<1>11. ASSUME NEW n \in 1..Len(ws)
       PROVE  /\ P[n] <= Len(t)
              /\ n # 1 => t[P[n - 1] + 1] = " "
              /\ \E m : Printed(t, ws[n], m) /\ m[0] = QuoteAt(n, P[n - 1]) /\ P[n] = m[Len(ws[n])] + 1
    <2> DEFINE r == Repr(ws[n])
    <2>1. /\ r \in Seq(Bytes) /\ Len(r) \in Nat
          /\ W[n] \in Seq(Bytes) /\ Len(W[n]) = Len(r) + d(n)
          /\ n # 1 => W[n][1] = c
          /\ \A p \in 1..Len(r) : W[n][p + d(n)] = r[p]
        BY <1>6
    <2>2. ws[n] \in Seq(STRING) /\ \E m : Printed(r, ws[n], m) /\ m[0] = 1 /\ Len(r) = m[Len(ws[n])] + 1
        BY <1>1, ReprPrinted
    <2> HIDE DEF r
    <2>3. PICK m : Printed(r, ws[n], m) /\ m[0] = 1 /\ Len(r) = m[Len(ws[n])] + 1
        BY <2>2
    <2>4. P[n] = P[n - 1] + Len(W[n]) /\ \A j \in 1..Len(W[n]) : t[P[n - 1] + j] = W[n][j]
        BY <1>7, <1>9 DEF Offsets, Laid
    <2>5. n \in 0..Len(ws) /\ n - 1 \in 0..Len(ws) /\ P[n] \in Nat /\ P[n - 1] \in Nat
        <3>1. n \in 0..Len(ws) /\ n - 1 \in 0..Len(ws)
            BY <1>1
        <3>2. P \in [0..Len(ws) -> Nat]
            BY <1>10
        <3> QED
            BY <3>1, <3>2
    <2>6. P[n] <= Len(t)
        <3>1. P[n] <= P[Len(W)]
            <4>1. W \in Seq(Seq(Bytes)) /\ n \in 0..Len(W) /\ Len(W) \in n..Len(W)
                BY <1>1, <1>7
            <4> QED
                BY <1>9, <4>1, OffsetsGrow
        <3> QED
            BY <1>7, <1>10, <3>1
    <2>7. n # 1 => t[P[n - 1] + 1] = " "
        <3>1. n # 1 => 1 \in 1..Len(W[n])
            BY <2>1
        <3> QED
            BY <2>1, <2>4, <3>1 DEF c
    <2>8. \A p \in 1..Len(r) : t[(P[n - 1] + d(n)) + p] = r[p]
        <3> SUFFICES ASSUME NEW p \in 1..Len(r) PROVE t[(P[n - 1] + d(n)) + p] = r[p]
            OBVIOUS
        <3>1. p + d(n) \in 1..Len(W[n]) /\ (P[n - 1] + d(n)) + p = P[n - 1] + (p + d(n))
            <4>1. p \in Nat /\ 1 <= p /\ p <= Len(r) /\ d(n) \in Nat /\ Len(W[n]) = Len(r) + d(n) /\ Len(r) \in Nat
                BY <2>1
            <4> HIDE DEF d
            <4> QED
                BY <2>5, <4>1
        <3> QED
            BY <2>1, <2>4, <3>1
    <2>9. P[n - 1] + d(n) \in Nat
        BY <2>5
    <2>10. PICK h : Printed(t, ws[n], h) /\ h[0] = (P[n - 1] + d(n)) + 1 /\ h[Len(ws[n])] + 1 = (P[n - 1] + d(n)) + Len(r)
        <3> DEFINE b == P[n - 1] + d(n)
        <3>1. b \in Nat /\ Copied(t, b, r)
            BY <2>8, <2>9 DEF Copied
        <3> DEFINE w == ws[n]
        <3>2. w \in Seq(STRING) /\ Printed(r, w, m) /\ m[0] = 1 /\ Len(r) = m[Len(w)] + 1
            BY <2>2, <2>3
        <3> HIDE DEF b, w, r, t
        <3>3. \E h : Printed(t, w, h) /\ h[0] = b + 1 /\ h[Len(w)] + 1 = b + Len(r)
            <4>1. w \in Seq(STRING) /\ b \in Nat
                BY <3>1, <3>2
            <4>2. IsWord(r, w, m) /\ Copied(t, b, r)
                BY <3>1, <3>2 DEF IsWord
            <4>3. PrintedAfter(t, b, w, r)
                BY <4>1, <4>2, PrintedMoves
            <4> QED
                BY <4>3 DEF PrintedAfter
        <3> QED
            BY <3>3 DEF b, w
    <2>11. h[0] = QuoteAt(n, P[n - 1]) /\ P[n] = h[Len(ws[n])] + 1
        BY <2>1, <2>4, <2>5, <2>10 DEF QuoteAt
    <2> QED
        BY <2>6, <2>7, <2>10, <2>11
<1>12. Spelled(t, ws, P)
    BY <1>10, <1>11 DEF Spelled
<1> QED
    BY <1>2, <1>8, <1>12

-----------------------------------------------------------------------------
(* The loop of parseQuotedArgs reads what Redis prints.                    *)

(* The first n elements, one by one.                                       *)
LEMMA FirstElements ==
    ASSUME NEW A, NEW b \in Seq(A)
    PROVE  /\ SubSeq(b, 1, 0) = <<>> /\ SubSeq(b, 1, Len(b)) = b
           /\ \A n \in 1..Len(b) : Append(SubSeq(b, 1, n - 1), b[n]) = SubSeq(b, 1, n)
<1>1. SubSeq(b, 1, 0) = <<>> /\ SubSeq(b, 1, Len(b)) = b /\ Len(b) \in Nat
    BY SubSeqEmpty, SubSeqFull
<1>2. ASSUME NEW n \in 1..Len(b) PROVE Append(SubSeq(b, 1, n - 1), b[n]) = SubSeq(b, 1, n)
    <2>1. 1 \in 1..Len(b) /\ n \in 1..Len(b) /\ n \in Nat
        BY <1>1
    <2>2. SubSeq(b, 1, n) = SubSeq(b, 1, n - 1) \o <<b[n]>>
        BY <2>1, SubSeqRecursiveSecond
    <2>3. SubSeq(b, 1, n - 1) \in Seq(A)
        <3>1. \A k \in 1..n - 1 : b[k] \in A
            BY <1>1, <2>1
        <3> QED
            BY <1>1, <2>1, <3>1, SubSeqProperties
    <2>4. b[n] \in A
        BY <2>1
    <2> QED
        BY <2>2, <2>3, <2>4, AppendIsConcat
<1> QED
    BY <1>1, <1>2

(* What stands in t after p for a symbol that Redis printed.               *)
AsHex(t, p, c) ==
    /\ t[p + 1] = "\\" /\ t[p + 2] = "x" /\ t[p + 3] \in HexDigits /\ t[p + 4] \in HexDigits
    /\ HexByte(t[p + 3], t[p + 4]) = c

AsEscape(t, p, c) == t[p + 1] = "\\" /\ t[p + 2] # "x" /\ Unescaped(t[p + 2]) = c

AsItself(t, p, c) == t[p + 1] = c /\ c \notin {"\"", "\\"}

(* One of the three forms, by its length.                                  *)
LEMMA SymbolForms ==
    ASSUME NEW c, NEW t, NEW p \in Nat, Copied(t, p, ReprSymbol(c))
    PROVE  \/ Len(ReprSymbol(c)) = 4 /\ AsHex(t, p, c)
           \/ Len(ReprSymbol(c)) = 2 /\ AsEscape(t, p, c)
           \/ Len(ReprSymbol(c)) = 1 /\ AsItself(t, p, c)
<1> DEFINE r == ReprSymbol(c)
<1>1. CASE c \in {"\"", "\\", "NL", "CR", "TAB", "BS", "BEL"}
    <2>1. Len(r) = 2 /\ r[1] = "\\" /\ r[2] # "x" /\ Unescaped(r[2]) = c
        BY <1>1 DEF ReprSymbol, Unescaped
    <2> HIDE DEF r
    <2>2. t[p + 1] = r[1] /\ t[p + 2] = r[2]
        BY <2>1 DEF r, Copied
    <2> QED
        BY <2>1, <2>2 DEF AsEscape, r
<1>2. CASE c \in {"xA0", "xAA", "x00"}
    <2>1. /\ Len(r) = 4 /\ r[1] = "\\" /\ r[2] = "x" /\ r[3] \in HexDigits /\ r[4] \in HexDigits
          /\ HexByte(r[3], r[4]) = c
        BY <1>2 DEF ReprSymbol, HexByte, HexDigits
    <2> HIDE DEF r
    <2>2. t[p + 1] = r[1] /\ t[p + 2] = r[2] /\ t[p + 3] = r[3] /\ t[p + 4] = r[4]
        BY <2>1 DEF r, Copied
    <2> QED
        BY <2>1, <2>2 DEF AsHex, r
<1>3. CASE c \notin {"\"", "\\", "xA0", "xAA", "x00", "NL", "CR", "TAB", "BS", "BEL"}
    <2>1. r = <<c>>
        BY <1>3 DEF ReprSymbol
    <2>2. Len(r) = 1 /\ r[1] = c
        BY <2>1
    <2> HIDE DEF r
    <2>3. t[p + 1] = r[1]
        BY <2>2 DEF r, Copied
    <2> QED
        BY <1>3, <2>2, <2>3 DEF AsItself, r
<1> QED
    BY <1>1, <1>2, <1>3

(* The n-th word of ws is printed in s and ends at P[n].                   *)
WordAt(ws, P, n, m) ==
    Printed(s, ws[n], m) /\ m[0] = QuoteAt(n, P[n - 1]) /\ P[n] = m[Len(ws[n])] + 1

(* n words are read, and perhaps the blank after them.                     *)
Between(ws, P, n) ==
    /\ ~inQuote
    /\ args = SubSeq(ws, 1, n)
    /\ i = P[n] + 1 \/ (n # 0 /\ n # Len(ws) /\ i = P[n] + 2)

(* k symbols of the n-th word are read.                                    *)
Within(ws, P, n, m, k) ==
    /\ inQuote
    /\ args = SubSeq(ws, 1, n - 1)
    /\ WordAt(ws, P, n, m)
    /\ sb = SubSeq(ws[n], 1, k)
    /\ i = m[k] + 1

Reading(ws) ==
    \E P : /\ Spelled(s, ws, P)
           /\ \/ \E n \in 0..Len(ws) : Between(ws, P, n)
              \/ \E n \in 1..Len(ws) : \E m : \E k \in 0..Len(ws[n]) : Within(ws, P, n, m, k)

Words == Seq(Seq(STRING)) \ {<<>>}

(* Between two words a blank is skipped or the next word is opened.        *)
LEMMA BetweenStep ==
    ASSUME NEW ws \in Words, NEW P, Spelled(s, ws, P), NEW n \in 0..Len(ws), Between(ws, P, n),
           i <= Len(s), s' = s, SkipBlank \/ OpenQuote \/ Unexpected \/ HexEscape \/ Escape \/ CloseQuote \/ Literal
    PROVE  Reading(ws)' /\ pc' = "args"
<1>1. /\ ws \in Seq(Seq(STRING)) /\ Len(ws) \in Nat /\ \A k \in 1..Len(ws) : ws[k] \in Seq(STRING)
      /\ n \in Nat
    BY DEF Words
<1>2. P \in [0..Len(ws) -> Nat] /\ Len(s) = P[Len(ws)] /\ P[0] = 0
    BY DEF Spelled
<1>3. P[n] \in Nat /\ P[Len(ws)] \in Nat
    <2>1. Len(ws) \in 0..Len(ws) /\ P \in [0..Len(ws) -> Nat]
        BY <1>1, <1>2
    <2> QED
        BY <2>1
<1>4. n # Len(ws)
    BY <1>2, <1>3 DEF Between
<1>5. n + 1 \in 1..Len(ws) /\ (n + 1) - 1 = n /\ (n # 0 => n + 1 # 1)
    BY <1>1, <1>4
<1>6. PICK m : WordAt(ws, P, n + 1, m)
    BY <1>5 DEF Spelled, WordAt
<1>7. Printed(s, ws[n + 1], m) /\ m[0] = QuoteAt(n + 1, P[n])
    BY <1>5, <1>6 DEF WordAt
<1>8. s[m[0]] = "\"" /\ 0 \in 0..Len(ws[n + 1]) /\ SubSeq(ws[n + 1], 1, 0) = <<>>
    <2>1. ws[n + 1] \in Seq(STRING)
        BY <1>1, <1>5
    <2>2. Len(ws[n + 1]) \in Nat /\ SubSeq(ws[n + 1], 1, 0) = <<>>
        BY <2>1, FirstElements
    <2>3. s[m[0]] = "\""
        BY <1>7 DEF Printed
    <2>4. 0 \in 0..Len(ws[n + 1])
        BY <2>2
    <2> QED
        BY <2>2, <2>3, <2>4, Zenon
<1>9. ~inQuote /\ args = SubSeq(ws, 1, n)
    BY DEF Between
<1>10. CASE i = m[0]
    <2>1. OpenQuote
        BY <1>8, <1>9, <1>10 DEF SkipBlank, OpenQuote, Unexpected, HexEscape, Escape, CloseQuote, Literal, Outside, Inside, Blanks
    <2>2. inQuote' /\ sb' = <<>> /\ i' = m[0] + 1 /\ args' = args /\ pc' = "args"
        BY <1>10, <2>1 DEF OpenQuote, Outside
    <2>3. Within(ws, P, n + 1, m, 0)'
        BY <1>5, <1>6, <1>8, <1>9, <2>2 DEF Within, WordAt
    <2> QED
        BY <1>5, <1>8, <2>2, <2>3 DEF Reading
<1>11. CASE i # m[0]
    <2>1. n # 0 /\ i = P[n] + 1
        BY <1>3, <1>7, <1>11 DEF QuoteAt, Between
    <2>2. s[i] = " "
        <3>1. n + 1 # 1 => s[P[(n + 1) - 1] + 1] = " "
            BY <1>5 DEF Spelled
        <3> QED
            BY <1>5, <2>1, <3>1
    <2>3. SkipBlank
        BY <1>9, <2>2 DEF SkipBlank, OpenQuote, Unexpected, HexEscape, Escape, CloseQuote, Literal, Outside, Inside, Blanks
    <2>4. ~inQuote' /\ args' = args /\ i' = i + 1 /\ pc' = "args"
        BY <1>9, <2>3 DEF SkipBlank, Outside
    <2>5. i' = P[n] + 2
        BY <1>3, <2>1, <2>4
    <2>6. Between(ws, P, n)'
        BY <1>4, <1>9, <2>1, <2>4, <2>5 DEF Between
    <2> QED
        BY <2>4, <2>6 DEF Reading
<1> QED
    BY <1>10, <1>11

(* Inside of a word the next symbol is collected as Redis printed it, or   *)
(* the word is complete.                                                   *)
LEMMA WithinStep ==
    ASSUME NEW ws \in Words, NEW P, Spelled(s, ws, P), NEW n \in 1..Len(ws), NEW m, NEW k \in 0..Len(ws[n]),
           Within(ws, P, n, m, k), pc = "args",
           i <= Len(s), s' = s, SkipBlank \/ OpenQuote \/ Unexpected \/ HexEscape \/ Escape \/ CloseQuote \/ Literal
    PROVE  Reading(ws)' /\ pc' = "args"
<1> DEFINE w == ws[n]
<1>1. ws \in Seq(Seq(STRING)) /\ Len(ws) \in Nat /\ w \in Seq(STRING) /\ Len(w) \in Nat /\ n \in Nat /\ k \in Nat
    BY DEF Words
<1>2. Printed(s, w, m) /\ P[n] = m[Len(w)] + 1 /\ P[n] <= Len(s) /\ WordAt(ws, P, n, m)
    BY DEF Within, WordAt, Spelled
<1>3. Len(s) \in Nat
    <2>1. P \in [0..Len(ws) -> Nat] /\ Len(s) = P[Len(ws)]
        BY DEF Spelled
    <2>2. Len(ws) \in 0..Len(ws)
        BY <1>1
    <2> QED
        BY <2>1, <2>2
<1>4. inQuote /\ args = SubSeq(ws, 1, n - 1) /\ sb = SubSeq(w, 1, k) /\ i = m[k] + 1
    BY DEF Within
<1>5. m[k] \in Nat /\ m[Len(w)] \in Nat
    <2>1. k \in 0..Len(w) /\ Len(w) \in 0..Len(w)
        BY <1>1
    <2>2. m \in [0..Len(w) -> Nat]
        BY <1>2 DEF Printed
    <2> QED
        BY <2>1, <2>2
<1> HIDE DEF w
<1>6. k \in 0..Len(w)
    BY DEF w
<1>7. HexEscape \/ Escape \/ CloseQuote \/ Literal
    BY <1>4 DEF SkipBlank, OpenQuote, Unexpected, Outside
<1>8. CASE k = Len(w)
    <2>1. s[i] = "\""
        BY <1>2, <1>4, <1>8 DEF Printed
    <2>2. CloseQuote
        BY <1>7, <2>1 DEF HexEscape, Escape, Literal, IsHexEscape, IsEscape
    <2>3. args' = Append(args, sb) /\ ~inQuote' /\ i' = i + 1 /\ pc' = "args"
        BY <2>2 DEF CloseQuote
    <2>4. i' = P[n] + 1
        BY <1>2, <1>4, <1>5, <1>8, <2>3
    <2>5. args' = SubSeq(ws, 1, n)
        <3>1. sb = ws[n]
            BY <1>1, <1>4, <1>8, FirstElements DEF w
        <3>2. Append(SubSeq(ws, 1, n - 1), ws[n]) = SubSeq(ws, 1, n)
            BY <1>1, FirstElements
        <3> QED
            BY <1>4, <2>3, <3>1, <3>2
    <2>6. Between(ws, P, n)' /\ n \in 0..Len(ws)
        BY <1>1, <2>3, <2>4, <2>5 DEF Between
    <2> QED
        BY <2>3, <2>6 DEF Reading
<1>9. CASE k # Len(w)
    <2> DEFINE c == w[k + 1]
               z == Len(ReprSymbol(c))
    <2>1. k + 1 \in 1..Len(w) /\ k + 1 \in 0..Len(w) /\ (k + 1) - 1 = k
        BY <1>1, <1>6, <1>9
    <2>2. c \in STRING
        BY <1>1, <2>1
    <2>3. z \in {1, 2, 4}
        BY <2>2, ReprSymbolTypes
    <2>4. m[k + 1] = m[k] + z /\ m[k + 1] <= m[Len(w)] /\ \A j \in 1..z : s[m[k] + j] = ReprSymbol(c)[j]
        <3>1. /\ m[k + 1] = m[(k + 1) - 1] + z /\ m[k + 1] <= m[Len(w)]
              /\ \A j \in 1..z : s[m[(k + 1) - 1] + j] = ReprSymbol(c)[j]
            BY <1>2, <2>1 DEF Printed
        <3> QED
            BY <2>1, <3>1
    <2>5. \/ z = 4 /\ AsHex(s, m[k], c)
          \/ z = 2 /\ AsEscape(s, m[k], c)
          \/ z = 1 /\ AsItself(s, m[k], c)
        <3> DEFINE q == m[k]
        <3>1. q \in Nat
            BY <1>5
        <3>2. Copied(s, q, ReprSymbol(c))
            BY <2>4 DEF Copied
        <3> HIDE DEF q
        <3>3. \/ Len(ReprSymbol(c)) = 4 /\ AsHex(s, q, c)
              \/ Len(ReprSymbol(c)) = 2 /\ AsEscape(s, q, c)
              \/ Len(ReprSymbol(c)) = 1 /\ AsItself(s, q, c)
            BY <3>1, <3>2, SymbolForms
        <3> QED
            BY <3>3 DEF q
    <2> HIDE DEF c, z
    <2>6. i + z <= Len(s) /\ i' \in {i + 1, i + 2, i + 4} /\ i \in Nat
        <3>1. i + z <= Len(s) /\ i \in Nat
            <4>1. P[n] = m[Len(w)] + 1 /\ P[n] <= Len(s) /\ m[k] + z <= m[Len(w)] /\ z \in Nat /\ i = m[k] + 1
                BY <1>2, <1>4, <2>3, <2>4
            <4> QED
                BY <1>3, <1>5, <4>1, SMTT(30)
        <3>2. i' \in {i + 1, i + 2, i + 4}
            BY <1>7 DEF HexEscape, Escape, CloseQuote, Literal, Collect
        <3> QED
            BY <3>1, <3>2
    <2>7. i = m[k] + 1 /\ i + 1 = m[k] + 2 /\ i + 2 = m[k] + 3 /\ i + 3 = m[k] + 4
        BY <1>4, <1>5, SMTT(30)
    <2>8. Collect(c, z)
        <3>1. CASE z = 4 /\ AsHex(s, m[k], c)
            <4>0. i < Len(s) /\ i + 3 <= Len(s)
                BY <1>3, <2>6, <3>1
            <4>a. /\ s[i] = "\\" /\ s[i + 1] = "x" /\ s[i + 2] \in HexDigits /\ s[i + 3] \in HexDigits
                  /\ HexByte(s[i + 2], s[i + 3]) = c
                BY <2>7, <3>1 DEF AsHex
            <4>1. IsHexEscape /\ HexByte(s[i + 2], s[i + 3]) = c
                BY <4>0, <4>a DEF IsHexEscape, IsEscape
            <4>2. HexEscape
                BY <1>7, <4>1 DEF Escape, Literal, CloseQuote, IsHexEscape, IsEscape
            <4> QED
                BY <3>1, <4>1, <4>2 DEF HexEscape
        <3>2. CASE z = 2 /\ AsEscape(s, m[k], c)
            <4>1. IsEscape /\ ~IsHexEscape /\ Unescaped(s[i + 1]) = c
                BY <1>3, <2>6, <2>7, <3>2, SMTT(30) DEF IsHexEscape, IsEscape, AsEscape
            <4>2. Escape
                BY <1>7, <4>1 DEF HexEscape, Literal, CloseQuote, IsEscape
            <4> QED
                BY <3>2, <4>1, <4>2 DEF Escape
        <3>3. CASE z = 1 /\ AsItself(s, m[k], c)
            <4>1. ~IsEscape /\ s[i] = c /\ c # "\""
                BY <2>7, <3>3 DEF IsEscape, AsItself
            <4>2. Literal
                BY <1>7, <4>1 DEF HexEscape, Escape, CloseQuote, IsHexEscape
            <4> QED
                BY <3>3, <4>1, <4>2 DEF Literal
        <3> QED
            BY <2>5, <3>1, <3>2, <3>3
    <2>9. sb' = Append(sb, c) /\ i' = i + z /\ pc' = "args" /\ inQuote' /\ args' = args
        BY <1>4, <2>8 DEF Collect
    <2>10. i' = m[k + 1] + 1
        BY <1>5, <2>3, <2>4, <2>7, <2>9, SMTT(30)
    <2>11. sb' = SubSeq(ws[n], 1, k + 1)
        <3>1. Append(SubSeq(w, 1, (k + 1) - 1), w[k + 1]) = SubSeq(w, 1, k + 1)
            BY <1>1, <2>1, FirstElements
        <3> QED
            BY <1>4, <2>1, <2>9, <3>1 DEF c, w
    <2>12. Within(ws, P, n, m, k + 1)'
        BY <1>2, <1>4, <2>9, <2>10, <2>11 DEF Within, WordAt
    <2> QED
        BY <2>1, <2>9, <2>12 DEF Reading, w
<1> QED
    BY <1>8, <1>9

(* Any branch of the loop.                                                 *)
LEMMA ReadingStep ==
    ASSUME NEW ws \in Words, pc = "args", i <= Len(s), Reading(ws), s' = s,
           SkipBlank \/ OpenQuote \/ Unexpected \/ HexEscape \/ Escape \/ CloseQuote \/ Literal
    PROVE  Reading(ws)' /\ pc' = "args"
<1>1. PICK P : /\ Spelled(s, ws, P)
               /\ \/ \E n \in 0..Len(ws) : Between(ws, P, n)
                  \/ \E n \in 1..Len(ws) : \E m : \E k \in 0..Len(ws[n]) : Within(ws, P, n, m, k)
    BY DEF Reading
<1>2. CASE \E n \in 0..Len(ws) : Between(ws, P, n)
    BY <1>1, <1>2, BetweenStep
<1>3. CASE \E n \in 1..Len(ws) : \E m : \E k \in 0..Len(ws[n]) : Within(ws, P, n, m, k)
    BY <1>1, <1>3, WithinStep
<1> QED
    BY <1>1, <1>2, <1>3

(* The end of the line is reached with all of the words.                   *)
LEMMA ReadingEnds ==
    ASSUME NEW ws \in Words, Reading(ws), EndOfLine
    PROVE  event' = EventOf(head, ws) /\ pc' = "done"
<1>1. PICK P : /\ Spelled(s, ws, P)
               /\ \/ \E n \in 0..Len(ws) : Between(ws, P, n)
                  \/ \E n \in 1..Len(ws) : \E m : \E k \in 0..Len(ws[n]) : Within(ws, P, n, m, k)
    BY DEF Reading
<1>2. ws \in Seq(Seq(STRING)) /\ Len(ws) \in Nat /\ ws # <<>>
    BY DEF Words
<1>3. /\ P \in [0..Len(ws) -> Nat] /\ Len(s) = P[Len(ws)]
      /\ \A n \in 1..Len(ws) : P[n] <= Len(s)
    BY <1>1 DEF Spelled
<1>4. Len(s) \in Nat
    <2>1. Len(ws) \in 0..Len(ws)
        BY <1>2
    <2> QED
        BY <1>3, <2>1
<1>5. i > Len(s)
    BY DEF EndOfLine
<1>6. CASE \E n \in 1..Len(ws) : \E m : \E k \in 0..Len(ws[n]) : Within(ws, P, n, m, k)
    <2>1. PICK n \in 1..Len(ws) : \E m : \E k \in 0..Len(ws[n]) : Within(ws, P, n, m, k)
        BY <1>6
    <2> DEFINE w == ws[n]
    <2>2. PICK m : \E k \in 0..Len(w) : Within(ws, P, n, m, k)
        BY <2>1
    <2>3. PICK k \in 0..Len(w) : Within(ws, P, n, m, k)
        BY <2>2
    <2>4. Printed(s, w, m) /\ P[n] = m[Len(w)] + 1 /\ P[n] <= Len(s) /\ i = m[k] + 1
        BY <1>3, <2>3 DEF Within, WordAt
    <2>5. w \in Seq(STRING) /\ Len(w) \in Nat
        BY <1>2
    <2> HIDE DEF w
    <2>6. m[k] \in Nat /\ m[Len(w)] \in Nat
        <3>1. Len(w) \in 0..Len(w)
            BY <2>5
        <3>2. m \in [0..Len(w) -> Nat]
            BY <2>4 DEF Printed
        <3> QED
            BY <2>3, <3>1, <3>2
    <2>7. m[k] <= m[Len(w)]
        <3>1. CASE k = Len(w)
            BY <2>6, <3>1
        <3>2. CASE k # Len(w)
            <4>1. k + 1 \in 1..Len(w) /\ (k + 1) - 1 = k
                BY <2>3, <2>5, <3>2
            <4>2. w[k + 1] \in STRING
                BY <2>5, <4>1
            <4>3. Len(ReprSymbol(w[k + 1])) \in Nat
                BY <4>2, ReprSymbolTypes
            <4>4. m[k + 1] = m[(k + 1) - 1] + Len(ReprSymbol(w[k + 1])) /\ m[k + 1] <= m[Len(w)]
                BY <2>4, <4>1 DEF Printed
            <4> QED
                BY <2>6, <4>1, <4>3, <4>4
        <3> QED
            BY <3>1, <3>2
    <2> QED
        BY <1>4, <1>5, <2>4, <2>6, <2>7
<1>7. CASE \E n \in 0..Len(ws) : Between(ws, P, n)
    <2>1. PICK n \in 0..Len(ws) : Between(ws, P, n)
        BY <1>7
    <2>2. n = Len(ws)
        <3> SUFFICES ASSUME n # Len(ws) PROVE FALSE
            OBVIOUS
        <3>1. n + 1 \in 1..Len(ws) /\ (n + 1) - 1 = n /\ P[n] \in Nat
            BY <1>2, <1>3
        <3>2. PICK m : Printed(s, ws[n + 1], m) /\ m[0] = QuoteAt(n + 1, P[(n + 1) - 1]) /\ P[n + 1] = m[Len(ws[n + 1])] + 1
            BY <1>1, <3>1 DEF Spelled
        <3> DEFINE w == ws[n + 1]
        <3>3. w \in Seq(STRING) /\ Len(w) \in Nat
            BY <1>2, <3>1
        <3>4. m[0] = QuoteAt(n + 1, P[n]) /\ P[n + 1] = m[Len(w)] + 1 /\ P[n + 1] <= Len(s) /\ Printed(s, w, m)
            BY <1>3, <3>1, <3>2
        <3> HIDE DEF w
        <3>5. m[0] \in Nat /\ m[Len(w)] \in Nat
            <4>1. 0 \in 0..Len(w) /\ Len(w) \in 0..Len(w)
                BY <3>3
            <4>2. m \in [0..Len(w) -> Nat]
                BY <3>4 DEF Printed
            <4> QED
                BY <4>1, <4>2
        <3>6. m[0] <= m[Len(w)]
            <4>1. CASE Len(w) = 0
                BY <3>5, <4>1
            <4>2. CASE Len(w) # 0
                <5>1. 1 \in 1..Len(w) /\ 1 - 1 = 0
                    BY <3>3, <4>2
                <5>2. w[1] \in STRING
                    BY <3>3, <5>1
                <5>3. Len(ReprSymbol(w[1])) \in Nat
                    BY <5>2, ReprSymbolTypes
                <5>4. m[1] = m[1 - 1] + Len(ReprSymbol(w[1])) /\ m[1] <= m[Len(w)]
                    BY <3>4, <5>1 DEF Printed
                <5> QED
                    BY <3>5, <5>1, <5>3, <5>4
            <4> QED
                BY <4>1, <4>2
        <3>7. i <= m[0]
            BY <1>2, <2>1, <3>1, <3>4 DEF Between, QuoteAt
        <3>8. i \in Nat
            BY <2>1, <3>1 DEF Between
        <3> QED
            BY <1>4, <1>5, <3>4, <3>5, <3>6, <3>7, <3>8
    <2>3. ~inQuote /\ args = ws
        BY <1>2, <2>1, <2>2, FirstElements DEF Between
    <2> QED
        BY <1>2, <2>3 DEF EndOfLine
<1> QED
    BY <1>1, <1>6, <1>7

(* Something is printed of any command line.                               *)
LEMMA ReprAllNotEmpty == ASSUME NEW ws \in Words PROVE ReprAll(ws) # <<>>
<1>1. ws \in Seq(Seq(STRING)) /\ Len(ws) \in Nat /\ Len(ws) \in 1..Len(ws)
    BY DEF Words
<1>2. PICK P : Spelled(ReprAll(ws), ws, P)
    BY <1>1, ReprAllSpelled
<1>3. Len(ReprAll(ws)) = P[Len(ws)]
    BY <1>2 DEF Spelled
<1> DEFINE w == ws[Len(ws)]
<1>4. PICK m : Printed(ReprAll(ws), w, m) /\ P[Len(ws)] = m[Len(w)] + 1
    BY <1>1, <1>2 DEF Spelled
<1>5. m[Len(w)] \in Nat
    <2>1. w \in Seq(STRING)
        BY <1>1
    <2>2. Len(w) \in 0..Len(w)
        BY <2>1
    <2>3. m \in [0..Len(w) -> Nat]
        BY <1>4 DEF Printed
    <2> HIDE DEF w
    <2> QED
        BY <2>2, <2>3
<1> HIDE DEF w
<1>6. Len(ReprAll(ws)) > 0
    BY <1>3, <1>4, <1>5
<1> QED
    BY <1>6

(* Outside of Parse its variables are as at the start of a call.           *)
Fresh ==
    pc \notin {"args", "done", "closed"} =>
        /\ s = <<>> /\ i = 1 /\ inQuote = FALSE /\ sb = <<>> /\ args = <<>> /\ event = NoEvent

WordsRead ==
    \A ws \in Words : s = ReprAll(ws) =>
        /\ pc = "args" => Reading(ws)
        /\ pc = "done" => event = EventOf(head, ws)

WordsInv == Fresh /\ WordsRead

(* The parser's variables are left alone outside of Parse.                 *)
LEMMA FreshStep == Fresh /\ [Next]_vars => Fresh'
<1> SUFFICES ASSUME Fresh, [Next]_vars, pc' \notin {"args", "done", "closed"}
             PROVE  s' = <<>> /\ i' = 1 /\ inQuote' = FALSE /\ sb' = <<>> /\ args' = <<>> /\ event' = NoEvent
    BY DEF Fresh
<1>1. CASE ParseReturns
    BY <1>1 DEF ParseReturns
<1>2. CASE pc \notin {"args", "done", "closed"} /\ UNCHANGED <<s, i, inQuote, sb, args, event>>
    BY <1>2 DEF Fresh
<1>3. CASE Arrive \/ UNCHANGED vars
    BY <1>2, <1>3 DEF Arrive, vars, parserVars, given
<1>4. CASE ReadAuth \/ ReadReply \/ ReadLine \/ ReadHeader
    BY <1>2, <1>4 DEF ReadAuth, ReadReply, ReadLine, ReadHeader, given
<1>5. CASE Parsing
    BY <1>5 DEF Parsing, ParseNext, ReadHead, Fail, SkipBlank, OpenQuote, Unexpected, HexEscape, Escape, CloseQuote,
        Literal, EndOfLine, Outside, Inside, Collect
<1> QED
    BY <1>1, <1>3, <1>4, <1>5 DEF Next, Break, ReadBody, Finished

(* Every step of the connection.                                           *)
LEMMA WordsStep == WordsInv /\ [Next]_vars => WordsInv'
<1> SUFFICES ASSUME Fresh, WordsRead, [Next]_vars PROVE WordsRead'
    BY FreshStep DEF WordsInv
<1> SUFFICES ASSUME NEW ws \in Words, s' = ReprAll(ws)
             PROVE  (pc' = "args" => Reading(ws)') /\ (pc' = "done" => event' = EventOf(head', ws))
    BY DEF WordsRead
<1>1. CASE pc' \notin {"args", "done"}
    BY <1>1
<1>2. CASE UNCHANGED vars
    <2>1. UNCHANGED <<pc, s, i, inQuote, sb, args, event, head>>
        BY <1>2 DEF vars, parserVars, given
    <2>2. Reading(ws)' <=> Reading(ws)
        BY <2>1 DEF Reading, Between, Within, WordAt
    <2> QED
        BY <2>1, <2>2 DEF WordsRead
<1>3. CASE Parsing
    <2>1. CASE ReadHead
        <3>1. s = <<>> /\ i = 1 /\ ~inQuote /\ args = <<>> /\ UNCHANGED <<i, inQuote, sb, args>>
            BY <2>1 DEF ReadHead, Fresh
        <3>2. s' # <<>>
            BY ReprAllNotEmpty
        <3>3. pc' = "args"
            BY <2>1, <3>1, <3>2 DEF ReadHead
        <3>4. Reading(ws)'
            <4>1. s' = ReprAll(ws) /\ i' = 1 /\ ~inQuote' /\ args' = <<>>
                BY <3>1
            <4>2. ws \in Seq(Seq(STRING)) /\ Len(ws) \in Nat /\ SubSeq(ws, 1, 0) = <<>>
                BY FirstElements DEF Words
            <4>3. PICK P : Spelled(s', ws, P)
                BY <4>1, <4>2, ReprAllSpelled
            <4>4. P[0] = 0
                BY <4>3 DEF Spelled
            <4>5. 0 \in 0..Len(ws)
                BY <4>2
            <4>6. Between(ws, P, 0)'
                BY <4>1, <4>2, <4>4 DEF Between
            <4> QED
                BY <4>3, <4>5, <4>6 DEF Reading
        <3> QED
            BY <3>3, <3>4
    <2>2. CASE SkipBlank \/ OpenQuote \/ Unexpected \/ HexEscape \/ Escape \/ CloseQuote \/ Literal
        <3>1. pc = "args" /\ i <= Len(s) /\ s' = s
            BY <2>2 DEF SkipBlank, OpenQuote, Unexpected, HexEscape, Escape, CloseQuote, Literal, Outside, Inside,
                Collect, given
        <3>2. Reading(ws)
            BY <3>1 DEF WordsRead
        <3> QED
            BY <2>2, <3>1, <3>2, ReadingStep
    <2>3. CASE EndOfLine
        <3>1. pc = "args" /\ s' = s /\ head' = head
            BY <2>3 DEF EndOfLine, given
        <3>2. Reading(ws)
            BY <3>1 DEF WordsRead
        <3> QED
            BY <2>3, <3>1, <3>2, ReadingEnds
    <2> QED
        BY <1>3, <2>1, <2>2, <2>3 DEF Parsing, ParseNext
<1>4. CASE Arrive \/ ReadAuth \/ ReadReply \/ ReadLine \/ ReadHeader \/ ParseReturns \/ Break \/ ReadBody
    <2>1. pc' \notin {"args", "done"}
        BY <1>4 DEF Arrive, Waiting, ReadAuth, ReadReply, ReadLine, ReadHeader, ParseReturns, Break, ReadBody, AskPc,
            parserVars
    <2> QED
        BY <1>1, <2>1
<1>5. CASE Finished
    BY <1>2, <1>5 DEF Finished
<1> QED
    BY <1>2, <1>3, <1>4, <1>5 DEF Next

(* When Parse returns after the loop has read what Redis prints of a       *)
(* command line, the event has exactly the words of it.                    *)
WordsAreExact ==
    \A ws \in Words : pc = "done" /\ s = ReprAll(ws) => event = EventOf(head, ws)

(* parseQuotedArgs undoes the escaping of Redis, for any number of words   *)
(* of any of the symbols of MonitorParser.                                 *)
THEOREM ParserUndoesRepr == Spec => []WordsAreExact
<1>1. Init => WordsInv
    BY ReprAllNotEmpty DEF Init, ParserInit, AskPc, WordsInv, Fresh, WordsRead
<1>2. WordsInv => WordsAreExact
    BY DEF WordsInv, WordsRead, WordsAreExact
<1> QED
    BY <1>1, <1>2, WordsStep, PTL DEF Spec

-----------------------------------------------------------------------------
(* The head of a line: what the searches of Parse find in what Redis       *)
(* prints.                                                                 *)

(* A least element is the minimum.                                         *)
LEMMA MinIs ==
    ASSUME NEW S, S \subseteq Nat, NEW m \in S, \A y \in S : m <= y
    PROVE  Min(S) = m
<1>1. Min(S) \in S /\ \A y \in S : Min(S) <= y
    BY MinOfNat
<1> DEFINE x == Min(S)
<1>2. x \in Nat /\ m \in Nat /\ x <= m /\ m <= x
    BY <1>1
<1> HIDE DEF x
<1>3. x = m
    BY <1>2
<1> QED
    BY <1>3 DEF x

(* And a greatest one the maximum.                                         *)
LEMMA MaxIs ==
    ASSUME NEW n \in Nat, NEW S, S \subseteq 0..n, NEW m \in S, \A y \in S : y <= m
    PROVE  Max(S) = m
<1>1. Max(S) \in S /\ \A y \in S : Max(S) >= y
    BY MaxOfNat
<1> DEFINE x == Max(S)
<1>2. x \in S /\ x >= m /\ x <= m
    BY <1>1
<1> HIDE DEF x
<1>3. x \in Nat /\ m \in Nat
    BY <1>2
<1>4. x = m
    BY <1>2, <1>3
<1> QED
    BY <1>4 DEF x

(* Equal element by element.                                               *)
LEMMA SameSequence ==
    ASSUME NEW A, NEW a \in Seq(A), NEW b \in Seq(A), Len(a) = Len(b), \A k \in 1..Len(a) : a[k] = b[k]
    PROVE  a = b
BY SeqEqual

(* The parts of a concatenation.                                           *)
LEMMA PartsBack ==
    ASSUME NEW A, NEW a \in Seq(A), NEW b \in Seq(A), NEW t, t = a \o b
    PROVE  SubSeq(t, 1, Len(a)) = a /\ From(t, Len(a) + 1) = b
<1>1. Len(a) \in Nat /\ Len(b) \in Nat
    OBVIOUS
<1>2. t \in Seq(A) /\ Len(t) = Len(a) + Len(b)
    BY Concatenation
<1>3. (\A p \in 1..Len(a) : t[p] = a[p]) /\ \A j \in 1..Len(b) : t[Len(a) + j] = b[j]
    BY Concatenation
<1>4. \A k \in 1..Len(t) : t[k] \in A
    BY <1>2
<1>5. SubSeq(t, 1, Len(a)) = a
    <2> DEFINE u == SubSeq(t, 1, Len(a))
    <2>1. /\ Len(u) = IF 1 <= Len(a) THEN Len(a) - 1 + 1 ELSE 0
          /\ \A k \in 1..Len(a) - 1 + 1 : u[k] = t[1 + k - 1]
          /\ u \in Seq(A)
        BY <1>1, <1>2, <1>4, SubSeqProperties
    <2> HIDE DEF u
    <2>2. Len(u) = Len(a)
        BY <1>1, <2>1
    <2>3. \A k \in 1..Len(u) : u[k] = a[k]
        BY <1>1, <1>3, <2>1, <2>2
    <2>4. u = a
        BY <2>1, <2>2, <2>3, SameSequence
    <2> QED
        BY <2>4 DEF u
<1>6. From(t, Len(a) + 1) = b
    <2> DEFINE u == SubSeq(t, Len(a) + 1, Len(t))
    <2>1. /\ Len(u) = IF Len(a) + 1 <= Len(t) THEN Len(t) - (Len(a) + 1) + 1 ELSE 0
          /\ \A k \in 1..Len(t) - (Len(a) + 1) + 1 : u[k] = t[(Len(a) + 1) + k - 1]
          /\ u \in Seq(A)
        BY <1>1, <1>2, <1>4, SubSeqProperties
    <2> HIDE DEF u
    <2>2. Len(u) = Len(b)
        BY <1>1, <1>2, <2>1
    <2>3. ASSUME NEW k \in 1..Len(u) PROVE u[k] = b[k]
        <3>1. k \in 1..Len(t) - (Len(a) + 1) + 1 /\ (Len(a) + 1) + k - 1 = Len(a) + k /\ k \in 1..Len(b)
            BY <1>1, <1>2, <2>2
        <3> QED
            BY <1>3, <2>1, <3>1
    <2>4. u = b
        BY <2>1, <2>2, <2>3, SameSequence
    <2> QED
        BY <2>4 DEF u, From
<1> QED
    BY <1>5, <1>6

(* The same as the first occurrence of a symbol.                           *)
LEMMA FoundFirst ==
    ASSUME NEW A, NEW a \in Seq(A), NEW b \in Seq(A), NEW c \in A, \A k \in 1..Len(a) : a[k] # c,
           NEW t, t = a \o (<<c>> \o b)
    PROVE  /\ t \in Seq(A) /\ IndexOf(t, c) = Len(a) + 1 /\ Len(a) \in Nat
           /\ Before(t, Len(a) + 1) = a /\ From(t, (Len(a) + 1) + 1) = b
<1> DEFINE d == <<c>> \o b
           I == {k \in 1..Len(t) : t[k] = c}
           n == Len(a)
<1>1. d \in Seq(A) /\ Len(d) = Len(b) + 1 /\ d[1] = c /\ Len(b) \in Nat /\ n \in Nat
    BY Prefixed
<1>2. t = a \o d
    OBVIOUS
<1> HIDE DEF d
<1>d. d \in Seq(A)
    BY <1>1
<1>3. t \in Seq(A) /\ Len(t) = n + Len(d)
    BY <1>2, <1>d, Concatenation, ZenonT(30)
<1>4. (\A p \in 1..Len(a) : t[p] = a[p]) /\ \A j \in 1..Len(d) : t[Len(a) + j] = d[j]
    BY <1>2, <1>d, Concatenation
<1>5. n + 1 \in I /\ I \subseteq Nat /\ \A y \in I : n + 1 <= y
    <2>1. n + 1 \in 1..Len(t) /\ 1 \in 1..Len(d) /\ Len(t) \in Nat
        BY <1>1, <1>3
    <2>2. t[n + 1] = c
        BY <1>1, <1>4, <2>1
    <2>3. ASSUME NEW y \in I PROVE n + 1 <= y
        <3>1. y \notin 1..n
            BY <1>4
        <3> HIDE DEF n
        <3>2. y \in Nat /\ y >= 1
            BY <2>1
        <3> QED
            BY <1>1, <3>1, <3>2
    <2> QED
        BY <2>1, <2>2, <2>3
<1>6. Min(I) = n + 1
    BY <1>5, MinIs
<1>7. IndexOf(t, c) = n + 1
    <2>1. IndexOf(t, c) = IF I # {} THEN Min(I) ELSE 0
        BY DEF IndexOf, SelectInSeq
    <2> HIDE DEF I
    <2> QED
        BY <1>5, <1>6, <2>1
<1>8. Before(t, n + 1) = a
    <2>1. SubSeq(t, 1, n) = a
        BY <1>2, <1>d, PartsBack
    <2>2. (n + 1) - 1 = n
        BY <1>1
    <2> QED
        BY <2>1, <2>2 DEF Before
<1>9. From(t, (n + 1) + 1) = b
    <2> DEFINE h == a \o <<c>>
    <2>1. h \in Seq(A) /\ Len(h) = n + 1
        BY Suffixed
    <2>2. t = h \o b
        <3>1. <<c>> \in Seq(A)
            BY Tuples
        <3>2. (a \o <<c>>) \o b = a \o (<<c>> \o b)
            BY <3>1, ConcatAssociative
        <3> QED
            BY <3>2
    <2>3. h \in Seq(A)
        BY <2>1
    <2> HIDE DEF h
    <2>4. From(t, Len(h) + 1) = b
        BY <2>2, <2>3, PartsBack
    <2> QED
        BY <2>1, <2>4
<1> QED
    BY <1>1, <1>3, <1>7, <1>8, <1>9

(* The first occurrence alone.                                             *)
LEMMA FirstAt ==
    ASSUME NEW t, NEW c, Len(t) \in Nat, NEW m \in 1..Len(t), t[m] = c, \A k \in 1..m - 1 : t[k] # c
    PROVE  IndexOf(t, c) = m
<1> DEFINE I == {k \in 1..Len(t) : t[k] = c}
<1>1. IndexOf(t, c) = IF I # {} THEN Min(I) ELSE 0
    BY DEF IndexOf, SelectInSeq
<1>2. m \in I /\ I \subseteq Nat
    OBVIOUS
<1>3. ASSUME NEW y \in I PROVE m <= y
    <2>1. y \notin 1..m - 1 /\ y \in Nat /\ y >= 1 /\ m \in Nat
        OBVIOUS
    <2> HIDE DEF I
    <2> QED
        BY <2>1
<1>4. Min(I) = m
    BY <1>2, <1>3, MinIs
<1> HIDE DEF I
<1> QED
    BY <1>1, <1>2, <1>4

(* The same as the last occurrence.                                        *)
LEMMA FoundLast ==
    ASSUME NEW A, NEW a \in Seq(A), NEW b \in Seq(A), NEW c \in A, \A k \in 1..Len(b) : b[k] # c,
           NEW t, t = a \o (<<c>> \o b)
    PROVE  /\ LastIndexOf(t, c) = Len(a) + 1 /\ Len(a) \in Nat
           /\ Before(t, Len(a) + 1) = a /\ From(t, (Len(a) + 1) + 1) = b
<1> DEFINE d == <<c>> \o b
           I == {k \in 1..Len(t) : t[k] = c}
           n == Len(a)
<1>1. d \in Seq(A) /\ Len(d) = Len(b) + 1 /\ d[1] = c /\ Len(b) \in Nat /\ n \in Nat /\ \A p \in 1..Len(b) : d[p + 1] = b[p]
    BY Prefixed
<1>2. t = a \o d
    OBVIOUS
<1> HIDE DEF d
<1>d. d \in Seq(A)
    BY <1>1
<1>3. t \in Seq(A) /\ Len(t) = n + Len(d)
    BY <1>2, <1>d, Concatenation, ZenonT(30)
<1>4. \A j \in 1..Len(d) : t[Len(a) + j] = d[j]
    BY <1>2, <1>d, Concatenation
<1>5. n + 1 \in I /\ I \subseteq 0..Len(t) /\ Len(t) \in Nat /\ \A y \in I : y <= n + 1
    <2>1. n + 1 \in 1..Len(t) /\ 1 \in 1..Len(d) /\ Len(t) \in Nat
        BY <1>1, <1>3
    <2>2. t[n + 1] = c
        BY <1>1, <1>4, <2>1
    <2>3. ASSUME NEW y \in I PROVE y <= n + 1
        <3> SUFFICES ASSUME ~(y <= n + 1) PROVE FALSE
            OBVIOUS
        <3>0. y \in 1..Len(t) /\ t[y] = c
            OBVIOUS
        <3> DEFINE j == y - n
                   p == y - (n + 1)
        <3>1. j \in 1..Len(d) /\ n + j = y /\ p \in 1..Len(b) /\ p + 1 = j
            <4> HIDE DEF n, I
            <4> QED
                BY <1>1, <1>3, <2>1, <3>0
        <3>2. t[y] = d[j] /\ d[j] = b[p]
            <4> HIDE DEF j, p
            <4>1. t[n + j] = d[j] /\ d[p + 1] = b[p]
                BY <1>1, <1>4, <3>1
            <4> QED
                BY <3>1, <4>1
        <3> QED
            BY <3>0, <3>1, <3>2
    <2> QED
        BY <2>1, <2>2, <2>3
<1>6. Max(I) = n + 1
    BY <1>5, MaxIs
<1>7. LastIndexOf(t, c) = n + 1
    <2>1. LastIndexOf(t, c) = IF I # {} THEN Max(I) ELSE 0
        BY DEF LastIndexOf, SelectLastInSeq
    <2> HIDE DEF I
    <2> QED
        BY <1>5, <1>6, <2>1
<1>8. Before(t, n + 1) = a
    <2>1. SubSeq(t, 1, n) = a
        BY <1>2, <1>d, PartsBack
    <2>2. (n + 1) - 1 = n
        BY <1>1
    <2> QED
        BY <2>1, <2>2 DEF Before
<1>9. From(t, (n + 1) + 1) = b
    <2> DEFINE h == a \o <<c>>
    <2>1. h \in Seq(A) /\ Len(h) = n + 1
        BY Suffixed
    <2>2. t = h \o b
        <3>1. <<c>> \in Seq(A)
            BY Tuples
        <3>2. (a \o <<c>>) \o b = a \o (<<c>> \o b)
            BY <3>1, ConcatAssociative
        <3> QED
            BY <3>2
    <2>3. h \in Seq(A)
        BY <2>1
    <2> HIDE DEF h
    <2>4. From(t, Len(h) + 1) = b
        BY <2>2, <2>3, PartsBack
    <2> QED
        BY <2>1, <2>4
<1> QED
    BY <1>1, <1>7, <1>8, <1>9

(* A symbol that does not occur.                                           *)
LEMMA NotFound ==
    ASSUME NEW t, NEW c, \A k \in 1..Len(t) : t[k] # c
    PROVE  IndexOf(t, c) = 0 /\ LastIndexOf(t, c) = 0
<1> DEFINE I == {k \in 1..Len(t) : t[k] = c}
<1>1. IndexOf(t, c) = (IF I # {} THEN Min(I) ELSE 0) /\ LastIndexOf(t, c) = IF I # {} THEN Max(I) ELSE 0
    BY DEF IndexOf, SelectInSeq, LastIndexOf, SelectLastInSeq
<1>2. I = {}
    OBVIOUS
<1> QED
    BY <1>1, <1>2

(* There is nothing to trim before a symbol that is not blank.             *)
LEMMA TrimNothing ==
    ASSUME NEW A, NEW t \in Seq(A), t # <<>>, t[1] \notin Blanks
    PROVE  TrimLeft(t) = t
<1> DEFINE S == {k \in DOMAIN t : t[k] \notin Blanks}
<1>1. TrimLeft(t) = IF S = {} THEN <<>> ELSE SubSeq(t, Min(S), Len(t))
    BY DEF TrimLeft
<1>2. Len(t) \in Nat /\ DOMAIN t = 1..Len(t) /\ 1 \in DOMAIN t
    OBVIOUS
<1>3. 1 \in S /\ S \subseteq Nat /\ \A y \in S : 1 <= y
    BY <1>2
<1> HIDE DEF S
<1>4. Min(S) = 1
    BY <1>3, MinIs
<1>5. SubSeq(t, 1, Len(t)) = t
    BY SubSeqFull
<1> QED
    BY <1>1, <1>3, <1>4, <1>5

(* The blank between the bracket and the first word.                       *)
LEMMA TrimBlank ==
    ASSUME NEW A, NEW r \in Seq(A), r # <<>>, r[1] \notin Blanks, NEW c \in A, c \in Blanks, NEW t, t = <<c>> \o r
    PROVE  TrimLeft(t) = r
<1> DEFINE S == {k \in DOMAIN t : t[k] \notin Blanks}
<1>1. TrimLeft(t) = IF S = {} THEN <<>> ELSE From(t, Min(S))
    BY DEF TrimLeft, From
<1>2. t \in Seq(A) /\ Len(t) = Len(r) + 1 /\ t[1] = c /\ Len(r) \in Nat /\ \A p \in 1..Len(r) : t[p + 1] = r[p]
    BY Prefixed
<1>3. DOMAIN t = 1..Len(t)
    BY <1>2
<1>4. 1 \in 1..Len(r) /\ Len(r) # 0
    BY <1>2
<1>5. t[2] = r[1]
    BY <1>2, <1>4
<1>6. 2 \in S /\ S \subseteq Nat /\ \A y \in S : 2 <= y
    <2>1. 2 \in DOMAIN t /\ S \subseteq Nat
        BY <1>2, <1>3, <1>4
    <2>2. ASSUME NEW y \in S PROVE 2 <= y
        <3>1. y # 1
            BY <1>2
        <3>2. y \in Nat /\ y >= 1
            BY <1>2, <1>3
        <3> QED
            BY <3>1, <3>2
    <2> QED
        BY <1>5, <2>1, <2>2
<1> HIDE DEF S
<1>7. Min(S) = 2
    BY <1>6, MinIs
<1>8. From(t, 2) = r
    <2> DEFINE q == <<c>>
    <2>1. q \in Seq(A) /\ Len(q) = 1
        BY Tuples
    <2>2. q \in Seq(A) /\ t = q \o r
        BY <2>1
    <2> HIDE DEF q
    <2>3. From(t, Len(q) + 1) = r
        BY <2>2, PartsBack
    <2> QED
        BY <2>1, <2>3
<1> QED
    BY <1>1, <1>6, <1>7, <1>8

(* Only the end of the line is trimmed at the end.                         *)
LEMMA TrimEnds ==
    ASSUME NEW A, NEW l \in Seq(A), l # <<>>, l[Len(l)] \notin {"CR", "NL"}, "CR" \in A, "NL" \in A
    PROVE  TrimEnd(l \o EOL) = l
<1> DEFINE t == l \o EOL
           S == {0} \cup {k \in DOMAIN t : t[k] \notin {"CR", "NL"}}
           n == Len(l)
<1>1. EOL \in Seq(A) /\ Len(EOL) = 2 /\ EOL[1] = "CR" /\ EOL[2] = "NL"
    BY DEF EOL
<1>2. n \in Nat /\ n # 0
    OBVIOUS
<1>e. EOL \in Seq(A)
    BY <1>1
<1>3. t \in Seq(A) /\ Len(t) = n + Len(EOL)
    BY <1>e, Concatenation
<1>4. (\A p \in 1..Len(l) : t[p] = l[p]) /\ \A j \in 1..Len(EOL) : t[Len(l) + j] = EOL[j]
    BY <1>e, Concatenation
<1>5. SubSeq(t, 1, n) = l
    BY <1>e, PartsBack
<1>6. TrimEnd(t) = SubSeq(t, 1, Max(S))
    BY DEF TrimEnd
<1> HIDE DEF t
<1>7. DOMAIN t = 1..Len(t) /\ Len(t) = n + 2 /\ t[n] = l[n] /\ t[n + 1] = "CR" /\ t[n + 2] = "NL"
    <2>1. DOMAIN t = 1..Len(t) /\ Len(t) = n + 2
        BY <1>1, <1>3
    <2>2. n \in 1..n /\ 1 \in 1..Len(EOL) /\ 2 \in 1..Len(EOL)
        BY <1>1, <1>2
    <2> QED
        BY <1>1, <1>4, <2>1, <2>2
<1>8. n \in S /\ S \subseteq 0..n + 2 /\ n + 2 \in Nat /\ \A y \in S : y <= n
    <2>1. n \in S /\ S \subseteq 0..n + 2 /\ n + 2 \in Nat
        BY <1>2, <1>7
    <2>2. n + 1 \notin S /\ n + 2 \notin S
        BY <1>2, <1>7
    <2>3. ASSUME NEW y \in S PROVE y <= n
        <3>1. y # n + 1 /\ y # n + 2 /\ y \in 0..n + 2
            BY <2>1, <2>2
        <3> HIDE DEF S, n
        <3> QED
            BY <1>2, <3>1
    <2> QED
        BY <2>1, <2>3
<1>9. Max(S) = n
    BY <1>8, MaxIs
<1> QED
    BY <1>5, <1>6, <1>9 DEF t

(* Two elements before a sequence.                                         *)
LEMMA TwoBefore ==
    ASSUME NEW A, NEW c \in A, NEW d \in A, NEW t \in Seq(A)
    PROVE  <<c, d>> \o t = <<c>> \o (<<d>> \o t)
<1> DEFINE q == <<d>>
           x == <<c>> \o q
           y == <<c, d>>
<1>0. /\ <<c>> \in Seq(A) /\ q \in Seq(A) /\ Len(q) = 1 /\ q[1] = d
      /\ y \in Seq(A) /\ Len(y) = 2 /\ y[1] = c /\ y[2] = d
    BY Tuples
<1>1. <<c>> \in Seq(A) /\ <<d>> \in Seq(A) /\ <<c, d>> = <<c>> \o <<d>>
    <2>0. q \in Seq(A) /\ x = <<c>> \o q
        BY <1>0
    <2> HIDE DEF q, x
    <2>1. x \in Seq(A) /\ Len(x) = Len(q) + 1 /\ x[1] = c /\ \A p \in 1..Len(q) : x[p + 1] = q[p]
        BY <2>0, Prefixed
    <2>2. Len(x) = 2 /\ x[1] = c /\ x[2] = d
        BY <1>0, <2>1
    <2> HIDE DEF y
    <2>3. x = y
        <3>1. \A k \in 1..2 : x[k] = y[k]
            BY <1>0, <2>2
        <3> QED
            BY <1>0, <2>1, <2>2, <3>1, SameSequence
    <2> QED
        BY <1>0, <2>3 DEF x, y, q
<1>2. (<<c>> \o <<d>>) \o t = <<c>> \o (<<d>> \o t)
    BY <1>1, ConcatAssociative
<1> QED
    BY <1>1, <1>2

(* In which order sequences are put together makes no difference.          *)
LEMMA FourParts ==
    ASSUME NEW A
    PROVE  \A x, b, c, d \in Seq(A) :
            ((x \o b) \o c) \o d = x \o (b \o (c \o d)) /\ b \o (c \o d) \in Seq(A)
<1> DEFINE Q == Seq(A)
<1>1. \A x, y \in Q : x \o y \in Q
    BY Concatenation
<1>2. \A x, y, u \in Q : (x \o y) \o u = x \o (y \o u)
    BY ConcatAssociative
<1> HIDE DEF Q
<1>3. ASSUME NEW x \in Q, NEW b \in Q, NEW c \in Q, NEW d \in Q
      PROVE  ((x \o b) \o c) \o d = x \o (b \o (c \o d)) /\ b \o (c \o d) \in Q
    <2> DEFINE y == x \o b
               u == c \o d
    <2>1. y \in Q /\ u \in Q
        BY <1>1
    <2>2. b \o u \in Q
        BY <1>1, <2>1
    <2>3. (x \o b) \o u = x \o (b \o u)
        BY <1>2, <2>1, SMTT(30)
    <2> HIDE DEF y
    <2>4. (y \o c) \o d = y \o (c \o d)
        BY <1>2, <2>1, SMTT(30)
    <2> QED
        BY <2>2, <2>3, <2>4 DEF y
<1> QED
    BY <1>3 DEF Q

(* The ten parts of a line of MONITOR.                                     *)
Parts(Q, a, b, c, d, e, f, g, h, j, k) ==
    a \in Q /\ b \in Q /\ c \in Q /\ d \in Q /\ e \in Q /\ f \in Q /\ g \in Q /\ h \in Q /\ j \in Q /\ k \in Q

Grouped(a, b, c, d, e, f, g, h, j, k) ==
    ((((((((a \o b) \o c) \o d) \o e) \o f) \o g) \o h) \o j) \o k
        = a \o ((b \o (c \o d)) \o (e \o ((f \o (g \o h)) \o (j \o k))))

(* They can be grouped as Parse takes them apart.                          *)
LEMMA LineParts ==
    \A a, b, c, d, e, f, g, h, j, k :
        Parts(Seq(Bytes), a, b, c, d, e, f, g, h, j, k) => Grouped(a, b, c, d, e, f, g, h, j, k)
<1> SUFFICES ASSUME NEW a, NEW b, NEW c, NEW d, NEW e, NEW f, NEW g, NEW h, NEW j, NEW k,
                    Parts(Seq(Bytes), a, b, c, d, e, f, g, h, j, k)
             PROVE  ((((((((a \o b) \o c) \o d) \o e) \o f) \o g) \o h) \o j) \o k
                        = a \o ((b \o (c \o d)) \o (e \o ((f \o (g \o h)) \o (j \o k))))
    BY Zenon DEF Grouped
<1> DEFINE Q == Seq(Bytes)
           z == f \o (g \o h)
           m == b \o (c \o d)
           l == ((a \o b) \o c) \o d
           n == l \o e
           w == z \o (j \o k)
<1>0. \A x, y, u, v \in Q :
            ((x \o y) \o u) \o v = x \o (y \o (u \o v)) /\ y \o (u \o v) \in Q
    BY FourParts
<1>c. \A x, y \in Q : x \o y \in Q
    BY Concatenation
<1>p. Parts(Q, a, b, c, d, e, f, g, h, j, k)
    OBVIOUS
<1> HIDE DEF Q
<1>a. a \in Q /\ b \in Q /\ c \in Q /\ d \in Q
    BY <1>p, Zenon DEF Parts
<1>e. e \in Q
    BY <1>p, Zenon DEF Parts
<1>f. f \in Q /\ g \in Q /\ h \in Q
    BY <1>p, Zenon DEF Parts
<1>j. j \in Q /\ k \in Q
    BY <1>p, Zenon DEF Parts
<1>1. l = a \o m /\ m \in Q
    <2>1. \A y, u, v \in Q :
            ((a \o y) \o u) \o v = a \o (y \o (u \o v)) /\ y \o (u \o v) \in Q
        BY <1>a, <1>0, Zenon
    <2>2. \A u, v \in Q :
            ((a \o b) \o u) \o v = a \o (b \o (u \o v)) /\ b \o (u \o v) \in Q
        BY <1>a, <2>1, Zenon
    <2> QED
        BY <1>a, <2>2, Zenon
<1> HIDE DEF m
<1>2. a \o m \in Q
    BY <1>1, <1>a, <1>c
<1> HIDE DEF l
<1>3. n \in Q
    BY <1>1, <1>2, <1>e, <1>c
<1> HIDE DEF n
<1>4. ((n \o f) \o g) \o h = n \o z /\ z \in Q
    BY <1>3, <1>f, <1>0
<1> HIDE DEF z
<1>5. ((n \o z) \o j) \o k = n \o w /\ w \in Q
    <2>1. z \in Q
        BY <1>4
    <2> QED
        BY <2>1, <1>3, <1>j, <1>0
<1> HIDE DEF w
<1>6. ((a \o m) \o e) \o w = a \o (m \o (e \o w))
    <2>1. m \in Q /\ w \in Q /\ a \in Q
        BY <1>1, <1>5, <1>a
    <2>2. \A y, u, v \in Q :
            ((a \o y) \o u) \o v = a \o (y \o (u \o v)) /\ y \o (u \o v) \in Q
        BY <1>a, <1>0, Zenon
    <2>3. \A u, v \in Q :
            ((a \o m) \o u) \o v = a \o (m \o (u \o v)) /\ m \o (u \o v) \in Q
        BY <2>1, <2>2, Zenon
    <2> QED
        BY <2>1, <1>e, <2>3, Zenon
<1>7. ((((n \o f) \o g) \o h) \o j) \o k = n \o w
    BY <1>4, <1>5, Zenon
<1>8. n \o w = a \o (m \o (e \o w))
    BY <1>1, <1>6, Zenon DEF n
<1>9. ((((n \o f) \o g) \o h) \o j) \o k = a \o (m \o (e \o w))
    BY <1>7, <1>8, Zenon
<1> QED
    BY <1>9, Zenon DEF n, w, m, l, z

(* The address of an IPv6 client, element by element.                      *)
LEMMA BracketedAddress ==
    ASSUME NEW A, NEW ip \in Seq(A), NEW port \in Seq(A), NEW lb \in A, NEW rb \in A, NEW co \in A,
           NEW t, t = ((<<lb>> \o ip) \o <<rb, co>>) \o port, NEW n, n = Len(ip)
    PROVE  /\ t \in Seq(A) /\ n \in Nat /\ Len(t) = n + 3 + Len(port)
           /\ t[1] = lb /\ t[n + 2] = rb /\ t[n + 3] = co
           /\ \A k \in 1..n : t[k + 1] = ip[k]
           /\ \A k \in 1..Len(port) : t[(n + 3) + k] = port[k]
           /\ SubSeq(t, n + 4, Len(t)) = port
<1> DEFINE x == <<lb>> \o ip
           q == <<rb, co>>
           y == x \o q
<1>1. x \in Seq(A) /\ n \in Nat /\ Len(x) = n + 1 /\ x[1] = lb /\ \A k \in 1..n : x[k + 1] = ip[k]
    BY Prefixed
<1>2. q \in Seq(A) /\ Len(q) = 2 /\ q[1] = rb /\ q[2] = co
    BY Tuples
<1>3. t = y \o port
    OBVIOUS
<1>x. x \in Seq(A) /\ q \in Seq(A)
    BY <1>1, <1>2
<1> HIDE DEF x, q
<1>4. y \in Seq(A) /\ Len(y) = Len(x) + Len(q)
    BY <1>x, Concatenation
<1>5. (\A p \in 1..Len(x) : y[p] = x[p]) /\ \A j \in 1..Len(q) : y[Len(x) + j] = q[j]
    BY <1>x, Concatenation
<1> HIDE DEF y
<1>6. Len(y) = n + 3 /\ y[1] = lb /\ y[n + 2] = rb /\ y[n + 3] = co /\ \A k \in 1..n : y[k + 1] = ip[k]
    <2>1. Len(y) = n + 3
        BY <1>1, <1>2, <1>4
    <2>2. 1 \in 1..Len(x) /\ 1 \in 1..Len(q) /\ 2 \in 1..Len(q) /\ Len(x) + 1 = n + 2 /\ Len(x) + 2 = n + 3
        BY <1>1, <1>2
    <2>3. y[1] = lb /\ y[n + 2] = rb /\ y[n + 3] = co
        BY <1>1, <1>2, <1>5, <2>2
    <2>4. ASSUME NEW k \in 1..n PROVE y[k + 1] = ip[k]
        <3>1. k + 1 \in 1..Len(x)
            BY <1>1
        <3> QED
            BY <1>1, <1>5, <3>1
    <2> QED
        BY <2>1, <2>3, <2>4
<1>y. y \in Seq(A)
    BY <1>4
<1>7. t \in Seq(A) /\ Len(t) = Len(y) + Len(port)
    BY <1>3, <1>y, Concatenation
<1>8. (\A p \in 1..Len(y) : t[p] = y[p]) /\ \A j \in 1..Len(port) : t[Len(y) + j] = port[j]
    BY <1>3, <1>y, Concatenation, SMTT(30)
<1>9. From(t, Len(y) + 1) = port
    BY <1>3, <1>y, PartsBack
<1>10. t[1] = lb /\ t[n + 2] = rb /\ t[n + 3] = co
    <2>1. 1 \in 1..Len(y) /\ n + 2 \in 1..Len(y) /\ n + 3 \in 1..Len(y)
        BY <1>1, <1>6
    <2> QED
        BY <1>6, <1>8, <2>1
<1>11. ASSUME NEW k \in 1..n PROVE t[k + 1] = ip[k]
    <2>1. k + 1 \in 1..Len(y)
        BY <1>1, <1>6
    <2> QED
        BY <1>6, <1>8, <2>1
<1>12. Len(t) = n + 3 + Len(port) /\ From(t, n + 4) = port
    <2>1. Len(y) + 1 = n + 4
        BY <1>1, <1>6
    <2> QED
        BY <1>6, <1>7, <1>9, <2>1
<1>13. \A k \in 1..Len(port) : t[(n + 3) + k] = port[k]
    BY <1>6, <1>8
<1> QED
    BY <1>1, <1>7, <1>10, <1>11, <1>12, <1>13 DEF From

(* What is made of strings is made of bytes.                               *)
LEMMA StringBytes == ASSUME NEW t \in Seq(STRING) PROVE t \in Seq(Bytes)
<1>1. STRING \subseteq Bytes
    BY DEF Bytes
<1> HIDE DEF Bytes
<1> QED
    BY <1>1, SeqMonotonic

(* An address between brackets.                                            *)
Bracketed(ip, port) == ((<<"[">> \o ip) \o <<"]", ":">>) \o port

(* splitHostPort takes the address of an IPv6 client apart.                *)
LEMMA BracketedSplits ==
    ASSUME NEW ip \in Seq(Bytes), NEW port \in Seq(Bytes),
           \A k \in 1..Len(ip) : ip[k] # "]", \A k \in 1..Len(port) : port[k] # "]",
           NEW t, t = Bracketed(ip, port)
    PROVE  /\ t \in Seq(Bytes) /\ t # <<>>
           /\ SplitHostPort(t) = [ip |-> ip, port |-> port]
           /\ \A k \in 1..Len(t) : t[k] = "]" => k < Len(t) /\ t[k + 1] = ":"
<1> DEFINE n == Len(ip)
           lb == "["
           rb == "]"
           co == ":"
           end == n + 2
<1>0. lb \in Bytes /\ rb \in Bytes /\ co \in Bytes /\ lb # rb /\ rb # co
    BY DEF Bytes
<1>a. \A k \in 1..n : ip[k] # rb
    OBVIOUS
<1>t. t = ((<<lb>> \o ip) \o <<rb, co>>) \o port
    BY DEF Bracketed
<1>n. n = Len(ip)
    OBVIOUS
<1>b. \A k \in 1..Len(port) : port[k] # rb
    OBVIOUS
<1>l. lb \in Bytes /\ rb \in Bytes /\ co \in Bytes
    BY DEF Bytes
<1> HIDE DEF lb, rb, co, n
<1>1. /\ t \in Seq(Bytes) /\ n \in Nat /\ Len(t) = n + 3 + Len(port)
      /\ t[1] = lb /\ t[n + 2] = rb /\ t[n + 3] = co
      /\ \A k \in 1..n : t[k + 1] = ip[k]
      /\ \A k \in 1..Len(port) : t[(n + 3) + k] = port[k]
      /\ From(t, n + 4) = port
    <2>1. t \in Seq(Bytes) /\ n \in Nat
        BY <1>l, <1>t, <1>n, BracketedAddress
    <2>2. Len(t) = n + 3 + Len(port)
        BY <1>l, <1>t, <1>n, BracketedAddress
    <2>3. t[1] = lb /\ t[n + 2] = rb /\ t[n + 3] = co
        BY <1>l, <1>t, <1>n, BracketedAddress
    <2>4. \A k \in 1..n : t[k + 1] = ip[k]
        BY <1>l, <1>t, <1>n, BracketedAddress
    <2>5. \A k \in 1..Len(port) : t[(n + 3) + k] = port[k]
        BY <1>l, <1>t, <1>n, BracketedAddress
    <2>6. SubSeq(t, n + 4, Len(t)) = port
        BY <1>l, <1>t, <1>n, BracketedAddress
    <2> QED
        BY <2>1, <2>2, <2>3, <2>4, <2>5, <2>6 DEF From
<1>2. Len(port) \in Nat /\ Len(t) \in Nat /\ n \in Nat
    BY <1>1
<1>3. ASSUME NEW k \in 1..Len(t), t[k] = rb PROVE k = end
    <2>1. k # 1 /\ k # n + 3
        BY <1>0, <1>1, <1>3
    <2>2. k \notin 2..n + 1
        <3> SUFFICES ASSUME k \in 2..n + 1 PROVE FALSE
            OBVIOUS
        <3>1. k - 1 \in 1..n /\ (k - 1) + 1 = k
            BY <1>2
        <3> QED
            BY <1>1, <1>3, <1>a, <3>1, ZenonT(30)
    <2>3. k \notin n + 4..Len(t)
        <3> SUFFICES ASSUME k \in n + 4..Len(t) PROVE FALSE
            OBVIOUS
        <3>1. k - (n + 3) \in 1..Len(port) /\ (n + 3) + (k - (n + 3)) = k
            BY <1>1, <1>2
        <3> QED
            BY <1>1, <1>3, <1>b, <3>1, ZenonT(30)
    <2> HIDE DEF n
    <2> QED
        BY <1>1, <1>2, <2>1, <2>2, <2>3
<1>4. IndexOf(t, rb) = end
    <2> DEFINE I == {k \in 1..Len(t) : t[k] = rb}
    <2>1. IndexOf(t, rb) = IF I # {} THEN Min(I) ELSE 0
        BY DEF IndexOf, SelectInSeq
    <2>2. end \in I
        BY <1>1, <1>2
    <2>3. I \subseteq Nat /\ \A y \in I : end <= y
        BY <1>2, <1>3
    <2>4. Min(I) = end
        BY <2>2, <2>3, MinIs
    <2> HIDE DEF I, end
    <2> QED
        BY <2>1, <2>2, <2>4
<1>5. SubSeq(t, 2, end - 1) = ip
    <2> DEFINE u == SubSeq(t, 2, end - 1)
    <2>0. \A k \in 2..end - 1 : t[k] \in Bytes
        BY <1>1, <1>2
    <2>1. /\ Len(u) = IF 2 <= end - 1 THEN (end - 1) - 2 + 1 ELSE 0
          /\ \A k \in 1..(end - 1) - 2 + 1 : u[k] = t[2 + k - 1]
          /\ u \in Seq(Bytes)
        BY <1>1, <1>2, <2>0, SubSeqProperties
    <2> HIDE DEF u
    <2>2. Len(u) = n
        BY <1>2, <2>1
    <2>u. u \in Seq(Bytes) /\ Len(u) = Len(ip)
        BY <1>n, <2>1, <2>2
    <2>3. ASSUME NEW k \in 1..Len(u) PROVE u[k] = ip[k]
        <3>1. k \in 1..n /\ k \in 1..(end - 1) - 2 + 1 /\ 2 + k - 1 = k + 1
            BY <1>2, <2>2
        <3> QED
            BY <1>1, <2>1, <3>1
    <2>4. u = ip
        BY <2>u, <2>3, SameSequence
    <2> QED
        BY <2>4 DEF u
<1>6. end # 0 /\ end < Len(t) /\ t[end + 1] = co /\ From(t, end + 2) = port /\ t # <<>>
    <2>1. end + 1 = n + 3 /\ end + 2 = n + 4 /\ end # 0 /\ end < Len(t)
        BY <1>1, <1>2
    <2> HIDE DEF end
    <2> QED
        BY <1>1, <2>1
<1> HIDE DEF end
<1>7. SplitHostPort(t) = [ip |-> ip, port |-> port]
    BY <1>1, <1>4, <1>5, <1>6 DEF SplitHostPort, lb, rb, co
<1>8. \A k \in 1..Len(t) : t[k] = rb => k < Len(t) /\ t[k + 1] = co
    BY <1>3, <1>6
<1> QED
    BY <1>1, <1>6, <1>7, <1>8 DEF rb, co

(* ... and the address of any other client that has a port.                *)
LEMMA PlainSplits ==
    ASSUME NEW ip \in Seq(Bytes), NEW port \in Seq(Bytes), NEW co, co = ":",
           \A k \in 1..Len(ip) : ip[k] # "]", \A k \in 1..Len(port) : port[k] # "]",
           \A k \in 1..Len(port) : port[k] # co, ip # <<>> => ip[1] # "[",
           NEW t, t = (ip \o <<co>>) \o port
    PROVE  /\ t \in Seq(Bytes) /\ t # <<>>
           /\ SplitHostPort(t) = [ip |-> ip, port |-> port]
           /\ \A k \in 1..Len(t) : t[k] # "]"
<1> DEFINE q == <<co>>
           x == ip \o q
           n == Len(ip)
<1>c. co \in Bytes
    BY DEF Bytes
<1>0. q \in Seq(Bytes) /\ Len(q) = 1 /\ q[1] = co
    BY <1>c, Tuples
<1>1. x \in Seq(Bytes) /\ n \in Nat /\ Len(x) = n + 1 /\ x[n + 1] = co /\ \A p \in 1..n : x[p] = ip[p]
    BY <1>c, Suffixed
<1>q. q \in Seq(Bytes)
    BY <1>0
<1>2. t = ip \o (<<co>> \o port)
    <2> HIDE DEF q
    <2>1. (ip \o q) \o port = ip \o (q \o port)
        BY <1>q, ConcatAssociative
    <2> QED
        BY <2>1 DEF q
<1>3. /\ LastIndexOf(t, co) = n + 1
      /\ Before(t, n + 1) = ip /\ From(t, (n + 1) + 1) = port
    <2>1. LastIndexOf(t, co) = Len(ip) + 1
        BY <1>2, <1>c, FoundLast
    <2>2. Before(t, Len(ip) + 1) = ip
        BY <1>2, <1>c, FoundLast DEF Before
    <2>3. From(t, (Len(ip) + 1) + 1) = port
        BY <1>2, <1>c, FoundLast DEF From
    <2> QED
        BY <2>1, <2>2, <2>3
<1>x. x \in Seq(Bytes) /\ t = x \o port
    BY <1>1
<1> HIDE DEF x, q
<1>4. t \in Seq(Bytes) /\ Len(t) = Len(x) + Len(port)
    <2>1. t \in Seq(Bytes)
        BY <1>x, Concatenation
    <2>2. Len(t) = Len(x) + Len(port)
        <3>1. Len(x \o port) = Len(x) + Len(port)
            BY <1>x, Concatenation
        <3>2. t = x \o port
            BY <1>x
        <3> QED
            BY <3>1, <3>2, Zenon
    <2> QED
        BY <2>1, <2>2
<1>5. (\A p \in 1..Len(x) : t[p] = x[p]) /\ \A j \in 1..Len(port) : t[Len(x) + j] = port[j]
    BY <1>x, Concatenation
<1>6. Len(port) \in Nat /\ Len(t) \in Nat
    BY <1>4
<1>7. ASSUME NEW k \in 1..Len(t) PROVE t[k] # "]"
    <2>1. CASE k \in 1..n
        <3>1. k \in 1..Len(x)
            BY <1>1, <2>1
        <3> QED
            BY <1>1, <1>5, <2>1, <3>1
    <2>2. CASE k = n + 1
        <3>1. k \in 1..Len(x)
            BY <1>1, <2>2
        <3> QED
            BY <1>1, <1>5, <2>2, <3>1
    <2>3. CASE k > n + 1
        <3> DEFINE j == k - (n + 1)
        <3>1. j \in 1..Len(port) /\ Len(x) + j = k
            BY <1>1, <1>4, <1>6, <2>3
        <3> HIDE DEF j
        <3> QED
            BY <1>5, <3>1
    <2> HIDE DEF n
    <2> QED
        BY <1>1, <1>6, <2>1, <2>2, <2>3
<1>8. t # <<>> /\ t[1] # "["
    <2>1. 1 \in 1..Len(x) /\ Len(t) # 0
        BY <1>1, <1>4, <1>6
    <2>2. t[1] = x[1]
        BY <1>5, <2>1
    <2>3. CASE ip = <<>>
        <3>1. n = 0
            BY <2>3
        <3>2. x[1] = co
            BY <1>1, <3>1
        <3> QED
            BY <2>1, <2>2, <3>2
    <2>4. CASE ip # <<>>
        <3>1. 1 \in 1..n
            BY <1>1, <2>4
        <3>2. x[1] = ip[1]
            BY <1>1, <3>1
        <3> QED
            BY <2>1, <2>2, <2>4, <3>2
    <2> QED
        BY <2>3, <2>4
<1> DEFINE last == LastIndexOf(t, ":")
<1>9. last = n + 1 /\ last # 0 /\ Before(t, last) = ip /\ From(t, last + 1) = port
    BY <1>1, <1>3
<1> HIDE DEF last
<1>10. SplitHostPort(t) = [ip |-> ip, port |-> port]
    BY <1>8, <1>9 DEF SplitHostPort, last
<1> QED
    BY <1>4, <1>7, <1>8, <1>10

(* So the client of every entry is found in its line, and a bracket in the *)
(* address is never followed by a blank.                                   *)
LEMMA AddressSplits ==
    ASSUME NEW e, EntryOk(e), NEW t, t = Address(e)
    PROVE  /\ t \in Seq(Bytes)
           /\ SplitHostPort(t) = [ip |-> e.ip, port |-> e.port]
           /\ \A k \in 1..Len(t) : t[k] = "]" => k < Len(t) /\ t[k + 1] = ":"
<1> DEFINE ip == e.ip
           port == e.port
<1>0. /\ ip \in Seq(STRING) /\ port \in Seq(STRING) /\ e.v6 \in BOOLEAN
      /\ \A k \in DOMAIN ip : ip[k] # "]"
      /\ \A k \in DOMAIN port : port[k] # "]"
      /\ \A k \in DOMAIN port : port[k] # ":"
      /\ ~e.v6 => (ip # <<>> => ip[1] # "[") /\ (port = <<>> => \A k \in DOMAIN ip : ip[k] # ":")
    BY DEF EntryOk, PlainPort
<1>1. t = CASE e.v6 -> Bracketed(ip, port)
            [] ~e.v6 /\ port # <<>> -> (ip \o <<":">>) \o port
            [] OTHER -> ip
    BY DEF Address, Bracketed
<1> HIDE DEF ip, port
<1>2. ip \in Seq(Bytes) /\ port \in Seq(Bytes)
    BY <1>0, StringBytes
<1>3. DOMAIN ip = 1..Len(ip) /\ DOMAIN port = 1..Len(port) /\ Len(ip) \in Nat
    BY <1>0
<1>4. /\ \A k \in 1..Len(ip) : ip[k] # "]"
      /\ \A k \in 1..Len(port) : port[k] # "]"
      /\ \A k \in 1..Len(port) : port[k] # ":"
    BY <1>0, <1>3
<1>5. CASE e.v6
    <2>1. t = Bracketed(ip, port)
        BY <1>1, <1>5
    <2> QED
        BY <1>2, <1>4, <2>1, BracketedSplits DEF ip, port
<1>6. CASE ~e.v6 /\ port # <<>>
    <2> DEFINE co == ":"
    <2>1. t = (ip \o <<co>>) \o port
        BY <1>1, <1>6
    <2>2. co = ":" /\ \A k \in 1..Len(port) : port[k] # co
        BY <1>4
    <2>3. ip # <<>> => ip[1] # "["
        BY <1>0, <1>6
    <2> HIDE DEF co
    <2>4. /\ t \in Seq(Bytes)
          /\ SplitHostPort(t) = [ip |-> ip, port |-> port]
          /\ \A k \in 1..Len(t) : t[k] # "]"
        BY <1>2, <1>4, <2>1, <2>2, <2>3, PlainSplits
    <2> QED
        BY <2>4 DEF ip, port
<1>7. CASE ~e.v6 /\ port = <<>>
    <2>1. t = ip
        BY <1>1, <1>7
    <2>2. \A k \in 1..Len(ip) : ip[k] # ":"
        BY <1>0, <1>3, <1>7
    <2>3. LastIndexOf(ip, ":") = 0
        BY <2>2, NotFound
    <2>4. SplitHostPort(ip) = [ip |-> ip, port |-> port]
        BY <1>0, <1>7, <2>3 DEF SplitHostPort
    <2> QED
        BY <1>2, <1>4, <2>1, <2>4 DEF ip, port
<1> QED
    BY <1>0, <1>5, <1>6, <1>7

(* What is printed of the words begins and ends with a quote.              *)
LEMMA ReprEnds ==
    ASSUME NEW ws \in Words, NEW t, t = ReprAll(ws)
    PROVE  t \in Seq(Bytes) /\ t # <<>> /\ t[1] = "\"" /\ t[Len(t)] = "\""
<1>1. ws \in Seq(Seq(STRING)) /\ Len(ws) \in Nat /\ Len(ws) \in 1..Len(ws) /\ 1 \in 1..Len(ws)
    BY DEF Words
<1>2. t \in Seq(Bytes) /\ t # <<>>
    BY <1>1, ReprAllSpelled, ReprAllNotEmpty
<1>3. PICK P : Spelled(t, ws, P)
    BY <1>1, ReprAllSpelled
<1>4. P[0] = 0 /\ Len(t) = P[Len(ws)]
    BY <1>3 DEF Spelled
<1>5. t[1] = "\""
    <2>1. PICK m : Printed(t, ws[1], m) /\ m[0] = QuoteAt(1, P[1 - 1])
        BY <1>1, <1>3 DEF Spelled
    <2>2. m[0] = 1
        BY <1>4, <2>1 DEF QuoteAt
    <2>3. t[m[0]] = "\""
        BY <2>1 DEF Printed
    <2> QED
        BY <2>2, <2>3
<1>6. t[Len(t)] = "\""
    <2> DEFINE w == ws[Len(ws)]
    <2>1. PICK m : Printed(t, w, m) /\ P[Len(ws)] = m[Len(w)] + 1
        BY <1>1, <1>3 DEF Spelled
    <2> HIDE DEF w
    <2>2. t[m[Len(w)] + 1] = "\""
        BY <2>1 DEF Printed
    <2> QED
        BY <1>4, <2>1, <2>2
<1> QED
    BY <1>2, <1>5, <1>6

(* The symbol that separates the parts of a line.                          *)
Blank == " "

IsStamp(ts, sec, frac) == ts = sec \o (<<".">> \o frac)

(* parseTimestamp finds the seconds, and at most nine digits of the        *)
(* fraction.                                                               *)
LEMMA StampFound ==
    ASSUME NEW sec \in Seq(Bytes), NEW frac \in Seq(Bytes), IsNumber(sec), IsNumber(frac),
           NEW ts, IsStamp(ts, sec, frac)
    PROVE  /\ ts \in Seq(Bytes) /\ ts # <<>> /\ TimestampOk(ts)
           /\ \A k \in 1..Len(ts) : ts[k] # Blank
           /\ Timestamp(ts).sec = sec
           /\ Timestamp(ts).frac \in Seq(Bytes)
           /\ Len(Timestamp(ts).frac) = IF Len(frac) > 9 THEN 9 ELSE Len(frac)
           /\ \A k \in 1..Len(Timestamp(ts).frac) : Timestamp(ts).frac[k] = frac[k]
<1> DEFINE pt == "."
<1>t. ts = sec \o (<<pt>> \o frac)
    BY DEF IsStamp
<1>r. pt = "."
    OBVIOUS
<1>a. \A c \in Digits : c # " " /\ c # pt
    BY DEF Digits
<1>i. (\A k \in DOMAIN sec : sec[k] \in Digits) /\ \A k \in DOMAIN frac : frac[k] \in Digits
    BY DEF IsNumber
<1>j. DOMAIN sec = 1..Len(sec) /\ DOMAIN frac = 1..Len(frac)
    OBVIOUS
<1>1. \A k \in 1..Len(sec) : sec[k] # " " /\ sec[k] # pt
    BY <1>a, <1>i, <1>j, Zenon
<1>b. \A k \in 1..Len(frac) : frac[k] \in Digits /\ frac[k] # " "
    BY <1>a, <1>i, <1>j, Zenon
<1>2. Len(frac) \in Nat /\ Len(frac) # 0 /\ Len(sec) \in Nat /\ Len(sec) # 0
    BY DEF IsNumber
<1>p. pt \in Bytes
    BY DEF Bytes
<1>q. pt # " "
    OBVIOUS
<1> HIDE DEF pt
<1> DEFINE n == Len(sec)
           d == <<pt>> \o frac
<1>3. d \in Seq(Bytes) /\ Len(d) = Len(frac) + 1 /\ d[1] = pt /\ \A p \in 1..Len(frac) : d[p + 1] = frac[p]
    <2>1. d = <<pt>> \o frac /\ pt \in Bytes /\ frac \in Seq(Bytes)
        BY <1>p
    <2> HIDE DEF d
    <2> QED
        BY <2>1, Prefixed
<1>4. ts = sec \o d
    BY <1>t
<1>d. d \in Seq(Bytes)
    BY <1>3
<1> HIDE DEF d
<1>6. ts \in Seq(Bytes) /\ Len(ts) = n + Len(d)
    <2>1. sec \o d \in Seq(Bytes) /\ Len(sec \o d) = Len(sec) + Len(d)
        BY <1>d, Concatenation
    <2> QED
        BY <1>4, <2>1, Zenon
<1>7. (\A p \in 1..Len(sec) : ts[p] = sec[p]) /\ \A j \in 1..Len(d) : ts[Len(sec) + j] = d[j]
    BY <1>4, <1>d, Concatenation
<1> DEFINE m == IF Len(frac) > 9 THEN 9 ELSE Len(frac)
           dot == IndexOf(ts, ".")
           end == IF Len(ts) > dot + 9 THEN dot + 9 ELSE Len(ts)
           f == SubSeq(ts, dot + 1, end)
<1>8. Len(ts) = n + Len(frac) + 1 /\ Len(ts) \in Nat /\ n \in Nat /\ \A p \in 1..Len(frac) : ts[(n + 1) + p] = frac[p]
    <2>0. Len(d) = Len(frac) + 1 /\ Len(ts) = n + Len(d)
        BY <1>3, <1>6
    <2>1. Len(ts) = n + Len(frac) + 1 /\ Len(ts) \in Nat /\ n \in Nat
        BY <1>2, <2>0
    <2>2. ASSUME NEW p \in 1..Len(frac) PROVE ts[(n + 1) + p] = frac[p]
        <3>1. p + 1 \in 1..Len(d) /\ Len(sec) + (p + 1) = (n + 1) + p
            BY <1>2, <1>3, <2>1
        <3> QED
            BY <1>3, <1>7, <3>1
    <2> QED
        BY <2>1, <2>2
<1>l. Len(ts) = n + Len(frac) + 1 /\ Len(ts) \in Nat /\ n \in Nat
    BY <1>8
<1>5. IndexOf(ts, pt) = n + 1 /\ Before(ts, n + 1) = sec
    <2>0. \A k \in 1..Len(sec) : sec[k] # pt
        BY <1>1
    <2>1. Before(ts, Len(sec) + 1) = sec
        BY <2>0, <1>p, <1>t, FoundFirst DEF Before
    <2> HIDE DEF d, n
    <2>2. n + 1 \in 1..Len(ts) /\ (n + 1) - 1 = n
        BY <1>l, <1>2
    <2>3. \A k \in 1..(n + 1) - 1 : ts[k] # pt
        BY <1>1, <1>7, <2>2 DEF n
    <2>4. ts[n + 1] = pt
        <3>1. 1 \in 1..Len(d)
            BY <1>2, <1>3
        <3> QED
            BY <1>3, <1>7, <3>1 DEF n
    <2>5. IndexOf(ts, pt) = n + 1
        BY <1>l, <2>2, <2>3, <2>4, FirstAt
    <2> QED
        BY <2>1, <2>5 DEF n
<1>9. dot = n + 1 /\ dot # 0 /\ m \in 1..9 /\ end = dot + m /\ m <= Len(frac)
    <2>1. dot = n + 1
        BY <1>5, <1>r
    <2> HIDE DEF dot, n
    <2> QED
        <3> DEFINE L == Len(ts)
                   F == Len(frac)
        <3>1. L = n + F + 1 /\ n \in Nat /\ F \in Nat /\ F # 0
            BY <1>2, <1>l
        <3> HIDE DEF L, F
        <3>2. CASE F > 9
            <4>1. L > dot + 9 /\ dot # 0
                BY <2>1, <3>1, <3>2
            <4>2. m = 9 /\ end = dot + 9
                BY <3>2, <4>1 DEF L, F
            <4> HIDE DEF m, end
            <4>3. m <= F
                BY <3>1, <3>2, <4>2
            <4> QED
                BY <2>1, <4>1, <4>2, <4>3 DEF F
        <3>3. CASE ~(F > 9)
            <4>1. ~(L > dot + 9) /\ dot # 0 /\ L = dot + F
                BY <2>1, <3>1, <3>3
            <4>2. m = F /\ end = L
                BY <3>3, <4>1 DEF L, F
            <4> HIDE DEF m, end
            <4>3. m <= F /\ m \in 1..9
                BY <3>1, <3>3, <4>2
            <4> QED
                BY <2>1, <4>1, <4>2, <4>3 DEF F
        <3> QED
            BY <3>2, <3>3
<1>10. Timestamp(ts) = [sec |-> sec, frac |-> f]
    <2>1. Before(ts, dot) = sec
        BY <1>5, <1>9
    <2> QED
        BY <1>9, <2>1 DEF Timestamp
<1> HIDE DEF dot, end, m
<1>11. f \in Seq(Bytes) /\ Len(f) = m /\ \A k \in 1..m : f[k] = frac[k]
    <2>0. \A k \in dot + 1..end : ts[k] \in Bytes
        BY <1>2, <1>6, <1>8, <1>9
    <2>1. /\ Len(f) = IF dot + 1 <= end THEN end - (dot + 1) + 1 ELSE 0
          /\ \A k \in 1..end - (dot + 1) + 1 : f[k] = ts[(dot + 1) + k - 1]
          /\ f \in Seq(Bytes)
        BY <1>6, <1>8, <1>9, <2>0, SubSeqProperties
    <2> HIDE DEF f, n
    <2>2. Len(f) = m
        BY <1>8, <1>9, <2>1
    <2>3. ASSUME NEW k \in 1..m PROVE f[k] = frac[k]
        <3>1. k \in 1..end - (dot + 1) + 1 /\ (dot + 1) + k - 1 = (n + 1) + k /\ k \in 1..Len(frac)
            BY <1>2, <1>8, <1>9
        <3> QED
            BY <1>8, <2>1, <3>1
    <2> QED
        BY <2>1, <2>2, <2>3
<1> HIDE DEF f
<1>12. TimestampOk(ts)
    <2>1. IsNumber(f)
        <3>1. DOMAIN f = 1..m /\ f # <<>>
            BY <1>9, <1>11
        <3>2. \A k \in 1..m : f[k] \in Digits
            <4> SUFFICES ASSUME NEW k \in 1..m PROVE f[k] \in Digits
                OBVIOUS
            <4>1. k \in 1..Len(frac)
                BY <1>2, <1>9
            <4>2. f[k] = frac[k]
                BY <1>11
            <4> QED
                BY <1>b, <4>1, <4>2, Zenon
        <3> QED
            BY <3>1, <3>2 DEF IsNumber
    <2> QED
        BY <1>10, <2>1 DEF TimestampOk
<1>13. ASSUME NEW k \in 1..Len(ts) PROVE ts[k] # " "
    <2>1. CASE k \in 1..n
        BY <1>1, <1>7, <2>1
    <2>2. CASE k = n + 1
        <3>1. 1 \in 1..Len(d)
            BY <1>2, <1>3
        <3> QED
            BY <1>3, <1>7, <1>q, <2>2, <3>1
    <2>3. CASE k > n + 1
        <3> DEFINE j == k - (n + 1)
        <3>1. j \in 1..Len(frac) /\ (n + 1) + j = k
            BY <1>2, <1>8, <2>3
        <3> HIDE DEF j
        <3> QED
            BY <1>b, <1>8, <3>1
    <2> HIDE DEF n
    <2> QED
        <3>1. k \in 1..n \/ k = n + 1 \/ k > n + 1
            BY <1>l
        <3> QED
            BY <2>1, <2>2, <2>3, <3>1, Zenon
<1>14. ts \in Seq(Bytes) /\ ts # <<>>
    BY <1>6, <1>l, <1>2
<1>15. Timestamp(ts).sec = sec /\ Timestamp(ts).frac = f
    BY <1>10
<1>16. Len(f) = IF Len(frac) > 9 THEN 9 ELSE Len(frac)
    BY <1>11 DEF m
<1>17. f \in Seq(Bytes) /\ \A k \in 1..Len(f) : f[k] = frac[k]
    BY <1>11
<1> QED
    BY <1>12, <1>13, <1>14, <1>15, <1>16, <1>17, Zenon DEF Blank

-----------------------------------------------------------------------------
(* Numbers: the value of the digits, from the first to the last.           *)

Horner(v, t, n) == v = [k \in 0..n |-> IF k = 0 THEN 0 ELSE 10 * v[k - 1] + DigitValue(t[k])]

(* One more digit.                                                         *)
LEMMA HornerOneMore ==
    ASSUME NEW t, NEW m \in Nat \ {0}, NEW g, Horner(g, t, m - 1)
    PROVE  \E h : Horner(h, t, m)
<1> DEFINE last == 10 * g[m - 1] + DigitValue(t[m])
           h == [k \in 0..m |-> IF k = m THEN last ELSE g[k]]
<1>1. ASSUME NEW k \in 0..m
      PROVE  h[k] = IF k = 0 THEN 0 ELSE 10 * h[k - 1] + DigitValue(t[k])
    <2>1. CASE k = m
        <3>1. k # 0 /\ k - 1 \in 0..m /\ k - 1 # m
            BY <2>1
        <3> QED
            BY <2>1, <3>1
    <2>2. CASE k # m
        <3>1. k \in 0..m - 1 /\ (k # 0 => k - 1 \in 0..m /\ k - 1 # m)
            BY <2>2
        <3>2. g[k] = IF k = 0 THEN 0 ELSE 10 * g[k - 1] + DigitValue(t[k])
            BY <3>1 DEF Horner
        <3> QED
            BY <2>2, <3>1, <3>2
    <2> QED
        BY <2>1, <2>2
<1>2. h = [k \in 0..m |-> h[k]]
    OBVIOUS
<1> HIDE DEF h
<1>3. h = [k \in 0..m |-> IF k = 0 THEN 0 ELSE 10 * h[k - 1] + DigitValue(t[k])]
    BY <1>1, <1>2
<1> QED
    BY <1>3 DEF Horner

(* So there is a value for any number of digits.                           *)
LEMMA HornerExists == ASSUME NEW t, NEW n \in Nat PROVE \E v : Horner(v, t, n)
<1> DEFINE S == {k \in Nat : ~\E v : Horner(v, t, k)}
<1> SUFFICES ASSUME S # {} PROVE FALSE
    OBVIOUS
<1> DEFINE m == Min(S)
<1>1. m \in S /\ \A y \in S : m <= y
    BY MinOfNat
<1> HIDE DEF m
<1>2. Horner([k \in 0..0 |-> 0], t, 0)
    BY DEF Horner
<1>3. m # 0
    BY <1>1, <1>2
<1>4. m - 1 \in Nat /\ m - 1 \notin S
    BY <1>1, <1>3
<1> QED
    BY <1>1, <1>3, <1>4, HornerOneMore

(* It is Number.                                                           *)
LEMMA NumberHorner ==
    ASSUME NEW t, Len(t) \in Nat
    PROVE  \E v : Horner(v, t, Len(t)) /\ Number(t) = v[Len(t)]
<1> DEFINE f == CHOOSE v : v = [k \in 0..Len(t) |-> IF k = 0 THEN 0 ELSE 10 * v[k - 1] + DigitValue(t[k])]
<1>1. Number(t) = f[Len(t)]
    BY DEF Number
<1>2. \E v : v = [k \in 0..Len(t) |-> IF k = 0 THEN 0 ELSE 10 * v[k - 1] + DigitValue(t[k])]
    BY HornerExists DEF Horner
<1>3. f = [k \in 0..Len(t) |-> IF k = 0 THEN 0 ELSE 10 * f[k - 1] + DigitValue(t[k])]
    BY <1>2, Zenon
<1> QED
    BY <1>1, <1>3 DEF Horner

(* The fraction, times ten for every digit that it has less than nine.     *)
Padded(f, m, z, n) == f = [k \in m..n |-> IF k = m THEN z ELSE 10 * f[k - 1]]

(* One more time.                                                          *)
LEMMA PaddedOneMore ==
    ASSUME NEW m \in Nat, NEW z, NEW n \in Nat, n > m, NEW g, Padded(g, m, z, n - 1)
    PROVE  \E h : Padded(h, m, z, n)
<1> DEFINE last == 10 * g[n - 1]
           h == [k \in m..n |-> IF k = n THEN last ELSE g[k]]
<1>1. ASSUME NEW k \in m..n
      PROVE  h[k] = IF k = m THEN z ELSE 10 * h[k - 1]
    <2>1. CASE k = n
        <3>1. k # m /\ k - 1 \in m..n /\ k - 1 # n
            BY <2>1
        <3> QED
            BY <2>1, <3>1
    <2>2. CASE k # n
        <3>1. k \in m..n - 1 /\ (k # m => k - 1 \in m..n /\ k - 1 # n)
            BY <2>2
        <3>2. g[k] = IF k = m THEN z ELSE 10 * g[k - 1]
            BY <3>1 DEF Padded
        <3> QED
            BY <2>2, <3>1, <3>2
    <2> QED
        BY <2>1, <2>2
<1>2. h = [k \in m..n |-> h[k]]
    OBVIOUS
<1> HIDE DEF h
<1>3. h = [k \in m..n |-> IF k = m THEN z ELSE 10 * h[k - 1]]
    BY <1>1, <1>2
<1> QED
    BY <1>3 DEF Padded

(* Any number of times.                                                    *)
LEMMA PaddedExists ==
    ASSUME NEW m \in Nat, NEW z, NEW n \in Nat, m <= n
    PROVE  \E f : Padded(f, m, z, n)
<1> DEFINE S == {k \in Nat : m <= k /\ ~\E f : Padded(f, m, z, k)}
<1> SUFFICES ASSUME S # {} PROVE FALSE
    OBVIOUS
<1> DEFINE x == Min(S)
<1>1. x \in S /\ \A y \in S : x <= y
    BY MinOfNat
<1> HIDE DEF x
<1>2. Padded([k \in m..m |-> z], m, z, m)
    BY DEF Padded
<1>3. x # m
    BY <1>1, <1>2
<1>4. x \in Nat /\ x > m /\ x - 1 \in Nat /\ x - 1 >= m /\ x - 1 \notin S
    BY <1>1, <1>3
<1>5. \E f : Padded(f, m, z, x - 1)
    BY <1>4
<1> QED
    BY <1>1, <1>4, <1>5, PaddedOneMore

(* Ten times a number and one more digit.                                  *)
LEMMA TenTimes ==
    ASSUME NEW x \in Nat, NEW y \in Nat, NEW z, z = 10 * x + y \/ (z = 10 * x /\ y = 0)
    PROVE  z \in Nat /\ z = 10 * x + y
OBVIOUS

(* Nine digits by their weights.                                           *)
Weighted(D) == 100000000 * D[1] + 10000000 * D[2] + 1000000 * D[3] + 100000 * D[4]
                 + 10000 * D[5] + 1000 * D[6] + 100 * D[7] + 10 * D[8] + D[9]

(* Nanos is the sum of them.                                               *)
LEMMA NanosSum ==
    ASSUME NEW f, NEW m \in 1..9, Len(f) = m, f # <<>>, NEW D \in [1..9 -> Nat],
           \A k \in 1..m : DigitValue(f[k]) = D[k], \A k \in 1..9 : k > m => D[k] = 0
    PROVE  Nanos(f) = Weighted(D)
<1> DEFINE p == CHOOSE q : q = [k \in m..9 |-> IF k = m THEN Number(f) ELSE 10 * q[k - 1]]
<1>1. Nanos(f) = p[9]
    BY DEF Nanos
<1>2. \E q : q = [k \in m..9 |-> IF k = m THEN Number(f) ELSE 10 * q[k - 1]]
    <2> DEFINE z == Number(f)
    <2> HIDE DEF z
    <2>1. m \in Nat /\ 9 \in Nat /\ m <= 9
        OBVIOUS
    <2>2. \E q : Padded(q, m, z, 9)
        BY <2>1, PaddedExists
    <2> QED
        BY <2>2 DEF Padded, z
<1>3. p = [k \in m..9 |-> IF k = m THEN Number(f) ELSE 10 * p[k - 1]]
    BY <1>2, Zenon
<1> HIDE DEF p
<1>4. PICK v : Horner(v, f, m) /\ Number(f) = v[m]
    <2>1. Len(f) \in Nat
        OBVIOUS
    <2>2. \E v : Horner(v, f, Len(f)) /\ Number(f) = v[Len(f)]
        BY <2>1, NumberHorner
    <2> QED
        BY <2>2
<1> DEFINE g == [k \in 0..9 |-> IF k <= m THEN v[k] ELSE p[k]]
<1>5. ASSUME NEW k \in 1..9 PROVE g[k] = 10 * g[k - 1] + D[k] \/ (g[k] = 10 * g[k - 1] /\ D[k] = 0)
    <2>0. k - 1 \in 0..9 /\ k \in 0..9
        OBVIOUS
    <2>1. CASE k <= m
        <3>1. g[k] = v[k] /\ g[k - 1] = v[k - 1]
            BY <2>0, <2>1, SMTT(30)
        <3>2. v[k] = 10 * v[k - 1] + DigitValue(f[k])
            BY <1>4, <2>1, SMTT(30) DEF Horner
        <3>3. DigitValue(f[k]) = D[k]
            BY <2>1, SMTT(30)
        <3> QED
            BY <3>1, <3>2, <3>3
    <2>2. CASE k > m
        <3>1. k \in m..9 /\ k # m /\ p[k] = 10 * p[k - 1]
            BY <1>3, <2>2, SMTT(30)
        <3>2. g[k] = p[k]
            BY <2>0, <2>2
        <3>3. g[k - 1] = p[k - 1]
            <4>1. CASE k - 1 = m
                <5>1. p[k - 1] = Number(f)
                    BY <1>3, <4>1
                <5> QED
                    BY <1>4, <2>0, <4>1, <5>1
            <4>2. CASE k - 1 > m
                BY <2>0, <4>2
            <4>3. k - 1 = m \/ k - 1 > m
                BY <2>2
            <4> QED
                BY <4>1, <4>2, <4>3, Zenon
        <3> QED
            BY <2>2, <3>1, <3>2, <3>3
    <2> QED
        BY <2>1, <2>2
<1>6. g[0] = 0
    BY <1>4 DEF Horner
<1>7. g[9] = p[9]
    <2>1. CASE m = 9
        BY <1>3, <1>4, <2>1
    <2>2. CASE m # 9
        BY <2>2
    <2> QED
        BY <2>1, <2>2
<1> HIDE DEF g
<1>e1. D[1] \in Nat /\ g[1] \in Nat /\ g[1] = 10 * g[0] + D[1]
    <2>1. 1 \in 1..9 /\ 1 - 1 = 0
        OBVIOUS
    <2>2. D[1] \in Nat /\ g[0] \in Nat
        BY <1>6, <2>1
    <2>3. g[1] = 10 * g[0] + D[1] \/ (g[1] = 10 * g[0] /\ D[1] = 0)
        BY <1>5, <2>1
    <2> QED
        BY <2>2, <2>3, TenTimes
<1>e2. D[2] \in Nat /\ g[2] \in Nat /\ g[2] = 10 * g[1] + D[2]
    <2>1. 2 \in 1..9 /\ 2 - 1 = 1
        OBVIOUS
    <2>2. D[2] \in Nat /\ g[1] \in Nat
        BY <1>e1, <2>1
    <2>3. g[2] = 10 * g[1] + D[2] \/ (g[2] = 10 * g[1] /\ D[2] = 0)
        BY <1>5, <2>1
    <2> QED
        BY <2>2, <2>3, TenTimes
<1>e3. D[3] \in Nat /\ g[3] \in Nat /\ g[3] = 10 * g[2] + D[3]
    <2>1. 3 \in 1..9 /\ 3 - 1 = 2
        OBVIOUS
    <2>2. D[3] \in Nat /\ g[2] \in Nat
        BY <1>e2, <2>1
    <2>3. g[3] = 10 * g[2] + D[3] \/ (g[3] = 10 * g[2] /\ D[3] = 0)
        BY <1>5, <2>1
    <2> QED
        BY <2>2, <2>3, TenTimes
<1>e4. D[4] \in Nat /\ g[4] \in Nat /\ g[4] = 10 * g[3] + D[4]
    <2>1. 4 \in 1..9 /\ 4 - 1 = 3
        OBVIOUS
    <2>2. D[4] \in Nat /\ g[3] \in Nat
        BY <1>e3, <2>1
    <2>3. g[4] = 10 * g[3] + D[4] \/ (g[4] = 10 * g[3] /\ D[4] = 0)
        BY <1>5, <2>1
    <2> QED
        BY <2>2, <2>3, TenTimes
<1>e5. D[5] \in Nat /\ g[5] \in Nat /\ g[5] = 10 * g[4] + D[5]
    <2>1. 5 \in 1..9 /\ 5 - 1 = 4
        OBVIOUS
    <2>2. D[5] \in Nat /\ g[4] \in Nat
        BY <1>e4, <2>1
    <2>3. g[5] = 10 * g[4] + D[5] \/ (g[5] = 10 * g[4] /\ D[5] = 0)
        BY <1>5, <2>1
    <2> QED
        BY <2>2, <2>3, TenTimes
<1>e6. D[6] \in Nat /\ g[6] \in Nat /\ g[6] = 10 * g[5] + D[6]
    <2>1. 6 \in 1..9 /\ 6 - 1 = 5
        OBVIOUS
    <2>2. D[6] \in Nat /\ g[5] \in Nat
        BY <1>e5, <2>1
    <2>3. g[6] = 10 * g[5] + D[6] \/ (g[6] = 10 * g[5] /\ D[6] = 0)
        BY <1>5, <2>1
    <2> QED
        BY <2>2, <2>3, TenTimes
<1>e7. D[7] \in Nat /\ g[7] \in Nat /\ g[7] = 10 * g[6] + D[7]
    <2>1. 7 \in 1..9 /\ 7 - 1 = 6
        OBVIOUS
    <2>2. D[7] \in Nat /\ g[6] \in Nat
        BY <1>e6, <2>1
    <2>3. g[7] = 10 * g[6] + D[7] \/ (g[7] = 10 * g[6] /\ D[7] = 0)
        BY <1>5, <2>1
    <2> QED
        BY <2>2, <2>3, TenTimes
<1>e8. D[8] \in Nat /\ g[8] \in Nat /\ g[8] = 10 * g[7] + D[8]
    <2>1. 8 \in 1..9 /\ 8 - 1 = 7
        OBVIOUS
    <2>2. D[8] \in Nat /\ g[7] \in Nat
        BY <1>e7, <2>1
    <2>3. g[8] = 10 * g[7] + D[8] \/ (g[8] = 10 * g[7] /\ D[8] = 0)
        BY <1>5, <2>1
    <2> QED
        BY <2>2, <2>3, TenTimes
<1>e9. D[9] \in Nat /\ g[9] \in Nat /\ g[9] = 10 * g[8] + D[9]
    <2>1. 9 \in 1..9 /\ 9 - 1 = 8
        OBVIOUS
    <2>2. D[9] \in Nat /\ g[8] \in Nat
        BY <1>e8, <2>1
    <2>3. g[9] = 10 * g[8] + D[9] \/ (g[9] = 10 * g[8] /\ D[9] = 0)
        BY <1>5, <2>1
    <2> QED
        BY <2>2, <2>3, TenTimes
<1> DEFINE a1 == g[1]
           a2 == g[2]
           a3 == g[3]
           a4 == g[4]
           a5 == g[5]
           a6 == g[6]
           a7 == g[7]
           a8 == g[8]
           a9 == g[9]
           d1 == D[1]
           d2 == D[2]
           d3 == D[3]
           d4 == D[4]
           d5 == D[5]
           d6 == D[6]
           d7 == D[7]
           d8 == D[8]
           d9 == D[9]
<1>n1. a1 \in Nat /\ d1 \in Nat /\ a1 = d1
    BY <1>6, <1>e1
<1>n2. a2 \in Nat /\ d2 \in Nat /\ a2 = 10 * a1 + d2
    BY <1>e2
<1>n3. a3 \in Nat /\ d3 \in Nat /\ a3 = 10 * a2 + d3
    BY <1>e3
<1>n4. a4 \in Nat /\ d4 \in Nat /\ a4 = 10 * a3 + d4
    BY <1>e4
<1>n5. a5 \in Nat /\ d5 \in Nat /\ a5 = 10 * a4 + d5
    BY <1>e5
<1>n6. a6 \in Nat /\ d6 \in Nat /\ a6 = 10 * a5 + d6
    BY <1>e6
<1>n7. a7 \in Nat /\ d7 \in Nat /\ a7 = 10 * a6 + d7
    BY <1>e7
<1>n8. a8 \in Nat /\ d8 \in Nat /\ a8 = 10 * a7 + d8
    BY <1>e8
<1>n9. a9 \in Nat /\ d9 \in Nat /\ a9 = 10 * a8 + d9
    BY <1>e9
<1> HIDE DEF a1, a2, a3, a4, a5, a6, a7, a8, a9, d1, d2, d3, d4, d5, d6, d7, d8, d9
<1>v. a9 = 100000000 * d1 + 10000000 * d2 + 1000000 * d3 + 100000 * d4
             + 10000 * d5 + 1000 * d6 + 100 * d7 + 10 * d8 + d9
    BY <1>n1, <1>n2, <1>n3, <1>n4, <1>n5, <1>n6, <1>n7, <1>n8, <1>n9
<1> QED
    BY <1>1, <1>7, <1>v DEF Weighted, a9, d1, d2, d3, d4, d5, d6, d7, d8, d9

-----------------------------------------------------------------------------
(* The head of the line of an entry.                                       *)

(* A part of a sequence, from what is known of its elements.               *)
LEMMA PartIs ==
    ASSUME NEW A, NEW t \in Seq(A), NEW u \in Seq(A), NEW m \in Nat, m + Len(u) <= Len(t),
           \A k \in 1..Len(u) : t[m + k] = u[k]
    PROVE  SubSeq(t, m + 1, m + Len(u)) = u
<1> DEFINE n == Len(u)
           v == SubSeq(t, m + 1, m + n)
<1>1. n \in Nat /\ Len(t) \in Nat /\ \A k \in 1..Len(t) : t[k] \in A
    OBVIOUS
<1>2. \A k \in m + 1..m + n : t[k] \in A
    BY <1>1
<1>3. /\ Len(v) = IF m + 1 <= m + n THEN (m + n) - (m + 1) + 1 ELSE 0
      /\ \A k \in 1..(m + n) - (m + 1) + 1 : v[k] = t[(m + 1) + k - 1]
      /\ v \in Seq(A)
    <2> DEFINE a == m + 1
               b == m + n
    <2>1. a \in Int /\ b \in Int /\ \A k \in a..b : t[k] \in A
        BY <1>1, <1>2
    <2> HIDE DEF a, b
    <2>2. /\ SubSeq(t, a, b) \in Seq(A)
          /\ Len(SubSeq(t, a, b)) = IF a <= b THEN b - a + 1 ELSE 0
          /\ \A k \in 1..b - a + 1 : SubSeq(t, a, b)[k] = t[a + k - 1]
        BY <2>1, SubSeqProperties
    <2> QED
        BY <2>2, Zenon DEF a, b
<1> HIDE DEF v
<1>4. Len(v) = n
    BY <1>1, <1>3
<1>5. ASSUME NEW k \in 1..Len(v) PROVE v[k] = u[k]
    <2>1. k \in 1..n /\ k \in 1..(m + n) - (m + 1) + 1 /\ (m + 1) + k - 1 = m + k
        BY <1>1, <1>4
    <2> QED
        BY <1>3, <2>1
<1>6. v = u
    BY <1>3, <1>4, <1>5, SameSequence
<1> QED
    BY <1>6 DEF v

(* Every closing bracket in t is followed by a colon.                      *)
InnerBrackets(t) == \A k \in 1..Len(t) : t[k] = "]" => k < Len(t) /\ t[k + 1] = ":"

(* It begins with a quote.                                                 *)
Quoted(t) == t[1] = "\""

(* What follows the timestamp in a line.                                   *)
Rest(body, rw) == <<"[">> \o (body \o (<<"]", " ">> \o rw))

(* parseBracket finds the bracket that closes, whatever brackets the       *)
(* address of the client has.                                              *)
LEMMA CloseFound ==
    ASSUME NEW body \in Seq(Bytes), NEW rw \in Seq(Bytes), rw # <<>>, Quoted(rw),
           InnerBrackets(body), NEW r, r = Rest(body, rw), NEW n, n = Len(body)
    PROVE  /\ n \in Nat /\ r \in Seq(Bytes) /\ r # <<>> /\ r[1] = "["
           /\ CloseIndex(r) = n + 2
           /\ SubSeq(r, 2, n + 1) = body
           /\ TrimLeft(From(r, n + 3)) = rw
<1> DEFINE lb == "["
           rb == "]"
           bl == " "
           a == <<lb>>
           b == <<rb, bl>>
<1>l. lb \in Bytes /\ rb \in Bytes /\ bl \in Bytes
    BY DEF Bytes
<1>b. bl \in Blanks /\ lb # rb
    BY DEF Blanks
<1>r. r = a \o (body \o (b \o rw))
    BY DEF Rest
<1> HIDE DEF lb, rb, bl
<1>0. a \in Seq(Bytes) /\ b \in Seq(Bytes)
    BY <1>l, Tuples
<1>t. r = ((<<lb>> \o body) \o <<rb, bl>>) \o rw
    <2> HIDE DEF a, b
    <2>1. ((a \o body) \o b) \o rw = a \o (body \o (b \o rw))
        <3>1. \A x, y, u, v \in Seq(Bytes) :
                ((x \o y) \o u) \o v = x \o (y \o (u \o v)) /\ y \o (u \o v) \in Seq(Bytes)
            BY FourParts, Zenon
        <3>3. \A y, u, v \in Seq(Bytes) :
                ((a \o y) \o u) \o v = a \o (y \o (u \o v)) /\ y \o (u \o v) \in Seq(Bytes)
            BY <1>0, <3>1, Zenon
        <3>2. \A u, v \in Seq(Bytes) :
                ((a \o body) \o u) \o v = a \o (body \o (u \o v)) /\ body \o (u \o v) \in Seq(Bytes)
            BY <3>3, Zenon
        <3> QED
            BY <1>0, <3>2, Zenon
    <2> QED
        BY <1>r, <2>1 DEF a, b
<1> HIDE DEF a, b
<1>1. r \in Seq(Bytes) /\ n \in Nat
    BY <1>l, <1>t, BracketedAddress
<1>2. Len(r) = n + 3 + Len(rw)
    BY <1>l, <1>t, BracketedAddress
<1>3. r[1] = lb /\ r[n + 2] = rb /\ r[n + 3] = bl
    BY <1>l, <1>t, BracketedAddress
<1>4. \A k \in 1..n : r[k + 1] = body[k]
    BY <1>l, <1>t, BracketedAddress
<1>5. \A k \in 1..Len(rw) : r[(n + 3) + k] = rw[k]
    BY <1>l, <1>t, BracketedAddress
<1>6. Len(rw) \in Nat /\ Len(rw) # 0 /\ Len(r) \in Nat
    BY <1>1
<1>7. SubSeq(r, 2, n + 1) = body
    <2>1. 1 + Len(body) <= Len(r) /\ \A k \in 1..Len(body) : r[1 + k] = body[k]
        BY <1>1, <1>2, <1>4, <1>6
    <2>2. SubSeq(r, 1 + 1, 1 + Len(body)) = body
        BY <1>1, <2>1, PartIs
    <2>3. 1 + 1 = 2 /\ 1 + Len(body) = n + 1
        BY <1>1
    <2> QED
        BY <2>2, <2>3
<1> DEFINE after == <<bl>> \o rw
<1>8. From(r, n + 3) = after
    <2>1. after \in Seq(Bytes) /\ Len(after) = Len(rw) + 1 /\ after[1] = bl /\ \A p \in 1..Len(rw) : after[p + 1] = rw[p]
        BY <1>l, Prefixed
    <2> HIDE DEF after
    <2>2. ASSUME NEW k \in 1..Len(after) PROVE r[(n + 2) + k] = after[k]
        <3>1. CASE k = 1
            <4>1. (n + 2) + k = n + 3
                BY <1>1, <3>1
            <4> QED
                BY <1>3, <2>1, <3>1, <4>1
        <3>2. CASE k # 1
            <4>1. k - 1 \in 1..Len(rw) /\ (k - 1) + 1 = k /\ (n + 3) + (k - 1) = (n + 2) + k
                BY <1>1, <1>6, <2>1, <3>2
            <4> QED
                BY <1>5, <2>1, <4>1
        <3> QED
            BY <3>1, <3>2
    <2>3. after \in Seq(Bytes) /\ n + 2 \in Nat /\ (n + 2) + Len(after) = Len(r)
        BY <1>1, <1>2, <1>6, <2>1
    <2>4. SubSeq(r, (n + 2) + 1, (n + 2) + Len(after)) = after
        <3> DEFINE m == n + 2
        <3>1. m \in Nat /\ m + Len(after) <= Len(r) /\ \A k \in 1..Len(after) : r[m + k] = after[k]
            BY <1>6, <2>2, <2>3
        <3>2. after \in Seq(Bytes) /\ r \in Seq(Bytes)
            BY <1>1, <2>3
        <3> HIDE DEF m
        <3>3. SubSeq(r, m + 1, m + Len(after)) = after
            BY <3>1, <3>2, PartIs
        <3> QED
            BY <3>3 DEF m
    <2>5. (n + 2) + 1 = n + 3
        BY <1>1
    <2> QED
        BY <2>3, <2>4, <2>5 DEF From
<1>9. rw[1] \notin Blanks
    BY Zenon DEF Blanks, Quoted
<1>10. TrimLeft(From(r, n + 3)) = rw
    <2>1. TrimLeft(after) = rw
        BY <1>l, <1>b, <1>9, TrimBlank
    <2> QED
        BY <1>8, <2>1
<1> HIDE DEF after
<1>11. Closes(r, n + 2)
    <2>1. (n + 2) + 1 = n + 3
        BY <1>1
    <2>2. From(r, (n + 2) + 1) = From(r, n + 3)
        BY <2>1
    <2> QED
        BY <1>3, <1>10, <2>2, Zenon DEF Closes, Quoted, rb
<1>12. ASSUME NEW k \in 2..Len(r), Closes(r, k) PROVE n + 2 <= k
    <2> SUFFICES ASSUME ~(n + 2 <= k) PROVE FALSE
        OBVIOUS
    <2>0. k - 1 \in 1..n /\ (k - 1) + 1 = k /\ k + 1 <= Len(r) /\ k + 1 \in Nat /\ k \in Nat
        BY <1>1, <1>2, <1>6
    <2>1. r[k] = "]"
        BY <1>12 DEF Closes
    <2>2. body[k - 1] = "]"
        BY <1>4, <2>0, <2>1
    <2>3. k - 1 < n /\ body[(k - 1) + 1] = ":"
        BY <2>0, <2>2 DEF InnerBrackets
    <2>4. k \in 1..n
        BY <1>1, <2>0, <2>3
    <2>5. r[k + 1] = ":"
        BY <1>4, <2>0, <2>3, <2>4
    <2> DEFINE u == From(r, k + 1)
    <2>6. u \in Seq(Bytes) /\ u # <<>> /\ u[1] = ":"
        <3>1. \A j \in k + 1..Len(r) : r[j] \in Bytes
            BY <1>1, <1>6, <2>0
        <3>2. /\ Len(u) = IF k + 1 <= Len(r) THEN Len(r) - (k + 1) + 1 ELSE 0
              /\ \A j \in 1..Len(r) - (k + 1) + 1 : u[j] = r[(k + 1) + j - 1]
              /\ u \in Seq(Bytes)
            BY <1>1, <1>6, <2>0, <3>1, SubSeqProperties DEF From
        <3> HIDE DEF u
        <3>3. 1 \in 1..Len(r) - (k + 1) + 1 /\ (k + 1) + 1 - 1 = k + 1 /\ Len(u) # 0
            BY <1>6, <2>0, <3>2
        <3>4. u[1] = r[k + 1]
            BY <3>2, <3>3
        <3> QED
            BY <2>5, <3>2, <3>3, <3>4
    <2> HIDE DEF u
    <2>7. TrimLeft(u) = u
        <3>1. u[1] \notin Blanks
            BY <2>6 DEF Blanks
        <3> QED
            BY <2>6, <3>1, TrimNothing
    <2>8. u = <<>> \/ Quoted(u)
        BY <1>12, <2>7, Zenon DEF Closes, Quoted, u
    <2> QED
        BY <2>6, <2>8, Zenon DEF Quoted
<1>13. CloseIndex(r) = n + 2
    <2> DEFINE K == {k \in 2..Len(r) : Closes(r, k)}
    <2>1. CloseIndex(r) = IF K = {} THEN 0 ELSE Min(K)
        BY DEF CloseIndex
    <2>2. n + 2 \in K /\ K \subseteq Nat
        BY <1>1, <1>2, <1>6, <1>11
    <2>3. \A y \in K : n + 2 <= y
        BY <1>12
    <2> HIDE DEF K
    <2>4. Min(K) = n + 2
        BY <2>2, <2>3, MinIs
    <2> QED
        BY <2>1, <2>2, <2>4
<1>14. r # <<>> /\ r[1] = "["
    BY <1>2, <1>1, <1>6, <1>3 DEF lb
<1> QED
    BY <1>1, <1>7, <1>10, <1>13, <1>14

(* The timestamp of an entry, and what is between the brackets.            *)
Stamp(e) == e.sec \o (<<".">> \o e.frac)

Body(e) == e.db \o (<<" ">> \o Address(e))

(* The line of an entry as Parse takes it apart.                           *)
LEMMA LineShape ==
    ASSUME NEW e, EntryOk(e)
    PROVE  RedisLine(e) = <<"+">> \o (Stamp(e) \o (<<" ">> \o Rest(Body(e), ReprAll(e.words))))
<1> DEFINE a == <<"+">>
           b == e.sec
           c == <<".">>
           d == e.frac
           x == <<" ", "[">>
           f == e.db
           g == <<" ">>
           h == Address(e)
           j == <<"]", " ">>
           k == ReprAll(e.words)
           Q == Seq(Bytes)
<1>1. a \in Q /\ c \in Q /\ x \in Q /\ g \in Q /\ j \in Q
    BY DEF Bytes
<1>2. b \in Q /\ d \in Q /\ f \in Q
    <2>1. e.sec \in Seq(STRING) /\ e.frac \in Seq(STRING) /\ e.db \in Seq(STRING)
        BY DEF EntryOk
    <2> QED
        BY <2>1, StringBytes
<1>3. h \in Q
    BY AddressSplits
<1>4. k \in Q
    <2>1. e.words \in Words
        BY DEF EntryOk, Words
    <2> QED
        BY <2>1, ReprEnds
<1>5. RedisLine(e) = ((((((((a \o b) \o c) \o d) \o x) \o f) \o g) \o h) \o j) \o k
    BY Zenon DEF RedisLine
<1>6. Stamp(e) = b \o (c \o d) /\ Body(e) = f \o (g \o h)
    BY Zenon DEF Stamp, Body
<1>7. Rest(Body(e), k) = <<"[">> \o (Body(e) \o (j \o k))
    BY Zenon DEF Rest
<1>8. \A y \in Q : x \o y = g \o (<<"[">> \o y)
    <2> DEFINE bl == " "
               lb == "["
    <2>1. bl \in Bytes /\ lb \in Bytes
        BY DEF Bytes
    <2> HIDE DEF bl, lb
    <2>2. \A y \in Seq(Bytes) : <<bl, lb>> \o y = <<bl>> \o (<<lb>> \o y)
        BY <2>1, TwoBefore
    <2> QED
        BY <2>2, Zenon DEF bl, lb
<1> HIDE DEF a, b, c, d, x, f, g, h, j, k, Q
<1>9. ((((((((a \o b) \o c) \o d) \o x) \o f) \o g) \o h) \o j) \o k
        = a \o ((b \o (c \o d)) \o (x \o ((f \o (g \o h)) \o (j \o k))))
    <2>1. Parts(Q, a, b, c, d, x, f, g, h, j, k)
        BY <1>1, <1>2, <1>3, <1>4, Zenon DEF Parts
    <2>2. Parts(Seq(Bytes), a, b, c, d, x, f, g, h, j, k)
        BY <2>1 DEF Q
    <2>3. Grouped(a, b, c, d, x, f, g, h, j, k)
        BY <2>2, LineParts, Zenon
    <2> QED
        BY <2>3, Zenon DEF Grouped
<1> DEFINE y == Body(e) \o (j \o k)
<1>10. y \in Q
    <2>0. \A u, v \in Q : u \o v \in Q
        BY Concatenation DEF Q
    <2>1. g \o h \in Q /\ j \o k \in Q
        BY <1>1, <1>3, <1>4, <2>0
    <2>2. f \o (g \o h) \in Q
        BY <1>2, <2>0, <2>1
    <2> QED
        BY <1>6, <2>0, <2>1, <2>2
<1>11. RedisLine(e) = a \o (Stamp(e) \o (x \o y))
    BY <1>5, <1>6, <1>9, Zenon
<1>12. x \o y = g \o Rest(Body(e), k)
    BY <1>7, <1>8, <1>10, Zenon
<1> QED
    BY <1>11, <1>12, Zenon DEF a, g, k

(* They are separated by a blank.                                          *)
IsBody(t, db, addr) == t = db \o (<<Blank>> \o addr)

(* The first blank is where the first of them ends.                        *)
LEMMA BlankFound ==
    ASSUME NEW a \in Seq(Bytes), NEW b \in Seq(Bytes), \A k \in 1..Len(a) : a[k] # Blank,
           NEW t, IsBody(t, a, b)
    PROVE  /\ t \in Seq(Bytes) /\ Len(a) \in Nat /\ IndexOf(t, Blank) = Len(a) + 1
           /\ Before(t, Len(a) + 1) = a /\ From(t, (Len(a) + 1) + 1) = b
           /\ Len(t) = Len(a) + Len(b) + 1 /\ t[Len(a) + 1] = Blank
           /\ \A p \in 1..Len(a) : t[p] = a[p]
           /\ \A p \in 1..Len(b) : t[(Len(a) + 1) + p] = b[p]
<1> DEFINE bl == Blank
           n == Len(a)
           d == <<bl>> \o b
<1>b. bl \in Bytes
    BY Zenon DEF Bytes, Blank
<1>1. \A k \in 1..Len(a) : a[k] # bl
    OBVIOUS
<1>t. t = a \o (<<bl>> \o b)
    BY DEF IsBody
<1> HIDE DEF bl
<1>j. n \in Nat /\ Len(b) \in Nat
    OBVIOUS
<1>3. d \in Seq(Bytes) /\ Len(d) = Len(b) + 1 /\ d[1] = bl /\ \A p \in 1..Len(b) : d[p + 1] = b[p]
    <2>1. d = <<bl>> \o b
        OBVIOUS
    <2> HIDE DEF d
    <2> QED
        BY <1>b, <2>1, Prefixed
<1>4. Before(t, Len(a) + 1) = a
    BY <1>1, <1>b, <1>t, FoundFirst DEF Before
<1>5. From(t, (Len(a) + 1) + 1) = b
    BY <1>1, <1>b, <1>t, FoundFirst DEF From
<1>6. t = a \o d /\ d \in Seq(Bytes)
    BY <1>3, <1>t
<1> HIDE DEF d
<1>7. t \in Seq(Bytes) /\ Len(t) = n + Len(d)
    <2>1. a \o d \in Seq(Bytes) /\ Len(a \o d) = Len(a) + Len(d)
        BY <1>6, Concatenation
    <2> QED
        BY <1>6, <2>1, Zenon
<1>8. (\A p \in 1..Len(a) : t[p] = a[p]) /\ \A p \in 1..Len(d) : t[Len(a) + p] = d[p]
    BY <1>6, Concatenation
<1>l. Len(t) = n + Len(b) + 1 /\ Len(t) \in Nat /\ 1 \in 1..Len(d)
    <2>1. Len(d) = Len(b) + 1 /\ Len(t) = n + Len(d)
        BY <1>3, <1>7
    <2> QED
        BY <1>j, <2>1
<1>9. t[n + 1] = bl
    BY <1>3, <1>8, <1>l
<1>10. \A p \in 1..Len(b) : t[(n + 1) + p] = b[p]
    <2> SUFFICES ASSUME NEW p \in 1..Len(b) PROVE t[(n + 1) + p] = b[p]
        OBVIOUS
    <2>0. Len(d) = Len(b) + 1
        BY <1>3
    <2>1. p + 1 \in 1..Len(d) /\ Len(a) + (p + 1) = (n + 1) + p
        BY <1>j, <2>0
    <2> QED
        BY <1>3, <1>8, <2>1
<1>11. IndexOf(t, bl) = n + 1
    <2> HIDE DEF n
    <2>1. n + 1 \in 1..Len(t) /\ (n + 1) - 1 = n
        BY <1>j, <1>l
    <2>2. \A k \in 1..(n + 1) - 1 : t[k] # bl
        BY <1>1, <1>8, <2>1 DEF n
    <2> DEFINE m == n + 1
    <2>3. m \in 1..Len(t) /\ t[m] = bl /\ \A k \in 1..m - 1 : t[k] # bl
        BY <1>9, <2>1, <2>2
    <2>4. Len(t) \in Nat
        BY <1>l
    <2> HIDE DEF m
    <2>5. IndexOf(t, bl) = m
        BY <2>3, <2>4, FirstAt
    <2> QED
        BY <2>5 DEF m
<1> QED
    BY <1>j, <1>7, <1>8, <1>9, <1>10, <1>11, <1>4, <1>5, <1>l DEF bl

(* So the database and the client are found between the brackets.          *)
LEMMA BodyFound ==
    ASSUME NEW db \in Seq(Bytes), NEW addr \in Seq(Bytes), IsNumber(db), InnerBrackets(addr),
           NEW t, IsBody(t, db, addr)
    PROVE  /\ t \in Seq(Bytes) /\ Len(db) \in Nat /\ IndexOf(t, Blank) = Len(db) + 1
           /\ Before(t, Len(db) + 1) = db /\ From(t, (Len(db) + 1) + 1) = addr
           /\ InnerBrackets(t)
<1> DEFINE n == Len(db)
<1>a. \A c \in Digits : c # "]" /\ c # Blank
    BY Zenon DEF Digits, Blank
<1>c. Blank # "]"
    BY Zenon DEF Blank
<1>i. \A k \in DOMAIN db : db[k] \in Digits
    BY DEF IsNumber
<1>j. DOMAIN db = 1..Len(db) /\ n \in Nat /\ Len(addr) \in Nat
    OBVIOUS
<1>1. \A k \in 1..Len(db) : db[k] # Blank
    BY <1>a, <1>i, <1>j, Zenon
<1>2. \A k \in 1..Len(db) : db[k] # "]"
    BY <1>a, <1>i, <1>j, Zenon
<1>3. t \in Seq(Bytes) /\ IndexOf(t, Blank) = n + 1 /\ Len(t) = n + Len(addr) + 1
    BY <1>1, BlankFound
<1>4. Before(t, n + 1) = db /\ From(t, (n + 1) + 1) = addr
    BY <1>1, BlankFound DEF Before, From
<1>8. t[n + 1] = Blank /\ \A p \in 1..n : t[p] = db[p]
    BY <1>1, BlankFound
<1>10. \A p \in 1..Len(addr) : t[(n + 1) + p] = addr[p]
    BY <1>1, BlankFound
<1>12. InnerBrackets(t)
    <2> SUFFICES ASSUME NEW k \in 1..Len(t), t[k] = "]" PROVE k < Len(t) /\ t[k + 1] = ":"
        BY Zenon DEF InnerBrackets
    <2>0. Len(t) = n + Len(addr) + 1
        BY <1>3
    <2>1. k \notin 1..n
        BY <1>2, <1>8
    <2>2. k # n + 1
        BY <1>8, <1>c
    <2> DEFINE p == k - (n + 1)
    <2>3. p \in 1..Len(addr) /\ (n + 1) + p = k /\ (n + 1) + (p + 1) = k + 1 /\ p + 1 \in Nat
        <3> HIDE DEF n
        <3> QED
            BY <1>j, <2>0, <2>1, <2>2
    <2> HIDE DEF p, n
    <2>4. addr[p] = "]"
        BY <1>10, <2>3
    <2>5. p < Len(addr) /\ addr[p + 1] = ":"
        BY <2>3, <2>4, Zenon DEF InnerBrackets
    <2>6. k < Len(t) /\ p + 1 \in 1..Len(addr)
        BY <1>j, <2>0, <2>3, <2>5
    <2>7. t[k + 1] = addr[p + 1]
        BY <1>10, <2>3, <2>6
    <2> QED
        BY <2>5, <2>6, <2>7
<1> QED
    BY <1>j, <1>3, <1>4, <1>12

(* The value of a digit is a number.                                       *)
LEMMA DigitValueTypes == ASSUME NEW d \in Digits PROVE DigitValue(d) \in Nat
BY DEF Digits, DigitValue

(* At most nine of the digits of a fraction count.                         *)
LEMMA NineAtMost ==
    ASSUME NEW L \in Nat, L # 0, NEW m, m = IF L > 9 THEN 9 ELSE L
    PROVE  m \in 1..9 /\ m <= L /\ \A k \in 1..9 : k > m => k > L
OBVIOUS

(* The time of an entry, to the nanosecond.                                *)
LEMMA NanosExact ==
    ASSUME NEW e, NEW frac, frac = e.frac, frac \in Seq(Bytes), IsNumber(frac),
           NEW f \in Seq(Bytes), Len(f) = (IF Len(frac) > 9 THEN 9 ELSE Len(frac)),
           \A k \in 1..Len(f) : f[k] = frac[k]
    PROVE  Nanos(f) = HeadOf(e).nsec
<1> DEFINE m == Len(f)
           D == [k \in 1..9 |-> IF k \in DOMAIN frac THEN DigitValue(frac[k]) ELSE 0]
<1>1. Len(frac) \in Nat /\ Len(frac) # 0 /\ DOMAIN frac = 1..Len(frac)
    BY DEF IsNumber
<1>2. \A k \in DOMAIN frac : DigitValue(frac[k]) \in Nat
    BY DigitValueTypes DEF IsNumber
<1>3. D \in [1..9 -> Nat]
    BY <1>2
<1>l. m = IF Len(frac) > 9 THEN 9 ELSE Len(frac)
    OBVIOUS
<1>4. m \in 1..9 /\ m <= Len(frac) /\ \A k \in 1..9 : k > m => k > Len(frac)
    BY <1>1, <1>l, NineAtMost
<1>f. f # <<>>
    <2> HIDE DEF m
    <2>1. m # 0
        BY <1>4
    <2> QED
        BY <2>1 DEF m
<1>5. \A k \in 1..m : DigitValue(f[k]) = D[k]
    <2> SUFFICES ASSUME NEW k \in 1..m PROVE DigitValue(f[k]) = D[k]
        OBVIOUS
    <2>1. k \in 1..9 /\ k \in DOMAIN frac
        BY <1>1, <1>4
    <2> QED
        BY <2>1
<1>6. \A k \in 1..9 : k > m => D[k] = 0
    <2> SUFFICES ASSUME NEW k \in 1..9, k > m PROVE D[k] = 0
        OBVIOUS
    <2>1. k \notin DOMAIN frac
        BY <1>1, <1>4
    <2> QED
        BY <2>1
<1>7. HeadOf(e).nsec = Weighted(D)
    BY DEF HeadOf, Weighted
<1>8. Len(f) = m
    OBVIOUS
<1> HIDE DEF D, m
<1>9. Nanos(f) = Weighted(D)
    <2>1. m \in 1..9
        BY <1>4
    <2> QED
        BY <1>3, <1>5, <1>6, <1>8, <1>f, <2>1, NanosSum
<1> QED
    BY <1>7, <1>9

(* What a line ends with.                                                  *)
Ends(t, c) == t \in Seq(Bytes) /\ t # <<>> /\ t[Len(t)] = c

(* It does not depend on what is before it.                                *)
LEMMA EndKept == \A a \in Seq(Bytes) : \A b, c : Ends(b, c) => Ends(a \o b, c)
<1> SUFFICES ASSUME NEW a \in Seq(Bytes), NEW b, NEW c, Ends(b, c) PROVE Ends(a \o b, c)
    BY Zenon
<1> DEFINE t == a \o b
<1>1. b \in Seq(Bytes) /\ b # <<>> /\ b[Len(b)] = c
    BY DEF Ends
<1>2. b \in Seq(Bytes)
    BY <1>1
<1>3. t \in Seq(Bytes) /\ Len(t) = Len(a) + Len(b) /\ \A j \in 1..Len(b) : t[Len(a) + j] = b[j]
    BY <1>2, Concatenation
<1> HIDE DEF t
<1>4. Len(a) \in Nat /\ Len(b) \in Nat /\ Len(b) # 0
    BY <1>1
<1>5. Len(b) \in 1..Len(b) /\ Len(t) # 0
    BY <1>3, <1>4
<1>6. t[Len(t)] = b[Len(b)]
    BY <1>3, <1>5
<1> QED
    BY <1>1, <1>3, <1>5, <1>6 DEF Ends, t

(* What Parse finds before the words in the line of an entry.              *)
FullHead(e) ==
    [sec |-> HeadOf(e).sec, nsec |-> HeadOf(e).nsec, db |-> HeadOf(e).db, source |-> HeadOf(e).source,
     rest |-> ReprAll(e.words)]

(* The parts of an entry, and what is known of each.                       *)
LEMMA EntryParts ==
    ASSUME NEW e, EntryOk(e)
    PROVE  /\ e.sec \in Seq(Bytes) /\ IsNumber(e.sec)
           /\ e.frac \in Seq(Bytes) /\ IsNumber(e.frac)
           /\ e.db \in Seq(Bytes) /\ IsNumber(e.db)
           /\ Address(e) \in Seq(Bytes) /\ InnerBrackets(Address(e))
           /\ ReprAll(e.words) \in Seq(Bytes) /\ ReprAll(e.words) # <<>> /\ Quoted(ReprAll(e.words))
           /\ Ends(ReprAll(e.words), "\"")
<1>1. e.sec \in Seq(STRING) /\ e.frac \in Seq(STRING) /\ e.db \in Seq(STRING)
    BY DEF EntryOk
<1>2. e.sec \in Seq(Bytes) /\ e.frac \in Seq(Bytes) /\ e.db \in Seq(Bytes)
    BY <1>1, StringBytes
<1>3. IsNumber(e.sec) /\ IsNumber(e.frac) /\ IsNumber(e.db)
    BY Zenon DEF EntryOk
<1>4. Address(e) \in Seq(Bytes) /\ InnerBrackets(Address(e))
    BY AddressSplits DEF InnerBrackets
<1>5. e.words \in Words
    BY DEF EntryOk, Words
<1> DEFINE t == ReprAll(e.words)
<1>6. t \in Seq(Bytes) /\ t # <<>> /\ t[1] = "\"" /\ t[Len(t)] = "\""
    BY <1>5, ReprEnds, Zenon
<1> HIDE DEF t
<1>7. Quoted(t) /\ Ends(t, "\"")
    BY <1>6, Zenon DEF Quoted, Ends
<1> QED
    BY <1>2, <1>3, <1>4, <1>6, <1>7, Zenon DEF t

(* The line of an entry is trimmed to what Redis printed before the end of *)
(* the line.                                                               *)
LEMMA LineTrimmed ==
    ASSUME NEW e, EntryOk(e)
    PROVE  /\ RedisLine(e) \in Seq(Bytes) /\ TrimEnd(RedisLine(e) \o EOL) = RedisLine(e)
           /\ Rest(Body(e), ReprAll(e.words)) \in Seq(Bytes)
           /\ Stamp(e) \o (<<Blank>> \o Rest(Body(e), ReprAll(e.words))) \in Seq(Bytes)
<1> DEFINE rw == ReprAll(e.words)
           q == "\""
           c1 == <<"]", " ">>
           c2 == <<"[">>
           c3 == <<" ">>
           c4 == <<"+">>
           c5 == <<".">>
<1>1. c1 \in Seq(Bytes) /\ c2 \in Seq(Bytes) /\ c3 \in Seq(Bytes) /\ c4 \in Seq(Bytes) /\ c5 \in Seq(Bytes)
    BY DEF Bytes
<1>2. Ends(rw, q)
    BY EntryParts, Zenon
<1>3. RedisLine(e) = c4 \o (Stamp(e) \o (c3 \o Rest(Body(e), rw)))
    BY LineShape, Zenon
<1>4. Rest(Body(e), rw) = c2 \o (Body(e) \o (c1 \o rw))
    BY Zenon DEF Rest
<1>5. Stamp(e) = e.sec \o (c5 \o e.frac) /\ Body(e) = e.db \o (c3 \o Address(e))
    BY Zenon DEF Stamp, Body
<1>6. q \notin {"CR", "NL"}
    BY Zenon
<1>b. c3 = <<Blank>>
    BY Zenon DEF Blank
<1> HIDE DEF rw, q, c1, c2, c3, c4, c5
<1>7. Stamp(e) \in Seq(Bytes) /\ Body(e) \in Seq(Bytes)
    <2>0. \A u, v \in Seq(Bytes) : u \o v \in Seq(Bytes)
        BY Concatenation
    <2>1. /\ e.sec \in Seq(Bytes) /\ e.frac \in Seq(Bytes) /\ e.db \in Seq(Bytes) /\ Address(e) \in Seq(Bytes)
        BY EntryParts, Zenon
    <2>2. c5 \o e.frac \in Seq(Bytes) /\ c3 \o Address(e) \in Seq(Bytes)
        BY <1>1, <2>0, <2>1, Zenon
    <2>3. e.sec \o (c5 \o e.frac) \in Seq(Bytes) /\ e.db \o (c3 \o Address(e)) \in Seq(Bytes)
        BY <2>0, <2>1, <2>2, Zenon
    <2> QED
        BY <1>5, <2>3, Zenon
<1>8. Ends(c1 \o rw, q)
    BY <1>1, <1>2, EndKept, Zenon
<1>9. Ends(Body(e) \o (c1 \o rw), q)
    BY <1>7, <1>8, EndKept, Zenon
<1>10. Ends(Rest(Body(e), rw), q)
    BY <1>1, <1>4, <1>9, EndKept, Zenon
<1>11. Ends(c3 \o Rest(Body(e), rw), q)
    BY <1>1, <1>10, EndKept, Zenon
<1>12. Ends(Stamp(e) \o (c3 \o Rest(Body(e), rw)), q)
    BY <1>7, <1>11, EndKept, Zenon
<1>13. Ends(RedisLine(e), q)
    BY <1>1, <1>3, <1>12, EndKept, Zenon
<1> DEFINE l == RedisLine(e)
<1> HIDE DEF l
<1>14. l \in Seq(Bytes) /\ l # <<>> /\ l[Len(l)] \notin {"CR", "NL"}
    BY <1>6, <1>13, Zenon DEF Ends, l
<1>15. "CR" \in Bytes /\ "NL" \in Bytes
    BY DEF Bytes
<1>16. TrimEnd(l \o EOL) = l
    BY <1>14, <1>15, TrimEnds
<1> QED
    BY <1>10, <1>12, <1>14, <1>16, <1>b, Zenon DEF l, rw, Ends

(* Parse reads from the line of an entry exactly its time, its database    *)
(* and its client, and leaves what was printed of the words.               *)
LEMMA HeadExact ==
    ASSUME NEW e, EntryOk(e)
    PROVE  ParseHead(TrimEnd(RedisLine(e) \o EOL)) = FullHead(e)
<1> DEFINE rw == ReprAll(e.words)
           l == RedisLine(e)
           t == IF l # <<>> /\ l[1] = "+" THEN Tail(l) ELSE l
           space == IndexOf(t, Blank)
           ts == Before(t, space)
           rest == From(t, space + 1)
           close == CloseIndex(rest)
           body == SubSeq(rest, 2, close - 1)
           sp == IndexOf(body, Blank)
<1>1. ParseHead(l) =
        IF \/ space <= 1 \/ ~TimestampOk(ts)
           \/ rest = <<>> \/ rest[1] # "[" \/ close = 0
           \/ sp = 0 \/ ~IsNumber(Before(body, sp))
          THEN NoHead
          ELSE [sec |-> Number(Timestamp(ts).sec), nsec |-> Nanos(Timestamp(ts).frac),
                db |-> Number(Before(body, sp)), source |-> SplitHostPort(From(body, sp + 1)),
                rest |-> TrimLeft(From(rest, close + 1))]
    BY Zenon DEF ParseHead, Blank
<1>2. TrimEnd(l \o EOL) = l
    BY LineTrimmed, Zenon
<1> DEFINE T == Stamp(e) \o (<<Blank>> \o Rest(Body(e), rw))
<1>T. T = Stamp(e) \o (<<Blank>> \o Rest(Body(e), rw))
    OBVIOUS
<1>3. T \in Seq(Bytes) /\ l = <<"+">> \o T
    BY LineTrimmed, LineShape, Zenon DEF Blank
<1> HIDE DEF l, T, rw
<1>4. t = T
    <2> DEFINE pl == "+"
    <2>1. pl \in Bytes /\ l = <<pl>> \o T
        BY <1>3 DEF Bytes
    <2> HIDE DEF pl
    <2>2. T \in Seq(Bytes)
        BY <1>3
    <2>3. l \in Seq(Bytes) /\ Len(l) = Len(T) + 1 /\ l[1] = pl
        BY <2>1, <2>2, Prefixed
    <2>4. From(l, 2) = T
        <3> DEFINE a == <<pl>>
        <3>1. a \in Seq(Bytes) /\ Len(a) = 1
            BY <2>1, Tuples
        <3>2. a \in Seq(Bytes) /\ l = a \o T
            BY <2>1, <3>1
        <3> HIDE DEF a
        <3>3. From(l, Len(a) + 1) = T
            BY <2>2, <3>2, PartsBack
        <3> QED
            BY <3>1, <3>3
    <2>5. l # <<>>
        BY <2>2, <2>3
    <2>6. Tail(l) = SubSeq(l, 2, Len(l))
        BY <2>3, <2>5, TailIsSubSeq
    <2> QED
        BY <2>3, <2>4, <2>5, <2>6 DEF From, pl
<1> HIDE DEF t
<1> DEFINE S == Stamp(e)
           R == Rest(Body(e), rw)
<1>5. /\ S \in Seq(Bytes) /\ S # <<>> /\ TimestampOk(S)
      /\ \A k \in 1..Len(S) : S[k] # Blank
      /\ Timestamp(S).sec = e.sec
      /\ Nanos(Timestamp(S).frac) = HeadOf(e).nsec
    <2>1. e.sec \in Seq(Bytes) /\ IsNumber(e.sec) /\ e.frac \in Seq(Bytes) /\ IsNumber(e.frac)
        BY EntryParts, Zenon
    <2>2. IsStamp(S, e.sec, e.frac)
        BY Zenon DEF Stamp, IsStamp
    <2> DEFINE sec == e.sec
               frac == e.frac
    <2>a. sec \in Seq(Bytes) /\ IsNumber(sec) /\ frac \in Seq(Bytes) /\ IsNumber(frac)
        BY <2>1
    <2>b. IsStamp(S, sec, frac)
        BY <2>2
    <2>c. frac = e.frac
        OBVIOUS
    <2> HIDE DEF S, sec, frac
    <2>3. S \in Seq(Bytes) /\ S # <<>> /\ TimestampOk(S) /\ Timestamp(S).sec = sec
        BY <2>a, <2>b, StampFound
    <2>4. \A k \in 1..Len(S) : S[k] # Blank
        BY <2>a, <2>b, StampFound
    <2> DEFINE f == Timestamp(S).frac
    <2>5. f \in Seq(Bytes) /\ \A k \in 1..Len(f) : f[k] = frac[k]
        BY <2>a, <2>b, StampFound
    <2>l. Len(f) = (IF Len(frac) > 9 THEN 9 ELSE Len(frac))
        BY <2>a, <2>b, StampFound
    <2> HIDE DEF f
    <2>6. Nanos(f) = HeadOf(e).nsec
        BY <2>a, <2>c, <2>5, <2>l, NanosExact
    <2> QED
        BY <2>3, <2>4, <2>6, Zenon DEF f, sec
<1>6. IsBody(T, S, R) /\ R \in Seq(Bytes)
    BY <1>T, LineTrimmed, Zenon DEF rw, IsBody
<1> HIDE DEF S, R
<1>8. space = Len(S) + 1 /\ Len(S) \in Nat /\ Len(S) # 0
    <2>1. S \in Seq(Bytes) /\ R \in Seq(Bytes) /\ \A k \in 1..Len(S) : S[k] # Blank
        BY <1>5, <1>6
    <2>2. IndexOf(T, Blank) = Len(S) + 1
        BY <1>6, <2>1, BlankFound
    <2>3. Len(S) \in Nat /\ Len(S) # 0
        BY <1>5
    <2> QED
        BY <1>4, <2>2, <2>3
<1>9. ts = S /\ rest = R
    <2>1. S \in Seq(Bytes) /\ R \in Seq(Bytes) /\ \A k \in 1..Len(S) : S[k] # Blank
        BY <1>5, <1>6
    <2>2. Before(T, Len(S) + 1) = S
        BY <1>6, <2>1, BlankFound DEF Before
    <2>3. From(T, (Len(S) + 1) + 1) = R
        BY <1>6, <2>1, BlankFound DEF From
    <2> QED
        BY <1>4, <1>8, <2>2, <2>3
<1>10. ~(space <= 1)
    BY <1>8
<1> HIDE DEF space, ts, rest
<1> DEFINE B == Body(e)
           addr == Address(e)
           db == e.db
<1>11. db \in Seq(Bytes) /\ IsNumber(db) /\ addr \in Seq(Bytes) /\ InnerBrackets(addr)
    BY EntryParts, Zenon
<1>12. IsBody(B, db, addr)
    BY Zenon DEF IsBody, Body, Blank
<1>13. SplitHostPort(addr) = HeadOf(e).source
    <2>1. SplitHostPort(Address(e)) = [ip |-> e.ip, port |-> e.port]
        BY AddressSplits, Zenon
    <2> QED
        BY <2>1 DEF HeadOf
<1> HIDE DEF B, addr, db
<1>14. B \in Seq(Bytes) /\ InnerBrackets(B) /\ IndexOf(B, Blank) = Len(db) + 1 /\ Len(db) \in Nat
    BY <1>11, <1>12, BodyFound
<1>15. Before(B, Len(db) + 1) = db
    BY <1>11, <1>12, BodyFound DEF Before
<1>16. From(B, (Len(db) + 1) + 1) = addr
    BY <1>11, <1>12, BodyFound DEF From
<1>17. rw \in Seq(Bytes) /\ rw # <<>> /\ Quoted(rw)
    BY EntryParts, Zenon DEF rw
<1> DEFINE n == Len(B)
<1>18. R = Rest(B, rw)
    BY DEF R, B
<1>19. n = Len(B)
    OBVIOUS
<1> HIDE DEF n
<1>20. n \in Nat /\ R # <<>> /\ R[1] = "["
    BY <1>14, <1>17, <1>18, <1>19, CloseFound
<1>21. CloseIndex(R) = n + 2
    BY <1>14, <1>17, <1>18, <1>19, CloseFound
<1>22. SubSeq(R, 2, n + 1) = B
    BY <1>14, <1>17, <1>18, <1>19, CloseFound
<1>23. TrimLeft(From(R, n + 3)) = rw
    BY <1>14, <1>17, <1>18, <1>19, CloseFound DEF From
<1>24. close = n + 2 /\ close # 0 /\ close - 1 = n + 1 /\ close + 1 = n + 3
    BY <1>9, <1>20, <1>21
<1>25. body = B /\ TrimLeft(From(rest, close + 1)) = rw
    BY <1>9, <1>22, <1>23, <1>24
<1> HIDE DEF close, body
<1>26. sp = Len(db) + 1 /\ sp # 0 /\ Before(body, sp) = db /\ From(body, sp + 1) = addr
    BY <1>14, <1>15, <1>16, <1>25
<1> HIDE DEF sp
<1>27. ParseHead(l) =
        [sec |-> Number(Timestamp(ts).sec), nsec |-> Nanos(Timestamp(ts).frac),
         db |-> Number(Before(body, sp)), source |-> SplitHostPort(From(body, sp + 1)),
         rest |-> TrimLeft(From(rest, close + 1))]
    <2>1. TimestampOk(ts) /\ rest # <<>> /\ rest[1] = "[" /\ IsNumber(Before(body, sp))
        BY <1>5, <1>9, <1>11, <1>20, <1>26, Zenon
    <2> QED
        BY <1>1, <1>10, <1>24, <1>26, <2>1, Zenon
<1>28. HeadOf(e).sec = Number(e.sec) /\ HeadOf(e).db = Number(e.db)
    BY DEF HeadOf
<1>29. ParseHead(l) =
        [sec |-> HeadOf(e).sec, nsec |-> HeadOf(e).nsec, db |-> HeadOf(e).db, source |-> HeadOf(e).source,
         rest |-> rw]
    BY <1>5, <1>9, <1>13, <1>25, <1>26, <1>27, <1>28, Zenon DEF db
<1> QED
    BY <1>2, <1>29, Zenon DEF FullHead, rw, l

-----------------------------------------------------------------------------
(* Parse as a whole.                                                       *)

HeadKept ==
    pc \in {"args", "done"} =>
        /\ head = ParseHead(TrimEnd(line))
        /\ head # NoHead => s = head.rest

(* An error is no head.                                                    *)
LEMMA FullHeadIsHead == ASSUME NEW e PROVE FullHead(e) # NoHead
<1>1. "sec" \in DOMAIN FullHead(e)
    BY DEF FullHead
<1>2. "sec" \notin DOMAIN NoHead
    BY DEF NoHead
<1> QED
    BY <1>1, <1>2

(* The head is kept while the words are read.                              *)
LEMMA HeadKeptStep == HeadKept /\ [Next]_vars => HeadKept'
<1> SUFFICES ASSUME HeadKept, [Next]_vars PROVE HeadKept'
    OBVIOUS
<1>1. CASE pc' \notin {"args", "done"}
    BY <1>1 DEF HeadKept
<1>2. CASE pc \in {"args", "done"} /\ UNCHANGED <<line, head, s>>
    BY <1>2 DEF HeadKept
<1>3. CASE UNCHANGED vars
    BY <1>1, <1>2, <1>3 DEF vars, parserVars, given
<1>4. CASE Parsing
    <2>1. CASE ReadHead
        <3>1. head' = ParseHead(TrimEnd(line')) /\ (head' # NoHead => s' = head'.rest)
            BY <2>1 DEF ReadHead
        <3> QED
            BY <3>1 DEF HeadKept
    <2>2. CASE SkipBlank \/ OpenQuote \/ Unexpected \/ HexEscape \/ Escape \/ CloseQuote \/ Literal \/ EndOfLine
        <3>1. pc = "args" /\ UNCHANGED <<line, head, s>>
            BY <2>2 DEF SkipBlank, OpenQuote, Unexpected, HexEscape, Escape, CloseQuote, Literal, EndOfLine, Outside,
                Inside, Collect, given
        <3> QED
            BY <1>2, <3>1
    <2> QED
        BY <1>4, <2>1, <2>2 DEF Parsing, ParseNext
<1>5. CASE Arrive \/ ReadAuth \/ ReadReply \/ ReadLine \/ ReadHeader \/ ParseReturns \/ Break \/ ReadBody
    <2>1. pc' \notin {"args", "done"}
        BY <1>5 DEF Arrive, Waiting, ReadAuth, ReadReply, ReadLine, ReadHeader, ParseReturns, Break, ReadBody, AskPc,
            parserVars
    <2> QED
        BY <1>1, <2>1
<1>6. CASE Finished
    BY <1>3, <1>6 DEF Finished
<1> QED
    BY <1>3, <1>4, <1>5, <1>6 DEF Next

(* An event has only these fields of the head.                             *)
LEMMA EventOfHead == ASSUME NEW e, NEW ws PROVE EventOf(FullHead(e), ws) = EventOf(HeadOf(e), ws)
<1> DEFINE h == FullHead(e)
           g == HeadOf(e)
<1>1. h.sec = g.sec /\ h.nsec = g.nsec /\ h.db = g.db /\ h.source = g.source
    BY DEF FullHead
<1> HIDE DEF h, g
<1>2. EventOf(h, ws) = EventOf(g, ws)
    BY <1>1, Zenon DEF EventOf
<1> QED
    BY <1>2 DEF h, g

(* When Parse returns from the line of an entry, the event is what the     *)
(* entry says: its words, its client, its database and its time.           *)
EntriesAreExact ==
    \A e : EntryOk(e) /\ pc = "done" /\ line = RedisLine(e) \o EOL => event = EventOf(HeadOf(e), e.words)

(* That follows from the two halves of Parse.                              *)
LEMMA ParsedIsExact == HeadKept /\ WordsInv => EntriesAreExact
<1> SUFFICES ASSUME HeadKept, WordsInv, NEW e, EntryOk(e), pc = "done", line = RedisLine(e) \o EOL
             PROVE  event = EventOf(HeadOf(e), e.words)
    BY Zenon DEF EntriesAreExact
<1>1. head = FullHead(e)
    BY HeadExact, Zenon DEF HeadKept
<1>2. s = ReprAll(e.words)
    <2>1. s = head.rest
        BY <1>1, FullHeadIsHead, Zenon DEF HeadKept
    <2>2. FullHead(e).rest = ReprAll(e.words)
        BY DEF FullHead
    <2> QED
        BY <1>1, <2>1, <2>2, Zenon
<1>3. e.words \in Words
    BY DEF EntryOk, Words
<1>4. event = EventOf(head, e.words)
    BY <1>2, <1>3, Zenon DEF WordsInv, WordsRead
<1> QED
    BY <1>1, <1>4, EventOfHead, Zenon

(* Parse undoes what Redis prints of an entry, for any entry.              *)
THEOREM ParseIsExact == Spec => []EntriesAreExact
<1>1. Init => HeadKept
    BY DEF Init, AskPc, HeadKept
<1>2. Init => WordsInv
    BY ReprAllNotEmpty DEF Init, ParserInit, AskPc, WordsInv, Fresh, WordsRead
<1> QED
    BY <1>1, <1>2, HeadKeptStep, WordsStep, ParsedIsExact, PTL DEF Spec

-----------------------------------------------------------------------------
(* The session as a whole: how far the loop has come in what was sent.     *)

(* The first line of a text is where its first newline is.                 *)
LEMMA LineFirst ==
    ASSUME NEW l, NEW a, NEW x \in Symbols, NEW y \in Symbols, IsLine(l), IsLine(a), l \o x = a \o y
    PROVE  l = a /\ x = y
<1>0. /\ l \in Seq(STRING) /\ a \in Seq(STRING) /\ x \in Seq(STRING) /\ y \in Seq(STRING)
      /\ Len(l) \in Nat /\ Len(a) \in Nat /\ Len(l) # 0 /\ Len(a) # 0
    BY DEF IsLine, Symbols
<1> DEFINE t == l \o x
<1>1. \A p \in 1..Len(l) : t[p] = l[p]
    BY <1>0, Concatenation
<1>2. \A p \in 1..Len(a) : t[p] = a[p]
    <2>1. \A p \in 1..Len(a) : (a \o y)[p] = a[p]
        BY <1>0, Concatenation
    <2> QED
        BY <2>1, Zenon
<1> HIDE DEF t
<1>3. l[Len(l)] = "NL" /\ a[Len(a)] = "NL"
    BY DEF IsLine
<1>4. ~(Len(l) < Len(a))
    <2>1. SUFFICES ASSUME Len(l) < Len(a) PROVE FALSE
        OBVIOUS
    <2>2. Len(l) \in 1..Len(a) - 1 /\ Len(l) \in 1..Len(a) /\ Len(l) \in 1..Len(l)
        BY <1>0, <2>1
    <2>3. a[Len(l)] # "NL"
        BY <2>2 DEF IsLine
    <2> QED
        BY <1>1, <1>2, <1>3, <2>2, <2>3
<1>5. ~(Len(a) < Len(l))
    <2>1. SUFFICES ASSUME Len(a) < Len(l) PROVE FALSE
        OBVIOUS
    <2>2. Len(a) \in 1..Len(l) - 1 /\ Len(a) \in 1..Len(l) /\ Len(a) \in 1..Len(a)
        BY <1>0, <2>1
    <2>3. l[Len(a)] # "NL"
        BY <2>2 DEF IsLine
    <2> QED
        BY <1>1, <1>2, <1>3, <2>2, <2>3
<1>6. Len(l) = Len(a)
    BY <1>0, <1>4, <1>5
<1>7. l = a
    <2>1. \A k \in 1..Len(l) : l[k] = a[k]
        BY <1>1, <1>2, <1>6
    <2> QED
        BY <1>0, <1>6, <2>1, SameSequence
<1>8. l \o x = l \o y
    BY <1>7, Zenon
<1>9. x = y
    <2>1. From(l \o x, Len(l) + 1) = x
        BY <1>0, PartsBack
    <2>2. From(l \o y, Len(l) + 1) = y
        BY <1>0, PartsBack
    <2> QED
        BY <1>8, <2>1, <2>2, Zenon
<1> QED
    BY <1>7, <1>9

(* What has been received of a line does not yet hold its end.             *)
LEMMA PieceIsShort ==
    ASSUME NEW r \in Symbols, NEW n \in Symbols, NEW l, IsLine(l), NEW x \in Symbols, r \o n = l \o x,
           \A k \in 1..Len(r) : r[k] # "NL"
    PROVE  Len(r) < Len(l)
<1>0. /\ r \in Seq(STRING) /\ n \in Seq(STRING) /\ l \in Seq(STRING) /\ x \in Seq(STRING)
      /\ Len(r) \in Nat /\ Len(l) \in Nat /\ Len(l) # 0
    BY DEF IsLine, Symbols
<1> SUFFICES ASSUME ~(Len(r) < Len(l)) PROVE FALSE
    OBVIOUS
<1>1. Len(l) \in 1..Len(r) /\ Len(l) \in 1..Len(l)
    BY <1>0
<1>2. \A p \in 1..Len(r) : (r \o n)[p] = r[p]
    BY <1>0, Concatenation
<1>3. \A p \in 1..Len(l) : (l \o x)[p] = l[p]
    BY <1>0, Concatenation
<1>4. r[Len(l)] = l[Len(l)]
    BY <1>1, <1>2, <1>3, Zenon
<1> QED
    BY <1>1, <1>4 DEF IsLine

Begins(u, w) == Len(u) <= Len(w) /\ \A k \in 1..Len(u) : u[k] = w[k]

(* Where the parts end does not depend on the parts that follow.           *)
LEMMA OffsetsSame ==
    ASSUME NEW u \in Seq(Seq(STRING)), NEW w \in Seq(Seq(STRING)), NEW a, Offsets(u, a), NEW b, Offsets(w, b),
           Begins(u, w)
    PROVE  \A k \in 0..Len(u) : a[k] = b[k]
<1>1. Len(u) \in Nat /\ Len(w) \in Nat
    OBVIOUS
<1> DEFINE S == {k \in 0..Len(u) : a[k] # b[k]}
<1> SUFFICES ASSUME S # {} PROVE FALSE
    OBVIOUS
<1>2. S \subseteq Nat
    BY <1>1
<1> DEFINE m == Min(S)
<1>3. m \in S /\ \A y \in S : m <= y
    BY <1>2, MinOfNat
<1> HIDE DEF m
<1>4. m # 0
    BY <1>3 DEF Offsets
<1>5. m \in 1..Len(u) /\ m \in 1..Len(w) /\ m - 1 \in 0..Len(u) /\ m - 1 \notin S
    BY <1>1, <1>3, <1>4 DEF Begins
<1>6. a[m] = a[m - 1] + Len(u[m]) /\ b[m] = b[m - 1] + Len(w[m])
    BY <1>5 DEF Offsets
<1>7. a[m - 1] = b[m - 1] /\ u[m] = w[m]
    BY <1>5 DEF Begins
<1>8. a[m] = b[m]
    BY <1>6, <1>7, Zenon
<1> QED
    BY <1>3, <1>8

(* The lines of a session, where each ends, and what follows the m-th.     *)
Texts(ss) == [k \in DOMAIN ss.lines |-> ss.lines[k].text]

Ending(ss, off) == Offsets(Texts(ss), off) /\ Laid(FlattenSeq(Texts(ss)), Texts(ss), Len(Texts(ss)), off)

Off(ss) == CHOOSE off : Ending(ss, off)

After(ss, m) == From(FlattenSeq(Texts(ss)), Off(ss)[m] + 1)

(* The lines are sequences of symbols, one after the other.                *)
LEMMA TextsLaid ==
    ASSUME NEW ss, MonitorOk(ss)
    PROVE  /\ Texts(ss) \in Seq(Seq(STRING)) /\ Len(Texts(ss)) = Len(ss.lines)
           /\ DOMAIN ss.lines = 1..Len(ss.lines) /\ Len(ss.lines) \in Nat
           /\ \A k \in 1..Len(ss.lines) : Texts(ss)[k] = ss.lines[k].text /\ IsLine(Texts(ss)[k])
           /\ FlattenSeq(Texts(ss)) \in Seq(STRING)
           /\ Ending(ss, Off(ss))
<1> DEFINE L == ss.lines
           w == Texts(ss)
<1>1. L \in Seq(ToSet(L))
    BY DEF MonitorOk
<1>2. DOMAIN L = 1..Len(L) /\ Len(L) \in Nat
    BY <1>1
<1>3. \A k \in 1..Len(L) : w[k] = L[k].text /\ IsLine(L[k].text)
    BY <1>2 DEF Texts, MonitorOk, LineOk
<1>4. \A k \in 1..Len(L) : w[k] \in Seq(STRING)
    BY <1>3 DEF IsLine
<1>5. w = [k \in 1..Len(L) |-> w[k]]
    BY <1>2 DEF Texts
<1> HIDE DEF w, L
<1>6. w \in Seq(Seq(STRING)) /\ Len(w) = Len(L)
    BY <1>2, <1>4, <1>5
<1>7. FlattenSeq(w) \in Seq(STRING) /\ \E off : Offsets(w, off) /\ Laid(FlattenSeq(w), w, Len(w), off)
    BY <1>6, FlattenLaid
<1>8. \E off : Ending(ss, off)
    BY <1>7 DEF Ending, w
<1>9. Ending(ss, Off(ss))
    BY <1>8, Zenon DEF Off
<1> QED
    BY <1>2, <1>3, <1>6, <1>7, <1>9 DEF L, w

(* Facts about Off in the terms of the lines.                              *)
LEMMA OffFacts ==
    ASSUME NEW ss, MonitorOk(ss)
    PROVE  /\ \A m \in 0..Len(ss.lines) : Off(ss)[m] \in Nat
           /\ Off(ss)[0] = 0
           /\ \A k \in 1..Len(ss.lines) :
                Off(ss)[k] = Off(ss)[k - 1] + Len(ss.lines[k].text) /\ Len(ss.lines[k].text) \in Nat \ {0}
           /\ Len(FlattenSeq(Texts(ss))) = Off(ss)[Len(ss.lines)]
           /\ \A a \in 0..Len(ss.lines) : \A b \in a..Len(ss.lines) : Off(ss)[a] <= Off(ss)[b]
<1> DEFINE n == Len(ss.lines)
           w == Texts(ss)
           off == Off(ss)
<1>1. w \in Seq(Seq(STRING)) /\ Len(w) = n /\ n \in Nat
    BY TextsLaid
<1>2. \A k \in 1..n : w[k] = ss.lines[k].text /\ IsLine(w[k])
    BY TextsLaid
<1>3. Offsets(w, off) /\ Laid(FlattenSeq(w), w, Len(w), off)
    BY TextsLaid DEF Ending
<1> HIDE DEF w, off, n
<1>4. off \in [0..n -> Nat] /\ off[0] = 0 /\ \A k \in 1..n : off[k] = off[k - 1] + Len(w[k])
    BY <1>1, <1>3 DEF Offsets
<1>5. \A k \in 1..n : Len(w[k]) \in Nat \ {0}
    BY <1>2 DEF IsLine
<1>6. Len(FlattenSeq(w)) = off[n]
    BY <1>1, <1>3 DEF Laid
<1>7. \A a \in 0..n : \A b \in a..n : off[a] <= off[b]
    <2>1. \A a \in 0..Len(w) : \A b \in a..Len(w) : off[a] <= off[b]
        BY <1>1, <1>3, OffsetsGrow
    <2> QED
        BY <1>1, <2>1
<1>8. \A m \in 0..n : off[m] \in Nat
    BY <1>4
<1> QED
    BY <1>2, <1>4, <1>5, <1>6, <1>7, <1>8 DEF n, w, off

(* What follows the m-th line: nothing, or the next line and what follows  *)
(* that one.                                                               *)
LEMMA AfterNext ==
    ASSUME NEW ss, MonitorOk(ss), NEW m \in 0..Len(ss.lines)
    PROVE  /\ After(ss, m) \in Symbols /\ Len(After(ss, m)) = Off(ss)[Len(ss.lines)] - Off(ss)[m]
           /\ m = 0 => After(ss, m) = FlattenSeq(Texts(ss))
           /\ m = Len(ss.lines) => After(ss, m) = <<>>
           /\ m # Len(ss.lines) =>
                After(ss, m + 1) \in Symbols /\ After(ss, m) = ss.lines[m + 1].text \o After(ss, m + 1)
<1> DEFINE n == Len(ss.lines)
           w == Texts(ss)
           off == Off(ss)
           t == FlattenSeq(w)
<1>1. w \in Seq(Seq(STRING)) /\ Len(w) = n /\ n \in Nat
    BY TextsLaid
<1>2. t \in Seq(STRING) /\ \A k \in 1..n : w[k] = ss.lines[k].text
    BY TextsLaid
<1>3. Laid(t, w, Len(w), off)
    BY TextsLaid DEF Ending
<1>4. (\A k \in 0..n : off[k] \in Nat) /\ off[0] = 0 /\ Len(t) = off[n]
    BY OffFacts
<1>5. \A k \in 1..n : off[k] = off[k - 1] + Len(w[k]) /\ Len(w[k]) \in Nat
    BY <1>2, OffFacts
<1>6. \A k \in 0..n : off[k] <= off[n]
    <2>1. ASSUME NEW k \in 0..n PROVE n \in k..n
        BY <1>1
    <2> QED
        BY <2>1, OffFacts
<1>7. \A k \in 0..n : After(ss, k) = From(t, off[k] + 1)
    BY DEF After
<1> HIDE DEF w, off, t, n
<1>8. \A k \in 1..Len(t) : t[k] \in STRING
    BY <1>2
<1>9. ASSUME NEW k \in 0..n
      PROVE  /\ From(t, off[k] + 1) \in Seq(STRING) /\ Len(From(t, off[k] + 1)) = Len(t) - off[k]
             /\ \A j \in 1..Len(t) - off[k] : From(t, off[k] + 1)[j] = t[off[k] + j]
    <2> DEFINE o == off[k]
               u == SubSeq(t, o + 1, Len(t))
    <2>1. o \in Nat /\ o <= Len(t) /\ Len(t) \in Nat
        BY <1>1, <1>4, <1>6
    <2> HIDE DEF o
    <2>2. \A j \in o + 1..Len(t) : t[j] \in STRING
        BY <1>8, <2>1
    <2>3. /\ u \in Seq(STRING) /\ Len(u) = IF o + 1 <= Len(t) THEN Len(t) - (o + 1) + 1 ELSE 0
          /\ \A j \in 1..Len(t) - (o + 1) + 1 : u[j] = t[(o + 1) + j - 1]
        BY <2>1, <2>2, SubSeqProperties
    <2> HIDE DEF u
    <2>4. Len(u) = Len(t) - o
        BY <2>1, <2>3
    <2>5. ASSUME NEW j \in 1..Len(t) - o PROVE u[j] = t[o + j]
        <3>1. j \in 1..Len(t) - (o + 1) + 1 /\ (o + 1) + j - 1 = o + j
            BY <2>1
        <3> QED
            BY <2>3, <3>1
    <2> QED
        BY <2>3, <2>4, <2>5 DEF u, o, From
<1>10. m \in 0..n
    BY DEF n
<1>11. m = 0 => From(t, off[m] + 1) = t
    BY <1>2, <1>4, SubSeqFull DEF From
<1>12. m = n => From(t, off[m] + 1) = <<>>
    BY <1>4, <1>9, <1>10
<1>13. ASSUME m # n
       PROVE  /\ From(t, off[m + 1] + 1) \in Seq(STRING)
              /\ From(t, off[m] + 1) = w[m + 1] \o From(t, off[m + 1] + 1)
    <2> DEFINE k == m + 1
               a == From(t, off[m] + 1)
               b == From(t, off[k] + 1)
               c == w[k]
               o == off[m]
    <2>1. k \in 0..n /\ k \in 1..n /\ k - 1 = m
        BY <1>1, <1>10, <1>13
    <2>2. off[k] = o + Len(c) /\ Len(c) \in Nat /\ c \in Seq(STRING) /\ o \in Nat /\ off[k] <= Len(t) /\ Len(t) \in Nat
        <3>1. c \in Seq(STRING)
            BY <1>1, <2>1
        <3> QED
            BY <1>2, <1>4, <1>5, <1>6, <1>10, <2>1, <3>1
    <2>3. /\ a \in Seq(STRING) /\ Len(a) = Len(t) - o
          /\ \A j \in 1..Len(t) - o : a[j] = t[o + j]
        BY <1>9, <1>10
    <2>4. /\ b \in Seq(STRING) /\ Len(b) = Len(t) - off[k]
          /\ \A j \in 1..Len(t) - off[k] : b[j] = t[off[k] + j]
        BY <1>9, <2>1
    <2>5. \A j \in 1..Len(c) : t[o + j] = c[j]
        BY <1>1, <1>3, <2>1 DEF Laid
    <2> HIDE DEF k, a, b, c, o
    <2>6. /\ c \o b \in Seq(STRING) /\ Len(c \o b) = Len(c) + Len(b)
          /\ \A p \in 1..Len(c) : (c \o b)[p] = c[p]
          /\ \A j \in 1..Len(b) : (c \o b)[Len(c) + j] = b[j]
        BY <2>2, <2>4, Concatenation
    <2> DEFINE d == c \o b
    <2>7. d \in Seq(STRING) /\ Len(d) = Len(a)
        BY <2>2, <2>3, <2>4, <2>6
    <2>8. ASSUME NEW p \in 1..Len(a) PROVE a[p] = d[p]
        <3>1. a[p] = t[o + p]
            BY <2>3
        <3>2. CASE p <= Len(c)
            <4>1. p \in 1..Len(c)
                BY <2>2, <2>3, <3>2
            <4> QED
                BY <2>5, <2>6, <3>1, <4>1
        <3>3. CASE ~(p <= Len(c))
            <4> DEFINE j == p - Len(c)
            <4>1. j \in 1..Len(t) - off[k] /\ off[k] + j = o + p /\ Len(c) + j = p /\ j \in 1..Len(b)
                BY <2>2, <2>3, <2>4, <3>3
            <4> HIDE DEF j
            <4>2. b[j] = t[o + p] /\ d[p] = b[j]
                BY <2>4, <2>6, <4>1
            <4> QED
                BY <3>1, <4>2
        <3> QED
            BY <3>2, <3>3
    <2>9. a = d
        <3> HIDE DEF d
        <3> QED
            BY <2>3, <2>7, <2>8, SameSequence
    <2> QED
        BY <2>4, <2>9 DEF k, a, b, c
<1>14. m # n => m + 1 \in 0..n /\ m + 1 \in 1..n
    BY <1>1, <1>10
<1>15. m # n => After(ss, m + 1) = From(t, off[m + 1] + 1) /\ w[m + 1] = ss.lines[m + 1].text
    BY <1>2, <1>7, <1>14
<1>16. After(ss, m) = From(t, off[m] + 1)
    BY <1>7, <1>10
<1>17. After(ss, m) \in Symbols /\ Len(After(ss, m)) = off[n] - off[m]
    BY <1>4, <1>9, <1>10, <1>16 DEF Symbols
<1>18. (m = 0 => After(ss, m) = t) /\ (m = n => After(ss, m) = <<>>)
    BY <1>11, <1>12, <1>16
<1>19. ASSUME m # n
       PROVE  After(ss, m + 1) \in Symbols /\ After(ss, m) = ss.lines[m + 1].text \o After(ss, m + 1)
    <2>1. /\ From(t, off[m + 1] + 1) \in Seq(STRING)
          /\ From(t, off[m] + 1) = w[m + 1] \o From(t, off[m + 1] + 1)
        BY <1>13, <1>19
    <2>2. After(ss, m + 1) = From(t, off[m + 1] + 1) /\ w[m + 1] = ss.lines[m + 1].text
        BY <1>15, <1>19
    <2> QED
        BY <1>16, <2>1, <2>2, Zenon DEF Symbols
<1> QED
    BY <1>17, <1>18, <1>19 DEF n, off, t, w

(* The line that the reader takes is the next one.                         *)
LEMMA NextLine ==
    ASSUME NEW ss, MonitorOk(ss), NEW m \in 0..Len(ss.lines), NEW l, IsLine(l), NEW r \in Symbols,
           After(ss, m) = l \o r
    PROVE  m + 1 \in 1..Len(ss.lines) /\ l = ss.lines[m + 1].text /\ r = After(ss, m + 1)
<1>1. Len(ss.lines) \in Nat
    BY TextsLaid
<1>2. m # Len(ss.lines)
    <2>1. SUFFICES ASSUME m = Len(ss.lines) PROVE FALSE
        OBVIOUS
    <2>2. l \o r = <<>>
        BY <2>1, AfterNext
    <2>3. Len(l \o r) = Len(l) + Len(r) /\ Len(l) \in Nat /\ Len(r) \in Nat /\ Len(l) # 0
        <3>1. l \in Seq(STRING) /\ r \in Seq(STRING) /\ l # <<>>
            BY DEF IsLine, Symbols
        <3> QED
            BY <3>1, Concatenation
    <2> QED
        BY <2>2, <2>3
<1>3. m + 1 \in 1..Len(ss.lines)
    BY <1>1, <1>2
<1>4. After(ss, m + 1) \in Symbols /\ After(ss, m) = ss.lines[m + 1].text \o After(ss, m + 1)
    BY <1>2, AfterNext
<1>5. IsLine(ss.lines[m + 1].text)
    BY <1>3, TextsLaid
<1>6. l \o r = ss.lines[m + 1].text \o After(ss, m + 1)
    BY <1>4, Zenon
<1> DEFINE a == ss.lines[m + 1].text
           y == After(ss, m + 1)
<1>7. y \in Symbols /\ IsLine(a) /\ l \o r = a \o y
    BY <1>4, <1>5, <1>6
<1> HIDE DEF a, y
<1>8. l = a /\ r = y
    BY <1>7, LineFirst
<1> QED
    BY <1>3, <1>8 DEF a, y

(* Where a line starts.                                                    *)
LEMMA LineStartIs ==
    ASSUME MonitorOk(session), NEW k \in 1..Len(session.lines)
    PROVE  LineStart(k) = Len(session.reply) + Off(session)[k - 1]
<1> DEFINE n == Len(session.lines)
           w == Texts(session)
           b == Off(session)
           u == [j \in 1..(k - 1) |-> session.lines[j].text]
<1>1. w \in Seq(Seq(STRING)) /\ Len(w) = n /\ n \in Nat /\ k \in 1..n
    BY TextsLaid
<1>2. \A j \in 1..n : w[j] = session.lines[j].text
    BY TextsLaid
<1>3. Offsets(w, b)
    BY TextsLaid DEF Ending
<1> DEFINE c == k - 1
<1>4. c \in 0..n /\ \A j \in 1..c : u[j] = w[j] /\ w[j] \in Seq(STRING)
    BY <1>1, <1>2
<1>5. LineStart(k) = Len(session.reply) + Len(FlattenSeq(u))
    BY DEF LineStart
<1>6. u = [j \in 1..c |-> u[j]]
    OBVIOUS
<1> HIDE DEF u, w, b, n, c
<1>7. u \in Seq(Seq(STRING)) /\ Len(u) = c
    <2>1. \A j \in 1..c : u[j] \in Seq(STRING)
        BY <1>4
    <2>2. c \in Nat
        BY <1>1, <1>4
    <2> QED
        BY <1>6, <2>1, <2>2
<1>8. PICK a : Offsets(u, a) /\ Laid(FlattenSeq(u), u, Len(u), a)
    BY <1>7, FlattenLaid
<1>9. Len(u) <= Len(w) /\ (\A j \in 1..Len(u) : u[j] = w[j]) /\ Len(u) \in 0..Len(u)
    BY <1>1, <1>4, <1>7
<1>10. \A j \in 0..Len(u) : a[j] = b[j]
    <2>1. u \in Seq(Seq(STRING)) /\ w \in Seq(Seq(STRING)) /\ Offsets(u, a) /\ Offsets(w, b)
        BY <1>1, <1>3, <1>7, <1>8
    <2>2. Begins(u, w)
        BY <1>9 DEF Begins
    <2> QED
        BY <2>1, <2>2, OffsetsSame
<1>11. Len(FlattenSeq(u)) = b[c]
    BY <1>7, <1>8, <1>9, <1>10 DEF Laid
<1> QED
    BY <1>5, <1>11 DEF b, c

(* The lines up to the n-th that Parse is given.                           *)
Plus(ss, n) == {k \in 1..n : ss.lines[k].text[1] = "+"}

(* How many they are.                                                      *)
LEMMA PlusCount ==
    ASSUME NEW ss, NEW n \in Nat
    PROVE  /\ Cardinality(Plus(ss, n)) \in Nat
           /\ n + 1 \in Plus(ss, n + 1) => Cardinality(Plus(ss, n + 1)) = Cardinality(Plus(ss, n)) + 1
           /\ n + 1 \notin Plus(ss, n + 1) => Plus(ss, n + 1) = Plus(ss, n)
<1>1. IsFiniteSet(1..n)
    BY FS_Interval
<1>2. Plus(ss, n) \in SUBSET (1..n)
    BY DEF Plus
<1>3. IsFiniteSet(Plus(ss, n))
    BY <1>1, <1>2, FS_Subset
<1>4. Cardinality(Plus(ss, n)) \in Nat
    BY <1>3, FS_CardinalityType
<1>5. n + 1 \notin Plus(ss, n)
    BY <1>2
<1>6. n + 1 \in Plus(ss, n + 1) => Plus(ss, n + 1) = Plus(ss, n) \cup {n + 1}
    BY DEF Plus
<1>7. n + 1 \notin Plus(ss, n + 1) => Plus(ss, n + 1) = Plus(ss, n)
    BY DEF Plus
<1>8. Cardinality(Plus(ss, n) \cup {n + 1}) = Cardinality(Plus(ss, n)) + 1
    BY <1>3, <1>5, FS_AddElement
<1> QED
    BY <1>4, <1>6, <1>7, <1>8

(* Fewer lines have fewer of them.                                         *)
LEMMA PlusGrows ==
    ASSUME NEW ss, NEW n \in Nat, NEW k \in Plus(ss, n)
    PROVE  /\ Cardinality(Plus(ss, k)) \in 1..Cardinality(Plus(ss, n))
           /\ {j \in Plus(ss, n) : j <= k} = Plus(ss, k)
<1>1. k \in 1..n /\ k \in Nat
    BY DEF Plus
<1>2. IsFiniteSet(1..n) /\ IsFiniteSet(1..k)
    BY <1>1, FS_Interval
<1>3. Plus(ss, n) \in SUBSET (1..n) /\ Plus(ss, k) \in SUBSET (1..k) /\ Plus(ss, k) \in SUBSET Plus(ss, n)
    BY <1>1 DEF Plus
<1>4. IsFiniteSet(Plus(ss, n)) /\ IsFiniteSet(Plus(ss, k))
    BY <1>2, <1>3, FS_Subset
<1>5. Cardinality(Plus(ss, k)) <= Cardinality(Plus(ss, n)) /\ Cardinality(Plus(ss, n)) \in Nat /\ Cardinality(Plus(ss, k)) \in Nat
    BY <1>3, <1>4, FS_Subset, FS_CardinalityType
<1>6. k \in Plus(ss, k)
    BY <1>1 DEF Plus
<1>7. Cardinality(Plus(ss, k)) # 0
    BY <1>4, <1>6, FS_EmptySet
<1>8. {j \in Plus(ss, n) : j <= k} = Plus(ss, k)
    BY <1>1 DEF Plus
<1> QED
    BY <1>5, <1>7, <1>8

NoNewline(r) == \A k \in 1..Len(r) : r[k] # "NL"

(* The loop has passed m lines of the session, none of them an error.      *)
Passed(ss, m) == m \in 0..Len(ss.lines) /\ \A j \in 1..m - 1 : ss.lines[j].text[1] # "-"

(* When the loop ends, the lines heard are those that it has passed: of    *)
(* the next one the end is missing, or the last was an error.              *)
LEMMA HeardIs ==
    ASSUME MonitorOk(session), asked, session.reply = OkReply, NEW m, Passed(session, m), NEW r \in Symbols,
           net \in Symbols, r \o net = After(session, m),
           NoNewline(r) \/ (m # 0 /\ session.lines[m].text[1] = "-")
    PROVE  Heard = 1..m
<1> DEFINE n == Len(session.lines)
           off == Off(session)
           R == Len(session.reply)
           text(k) == session.lines[k].text
<1>0. m \in 0..n /\ \A j \in 1..m - 1 : text(j)[1] # "-"
    BY DEF Passed
<1>1. DOMAIN session.lines = 1..n /\ n \in Nat /\ R \in Nat /\ session.reply \in Seq(STRING)
    BY TextsLaid DEF MonitorOk, IsLine
<1>2. \A k \in 1..n : LineStart(k) = R + off[k - 1]
    BY LineStartIs
<1>3. (\A k \in 0..n : off[k] \in Nat) /\ \A k \in 1..n : off[k] = off[k - 1] + Len(text(k)) /\ Len(text(k)) \in Nat \ {0}
    BY OffFacts
<1>4. \A a \in 0..n : \A b \in a..n : off[a] <= off[b]
    BY OffFacts
<1>5. Len(Answer(session)) = R + off[n]
    <2>1. FlattenSeq(Texts(session)) \in Seq(STRING) /\ Len(FlattenSeq(Texts(session))) = off[n]
        BY TextsLaid, OffFacts
    <2> DEFINE f == FlattenSeq(Texts(session))
               g == session.reply
    <2>2. Answer(session) = g \o f
        BY DEF Answer, Texts
    <2> HIDE DEF f, g
    <2>3. Len(g \o f) = Len(g) + Len(f)
        BY <1>1, <2>1, Concatenation DEF f, g
    <2> QED
        BY <2>1, <2>2, <2>3 DEF f, g
<1>6. Len(r) + Len(net) = off[n] - off[m] /\ Len(r) \in Nat /\ Len(net) \in Nat
    <2>1. Len(After(session, m)) = off[n] - off[m]
        BY <1>0, AfterNext
    <2>2. Len(r \o net) = Len(r) + Len(net) /\ Len(r) \in Nat /\ Len(net) \in Nat
        BY Concatenation DEF Symbols
    <2> QED
        BY <2>1, <2>2
<1>7. Heard = {k \in 1..n : LineStart(k) + Len(text(k)) <= Received /\ \A j \in 1..(k - 1) : text(j)[1] # "-"}
    BY <1>1 DEF Heard
<1>8. Received = (R + off[n]) - Len(net)
    BY <1>5, Zenon DEF Received
<1>a. NoNewline(r) => m = n \/ Len(r) < Len(text(m + 1))
    <2> SUFFICES ASSUME NoNewline(r), m # n PROVE Len(r) < Len(text(m + 1))
        OBVIOUS
    <2> DEFINE l == text(m + 1)
               x == After(session, m + 1)
    <2>1. m + 1 \in 1..n
        BY <1>0, <1>1
    <2>2. x \in Symbols /\ r \o net = l \o x
        BY <1>0, AfterNext
    <2>3. IsLine(l)
        BY <2>1, TextsLaid
    <2> HIDE DEF l, x
    <2>4. Len(r) < Len(l)
        BY <2>2, <2>3, PieceIsShort DEF NoNewline
    <2> QED
        BY <2>4 DEF l
<1> HIDE DEF n, off, R
<1>9. Received = R + off[m] + Len(r)
    <2>1. off[n] \in Nat /\ off[m] \in Nat /\ R \in Nat
        BY <1>0, <1>1, <1>3
    <2> DEFINE x == off[n]
               y == off[m]
               a == Len(r)
               b == Len(net)
    <2>2. x \in Nat /\ y \in Nat /\ R \in Nat /\ a \in Nat /\ b \in Nat /\ a + b = x - y
        BY <1>6, <2>1
    <2>3. Received = (R + x) - b
        BY <1>8
    <2> HIDE DEF x, y, a, b
    <2>4. Received = R + y + a
        BY <2>2, <2>3
    <2> QED
        BY <2>4 DEF x, y, a, b
<1>10. ASSUME NEW k \in 1..n PROVE LineStart(k) + Len(text(k)) = R + off[k]
    <2>1. k - 1 \in 0..n /\ k \in 0..n
        BY <1>1
    <2>2. off[k - 1] \in Nat /\ off[k] \in Nat /\ Len(text(k)) \in Nat /\ off[k] = off[k - 1] + Len(text(k))
        BY <1>3, <2>1
    <2> QED
        BY <1>1, <1>2, <2>2, SMTT(30)
<1>11. ASSUME NEW k \in 1..m PROVE k \in Heard
    <2>1. k \in 1..n /\ k \in 0..n /\ m \in k..n
        BY <1>0, <1>1
    <2>2. off[k] <= off[m]
        BY <1>4, <2>1
    <2>3. LineStart(k) + Len(text(k)) <= Received
        <3>1. off[k] \in Nat /\ off[m] \in Nat
            BY <1>0, <1>3, <2>1
        <3> QED
            BY <1>1, <1>6, <1>9, <1>10, <2>1, <2>2, <3>1
    <2>4. \A j \in 1..(k - 1) : text(j)[1] # "-"
        BY <1>0, <1>1, <2>1
    <2> QED
        BY <1>7, <2>1, <2>3, <2>4
<1>12. ASSUME NEW k \in 1..n, k > m PROVE k \notin Heard
    <2>1. CASE NoNewline(r)
        <3> DEFINE q == m + 1
        <3>1. q \in 1..n /\ q \in 0..n /\ k \in q..n /\ k \in 0..n /\ m # n /\ q - 1 = m
            BY <1>0, <1>1, <1>12
        <3>2. off[q] <= off[k] /\ off[q] = off[m] + Len(text(q)) /\ Len(text(q)) \in Nat
            BY <1>3, <1>4, <3>1
        <3>3. Len(r) < Len(text(q))
            BY <1>a, <2>1, <3>1
        <3> HIDE DEF q
        <3>4. off[q] \in Nat /\ off[k] \in Nat /\ off[m] \in Nat
            BY <1>0, <1>3, <3>1
        <3>5. ~(R + off[k] <= R + off[m] + Len(r))
            <4> DEFINE z == Len(text(q))
            <4>1. z \in Nat /\ off[q] <= off[k] /\ off[q] = off[m] + z /\ Len(r) < z /\ Len(r) \in Nat /\ R \in Nat
                BY <1>1, <1>6, <3>2, <3>3
            <4> HIDE DEF z
            <4> QED
                BY <3>4, <4>1
        <3> QED
            BY <1>7, <1>9, <1>10, <3>5
    <2>2. CASE m # 0 /\ text(m)[1] = "-"
        <3>1. m \in 1..(k - 1)
            BY <1>0, <1>1, <1>12, <2>2
        <3> QED
            BY <1>7, <2>2, <3>1
    <2> QED
        BY <2>1, <2>2
<1>13. \A k \in Heard : k \in 1..n
    BY <1>7
<1>14. \A k \in Heard : k \in 1..m
    <2>1. ASSUME NEW k \in Heard PROVE k \in 1..m
        <3>1. k \in 1..n /\ ~(k > m)
            BY <1>12, <1>13
        <3> QED
            BY <1>0, <1>1, <3>1
    <2> QED
        BY <2>1
<1> QED
    BY <1>11, <1>14

(* When the reply to MONITOR is broken off, no line is heard.              *)
LEMMA HeardNothing ==
    ASSUME MonitorOk(session), net \in Symbols, rd \in Symbols, ToCome = Answer(session), NoNewline(rd)
    PROVE  Heard = {}
<1> DEFINE n == Len(session.lines)
           off == Off(session)
           R == Len(session.reply)
           f == FlattenSeq(Texts(session))
           g == session.reply
<1>1. DOMAIN session.lines = 1..n /\ n \in Nat /\ R \in Nat /\ g \in Seq(STRING) /\ f \in Seq(STRING) /\ IsLine(g)
    BY TextsLaid DEF MonitorOk, IsLine
<1>2. rd \o net = g \o f
    BY DEF Answer, Texts, ToCome
<1>3. Len(rd) < R /\ Len(rd) \in Nat
    <2>1. f \in Symbols
        BY <1>1 DEF Symbols
    <2> HIDE DEF g, f
    <2>2. Len(rd) < Len(g)
        BY <1>1, <1>2, <2>1, PieceIsShort DEF NoNewline
    <2> QED
        BY <2>2 DEF g, Symbols
<1>4. Received = Len(rd)
    <2>1. Len(rd \o net) = Len(rd) + Len(net) /\ Len(rd) \in Nat /\ Len(net) \in Nat
        BY Concatenation DEF Symbols
    <2>2. Received = Len(rd \o net) - Len(net)
        BY DEF Received, ToCome
    <2> QED
        BY <2>1, <2>2
<1>5. ASSUME NEW k \in 1..n PROVE ~(LineStart(k) + Len(session.lines[k].text) <= Received)
    <2>1. LineStart(k) = R + off[k - 1]
        BY LineStartIs
    <2>2. k - 1 \in 0..n
        BY <1>1
    <2>3. off[k - 1] \in Nat /\ Len(session.lines[k].text) \in Nat
        BY <2>2, OffFacts
    <2> QED
        BY <1>1, <1>3, <1>4, <2>1, <2>3
<1> QED
    BY <1>1, <1>5 DEF Heard

(* What DeliveredExactly says of the results, given the lines heard.       *)
Exact(ss, res, heard) ==
    LET parsed == {k \in heard : ss.lines[k].text[1] = "+"}
    IN  /\ Len(res) = Cardinality(parsed)
        /\ \A k \in parsed :
            LET e == ss.lines[k].entry
                n == Cardinality({j \in parsed : j <= k})
            IN  e # NoEntry => res[n] = EventOf(HeadOf(e), e.words)

(* The results are those of the first m lines.                             *)
IsEvent(ss, k, ev) ==
    ss.lines[k].entry # NoEntry => ev = EventOf(HeadOf(ss.lines[k].entry), ss.lines[k].entry.words)

Covered(ss, res, m) ==
    /\ \E E : res \in Seq(E)
    /\ Len(res) = Cardinality(Plus(ss, m))
    /\ \A k \in Plus(ss, m) : IsEvent(ss, k, res[Cardinality(Plus(ss, k))])

(* Then they are what is promised when these lines are heard.              *)
LEMMA CoveredIsExact ==
    ASSUME NEW ss, NEW res, NEW m \in Nat, Covered(ss, res, m)
    PROVE  Exact(ss, res, 1..m)
<1> DEFINE parsed == {k \in 1..m : ss.lines[k].text[1] = "+"}
<1>1. parsed = Plus(ss, m)
    BY DEF Plus
<1> HIDE DEF parsed
<1>2. Len(res) = Cardinality(parsed)
    BY <1>1 DEF Covered
<1>3. ASSUME NEW k \in parsed, ss.lines[k].entry # NoEntry
      PROVE  res[Cardinality({j \in parsed : j <= k})] = EventOf(HeadOf(ss.lines[k].entry), ss.lines[k].entry.words)
    <2>1. k \in Plus(ss, m)
        BY <1>1
    <2>2. {j \in Plus(ss, m) : j <= k} = Plus(ss, k)
        BY <2>1, PlusGrows
    <2>3. {j \in parsed : j <= k} = Plus(ss, k)
        BY <1>1, <2>2
    <2>4. IsEvent(ss, k, res[Cardinality(Plus(ss, k))])
        BY <2>1 DEF Covered
    <2> QED
        BY <1>3, <2>3, <2>4, Zenon DEF IsEvent
<1> QED
    BY <1>2, <1>3, Zenon DEF Exact, parsed

(* At the beginning there is nothing.                                      *)
LEMMA CoveredFirst == ASSUME NEW ss PROVE Covered(ss, <<>>, 0)
<1>1. Plus(ss, 0) = {}
    BY DEF Plus
<1>2. Cardinality(Plus(ss, 0)) = 0
    BY <1>1, FS_EmptySet
<1>3. <<>> \in Seq({}) /\ Len(<<>>) = 0
    OBVIOUS
<1>4. \E E : <<>> \in Seq(E)
    BY <1>3
<1> QED
    BY <1>1, <1>2, <1>3, <1>4 DEF Covered

(* A line that is passed over adds nothing.                                *)
LEMMA CoveredSkips ==
    ASSUME NEW ss, NEW res, NEW m \in Nat, Covered(ss, res, m), ss.lines[m + 1].text[1] # "+"
    PROVE  Covered(ss, res, m + 1)
<1>1. m + 1 \notin Plus(ss, m + 1)
    BY DEF Plus
<1>2. Plus(ss, m + 1) = Plus(ss, m)
    BY <1>1, PlusCount
<1> QED
    BY <1>2 DEF Covered

(* A line that is parsed adds what Parse returns.                          *)
LEMMA CoveredGrows ==
    ASSUME NEW ss, NEW res, NEW m \in Nat, Covered(ss, res, m), ss.lines[m + 1].text[1] = "+",
           NEW ev, IsEvent(ss, m + 1, ev)
    PROVE  Covered(ss, Append(res, ev), m + 1)
<1> DEFINE q == m + 1
           c == Cardinality(Plus(ss, m))
           new == Append(res, ev)
<1>1. q \in Plus(ss, q) /\ q \in Nat
    BY DEF Plus
<1>2. Cardinality(Plus(ss, q)) = c + 1 /\ c \in Nat
    BY <1>1, PlusCount
<1>3. PICK E : res \in Seq(E)
    BY DEF Covered
<1>4. Len(res) = c /\ \A k \in Plus(ss, m) : IsEvent(ss, k, res[Cardinality(Plus(ss, k))])
    BY DEF Covered
<1> DEFINE F == E \cup {ev}
<1>5. res \in Seq(F) /\ ev \in F
    BY <1>3
<1> HIDE DEF F
<1>6. /\ new \in Seq(F) /\ Len(new) = Len(res) + 1
      /\ \A p \in 1..Len(res) : new[p] = res[p]
      /\ new[Len(res) + 1] = ev
    BY <1>5, AppendProperties
<1>7. Plus(ss, q) \subseteq Plus(ss, m) \cup {q}
    BY DEF Plus
<1> HIDE DEF q, c, new
<1>8. ASSUME NEW k \in Plus(ss, q) PROVE IsEvent(ss, k, new[Cardinality(Plus(ss, k))])
    <2>1. CASE k = q
        <3>1. new[Cardinality(Plus(ss, k))] = ev
            BY <1>2, <1>4, <1>6, <2>1
        <3> QED
            BY <2>1, <3>1 DEF q
    <2>2. CASE k # q
        <3>1. k \in Plus(ss, m)
            BY <1>7, <2>2
        <3>2. Cardinality(Plus(ss, k)) \in 1..c
            BY <3>1, PlusGrows DEF c
        <3>3. new[Cardinality(Plus(ss, k))] = res[Cardinality(Plus(ss, k))]
            BY <1>4, <1>6, <3>2
        <3>4. IsEvent(ss, k, res[Cardinality(Plus(ss, k))])
            BY <1>4, <3>1
        <3> QED
            BY <3>3, <3>4, Zenon
    <2> QED
        BY <2>1, <2>2
<1>9. Len(new) = Cardinality(Plus(ss, q))
    BY <1>2, <1>4, <1>6
<1>10. \E S : new \in Seq(S)
    BY <1>6
<1>11. Covered(ss, new, q)
    BY <1>8, <1>9, <1>10 DEF Covered
<1> QED
    BY <1>11 DEF q, new

(* The loop between two lines, and with a line in Parse.                   *)
NoErrors(ss, m) == m \in 0..Len(ss.lines) /\ \A j \in 1..m : ss.lines[j].text[1] # "-"

BetweenLines(ss, rest, res) == \E m : NoErrors(ss, m) /\ rest = After(ss, m) /\ Covered(ss, res, m)

WithLine(ss, rest, res, l) ==
    \E m \in Nat :
        /\ NoErrors(ss, m + 1) /\ rest = After(ss, m + 1) /\ Covered(ss, res, m)
        /\ l = ss.lines[m + 1].text /\ l[1] = "+"

AfterError(ss, rest, res) ==
    \E m \in Nat :
        /\ Passed(ss, m) /\ rest = After(ss, m) /\ Covered(ss, res, m)
        /\ m # 0 /\ ss.lines[m].text[1] = "-"

(* readLoop takes a line.                                                  *)
LEMMA LoopTakes ==
    ASSUME NEW ss, MonitorOk(ss), NEW res, NEW l, IsLine(l), NEW r \in Symbols, BetweenLines(ss, l \o r, res)
    PROVE  /\ l[1] = "+" => WithLine(ss, r, res, l)
           /\ l[1] = "-" => AfterError(ss, r, res)
           /\ l[1] \notin {"+", "-"} => BetweenLines(ss, r, res)
<1>1. PICK m : NoErrors(ss, m) /\ l \o r = After(ss, m) /\ Covered(ss, res, m)
    BY DEF BetweenLines
<1>2. m \in 0..Len(ss.lines) /\ Len(ss.lines) \in Nat
    BY <1>1, TextsLaid DEF NoErrors
<1>3. m + 1 \in 1..Len(ss.lines) /\ l = ss.lines[m + 1].text /\ r = After(ss, m + 1)
    BY <1>1, <1>2, NextLine
<1> DEFINE q == m + 1
<1>4. m \in Nat /\ q \in 0..Len(ss.lines) /\ q \in Nat /\ q # 0
    BY <1>2, <1>3
<1>5. \A j \in 1..m : ss.lines[j].text[1] # "-"
    BY <1>1 DEF NoErrors
<1>6. ASSUME l[1] # "-" PROVE NoErrors(ss, q)
    <2>1. ASSUME NEW j \in 1..q PROVE ss.lines[j].text[1] # "-"
        <3>1. j \in 1..m \/ j = q
            BY <1>4
        <3> QED
            BY <1>3, <1>5, <1>6, <3>1
    <2> QED
        BY <1>4, <2>1 DEF NoErrors
<1>7. ASSUME l[1] = "+" PROVE WithLine(ss, r, res, l)
    <2>1. NoErrors(ss, m + 1)
        BY <1>6, <1>7
    <2> QED
        BY <1>1, <1>3, <1>4, <1>7, <2>1 DEF WithLine
<1>8. ASSUME l[1] # "+" PROVE Covered(ss, res, q)
    BY <1>1, <1>3, <1>4, <1>8, CoveredSkips
<1>9. ASSUME l[1] = "-" PROVE AfterError(ss, r, res)
    <2>1. l[1] # "+"
        BY <1>9
    <2>2. q - 1 = m
        BY <1>4
    <2>3. Passed(ss, q)
        BY <1>4, <1>5, <2>2 DEF Passed
    <2>4. r = After(ss, q) /\ ss.lines[q].text[1] = "-"
        BY <1>3, <1>9
    <2>5. Covered(ss, res, q)
        BY <1>8, <2>1
    <2> HIDE DEF q
    <2> QED
        BY <1>4, <2>3, <2>4, <2>5 DEF AfterError
<1>10. ASSUME l[1] \notin {"+", "-"} PROVE BetweenLines(ss, r, res)
    <2>1. l[1] # "+" /\ l[1] # "-"
        BY <1>10
    <2>2. NoErrors(ss, q) /\ Covered(ss, res, q) /\ r = After(ss, q)
        BY <1>3, <1>6, <1>8, <2>1
    <2> QED
        BY <2>2 DEF BetweenLines
<1> QED
    BY <1>7, <1>9, <1>10

(* Parse returns, with the event of the entry if the line is one.          *)
LEMMA LoopReturns ==
    ASSUME NEW ss, MonitorOk(ss), NEW res, NEW rest, NEW l, NEW ev, WithLine(ss, rest, res, l),
           \A e : EntryOk(e) /\ l = RedisLine(e) \o EOL => ev = EventOf(HeadOf(e), e.words)
    PROVE  BetweenLines(ss, rest, Append(res, ev))
<1>1. PICK m \in Nat : /\ NoErrors(ss, m + 1) /\ rest = After(ss, m + 1) /\ Covered(ss, res, m)
                       /\ l = ss.lines[m + 1].text /\ l[1] = "+"
    BY DEF WithLine
<1> DEFINE q == m + 1
<1>2. q \in 1..Len(ss.lines) /\ DOMAIN ss.lines = 1..Len(ss.lines)
    BY <1>1, TextsLaid DEF NoErrors
<1>3. LineOk(ss.lines[q])
    BY <1>2 DEF MonitorOk
<1>4. IsEvent(ss, q, ev)
    <2>1. SUFFICES ASSUME ss.lines[q].entry # NoEntry
                   PROVE  ev = EventOf(HeadOf(ss.lines[q].entry), ss.lines[q].entry.words)
        BY Zenon DEF IsEvent
    <2>2. EntryOk(ss.lines[q].entry) /\ ss.lines[q].text = RedisLine(ss.lines[q].entry) \o EOL
        BY <1>3, <2>1, Zenon DEF LineOk
    <2>3. l = ss.lines[q].text
        BY <1>1
    <2> HIDE DEF q
    <2> QED
        BY <2>2, <2>3, Zenon
<1>5. ss.lines[m + 1].text[1] = "+" /\ IsEvent(ss, m + 1, ev)
    BY <1>1, <1>4
<1>6. Covered(ss, Append(res, ev), m + 1)
    BY <1>1, <1>5, CoveredGrows
<1> QED
    BY <1>1, <1>6 DEF BetweenLines

-----------------------------------------------------------------------------
(* Handshake and loop together.                                            *)

SessionInv ==
    /\ session \in Sessions
    /\ pc = "auth" => ~asked /\ ToCome = session.auth
    /\ pc \in {"reply", "header"} => asked /\ ToCome = Answer(session) /\ pc = AskPc(session)
    /\ pc \in {"auth", "reply", "header", "body"} => results = <<>>
    /\ pc # "closed" => role = NoRole
    /\ InLoop => asked /\ session.ask = "MONITOR"
    /\ pc = "body" => asked /\ session.ask # "MONITOR"

(* What the reader has and what it returns.                                *)
LEMMA ReaderTakes ==
    ASSUME StreamInv, pc # "closed", HasLine
    PROVE  /\ FirstLine \in Symbols /\ From(rd, LineEnd + 1) \in Symbols /\ net \in Symbols
           /\ From(rd, LineEnd + 1) \o net \in Symbols
           /\ IsLine(FirstLine) /\ ToCome = FirstLine \o (From(rd, LineEnd + 1) \o net)
<1>1. rd \in Symbols /\ net \in Symbols
    BY DEF StreamInv, StreamTypes
<1>2. /\ FirstLine \in Symbols /\ From(rd, LineEnd + 1) \in Symbols
      /\ IsLine(FirstLine) /\ rd \o net = FirstLine \o (From(rd, LineEnd + 1) \o net)
    BY <1>1, LineTaken DEF HasLine, LineEnd, FirstLine
<1> DEFINE left == From(rd, LineEnd + 1)
<1>3. left \in Symbols
    BY <1>2
<1> HIDE DEF left
<1>4. left \o net \in Symbols
    BY <1>1, <1>3, Together
<1> QED
    BY <1>1, <1>2, <1>4 DEF ToCome, left

(* A piece that arrives is one already on its way.                         *)
LEMMA PieceArrives ==
    ASSUME StreamInv, pc # "closed", Arrive
    PROVE  ToCome' = ToCome
<1>0. rd \in Symbols /\ net \in Symbols
    BY DEF StreamInv, StreamTypes
<1>1. PICK n \in 1..Len(net) : rd' = rd \o SubSeq(net, 1, n) /\ net' = From(net, n + 1)
    BY DEF Arrive
<1>2. n \in 0..Len(net)
    BY <1>0 DEF Symbols
<1> DEFINE a == SubSeq(net, 1, n)
           b == From(net, n + 1)
<1>3. a \in Symbols /\ b \in Symbols /\ a \o b = net
    BY <1>0, <1>2, FromSplits
<1> HIDE DEF a, b
<1>4. rd' = rd \o a /\ net' = b
    BY <1>1 DEF a, b
<1>5. (rd \o a) \o b = rd \o (a \o b)
    BY <1>0, <1>3, Regroup
<1> QED
    BY <1>3, <1>4, <1>5 DEF ToCome

(* Every step keeps track of the handshake.                                *)
LEMMA SessionStep == SessionInv /\ StreamInv /\ [Next]_vars => SessionInv'
<1> SUFFICES ASSUME SessionInv, StreamInv, [Next]_vars PROVE SessionInv'
    OBVIOUS
<1>1. CASE Arrive
    <2>1. UNCHANGED <<parserVars, session, asked, results, role>> /\ pc # "closed"
        BY <1>1 DEF Arrive, Waiting
    <2>2. UNCHANGED <<pc, session, asked, results, role>>
        BY <2>1 DEF parserVars
    <2>3. ToCome' = ToCome
        BY <1>1, <2>1, PieceArrives
    <2> QED
        BY <2>2, <2>3 DEF SessionInv, InLoop
<1>2. CASE pc' = "closed" /\ session' = session
    BY <1>2 DEF SessionInv, InLoop
<1>3. CASE ReadAuth /\ pc' # "closed"
    <2>1. /\ pc = "auth" /\ HasLine /\ pc' = AskPc(session) /\ asked' = TRUE /\ net' = net \o Answer(session)
          /\ rd' = From(rd, LineEnd + 1) /\ UNCHANGED <<session, results, role>>
        BY <1>3 DEF ReadAuth
    <2> DEFINE l == FirstLine
               left == From(rd, LineEnd + 1)
               A == Answer(session)
    <2>2. /\ l \in Symbols /\ left \in Symbols /\ net \in Symbols /\ left \o net \in Symbols
          /\ IsLine(l) /\ ToCome = l \o (left \o net)
        BY <2>1, ReaderTakes
    <2>3. A \in Symbols /\ session.auth \in Symbols /\ (session.auth = <<>> \/ IsLine(session.auth))
        BY SessionsAssumption, RedisAssumption DEF SessionInv, Symbols
    <2>4. rd' = left /\ net' = net \o A
        BY <2>1
    <2>5. l \o (left \o net) = session.auth
        BY <2>1, <2>2 DEF SessionInv
    <2> HIDE DEF l, left, A
    <2>6. left \o net = <<>>
        <3> DEFINE x == left \o net
                   a == session.auth
        <3>1. x \in Symbols /\ a \in Symbols /\ l \o x = a /\ <<>> \in Symbols
            BY <2>2, <2>3, <2>5 DEF Symbols
        <3> HIDE DEF x, a
        <3>2. Len(l \o x) = Len(l) + Len(x) /\ Len(l) \in Nat /\ Len(x) \in Nat /\ Len(l) # 0
            <4>1. l \in Seq(STRING) /\ x \in Seq(STRING) /\ l # <<>>
                BY <2>2, <3>1 DEF IsLine, Symbols
            <4> QED
                BY <4>1, Concatenation
        <3>3. a # <<>>
            BY <3>1, <3>2
        <3>4. IsLine(a)
            BY <2>3, <3>3 DEF a
        <3>5. l \o x = a \o <<>>
            BY <3>1, ConcatEmptySeq DEF Symbols
        <3>6. x = <<>>
            BY <2>2, <3>1, <3>4, <3>5, LineFirst
        <3> QED
            BY <3>6 DEF x
    <2>7. ToCome' = A
        <3>1. (left \o net) \o A = left \o (net \o A)
            <4>1. left \in Symbols /\ net \in Symbols /\ A \in Symbols
                BY <2>2, <2>3
            <4> QED
                BY <4>1, Regroup
        <3>2. <<>> \o A = A
            BY <2>3, ConcatEmptySeq DEF Symbols
        <3> QED
            BY <2>4, <2>6, <3>1, <3>2, Zenon DEF ToCome
    <2>8. pc' \in {"reply", "header"}
        BY <2>1 DEF AskPc
    <2> QED
        BY <2>1, <2>7, <2>8 DEF SessionInv, InLoop, AskPc, A
<1>4. CASE ReadReply \/ ReadLine \/ Parsing \/ ParseReturns
    <2>1. /\ UNCHANGED <<session, asked, role>> /\ pc \in {"reply", "read", "head", "args", "done"}
          /\ pc' \in {"read", "head", "args", "done", "closed"}
        BY <1>4 DEF ReadReply, ReadLine, Parsing, ParseNext, ParseReturns, ReadHead, SkipBlank, OpenQuote, Unexpected,
            HexEscape, Escape, Literal, CloseQuote, EndOfLine, Collect, Fail, Outside, Inside, streamVars
    <2>2. asked /\ session.ask = "MONITOR"
        BY <2>1 DEF SessionInv, InLoop, AskPc
    <2> QED
        BY <2>1, <2>2 DEF SessionInv, InLoop
<1>5. CASE ReadHeader /\ pc' # "closed"
    <2>1. UNCHANGED <<session, asked, role, results>> /\ pc = "header" /\ pc' = "body"
        BY <1>5 DEF ReadHeader
    <2>2. asked /\ session.ask # "MONITOR"
        BY <2>1 DEF SessionInv, AskPc
    <2> QED
        BY <2>1, <2>2 DEF SessionInv, InLoop
<1>6. CASE UNCHANGED vars
    BY <1>6 DEF SessionInv, InLoop, ToCome, vars, parserVars, streamVars
<1>7. CASE Break \/ ReadBody \/ (ReadAuth /\ pc' = "closed") \/ (ReadHeader /\ pc' = "closed")
    <2>1. pc' = "closed" /\ session' = session
        BY <1>7 DEF Break, ReadBody, ReadAuth, ReadHeader, streamVars
    <2> QED
        BY <1>2, <2>1
<1> QED
    BY <1>1, <1>3, <1>4, <1>5, <1>6, <1>7 DEF Next, Finished

(* It begins with the handshake.                                           *)
LEMMA SessionInit == Init => SessionInv
<1> SUFFICES ASSUME Init PROVE SessionInv
    OBVIOUS
<1>1. session \in Sessions /\ results = <<>> /\ role = NoRole /\ asked \in BOOLEAN /\ rd = <<>>
    BY DEF Init
<1>2. session.auth \in Symbols /\ Answer(session) \in Symbols
    BY <1>1, SessionsAssumption DEF Symbols
<1>3. net = IF asked THEN Answer(session) ELSE session.auth
    BY DEF Init
<1>4. net \in Symbols
    BY <1>2, <1>3
<1>5. ToCome = net
    BY <1>1, <1>4, ConcatEmptySeq DEF ToCome, Symbols
<1>6. pc = IF asked THEN AskPc(session) ELSE "auth"
    BY DEF Init
<1> QED
    BY <1>1, <1>3, <1>5, <1>6 DEF SessionInv, InLoop, AskPc

(* The reply that begins the loop is accepted.                             *)
LEMMA OkIsAccepted == Accepted(OkReply)
<1> DEFINE q == <<"+", "OK">>
<1>1. q \in Seq({"+", "OK", "CR", "NL"}) /\ q # <<>> /\ q[Len(q)] \notin {"CR", "NL"} /\ q[1] = "+"
    OBVIOUS
<1>2. OkReply = q \o EOL
    BY DEF OkReply
<1> DEFINE A == {"+", "OK", "CR", "NL"}
<1>3. "CR" \in A /\ "NL" \in A
    OBVIOUS
<1> HIDE DEF q, A
<1>4. TrimEnd(q \o EOL) = q
    BY <1>1, <1>3, TrimEnds DEF A
<1> QED
    BY <1>1, <1>2, <1>4 DEF Accepted

(* The results at any time are those of the lines passed, and at the end   *)
(* those that are promised.                                                *)
DeliveryInv ==
    session.ask = "MONITOR" =>
        /\ InLoop => session.reply = OkReply
        /\ pc = "read" => BetweenLines(session, ToCome, results)
        /\ InParse => WithLine(session, ToCome, results, line)
        /\ pc = "closed" => Exact(session, results, Heard)

(* The first line that a session that asked for MONITOR reads is the       *)
(* reply, and the loop begins after it.                                    *)
LEMMA ReplyBegins ==
    ASSUME SessionInv, StreamInv, session.ask = "MONITOR", MonitorOk(session), ReadReply
    PROVE  /\ pc' = "read" => session.reply = OkReply /\ BetweenLines(session, ToCome', results)
           /\ pc' = "closed" => session.reply # OkReply
           /\ pc' \in {"read", "closed"}
<1> DEFINE l == FirstLine
           left == From(rd, LineEnd + 1)
           a == session.reply
           f == FlattenSeq(Texts(session))
<1>1. pc = "reply" /\ HasLine /\ rd' = left /\ net' = net /\ pc' = IF Accepted(l) THEN "read" ELSE "closed"
    BY DEF ReadReply
<1>2. left \o net \in Symbols /\ IsLine(l) /\ ToCome = l \o (left \o net)
    BY <1>1, ReaderTakes
<1>3. ToCome = a \o f
    BY <1>1 DEF SessionInv, Answer, Texts
<1>4. IsLine(a) /\ f \in Symbols
    BY TextsLaid DEF MonitorOk, Symbols
<1>5. ToCome' = left \o net
    BY <1>1 DEF ToCome
<1>6. l = a /\ left \o net = f
    <2> DEFINE x == left \o net
    <2>1. x \in Symbols /\ l \o x = a \o f
        BY <1>2, <1>3
    <2> HIDE DEF x, l, a, f
    <2>2. l = a /\ x = f
        BY <1>2, <1>4, <2>1, LineFirst
    <2> QED
        BY <2>2 DEF x
<1>7. After(session, 0) = f /\ NoErrors(session, 0)
    <2>1. 0 \in 0..Len(session.lines)
        BY TextsLaid
    <2>2. NoErrors(session, 0)
        BY <2>1 DEF NoErrors
    <2>3. After(session, 0) = f
        BY <2>1, AfterNext
    <2> QED
        BY <2>2, <2>3
<1>8. results = <<>>
    BY <1>1 DEF SessionInv
<1>9. BetweenLines(session, f, results)
    BY <1>7, <1>8, CoveredFirst DEF BetweenLines
<1>10. a = OkReply \/ ~Accepted(a)
    BY DEF MonitorOk
<1> QED
    BY <1>1, <1>5, <1>6, <1>9, <1>10, OkIsAccepted

(* Where the loop ends, the results are complete.                          *)
LEMMA LoopEnds ==
    ASSUME MonitorOk(session), asked, session.reply = OkReply, net \in Symbols, NEW r \in Symbols,
           \/ BetweenLines(session, r \o net, results) /\ NoNewline(r)
           \/ AfterError(session, r \o net, results)
    PROVE  Exact(session, results, Heard)
<1>1. Len(session.lines) \in Nat
    BY TextsLaid
<1>2. CASE BetweenLines(session, r \o net, results) /\ NoNewline(r)
    <2>1. PICK m : NoErrors(session, m) /\ r \o net = After(session, m) /\ Covered(session, results, m)
        BY <1>2 DEF BetweenLines
    <2>2. m \in Nat /\ Passed(session, m)
        BY <1>1, <2>1 DEF NoErrors, Passed
    <2>3. Heard = 1..m
        BY <1>2, <2>1, <2>2, HeardIs
    <2> QED
        BY <2>1, <2>2, <2>3, CoveredIsExact
<1>3. CASE AfterError(session, r \o net, results)
    <2>1. PICK m \in Nat :
            /\ Passed(session, m) /\ r \o net = After(session, m) /\ Covered(session, results, m)
            /\ m # 0 /\ session.lines[m].text[1] = "-"
        BY <1>3 DEF AfterError
    <2>2. Heard = 1..m
        BY <2>1, HeardIs
    <2> QED
        BY <2>1, <2>2, CoveredIsExact
<1> QED
    BY <1>2, <1>3

(* Without a session, or with one that was refused, nothing was promised.  *)
LEMMA NothingHeard ==
    ASSUME results = <<>>, Heard = {}
    PROVE  Exact(session, results, Heard)
<1>1. Heard = 1..0
    OBVIOUS
<1> QED
    BY <1>1, CoveredFirst, CoveredIsExact

(* A reader that waits for a line has no newline.                          *)
LEMMA WaitingHasNone ==
    ASSUME rd \in Symbols, ~HasLine
    PROVE  NoNewline(rd)
<1> DEFINE I == {k \in 1..Len(rd) : rd[k] = "NL"}
<1>1. IndexOf(rd, "NL") = IF I # {} THEN Min(I) ELSE 0
    BY DEF IndexOf, SelectInSeq
<1>2. I \subseteq Nat
    BY DEF Symbols
<1>3. I # {} => Min(I) \in I
    BY <1>2, MinOfNat
<1>4. 0 \notin I
    BY DEF Symbols
<1>5. I = {}
    BY <1>1, <1>3, <1>4 DEF HasLine, LineEnd
<1> QED
    BY <1>5 DEF NoNewline

(* Every step keeps the results and the lines passed together.             *)
LEMMA DeliveryStep == DeliveryInv /\ SessionInv /\ StreamInv /\ EntriesAreExact /\ [Next]_vars => DeliveryInv'
<1> SUFFICES ASSUME DeliveryInv, SessionInv, StreamInv, EntriesAreExact, [Next]_vars,
                    session'.ask = "MONITOR"
             PROVE  /\ InLoop' => session'.reply = OkReply
                    /\ pc' = "read" => BetweenLines(session', ToCome', results')
                    /\ InParse' => WithLine(session', ToCome', results', line')
                    /\ pc' = "closed" => Exact(session', results', Heard')
    BY DEF DeliveryInv
<1>0. session' = session
    BY DEF Next, Arrive, Break, ReadAuth, ReadReply, ReadLine, Parsing, ParseReturns, ReadHeader, ReadBody, Finished,
        vars, streamVars
<1>1. session.ask = "MONITOR" /\ session \in Sessions
    BY <1>0 DEF SessionInv
<1>2. MonitorOk(session)
    BY <1>1, RedisAssumption
<1>3. (InLoop => session.reply = OkReply) /\ (pc = "read" => BetweenLines(session, ToCome, results))
    BY <1>1 DEF DeliveryInv
<1>4. (InParse => WithLine(session, ToCome, results, line)) /\ (pc = "closed" => Exact(session, results, Heard))
    BY <1>1 DEF DeliveryInv
<1>5. pc # "closed" => rd \in Symbols /\ net \in Symbols
    BY DEF StreamInv, StreamTypes
<1>6. UNCHANGED <<asked, net>> => Heard' = Heard
    BY <1>0 DEF Heard, Received, LineStart
<1>7. CASE Arrive
    <2>1. UNCHANGED parserVars /\ results' = results /\ pc # "closed"
        BY <1>7 DEF Arrive, Waiting
    <2>2. UNCHANGED <<pc, line, results>> /\ ToCome' = ToCome
        BY <1>7, <2>1, PieceArrives DEF parserVars, given
    <2> QED
        BY <1>0, <1>3, <1>4, <2>1, <2>2 DEF InLoop, InParse
<1>8. CASE Break
    <2>1. pc' = "closed" /\ UNCHANGED <<asked, net, rd, results>> /\ Waiting
        BY <1>8 DEF Break, streamVars
    <2>2. pc \in {"auth", "reply", "header", "read", "body"} /\ (pc # "body" => ~HasLine)
        BY <2>1 DEF Waiting
    <2>3. pc \notin {"header", "body"}
        BY <1>1 DEF SessionInv, AskPc
    <2>4. rd \in Symbols /\ net \in Symbols /\ ~HasLine
        BY <1>5, <2>2, <2>3
    <2>5. NoNewline(rd)
        BY <2>4, WaitingHasNone
    <2>6. CASE pc = "auth"
        <3>1. Heard = {} /\ results = <<>>
            BY <2>6 DEF SessionInv, Heard
        <3> QED
            BY <1>0, <1>6, <2>1, <3>1, NothingHeard DEF InLoop, InParse
    <2>7. CASE pc = "reply"
        <3>1. ToCome = Answer(session) /\ results = <<>>
            BY <2>7 DEF SessionInv
        <3>2. Heard = {}
            BY <1>2, <2>4, <2>5, <3>1, HeardNothing
        <3> QED
            BY <1>0, <1>6, <2>1, <3>1, <3>2, NothingHeard DEF InLoop, InParse
    <2>8. CASE pc = "read"
        <3>1. asked /\ session.reply = OkReply /\ BetweenLines(session, rd \o net, results)
            BY <1>3, <2>8 DEF SessionInv, InLoop, ToCome
        <3>2. Exact(session, results, Heard)
            BY <1>2, <2>4, <2>5, <3>1, LoopEnds
        <3> QED
            BY <1>0, <1>6, <2>1, <3>2 DEF InLoop, InParse
    <2> QED
        BY <2>2, <2>3, <2>6, <2>7, <2>8
<1>9. CASE ReadAuth
    <2>1. pc = "auth" /\ results' = results
        BY <1>9 DEF ReadAuth
    <2>2. ~asked /\ results = <<>>
        BY <2>1 DEF SessionInv
    <2>3. CASE pc' = "closed"
        <3>1. UNCHANGED <<asked, net>>
            BY <1>9, <2>3 DEF ReadAuth, AskPc
        <3>2. Heard = {}
            BY <2>2 DEF Heard
        <3> QED
            BY <1>0, <1>6, <2>1, <2>2, <2>3, <3>1, <3>2, NothingHeard DEF InLoop, InParse
    <2>4. CASE pc' # "closed"
        <3>1. pc' = "reply"
            BY <1>1, <1>9, <2>4 DEF ReadAuth, AskPc
        <3> QED
            BY <3>1 DEF InLoop, InParse
    <2> QED
        BY <2>3, <2>4
<1>10. CASE ReadReply
    <2>1. UNCHANGED <<asked, net, results>> /\ pc = "reply"
        BY <1>10 DEF ReadReply
    <2>2. /\ pc' = "read" => session.reply = OkReply /\ BetweenLines(session, ToCome', results)
          /\ pc' = "closed" => session.reply # OkReply
          /\ pc' \in {"read", "closed"}
        BY <1>1, <1>2, <1>10, ReplyBegins
    <2>3. CASE pc' = "read"
        BY <1>0, <2>1, <2>2, <2>3 DEF InLoop, InParse
    <2>4. CASE pc' = "closed"
        <3>1. Heard = {} /\ results = <<>>
            BY <2>1, <2>2, <2>4 DEF Heard, SessionInv
        <3> QED
            BY <1>0, <1>6, <2>1, <2>4, <3>1, NothingHeard DEF InLoop, InParse
    <2> QED
        BY <2>2, <2>3, <2>4
<1>11. CASE ReadLine
    <2> DEFINE l == FirstLine
               left == From(rd, LineEnd + 1)
               r == left \o net
    <2>1. pc = "read" /\ HasLine /\ line' = l /\ rd' = left /\ UNCHANGED <<asked, net, results>>
        BY <1>11 DEF ReadLine
    <2>2. pc' = CASE l[1] = "+" -> "head" [] l[1] = "-" -> "closed" [] OTHER -> "read"
        BY <1>11 DEF ReadLine
    <2>3. r \in Symbols /\ left \in Symbols /\ net \in Symbols /\ IsLine(l) /\ ToCome = l \o r
        BY <2>1, ReaderTakes
    <2>4. ToCome' = r /\ BetweenLines(session, l \o r, results) /\ asked /\ session.reply = OkReply
        BY <1>3, <2>1, <2>3 DEF ToCome, SessionInv, InLoop
    <2> HIDE DEF l, r
    <2>5. /\ l[1] = "+" => WithLine(session, r, results, l)
          /\ l[1] = "-" => AfterError(session, r, results)
          /\ l[1] \notin {"+", "-"} => BetweenLines(session, r, results)
        BY <1>2, <2>3, <2>4, LoopTakes
    <2>6. CASE l[1] = "+"
        BY <1>0, <2>1, <2>2, <2>4, <2>5, <2>6 DEF InLoop, InParse
    <2>7. CASE l[1] = "-"
        <3>1. pc' = "closed"
            BY <2>2, <2>7
        <3>2. AfterError(session, left \o net, results)
            BY <2>5, <2>7 DEF r
        <3> HIDE DEF left
        <3>3. Exact(session, results, Heard)
            BY <1>2, <2>3, <2>4, <3>2, LoopEnds
        <3> QED
            BY <1>0, <1>6, <2>1, <3>1, <3>3 DEF InLoop, InParse
    <2>8. CASE l[1] \notin {"+", "-"}
        <3>1. pc' = "read"
            BY <2>2, <2>8
        <3> QED
            BY <1>0, <2>1, <2>4, <2>5, <2>8, <3>1 DEF InLoop, InParse
    <2> QED
        BY <2>6, <2>7, <2>8
<1>12. CASE Parsing
    <2>1. UNCHANGED <<rd, net, results>> /\ ParseNext
        BY <1>12 DEF Parsing, streamVars
    <2>2. line' = line /\ InParse /\ InParse'
        BY <2>1 DEF ParseNext, ReadHead, SkipBlank, OpenQuote, Unexpected, HexEscape, Escape, Literal, CloseQuote,
            EndOfLine, Collect, Fail, Outside, Inside, given, InParse
    <2> QED
        BY <1>0, <1>3, <1>4, <2>1, <2>2 DEF InLoop, InParse, ToCome
<1>13. CASE ParseReturns
    <2>1. pc = "done" /\ pc' = "read" /\ results' = Append(results, event) /\ UNCHANGED <<rd, net>>
        BY <1>13 DEF ParseReturns
    <2>2. WithLine(session, ToCome, results, line) /\ ToCome' = ToCome /\ session.reply = OkReply
        BY <1>3, <1>4, <2>1 DEF InParse, InLoop, ToCome
    <2>3. \A e : EntryOk(e) /\ line = RedisLine(e) \o EOL => event = EventOf(HeadOf(e), e.words)
        BY <2>1, Zenon DEF EntriesAreExact
    <2>4. BetweenLines(session, ToCome, Append(results, event))
        BY <1>2, <2>2, <2>3, LoopReturns, Zenon
    <2> QED
        BY <1>0, <2>1, <2>2, <2>4 DEF InParse
<1>14. CASE ReadHeader \/ ReadBody
    BY <1>1, <1>14 DEF ReadHeader, ReadBody, SessionInv, AskPc
<1>15. CASE UNCHANGED vars
    BY <1>0, <1>3, <1>4, <1>6, <1>15 DEF vars, parserVars, streamVars, given, InLoop, InParse, ToCome
<1> QED
    BY <1>7, <1>8, <1>9, <1>10, <1>11, <1>12, <1>13, <1>14, <1>15 DEF Next, Finished

(* The loop is always where SessionInv says.                               *)
LEMMA SessionInvariant == Spec => []SessionInv
BY SessionInit, SessionStep, StreamInvariant, PTL DEF Spec

(* It has delivered what DeliveryInv says.                                 *)
LEMMA DeliveryInvariant == Spec => []DeliveryInv
<1>1. Init => DeliveryInv
    BY DEF Init, AskPc, DeliveryInv, InLoop, InParse
<1> QED
    BY <1>1, DeliveryStep, SessionInvariant, StreamInvariant, ParseIsExact, PTL DEF Spec

(* The readLoop and the parser together: whatever the pieces in which the  *)
(* stream arrives and wherever it breaks off, every line received whole is *)
(* parsed once and in order, and the event of an entry says exactly what   *)
(* the entry does.                                                         *)
THEOREM LinesAreDeliveredExactly == Spec => []DeliveredExactly
<1>1. DeliveryInv => DeliveredExactly
    BY Zenon DEF DeliveryInv, DeliveredExactly, Exact
<1> QED
    BY <1>1, DeliveryInvariant, PTL

-----------------------------------------------------------------------------
(* The INFO exchange: what ReadBulkString and parseRoleFromInfo make of a  *)
(* reply.                                                                  *)

InfoBytes == STRING \cup Digits \cup {"#Replication", "CR", "NL", "role:", "repl_offset:", "1", "$"}

(* The digit of a number below ten.                                        *)
LEMMA DigitIs == ASSUME NEW n \in 0..9 PROVE Digit(n) \in Digits /\ DigitValue(Digit(n)) = n
<1>1. n \in {0, 1, 2, 3, 4, 5, 6, 7, 8, 9}
    OBVIOUS
<1>2. \E d \in Digits : DigitValue(d) = n
    <2>0. /\ DigitValue("0") = 0 /\ DigitValue("1") = 1 /\ DigitValue("2") = 2 /\ DigitValue("3") = 3
          /\ DigitValue("4") = 4 /\ DigitValue("5") = 5 /\ DigitValue("6") = 6 /\ DigitValue("7") = 7
          /\ DigitValue("8") = 8 /\ DigitValue("9") = 9
        BY DEF DigitValue
    <2>1. {"0", "1", "2", "3", "4", "5", "6", "7", "8", "9"} \subseteq Digits
        BY DEF Digits
    <2> QED
        BY <1>1, <2>0, <2>1, Zenon
<1> QED
    BY <1>2, Zenon DEF Digit

(* A number of two digits.                                                 *)
LEMMA TwoDigits ==
    ASSUME NEW t, Len(t) = 2, DigitValue(t[1]) \in Nat, DigitValue(t[2]) \in Nat
    PROVE  Number(t) = 10 * DigitValue(t[1]) + DigitValue(t[2])
<1>0. Len(t) \in Nat
    OBVIOUS
<1>1. PICK v : Horner(v, t, Len(t)) /\ Number(t) = v[Len(t)]
    BY <1>0, NumberHorner, Zenon
<1>2. \A k \in 0..2 : v[k] = IF k = 0 THEN 0 ELSE 10 * v[k - 1] + DigitValue(t[k])
    BY <1>1 DEF Horner
<1>3. v[0] = 0 /\ v[1] = 10 * v[0] + DigitValue(t[1]) /\ v[2] = 10 * v[1] + DigitValue(t[2])
    <2>1. 0 \in 0..2 /\ 1 \in 0..2 /\ 2 \in 0..2 /\ 1 - 1 = 0 /\ 2 - 1 = 1
        OBVIOUS
    <2> QED
        BY <1>2, <2>1
<1>4. Number(t) = v[2]
    BY <1>1
<1> QED
    BY <1>3, <1>4

(* The header of a bulk string of less than 100 symbols.                   *)
LEMMA HeaderIs ==
    ASSUME NEW n \in Nat, n < 100, NEW h, h = <<"$", Digit(n \div 10), Digit(n % 10)>>
    PROVE  IsBulkHeader(h) /\ Number(Tail(h)) = n
<1> DEFINE a == Digit(n \div 10)
           b == Digit(n % 10)
           x == n \div 10
           y == n % 10
<1>1. x \in 0..9 /\ y \in 0..9 /\ n = 10 * x + y
    OBVIOUS
<1>2. a \in Digits /\ DigitValue(a) = x /\ b \in Digits /\ DigitValue(b) = y
    BY <1>1, DigitIs
<1> HIDE DEF a, b, x, y
<1>3. h = <<"$", a, b>>
    BY DEF a, b, x, y
<1>4. Tail(h) = <<a, b>> /\ h[1] = "$" /\ h # <<>>
    BY <1>3
<1>5. IsNumber(<<a, b>>)
    BY <1>2 DEF IsNumber
<1>6. Number(<<a, b>>) = 10 * x + y
    <2> DEFINE t == <<a, b>>
    <2>1. Len(t) = 2 /\ t[1] = a /\ t[2] = b
        OBVIOUS
    <2> HIDE DEF t
    <2>2. Number(t) = 10 * DigitValue(t[1]) + DigitValue(t[2])
        BY <1>1, <1>2, <2>1, TwoDigits
    <2> QED
        BY <1>2, <2>1, <2>2 DEF t
<1> QED
    BY <1>1, <1>4, <1>5, <1>6 DEF IsBulkHeader

(* The places of the role in the body.                                     *)
RoleIn(body, r) ==
    /\ Len(body) >= Len(r) + 6
    /\ body[1] = "#Replication" /\ body[2] = "CR" /\ body[3] = "NL" /\ body[4] = "role:"
    /\ \A j \in 1..Len(r) : body[4 + j] = r[j]
    /\ body[Len(r) + 5] = "CR" /\ body[Len(r) + 6] = "NL"

(* What Redis sends has it there.                                          *)
LEMMA InfoHasRole ==
    ASSUME NEW r \in Seq(InfoBytes)
    PROVE  InfoBody(r) \in Seq(InfoBytes) /\ RoleIn(InfoBody(r), r)
<1> DEFINE A == InfoBytes
           t == <<"#Replication">>
           o == <<"role:">>
           z == <<"repl_offset:", "1">>
<1>1. t \in Seq(A) /\ o \in Seq(A) /\ z \in Seq(A) /\ EOL \in Seq(A)
    BY DEF InfoBytes, EOL
<1>2. Len(t) = 1 /\ t[1] = "#Replication" /\ Len(o) = 1 /\ o[1] = "role:" /\ Len(EOL) = 2 /\ EOL[1] = "CR" /\ EOL[2] = "NL"
    BY DEF EOL
<1>3. InfoBody(r) = (((((t \o EOL) \o o) \o r) \o EOL) \o z) \o EOL
    BY Zenon DEF InfoBody
<1>r. r \in Seq(A) /\ Len(r) \in Nat
    OBVIOUS
<1> HIDE DEF A, t, o, z
<1> DEFINE x1 == t \o EOL
<1>4. x1 \in Seq(A) /\ Len(x1) = 3 /\ x1[1] = "#Replication" /\ x1[2] = "CR" /\ x1[3] = "NL"
    <2>1. /\ x1 \in Seq(A) /\ Len(x1) = Len(t) + Len(EOL)
          /\ (\A p \in 1..Len(t) : x1[p] = t[p]) /\ \A j \in 1..Len(EOL) : x1[Len(t) + j] = EOL[j]
        BY <1>1, Concatenation
    <2> HIDE DEF x1
    <2>2. 1 \in 1..Len(t) /\ 1 \in 1..Len(EOL) /\ 2 \in 1..Len(EOL)
        BY <1>2
    <2> QED
        BY <1>2, <2>1, <2>2
<1> HIDE DEF x1
<1> DEFINE x2 == x1 \o o
<1>5. x2 \in Seq(A) /\ Len(x2) = 4 /\ x2[1] = "#Replication" /\ x2[2] = "CR" /\ x2[3] = "NL" /\ x2[4] = "role:"
    <2>0. x1 \in Seq(A) /\ o \in Seq(A)
        BY <1>1, <1>4
    <2>1. /\ x2 \in Seq(A) /\ Len(x2) = Len(x1) + Len(o)
          /\ (\A p \in 1..Len(x1) : x2[p] = x1[p]) /\ \A j \in 1..Len(o) : x2[Len(x1) + j] = o[j]
        BY <2>0, Concatenation
    <2> HIDE DEF x2
    <2>2. 1 \in 1..Len(x1) /\ 2 \in 1..Len(x1) /\ 3 \in 1..Len(x1) /\ 1 \in 1..Len(o)
        BY <1>2, <1>4
    <2> QED
        BY <1>2, <1>4, <2>1, <2>2
<1> HIDE DEF x2
<1> DEFINE x3 == x2 \o r
<1>6. /\ x3 \in Seq(A) /\ Len(x3) = 4 + Len(r)
      /\ (\A p \in 1..4 : x3[p] = x2[p]) /\ \A j \in 1..Len(r) : x3[4 + j] = r[j]
    <2>0. x2 \in Seq(A) /\ r \in Seq(A)
        BY <1>r, <1>5
    <2>1. /\ x3 \in Seq(A) /\ Len(x3) = Len(x2) + Len(r)
          /\ (\A p \in 1..Len(x2) : x3[p] = x2[p]) /\ \A j \in 1..Len(r) : x3[Len(x2) + j] = r[j]
        BY <2>0, Concatenation
    <2> QED
        BY <1>5, <2>1
<1> HIDE DEF x3
<1> DEFINE x4 == x3 \o EOL
           n == Len(r)
<1>7. /\ x4 \in Seq(A) /\ Len(x4) = n + 6
      /\ (\A p \in 1..4 + n : x4[p] = x3[p]) /\ x4[n + 5] = "CR" /\ x4[n + 6] = "NL"
    <2>0. x3 \in Seq(A) /\ EOL \in Seq(A)
        BY <1>1, <1>6
    <2>1. /\ x4 \in Seq(A) /\ Len(x4) = Len(x3) + Len(EOL)
          /\ (\A p \in 1..Len(x3) : x4[p] = x3[p]) /\ \A j \in 1..Len(EOL) : x4[Len(x3) + j] = EOL[j]
        BY <2>0, Concatenation
    <2> HIDE DEF x4
    <2>2. 1 \in 1..Len(EOL) /\ 2 \in 1..Len(EOL) /\ Len(x3) + 1 = n + 5 /\ Len(x3) + 2 = n + 6
        BY <1>2, <1>6, <1>r
    <2> QED
        BY <1>2, <1>6, <1>r, <2>1, <2>2
<1> HIDE DEF x4
<1> DEFINE x5 == x4 \o z
           x6 == x5 \o EOL
<1>8. x5 \in Seq(A) /\ Len(x5) >= Len(x4) /\ \A p \in 1..Len(x4) : x5[p] = x4[p]
    <2>0. x4 \in Seq(A) /\ z \in Seq(A)
        BY <1>1, <1>7
    <2>1. /\ x5 \in Seq(A) /\ Len(x5) = Len(x4) + Len(z)
          /\ (\A p \in 1..Len(x4) : x5[p] = x4[p])
        BY <2>0, Concatenation
    <2>2. Len(z) \in Nat /\ Len(x4) \in Nat
        BY <1>1, <1>7
    <2> HIDE DEF x5
    <2> QED
        BY <2>1, <2>2
<1> HIDE DEF x5
<1>9. x6 \in Seq(A) /\ Len(x6) >= Len(x5) /\ \A p \in 1..Len(x5) : x6[p] = x5[p]
    <2>0. x5 \in Seq(A) /\ EOL \in Seq(A)
        BY <1>1, <1>8
    <2>1. /\ x6 \in Seq(A) /\ Len(x6) = Len(x5) + Len(EOL)
          /\ (\A p \in 1..Len(x5) : x6[p] = x5[p])
        BY <2>0, Concatenation
    <2>2. Len(x5) \in Nat
        BY <1>8
    <2> HIDE DEF x6
    <2> QED
        BY <1>2, <2>1, <2>2
<1> HIDE DEF x6
<1>10. Len(x6) >= n + 6 /\ \A p \in 1..n + 6 : x6[p] = x4[p]
    <2>1. Len(x6) \in Nat /\ Len(x5) \in Nat /\ Len(x4) = n + 6 /\ n \in Nat
        BY <1>7, <1>8, <1>9, <1>r
    <2>2. Len(x6) >= Len(x5) /\ Len(x5) >= n + 6
        BY <1>8, <1>9, <2>1
    <2>3. ASSUME NEW p \in 1..n + 6 PROVE x6[p] = x4[p]
        <3>1. p \in 1..Len(x4) /\ p \in 1..Len(x5)
            BY <2>1, <2>2
        <3> QED
            BY <1>8, <1>9, <3>1
    <2> QED
        BY <2>1, <2>2, <2>3
<1>11. x6[1] = "#Replication" /\ x6[2] = "CR" /\ x6[3] = "NL" /\ x6[4] = "role:"
    <2>1. \A p \in 1..4 : p \in 1..n + 6 /\ p \in 1..4 + n
        BY <1>r
    <2>2. \A p \in 1..4 : x6[p] = x2[p]
        BY <1>6, <1>7, <1>10, <2>1
    <2> QED
        BY <1>5, <2>2
<1>12. ASSUME NEW j \in 1..n PROVE x6[4 + j] = r[j]
    <2>1. 4 + j \in 1..n + 6 /\ 4 + j \in 1..4 + n
        BY <1>r
    <2> QED
        BY <1>6, <1>7, <1>10, <2>1
<1>13. x6[n + 5] = "CR" /\ x6[n + 6] = "NL"
    <2>1. n + 5 \in 1..n + 6 /\ n + 6 \in 1..n + 6
        BY <1>r
    <2> QED
        BY <1>7, <1>10, <2>1
<1>14. InfoBody(r) = x6
    BY <1>3, Zenon DEF x1, x2, x3, x4, x5, x6
<1>15. RoleIn(x6, r)
    BY <1>10, <1>11, <1>12, <1>13 DEF RoleIn
<1> QED
    BY <1>9, <1>14, <1>15 DEF A

(* The end of a line, in a sequence.                                       *)
LEMMA EndOfLineAt ==
    ASSUME NEW t \in Seq(InfoBytes), NEW k \in 2..Len(t)
    PROVE  SubSeq(t, k - 1, k) = EOL <=> t[k - 1] = "CR" /\ t[k] = "NL"
<1> DEFINE v == SubSeq(t, k - 1, k)
<1>1. \A j \in k - 1..k : t[j] \in InfoBytes
    OBVIOUS
<1>2. k - 1 \in Int /\ k \in Int /\ k - 1 <= k /\ k - (k - 1) + 1 = 2 /\ (k - 1) + 1 - 1 = k - 1 /\ (k - 1) + 2 - 1 = k
    OBVIOUS
<1>3. /\ v \in Seq(InfoBytes) /\ Len(v) = IF k - 1 <= k THEN k - (k - 1) + 1 ELSE 0
      /\ \A j \in 1..k - (k - 1) + 1 : v[j] = t[(k - 1) + j - 1]
    BY <1>1, <1>2, SubSeqProperties
<1> HIDE DEF v
<1>4. Len(v) = 2 /\ v[1] = t[k - 1] /\ v[2] = t[k]
    <2>1. 1 \in 1..2 /\ 2 \in 1..2
        OBVIOUS
    <2> QED
        BY <1>2, <1>3, <2>1
<1>5. EOL \in Seq(InfoBytes) /\ Len(EOL) = 2 /\ EOL[1] = "CR" /\ EOL[2] = "NL"
    BY DEF EOL, InfoBytes
<1>6. ASSUME t[k - 1] = "CR", t[k] = "NL" PROVE v = EOL
    <2>1. \A j \in 1..Len(v) : v[j] = EOL[j]
        BY <1>4, <1>5, <1>6
    <2> QED
        BY <1>3, <1>4, <1>5, <2>1, SameSequence
<1>7. ASSUME v = EOL PROVE t[k - 1] = "CR" /\ t[k] = "NL"
    BY <1>4, <1>5, <1>7
<1> QED
    BY <1>6, <1>7 DEF v

(* parseRoleFromInfo finds it.                                             *)
LEMMA RoleRead ==
    ASSUME NEW body \in Seq(InfoBytes), NEW r \in Seq(InfoBytes), RoleIn(body, r), \A k \in DOMAIN r : r[k] # "NL"
    PROVE  RoleOf(body) = IF r = <<"sla", "ve">> THEN <<"re", "plica">> ELSE r
<1> DEFINE n == Len(r)
           K == {k \in DOMAIN body : body[k] = "role:" /\ StartsLine(body, k)}
           val == From(body, Min(K) + 1)
           end == {k \in 2..Len(val) : SubSeq(val, k - 1, k) = EOL}
           v == IF end = {} THEN val ELSE SubSeq(val, 1, Min(end) - 2)
<1>1. n \in Nat /\ Len(body) \in Nat /\ DOMAIN body = 1..Len(body) /\ DOMAIN r = 1..n
    OBVIOUS
<1>2. Len(body) >= n + 6 /\ body[1] = "#Replication" /\ body[2] = "CR" /\ body[3] = "NL" /\ body[4] = "role:"
    BY DEF RoleIn
<1>3. (\A j \in 1..n : body[4 + j] = r[j]) /\ body[n + 5] = "CR" /\ body[n + 6] = "NL"
    BY DEF RoleIn
<1>4. RoleOf(body) = CASE K = {} -> NoRole
                       [] K # {} /\ v = <<"sla", "ve">> -> <<"re", "plica">>
                       [] OTHER -> v
    BY DEF RoleOf
<1> HIDE DEF n
<1>5. K \subseteq Nat /\ 4 \in K /\ \A y \in K : 4 <= y
    <2>1. SubSeq(body, 3 - 1, 3) = EOL
        <3>1. 3 \in 2..Len(body) /\ 3 - 1 = 2
            BY <1>1, <1>2
        <3> QED
            BY <1>2, <3>1, EndOfLineAt
    <2>2. StartsLine(body, 4)
        <3>1. 4 - 2 = 3 - 1 /\ 4 - 1 = 3 /\ 4 > 2
            OBVIOUS
        <3> QED
            BY <2>1, <3>1 DEF StartsLine
    <2>3. 4 \in DOMAIN body
        BY <1>1, <1>2
    <2>4. ASSUME NEW y \in K PROVE 4 <= y
        <3>1. y \in Nat /\ y >= 1 /\ body[y] = "role:"
            BY <1>1
        <3>2. y # 1 /\ y # 2 /\ y # 3
            BY <1>2, <3>1
        <3> QED
            BY <3>1, <3>2
    <2>5. K \subseteq Nat
        BY <1>1
    <2> QED
        BY <1>2, <2>2, <2>3, <2>4, <2>5
<1> HIDE DEF K
<1>6. Min(K) = 4
    BY <1>5, MinIs
<1>7. val \in Seq(InfoBytes) /\ Len(val) = Len(body) - 4 /\ \A j \in 1..Len(body) - 4 : val[j] = body[4 + j]
    <2> DEFINE u == SubSeq(body, 5, Len(body))
    <2>1. \A j \in 5..Len(body) : body[j] \in InfoBytes
        BY <1>1
    <2>2. /\ u \in Seq(InfoBytes) /\ Len(u) = IF 5 <= Len(body) THEN Len(body) - 5 + 1 ELSE 0
          /\ \A j \in 1..Len(body) - 5 + 1 : u[j] = body[5 + j - 1]
        BY <1>1, <2>1, SubSeqProperties
    <2>3. val = u
        <3>1. Min(K) + 1 = 5
            BY <1>6
        <3> QED
            BY <3>1, Zenon DEF From
    <2> HIDE DEF u, val
    <2>a. Len(u) = IF 5 <= Len(body) THEN Len(body) - 5 + 1 ELSE 0
        BY <2>2
    <2>b. 5 <= Len(body) /\ Len(body) - 5 + 1 = Len(body) - 4
        BY <1>1, <1>2
    <2>4. Len(u) = Len(body) - 4
        BY <2>a, <2>b
    <2>5. ASSUME NEW j \in 1..Len(body) - 4 PROVE u[j] = body[4 + j]
        <3>1. j \in 1..Len(body) - 5 + 1 /\ 5 + j - 1 = 4 + j
            BY <1>1
        <3> QED
            BY <2>2, <3>1
    <2> QED
        BY <2>2, <2>3, <2>4, <2>5
<1> HIDE DEF val
<1>8. Len(val) >= n + 2 /\ Len(val) \in Nat /\ (\A j \in 1..n : val[j] = r[j]) /\ val[n + 1] = "CR" /\ val[n + 2] = "NL"
    <2>1. Len(val) >= n + 2 /\ Len(val) \in Nat
        BY <1>1, <1>2, <1>7
    <2>2. \A j \in 1..n + 2 : val[j] = body[4 + j]
        BY <1>1, <1>7, <2>1
    <2>3. n + 1 \in 1..n + 2 /\ n + 2 \in 1..n + 2 /\ 4 + (n + 1) = n + 5 /\ 4 + (n + 2) = n + 6 /\ \A j \in 1..n : j \in 1..n + 2
        BY <1>1
    <2> QED
        BY <1>3, <2>1, <2>2, <2>3
<1>9. end \subseteq Nat /\ n + 2 \in end /\ \A y \in end : n + 2 <= y
    <2>1. n + 2 \in 2..Len(val) /\ (n + 2) - 1 = n + 1
        BY <1>1, <1>8
    <2>2. SubSeq(val, (n + 2) - 1, n + 2) = EOL
        <3> DEFINE q == n + 2
        <3>1. q \in 2..Len(val) /\ val[q - 1] = "CR" /\ val[q] = "NL"
            BY <1>8, <2>1
        <3> HIDE DEF q
        <3>2. SubSeq(val, q - 1, q) = EOL
            BY <1>7, <3>1, EndOfLineAt
        <3> QED
            BY <3>2 DEF q
    <2>3. ASSUME NEW y \in end PROVE n + 2 <= y
        <3>1. y \in 2..Len(val) /\ y \in Nat /\ SubSeq(val, y - 1, y) = EOL
            BY <1>8
        <3>2. val[y] = "NL"
            BY <1>7, <3>1, EndOfLineAt
        <3>3. y \notin 1..n
            <4>1. ASSUME y \in 1..n PROVE FALSE
                <5>1. val[y] = r[y] /\ r[y] # "NL"
                    BY <1>1, <1>8, <4>1
                <5> QED
                    BY <3>2, <5>1
            <4> QED
                BY <4>1
        <3>4. y # n + 1
            BY <1>8, <3>2
        <3> QED
            BY <1>1, <3>1, <3>3, <3>4
    <2>4. end \subseteq Nat
        BY <1>8
    <2> QED
        BY <2>1, <2>2, <2>3, <2>4
<1> HIDE DEF end
<1>10. Min(end) = n + 2
    BY <1>9, MinIs
<1>11. v = r
    <2>1. 0 + n <= Len(val) /\ \A j \in 1..n : val[0 + j] = r[j]
        BY <1>1, <1>8
    <2>2. SubSeq(val, 0 + 1, 0 + n) = r
        BY <1>7, <2>1, PartIs DEF n
    <2>3. Min(end) - 2 = 0 + n /\ 0 + 1 = 1 /\ end # {}
        BY <1>1, <1>9, <1>10
    <2>4. SubSeq(val, 1, Min(end) - 2) = r
        BY <2>2, <2>3, Zenon
    <2> QED
        BY <2>3, <2>4, Zenon
<1> HIDE DEF v
<1> QED
    BY <1>4, <1>5, <1>11

(* A bulk string as the client reads it: a line with the length, then the  *)
(* body and the end of a line.                                             *)
BulkOf(t, hdr, body) ==
    /\ IsLine(hdr) /\ body \o EOL \in Symbols /\ t = hdr \o (body \o EOL)
    /\ IsBulkHeader(TrimEnd(hdr)) /\ Number(Tail(TrimEnd(hdr))) = Len(body)

(* Symbols are among them.                                                 *)
LEMMA StringInfo == ASSUME NEW t \in Seq(STRING) PROVE t \in Seq(InfoBytes)
<1>1. \A k \in 1..Len(t) : t[k] \in InfoBytes
    BY DEF InfoBytes
<1>2. Len(t) \in Nat /\ t = [k \in 1..Len(t) |-> t[k]]
    OBVIOUS
<1> QED
    BY <1>1, <1>2

(* The bulk string that Redis sends.                                       *)
LEMMA BulkSplits ==
    ASSUME NEW body \in Seq(STRING), Len(body) < 100, NEW t, t = BulkReply(body), t \in Symbols
    PROVE  \E hdr : BulkOf(t, hdr, body)
<1> DEFINE a == Digit(Len(body) \div 10)
           b == Digit(Len(body) % 10)
           q == <<"$", a, b>>
           hdr == q \o EOL
           rest == body \o EOL
           A == InfoBytes
<1>1. Len(body) \in Nat /\ Len(body) \div 10 \in 0..9 /\ Len(body) % 10 \in 0..9
    OBVIOUS
<1>2. a \in Digits /\ b \in Digits
    BY <1>1, DigitIs
<1>3. IsBulkHeader(q) /\ Number(Tail(q)) = Len(body)
    BY <1>1, HeaderIs
<1>4. a # "NL" /\ b # "NL" /\ b # "CR"
    BY <1>2 DEF Digits
<1>5. t = (hdr \o body) \o EOL
    BY Zenon DEF BulkReply
<1> HIDE DEF a, b
<1>6. q \in Seq(A) /\ EOL \in Seq(A) /\ "CR" \in A /\ "NL" \in A
    BY <1>2 DEF InfoBytes, EOL
<1>7. Len(q) = 3 /\ q[1] = "$" /\ q[2] = a /\ q[3] = b /\ q # <<>> /\ Len(EOL) = 2 /\ EOL[1] = "CR" /\ EOL[2] = "NL"
    BY DEF EOL
<1> HIDE DEF q, A
<1>8. TrimEnd(hdr) = q
    <2>1. q[Len(q)] \notin {"CR", "NL"}
        BY <1>4, <1>7
    <2> QED
        BY <1>6, <1>7, <2>1, TrimEnds
<1>9. hdr \in Seq(A) /\ Len(hdr) = Len(q) + Len(EOL)
    BY <1>6, Concatenation
<1>10. (\A p \in 1..Len(q) : hdr[p] = q[p]) /\ \A j \in 1..Len(EOL) : hdr[Len(q) + j] = EOL[j]
    BY <1>6, Concatenation
<1>11. body \in Seq(A)
    BY StringInfo DEF A
<1>12. rest \in Seq(A)
    BY <1>6, <1>11, Concatenation
<1> HIDE DEF hdr
<1>13. t = hdr \o rest
    <2>1. hdr \in Seq(A) /\ body \in Seq(A) /\ EOL \in Seq(A)
        BY <1>6, <1>9, <1>11
    <2>2. (hdr \o body) \o EOL = hdr \o (body \o EOL)
        BY <2>1, ConcatAssociative
    <2> QED
        BY <1>5, <2>2
<1> HIDE DEF rest
<1>14. Len(hdr) = 5 /\ hdr[1] = "$" /\ hdr[2] = a /\ hdr[3] = b /\ hdr[4] = "CR" /\ hdr[5] = "NL"
    <2>1. 1 \in 1..Len(q) /\ 2 \in 1..Len(q) /\ 3 \in 1..Len(q) /\ 1 \in 1..Len(EOL) /\ 2 \in 1..Len(EOL)
        BY <1>7
    <2>2. Len(q) + 1 = 4 /\ Len(q) + 2 = 5 /\ Len(q) + Len(EOL) = 5
        BY <1>7
    <2> QED
        BY <1>7, <1>9, <1>10, <2>1, <2>2
<1>15. SubSeq(t, 1, Len(hdr)) = hdr /\ From(t, Len(hdr) + 1) = rest
    <2>1. hdr \in Seq(A) /\ rest \in Seq(A)
        BY <1>9, <1>12
    <2> QED
        BY <1>13, <2>1, PartsBack
<1>16. Len(hdr) <= Len(t)
    <2>1. hdr \in Seq(A) /\ rest \in Seq(A)
        BY <1>9, <1>12
    <2>2. Len(hdr \o rest) = Len(hdr) + Len(rest) /\ Len(rest) \in Nat /\ Len(hdr) \in Nat
        BY <2>1, Concatenation
    <2> QED
        BY <1>13, <2>2
<1>17. hdr \in Symbols
    <2>1. 1 \in Nat /\ 5 \in Nat /\ 1 >= 1 /\ 5 <= Len(t)
        BY <1>14, <1>16
    <2>2. SubSeq(t, 1, 5) \in Symbols
        BY <2>1, PartTypes
    <2> QED
        BY <1>14, <1>15, <2>2
<1>18. rest \in Symbols
    <2>1. From(t, 5 + 1) \in Symbols
        BY FromTypes
    <2> QED
        BY <1>14, <1>15, <2>1
<1>19. IsLine(hdr)
    <2>1. ASSUME NEW k \in 1..Len(hdr) - 1 PROVE hdr[k] # "NL"
        <3>1. k = 1 \/ k = 2 \/ k = 3 \/ k = 4
            BY <1>14
        <3> QED
            BY <1>4, <1>14, <3>1
    <2>2. hdr[Len(hdr)] = "NL" /\ hdr \in Seq(STRING)
        BY <1>14, <1>17 DEF Symbols
    <2>3. hdr # <<>>
        BY <1>14
    <2> QED
        BY <2>1, <2>2, <2>3 DEF IsLine
<1>20. BulkOf(t, hdr, body)
    BY <1>3, <1>8, <1>13, <1>18, <1>19 DEF BulkOf, rest
<1> QED
    BY <1>20

(* Redis answers with a bulk string that says the role, or with a line     *)
(* that is none.                                                           *)
NoBulk(ss) == IsLine(Answer(ss)) /\ ~IsBulkHeader(TrimEnd(Answer(ss))) /\ ss.role = NoRole

Bulk(ss, hdr, body) == BulkOf(Answer(ss), hdr, body) /\ body \in Symbols /\ RoleOf(body) = ss.role

(* A body without a role gives none.                                       *)
LEMMA RoleMissing ==
    ASSUME NEW body, \A k \in DOMAIN body : body[k] # "role:"
    PROVE  RoleOf(body) = NoRole
<1>1. {k \in DOMAIN body : body[k] = "role:" /\ StartsLine(body, k)} = {}
    OBVIOUS
<1> QED
    BY <1>1 DEF RoleOf

(* The replies to INFO.                                                    *)
LEMMA InfoForms ==
    ASSUME NEW ss, InfoOk(ss), Answer(ss) \in Symbols
    PROVE  NoBulk(ss) \/ \E hdr, body : Bulk(ss, hdr, body)
<1> DEFINE body == SubSeq(ss.reply, 6, Len(ss.reply) - 2)
           r == SubSeq(body, 5, Len(body) - 6)
           nothing == [k \in DOMAIN ss.lines |-> ss.lines[k].text]
<1>1. ss.lines = <<>>
    BY DEF InfoOk
<1>2. FlattenSeq(nothing) = <<>>
    <2>1. nothing = <<>>
        BY <1>1
    <2>2. FlattenSeq(<<>>) = <<>>
        BY DEF FlattenSeq
    <2> QED
        BY <2>1, <2>2, Zenon
<1>3. Answer(ss) = ss.reply \o <<>>
    BY <1>2, Zenon DEF Answer
<1>4. \/ IsLine(ss.reply) /\ ~IsBulkHeader(TrimEnd(ss.reply)) /\ ss.role = NoRole
      \/ /\ body \in Seq(STRING) /\ Len(body) < 100 /\ ss.reply = BulkReply(body)
         /\ \/ (\A k \in DOMAIN body : body[k] # "role:") /\ ss.role = NoRole
            \/ /\ body = InfoBody(r) /\ \A k \in DOMAIN r : r[k] # "NL"
               /\ ss.role = IF r = <<"sla", "ve">> THEN <<"re", "plica">> ELSE r
    BY Zenon DEF InfoOk
<1>r. body \in Seq(STRING) => r \in Seq(InfoBytes)
    <2>1. SUFFICES ASSUME body \in Seq(STRING) PROVE r \in Seq(InfoBytes)
        OBVIOUS
    <2> HIDE DEF body
    <2>2. Len(body) \in Nat /\ 5 \in Int /\ Len(body) - 6 \in Int
        BY <2>1
    <2>3. \A k \in 5..Len(body) - 6 : body[k] \in InfoBytes
        BY <2>1, <2>2 DEF InfoBytes
    <2> QED
        BY <2>2, <2>3, SubSeqProperties
<1> HIDE DEF body, r
<1>5. CASE IsLine(ss.reply) /\ ~IsBulkHeader(TrimEnd(ss.reply)) /\ ss.role = NoRole
    <2>1. ss.reply \o <<>> = ss.reply
        <3>1. ss.reply \in Seq(STRING)
            BY <1>5 DEF IsLine
        <3> QED
            BY <3>1, ConcatEmptySeq
    <2> QED
        BY <1>3, <1>5, <2>1, Zenon DEF NoBulk
<1>6. CASE /\ body \in Seq(STRING) /\ Len(body) < 100 /\ ss.reply = BulkReply(body)
           /\ \/ (\A k \in DOMAIN body : body[k] # "role:") /\ ss.role = NoRole
              \/ /\ body = InfoBody(r) /\ \A k \in DOMAIN r : r[k] # "NL"
                 /\ ss.role = IF r = <<"sla", "ve">> THEN <<"re", "plica">> ELSE r
    <2>1. RoleOf(body) = ss.role
        <3>1. CASE (\A k \in DOMAIN body : body[k] # "role:") /\ ss.role = NoRole
            BY <3>1, RoleMissing, Zenon
        <3>2. CASE /\ body = InfoBody(r) /\ \A k \in DOMAIN r : r[k] # "NL"
                   /\ ss.role = IF r = <<"sla", "ve">> THEN <<"re", "plica">> ELSE r
            <4>1. r \in Seq(InfoBytes)
                BY <1>r, <1>6
            <4>2. body \in Seq(InfoBytes) /\ RoleIn(body, r)
                BY <3>2, <4>1, InfoHasRole
            <4>3. RoleOf(body) = IF r = <<"sla", "ve">> THEN <<"re", "plica">> ELSE r
                BY <3>2, <4>1, <4>2, RoleRead
            <4> QED
                BY <3>2, <4>3, Zenon
        <3> QED
            BY <1>6, <3>1, <3>2
    <2>2. ss.reply \o <<>> = ss.reply
        <3> DEFINE A == InfoBytes
                   q == <<"$", Digit(Len(body) \div 10), Digit(Len(body) % 10)>>
        <3>1. Len(body) \in Nat /\ Len(body) \div 10 \in 0..9 /\ Len(body) % 10 \in 0..9
            BY <1>6
        <3>2. Digit(Len(body) \div 10) \in A /\ Digit(Len(body) % 10) \in A
            BY <3>1, DigitIs DEF InfoBytes
        <3>3. q \in Seq(A) /\ EOL \in Seq(A)
            BY <3>2 DEF InfoBytes, EOL
        <3>4. body \in Seq(A)
            BY <1>6, StringInfo
        <3>5. ss.reply = ((q \o EOL) \o body) \o EOL
            BY <1>6, Zenon DEF BulkReply
        <3> HIDE DEF q, A
        <3>6. ((q \o EOL) \o body) \o EOL \in Seq(A)
            <4>1. q \o EOL \in Seq(A)
                BY <3>3, Concatenation
            <4>2. (q \o EOL) \o body \in Seq(A)
                BY <3>4, <4>1, Concatenation
            <4> QED
                BY <3>3, <4>2, Concatenation
        <3>7. ss.reply \in Seq(A)
            BY <3>5, <3>6, Zenon
        <3> QED
            BY <3>7, ConcatEmptySeq
    <2>3. Answer(ss) = ss.reply
        BY <1>3, <2>2, Zenon
    <2>4. Answer(ss) = BulkReply(body)
        BY <1>6, <2>3, Zenon
    <2>5. \E hdr : BulkOf(Answer(ss), hdr, body)
        BY <1>6, <2>4, BulkSplits
    <2>6. body \in Symbols
        BY <1>6 DEF Symbols
    <2> QED
        BY <2>1, <2>5, <2>6, Zenon DEF Bulk
<1> QED
    BY <1>4, <1>5, <1>6

(* What queryRole has read of the reply, and what it returns.              *)
BodyNext(ss, rest, size) ==
    \E hdr, body : Bulk(ss, hdr, body) /\ rest = body \o EOL /\ size = Len(body)

RoleInv ==
    session.ask # "MONITOR" =>
        /\ pc = "body" => BodyNext(session, ToCome, bulk)
        /\ pc = "closed" => role = IF asked /\ net = <<>> THEN session.role ELSE NoRole

(* The header of a reply: a bulk string goes on with its body.             *)
LEMMA HeaderTaken ==
    ASSUME NEW ss, InfoOk(ss), Answer(ss) \in Symbols, NEW l, IsLine(l), NEW x \in Symbols, Answer(ss) = l \o x
    PROVE  IF IsBulkHeader(TrimEnd(l)) THEN BodyNext(ss, x, Number(Tail(TrimEnd(l)))) ELSE ss.role = NoRole
<1>1. CASE NoBulk(ss)
    <2>1. IsLine(Answer(ss)) /\ ~IsBulkHeader(TrimEnd(Answer(ss))) /\ ss.role = NoRole
        BY <1>1 DEF NoBulk
    <2> DEFINE a == Answer(ss)
               y == <<>>
    <2>2. a \o y = a /\ y \in Symbols
        BY ConcatEmptySeq DEF Symbols
    <2>3. l \o x = a \o y /\ IsLine(a)
        BY <2>1, <2>2
    <2> HIDE DEF a, y
    <2>4. l = a
        BY <2>2, <2>3, LineFirst
    <2> QED
        BY <2>1, <2>4 DEF a
<1>2. ASSUME NEW hdr, NEW body, Bulk(ss, hdr, body)
      PROVE  IF IsBulkHeader(TrimEnd(l)) THEN BodyNext(ss, x, Number(Tail(TrimEnd(l)))) ELSE ss.role = NoRole
    <2>1. /\ IsLine(hdr) /\ body \o EOL \in Symbols /\ Answer(ss) = hdr \o (body \o EOL)
          /\ IsBulkHeader(TrimEnd(hdr)) /\ Number(Tail(TrimEnd(hdr))) = Len(body)
        BY <1>2 DEF Bulk, BulkOf
    <2> DEFINE y == body \o EOL
    <2>2. y \in Symbols /\ l \o x = hdr \o y
        BY <2>1
    <2> HIDE DEF y
    <2>3. l = hdr /\ x = y
        BY <2>1, <2>2, LineFirst
    <2>4. BodyNext(ss, x, Number(Tail(TrimEnd(l))))
        BY <1>2, <2>1, <2>3, Zenon DEF BodyNext, y
    <2> QED
        BY <2>1, <2>3, <2>4
<1> QED
    BY <1>1, <1>2, InfoForms

(* An answer that is complete has a line in it.                            *)
LEMMA AnswerHasLine ==
    ASSUME NEW ss, InfoOk(ss), Answer(ss) \in Symbols, NEW r \in Symbols, NEW n \in Symbols, r \o n = Answer(ss),
           NoNewline(r)
    PROVE  n # <<>>
<1>1. \E l, x : IsLine(l) /\ x \in Symbols /\ Answer(ss) = l \o x
    <2>1. CASE NoBulk(ss)
        <3>1. IsLine(Answer(ss)) /\ <<>> \in Symbols /\ Answer(ss) \o <<>> = Answer(ss)
            BY <2>1, ConcatEmptySeq DEF NoBulk, Symbols
        <3> QED
            BY <3>1, Zenon
    <2>2. ASSUME NEW hdr, NEW body, Bulk(ss, hdr, body)
          PROVE  \E l, x : IsLine(l) /\ x \in Symbols /\ Answer(ss) = l \o x
        BY <2>2, Zenon DEF Bulk, BulkOf
    <2> QED
        BY <2>1, <2>2, InfoForms
<1>2. PICK l, x : IsLine(l) /\ x \in Symbols /\ Answer(ss) = l \o x
    BY <1>1
<1>3. r \o n = l \o x
    BY <1>2, Zenon
<1>4. Len(r) < Len(l)
    BY <1>2, <1>3, PieceIsShort DEF NoNewline
<1>5. Len(l \o x) = Len(l) + Len(x) /\ Len(l) \in Nat /\ Len(x) \in Nat
    <2>1. l \in Seq(STRING) /\ x \in Seq(STRING)
        BY <1>2 DEF IsLine, Symbols
    <2> QED
        BY <2>1, Concatenation
<1>6. Len(r \o n) = Len(r) + Len(n) /\ Len(r) \in Nat /\ Len(n) \in Nat
    <2>1. r \in Seq(STRING) /\ n \in Seq(STRING)
        BY DEF Symbols
    <2> QED
        BY <2>1, Concatenation
<1>7. Len(r) + Len(n) = Len(l) + Len(x)
    BY <1>3, <1>5, <1>6
<1>8. Len(n) # 0
    BY <1>4, <1>5, <1>6, <1>7
<1> QED
    BY <1>8

(* The body as it is received: a part of it leaves more to come, and all   *)
(* of it gives the role.                                                   *)
LEMMA BodyTaken ==
    ASSUME NEW ss, NEW r \in Symbols, NEW n \in Symbols, NEW size, BodyNext(ss, r \o n, size)
    PROVE  /\ size \in Nat
           /\ Len(r) < size + 2 => n # <<>>
           /\ Len(r) >= size + 2 => n = <<>> /\ RoleOf(SubSeq(r, 1, size)) = ss.role
<1>1. PICK hdr, body : Bulk(ss, hdr, body) /\ r \o n = body \o EOL /\ size = Len(body)
    BY DEF BodyNext
<1>2. body \in Symbols /\ body \o EOL \in Symbols /\ RoleOf(body) = ss.role
    BY <1>1 DEF Bulk, BulkOf
<1>3. size \in Nat
    BY <1>1, <1>2 DEF Symbols
<1>4. Len(r \o n) = Len(r) + Len(n) /\ Len(r) \in Nat /\ Len(n) \in Nat
    <2>1. r \in Seq(STRING) /\ n \in Seq(STRING)
        BY DEF Symbols
    <2> QED
        BY <2>1, Concatenation
<1> DEFINE A == InfoBytes
<1>5. body \in Seq(A) /\ EOL \in Seq(A) /\ Len(EOL) = 2
    <2>1. body \in Seq(STRING)
        BY <1>2 DEF Symbols
    <2>2. body \in Seq(A)
        BY <2>1, StringInfo
    <2> QED
        BY <2>2 DEF InfoBytes, EOL
<1> HIDE DEF A
<1>6. Len(body \o EOL) = size + 2
    <2>1. Len(body \o EOL) = Len(body) + Len(EOL)
        BY <1>5, Concatenation
    <2> QED
        BY <1>1, <1>5, <2>1
<1>7. Len(r) + Len(n) = size + 2
    BY <1>1, <1>4, <1>6
<1>8. ASSUME Len(r) < size + 2 PROVE n # <<>>
    <2>1. Len(n) # 0
        BY <1>3, <1>4, <1>7, <1>8
    <2> QED
        BY <2>1
<1>9. ASSUME Len(r) >= size + 2 PROVE n = <<>> /\ RoleOf(SubSeq(r, 1, size)) = ss.role
    <2>1. Len(n) = 0
        BY <1>3, <1>4, <1>7, <1>9
    <2>2. n = <<>>
        BY <2>1 DEF Symbols
    <2>3. r \o n = r
        BY <2>2, ConcatEmptySeq DEF Symbols
    <2>4. r = body \o EOL
        BY <1>1, <2>3, Zenon
    <2>5. SubSeq(r, 1, Len(body)) = body
        <3>1. body \in Seq(A) /\ EOL \in Seq(A)
            BY <1>5
        <3> QED
            BY <2>4, <3>1, PartsBack
    <2> QED
        BY <1>1, <1>2, <2>2, <2>5
<1> QED
    BY <1>3, <1>8, <1>9

(* Every step of the exchange.                                             *)
LEMMA RoleStep == RoleInv /\ SessionInv /\ StreamInv /\ [Next]_vars => RoleInv'
<1> SUFFICES ASSUME RoleInv, SessionInv, StreamInv, [Next]_vars, session'.ask # "MONITOR"
             PROVE  /\ pc' = "body" => BodyNext(session', ToCome', bulk')
                    /\ pc' = "closed" => role' = IF asked' /\ net' = <<>> THEN session'.role ELSE NoRole
    BY DEF RoleInv
<1>0. session' = session
    BY DEF Next, Arrive, Break, ReadAuth, ReadReply, ReadLine, Parsing, ParseReturns, ReadHeader, ReadBody, Finished,
        vars, streamVars
<1>1. session.ask # "MONITOR" /\ session \in Sessions
    BY <1>0 DEF SessionInv
<1>2. InfoOk(session) /\ Answer(session) \in Symbols
    BY <1>1, RedisAssumption, SessionsAssumption DEF Symbols
<1>3. (pc = "body" => BodyNext(session, ToCome, bulk)) /\ (pc = "closed" => role = IF asked /\ net = <<>> THEN session.role ELSE NoRole)
    BY <1>1 DEF RoleInv
<1>4. pc # "closed" => rd \in Symbols /\ net \in Symbols /\ role = NoRole
    BY DEF StreamInv, StreamTypes, SessionInv
<1>5. pc \notin {"reply", "read", "head", "args", "done"}
    BY <1>1 DEF SessionInv, AskPc, InLoop
<1>6. CASE Arrive
    <2>1. UNCHANGED parserVars /\ bulk' = bulk /\ pc # "closed"
        BY <1>6 DEF Arrive, Waiting
    <2>2. UNCHANGED <<pc, bulk>> /\ ToCome' = ToCome
        BY <1>6, <2>1, PieceArrives DEF parserVars
    <2> QED
        BY <1>0, <1>3, <2>1, <2>2
<1>7. CASE Break
    <2>1. pc' = "closed" /\ UNCHANGED <<asked, net, role>> /\ Waiting
        BY <1>7 DEF Break, streamVars
    <2>2. pc \in {"auth", "header", "body"}
        BY <1>5, <2>1 DEF Waiting
    <2>3. rd \in Symbols /\ net \in Symbols /\ role = NoRole
        BY <1>4, <2>2
    <2>4. ~asked \/ net # <<>>
        <3>1. CASE pc = "auth"
            BY <3>1 DEF SessionInv
        <3>2. CASE pc = "header"
            <4>1. rd \o net = Answer(session) /\ ~HasLine
                BY <2>1, <3>2 DEF SessionInv, ToCome, Waiting
            <4>2. NoNewline(rd)
                BY <2>3, <4>1, WaitingHasNone
            <4>3. net # <<>>
                BY <1>2, <2>3, <4>1, <4>2, AnswerHasLine
            <4> QED
                BY <4>3
        <3>3. CASE pc = "body"
            <4>1. BodyNext(session, rd \o net, bulk) /\ Len(rd) < bulk + 2
                BY <1>3, <2>1, <3>3 DEF ToCome, Waiting
            <4>2. net # <<>>
                BY <2>3, <4>1, BodyTaken
            <4> QED
                BY <4>2
        <3> QED
            BY <2>2, <3>1, <3>2, <3>3
    <2> QED
        BY <2>1, <2>3, <2>4
<1>8. CASE ReadAuth
    <2>1. pc = "auth" /\ role' = role /\ pc' # "body"
        BY <1>8 DEF ReadAuth, AskPc
    <2>2. ~asked /\ role = NoRole
        BY <2>1 DEF SessionInv
    <2>3. pc' = "closed" => asked' = asked
        BY <1>8 DEF ReadAuth, AskPc
    <2> QED
        BY <2>1, <2>2, <2>3
<1>9. CASE ReadHeader
    <2> DEFINE l == FirstLine
               left == From(rd, LineEnd + 1)
               x == left \o net
               h == TrimEnd(l)
    <2>1. pc = "header" /\ HasLine /\ rd' = left /\ UNCHANGED <<asked, net, role>>
        BY <1>9 DEF ReadHeader
    <2>2. IF IsBulkHeader(h) THEN pc' = "body" /\ bulk' = Number(Tail(h)) ELSE pc' = "closed"
        BY <1>9 DEF ReadHeader
    <2>3. x \in Symbols /\ IsLine(l) /\ ToCome = l \o x
        BY <2>1, ReaderTakes
    <2>4. Answer(session) = l \o x /\ ToCome' = x /\ role = NoRole
        BY <2>1, <2>3 DEF SessionInv, ToCome
    <2> HIDE DEF l, x
    <2>5. IF IsBulkHeader(h) THEN BodyNext(session, x, Number(Tail(h))) ELSE session.role = NoRole
        BY <1>2, <2>3, <2>4, HeaderTaken
    <2> HIDE DEF h
    <2>6. CASE IsBulkHeader(h)
        <3>1. pc' = "body" /\ bulk' = Number(Tail(h)) /\ BodyNext(session, x, Number(Tail(h)))
            BY <2>2, <2>5, <2>6
        <3> QED
            BY <1>0, <2>4, <3>1
    <2>7. CASE ~IsBulkHeader(h)
        <3>1. pc' = "closed" /\ session.role = NoRole /\ role' = NoRole
            BY <2>1, <2>2, <2>4, <2>5, <2>7
        <3> QED
            BY <1>0, <3>1
    <2> QED
        BY <2>6, <2>7
<1>10. CASE ReadBody
    <2>1. /\ pc = "body" /\ Len(rd) >= bulk + 2 /\ role' = RoleOf(SubSeq(rd, 1, bulk)) /\ pc' = "closed"
          /\ UNCHANGED <<asked, net>>
        BY <1>10 DEF ReadBody
    <2>2. BodyNext(session, rd \o net, bulk) /\ rd \in Symbols /\ net \in Symbols /\ asked
        BY <1>3, <1>4, <2>1 DEF ToCome, SessionInv
    <2>3. net = <<>> /\ RoleOf(SubSeq(rd, 1, bulk)) = session.role
        BY <2>1, <2>2, BodyTaken
    <2> QED
        BY <1>0, <2>1, <2>2, <2>3
<1>11. CASE UNCHANGED vars
    BY <1>0, <1>3, <1>11 DEF vars, parserVars, streamVars, ToCome
<1>12. CASE ReadReply \/ ReadLine \/ Parsing \/ ParseReturns
    BY <1>5, <1>12 DEF ReadReply, ReadLine, Parsing, ParseNext, ParseReturns, ReadHead, SkipBlank, OpenQuote, Unexpected,
        HexEscape, Escape, Literal, CloseQuote, EndOfLine, Outside, Inside
<1> QED
    BY <1>6, <1>7, <1>8, <1>9, <1>10, <1>11, <1>12 DEF Next, Finished

(* ReadBulkString and parseRoleFromInfo: queryRole returns the role that   *)
(* Redis reports, whatever the pieces in which the reply arrives, and an   *)
(* error when it breaks off anywhere.                                      *)
THEOREM RoleIsReadExactly == Spec => []RoleIsExact
<1>1. Init => RoleInv
    BY DEF Init, AskPc, RoleInv
<1>2. RoleInv => RoleIsExact
    BY DEF RoleInv, RoleIsExact
<1> QED
    BY <1>1, <1>2, RoleStep, SessionInvariant, StreamInvariant, PTL DEF Spec

-----------------------------------------------------------------------------
(* What is printed of an event: reading it back gives the arguments.       *)

Mark == "\""
Slash == "\\"

ByteWords == Seq(Bytes)

(* The reader in the word cur, after the words done.                       *)
InWord(in, done, cur) == [in |-> in, out |-> Append(done, cur)]

Longer(out, c) == [out EXCEPT ![Len(out)] = Append(@, c)]

(* A symbol more of the last word.                                         *)
LEMMA MoreOfLast ==
    ASSUME NEW A, NEW done \in Seq(A), NEW cur, NEW c, cur \in A, Append(cur, c) \in A
    PROVE  Longer(Append(done, cur), c) = Append(done, Append(cur, c))
<1> DEFINE x == Append(done, cur)
           y == Append(done, Append(cur, c))
           n == Len(done)
           z == [x EXCEPT ![Len(x)] = Append(@, c)]
<1>1. n \in Nat
    OBVIOUS
<1>2. x \in Seq(A) /\ Len(x) = n + 1 /\ (\A j \in 1..n : x[j] = done[j]) /\ x[n + 1] = cur
    BY AppendProperties
<1>3. y \in Seq(A) /\ Len(y) = n + 1 /\ (\A j \in 1..n : y[j] = done[j]) /\ y[n + 1] = Append(cur, c)
    BY AppendProperties
<1> HIDE DEF x, y, n
<1>4. DOMAIN x = 1..n + 1
    BY <1>2
<1>5. z = [j \in 1..n + 1 |-> IF j = n + 1 THEN Append(cur, c) ELSE x[j]]
    BY <1>1, <1>2, <1>4
<1> HIDE DEF z
<1>6. z \in Seq(A) /\ Len(z) = n + 1
    <2>1. \A j \in 1..n + 1 : (IF j = n + 1 THEN Append(cur, c) ELSE x[j]) \in A
        BY <1>1, <1>2
    <2> DEFINE q == n + 1
    <2>2. q \in Nat
        BY <1>1
    <2> HIDE DEF q
    <2>3. z = [j \in 1..q |-> IF j = q THEN Append(cur, c) ELSE x[j]] /\ \A j \in 1..q : (IF j = q THEN Append(cur, c) ELSE x[j]) \in A
        BY <1>5, <2>1 DEF q
    <2>4. z \in Seq(A) /\ Len(z) = q
        BY <2>2, <2>3
    <2> QED
        BY <2>4 DEF q
<1>7. \A j \in 1..Len(z) : z[j] = y[j]
    <2>1. ASSUME NEW j \in 1..n + 1 PROVE z[j] = y[j]
        <3>1. CASE j = n + 1
            BY <1>3, <1>5, <3>1
        <3>2. CASE j # n + 1
            <4>1. j \in 1..n
                BY <1>1, <3>2
            <4> QED
                BY <1>2, <1>3, <1>5, <3>2, <4>1
        <3> QED
            BY <3>1, <3>2
    <2> QED
        BY <1>6, <2>1
<1>8. z = y
    BY <1>3, <1>6, <1>7, SameSequence
<1> QED
    BY <1>8 DEF z, y, x, Longer

(* What the reader does with a symbol.                                     *)
LEMMA ReaderSteps ==
    ASSUME NEW done \in Seq(ByteWords), NEW cur \in Seq(Bytes), NEW c \in Bytes
    PROVE  /\ ReadSymbol(InWord("escape", done, cur), c) = InWord("quote", done, Append(cur, c))
           /\ c = Slash => ReadSymbol(InWord("quote", done, cur), c) = InWord("escape", done, cur)
           /\ c = Mark => ReadSymbol(InWord("quote", done, cur), c) = InWord("plain", done, cur)
           /\ c # Slash /\ c # Mark => ReadSymbol(InWord("quote", done, cur), c) = InWord("quote", done, Append(cur, c))
           /\ c = Mark => ReadSymbol(InWord("begin", done, cur), c) = InWord("quote", done, cur)
           /\ c # Blank /\ c # Mark => ReadSymbol(InWord("begin", done, cur), c) = InWord("plain", done, Append(cur, c))
           /\ c # Blank /\ c # Mark => ReadSymbol(InWord("plain", done, cur), c) = InWord("plain", done, Append(cur, c))
<1> DEFINE out == Append(done, cur)
           more == [out EXCEPT ![Len(out)] = Append(@, c)]
<1>1. Append(cur, c) \in Seq(Bytes)
    BY AppendProperties
<1>2. more = Append(done, Append(cur, c))
    <2>1. cur \in ByteWords /\ Append(cur, c) \in ByteWords
        BY <1>1 DEF ByteWords
    <2>2. Longer(Append(done, cur), c) = Append(done, Append(cur, c))
        BY <2>1, MoreOfLast
    <2> QED
        BY <2>2 DEF Longer
<1>3. \A x : InWord(x, done, cur).in = x /\ InWord(x, done, cur).out = out
    BY DEF InWord
<1> HIDE DEF out
<1>4. ASSUME NEW x, NEW st, st.in = x, st.out = out
      PROVE  /\ x = "escape" => ReadSymbol(st, c) = [in |-> "quote", out |-> more]
             /\ x = "quote" /\ c = Slash => ReadSymbol(st, c) = [in |-> "escape", out |-> out]
             /\ x = "quote" /\ c = Mark => ReadSymbol(st, c) = [in |-> "plain", out |-> out]
             /\ x = "quote" /\ c # Slash /\ c # Mark => ReadSymbol(st, c) = [in |-> "quote", out |-> more]
             /\ x = "begin" /\ c = Mark => ReadSymbol(st, c) = [in |-> "quote", out |-> out]
             /\ x \in {"begin", "plain"} /\ c # Blank /\ c # Mark => ReadSymbol(st, c) = [in |-> "plain", out |-> more]
    <2>1. ASSUME x = "escape" PROVE ReadSymbol(st, c) = [in |-> "quote", out |-> more]
        BY <1>4, <2>1, Zenon DEF ReadSymbol
    <2>2. ASSUME x = "quote", c = Slash PROVE ReadSymbol(st, c) = [in |-> "escape", out |-> out]
        BY <1>4, <2>2, Zenon DEF ReadSymbol, Slash
    <2>3. ASSUME x = "quote", c = Mark PROVE ReadSymbol(st, c) = [in |-> "plain", out |-> out]
        BY <1>4, <2>3, Zenon DEF ReadSymbol, Mark
    <2>4. ASSUME x = "quote", c # Slash, c # Mark PROVE ReadSymbol(st, c) = [in |-> "quote", out |-> more]
        BY <1>4, <2>4, Zenon DEF ReadSymbol, Mark, Slash
    <2>5. ASSUME x = "begin", c = Mark PROVE ReadSymbol(st, c) = [in |-> "quote", out |-> out]
        BY <1>4, <2>5, Zenon DEF ReadSymbol, Mark
    <2>6. ASSUME x \in {"begin", "plain"}, c # Blank, c # Mark PROVE ReadSymbol(st, c) = [in |-> "plain", out |-> more]
        BY <1>4, <2>6, Zenon DEF ReadSymbol, Mark, Blank
    <2> QED
        BY <2>1, <2>2, <2>3, <2>4, <2>5, <2>6, Zenon
<1> HIDE DEF more
<1>5. ReadSymbol(InWord("escape", done, cur), c) = InWord("quote", done, Append(cur, c))
    BY <1>2, <1>3, <1>4, Zenon DEF InWord
<1>6. c = Slash => ReadSymbol(InWord("quote", done, cur), c) = InWord("escape", done, cur)
    BY <1>3, <1>4, Zenon DEF InWord, out
<1>7. c = Mark => ReadSymbol(InWord("quote", done, cur), c) = InWord("plain", done, cur)
    BY <1>3, <1>4, Zenon DEF InWord, out
<1>8. c # Slash /\ c # Mark => ReadSymbol(InWord("quote", done, cur), c) = InWord("quote", done, Append(cur, c))
    BY <1>2, <1>3, <1>4, Zenon DEF InWord
<1>9. c = Mark => ReadSymbol(InWord("begin", done, cur), c) = InWord("quote", done, cur)
    BY <1>3, <1>4, Zenon DEF InWord, out
<1>10. c # Blank /\ c # Mark => ReadSymbol(InWord("begin", done, cur), c) = InWord("plain", done, Append(cur, c))
    BY <1>2, <1>3, <1>4, Zenon DEF InWord
<1>11. c # Blank /\ c # Mark => ReadSymbol(InWord("plain", done, cur), c) = InWord("plain", done, Append(cur, c))
    BY <1>2, <1>3, <1>4, Zenon DEF InWord
<1> QED
    BY <1>5, <1>6, <1>7, <1>8, <1>9, <1>10, <1>11, Zenon

(* A blank begins a word.                                                  *)
LEMMA ReaderBegins ==
    ASSUME NEW out, NEW x \in {"begin", "plain"}
    PROVE  ReadSymbol([in |-> x, out |-> out], Blank) = InWord("begin", out, <<>>)
<1> DEFINE st == [in |-> x, out |-> out]
<1>1. st.in = x /\ st.out = out
    OBVIOUS
<1> HIDE DEF st
<1>2. ReadSymbol(st, Blank) = [in |-> "begin", out |-> Append(out, <<>>)]
    BY <1>1, Zenon DEF ReadSymbol, Blank
<1> QED
    BY <1>2, Zenon DEF st, InWord

(* The reader over the first n symbols of t.                               *)
Begin == [in |-> "plain", out |-> <<>>]

ReadUpTo(st, t, n) == st = [k \in 0..n |-> IF k = 0 THEN Begin ELSE ReadSymbol(st[k - 1], t[k])]

(* One symbol more can always be read.                                     *)
LEMMA ReadOneMore ==
    ASSUME NEW t, NEW m \in Nat \ {0}, NEW g, ReadUpTo(g, t, m - 1)
    PROVE  \E h : ReadUpTo(h, t, m)
<1> DEFINE last == ReadSymbol(g[m - 1], t[m])
           h == [k \in 0..m |-> IF k = m THEN last ELSE g[k]]
<1>1. ASSUME NEW k \in 0..m
      PROVE  h[k] = IF k = 0 THEN Begin ELSE ReadSymbol(h[k - 1], t[k])
    <2>1. CASE k = m
        <3>1. k # 0 /\ k - 1 \in 0..m /\ k - 1 # m
            BY <2>1
        <3> QED
            BY <2>1, <3>1
    <2>2. CASE k # m
        <3>1. k \in 0..m - 1 /\ (k # 0 => k - 1 \in 0..m /\ k - 1 # m)
            BY <2>2
        <3>2. g[k] = IF k = 0 THEN Begin ELSE ReadSymbol(g[k - 1], t[k])
            BY <3>1 DEF ReadUpTo
        <3> QED
            BY <2>2, <3>1, <3>2
    <2> QED
        BY <2>1, <2>2
<1>2. h = [k \in 0..m |-> h[k]]
    OBVIOUS
<1> HIDE DEF h
<1>3. h = [k \in 0..m |-> IF k = 0 THEN Begin ELSE ReadSymbol(h[k - 1], t[k])]
    BY <1>1, <1>2
<1> QED
    BY <1>3 DEF ReadUpTo

(* So all of a text can be read.                                           *)
LEMMA ReadExists == ASSUME NEW t, NEW n \in Nat PROVE \E st : ReadUpTo(st, t, n)
<1> DEFINE S == {k \in Nat : ~\E st : ReadUpTo(st, t, k)}
<1> SUFFICES ASSUME S # {} PROVE FALSE
    OBVIOUS
<1> DEFINE m == Min(S)
<1>1. m \in S /\ \A y \in S : m <= y
    BY MinOfNat
<1> HIDE DEF m
<1>2. ReadUpTo([k \in 0..0 |-> Begin], t, 0)
    BY DEF ReadUpTo
<1>3. m # 0
    BY <1>1, <1>2
<1>4. m - 1 \in Nat /\ m - 1 \notin S
    BY <1>1, <1>3
<1> QED
    BY <1>1, <1>3, <1>4, ReadOneMore

(* ReadArgs is what it has then.                                           *)
LEMMA ReadArgsReads ==
    ASSUME NEW t, Len(t) \in Nat
    PROVE  \E st : ReadUpTo(st, t, Len(t)) /\ ReadArgs(t) = st[Len(t)].out
<1> DEFINE f == CHOOSE st : st = [k \in 0..Len(t) |-> IF k = 0 THEN [in |-> "plain", out |-> <<>>] ELSE ReadSymbol(st[k - 1], t[k])]
<1>1. ReadArgs(t) = f[Len(t)].out
    BY DEF ReadArgs
<1>2. \E st : st = [k \in 0..Len(t) |-> IF k = 0 THEN [in |-> "plain", out |-> <<>>] ELSE ReadSymbol(st[k - 1], t[k])]
    BY ReadExists DEF ReadUpTo, Begin
<1>3. f = [k \in 0..Len(t) |-> IF k = 0 THEN [in |-> "plain", out |-> <<>>] ELSE ReadSymbol(f[k - 1], t[k])]
    BY <1>2, Zenon
<1> QED
    BY <1>1, <1>3 DEF ReadUpTo, Begin

(* The reader goes from symbol to symbol.                                  *)
Follows(st, t) == \A k \in 1..Len(t) : st[k] = ReadSymbol(st[k - 1], t[k])

(* The text u is in t, after the first p symbols.                          *)
Holds(t, p, u) == p + Len(u) <= Len(t) /\ \A j \in 1..Len(u) : t[p + j] = u[j]

(* It reads one symbol.                                                    *)
LEMMA ReadAt ==
    ASSUME NEW A, NEW t \in Seq(A), NEW st, Follows(st, t), NEW p \in Nat, NEW u \in Seq(A), Holds(t, p, u), NEW j \in 1..Len(u)
    PROVE  st[p + j] = ReadSymbol(st[(p + j) - 1], u[j]) /\ u[j] \in A
<1>1. Len(u) \in Nat /\ Len(t) \in Nat /\ u[j] \in A
    OBVIOUS
<1>2. p + Len(u) <= Len(t) /\ t[p + j] = u[j]
    BY DEF Holds
<1>3. p + j \in 1..Len(t)
    BY <1>1, <1>2
<1> DEFINE k == p + j
<1>4. k \in 1..Len(t) /\ t[k] = u[j]
    BY <1>2, <1>3
<1> HIDE DEF k
<1>5. st[k] = ReadSymbol(st[k - 1], t[k])
    BY <1>4 DEF Follows
<1>6. st[k] = ReadSymbol(st[k - 1], u[j])
    BY <1>4, <1>5
<1> QED
    BY <1>1, <1>6 DEF k

IsPlain(w) == \A j \in 1..Len(w) : w[j] # Blank /\ w[j] # Mark

(* A word that is printed as it is.                                        *)
LEMMA PlainRead ==
    ASSUME NEW t \in Seq(Bytes), NEW st, Follows(st, t), NEW p \in Nat, NEW w \in Seq(Bytes), Holds(t, p, w), IsPlain(w),
           NEW done \in Seq(ByteWords), st[p] = InWord("begin", done, <<>>)
    PROVE  \E x \in {"begin", "plain"} : st[p + Len(w)] = InWord(x, done, w)
<1> DEFINE At(j) == \E x \in {"begin", "plain"} : st[p + j] = InWord(x, done, SubSeq(w, 1, j))
           S == {j \in 0..Len(w) : ~At(j)}
<1>1. Len(w) \in Nat /\ SubSeq(w, 1, 0) = <<>> /\ SubSeq(w, 1, Len(w)) = w
    BY FirstElements
<1>2. \A n \in 1..Len(w) : Append(SubSeq(w, 1, n - 1), w[n]) = SubSeq(w, 1, n)
    BY FirstElements
<1>3. S = {}
    <2> SUFFICES ASSUME S # {} PROVE FALSE
        OBVIOUS
    <2>0. S \subseteq Nat
        BY <1>1
    <2> DEFINE m == Min(S)
    <2>1. m \in S /\ \A y \in S : m <= y
        BY <2>0, MinOfNat
    <2> HIDE DEF m
    <2>2. At(0)
        <3>0. p + 0 = p
            OBVIOUS
        <3>1. st[p + 0] = InWord("begin", done, SubSeq(w, 1, 0))
            BY <1>1, <3>0, Zenon
        <3> QED
            BY <3>1
    <2>3. m # 0
        BY <2>1, <2>2
    <2>4. m \in 1..Len(w) /\ m - 1 \in 0..Len(w) /\ m - 1 \notin S /\ ~At(m)
        BY <1>1, <2>1, <2>3
    <2> DEFINE cur == SubSeq(w, 1, m - 1)
    <2>5. PICK x \in {"begin", "plain"} : st[p + (m - 1)] = InWord(x, done, cur)
        BY <2>4
    <2>6. st[p + m] = ReadSymbol(st[(p + m) - 1], w[m]) /\ w[m] \in Bytes
        BY <2>4, ReadAt
    <2>7. p + (m - 1) = (p + m) - 1
        BY <1>1, <2>4
    <2>8. w[m] # Blank /\ w[m] # Mark
        BY <2>4 DEF IsPlain
    <2>9. cur \in Seq(Bytes)
        <3>1. \A k \in 1..m - 1 : w[k] \in Bytes
            BY <1>1, <2>4
        <3>2. m - 1 \in Int
            BY <1>1, <2>4
        <3> QED
            BY <3>1, <3>2, SubSeqProperties
    <2>10. Append(cur, w[m]) = SubSeq(w, 1, m)
        BY <1>2, <2>4
    <2> HIDE DEF cur
    <2>11. st[p + m] = ReadSymbol(InWord(x, done, cur), w[m])
        BY <2>5, <2>6, <2>7
    <2>12. ReadSymbol(InWord(x, done, cur), w[m]) = InWord("plain", done, Append(cur, w[m]))
        <3> DEFINE c == w[m]
        <3>1. c \in Bytes /\ c # Blank /\ c # Mark
            BY <2>6, <2>8
        <3> HIDE DEF c
        <3>2. ReadSymbol(InWord("begin", done, cur), c) = InWord("plain", done, Append(cur, c))
            BY <2>9, <3>1, ReaderSteps
        <3>3. ReadSymbol(InWord("plain", done, cur), c) = InWord("plain", done, Append(cur, c))
            BY <2>9, <3>1, ReaderSteps
        <3>4. x = "begin" \/ x = "plain"
            BY <2>5
        <3> QED
            BY <3>2, <3>3, <3>4, Zenon DEF c
    <2>13. At(m)
        <3>1. st[p + m] = InWord("plain", done, SubSeq(w, 1, m))
            BY <2>10, <2>11, <2>12, Zenon
        <3> QED
            BY <3>1
    <2> QED
        BY <2>4, <2>13
<1>4. At(Len(w))
    <2>1. Len(w) \in 0..Len(w)
        BY <1>1
    <2>2. \A j \in 0..Len(w) : At(j)
        <3> HIDE DEF At
        <3> QED
            BY <1>3, Zenon
    <2> QED
        BY <2>1, <2>2, Zenon
<1> QED
    BY <1>1, <1>4, Zenon

(* Between quotes: a quote and a backslash get a backslash before them.    *)
Doubled(c) == IF c \in {"\"", "\\"} THEN <<"\\", c>> ELSE <<c>>

(* A symbol between quotes.                                                *)
LEMMA DoubledForms ==
    ASSUME NEW c \in Bytes
    PROVE  /\ Doubled(c) \in Seq(Bytes) /\ Len(Doubled(c)) \in Nat
           /\ \/ Len(Doubled(c)) = 2 /\ Doubled(c)[1] = Slash /\ Doubled(c)[2] = c
              \/ Len(Doubled(c)) = 1 /\ Doubled(c)[1] = c /\ c # Mark /\ c # Slash
<1>s. Slash \in Bytes
    BY DEF Bytes, Slash
<1>1. CASE c \in {"\"", "\\"}
    <2>1. Doubled(c) = <<Slash, c>>
        BY <1>1, Zenon DEF Doubled, Slash
    <2>2. <<Slash, c>> \in Seq(Bytes) /\ Len(<<Slash, c>>) = 2 /\ <<Slash, c>>[1] = Slash /\ <<Slash, c>>[2] = c
        BY <1>s
    <2> DEFINE d == Doubled(c)
    <2>3. d \in Seq(Bytes) /\ Len(d) = 2 /\ d[1] = Slash /\ d[2] = c
        BY <2>1, <2>2, Zenon
    <2> HIDE DEF d
    <2>4. Len(d) \in Nat
        BY <2>3
    <2> QED
        BY <2>3, <2>4, Zenon DEF d
<1>2. CASE c \notin {"\"", "\\"}
    <2>1. Doubled(c) = <<c>>
        BY <1>2, Zenon DEF Doubled
    <2>2. <<c>> \in Seq(Bytes) /\ Len(<<c>>) = 1 /\ <<c>>[1] = c
        OBVIOUS
    <2> DEFINE d == Doubled(c)
    <2>3. d \in Seq(Bytes) /\ Len(d) = 1 /\ d[1] = c
        BY <2>1, <2>2, Zenon
    <2>4. c # Mark /\ c # Slash
        BY <1>2, Zenon DEF Mark, Slash
    <2> HIDE DEF d
    <2>5. Len(d) \in Nat
        BY <2>3
    <2> QED
        BY <2>3, <2>4, <2>5, Zenon DEF d
<1> QED
    BY <1>1, <1>2, Zenon

(* Between quotes the reader undoes that.                                  *)
LEMMA DoubledRead ==
    ASSUME NEW t \in Seq(Bytes), NEW st, Follows(st, t), NEW p \in Nat, NEW c \in Bytes, Holds(t, p, Doubled(c)),
           NEW done \in Seq(ByteWords), NEW cur \in Seq(Bytes), st[p] = InWord("quote", done, cur)
    PROVE  st[p + Len(Doubled(c))] = InWord("quote", done, Append(cur, c))
<1> DEFINE u == Doubled(c)
<1>1. /\ u \in Seq(Bytes) /\ Len(u) \in Nat
      /\ \/ Len(u) = 2 /\ u[1] = Slash /\ u[2] = c
         \/ Len(u) = 1 /\ u[1] = c /\ c # Mark /\ c # Slash
    BY DoubledForms
<1>2. Holds(t, p, u)
    OBVIOUS
<1> HIDE DEF u
<1>3. (p + 1) - 1 = p /\ (p + 2) - 1 = p + 1
    OBVIOUS
<1>4. CASE Len(u) = 2 /\ u[1] = Slash /\ u[2] = c
    <2>1. 1 \in 1..Len(u) /\ 2 \in 1..Len(u)
        BY <1>4
    <2>2. st[p + 1] = ReadSymbol(st[(p + 1) - 1], u[1]) /\ u[1] \in Bytes
        BY <1>1, <1>2, <2>1, ReadAt
    <2>3. st[p + 2] = ReadSymbol(st[(p + 2) - 1], u[2])
        BY <1>1, <1>2, <2>1, ReadAt
    <2>4. Slash \in Bytes
        BY <1>4, <2>2
    <2>5. ReadSymbol(InWord("quote", done, cur), Slash) = InWord("escape", done, cur)
        BY <2>4, ReaderSteps
    <2>6. ReadSymbol(InWord("escape", done, cur), c) = InWord("quote", done, Append(cur, c))
        BY ReaderSteps
    <2>7. st[p + 1] = InWord("escape", done, cur)
        BY <1>3, <1>4, <2>2, <2>5, Zenon
    <2>8. st[p + 2] = InWord("quote", done, Append(cur, c))
        BY <1>3, <1>4, <2>3, <2>6, <2>7, Zenon
    <2> QED
        BY <1>4, <2>8, Zenon DEF u
<1>5. CASE Len(u) = 1 /\ u[1] = c /\ c # Mark /\ c # Slash
    <2>1. 1 \in 1..Len(u)
        BY <1>5
    <2>2. st[p + 1] = ReadSymbol(st[(p + 1) - 1], u[1])
        BY <1>1, <1>2, <2>1, ReadAt
    <2>3. ReadSymbol(InWord("quote", done, cur), c) = InWord("quote", done, Append(cur, c))
        BY <1>5, ReaderSteps
    <2>4. st[p + 1] = InWord("quote", done, Append(cur, c))
        BY <1>3, <1>5, <2>2, <2>3, Zenon
    <2> QED
        BY <1>5, <2>4, Zenon DEF u
<1> QED
    BY <1>1, <1>4, <1>5

(* A part of a part.                                                       *)
LEMMA PartOfPart ==
    ASSUME NEW A, NEW t \in Seq(A), NEW u \in Seq(A), NEW v \in Seq(A), NEW p \in Nat, NEW q \in Nat,
           Holds(t, p, u), Holds(u, q, v)
    PROVE  Holds(t, p + q, v)
<1> DEFINE a == Len(u)
           b == Len(v)
           n == Len(t)
<1>1. a \in Nat /\ b \in Nat /\ n \in Nat
    OBVIOUS
<1>2. p + a <= n /\ q + b <= a /\ (\A j \in 1..a : t[p + j] = u[j]) /\ \A j \in 1..b : u[q + j] = v[j]
    BY DEF Holds
<1> HIDE DEF a, b, n
<1>3. (p + q) + b <= n
    BY <1>1, <1>2
<1>4. ASSUME NEW j \in 1..b PROVE t[(p + q) + j] = v[j]
    <2>1. q + j \in 1..a /\ (p + q) + j = p + (q + j)
        BY <1>1, <1>2
    <2> QED
        BY <1>2, <2>1
<1> QED
    BY <1>3, <1>4 DEF Holds, b, n

(* The parts of a sequence put together from parts.                        *)
LEMMA FlattenHolds ==
    ASSUME NEW A, NEW w \in Seq(Seq(A))
    PROVE  /\ FlattenSeq(w) \in Seq(A)
           /\ \E off : /\ Offsets(w, off) /\ Len(FlattenSeq(w)) = off[Len(w)]
                       /\ \A k \in 1..Len(w) : Holds(FlattenSeq(w), off[k - 1], w[k])
<1> DEFINE f == FlattenSeq(w)
           n == Len(w)
<1>1. f \in Seq(A) /\ \E off : Offsets(w, off) /\ Laid(f, w, n, off)
    BY FlattenLaid
<1>2. n \in Nat /\ \A k \in 1..n : w[k] \in Seq(A)
    OBVIOUS
<1> HIDE DEF f
<1>3. PICK off : Offsets(w, off) /\ Laid(f, w, n, off)
    BY <1>1
<1>4. off \in [0..n -> Nat] /\ Len(f) = off[n]
    BY <1>3 DEF Offsets, Laid
<1>5. ASSUME NEW k \in 1..n PROVE Holds(f, off[k - 1], w[k])
    <2>1. k \in 0..n /\ k - 1 \in 0..n /\ n \in k..n
        BY <1>2
    <2>2. off[k] <= off[n]
        BY <1>3, <2>1, OffsetsGrow
    <2>3. off[k] = off[k - 1] + Len(w[k])
        BY <1>3 DEF Offsets
    <2>4. \A j \in 1..Len(w[k]) : f[off[k - 1] + j] = w[k][j]
        BY <1>3 DEF Laid
    <2>5. off[k - 1] + Len(w[k]) <= Len(f)
        BY <1>4, <2>2, <2>3
    <2> QED
        BY <2>4, <2>5 DEF Holds
<1> QED
    BY <1>1, <1>3, <1>4, <1>5 DEF f

(* A word between quotes.                                                  *)
Doubles(w) == [k \in DOMAIN w |-> Doubled(w[k])]
InQuotes(w) == (<<Mark>> \o FlattenSeq(Doubles(w))) \o <<Mark>>

QuotedAt(u, w, off) ==
    /\ Offsets(Doubles(w), off)
    /\ Len(u) = off[Len(w)] + 2 /\ u[1] = Mark /\ u[off[Len(w)] + 2] = Mark
    /\ \A k \in 1..Len(w) : Holds(u, 1 + off[k - 1], Doubled(w[k]))

(* Where its symbols are.                                                  *)
LEMMA QuotedParts ==
    ASSUME NEW w \in Seq(Bytes)
    PROVE  /\ InQuotes(w) \in Seq(Bytes) /\ Doubles(w) \in Seq(Seq(Bytes)) /\ Len(Doubles(w)) = Len(w)
           /\ \E off : QuotedAt(InQuotes(w), w, off)
<1> DEFINE W == Doubles(w)
           F == FlattenSeq(W)
           x == <<Mark>> \o F
           u == x \o <<Mark>>
           n == Len(w)
<1>1. n \in Nat /\ DOMAIN w = 1..n /\ \A k \in 1..n : w[k] \in Bytes
    OBVIOUS
<1>2. W \in Seq(Seq(Bytes)) /\ Len(W) = n
    <2>1. \A k \in 1..n : Doubled(w[k]) \in Seq(Bytes)
        BY <1>1, DoubledForms
    <2> QED
        BY <1>1, <2>1 DEF Doubles
<1>3. \A k \in 1..n : W[k] = Doubled(w[k])
    BY <1>1 DEF Doubles
<1>4. Mark \in Bytes
    BY DEF Bytes, Mark
<1> HIDE DEF W
<1>5. F \in Seq(Bytes) /\ \E off : /\ Offsets(W, off) /\ Len(F) = off[Len(W)]
                                  /\ \A k \in 1..Len(W) : Holds(F, off[k - 1], W[k])
    BY <1>2, FlattenHolds
<1>6. PICK off : Offsets(W, off) /\ Len(F) = off[n] /\ \A k \in 1..n : Holds(F, off[k - 1], W[k])
    BY <1>2, <1>5
<1> HIDE DEF F
<1>7. x \in Seq(Bytes) /\ Len(F) \in Nat /\ Len(x) = Len(F) + 1 /\ x[1] = Mark /\ \A p \in 1..Len(F) : x[p + 1] = F[p]
    BY <1>4, <1>5, Prefixed
<1> HIDE DEF x
<1>8. u \in Seq(Bytes) /\ Len(u) = Len(x) + 1 /\ u[Len(x) + 1] = Mark /\ \A p \in 1..Len(x) : u[p] = x[p]
    BY <1>4, <1>7, Suffixed
<1> HIDE DEF u
<1>9. Len(u) = off[n] + 2 /\ u[1] = Mark /\ u[off[n] + 2] = Mark
    <2> DEFINE a == Len(F)
               b == Len(x)
    <2>1. a \in Nat /\ b = a + 1 /\ off[n] = a
        BY <1>6, <1>7
    <2>2. Len(u) = b + 1 /\ u[b + 1] = Mark /\ \A p \in 1..b : u[p] = x[p]
        BY <1>8
    <2> HIDE DEF a, b
    <2>3. b + 1 = off[n] + 2 /\ 1 \in 1..b
        BY <2>1
    <2>4. u[1] = x[1]
        BY <2>2, <2>3
    <2> QED
        BY <1>7, <2>2, <2>3, <2>4
<1>10. Holds(u, 1, F)
    <2>1. 1 + Len(F) <= Len(u)
        BY <1>7, <1>8
    <2>2. ASSUME NEW j \in 1..Len(F) PROVE u[1 + j] = F[j]
        <3>1. j + 1 \in 1..Len(x) /\ j + 1 = 1 + j
            BY <1>7
        <3> QED
            BY <1>7, <1>8, <3>1
    <2> QED
        BY <2>1, <2>2 DEF Holds
<1>11. ASSUME NEW k \in 1..n PROVE Holds(u, 1 + off[k - 1], Doubled(w[k]))
    <2> DEFINE q == off[k - 1]
               v == W[k]
    <2>1. q \in Nat
        <3>1. k - 1 \in 0..n /\ off \in [0..n -> Nat]
            BY <1>1, <1>2, <1>6 DEF Offsets
        <3> QED
            BY <3>1
    <2>2. v \in Seq(Bytes) /\ Holds(F, q, v) /\ v = Doubled(w[k])
        BY <1>2, <1>3, <1>6
    <2> HIDE DEF q, v
    <2>3. Holds(u, 1 + q, v)
        BY <1>5, <1>8, <1>10, <2>1, <2>2, PartOfPart
    <2> QED
        BY <2>2, <2>3 DEF q
<1>12. QuotedAt(u, w, off)
    BY <1>6, <1>9, <1>11 DEF QuotedAt, W
<1>13. u = InQuotes(w)
    BY DEF u, x, F, W, InQuotes
<1> QED
    BY <1>2, <1>8, <1>12, <1>13 DEF W

(* A word that is printed between quotes.                                  *)
LEMMA QuotedRead ==
    ASSUME NEW t \in Seq(Bytes), NEW st, Follows(st, t), NEW p \in Nat, NEW w \in Seq(Bytes), Holds(t, p, InQuotes(w)),
           NEW done \in Seq(ByteWords), st[p] = InWord("begin", done, <<>>)
    PROVE  st[p + Len(InQuotes(w))] = InWord("plain", done, w)
<1> DEFINE u == InQuotes(w)
           n == Len(w)
<1>1. n \in Nat /\ SubSeq(w, 1, 0) = <<>> /\ SubSeq(w, 1, n) = w
    BY FirstElements
<1>2. \A k \in 1..n : Append(SubSeq(w, 1, k - 1), w[k]) = SubSeq(w, 1, k)
    BY FirstElements
<1>3. u \in Seq(Bytes) /\ Len(Doubles(w)) = n /\ \E off : QuotedAt(u, w, off)
    BY QuotedParts
<1>4. Holds(t, p, u)
    OBVIOUS
<1> HIDE DEF u
<1>5. PICK off : QuotedAt(u, w, off)
    BY <1>3
<1>6. off \in [0..n -> Nat] /\ off[0] = 0 /\ Len(u) = off[n] + 2 /\ u[1] = Mark /\ u[off[n] + 2] = Mark
    BY <1>3, <1>5 DEF QuotedAt, Offsets
<1>m. Mark \in Bytes
    BY DEF Bytes, Mark
<1> DEFINE At(k) == st[p + (1 + off[k])] = InWord("quote", done, SubSeq(w, 1, k))
           S == {k \in 0..n : ~At(k)}
<1>7. At(0)
    <2>1. Len(u) \in Nat /\ 0 \in 0..n /\ n \in 0..n
        BY <1>1, <1>3
    <2>2. off[n] \in Nat
        BY <1>6, <2>1
    <2>3. 1 \in 1..Len(u)
        BY <1>6, <2>1, <2>2
    <2>4. st[p + 1] = ReadSymbol(st[(p + 1) - 1], u[1])
        BY <1>3, <1>4, <2>3, ReadAt
    <2>5. (p + 1) - 1 = p /\ p + 1 = p + (1 + off[0])
        BY <1>6
    <2>6. <<>> \in Seq(Bytes)
        OBVIOUS
    <2>7. ReadSymbol(InWord("begin", done, <<>>), Mark) = InWord("quote", done, <<>>)
        BY <1>m, <2>6, ReaderSteps
    <2> QED
        BY <1>1, <1>6, <2>4, <2>5, <2>7, Zenon
<1>8. S = {}
    <2> SUFFICES ASSUME S # {} PROVE FALSE
        OBVIOUS
    <2>0. S \subseteq Nat
        BY <1>1
    <2> DEFINE m == Min(S)
    <2>1. m \in S /\ \A y \in S : m <= y
        BY <2>0, MinOfNat
    <2> HIDE DEF m
    <2>3. m # 0
        BY <1>7, <2>1
    <2>4. m \in 1..n /\ m \in 0..n /\ m - 1 \in 0..n /\ m - 1 \notin S /\ ~At(m)
        BY <1>1, <2>1, <2>3
    <2> DEFINE cur == SubSeq(w, 1, m - 1)
               c == w[m]
               q == off[m - 1]
    <2>5. st[p + (1 + q)] = InWord("quote", done, cur)
        BY <2>4, Zenon
    <2>6. c \in Bytes
        BY <2>4
    <2>7. Holds(u, 1 + q, Doubled(c))
        BY <1>5, <2>4 DEF QuotedAt
    <2>8. q \in Nat /\ off[m] = q + Len(Doubled(c))
        <3>1. q \in Nat
            BY <1>6, <2>4
        <3>2. off[m] = q + Len(Doubles(w)[m])
            BY <1>3, <1>5, <2>4 DEF QuotedAt, Offsets
        <3>3. Doubles(w)[m] = Doubled(c)
            BY <2>4 DEF Doubles
        <3> QED
            BY <3>1, <3>2, <3>3
    <2>9. cur \in Seq(Bytes)
        <3>1. \A k \in 1..m - 1 : w[k] \in Bytes
            BY <1>1, <2>4
        <3>2. m - 1 \in Int
            BY <1>1, <2>4
        <3> QED
            BY <3>1, <3>2, SubSeqProperties
    <2>10. Append(cur, c) = SubSeq(w, 1, m)
        BY <1>2, <2>4
    <2> HIDE DEF cur, c, q
    <2>11. Doubled(c) \in Seq(Bytes) /\ Len(Doubled(c)) \in Nat
        BY <2>6, DoubledForms
    <2> DEFINE a == 1 + q
               b == p + a
    <2>12. a \in Nat /\ b \in Nat /\ Holds(u, a, Doubled(c)) /\ st[b] = InWord("quote", done, cur)
        BY <2>5, <2>7, <2>8
    <2>13. Holds(t, b, Doubled(c))
        <3> HIDE DEF a
        <3> QED
            BY <1>3, <1>4, <2>11, <2>12, PartOfPart
    <2> HIDE DEF b
    <2>14. st[b + Len(Doubled(c))] = InWord("quote", done, Append(cur, c))
        BY <2>6, <2>9, <2>12, <2>13, DoubledRead
    <2>15. b + Len(Doubled(c)) = p + (1 + off[m])
        BY <2>8, <2>11 DEF a, b
    <2>16. At(m)
        BY <2>10, <2>14, <2>15, Zenon
    <2> QED
        BY <2>4, <2>16
<1>9. At(n)
    <2>1. n \in 0..n
        BY <1>1
    <2>2. \A k \in 0..n : At(k)
        <3> HIDE DEF At
        <3> QED
            BY <1>8, Zenon
    <2> QED
        BY <2>1, <2>2, Zenon
<1> DEFINE e == off[n]
           z == e + 2
<1>10. e \in Nat
    <2>1. n \in 0..n
        BY <1>1
    <2> QED
        BY <1>6, <2>1
<1> HIDE DEF e
<1>11. z \in 1..Len(u) /\ Len(u) = z /\ (p + z) - 1 = p + (1 + e)
    BY <1>6, <1>10, SMTT(30) DEF e
<1>12. st[p + z] = ReadSymbol(st[(p + z) - 1], u[z])
    <2>1. z \in 1..Len(u) /\ u \in Seq(Bytes)
        BY <1>3, <1>11
    <2> HIDE DEF z
    <2> QED
        BY <1>4, <2>1, ReadAt
<1>13. st[(p + z) - 1] = InWord("quote", done, w) /\ u[z] = Mark
    BY <1>1, <1>6, <1>9, <1>11, Zenon DEF e
<1> HIDE DEF z
<1>14. ReadSymbol(InWord("quote", done, w), Mark) = InWord("plain", done, w)
    BY <1>m, ReaderSteps
<1> QED
    BY <1>11, <1>12, <1>13, <1>14, Zenon DEF u

(* quoteText prints a word as it is or between quotes.                     *)
LEMMA QuoteTextForms ==
    ASSUME NEW w \in Seq(Bytes)
    PROVE  (QuoteText(w) = w /\ IsPlain(w)) \/ QuoteText(w) = InQuotes(w)
<1> DEFINE X == {" ", "TAB", "NL", "CR", "\""}
<1>1. CASE ToSet(w) \cap X = {}
    <2>1. QuoteText(w) = w
        BY <1>1, Zenon DEF QuoteText, NeedsQuotes
    <2>2. ASSUME NEW j \in 1..Len(w) PROVE w[j] # Blank /\ w[j] # Mark
        <3>1. j \in DOMAIN w
            OBVIOUS
        <3>2. w[j] \in ToSet(w)
            BY <3>1 DEF ToSet
        <3>3. w[j] \notin X
            BY <1>1, <3>2, Zenon
        <3> QED
            BY <3>3, Zenon DEF Blank, Mark
    <2> QED
        BY <2>1, <2>2, Zenon DEF IsPlain
<1>2. CASE ToSet(w) \cap X # {}
    <2>1. QuoteText(w) = InQuotes(w)
        BY <1>2, Zenon DEF QuoteText, NeedsQuotes, InQuotes, Doubles, Doubled, Mark
    <2> QED
        BY <2>1, Zenon
<1> QED
    BY <1>1, <1>2, Zenon

(* Either way it is read back.                                             *)
LEMMA WordRead ==
    ASSUME NEW t \in Seq(Bytes), NEW st, Follows(st, t), NEW p \in Nat, NEW w \in Seq(Bytes), Holds(t, p, QuoteText(w)),
           NEW done \in Seq(ByteWords), st[p] = InWord("begin", done, <<>>)
    PROVE  \E x \in {"begin", "plain"} : st[p + Len(QuoteText(w))] = InWord(x, done, w)
<1>1. CASE QuoteText(w) = w /\ IsPlain(w)
    <2>1. Holds(t, p, w) /\ IsPlain(w)
        BY <1>1
    <2>2. \E x \in {"begin", "plain"} : st[p + Len(w)] = InWord(x, done, w)
        BY <2>1, PlainRead
    <2> QED
        BY <1>1, <2>2, Zenon
<1>2. CASE QuoteText(w) = InQuotes(w)
    <2>1. Holds(t, p, InQuotes(w))
        BY <1>2
    <2>2. st[p + Len(InQuotes(w))] = InWord("plain", done, w)
        BY <2>1, QuotedRead
    <2> QED
        BY <1>2, <2>2, Zenon
<1> QED
    BY <1>1, <1>2, QuoteTextForms

(* What is printed of one argument.                                        *)
WithBlank(w) == <<Blank>> \o QuoteText(w)

(* A blank, then the word.                                                 *)
LEMMA ArgText ==
    ASSUME NEW w \in Seq(Bytes)
    PROVE  /\ QuoteText(w) \in Seq(Bytes) /\ WithBlank(w) \in Seq(Bytes)
           /\ Len(WithBlank(w)) = 1 + Len(QuoteText(w)) /\ WithBlank(w)[1] = Blank
           /\ Holds(WithBlank(w), 1, QuoteText(w))
<1> DEFINE F == QuoteText(w)
           x == WithBlank(w)
<1>1. F \in Seq(Bytes)
    <2>1. InQuotes(w) \in Seq(Bytes)
        BY QuotedParts
    <2> QED
        BY <2>1, QuoteTextForms
<1>2. Blank \in Bytes
    BY DEF Bytes, Blank
<1>3. x = <<Blank>> \o F
    BY DEF WithBlank
<1> HIDE DEF F, x
<1>4. x \in Seq(Bytes) /\ Len(F) \in Nat /\ Len(x) = Len(F) + 1 /\ x[1] = Blank /\ \A p \in 1..Len(F) : x[p + 1] = F[p]
    BY <1>1, <1>2, <1>3, Prefixed
<1>5. Holds(x, 1, F)
    <2>1. 1 + Len(F) <= Len(x)
        BY <1>4
    <2>2. ASSUME NEW j \in 1..Len(F) PROVE x[1 + j] = F[j]
        <3>1. j + 1 = 1 + j
            BY <1>4
        <3> QED
            BY <1>4, <3>1
    <2> QED
        BY <2>1, <2>2 DEF Holds
<1>6. Len(x) = 1 + Len(F)
    BY <1>4
<1> QED
    BY <1>1, <1>4, <1>5, <1>6 DEF F, x

(* The reader after the arguments out.                                     *)
ReaderHas(x, out) == [in |-> x, out |-> out]

(* It is read as one argument more.                                        *)
LEMMA ArgRead ==
    ASSUME NEW t \in Seq(Bytes), NEW st, Follows(st, t), NEW p \in Nat, NEW w \in Seq(Bytes), Holds(t, p, WithBlank(w)),
           NEW done \in Seq(ByteWords), NEW x \in {"begin", "plain"}, st[p] = ReaderHas(x, done)
    PROVE  \E y \in {"begin", "plain"} : st[p + Len(WithBlank(w))] = InWord(y, done, w)
<1> DEFINE u == WithBlank(w)
           q == QuoteText(w)
           a == p + 1
<1>1. q \in Seq(Bytes) /\ u \in Seq(Bytes) /\ Len(u) = 1 + Len(q) /\ u[1] = Blank /\ Holds(u, 1, q) /\ Holds(t, p, u)
    BY ArgText
<1> HIDE DEF u, q
<1>2. Len(q) \in Nat
    BY <1>1
<1>3. 1 \in 1..Len(u) /\ (p + 1) - 1 = p /\ a \in Nat /\ a + Len(q) = p + Len(u)
    BY <1>1, <1>2
<1>4. st[p + 1] = ReadSymbol(st[(p + 1) - 1], u[1])
    BY <1>1, <1>3, ReadAt
<1>5. ReadSymbol([in |-> x, out |-> done], Blank) = InWord("begin", done, <<>>)
    BY ReaderBegins
<1>6. st[a] = InWord("begin", done, <<>>)
    BY <1>1, <1>3, <1>4, <1>5, Zenon DEF ReaderHas
<1>7. Holds(t, a, q)
    <2>1. 1 \in Nat
        OBVIOUS
    <2>2. Holds(t, p + 1, q)
        BY <1>1, <2>1, PartOfPart
    <2> QED
        BY <2>2
<1> HIDE DEF a
<1>8. \E y \in {"begin", "plain"} : st[a + Len(q)] = InWord(y, done, w)
    BY <1>3, <1>6, <1>7, WordRead DEF q
<1> QED
    BY <1>3, <1>8, Zenon DEF u

(* An argument more after those that are there.                            *)
LEMMA OneMoreAfter ==
    ASSUME NEW done \in Seq(ByteWords), NEW a \in Seq(ByteWords), NEW c \in ByteWords
    PROVE  Append(done \o a, c) = done \o Append(a, c)
<1>1. done \o a \in Seq(ByteWords) /\ <<c>> \in Seq(ByteWords)
    BY ConcatProperties, Tuples
<1>2. Append(done \o a, c) = (done \o a) \o <<c>>
    BY <1>1, AppendIsConcat
<1>3. Append(a, c) = a \o <<c>>
    BY AppendIsConcat
<1>4. (done \o a) \o <<c>> = done \o (a \o <<c>>)
    BY <1>1, ConcatAssociative
<1> QED
    BY <1>2, <1>3, <1>4

(* The text of arguments.                                                  *)
LEMMA ArgsText ==
    ASSUME NEW ws \in Seq(ByteWords)
    PROVE  /\ TextArgs(ws) \in Seq(Bytes)
           /\ \E off : /\ off \in [0..Len(ws) -> Nat] /\ off[0] = 0 /\ Len(TextArgs(ws)) = off[Len(ws)]
                       /\ \A k \in 1..Len(ws) : off[k] = off[k - 1] + Len(WithBlank(ws[k]))
                       /\ \A k \in 1..Len(ws) : Holds(TextArgs(ws), off[k - 1], WithBlank(ws[k]))
<1> DEFINE W == [k \in DOMAIN ws |-> WithBlank(ws[k])]
           t == FlattenSeq(W)
           n == Len(ws)
<1>1. n \in Nat /\ DOMAIN ws = 1..n /\ \A k \in 1..n : ws[k] \in ByteWords
    OBVIOUS
<1>2. W \in Seq(Seq(Bytes)) /\ Len(W) = n
    <2>1. \A k \in 1..n : WithBlank(ws[k]) \in Seq(Bytes)
        BY <1>1, ArgText DEF ByteWords
    <2> QED
        BY <1>1, <2>1
<1>3. \A k \in 1..n : W[k] = WithBlank(ws[k])
    BY <1>1
<1>4. t = TextArgs(ws)
    BY Zenon DEF TextArgs, WithBlank, Blank
<1> HIDE DEF W
<1>5. t \in Seq(Bytes) /\ \E off : /\ Offsets(W, off) /\ Len(t) = off[Len(W)]
                                  /\ \A k \in 1..Len(W) : Holds(t, off[k - 1], W[k])
    BY <1>2, FlattenHolds
<1>6. PICK off : Offsets(W, off) /\ Len(t) = off[n] /\ \A k \in 1..n : Holds(t, off[k - 1], W[k])
    BY <1>2, <1>5
<1> HIDE DEF t
<1>7. off \in [0..n -> Nat] /\ off[0] = 0 /\ \A k \in 1..n : off[k] = off[k - 1] + Len(W[k])
    BY <1>2, <1>6 DEF Offsets
<1>8. \A k \in 1..n : off[k] = off[k - 1] + Len(WithBlank(ws[k])) /\ Holds(t, off[k - 1], WithBlank(ws[k]))
    BY <1>3, <1>6, <1>7, Zenon
<1> QED
    BY <1>4, <1>5, <1>6, <1>7, <1>8, Zenon

(* Arguments in a text are read after the words that are there.            *)
LEMMA ArgsRead ==
    ASSUME NEW t \in Seq(Bytes), NEW st, Follows(st, t), NEW p \in Nat, NEW ws \in Seq(ByteWords), Holds(t, p, TextArgs(ws)),
           NEW done \in Seq(ByteWords), NEW x0 \in {"begin", "plain"}, st[p] = ReaderHas(x0, done)
    PROVE  \E y \in {"begin", "plain"} : st[p + Len(TextArgs(ws))] = ReaderHas(y, done \o ws)
<1> DEFINE u == TextArgs(ws)
           n == Len(ws)
<1>0. \A a \in Seq(ByteWords) : \A c \in ByteWords : Append(done \o a, c) = done \o Append(a, c)
    <2> SUFFICES ASSUME NEW a \in Seq(ByteWords), NEW c \in ByteWords PROVE Append(done \o a, c) = done \o Append(a, c)
        OBVIOUS
    <2> QED
        BY OneMoreAfter
<1>1. n \in Nat /\ \A k \in 1..n : ws[k] \in ByteWords
    OBVIOUS
<1>2. u \in Seq(Bytes) /\ Holds(t, p, u)
    BY ArgsText
<1>3. PICK off : /\ off \in [0..n -> Nat] /\ off[0] = 0 /\ Len(u) = off[n]
                 /\ \A k \in 1..n : off[k] = off[k - 1] + Len(WithBlank(ws[k]))
                 /\ \A k \in 1..n : Holds(u, off[k - 1], WithBlank(ws[k]))
    BY ArgsText
<1> HIDE DEF u
<1>4. SubSeq(ws, 1, 0) = <<>> /\ SubSeq(ws, 1, n) = ws /\ \A k \in 1..n : Append(SubSeq(ws, 1, k - 1), ws[k]) = SubSeq(ws, 1, k)
    BY FirstElements
<1> DEFINE At(k) == \E x \in {"begin", "plain"} : st[p + off[k]] = ReaderHas(x, done \o SubSeq(ws, 1, k))
           S == {k \in 0..n : ~At(k)}
<1>5. S = {}
    <2> SUFFICES ASSUME S # {} PROVE FALSE
        OBVIOUS
    <2>0. S \subseteq Nat
        BY <1>1
    <2> DEFINE m == Min(S)
    <2>1. m \in S /\ \A y \in S : m <= y
        BY <2>0, MinOfNat
    <2> HIDE DEF m
    <2>2. At(0)
        <3>1. p + off[0] = p
            BY <1>3
        <3>2. done \o SubSeq(ws, 1, 0) = done
            BY <1>4, ConcatEmptySeq
        <3>3. st[p + off[0]] = ReaderHas(x0, done \o SubSeq(ws, 1, 0))
            BY <3>1, <3>2, Zenon
        <3> QED
            BY <3>3
    <2>3. m # 0
        BY <2>1, <2>2
    <2>4. m \in 1..n /\ m - 1 \in 0..n /\ m - 1 \notin S /\ ~At(m)
        BY <1>1, <2>1, <2>3
    <2> DEFINE part == SubSeq(ws, 1, m - 1)
               had == done \o part
               w == ws[m]
               q == off[m - 1]
               a == p + q
    <2>5. PICK x \in {"begin", "plain"} : st[a] = ReaderHas(x, had)
        BY <2>4
    <2>6. w \in Seq(Bytes) /\ w \in ByteWords
        BY <1>1, <2>4 DEF ByteWords
    <2>7. Holds(u, q, WithBlank(w)) /\ off[m] = q + Len(WithBlank(w))
        BY <1>3, <2>4
    <2>8. q \in Nat
        BY <1>3, <2>4
    <2>9. part \in Seq(ByteWords)
        <3>1. \A k \in 1..m - 1 : ws[k] \in ByteWords
            BY <1>1, <2>4
        <3>2. m - 1 \in Int
            BY <1>1, <2>4
        <3> QED
            BY <3>1, <3>2, SubSeqProperties
    <2>10. Append(part, w) = SubSeq(ws, 1, m)
        BY <1>4, <2>4
    <2> HIDE DEF part, w, q
    <2>11. had \in Seq(ByteWords) /\ Append(had, w) = done \o Append(part, w)
        <3>1. done \o part \in Seq(ByteWords)
            BY <2>9, ConcatProperties
        <3>2. Append(done \o part, w) = done \o Append(part, w)
            BY <1>0, <2>6, <2>9, Zenon
        <3> QED
            BY <3>1, <3>2
    <2>12. WithBlank(w) \in Seq(Bytes) /\ Len(WithBlank(w)) \in Nat
        BY <2>6, ArgText
    <2>13. Holds(t, a, WithBlank(w)) /\ a \in Nat
        BY <1>2, <2>7, <2>8, <2>12, PartOfPart
    <2>14. a + Len(WithBlank(w)) = p + off[m]
        BY <2>7, <2>8, <2>12
    <2> HIDE DEF had, a
    <2>15. \E y \in {"begin", "plain"} : st[a + Len(WithBlank(w))] = InWord(y, had, w)
        BY <2>5, <2>6, <2>11, <2>13, ArgRead
    <2>16. At(m)
        BY <2>10, <2>11, <2>14, <2>15, Zenon DEF InWord, ReaderHas
    <2> QED
        BY <2>4, <2>16
<1>6. At(n)
    <2>1. n \in 0..n
        BY <1>1
    <2>2. \A k \in 0..n : At(k)
        <3> HIDE DEF At
        <3> QED
            BY <1>5, Zenon
    <2> QED
        BY <2>1, <2>2, Zenon
<1> QED
    BY <1>3, <1>4, <1>6, Zenon DEF u

(* The text of arguments is read back as these arguments, and so is that   *)
(* of other arguments after it.                                            *)
LEMMA ArgsReadBack ==
    ASSUME NEW vs \in Seq(ByteWords), NEW ws \in Seq(ByteWords)
    PROVE  ReadArgs(TextArgs(vs) \o TextArgs(ws)) = vs \o ws
<1> DEFINE u == TextArgs(vs)
           v == TextArgs(ws)
           t == u \o v
<1>1. u \in Seq(Bytes) /\ v \in Seq(Bytes)
    BY ArgsText
<1> HIDE DEF u, v
<1>2. Len(u) \in Nat /\ Len(v) \in Nat
    BY <1>1
<1>3. /\ t \in Seq(Bytes) /\ Len(t) = Len(u) + Len(v)
      /\ \A k \in 1..Len(u) : t[k] = u[k]
      /\ \A j \in 1..Len(v) : t[Len(u) + j] = v[j]
    BY <1>1, Concatenation
<1> HIDE DEF t
<1>4. Holds(t, 0, u)
    BY <1>2, <1>3 DEF Holds
<1>5. Holds(t, Len(u), v)
    BY <1>2, <1>3 DEF Holds
<1>6. PICK st : ReadUpTo(st, t, Len(t)) /\ ReadArgs(t) = st[Len(t)].out
    <2>1. Len(t) \in Nat
        BY <1>3
    <2> QED
        BY <2>1, ReadArgsReads
<1>7. Follows(st, t) /\ st[0] = Begin
    <2>1. Len(t) \in Nat /\ st = [k \in 0..Len(t) |-> IF k = 0 THEN Begin ELSE ReadSymbol(st[k - 1], t[k])]
        BY <1>3, <1>6, SMTT(30) DEF ReadUpTo
    <2>2. 0 \in 0..Len(t) /\ \A k \in 1..Len(t) : k \in 0..Len(t) /\ k # 0
        BY <2>1
    <2>3. st[0] = Begin
        BY <2>1, <2>2
    <2>4. ASSUME NEW k \in 1..Len(t) PROVE st[k] = ReadSymbol(st[k - 1], t[k])
        BY <2>1, <2>2
    <2> QED
        BY <2>3, <2>4 DEF Follows
<1>8. PICK y \in {"begin", "plain"} : st[Len(u)] = ReaderHas(y, vs)
    <2>1. st[0] = ReaderHas("plain", <<>>) /\ <<>> \in Seq(ByteWords) /\ "plain" \in {"begin", "plain"}
        BY <1>7 DEF Begin, ReaderHas
    <2>2. \E y \in {"begin", "plain"} : st[0 + Len(u)] = ReaderHas(y, <<>> \o vs)
        <3> DEFINE none == <<>>
        <3>1. Holds(t, 0, TextArgs(vs)) /\ 0 \in Nat
            BY <1>4 DEF u
        <3>2. t \in Seq(Bytes) /\ Follows(st, t)
            BY <1>3, <1>7
        <3>3. none \in Seq(ByteWords) /\ st[0] = ReaderHas("plain", none) /\ "plain" \in {"begin", "plain"}
            BY <2>1
        <3> HIDE DEF none
        <3>4. \E y \in {"begin", "plain"} : st[0 + Len(TextArgs(vs))] = ReaderHas(y, none \o vs)
            BY <3>1, <3>2, <3>3, ArgsRead
        <3> QED
            BY <3>4, Zenon DEF u, none
    <2>3. <<>> \o vs = vs /\ 0 + Len(u) = Len(u)
        BY <1>2, ConcatEmptySeq
    <2> QED
        BY <2>2, <2>3, Zenon
<1>9. PICK z \in {"begin", "plain"} : st[Len(u) + Len(v)] = ReaderHas(z, vs \o ws)
    <2>1. Holds(t, Len(u), TextArgs(ws))
        BY <1>5 DEF v
    <2> QED
        BY <1>2, <1>3, <1>7, <1>8, <2>1, ArgsRead DEF v
<1>10. st[Len(t)].out = vs \o ws
    BY <1>3, <1>9 DEF ReaderHas
<1> QED
    BY <1>6, <1>10, Zenon DEF t, u, v

(* A word that needs no quotes is printed as it is.                        *)
LEMMA BareWord ==
    ASSUME NEW w, ~NeedsQuotes(w)
    PROVE  QuoteText(w) = w
BY Zenon DEF QuoteText

(* Words that need no quotes are printed as arguments are.                 *)
LEMMA BareTextIsArgs ==
    ASSUME NEW ws, \A k \in DOMAIN ws : ~NeedsQuotes(ws[k])
    PROVE  BareText(ws) = TextArgs(ws)
<1> DEFINE F == [k \in DOMAIN ws |-> <<Blank>> \o ws[k]]
           G == [k \in DOMAIN ws |-> <<Blank>> \o QuoteText(ws[k])]
<1>1. \A k \in DOMAIN ws : QuoteText(ws[k]) = ws[k]
    BY BareWord
<1>2. F = G
    BY <1>1
<1>3. BareText(ws) = FlattenSeq(F)
    BY Zenon DEF BareText, Blank
<1>4. TextArgs(ws) = FlattenSeq(G)
    BY Zenon DEF TextArgs, Blank
<1> QED
    BY <1>2, <1>3, <1>4, Zenon

(* One of them is printed after a blank.                                   *)
LEMMA OneArg ==
    ASSUME NEW w \in Seq(Bytes), ~NeedsQuotes(w)
    PROVE  TextArgs(<<w>>) = <<Blank>> \o w
<1> DEFINE ws == <<w>>
           t == TextArgs(ws)
           u == WithBlank(w)
<1>1. ws \in Seq(ByteWords) /\ Len(ws) = 1 /\ ws[1] = w
    BY DEF ByteWords
<1> HIDE DEF ws
<1>2. t \in Seq(Bytes) /\ \E off : /\ off \in [0..Len(ws) -> Nat] /\ off[0] = 0 /\ Len(t) = off[Len(ws)]
                                   /\ \A k \in 1..Len(ws) : off[k] = off[k - 1] + Len(WithBlank(ws[k]))
                                   /\ \A k \in 1..Len(ws) : Holds(t, off[k - 1], WithBlank(ws[k]))
    BY <1>1, ArgsText
<1> HIDE DEF t
<1>3. PICK off : off[0] = 0 /\ Len(t) = off[1] /\ off[1] = off[1 - 1] + Len(WithBlank(ws[1])) /\ Holds(t, off[1 - 1], WithBlank(ws[1]))
    <2>1. 1 \in 1..Len(ws)
        BY <1>1
    <2> QED
        BY <1>1, <1>2, <2>1
<1>4. u \in Seq(Bytes) /\ Len(u) \in Nat
    BY ArgText
<1> HIDE DEF u
<1>5. Len(t) = Len(u) /\ Holds(t, 0, u)
    BY <1>1, <1>3, <1>4 DEF u
<1>6. \A k \in 1..Len(t) : t[k] = u[k]
    BY <1>4, <1>5 DEF Holds
<1>7. t = u
    BY <1>2, <1>4, <1>5, <1>6, SameSequence
<1>8. QuoteText(w) = w
    BY BareWord
<1> QED
    BY <1>7, <1>8, Zenon DEF t, ws, u, WithBlank

(* CommandLine is read back.                                               *)
LEMMA CommandLineReadBack ==
    ASSUME NEW ev, ev.command \in Seq(Bytes), ev.args \in Seq(ByteWords), ~NeedsQuotes(ev.command)
    PROVE  ReadArgs(<<Blank>> \o CommandLine(ev)) = <<ev.command>> \o ev.args
<1> DEFINE c == ev.command
           as == ev.args
           u == TextArgs(as)
           b == <<Blank>>
<1>1. c \in Seq(Bytes) /\ as \in Seq(ByteWords) /\ CommandLine(ev) = c \o u
    BY DEF CommandLine
<1>2. TextArgs(<<c>>) = b \o c
    BY OneArg
<1> HIDE DEF c, as
<1>3. u \in Seq(Bytes) /\ <<c>> \in Seq(ByteWords)
    <2>1. u \in Seq(Bytes)
        BY <1>1, ArgsText
    <2>2. c \in ByteWords
        BY <1>1 DEF ByteWords
    <2>3. <<c>> \in Seq(ByteWords)
        BY <2>2, Tuples
    <2> QED
        BY <2>1, <2>3
<1>4. Blank \in Bytes
    BY DEF Bytes, Blank
<1>5. b \in Seq(Bytes)
    BY <1>4
<1>6. ReadArgs(TextArgs(<<c>>) \o u) = <<c>> \o as
    BY <1>1, <1>3, ArgsReadBack
<1> HIDE DEF u, b
<1>7. (b \o c) \o u = b \o (c \o u)
    BY <1>1, <1>3, <1>5, ConcatAssociative
<1> QED
    BY <1>1, <1>2, <1>6, <1>7, Zenon DEF c, as, b

(* So is the text format.                                                  *)
LEMMA TextLineReadBack ==
    ASSUME NEW ev, Fields(ev) \in Seq(ByteWords), ev.args \in Seq(ByteWords),
           \A k \in DOMAIN Fields(ev) : ~NeedsQuotes(Fields(ev)[k])
    PROVE  ReadArgs(TextLine(ev)) = Fields(ev) \o ev.args
<1>1. BareText(Fields(ev)) = TextArgs(Fields(ev))
    BY BareTextIsArgs
<1>2. ReadArgs(TextArgs(Fields(ev)) \o TextArgs(ev.args)) = Fields(ev) \o ev.args
    BY ArgsReadBack
<1> QED
    BY <1>1, <1>2, Zenon DEF TextLine

(* The words that the text format does not quote.                          *)
LEMMA FieldsTypes ==
    ASSUME NEW ev, ev.command \in Seq(Bytes), ev.subcommand \in Seq(Bytes)
    PROVE  Fields(ev) \in Seq(ByteWords)
<1> DEFINE c == <<"cmd=">> \o ev.command
           b == <<"sub=">> \o ev.subcommand
<1>1. "cmd=" \in Bytes /\ "sub=" \in Bytes
    BY DEF Bytes
<1>2. c \in Seq(Bytes)
    BY <1>1, Prefixed
<1>3. b \in Seq(Bytes)
    BY <1>1, Prefixed
<1>4. Fields(ev) = <<c>> \o <<>> \/ Fields(ev) = <<c>> \o <<b>>
    BY Zenon DEF Fields
<1> HIDE DEF c, b
<1>5. c \in ByteWords /\ b \in ByteWords
    BY <1>2, <1>3 DEF ByteWords
<1>6. <<c>> \in Seq(ByteWords) /\ <<b>> \in Seq(ByteWords) /\ <<>> \in Seq(ByteWords)
    BY <1>5
<1> QED
    BY <1>4, <1>6, ConcatProperties

(* What strings.ToUpper makes of bytes.                                    *)
LEMMA UpperTypes ==
    ASSUME NEW w \in Seq(Bytes)
    PROVE  ToUpper(w) \in Seq(Bytes)
<1>1. ASSUME NEW c \in Bytes PROVE UpperSymbol(c) \in Bytes
    <2>1. UpperSymbol(c) \in {c, "A", "B", "N", "R", "T", "X", "U+FFFD"}
        BY DEF UpperSymbol
    <2>2. {"A", "B", "N", "R", "T", "X", "U+FFFD"} \subseteq Bytes
        BY DEF Bytes
    <2> QED
        BY <2>1, <2>2
<1>2. Len(w) \in Nat /\ DOMAIN w = 1..Len(w) /\ \A k \in 1..Len(w) : UpperSymbol(w[k]) \in Bytes
    BY <1>1
<1>3. ToUpper(w) = [k \in 1..Len(w) |-> UpperSymbol(w[k])]
    BY <1>2 DEF ToUpper
<1> QED
    BY <1>2, <1>3

(* The address of an alert says which client it is about.                  *)
LEMMA AddressReadBack ==
    ASSUME NEW ip \in Seq(Bytes), NEW port \in Seq(Bytes), PlainPort(port)
    PROVE  SourceIP((ip \o <<":">>) \o port) = ip
<1> DEFINE c == ":"
           q == <<c>>
           t == (ip \o q) \o port
<1>1. c \in Bytes
    BY DEF Bytes
<1>2. \A k \in 1..Len(port) : port[k] # c
    BY DEF PlainPort
<1> HIDE DEF c
<1>3. q \in Seq(Bytes)
    BY <1>1
<1>4. t = ip \o (<<c>> \o port)
    BY <1>3, ConcatAssociative
<1> HIDE DEF t, q
<1>5. LastIndexOf(t, c) = Len(ip) + 1 /\ Len(ip) \in Nat /\ Before(t, Len(ip) + 1) = ip
    <2>1. LastIndexOf(t, c) = Len(ip) + 1
        BY <1>1, <1>2, <1>4, FoundLast, ZenonT(30)
    <2>2. Before(t, Len(ip) + 1) = ip
        BY <1>1, <1>2, <1>4, FoundLast DEF Before
    <2> QED
        BY <2>1, <2>2
<1>6. LastIndexOf(t, c) # 0
    BY <1>5
<1>7. SourceIP(t) = Before(t, LastIndexOf(t, c))
    BY <1>6 DEF SourceIP, c
<1>8. SourceIP(t) = ip
    BY <1>5, <1>7
<1> QED
    BY <1>8 DEF t, q, c

(* LastIndexOf is 0 or a place in the sequence.                            *)
LEMMA LastIndexTypes ==
    ASSUME NEW t \in Symbols, NEW c
    PROVE  LastIndexOf(t, c) \in 0..Len(t)
<1> DEFINE I == {k \in 1..Len(t) : t[k] = c}
<1>1. LastIndexOf(t, c) = IF I # {} THEN Max(I) ELSE 0
    BY DEF LastIndexOf, SelectLastInSeq
<1>2. Len(t) \in Nat
    BY DEF Symbols
<1>3. CASE I = {}
    BY <1>1, <1>2, <1>3
<1>4. CASE I # {}
    <2>1. Max(I) \in I
        BY <1>2, <1>4, MaxOfNat
    <2> QED
        BY <1>1, <1>2, <1>4, <2>1
<1> QED
    BY <1>3, <1>4

(* splitHostPort gives parts of the address.                               *)
LEMMA SplitTypes ==
    ASSUME NEW a \in Symbols
    PROVE  SplitHostPort(a).ip \in Symbols /\ SplitHostPort(a).port \in Symbols
<1> DEFINE end == IndexOf(a, "]")
           last == LastIndexOf(a, ":")
           x == SplitHostPort(a)
           p == SubSeq(a, 2, end - 1)
           q == From(a, end + 2)
           u == Before(a, last)
           v == From(a, last + 1)
<1>1. Len(a) \in Nat /\ <<>> \in Symbols
    BY DEF Symbols
<1>2. end \in 0..Len(a) /\ last \in 0..Len(a)
    BY IndexOfFirst, LastIndexTypes
<1>3. \/ x = [ip |-> <<>>, port |-> <<>>]
      \/ end # 0 /\ x = [ip |-> p, port |-> q]
      \/ end # 0 /\ x = [ip |-> p, port |-> <<>>]
      \/ x = [ip |-> a, port |-> <<>>]
      \/ last # 0 /\ x = [ip |-> u, port |-> v]
    BY DEF SplitHostPort
<1> HIDE DEF end, last, x
<1>4. end \in Nat /\ last \in Nat /\ end + 2 = (end + 1) + 1 /\ end + 1 \in Nat
    BY <1>1, <1>2
<1>5. q \in Symbols /\ v \in Symbols
    BY <1>4, FromTypes
<1>6. end # 0 => p \in Symbols
    BY <1>1, <1>2, PartTypes
<1>7. last # 0 => u \in Symbols
    BY <1>1, <1>2, PartTypes DEF Before
<1> HIDE DEF p, q, u, v
<1> QED
    BY <1>1, <1>3, <1>5, <1>6, <1>7 DEF x

(* So does Parse.                                                          *)
LEMMA SourceTypes ==
    ASSUME NEW l \in Symbols, ParseHead(l) # NoHead
    PROVE  ParseHead(l).source.ip \in Symbols /\ ParseHead(l).source.port \in Symbols
<1> DEFINE t     == IF l # <<>> /\ l[1] = "+" THEN Tail(l) ELSE l
           space == IndexOf(t, " ")
           rest  == From(t, space + 1)
           close == CloseIndex(rest)
           body  == SubSeq(rest, 2, close - 1)
           sp    == IndexOf(body, " ")
           a     == From(body, sp + 1)
<1>1. t \in Symbols
    <2>1. l # <<>> => Tail(l) \in Symbols
        BY DEF Symbols
    <2> QED
        BY <2>1
<1>2. ParseHead(l).source = SplitHostPort(a) /\ close # 0
    BY DEF ParseHead
<1> HIDE DEF t
<1>3. space \in Nat
    <2>1. Len(t) \in Nat
        BY <1>1 DEF Symbols
    <2>2. space \in 0..Len(t)
        BY <1>1, IndexOfFirst
    <2> HIDE DEF space
    <2> QED
        BY <2>1, <2>2
<1> HIDE DEF space
<1>4. rest \in Symbols
    BY <1>1, <1>3, FromTypes
<1> HIDE DEF rest
<1>5. close \in 0..Len(rest) /\ Len(rest) \in Nat
    BY <1>4, CloseIndexTypes DEF Symbols
<1> HIDE DEF close
<1>6. close - 1 \in Nat /\ close - 1 <= Len(rest)
    <2>1. close # 0
        BY <1>2
    <2> QED
        BY <1>5, <2>1
<1>7. body \in Symbols
    BY <1>4, <1>6, PartTypes
<1> HIDE DEF body
<1>8. sp \in Nat
    <2>1. Len(body) \in Nat
        BY <1>7 DEF Symbols
    <2>2. sp \in 0..Len(body)
        BY <1>7, IndexOfFirst
    <2> HIDE DEF sp
    <2> QED
        BY <2>1, <2>2
<1> HIDE DEF sp
<1>9. a \in Symbols
    BY <1>7, <1>8, FromTypes
<1> HIDE DEF a
<1> QED
    BY <1>2, <1>9, SplitTypes

(* The words that are being read.                                          *)
ArgsInv == sb \in Seq(Bytes) /\ args \in Seq(ByteWords)

(* An escape stands for one byte.                                          *)
LEMMA UnescapedTypes ==
    ASSUME NEW c \in STRING
    PROVE  Unescaped(c) \in Bytes
<1>1. c \in Bytes /\ {"NL", "CR", "TAB", "BEL", "BS"} \subseteq Bytes
    BY DEF Bytes
<1>2. Unescaped(c) \in {c, "NL", "CR", "TAB", "BEL", "BS"}
    BY DEF Unescaped
<1> QED
    BY <1>1, <1>2

(* So does one in hexadecimal.                                             *)
LEMMA HexByteTypes ==
    ASSUME NEW a \in HexDigits, NEW b \in HexDigits
    PROVE  HexByte(a, b) \in Bytes
<1>1. {"xA0", "xAA", "x00", "NL"} \subseteq Bytes
    BY DEF Bytes
<1>2. HexByte(a, b) \in {"xA0", "xAA", "x00", "NL"}
    BY DEF HexByte, HexDigits
<1> QED
    BY <1>1, <1>2

(* A word consists of bytes of the line, or of what they stand for.        *)
LEMMA ArgsStep == ArgsInv /\ StreamInv /\ [Next]_vars => ArgsInv'
<1> SUFFICES ASSUME ArgsInv, StreamInv, [Next]_vars PROVE ArgsInv'
    OBVIOUS
<1>1. CASE UNCHANGED <<sb, args>>
    BY <1>1 DEF ArgsInv
<1>2. CASE ParseReturns
    BY <1>2 DEF ParseReturns, ArgsInv
<1>3. CASE sb' = <<>> /\ UNCHANGED args
    BY <1>3 DEF ArgsInv
<1>4. CASE CloseQuote
    <2>1. sb' = <<>> /\ args' = Append(args, sb)
        BY <1>4 DEF CloseQuote
    <2>2. sb \in ByteWords /\ args \in Seq(ByteWords)
        BY DEF ArgsInv, ByteWords
    <2>3. Append(args, sb) \in Seq(ByteWords)
        BY <2>2, AppendProperties
    <2> QED
        BY <2>1, <2>3 DEF ArgsInv
<1>5. ASSUME NEW c \in Bytes, NEW n, Collect(c, n) PROVE ArgsInv'
    <2>1. sb' = Append(sb, c) /\ args' = args
        BY <1>5 DEF Collect
    <2>2. Append(sb, c) \in Seq(Bytes)
        BY AppendProperties DEF ArgsInv
    <2> QED
        BY <2>1, <2>2 DEF ArgsInv
<1>6. ASSUME Inside PROVE s \in Symbols /\ i \in 1..Len(s) /\ Len(s) \in Nat
    <2>1. pc = "args" /\ i <= Len(s)
        BY <1>6 DEF Inside
    <2>2. s \in Symbols /\ i \in Nat \ {0}
        BY <2>1 DEF StreamInv, StreamTypes
    <2>3. Len(s) \in Nat
        BY <2>2 DEF Symbols
    <2> QED
        BY <2>1, <2>2, <2>3
<1>7. ASSUME Inside, NEW k \in 1..Len(s) PROVE s[k] \in STRING /\ s[k] \in Bytes
    <2>1. s[k] \in STRING
        BY <1>6, <1>7 DEF Symbols
    <2> QED
        BY <2>1 DEF Bytes
<1>8. CASE HexEscape
    <2>1. Inside /\ s[i + 2] \in HexDigits /\ s[i + 3] \in HexDigits /\ Collect(HexByte(s[i + 2], s[i + 3]), 4)
        BY <1>8 DEF HexEscape, IsHexEscape
    <2>2. HexByte(s[i + 2], s[i + 3]) \in Bytes
        BY <2>1, HexByteTypes
    <2> QED
        BY <1>5, <2>1, <2>2
<1>9. CASE Escape
    <2>1. Inside /\ i < Len(s) /\ Collect(Unescaped(s[i + 1]), 2)
        BY <1>9 DEF Escape, IsEscape
    <2>2. i + 1 \in 1..Len(s)
        BY <1>6, <2>1
    <2>3. Unescaped(s[i + 1]) \in Bytes
        BY <1>7, <2>1, <2>2, UnescapedTypes
    <2> QED
        BY <1>5, <2>1, <2>3
<1>10. CASE Literal
    <2>1. Inside /\ Collect(s[i], 1)
        BY <1>10 DEF Literal
    <2>2. s[i] \in Bytes
        BY <1>6, <1>7, <2>1
    <2> QED
        BY <1>5, <2>1, <2>2
<1>11. CASE Parsing
    <2>1. CASE ReadHead \/ SkipBlank \/ Unexpected \/ EndOfLine
        BY <1>1, <2>1 DEF ReadHead, SkipBlank, Unexpected, EndOfLine
    <2>2. CASE OpenQuote
        BY <1>3, <2>2 DEF OpenQuote
    <2> QED
        BY <1>4, <1>8, <1>9, <1>10, <1>11, <2>1, <2>2 DEF Parsing, ParseNext
<1>12. CASE Arrive \/ Break \/ ReadAuth \/ ReadReply \/ ReadLine \/ ReadHeader \/ ReadBody \/ Finished \/ UNCHANGED vars
    BY <1>1, <1>12 DEF Arrive, Break, ReadAuth, ReadReply, ReadLine, ReadHeader, ReadBody, Finished, vars, parserVars
<1> QED
    BY <1>2, <1>11, <1>12 DEF Next

(* The event is made of the head and of the words.                         *)
EventInv ==
    /\ pc # "done" => event = NoEvent
    /\ pc = "args" => head # NoHead
    /\ event # NoEvent => event = EventOf(head, args) /\ args # <<>> /\ head # NoHead

(* EndOfLine makes it, and the loop takes it.                              *)
LEMMA EventStep == EventInv /\ [Next]_vars => EventInv'
<1> SUFFICES ASSUME EventInv, [Next]_vars PROVE EventInv'
    OBVIOUS
<1>1. CASE event' = NoEvent /\ pc' # "args"
    BY <1>1 DEF EventInv
<1>2. CASE pc = "args" /\ pc' = "args" /\ UNCHANGED <<head, event>>
    BY <1>2 DEF EventInv
<1>3. CASE UNCHANGED vars
    BY <1>3 DEF EventInv, vars, parserVars, given
<1>4. CASE Parsing
    <2>1. CASE ReadHead
        <3>1. pc = "head" /\ event = NoEvent
            BY <2>1 DEF ReadHead, EventInv
        <3>2. event' = NoEvent /\ (pc' = "args" => head' # NoHead)
            BY <2>1, <3>1 DEF ReadHead, Fail
        <3> QED
            BY <3>2 DEF EventInv
    <2>2. CASE SkipBlank \/ OpenQuote \/ HexEscape \/ Escape \/ CloseQuote \/ Literal
        BY <1>2, <2>2 DEF SkipBlank, OpenQuote, HexEscape, Escape, CloseQuote, Literal, Outside, Inside, Collect, given
    <2>3. CASE Unexpected
        BY <1>1, <2>3 DEF Unexpected, Fail
    <2>4. CASE EndOfLine
        <3>1. pc' = "done" /\ UNCHANGED <<head, args>> /\ head # NoHead
            BY <2>4 DEF EndOfLine, Fail, given, EventInv
        <3>2. event' = NoEvent \/ (args # <<>> /\ event' = EventOf(head, args))
            BY <2>4 DEF EndOfLine, Fail
        <3> QED
            BY <3>1, <3>2, Zenon DEF EventInv
    <2> QED
        BY <1>4, <2>1, <2>2, <2>3, <2>4 DEF Parsing, ParseNext
<1>5. CASE Arrive \/ ReadAuth \/ ReadReply \/ ReadLine \/ ReadHeader \/ Break \/ ReadBody
    <2>1. pc # "done" /\ event' = event /\ pc' # "args"
        BY <1>5 DEF Arrive, Waiting, ReadAuth, ReadReply, ReadLine, ReadHeader, Break, ReadBody, AskPc, parserVars
    <2> QED
        BY <1>1, <2>1 DEF EventInv
<1>6. CASE ParseReturns
    BY <1>1, <1>6 DEF ParseReturns
<1>7. CASE Finished
    BY <1>3, <1>7 DEF Finished
<1> QED
    BY <1>3, <1>4, <1>5, <1>6, <1>7 DEF Next

(* No port that Parse reads has a colon.                                   *)
LEMMA PortIsPlain ==
    ASSUME SessionInv, DeliveryInv, HeadKept, InParse, pc \in {"args", "done"}, head # NoHead
    PROVE  PlainPort(head.source.port)
<1>1. session \in Sessions /\ session.ask = "MONITOR"
    BY DEF SessionInv, InParse, InLoop
<1>2. MonitorOk(session)
    <2>1. "MONITOR" # "INFO"
        OBVIOUS
    <2> QED
        BY <1>1, <2>1, RedisAssumption, Zenon
<1>3. WithLine(session, ToCome, results, line)
    BY <1>1 DEF DeliveryInv
<1>4. PICK m \in Nat : NoErrors(session, m + 1) /\ line = session.lines[m + 1].text
    BY <1>3 DEF WithLine
<1> DEFINE l == session.lines[m + 1]
<1>5. m + 1 \in DOMAIN session.lines
    <2>1. m + 1 \in 0..Len(session.lines)
        BY <1>4 DEF NoErrors
    <2>2. session.lines \in Seq(ToSet(session.lines))
        BY <1>2 DEF MonitorOk
    <2>3. DOMAIN session.lines = 1..Len(session.lines) /\ Len(session.lines) \in Nat
        BY <2>2
    <2> QED
        BY <2>1, <2>3
<1>6. LineOk(l)
    BY <1>2, <1>5 DEF MonitorOk
<1>7. line = l.text
    BY <1>4
<1> HIDE DEF l
<1>8. head = ParseHead(TrimEnd(line))
    BY DEF HeadKept
<1>9. CASE l.entry # NoEntry
    <2> DEFINE e == l.entry
    <2>1. EntryOk(e) /\ l.text = RedisLine(e) \o EOL
        BY <1>6, <1>9, Zenon DEF LineOk
    <2> HIDE DEF e
    <2>2. head = FullHead(e)
        BY <1>7, <1>8, <2>1, HeadExact, Zenon
    <2>3. FullHead(e).source = HeadOf(e).source
        BY DEF FullHead
    <2>4. HeadOf(e).source.port = e.port
        BY DEF HeadOf
    <2>5. PlainPort(e.port)
        BY <2>1 DEF EntryOk
    <2> QED
        BY <2>2, <2>3, <2>4, <2>5, Zenon
<1>10. CASE l.entry = NoEntry
    <2>1. ParseHead(TrimEnd(l.text)) # NoHead => PlainPort(ParseHead(TrimEnd(l.text)).source.port)
        BY <1>6, <1>10, Zenon DEF LineOk
    <2> QED
        BY <1>7, <1>8, <2>1, Zenon
<1> QED
    BY <1>9, <1>10

(* What holds of an event that has been read.                              *)
LEMMA EventIsRendered ==
    SessionInv /\ DeliveryInv /\ HeadKept /\ StreamInv /\ ArgsInv /\ EventInv => RenderedFaithfully
<1> SUFFICES ASSUME SessionInv, DeliveryInv, HeadKept, StreamInv, ArgsInv, EventInv, event # NoEvent
             PROVE  /\ ~NeedsQuotes(event.command) =>
                          ReadArgs(<<Blank>> \o CommandLine(event)) = <<event.command>> \o event.args
                    /\ (\A k \in DOMAIN Fields(event) : ~NeedsQuotes(Fields(event)[k])) =>
                          ReadArgs(TextLine(event)) = Fields(event) \o event.args
                    /\ SourceIP((event.source.ip \o <<":">>) \o event.source.port) = event.source.ip
    BY Zenon DEF RenderedFaithfully, Blank
<1>1. pc = "done" /\ head # NoHead /\ args # <<>> /\ event = EventOf(head, args)
    BY DEF EventInv
<1>2. event.args = Tail(args) /\ event.source = head.source
    BY <1>1 DEF EventOf
<1>3. event.args \in Seq(ByteWords) /\ event.command \in Seq(Bytes) /\ event.subcommand \in Seq(Bytes)
    <2>1. args \in Seq(ByteWords) /\ args # <<>>
        BY <1>1 DEF ArgsInv
    <2>2. Tail(args) \in Seq(ByteWords) /\ args[1] \in ByteWords /\ (Len(args) > 1 => args[2] \in ByteWords)
        BY <2>1
    <2>3. event.command = ToUpper(args[1])
        BY <1>1 DEF EventOf
    <2>4. \/ event.subcommand = <<>>
          \/ Len(args) > 1 /\ event.subcommand = ToUpper(args[2])
        BY <1>1 DEF EventOf
    <2>5. ToUpper(args[1]) \in Seq(Bytes)
        BY <2>2, UpperTypes DEF ByteWords
    <2>6. Len(args) > 1 => ToUpper(args[2]) \in Seq(Bytes)
        BY <2>2, UpperTypes DEF ByteWords
    <2>7. event.args \in Seq(ByteWords)
        BY <1>2, <2>2
    <2>8. event.command \in Seq(Bytes)
        BY <2>3, <2>5
    <2>9. event.subcommand \in Seq(Bytes)
        <3>1. <<>> \in Seq(Bytes)
            OBVIOUS
        <3> QED
            BY <2>4, <2>6, <3>1, Zenon
    <2> QED
        BY <2>7, <2>8, <2>9
<1>4. ~NeedsQuotes(event.command) => ReadArgs(<<Blank>> \o CommandLine(event)) = <<event.command>> \o event.args
    BY <1>3, CommandLineReadBack
<1>8. (\A k \in DOMAIN Fields(event) : ~NeedsQuotes(Fields(event)[k])) => ReadArgs(TextLine(event)) = Fields(event) \o event.args
    BY <1>3, FieldsTypes, TextLineReadBack
<1> DEFINE ip == head.source.ip
           port == head.source.port
<1>5. ip \in Seq(Bytes) /\ port \in Seq(Bytes)
    <2>1. line \in Symbols
        BY <1>1 DEF StreamInv, StreamTypes, InParse
    <2>2. TrimEnd(line) \in Symbols
        BY <2>1, TrimEndTypes
    <2>3. head = ParseHead(TrimEnd(line))
        BY <1>1 DEF HeadKept
    <2>4. ip \in Symbols /\ port \in Symbols
        BY <1>1, <2>2, <2>3, SourceTypes
    <2> QED
        BY <2>4, StringBytes DEF Symbols
<1>6. PlainPort(port)
    BY <1>1, PortIsPlain DEF InParse
<1> HIDE DEF ip, port
<1>7. SourceIP((ip \o <<":">>) \o port) = ip
    BY <1>5, <1>6, AddressReadBack
<1> QED
    BY <1>2, <1>4, <1>7, <1>8, Zenon DEF ip, port

(* Of every event that Parse returns, the text of an alert (CommandLine)   *)
(* and of the text format (encode) says what its command and arguments     *)
(* are, whatever symbols the arguments have, provided that the words       *)
(* printed without quotes need none; the address of an alert says which    *)
(* client it is about (sourceIP).                                          *)
THEOREM EventsAreRenderedFaithfully == Spec => []RenderedFaithfully
<1>1. Init => ArgsInv /\ EventInv /\ HeadKept
    BY DEF Init, ParserInit, AskPc, ArgsInv, EventInv, HeadKept
<1> QED
    BY <1>1, StreamInvariant, SessionInvariant, DeliveryInvariant, HeadKeptStep, ArgsStep, EventStep, EventIsRendered, PTL DEF Spec
=============================================================================
