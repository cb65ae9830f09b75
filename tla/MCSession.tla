----------------------------- MODULE MCSession -----------------------------
(***************************************************************************)
(* What a connection may be about: credentials written in every way the    *)
(* configuration allows, the three kinds of address, clients that wait and *)
(* clients that do not, inner handshakes, answers, and what is wrong with  *)
(* any of them. Texts are written here by other means than those they are  *)
(* read by.                                                                *)
(*                                                                         *)
(* A field of two bytes is one cell; a frame holds 8 cells of content.     *)
(***************************************************************************)
EXTENDS Session

---------------------------------------------------------------------------
(* Credentials                                                              *)

HexLower == [i \in 0..15 |-> IF i < 10 THEN 48 + i ELSE 87 + i]
HexUpper == [i \in 0..15 |-> IF i < 10 THEN 48 + i ELSE 55 + i]
Hex(bytes, digits) ==
    FlattenSeq([i \in DOMAIN bytes |-> <<digits[bytes[i] \div 16], digits[bytes[i] % 16]>>])

Alphabet(c62, c63) ==
    [i \in 0..63 |-> CASE i < 26 -> 65 + i [] i \in 26..51 -> 71 + i
                       [] i \in 52..61 -> i - 4 [] i = 62 -> c62 [] i = 63 -> c63]
Standard == Alphabet(43, 47)
UrlSafe  == Alphabet(45, 95)

\* Two bytes are three characters.
Base64(key, chars) ==
    LET n == (key[1] * 256 + key[2]) * 4
    IN  <<chars[n \div 4096], chars[(n \div 64) % 64], chars[n % 64]>>

Uuid == <<171>>
Raw(key, shortId) ==
    [uuid |-> Hex(Uuid, HexLower), flow |-> RequiredFlow,
     publicKey |-> Base64(key, UrlSafe), shortId |-> Hex(shortId, HexLower)]

Key == <<251, 239>>     \* has both characters the alphabets differ in
GoodRaw == Raw(Key, <<26>>)

---------------------------------------------------------------------------
(* A client's input and a server's answer                                   *)

Hello5 == <<5, 2, 9, 0>>
Ip4    == [kind |-> "ip4", addr |-> <<127>>, port |-> 80]
Ip6    == [kind |-> "ip6", addr |-> <<0, 1>>, port |-> 0]
NoName == [kind |-> "domain", addr |-> <<>>, port |-> 1]
Domain == [kind |-> "domain", addr |-> <<97, 98, 99>>, port |-> 443]

Ask(t) == Hello5 \o <<5, 1, 0>> \o
          (CASE t.kind = "ip4" -> <<1>> [] t.kind = "ip6" -> <<4>>
             [] t.kind = "domain" -> <<3, Len(t.addr)>>) \o t.addr \o <<t.port>>

ClientHello == <<22, 3, 1, 2, 1, 0>>
AppData     == <<23, 3, 3, 1, 7>>
\* two records, the second of which starts where a frame is full
TwoRecords  == <<23, 3, 3, 4, 1, 2, 3, 4>> \o AppData
Text        == <<71, 69, 84, 32, 47, 32, 72, 84, 84, 80>>

\* ServerHello: type, session ID, suite, extensions.
Tls13     == <<22, 3, 3, 6, 2, 1, 9, 1, 43, 4>>
Tls13Ccm8 == <<22, 3, 3, 6, 2, 1, 1, 5, 43, 4>>
Tls12     == <<22, 3, 3, 4, 2, 0, 49, 0>> \o <<22, 3, 3, 3, 11, 43, 4>>
\* an allowed suite without the extension, whose bytes come behind the hello
NoVersion == <<22, 3, 3, 6, 2, 0, 1, 0, 0, 0>> \o <<22, 3, 3, 3, 11, 43, 4>>

FrameOf(command, data, pad) == <<command, Len(data), pad>> \o data \o [i \in 1..pad |-> 0]

\* A response header with addons, two frames in which all of data but the last byte
\* is, n bytes in the first of them, and that byte behind them.
AnswerAt(data, n, command) ==
    <<0, 1, 10>> \o Uuid \o FrameOf(0, SubSeq(data, 1, n), 1)
        \o FrameOf(command, SubSeq(data, n + 1, Len(data) - 1), 0) \o <<data[Len(data)]>>
FirstFrameEnd(n) == 8 + n
Answer(data, command) == AnswerAt(data, Len(data) - 2, command)

---------------------------------------------------------------------------
(* Runs                                                                     *)

Base == [raw |-> GoodRaw,
         want |-> [uuid |-> Uuid, key |-> Key, shortId |-> <<26, 0>>, target |-> Ip4],
         input |-> Ask(Ip4) \o Text, cuts |-> {}, head |-> Len(Ask(Ip4)), closes |-> TRUE,
         answer |-> Answer(<<1, 2, 3>>, 1), answerCuts |-> {}, data |-> <<1, 2, 3>>,
         fault |-> "none", tls13 |-> FALSE]

\* The client's packets, each a write of its own.
Ends(head, packets) ==
    LET end[i \in Nat] == IF i = 0 THEN head ELSE end[i - 1] + Len(packets[i])
    IN  {end[i] : i \in 0..Len(packets)}
Talk(packets, answer, command, answerCuts, tls13) ==
    [Base EXCEPT !.input = Ask(Ip4) \o FlattenSeq(packets),
                 !.cuts = Ends(Len(Ask(Ip4)), packets),
                 !.answer = Answer(answer, command), !.answerCuts = answerCuts,
                 !.data = answer, !.tls13 = tls13]

Cut(n) == 1..n

Targets == {[Base EXCEPT !.want.target = t, !.input = Ask(t) \o Text, !.head = Len(Ask(t)),
                         !.cuts = 1..Len(Ask(t))] : t \in {Ip4, Ip6, NoName, Domain}}

Credentials ==
    {[Base EXCEPT !.raw = Raw(k, i), !.want.key = k,
                  !.want.shortId = SubSeq(i \o <<0, 0>>, 1, 2)] :
        k \in {<<0, 0>>, <<0, 255>>, <<255, 255>>, <<251, 239>>, <<18, 52>>},
        i \in {<<>>, <<7>>, <<255, 1>>}}
    \cup {[Base EXCEPT !.raw.publicKey = Base64(Key, Standard) \o <<61>>],
          [Base EXCEPT !.raw.uuid = <<45>> \o Hex(Uuid, HexUpper) \o <<45>>]}

Talks == {
    Talk(<<ClientHello, AppData, AppData>>, Tls13 \o <<8, 9>>, 2, {3, 14, 19}, TRUE),
    Talk(<<ClientHello, TwoRecords>>, Tls13 \o <<8, 9>>, 1, {12, 19}, TRUE),
    Talk(<<ClientHello, AppData>>, Tls13Ccm8 \o <<8, 9>>, 2, {19}, FALSE),
    Talk(<<ClientHello, Text, AppData>>, Tls12 \o <<8>>, 1, {3, 20}, FALSE),
    Talk(<<Text, TwoRecords, Text>>, <<1, 2, 3>>, 1, {9}, FALSE),
    Talk(<<>>, Tls13 \o <<8, 9, 10>>, 2, Cut(23), TRUE),
    Talk(<<>>, Tls12 \o <<8>>, 1, Cut(26), FALSE) }

\* The hello's bytes in two frames, read together or one by one.
CutHello(packets, answer, n, command, tls13) ==
    [Talk(packets, answer, command, {FirstFrameEnd(n)}, tls13) EXCEPT
        !.answer = AnswerAt(answer, n, command)]

CutHellos ==
    {CutHello(<<ClientHello, AppData>>, Tls13 \o <<8, 9>>, n, 2, TRUE) : n \in 7..9}
    \cup {CutHello(<<ClientHello, AppData>>, NoVersion \o <<8>>, n, 1, FALSE) : n \in 7..9}
    \cup {CutHello(<<ClientHello, AppData>>, Tls12 \o <<8>>, 7, 1, FALSE),
          \* the client sends the extension's bytes while the hello is incomplete
          CutHello(<<ClientHello, <<43, 4>>>>, NoVersion \o <<8>>, 8, 1, FALSE)}

Faulty == {
    [Base EXCEPT !.fault = "config", !.raw.uuid = <<97, 120>>],
    [Base EXCEPT !.fault = "config", !.raw.uuid = Hex(<<1, 2>>, HexLower)],
    [Base EXCEPT !.fault = "config", !.raw.publicKey = SubSeq(@, 1, 2)],
    [Base EXCEPT !.fault = "config", !.raw.publicKey = <<33>> \o Tail(@)],
    [Base EXCEPT !.fault = "config", !.raw.shortId = <<49>>],
    [Base EXCEPT !.fault = "config", !.raw.shortId = Hex(<<1, 2, 3>>, HexLower)],
    [Base EXCEPT !.fault = "config", !.raw.flow = <<>>],
    [Base EXCEPT !.fault = "client", !.input = <<4>> \o Tail(@)],
    [Base EXCEPT !.fault = "client", !.input = Hello5 \o <<5, 2, 0, 1, 127, 80>>],
    [Base EXCEPT !.fault = "client", !.input = Hello5 \o <<5, 1, 0, 9, 127, 80>>],
    [Base EXCEPT !.fault = "client", !.input = Hello5 \o <<5, 1, 0, 3, 1, 255, 80>>],
    [Base EXCEPT !.fault = "client", !.input = SubSeq(Ask(Ip4), 1, 8)],
    [Base EXCEPT !.fault = "method", !.input = <<5, 1, 2>> \o @],
    [Base EXCEPT !.fault = "method", !.input = <<5, 0>>],
    [Base EXCEPT !.fault = "server", !.answer = <<1>> \o Tail(@), !.answerCuts = Cut(9)],
    [Base EXCEPT !.fault = "server", !.answer = <<0, 0>> \o Uuid \o FrameOf(7, <<1>>, 0)],
    \* cut off in a frame: what is whole has arrived
    [Base EXCEPT !.answer = <<0, 0>> \o Uuid \o FrameOf(0, <<1, 2>>, 1) \o <<0, 4, 0, 9>>,
                 !.answerCuts = Cut(9), !.data = <<1, 2>>] }

MCRuns == {Base} \cup Targets \cup Credentials \cup Talks \cup CutHellos \cup Faulty
MCFlow == <<120>>
=============================================================================
