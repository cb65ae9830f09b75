------------------------------ MODULE Scenario ------------------------------
(***************************************************************************)
(* What a connection of Session may be about: the credentials in the       *)
(* configuration, all that a client sends and all that the server answers, *)
(* and, in terms of the formats alone, what each of them means: texts that *)
(* write bytes, a handshake that asks for a target, and the answer as a    *)
(* reader with all of it at once would have it.                            *)
(***************************************************************************)
EXTENDS Frames

CONSTANTS
    Runs,           \* what a connection may be about, see RunFields
    Randoms,        \* numbers the padding's generator may draw
    KeyLen,         \* bytes of a public key
    AccWidth,       \* width of base64_decode's accumulator
    MaxShortId,     \* SHORT_ID_LEN
    Ip4Len, Ip6Len, \* bytes of an address
    RequiredFlow    \* REQUIRED_FLOW

RunFields == {
    "raw",                  \* the credentials as the configuration has them
    "want",                 \* and what the server knows them as, with the target
    "input", "cuts",        \* all the client sends, and where its writes may end
    "head", "closes",       \* the handshake's length; does it close at the end?
    "answer", "answerCuts", \* the same for the server
    "data",                 \* the proxied data in the answer
    "fault",                \* who makes the connection fail, "none" if nobody
    "tls13" }               \* the inner handshake allows XTLS

C == INSTANCE Config

---------------------------------------------------------------------------
(* Texts                                                                    *)

HexDigits(v) == IF v < 10 THEN {48 + v} ELSE {55 + v, 87 + v}
IsHex(text, n) == /\ Len(text) = 2 * n
                  /\ \A i \in DOMAIN text : \E v \in 0..15 : text[i] \in HexDigits(v)
WritesHex(text, bytes) ==
    /\ IsHex(text, Len(bytes))
    /\ \A i \in DOMAIN bytes : /\ text[2 * i - 1] \in HexDigits(bytes[i] \div 16)
                               /\ text[2 * i] \in HexDigits(bytes[i] % 16)

Base64Chars(v) == CASE v < 26 -> {65 + v} [] v \in 26..51 -> {71 + v} [] v \in 52..61 -> {v - 4}
                    [] v = 62 -> {43, 45} [] v = 63 -> {47, 95}
\* n characters and no more than padding behind them.
Is64(text, n) == /\ n \in 0..Len(text) /\ \A i \in (n + 1)..Len(text) : text[i] = 61
                 /\ \A i \in 1..n : \E v \in 0..63 : text[i] \in Base64Chars(v)
\* A byte is in the twelve bits of two characters, 0, 2 or 4 bits from the left.
InSextets(byte, i, v, w) ==
    byte = ((64 * v + w) \div (CASE i % 3 = 1 -> 16 [] i % 3 = 2 -> 4 [] i % 3 = 0 -> 1)) % 256
Writes64(text, bytes) ==
    /\ \E n \in 0..Len(text) : Is64(text, n) /\ Len(bytes) = (6 * n) \div 8
    /\ \A i \in DOMAIN bytes :
          LET at == (4 * (i - 1)) \div 3 + 1
          IN  \E v, w \in 0..63 : /\ text[at] \in Base64Chars(v) /\ text[at + 1] \in Base64Chars(w)
                                  /\ InSextets(bytes[i], i, v, w)

ShortIdField(id) == [i \in 1..MaxShortId |-> IF i <= Len(id) THEN id[i] ELSE 0]

\* Credentials a connection can be made with, and those the server knows.
Usable(raw) == /\ IsHex(C!NoHyphens(raw.uuid), UuidLen) /\ raw.flow = RequiredFlow
               /\ \E n \in 0..Len(raw.publicKey) : Is64(raw.publicKey, n) /\ (6 * n) \div 8 = KeyLen
               /\ \E n \in 0..MaxShortId : IsHex(raw.shortId, n)
Names(raw, want) ==
    /\ WritesHex(C!NoHyphens(raw.uuid), want.uuid) /\ Writes64(raw.publicKey, want.key)
    /\ \E n \in 0..MaxShortId : LET id == SubSeq(want.shortId, 1, n)
                                IN  WritesHex(raw.shortId, id) /\ want.shortId = ShortIdField(id)

\* b starts with a SOCKS5 handshake of `head` bytes, without authentication.
Greets(b) == Len(b) >= 2 /\ b[1] = 5 /\ Len(b) >= 2 + b[2]
OffersNone(b) == \E i \in 3..(2 + b[2]) : b[i] = 0
Asks(b, head, t) ==
    LET m == 2 + b[2]
        names(atyp, at, len) == /\ b[m + 4] = atyp /\ head = at + len + 1 /\ Len(b) >= head
                                /\ t.addr = SubSeq(b, at + 1, at + len)
    IN  /\ Greets(b) /\ OffersNone(b)
        /\ Len(b) > m + 4 /\ b[m + 1] = 5 /\ b[m + 2] = 1
        /\ CASE t.kind = "ip4" -> names(1, m + 4, Ip4Len)
             [] t.kind = "ip6" -> names(4, m + 4, Ip6Len)
             [] t.kind = "domain" -> /\ names(3, m + 5, b[m + 5])
                                     /\ \A i \in DOMAIN t.addr : t.addr[i] # 255
             [] OTHER -> FALSE
        /\ t.port = b[head]

AnswerFails(b) == LET fed == Feed(FALSE, b)
                  IN  fed.failed \/ (fed.done /\ Unpad(NewUnpadder, fed.buf).u.failed)
AnswerData(b) == LET fed == Feed(FALSE, b)
                 IN  IF fed.done THEN Unpad(NewUnpadder, fed.buf).out ELSE <<>>

RunOK(r) ==
    /\ DOMAIN r = RunFields /\ r.raw \in C!RawCredentials
    /\ r.fault \in {"none", "server", "config", "client", "method"}
    /\ {r.input, r.answer, r.data} \subseteq Seq(Nat)
    /\ {r.want.uuid, r.want.key, r.want.shortId} \subseteq Seq(0..255)
    /\ r.cuts \subseteq 0..Len(r.input) /\ r.answerCuts \subseteq 0..Len(r.answer)
    /\ r.head \in Nat
    /\ r.fault \in {"none", "server"} =>
          /\ Usable(r.raw) /\ Names(r.raw, r.want)
          /\ Asks(r.input, r.head, r.want.target)
          /\ r.want.target \in [kind : {"ip4", "ip6", "domain"}, addr : Seq(Nat), port : Nat]
          /\ r.want.target.kind = "domain" => Len(r.want.target.addr) < 256
    /\ r.fault = "config" => ~Usable(r.raw)
    /\ r.fault \in {"client", "method"} =>
          \A kind \in {"ip4", "ip6", "domain"}, i \in 1..Len(r.input), j \in 1..Len(r.input) :
              ~Asks(r.input, i, [kind |-> kind, addr |-> SubSeq(r.input, j, i - 1), port |-> r.input[i]])
    /\ r.fault # "method" /\ Greets(r.input) => OffersNone(r.input)
    /\ AnswerFails(r.answer) <=> r.fault = "server"
    /\ \A n \in 0..Len(r.answer) : LET b == SubSeq(r.answer, 1, n) IN
          ~AnswerFails(b) => /\ IsPrefix(AnswerData(b), r.data)
                             /\ n = Len(r.answer) => AnswerData(b) = r.data

ASSUME RunsAssumption == \A r \in Runs : RunOK(r)

ASSUME WidthsAssumption ==
    /\ {KeyLen, AccWidth, MaxShortId} \cup Randoms \subseteq Nat
    /\ {Ip4Len, Ip6Len} \subseteq Nat \ {0}
    /\ AccWidth > 0 /\ AccWidth % 4096 = 0     \* two characters at least
    /\ RequiredFlow \in Seq(Nat) /\ Len(RequiredFlow) < 254
=============================================================================
