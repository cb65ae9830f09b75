------------------------------- MODULE Frames -------------------------------
(***************************************************************************)
(* Frames and headers byte by byte: how a write is cut into frames, what a *)
(* frame and the request header look like, and how a reader takes them     *)
(* apart again (vision.rs, vless.rs). VisionPadding decides which command  *)
(* a piece gets; here its packets are made of bytes.                       *)
(*                                                                         *)
(* A byte is a number and a field of two bytes one cell; lengths are scaled *)
(* down by the constants.                                                  *)
(***************************************************************************)
EXTENDS VisionPadding

CONSTANTS
    BufSize,        \* BUF_SIZE
    UuidLen,        \* UUID_LEN
    FieldWidth,     \* 2^16, what a length field counts to
    LongThreshold,  \* SEED_LONG_THRESHOLD
    LongBase,       \* SEED_LONG_BASE
    LongRange,      \* SEED_LONG_RANGE
    ShortRange,     \* SEED_SHORT_RANGE
    MinHello        \* 79: a shorter ServerHello is not asked for its suite

HeaderLen == 3          \* command, content length, padding length
RecordHeaderLen == 4    \* type and version, length
MaxFrameContent == BufSize - (UuidLen + HeaderLen)

ASSUME SizesAssumption ==
    /\ {UuidLen, FieldWidth, LongThreshold, LongBase, MinHello} \subseteq Nat
    /\ {LongRange, ShortRange, BufSize} \subseteq Nat \ {0}
    /\ UuidLen + HeaderLen <= BufSize \div 2
    /\ FieldWidth > BufSize

AppDataStart         == <<23, 3, 3>>
HandshakeStart       == <<22, 3>>
ServerHandshakeStart == <<22, 3, 3>>
SupportedVersions    == <<43, 4>>       \* TLS13_SUPPORTED_VERSIONS, six bytes
XtlsCiphers          == 1..4            \* 0x1301..=0x1304
ClientHelloType      == 1
ServerHelloType      == 2

---------------------------------------------------------------------------
(* What sniffing sees in a packet                                           *)

\* The kind of hello that starts b: six bytes are asked for.
HelloOf(b) ==
    IF Len(b) <= RecordHeaderLen THEN "none"
    ELSE IF IsPrefix(ServerHandshakeStart, b) /\ b[RecordHeaderLen + 1] = ServerHelloType
         THEN "server"
    ELSE IF IsPrefix(HandshakeStart, b) /\ b[RecordHeaderLen + 1] = ClientHelloType
         THEN "client"
    ELSE "none"

\* The suite follows the session ID, whose length is behind type and random.
CipherOf_NoSession(b) ==    \* mutant: as if the session ID were empty
    LET at == RecordHeaderLen + 3
    IN  IF Len(b) < MinHello \/ b[RecordHeaderLen] + RecordHeaderLen < MinHello THEN "none"
        ELSE IF b[at] \in XtlsCiphers THEN "xtls" ELSE "other"

CipherOf(b) ==
    LET sid == RecordHeaderLen + 2
        at  == sid + b[sid] + 1
    IN  IF Len(b) < MinHello \/ b[RecordHeaderLen] + RecordHeaderLen < MinHello \/ at > Len(b)
        THEN "none"
        ELSE IF b[at] \in XtlsCiphers THEN "xtls" ELSE "other"

Occurrences(w, b) == {i \in 1..(Len(b) - Len(w) + 1) : SubSeq(b, i, i + Len(w) - 1) = w}

\* A whole number of application_data records.
IsCompleteRecord(b) ==
    LET from[i \in Nat] ==
            IF i >= Len(b) THEN i = Len(b)
            ELSE /\ Len(b) - i >= RecordHeaderLen
                 /\ b[i + 1] = AppDataStart[1]
                 /\ from[i + RecordHeaderLen + b[i + RecordHeaderLen]]
    IN  from[0]

\* Where to cut a write that is too long for a frame: at the last
\* application_data header a frame can start with, or in the middle.
SplitAt(b) ==
    LET window == SubSeq(b, 1, Min({MaxFrameContent + Len(AppDataStart), Len(b)}))
        heads  == {i - 1 : i \in Occurrences(AppDataStart, window)}
    IN  IF heads # {} /\ Max(heads) \in (UuidLen + HeaderLen)..MaxFrameContent
        THEN Max(heads)
        ELSE BufSize \div 2

Reshape[b \in Seq(Nat)] ==
    IF Len(b) < MaxFrameContent THEN <<b>>
    ELSE LET at == SplitAt(b)
         IN  <<SubSeq(b, 1, at)>> \o Reshape[SubSeq(b, at + 1, Len(b))]

PacketOf(b) ==
    LET exts == Occurrences(SupportedVersions, b)
        pieces == Reshape[b]
        hello == HelloOf(b)
    IN  [hello    |-> hello,
         len      |-> Len(b),
         shLen    |-> IF hello = "server" THEN b[RecordHeaderLen] + RecordHeaderLen ELSE 0,
         cipher   |-> IF hello = "server" THEN CipherOf(b) ELSE "none",
         ext      |-> IF exts = {} THEN 0 ELSE Min(exts) + Len(SupportedVersions) - 1,
         complete |-> IsCompleteRecord(b),
         pieces   |-> [i \in DOMAIN pieces |-> /\ Len(pieces[i]) > RecordHeaderLen
                                               /\ IsPrefix(AppDataStart, pieces[i])]]

---------------------------------------------------------------------------
(* Writing                                                                  *)

SaturatingSub(a, b) == IF a > b THEN a - b ELSE 0

\* The length of padding for a content of n bytes; r is the random number.
Drawn(n, long, r) ==
    IF n < LongThreshold /\ long THEN SaturatingSub((r % LongRange) + LongBase, n)
    ELSE r % ShortRange

PaddingLen_Uncapped(n, long, r) == Drawn(n, long, r)    \* mutant: no cap
PaddingLen(n, long, r) ==
    Min({Drawn(n, long, r), SaturatingSub(BufSize, UuidLen + HeaderLen + n)})

CommandByte == [CONTINUE |-> 0, END |-> 1, DIRECT |-> 2]

XtlsPadding(data, command, uuid, pad) ==
    uuid \o <<CommandByte[command], Len(data) % FieldWidth, pad % FieldWidth>>
         \o data \o [i \in 1..pad |-> 0]

\* Long padding up to the piece that ends the inner handshake, with it included.
LongPadding(ts, p, i) ==
    InnerDone(ts, p, i) \/ (ts.isTls /\ \A j \in 1..(i - 1) : ~InnerDone(ts, p, j))

\* What pad_into appends for data, piece by piece; rs are its random numbers.
PadInto(ts, pd, data, uuid, rs) ==
    LET p == PacketOf(data)
        pieces == Reshape[data]
        stop == StopAt(ts, p)
        prefix(i) == IF pd.fresh /\ i = 1 THEN uuid ELSE <<>>
        frame(i) == XtlsPadding(pieces[i], Command(ts, p, i), prefix(i),
                                PaddingLen(Len(pieces[i]), LongPadding(ts, p, i), rs[i]))
    IN  IF ~pd.padding THEN <<data>>
        ELSE [i \in DOMAIN pieces |-> IF stop > 0 /\ i > stop THEN pieces[i] ELSE frame(i)]

\* An empty frame with long padding behind the request header.
CamouflageBytes(pd, uuid, r) ==
    XtlsPadding(<<>>, "CONTINUE", IF pd.fresh THEN uuid ELSE <<>>, PaddingLen(0, TRUE, r))

\* The address types of VLESS are not those of SOCKS5.
VlessAtyp_Socks == [ip4 |-> 1, domain |-> 3, ip6 |-> 4]     \* mutant: SOCKS5's
VlessAtyp == [ip4 |-> 1, domain |-> 2, ip6 |-> 3]

Addons(flow) == IF flow = <<>> THEN <<>> ELSE <<10, Len(flow) % 256>> \o flow

RequestHeader(uuid, flow, target) ==
    <<0>> \o uuid \o <<Len(Addons(flow)) % 256>> \o Addons(flow)
          \o <<1, target.port, VlessAtyp[target.kind]>>
          \o (IF target.kind = "domain" THEN <<Len(target.addr) % 256>> ELSE <<>>)
          \o target.addr

---------------------------------------------------------------------------
(* Reading                                                                  *)

NewUnpadder == [expectUuid |-> TRUE, done |-> FALSE, direct |-> FALSE, failed |-> FALSE]

\* Bytes behind END or DIRECT are data as they are.
PassedOn(r) == [r EXCEPT !.buf = <<>>, !.out = @ \o r.buf]

\* One turn of unpad's loop; r has the unpadder, its input and its output. A
\* frame that is not there to its end stays in the input.
UnpadTurn(r) ==
    LET at == IF r.u.expectUuid THEN UuidLen ELSE 0
        data == at + HeaderLen
        command == r.buf[at + 1]
        content == r.buf[at + 2]
        total == data + content + r.buf[at + 3]
    IN  IF r.u.failed THEN r
        ELSE IF r.u.done THEN PassedOn(r)
        ELSE IF Len(r.buf) < data \/ Len(r.buf) < total THEN r
        ELSE [u   |-> [expectUuid |-> FALSE, done |-> command \in {1, 2},
                       direct |-> command = 2, failed |-> command \notin 0..2],
              buf |-> SubSeq(r.buf, total + 1, Len(r.buf)),
              out |-> r.out \o SubSeq(r.buf, data + 1, data + content)]

\* A turn that does something takes at least a frame header off the input.
Unpad(u, buf) ==
    LET after[k \in Nat] == IF k = 0 THEN [u |-> u, buf |-> buf, out |-> <<>>]
                            ELSE UnpadTurn(after[k - 1])
    IN  after[Len(buf) + 1]

\* ResponseHeader::feed: version, length of the addons, addons.
Feed(done, buf) ==
    LET same == [done |-> done, buf |-> buf, failed |-> FALSE]
    IN  IF done \/ Len(buf) < 2 THEN same
        ELSE IF buf[1] # 0 THEN [same EXCEPT !.failed = TRUE]
        ELSE IF Len(buf) < 2 + buf[2] THEN same
        ELSE [same EXCEPT !.done = TRUE, !.buf = SubSeq(buf, 3 + buf[2], Len(buf))]
=============================================================================
