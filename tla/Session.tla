------------------------------ MODULE Session ------------------------------
(***************************************************************************)
(* One connection from the configuration and the client's first byte to    *)
(* the last byte of the answer, in bytes: socks5::handshake and reply,     *)
(* outbound::open with read_first_payload and write_first, and then        *)
(* VisionStream's two directions with the one TrafficState they share.     *)
(*                                                                         *)
(* The layers below (TLS, the record gate, partial writes) are those of    *)
(* VisionDownlink and VisionUplink; here they are a byte stream each way.  *)
(* The server is external: it reads a request and frames in the formats    *)
(* vless.rs and vision.rs refer to, and answers what its run prescribes.   *)
(***************************************************************************)
EXTENDS Scenario, FiniteSets

VARIABLES
    run,        \* what this connection is about
    cfg,        \* the configuration's credentials, once it is loaded
    phase,      \* where handle_connection is
    need,       \* how many bytes the handshake reads next
    target,     \* what the handshake has read of the target
    sent,       \* how much of the client's input has arrived
    taken,      \* and has been read
    replies,    \* what the client has been told
    traffic, padder,
    wire,       \* written to the outer TLS stream, not yet read by the server
    closed,     \* and no more will be written
    largest,    \* history: the longest frame
    server,     \* external: what the server has made of what it read
    answered,   \* how much of the answer has arrived
    reader,     \* VisionStream's reading half, with the position it has read to
    received,   \* what the client has been given of the answer
    ended       \* and that there is no more

vars == <<run, cfg, phase, need, target, sent, taken, replies, traffic, padder, wire,
          closed, largest, server, answered, reader, received, ended>>

handshakeVars == <<need, target, replies>>
uplinkVars    == <<padder, wire, closed, largest>>
downlinkVars  == <<answered, reader, received, ended>>

NoTarget == [kind |-> "none", addr |-> <<>>, port |-> 0]

Init ==
    /\ run \in Runs
    /\ cfg = {}
    /\ phase = "load"
    /\ need = 0
    /\ target = NoTarget
    /\ sent = 0
    /\ taken = 0
    /\ replies = <<>>
    /\ traffic = NewTraffic
    /\ padder = NewPadder
    /\ wire = <<>>
    /\ closed = FALSE
    /\ largest = 0
    /\ server = [auth |-> {}, req |-> {}, buf |-> <<>>, prefix |-> <<>>,
                 unpadder |-> NewUnpadder, data |-> <<>>, eof |-> FALSE]
    /\ answered = 0
    /\ reader = [at |-> 0, header |-> FALSE, buf |-> <<>>, unpadder |-> NewUnpadder]
    /\ received = <<>>
    /\ ended = FALSE

---------------------------------------------------------------------------
(* The two ends                                                             *)

\* The next write of the client arrives; it need not wait for any reply.
ClientSends ==
    /\ sent < Len(run.input)
    /\ \E n \in run.cuts \cup {Len(run.input)} : n > sent /\ sent' = n
    /\ UNCHANGED <<run, cfg, phase, taken, traffic, server, handshakeVars, uplinkVars,
                   downlinkVars>>

ClientDone == run.closes /\ sent = Len(run.input)

\* The server answers once it has the request.
ServerAnswers ==
    /\ server.req # {}
    /\ answered < Len(run.answer)
    /\ \E n \in run.answerCuts \cup {Len(run.answer)} : n > answered /\ answered' = n
    /\ UNCHANGED <<run, cfg, phase, sent, taken, traffic, server, handshakeVars, uplinkVars,
                   reader, received, ended>>

XrayAtyp == <<"ip4", "domain", "ip6">>

\* A request at the start of b: none while it is not there to its end.
DecodeRequest(b) ==
    LET addons == b[UuidLen + 2]
        command == UuidLen + 3 + addons
        kind == XrayAtyp[b[command + 2]]
        at == command + (IF kind = "domain" THEN 4 ELSE 3)
        len == CASE kind = "ip4" -> Ip4Len [] kind = "ip6" -> Ip6Len
                 [] kind = "domain" -> b[command + 3]
    IN  IF Len(b) < UuidLen + 2 THEN {}
        ELSE IF Len(b) < command + 3 THEN {}
        ELSE IF b[1] # 0 \/ b[command] # 1 \/ b[command + 2] \notin DOMAIN XrayAtyp THEN {}
        ELSE IF Len(b) < at + len - 1 THEN {}
        ELSE {[uuid |-> SubSeq(b, 2, UuidLen + 1),
               flow |-> SubSeq(b, UuidLen + 5, command - 1),
               target |-> [kind |-> kind, addr |-> SubSeq(b, at, at + len - 1),
                           port |-> b[command + 1]],
               size |-> at + len - 1]}

\* It reads byte by byte or all there is.
ServerReads ==
    /\ wire # <<>>
    /\ \E n \in {1, Len(wire)} :
        LET all == server.buf \o SubSeq(wire, 1, n)
            found == IF server.req = {} THEN DecodeRequest(all) ELSE server.req
            rest == IF server.req = {} /\ found # {}
                    THEN SubSeq(all, (CHOOSE q \in found : TRUE).size + 1, Len(all))
                    ELSE all
            new == IF server.req = {} THEN rest ELSE SubSeq(wire, 1, n)
            pre == server.prefix \o new
            got == Unpad(server.unpadder, rest)
        IN  /\ wire' = SubSeq(wire, n + 1, Len(wire))
            /\ server' = IF found = {} THEN [server EXCEPT !.buf = all]
                         ELSE [server EXCEPT !.req = found, !.buf = got.buf,
                                             !.unpadder = got.u, !.data = @ \o got.out,
                                             !.prefix = SubSeq(pre, 1, Min({UuidLen, Len(pre)}))]
    /\ UNCHANGED <<run, cfg, phase, sent, taken, traffic, handshakeVars, padder, closed,
                   largest, downlinkVars>>

ServerSeesEnd ==
    /\ closed /\ wire = <<>> /\ ~server.eof
    /\ server' = [server EXCEPT !.eof = TRUE]
    /\ UNCHANGED <<run, cfg, phase, sent, taken, traffic, handshakeVars, uplinkVars, downlinkVars>>

---------------------------------------------------------------------------
(* Configuration and SOCKS5 handshake                                       *)

Load ==
    /\ phase = "load"
    /\ cfg' = C!LoadConfig(run.raw)
    /\ phase' = IF cfg' = {} THEN "failed" ELSE "greeting"
    /\ need' = 2
    /\ UNCHANGED <<run, sent, taken, traffic, server, target, replies, uplinkVars, downlinkVars>>

\* read_exact: all the bytes that are needed, and none beyond.
ReadExact(p) == phase = p /\ sent - taken >= need /\ taken' = taken + need
Bytes == SubSeq(run.input, taken + 1, taken + need)

Greeting ==
    /\ ReadExact("greeting")
    /\ phase' = IF Bytes[1] = 5 THEN "methods" ELSE "failed"
    /\ need' = Bytes[2]
    /\ UNCHANGED <<run, cfg, sent, traffic, server, target, replies, uplinkVars, downlinkVars>>

Methods ==
    /\ ReadExact("methods")
    /\ LET accepted == \E i \in DOMAIN Bytes : Bytes[i] = 0
       IN  /\ replies' = Append(replies, IF accepted THEN <<5, 0>> ELSE <<5, 255>>)
           /\ phase' = IF accepted THEN "request" ELSE "failed"
    /\ need' = 4
    /\ UNCHANGED <<run, cfg, sent, traffic, server, target, uplinkVars, downlinkVars>>

Socks5Atyp == [atyp \in {1, 3, 4} |-> CASE atyp = 1 -> "ip4" [] atyp = 3 -> "domain"
                                        [] atyp = 4 -> "ip6"]

Request ==
    /\ ReadExact("request")
    /\ IF Bytes[1] = 5 /\ Bytes[2] = 1 /\ Bytes[4] \in DOMAIN Socks5Atyp
       THEN LET kind == Socks5Atyp[Bytes[4]]
            IN  /\ target' = [target EXCEPT !.kind = kind]
                /\ phase' = IF kind = "domain" THEN "length" ELSE "address"
                /\ need' = CASE kind = "ip4" -> Ip4Len [] kind = "ip6" -> Ip6Len
                             [] kind = "domain" -> 1
       ELSE phase' = "failed" /\ UNCHANGED <<target, need>>
    /\ UNCHANGED <<run, cfg, sent, traffic, server, replies, uplinkVars, downlinkVars>>

DomainLength ==
    /\ ReadExact("length")
    /\ need' = Bytes[1]
    /\ phase' = "address"
    /\ UNCHANGED <<run, cfg, sent, traffic, server, target, replies, uplinkVars, downlinkVars>>

\* 255 stands for bytes that are not UTF-8.
AddressBytes ==
    /\ ReadExact("address")
    /\ target' = [target EXCEPT !.addr = Bytes]
    /\ phase' = IF target.kind = "domain" /\ \E i \in DOMAIN Bytes : Bytes[i] = 255
                THEN "failed" ELSE "port"
    /\ need' = 1
    /\ UNCHANGED <<run, cfg, sent, traffic, server, replies, uplinkVars, downlinkVars>>

\* The port is one cell of the input.
Port ==
    /\ ReadExact("port")
    /\ target' = [target EXCEPT !.port = Bytes[1]]
    /\ phase' = "reply"
    /\ need' = 0
    /\ UNCHANGED <<run, cfg, sent, traffic, server, replies, uplinkVars, downlinkVars>>

HandshakePhases == {"greeting", "methods", "request", "length", "address", "port"}

\* End of file in the middle of a read_exact.
HangsUp ==
    /\ phase \in HandshakePhases
    /\ ClientDone /\ sent - taken < need
    /\ phase' = "failed"
    /\ UNCHANGED <<run, cfg, sent, taken, traffic, server, handshakeVars, uplinkVars, downlinkVars>>

\* The client is told that all is well before anything is known of the server.
Reply ==
    /\ phase = "reply"
    /\ replies' = Append(replies, <<5, 0, 0, 1>>)
    /\ phase' = "connect"
    /\ UNCHANGED <<run, cfg, sent, taken, traffic, server, need, target, uplinkVars, downlinkVars>>

---------------------------------------------------------------------------
(* outbound::open                                                           *)

Creds == CHOOSE c \in cfg : TRUE

\* Dial and Reality handshake: the flow is looked at before, the length of the
\* short ID in it.
Connect ==
    /\ phase = "connect"
    /\ IF Creds.flow = RequiredFlow /\ Len(Creds.shortId) <= MaxShortId
       THEN /\ server' = [server EXCEPT !.auth = {[key |-> Creds.publicKey,
                                                   shortId |-> ShortIdField(Creds.shortId)]}]
            /\ phase' = "first"
       ELSE phase' = "failed" /\ UNCHANGED server
    /\ UNCHANGED <<run, cfg, sent, taken, traffic, handshakeVars, uplinkVars, downlinkVars>>

\* No connection, or it is lost.
NetworkFails ==
    /\ phase \in {"connect", "first"}
    /\ phase' = "lost"
    /\ UNCHANGED <<run, cfg, sent, taken, traffic, server, handshakeVars, uplinkVars, downlinkVars>>

Framed_Unsniffed(data, r) ==    \* mutant: framed before it is sniffed
    PadInto(traffic, padder, data, Creds.uuid, [i \in 1..Len(data) |-> r])

Framed(data, r) ==
    LET ts == Filter(traffic, PacketOf(data))
    IN  PadInto(ts, padder, data, Creds.uuid, [i \in 1..Len(data) |-> r])

\* Vision's writing half takes data over, `before` written in front of it.
VisionWrites(before, data) ==
    /\ traffic' = Filter(traffic, PacketOf(data))
    /\ padder' = IF padder.padding THEN Padded(traffic', padder, PacketOf(data)) ELSE padder
    /\ \E r \in Randoms :
        LET chunks == Framed(data, r)
        IN  /\ wire' = wire \o before \o FlattenSeq(chunks)
            /\ largest' = IF padder.padding
                          THEN Max({largest} \cup {Len(chunks[i]) : i \in DOMAIN chunks})
                          ELSE largest

Header == RequestHeader(Creds.uuid, Creds.flow, target)

\* One read of the client, no more than one frame holds.
FirstPayload ==
    /\ phase = "first"
    /\ taken < sent
    /\ LET n == Min({MaxFrameContent, sent - taken})
       IN  /\ taken' = taken + n
           /\ VisionWrites(Header, SubSeq(run.input, taken + 1, taken + n))
    /\ phase' = "relay"
    /\ UNCHANGED <<run, cfg, sent, server, handshakeVars, closed, downlinkVars>>

\* What the client has sent by now is lost with the read that is given up?
LostInTimeout_All == sent - taken    \* mutant: the read had taken it
LostInTimeout == 0

\* The time is up, or the client has closed: an empty frame instead.
NoPayload ==
    /\ phase = "first"
    /\ taken' = taken + LostInTimeout
    /\ \E r \in Randoms :
        LET frame == CamouflageBytes(padder, Creds.uuid, r)
        IN  /\ wire' = Header \o frame
            /\ largest' = Len(frame)
    /\ padder' = [padder EXCEPT !.fresh = FALSE]
    /\ phase' = "relay"
    /\ UNCHANGED <<run, cfg, sent, traffic, server, handshakeVars, closed, downlinkVars>>

---------------------------------------------------------------------------
(* The relay's pumps over VisionStream                                      *)

PumpUp ==
    /\ phase = "relay"
    /\ taken < sent
    /\ taken' = sent
    /\ VisionWrites(<<>>, SubSeq(run.input, taken + 1, sent))
    /\ UNCHANGED <<run, cfg, phase, sent, server, handshakeVars, closed, downlinkVars>>

PumpUpEnds ==
    /\ phase = "relay"
    /\ ClientDone /\ taken = sent /\ ~closed
    /\ closed' = TRUE
    /\ UNCHANGED <<run, cfg, phase, sent, taken, traffic, server, handshakeVars, padder, wire,
                   largest, downlinkVars>>

Fresh == SubSeq(run.answer, reader.at + 1, answered)
Reads == phase = "relay" /\ reader.at < answered

Deliver(out) == received' = received \o out
Sniff(out) == traffic' = IF out = <<>> THEN traffic ELSE Filter(traffic, PacketOf(out))

\* While there are frames to come: response header, frames, sniffing.
PaddedRead ==
    /\ Reads
    /\ ~(reader.unpadder.done /\ reader.buf = <<>>)
    /\ LET fed == Feed(reader.header, reader.buf \o Fresh)
           got == IF fed.done THEN Unpad(reader.unpadder, fed.buf)
                  ELSE [u |-> reader.unpadder, buf |-> fed.buf, out |-> <<>>]
       IN  IF fed.failed \/ got.u.failed
           THEN phase' = "failed" /\ UNCHANGED <<reader, received, traffic>>
           ELSE /\ reader' = [at |-> answered, header |-> fed.done, buf |-> got.buf,
                              unpadder |-> got.u]
                /\ Deliver(got.out)
                /\ Sniff(got.out)
                /\ UNCHANGED phase
    /\ UNCHANGED <<run, cfg, sent, taken, server, handshakeVars, uplinkVars, answered, ended>>

\* Behind END bytes are only sniffed, behind DIRECT not even that.
PlainRead ==
    /\ Reads
    /\ reader.unpadder.done /\ reader.buf = <<>>
    /\ reader' = [reader EXCEPT !.at = answered]
    /\ Deliver(Fresh)
    /\ IF reader.unpadder.direct THEN UNCHANGED traffic ELSE Sniff(Fresh)
    /\ UNCHANGED <<run, cfg, phase, sent, taken, server, handshakeVars, uplinkVars, answered, ended>>

\* What is left of a frame is dropped. Behind END the empty read is sniffed as well.
AnswerEnds ==
    /\ phase = "relay"
    /\ server.req # {} /\ reader.at = Len(run.answer) /\ ~ended
    /\ ended' = TRUE
    /\ traffic' = IF reader.unpadder.done /\ reader.buf = <<>> /\ ~reader.unpadder.direct
                  THEN Filter(traffic, PacketOf(<<>>)) ELSE traffic
    /\ UNCHANGED <<run, cfg, phase, sent, taken, server, handshakeVars, uplinkVars,
                   answered, reader, received>>

Next ==
    \/ ClientSends \/ ServerAnswers \/ ServerReads \/ ServerSeesEnd
    \/ Load \/ Greeting \/ Methods \/ Request \/ DomainLength \/ AddressBytes \/ Port
    \/ HangsUp \/ Reply
    \/ Connect \/ NetworkFails \/ FirstPayload \/ NoPayload
    \/ PumpUp \/ PumpUpEnds \/ PaddedRead \/ PlainRead \/ AnswerEnds

Spec == Init /\ [][Next]_vars

---------------------------------------------------------------------------
(* Properties                                                               *)

\* No frame, the first one's UUID included, is longer than the buffer xray's
\* reader has for it (vision.rs:46), and positions are in order.
TypeOK ==
    /\ run \in Runs /\ cfg \subseteq C!Credentials /\ Cardinality(cfg) <= 1
    /\ phase \in HandshakePhases \cup {"load", "reply", "connect", "first", "relay", "failed", "lost"}
    /\ taken <= sent /\ sent <= Len(run.input)
    /\ reader.at <= answered /\ answered <= Len(run.answer)
    /\ traffic.budget \in 0..FilterPackets /\ traffic.cipher \in Ciphers
    /\ largest <= BufSize

\* However the client's bytes are cut, the server authenticates the key and short
\* ID the configuration was written with, and is asked for the user, the flow and
\* the target the client named: base64, hex, UUID, SOCKS5 address and VLESS request
\* header agree (config.rs:133-198, socks5.rs:27-53, vless.rs:32-57).
AsAsked ==
    /\ \A a \in server.auth : a.key = run.want.key /\ a.shortId = run.want.shortId
    /\ \A q \in server.req : /\ q.uuid = run.want.uuid /\ q.flow = RequiredFlow
                             /\ q.target = run.want.target
    /\ IsPrefix(server.prefix, run.want.uuid)

\* Both directions are byte pipes: what the client sends behind its request, and
\* what the server puts into its answer, is delivered in order, once, and completely
\* before the end, whatever the first payload's wait ends with (mod.rs:56-65).
ClientPayload == SubSeq(run.input, run.head + 1, IF sent > run.head THEN sent ELSE run.head)
Up   == INSTANCE Pipe WITH sent <- ClientPayload, recv <- server.data, eof <- server.eof
Down == INSTANCE Pipe WITH sent <- IF answered = 0 THEN <<>> ELSE run.data,
                           recv <- received, eof <- ended
PipesSpec == Up!Spec /\ Down!Spec

\* Nothing waits for the next call: when the wire is read empty the server has all
\* that was taken from the client, and when the answer is read so has the client.
NothingHeldBack ==
    /\ phase = "relay" /\ wire = <<>> =>
          server.data = SubSeq(run.input, run.head + 1, taken)
    /\ phase = "relay" /\ answered > 0 /\ reader.at = Len(run.answer) => received = run.data

\* A connection is given up only for a fault of somebody, a configuration or client
\* at fault never gets through to the server, and a client is told which it was only
\* if it offers no method there is (socks5.rs:20-23).
RefusedForCause ==
    /\ phase = "failed" => run.fault # "none"
    /\ run.fault \notin {"none", "server"} => server.req = {}
    /\ <<5, 255>> \in {replies[i] : i \in DOMAIN replies} => run.fault = "method"

\* The verdict that lets the uplink go raw is given only if the inner handshake is
\* TLS 1.3 with an allowed suite, wherever frames and reads cut its ServerHello,
\* whatever follows it and whatever the other direction has sniffed in between. The
\* client must not send the extension's bytes itself: until a hello is complete its
\* packets are searched for them too (vision.rs:202-238).
VerdictTrue ==
    traffic.xtls /\ Occurrences(SupportedVersions, run.input) = {} => run.tls13
=============================================================================
