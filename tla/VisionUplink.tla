---------------------------- MODULE VisionUplink ----------------------------
(***************************************************************************)
(* The write half of a connection: the relay's pump -> VisionStream ->     *)
(* rustls -> socket -> server (vision.rs, relay.rs `pump`). One call of    *)
(* poll_write, poll_flush or poll_shutdown is one step; the socket may     *)
(* accept any part of what it is given, so every call may end Pending      *)
(* half-way.                                                               *)
(*                                                                         *)
(* Data is counted in pieces: `handed` of them have been given to Vision,  *)
(* piece i is the cell whose `data` is i.                                  *)
(***************************************************************************)
EXTENDS VisionPadding, FiniteSets

CONSTANTS
    UpPackets,      \* what the client may write
    DownPackets,    \* what sniffing the downlink may see
    MaxHanded,      \* bound: pieces of data per connection
    AlwaysFlush,    \* does the caller flush after every write, as pump does? If
                    \* not it may
    TlsCap,         \* cells rustls buffers while the socket takes no more
    SockCap         \* cells the socket buffers

ASSUME PacketsAssumption == \A p \in UpPackets \cup DownPackets : PacketOK(p)
ASSUME CapsAssumption ==
    MaxHanded \in Nat /\ AlwaysFlush \in BOOLEAN /\ TlsCap \in Nat \ {0} /\ SockCap \in Nat \ {0}

VARIABLES
    traffic,    \* TrafficState
    padder,     \* Padder
    raw,        \* VisionStream.uplink_raw
    outBuf,     \* write_pending; write_first's own buffer before that
    tlsOut,     \* accepted by rustls, not yet by the socket
    sock,       \* accepted by the socket, not yet read by the server
    cur,        \* the packet pump is writing, <<>> or <<p>>
    handed,     \* pieces given to Vision so far
    wpc,        \* where the writer is
    srv         \* the server's end

vars == <<traffic, padder, raw, outBuf, tlsOut, sock, cur, handed, wpc, srv>>

(***************************************************************************)
(* The server (external: xray's Vision reader). It takes cells in order    *)
(* and its stage says which it can make sense of: the request header, a    *)
(* frame's head or tail, data without frames, or nothing any more.         *)
(***************************************************************************)
NewServer == [stage |-> "header", direct |-> FALSE, first |-> TRUE, got |-> <<>>]

OnWire(mode, c) == [mode |-> mode, cell |-> c]

\* Data reaches the target; the number 0 stands for none.
Take(s, data) == IF data = 0 THEN s.got ELSE Append(s.got, data)

ServerAccepts(s, w) ==
    LET c == w.cell
    IN  CASE c.kind = "fin"   -> s.stage = "closed" \/ (s.direct /\ s.stage = "plain")
          [] c.kind = "alert" -> ~s.direct /\ s.stage \in {"head", "plain"} /\ w.mode = "tls"
          [] OTHER -> /\ s.stage = c.kind
                      /\ w.mode = IF s.direct THEN "raw" ELSE "tls"
                      /\ c.kind = "head" => c.uuid = s.first

ServerNext(s, w) ==
    LET c == w.cell
    IN  IF ~ServerAccepts(s, w) THEN [s EXCEPT !.stage = "error"]
        ELSE CASE c.kind = "header" -> [s EXCEPT !.stage = "head"]
               [] c.kind = "head"   -> [s EXCEPT !.stage = "tail", !.first = FALSE]
               [] c.kind = "tail"   ->
                    [s EXCEPT !.stage = IF c.cmd = "CONTINUE" THEN "head" ELSE "plain",
                              !.direct = c.cmd = "DIRECT",
                              !.got = Take(s, c.data)]
               [] c.kind = "plain"  -> [s EXCEPT !.got = Take(s, c.data)]
               [] c.kind = "alert"  -> [s EXCEPT !.stage = "closed"]
               [] c.kind = "fin"    -> [s EXCEPT !.stage = "eof"]

Header == Cell("header", "NONE", FALSE, 0)
Alert  == Cell("alert", "NONE", FALSE, 0)
Fin    == Cell("fin", "NONE", FALSE, 0)

Init ==
    /\ traffic = NewTraffic
    /\ padder = NewPadder
    /\ raw = FALSE
    /\ outBuf = <<>> /\ tlsOut = <<>> /\ sock = <<>>
    /\ cur = <<>> /\ handed = 0
    /\ wpc = "first"
    /\ srv = NewServer

---------------------------------------------------------------------------
(* rustls and the socket (external)                                          *)

Room == SockCap - Len(sock)

\* TLS is given the cells q after those it holds. The socket takes some of the
\* front, rustls holds some, `left` cells of q are refused.
TlsTake(q, left) ==
    LET all == tlsOut \o q
        kept == Len(all) - left
    IN  \E m \in 0..(IF Room < kept THEN Room ELSE kept) :
            /\ kept - m <= TlsCap
            /\ sock' = sock \o [i \in 1..m |-> OnWire("tls", all[i])]
            /\ tlsOut' = SubSeq(all, m + 1, kept)

\* poll_drain: write outBuf out as far as TLS takes it.
Drain ==
    \E left \in 0..Len(outBuf) :
        /\ TlsTake(outBuf, left)
        /\ outBuf' = SubSeq(outBuf, Len(outBuf) - left + 1, Len(outBuf))

Drained == outBuf' = <<>>
Flushed == outBuf' = <<>> /\ tlsOut' = <<>>

\* poll_settle: drain, and once the Direct frame is out of TLS go raw.
MaySwitch_Drained == Drained   \* mutant: raw while TLS still holds the Direct frame
MaySwitch == Flushed
Settle == Drain /\ raw' = (raw \/ (padder.direct /\ MaySwitch))

\* Is there anything for poll_settle to do?
Unsettled_Never == FALSE   \* mutant: a call that does not settle first
Unsettled == outBuf # <<>> \/ (padder.direct /\ ~raw)

---------------------------------------------------------------------------
(* The writer's task                                                        *)

\* write_first: the request header and the first frame in one write, the frame
\* made of the client's first payload or a camouflage when it sent none in time.
WriteFirst ==
    /\ wpc = "first"
    /\ \/ /\ outBuf' = <<Header>> \o Camouflage(padder)
          /\ padder' = [padder EXCEPT !.fresh = FALSE]
          /\ UNCHANGED <<traffic, handed>>
       \/ \E p \in UpPackets :
             LET ts == Filter(traffic, p)
             IN  /\ Len(p.pieces) <= MaxHanded
                 /\ traffic' = ts
                 /\ outBuf' = <<Header>> \o PadCells(ts, padder, p, 0)
                 /\ padder' = Padded(ts, padder, p)
                 /\ handed' = Len(p.pieces)
    /\ wpc' = "firstOut"
    /\ UNCHANGED <<raw, tlsOut, sock, cur, srv>>

\* ... written and flushed through TLS; the relay starts when all of it is out.
FirstOut ==
    /\ wpc = "firstOut"
    /\ Drain
    /\ wpc' = IF Flushed THEN "ready" ELSE "firstOut"
    /\ UNCHANGED <<traffic, padder, raw, cur, handed, srv>>

\* pump reads from the client.
PumpRead ==
    /\ wpc \in {"ready", "unflushed"}
    /\ \E p \in UpPackets :
          /\ handed + Len(p.pieces) <= MaxHanded
          /\ cur' = <<p>>
    /\ wpc' = "write"
    /\ UNCHANGED <<traffic, padder, raw, outBuf, tlsOut, sock, handed, srv>>

\* pump reads end of file from the client.
PumpEof ==
    /\ wpc \in {"ready", "unflushed"}
    /\ wpc' = "shutdown"
    /\ UNCHANGED <<traffic, padder, raw, outBuf, tlsOut, sock, cur, handed, srv>>

\* pump flushes before it reads on; another caller might not.
AfterWrite == IF AlwaysFlush THEN {"flush"} ELSE {"flush", "unflushed"}

\* poll_write finds earlier frames, or the switch to raw, unfinished.
WriteSettle ==
    /\ wpc = "write" /\ Unsettled
    /\ Settle
    /\ UNCHANGED <<traffic, padder, cur, handed, wpc, srv>>

\* poll_write while padding: the packet is sniffed and framed, all of it counts
\* as written, and as much as possible is sent at once.
WritePadded ==
    /\ wpc = "write" /\ ~Unsettled /\ padder.padding
    /\ LET p  == Head(cur)
           ts == Filter(traffic, p)
           cells == PadCells(ts, padder, p, handed)
       IN  /\ traffic' = ts
           /\ padder' = Padded(ts, padder, p)
           /\ handed' = handed + Len(p.pieces)
           /\ \E left \in 0..Len(cells) :
                 /\ TlsTake(cells, left)
                 /\ outBuf' = SubSeq(cells, Len(cells) - left + 1, Len(cells))
           /\ raw' = (raw \/ (padder'.direct /\ MaySwitch))
    /\ cur' = <<>>
    /\ wpc' \in AfterWrite
    /\ UNCHANGED srv

\* What is left of a packet after its first k pieces: nothing that starts it.
Rest(p, k) == [p EXCEPT !.hello = "none", !.ext = 0, !.cipher = "none",
                        !.pieces = SubSeq(@, k + 1, Len(@))]

\* poll_write after padding: k pieces go out as they are, none if it is Pending.
WritePlain ==
    /\ wpc = "write" /\ ~Unsettled /\ ~padder.padding
    /\ LET p == Head(cur)
       IN  /\ traffic' = Filter(traffic, p)
           /\ \E k \in 0..Len(p.pieces) :
                LET data == [i \in 1..k |-> Plain(handed + i)]
                IN  /\ \/ ~raw /\ TlsTake(data, 0)
                       \/ /\ raw /\ k <= Room
                          /\ sock' = sock \o [i \in 1..k |-> OnWire("raw", data[i])]
                          /\ UNCHANGED tlsOut
                    /\ handed' = handed + k
                    /\ \/ /\ k = Len(p.pieces)
                          /\ cur' = <<>> /\ wpc' \in AfterWrite
                       \/ /\ k < Len(p.pieces)
                          /\ cur' = <<IF k = 0 THEN p ELSE Rest(p, k)>>
                          /\ UNCHANGED wpc
    /\ UNCHANGED <<padder, raw, outBuf, srv>>

\* When poll_flush is Ready.
FlushReady_Drained == Drained   \* mutant: TLS is not flushed
FlushReady == Flushed

\* poll_flush: settle, then flush TLS or, after the switch, only the socket.
\* pump reads on when it is Ready.
Flush ==
    /\ wpc = "flush"
    /\ \/ /\ ~raw /\ Settle
          /\ wpc' = IF FlushReady THEN "ready" ELSE "flush"
       \/ /\ raw /\ wpc' = "ready"
          /\ UNCHANGED <<raw, outBuf, tlsOut, sock>>
    /\ UNCHANGED <<traffic, padder, cur, handed, srv>>

\* poll_shutdown: settle, then close the socket's write side, through TLS (which
\* first sends close_notify) unless the uplink is raw.
ShutdownSettle ==
    /\ wpc = "shutdown" /\ Unsettled
    /\ Settle
    /\ UNCHANGED <<traffic, padder, cur, handed, wpc, srv>>

ShutdownRaw ==
    /\ wpc = "shutdown" /\ ~Unsettled /\ raw
    /\ Room > 0
    /\ sock' = Append(sock, OnWire("raw", Fin))
    /\ wpc' = "closed"
    /\ UNCHANGED <<traffic, padder, raw, outBuf, tlsOut, cur, handed, srv>>

ShutdownTls ==
    /\ wpc = "shutdown" /\ ~Unsettled /\ ~raw
    /\ tlsOut' = Append(tlsOut, Alert)
    /\ wpc' = "closing"
    /\ UNCHANGED <<traffic, padder, raw, outBuf, sock, cur, handed, srv>>

CloseTls ==
    /\ wpc = "closing"
    /\ \/ /\ tlsOut # <<>> /\ TlsTake(<<>>, 0)
          /\ UNCHANGED wpc
       \/ /\ tlsOut = <<>> /\ Room > 0
          /\ sock' = Append(sock, OnWire("tls", Fin))
          /\ wpc' = "closed"
          /\ UNCHANGED tlsOut
    /\ UNCHANGED <<traffic, padder, raw, outBuf, cur, handed, srv>>

\* The other direction unpads a packet and sniffs it, between two polls.
SniffDownlink ==
    /\ wpc \notin {"first", "firstOut"}
    /\ \E p \in DownPackets : traffic' = Filter(traffic, p)
    /\ UNCHANGED <<padder, raw, outBuf, tlsOut, sock, cur, handed, wpc, srv>>

ServerRead ==
    /\ sock # <<>>
    /\ srv' = ServerNext(srv, Head(sock))
    /\ sock' = Tail(sock)
    /\ UNCHANGED <<traffic, padder, raw, outBuf, tlsOut, cur, handed, wpc>>

\* What the runtime polls to completion once pump has data.
Poll ==
    \/ WriteFirst \/ FirstOut \/ WriteSettle \/ WritePadded \/ WritePlain \/ Flush
    \/ ShutdownSettle \/ ShutdownRaw \/ ShutdownTls \/ CloseTls

Next == Poll \/ PumpRead \/ PumpEof \/ SniffDownlink \/ ServerRead

\* The runtime keeps polling a writer that can make progress and the server
\* keeps reading. Nothing makes the client send or close.
Fairness == WF_vars(Poll) /\ WF_vars(ServerRead)

Spec == Init /\ [][Next]_vars /\ Fairness

---------------------------------------------------------------------------
(* Properties.                                                              *)

Cells == {"header", "head", "tail", "plain", "alert", "fin"}

\* The buffers hold cells, the limits of rustls' and the socket's are kept, and
\* pump holds a packet exactly while it writes one (vision.rs, VisionStream).
TypeOK ==
    /\ traffic.budget \in 0..FilterPackets /\ traffic.rsh \in Int
    /\ traffic.cipher \in Ciphers
    /\ {traffic.isTls, traffic.tls12, traffic.xtls} \subseteq BOOLEAN
    /\ {padder.padding, padder.direct, padder.fresh, raw} \subseteq BOOLEAN
    /\ \A i \in DOMAIN outBuf : outBuf[i].kind \in Cells
    /\ \A i \in DOMAIN tlsOut : tlsOut[i].kind \in Cells
    /\ Len(tlsOut) <= TlsCap + 1 /\ Len(sock) <= SockCap
    /\ handed \in 0..MaxHanded
    /\ cur # <<>> <=> wpc = "write"
    /\ srv.stage \in Cells \cup {"closed", "eof", "error"}

\* The server makes sense of every byte in the mode it is in: UUID on the first
\* frame only, one terminal command, raw bytes only after a whole Direct frame
\* and nothing through TLS after it, close_notify included (vision.rs:452-465,
\* 520-526, xray #5737).
ServerInSync == srv.stage # "error"

\* A switch to raw is only ever prepared for an inner TLS 1.3 with a cipher suite
\* that may be spliced, and with it framing is over: whatever the other direction
\* sniffs afterwards takes neither back (vision.rs:202-238, 297-314).
DirectMeansTls13 == padder.direct => traffic.xtls /\ traffic.tls12 /\ ~padder.padding

\* Data that Vision was given before a flush reaches the server although nothing
\* else is written after it (vision.rs:494, relay.rs:113).
EverythingArrives ==
    \A k \in 1..MaxHanded : (wpc = "flush" /\ handed >= k) ~> Len(srv.got) >= k

\* The uplink is a reliable byte pipe.
P == INSTANCE Pipe WITH sent <- [i \in 1..handed |-> i],
                        recv <- srv.got,
                        eof  <- srv.stage = "eof"
PipeSpec == P!Spec
=============================================================================
