--------------------------- MODULE VisionPadding ---------------------------
(***************************************************************************)
(* The pure part of the write direction: what sniffing a packet does to    *)
(* the TrafficState both directions share, and the frames Padder makes of  *)
(* one write (vision.rs).                                                  *)
(*                                                                         *)
(* A packet is what these functions look at:                               *)
(*   hello     "client", "server" (a ServerHello record starts it) or      *)
(*             "none"                                                      *)
(*   len       its length, in some unit                                    *)
(*   shLen     the length of the ServerHello record, header included       *)
(*   cipher    the suite, "xtls" when XTLS_CIPHERS has it, "other" when    *)
(*             not, "none" when it cannot be read from this packet         *)
(*   ext       where supported_versions = TLS 1.3 ends in it, 0 if nowhere *)
(*   complete  it is a whole number of application_data records            *)
(*   pieces    what reshape makes of it: for each piece, whether it starts *)
(*             with an application_data record header                      *)
(***************************************************************************)
EXTENDS Integers, Sequences, SequencesExt

CONSTANT FilterPackets    \* FILTER_PACKETS: packets sniffed, both directions together

ASSUME FilterPacketsAssumption == FilterPackets \in Nat

Ciphers == {"none", "xtls", "other"}

Packets == [hello : {"none", "client", "server"}, len : Nat, shLen : Nat,
            cipher : Ciphers, ext : Nat, complete : BOOLEAN, pieces : Seq(BOOLEAN)]

PacketOK(p) == p \in Packets /\ p.ext <= p.len /\ p.pieces # <<>>

---------------------------------------------------------------------------
(* TrafficState                                                             *)

NewTraffic == [budget |-> FilterPackets, isTls |-> FALSE, tls12 |-> FALSE,
               xtls |-> FALSE, cipher |-> "none", rsh |-> -1]

\* What the start of the packet says.
SeeHello(ts, p) ==
    CASE p.hello = "server" ->
            [ts EXCEPT !.rsh = p.shLen, !.tls12 = TRUE, !.isTls = TRUE,
                       !.cipher = IF p.cipher = "none" THEN ts.cipher ELSE p.cipher]
      [] p.hello = "client" -> [ts EXCEPT !.isTls = TRUE]
      [] OTHER -> ts

\* The extension is in what this packet has of the ServerHello.
SaysTls13_Beyond(ts, p) == p.ext > 0    \* mutant: or behind it
SaysTls13(ts, p) == p.ext > 0 /\ p.ext <= ts.rsh

\* Inside a ServerHello: look for TLS 1.3 up to its end, which may be in a later
\* packet. A verdict ends the sniffing.
ScanServerHello(ts, p) ==
    LET found == SaysTls13(ts, p)
        left  == ts.rsh - p.len
    IN  [ts EXCEPT !.rsh = left,
                   !.xtls = IF found THEN ts.cipher = "xtls" ELSE ts.xtls,
                   !.budget = IF found \/ left <= 0 THEN 0 ELSE ts.budget]

Exhausted_Never(ts) == FALSE   \* mutant: sniffing past the last packet
Exhausted(ts) == ts.budget <= 0

Filter(ts, p) ==
    LET seen == SeeHello([ts EXCEPT !.budget = @ - 1], p)
    IN  IF Exhausted(ts) THEN ts
        ELSE IF seen.rsh > 0 THEN ScanServerHello(seen, p)
        ELSE seen

---------------------------------------------------------------------------
(* Padder                                                                   *)

\* A frame is two cells, so that a partial write can cut it in half; `data`
\* numbers the pieces of proxied data of a connection, 0 for none.
Cell(kind, cmd, uuid, data) == [kind |-> kind, cmd |-> cmd, uuid |-> uuid, data |-> data]
Frame(cmd, uuid, data) ==
    <<Cell("head", cmd, uuid, 0), Cell("tail", cmd, FALSE, data)>>
Plain(data) == Cell("plain", "NONE", FALSE, data)

NewPadder == [padding |-> TRUE, direct |-> FALSE, fresh |-> TRUE]

EndCommand(ts) == IF ts.xtls THEN "DIRECT" ELSE "END"

\* The inner handshake is over at piece i: an application_data record starts it
\* and the whole write is complete records.
InnerDone(ts, p, i) == ts.isTls /\ p.pieces[i] /\ p.complete

\* Not TLS 1.2 or above and hardly anything left to sniff: end one packet early.
GiveUp(ts) == ~ts.tls12 /\ ts.budget <= 1

\* The piece whose END stops the framing of this write, 0 if none does.
StopAt(ts, p) ==
    LET open == {i \in DOMAIN p.pieces : ~InnerDone(ts, p, i)}
    IN  IF GiveUp(ts) /\ open # {} THEN CHOOSE i \in open : \A j \in open : i <= j ELSE 0

PaddingEnds(ts, p) ==
    StopAt(ts, p) > 0 \/ \E i \in DOMAIN p.pieces : InnerDone(ts, p, i)

Command(ts, p, i) ==
    IF i = StopAt(ts, p) THEN "END"
    ELSE IF i = Len(p.pieces) /\ PaddingEnds(ts, p) THEN EndCommand(ts)
    ELSE "CONTINUE"

\* The pieces up to the one whose END stops the framing are framed.
InFrames(ts, p) == IF StopAt(ts, p) > 0 THEN StopAt(ts, p) ELSE Len(p.pieces)

\* Pieces behind the END of the same write follow it as they are.
Unframed_Lost(ts, p) == 0   \* mutant: they are forgotten
Unframed(ts, p) == Len(p.pieces) - InFrames(ts, p)

\* The cells one write becomes, two for a framed piece; its pieces are numbered
\* from base + 1.
PadCells(ts, pd, p, base) ==
    LET framed  == InFrames(ts, p)
        piece(j) == (j + 1) \div 2
        frame(i) == Frame(Command(ts, p, i), pd.fresh /\ i = 1, base + i)
    IN  [j \in 1..2 * framed |-> frame(piece(j))[IF j % 2 = 1 THEN 1 ELSE 2]]
        \o [j \in 1..Unframed(ts, p) |-> Plain(base + framed + j)]

\* Whether the uplink goes raw when the inner handshake is over.
GoesDirect_Any(ts) == TRUE   \* mutant: without asking for TLS 1.3
GoesDirect(ts) == ts.xtls

\* Padder's state after it.
Padded(ts, pd, p) ==
    [padding |-> pd.padding /\ ~PaddingEnds(ts, p),
     direct  |-> IF \E i \in DOMAIN p.pieces :
                        /\ InnerDone(ts, p, i)
                        /\ StopAt(ts, p) > 0 => i < StopAt(ts, p)
                 THEN GoesDirect(ts) ELSE pd.direct,
     fresh   |-> FALSE]

\* The frame that hides the request header when there is no first payload.
Camouflage(pd) == Frame("CONTINUE", pd.fresh, 0)
=============================================================================
