--------------------------- MODULE VisionDownlink ---------------------------
(***************************************************************************)
(* The read half of a connection: socket -> RecordGate -> rustls ->        *)
(* VisionStream -> caller (record_gate.rs, vision.rs `poll_read`).         *)
(*                                                                         *)
(* What the server sends is one rigid sequence of wire cells 1..n; every   *)
(* buffer between the socket and the caller is an interval of it, so the   *)
(* state is the positions that delimit those intervals:                    *)
(*                                                                         *)
(*    arrived   in the kernel's receive buffer                             *)
(*    sock      read from the socket                                       *)
(*    low       taken out of the gate: gate.buf is (low, sock]             *)
(*    fed       handed to rustls                                           *)
(*    decoded   end of the last whole record rustls has been handed        *)
(*    taken     read by Vision: rustls holds the plaintext of              *)
(*              (taken, decoded]                                           *)
(*    parsed    end of the last frame removed: read_raw is the plaintext   *)
(*              of (parsed, taken]                                         *)
(***************************************************************************)
EXTENDS Naturals, FiniteSets, Sequences

CONSTANTS
    Streams,      \* what a server may send, see StreamOK
    HeaderLen,    \* cells of a TLS record header
    ReadChunk,    \* plaintext cells Vision asks TLS for in one read
    Garbage,      \* length fields the gate may find where no header starts
    TornStart     \* may rustls hold part of a record when the gate starts?

(***************************************************************************)
(* The server (external): a well-formed Vision answer.                     *)
(*   recEnd    last cells of the TLS records, tlsEnd the last of them      *)
(*   hs        end of the last handshake record                            *)
(*   early     end of the flight the server sends before any request       *)
(*   plain     cells that are plaintext once decrypted                     *)
(*   respEnd   last cell of the VLESS response header                      *)
(*   frameEnd  last cells of the Vision frames, padding included           *)
(*   cmd, term the terminal command, "NONE" or the end of its frame        *)
(*   payload   cells of the proxied data                                   *)
(***************************************************************************)
StreamOK(s) ==
    /\ s.n \in Nat /\ s.hs \in Nat /\ s.early \in Nat
    /\ s.tlsEnd \in Nat /\ s.respEnd \in Nat /\ s.term \in Nat
    /\ s.recEnd \subseteq 1..s.tlsEnd
    /\ s.hs \in s.recEnd /\ s.early \in s.recEnd /\ s.tlsEnd \in s.recEnd
    /\ s.hs <= s.early /\ s.early <= s.tlsEnd /\ s.tlsEnd <= s.n
    /\ s.plain \subseteq (s.early + 1)..s.tlsEnd
    /\ s.frameEnd \subseteq s.plain
    /\ s.payload \subseteq s.plain \cup (s.tlsEnd + 1)..s.n
    /\ s.cmd \in {"NONE", "END", "DIRECT"}
    /\ s.cmd # "NONE" => s.term \in s.frameEnd /\ s.respEnd < s.term
    \* only a Direct frame lets the server leave TLS, and its record is the last
    /\ s.cmd # "DIRECT" => s.tlsEnd = s.n
    /\ s.cmd = "DIRECT" => \A e \in s.recEnd : s.term <= e => e = s.tlsEnd

(***************************************************************************)
(* ... and its data: frames follow the response header and hold all of it  *)
(* up to the terminal one, what is behind that frame is nothing else. A    *)
(* record is at least its header.                                          *)
(***************************************************************************)
DataOK(s) ==
    /\ \A e \in s.recEnd, d \in s.recEnd \cup {0} : d < e => d + HeaderLen <= e
    /\ \A g \in s.frameEnd : s.respEnd < g
    /\ (s.tlsEnd + 1)..s.n \subseteq s.payload
    /\ s.cmd # "NONE" => \A p \in s.plain : s.term < p => p \in s.payload
    /\ s.cmd = "NONE" => \A p \in s.payload : \E g \in s.frameEnd : p <= g

\* No record of s ends strictly inside (a, b).
OneRecord(s, a, b) == \A e \in s.recEnd : ~(a < e /\ e < b)

PlainOf(s, a, b) == {p \in s.plain : a < p /\ p <= b}

ASSUME StreamsAssumption == \A s \in Streams : StreamOK(s) /\ DataOK(s)
ASSUME HeaderLenAssumption == HeaderLen \in Nat \ {0}
ASSUME GarbageAssumption == Garbage \subseteq Nat
ASSUME TornStartAssumption == TornStart \in BOOLEAN

\* READ_CHUNK is the plaintext limit of one TLS record: whatever one record
\* yields fits in one read (vision.rs, READ_CHUNK).
ASSUME ReadChunkAssumption ==
    /\ ReadChunk \in Nat
    /\ \A s \in Streams : \A a, b \in 0..s.n :
           OneRecord(s, a, b) => Cardinality(PlainOf(s, a, b)) <= ReadChunk

VARIABLES
    wire,        \* the stream the server sends on this connection
    arrived, sock, low, fed, decoded, taken, parsed,
    gating, remaining, gateOpen,     \* RecordGate
    done, direct,                    \* Unpadder
    readOut,     \* VisionStream.read_out: data cells not yet given out
    delivered,   \* what the caller has been given
    pc           \* "connect", "top" of poll_read's loop, inside the "tls"
                 \* read, "wait"ing for a wake-up, "closed"

gateVars == <<gating, remaining, gateOpen>>
posVars  == <<arrived, sock, low, fed, decoded, taken, parsed>>
outVars  == <<done, direct, readOut, delivered>>
vars     == <<wire, posVars, gateVars, outVars, pc>>

Boundary == {0} \cup wire.recEnd

\* The cells of T in wire order: the i-th is the one with i of them up to it.
InOrder(T) ==
    [i \in 1..Cardinality(T) |->
        CHOOSE p \in T : Cardinality({q \in T : q <= p}) = i]

\* The cells of S in (a, b].
Cells(S, a, b) == InOrder({p \in S : a < p /\ p <= b})

Payload == Cells(wire.payload, 0, wire.n)

Init ==
    /\ wire \in Streams
    /\ arrived = 0 /\ sock = 0 /\ low = 0 /\ fed = 0
    /\ decoded = 0 /\ taken = 0 /\ parsed = 0
    /\ gating = FALSE /\ remaining = 0 /\ gateOpen = TRUE
    /\ done = FALSE /\ direct = FALSE
    /\ readOut = <<>> /\ delivered = <<>>
    /\ pc = "connect"

---------------------------------------------------------------------------
(* The network and the socket (external).                                   *)

\* More of the stream arrives. Before the request goes out there is only the
\* server's first flight to receive.
Arrive ==
    /\ arrived' \in (arrived + 1)..(IF pc = "connect" THEN wire.early ELSE wire.n)
    /\ UNCHANGED <<wire, sock, low, fed, decoded, taken, parsed, gateVars, outVars, pc>>

\* A socket read that finds nothing: end of file once the server has sent
\* everything and closed, otherwise the task sleeps until more arrives.
SocketEmpty ==
    /\ sock = arrived
    /\ pc' = IF arrived = wire.n THEN "closed" ELSE "wait"
    /\ UNCHANGED <<wire, posVars, gateVars, outVars>>

---------------------------------------------------------------------------
(* rustls (external): it reads from the gate only while it holds no          *)
(* plaintext, and deciphers every whole record it is handed.                 *)

HasPlain == PlainOf(wire, taken, decoded) # {}

\* rustls is handed the cells up to `to`.
Feed(to) ==
    /\ fed' = to
    /\ taken' = decoded
    /\ \E e \in Boundary :
           /\ e <= to
           /\ \A f \in wire.recEnd : f <= to => f <= e
           /\ decoded' = e

\* One plaintext read of Vision's: everything rustls holds, up to ReadChunk.
ReadChunkTo_HalfRecord(r) ==   \* mutant: a chunk smaller than a record
    r = CHOOSE p \in PlainOf(wire, taken, decoded) :
            \A q \in PlainOf(wire, taken, decoded) : p <= q
ReadChunkTo(r) ==
    LET held == PlainOf(wire, taken, decoded)
    IN  IF Cardinality(held) <= ReadChunk
        THEN r = decoded
        ELSE r \in held /\ Cardinality(PlainOf(wire, taken, r)) = ReadChunk

---------------------------------------------------------------------------
(* Connecting: the gate is transparent, rustls reads until nothing is left.  *)

HandshakeRead ==
    /\ pc = "connect"
    /\ \E to \in (sock + 1)..arrived : sock' = to /\ low' = to /\ Feed(to)
    /\ UNCHANGED <<wire, arrived, parsed, gateVars, outVars, pc>>

\* open() starts the gate when the handshake is over (mod.rs:41). Without
\* TornStart the last read of the handshake ended with a record.
Start_Dropped == UNCHANGED <<gating, gateOpen>>   \* mutant: gate never started
Start == gating' = TRUE /\ gateOpen' = TRUE

StartGating ==
    /\ pc = "connect"
    /\ fed >= wire.hs
    /\ fed = arrived
    /\ TornStart \/ fed \in Boundary
    /\ Start
    /\ pc' = "top"
    /\ UNCHANGED <<wire, posVars, remaining, outVars>>

---------------------------------------------------------------------------
(* One round of poll_read's loop.                                           *)

\* Data already unpadded goes to the caller first, as much as it has room for.
Deliver ==
    /\ pc = "top"
    /\ readOut # <<>>
    /\ \E k \in 1..Len(readOut) :
           /\ delivered' = delivered \o SubSeq(readOut, 1, k)
           /\ readOut' = SubSeq(readOut, k + 1, Len(readOut))
    /\ UNCHANGED <<wire, posVars, gateVars, done, direct, pc>>

\* After Direct: straight from the socket into the caller's buffer.
DirectRead ==
    /\ pc = "top" /\ readOut = <<>> /\ direct
    /\ \/ /\ \E to \in (sock + 1)..arrived :
                 /\ sock' = to /\ low' = to
                 /\ delivered' = delivered \o Cells(1..wire.n, sock, to)
          /\ UNCHANGED <<wire, arrived, fed, decoded, taken, parsed, gateVars, done, direct,
                         readOut, pc>>
       \/ SocketEmpty

\* Neither data nor Direct: read through TLS, letting one more record in while
\* frames are still expected.
EnterTls ==
    /\ pc = "top" /\ readOut = <<>> /\ ~direct
    /\ gateOpen' = IF done THEN gateOpen ELSE TRUE
    /\ pc' = "tls"
    /\ UNCHANGED <<wire, posVars, gating, remaining, outVars>>

\* What the unpadder makes of the plaintext up to r: the frames that are
\* complete, and after a terminal one everything else as it is.
HeaderDone(r) == wire.respEnd <= r
Finished(r) == HeaderDone(r) /\ wire.cmd # "NONE" /\ wire.term <= r
LastFrame(r, f) ==
    LET whole == IF HeaderDone(r) THEN {g \in wire.frameEnd : parsed < g /\ g <= r} ELSE {}
    IN  f \in {parsed} \cup whole /\ \A g \in whole : g <= f
Unpadded(r, f) ==
    Cells(wire.payload \cap wire.plain, parsed, f)
        \o (IF Finished(r) THEN Cells(wire.plain, f, r) ELSE <<>>)

\* What the gate has buffered below TLS: the head of the direct stream.
Leftover_Lost == <<>>   \* mutant: the gate's buffer forgotten at the switch
Leftover == Cells(1..wire.n, low, sock)

\* stop_record_gate, after an End.
StopGating == gating' = FALSE /\ remaining' = 0 /\ UNCHANGED gateOpen

\* Plaintext while frames are expected: response header, frames, sniffing,
\* and on a terminal command the gate stops or its buffer is taken over.
PaddedRead ==
    /\ pc = "tls" /\ HasPlain /\ ~done
    /\ \E r \in 1..wire.n, f \in 0..wire.n :
        /\ ReadChunkTo(r) /\ taken' = r
        /\ LastFrame(r, f) /\ parsed' = f
        /\ done' = Finished(r)
        /\ direct' = (Finished(r) /\ wire.cmd = "DIRECT")
        /\ \/ Finished(r) /\ wire.cmd = "END" /\ StopGating
           \/ ~(Finished(r) /\ wire.cmd = "END") /\ UNCHANGED gateVars
        /\ \/ direct' /\ readOut' = readOut \o Unpadded(r, f) \o Leftover /\ low' = sock
           \/ ~direct' /\ readOut' = readOut \o Unpadded(r, f) /\ UNCHANGED low
    /\ pc' = "top"
    /\ UNCHANGED <<wire, arrived, sock, fed, decoded, delivered>>

\* Plaintext after End goes straight to the caller.
PlainRead ==
    /\ pc = "tls" /\ HasPlain /\ done
    /\ \E r \in PlainOf(wire, taken, decoded) :
           /\ taken' = r
           /\ delivered' = delivered \o Cells(wire.plain, taken, r)
    /\ pc' = "top"
    /\ UNCHANGED <<wire, arrived, sock, low, fed, decoded, parsed, gateVars, done, direct, readOut>>

---------------------------------------------------------------------------
(* RecordGate::poll_read, called by rustls.                                  *)

WantsRead == pc = "tls" /\ ~HasPlain

\* poll_fill: everything a socket read brings goes to the end of the buffer.
Fill ==
    /\ sock' \in (sock + 1)..arrived
    /\ UNCHANGED <<wire, arrived, low, fed, decoded, taken, parsed, gateVars, outVars, pc>>

\* hand_over: never more than what is left of the record.
Portion_Unlimited == sock - low   \* mutant: the limit ignored
Portion == IF remaining < sock - low THEN remaining ELSE sock - low

\* A record is being handed over: any part of it that is buffered.
HandOver ==
    /\ WantsRead /\ gating /\ remaining > 0
    /\ \/ /\ low < sock
          /\ \E k \in 1..Portion :
                 /\ low' = low + k
                 /\ remaining' = remaining - k
                 /\ Feed(low + k)
          /\ UNCHANGED <<wire, arrived, sock, parsed, gating, gateOpen, outVars, pc>>
       \/ low = sock /\ Fill
       \/ low = sock /\ SocketEmpty

\* At the end of a record with the gate closed: nothing for rustls now, the
\* task wakes itself and is polled again.
GateClosed_NoWake ==   \* mutant: Pending without waking the task
    /\ WantsRead /\ gating /\ remaining = 0 /\ ~gateOpen
    /\ pc' = "wait"
    /\ UNCHANGED <<wire, posVars, gateVars, outVars>>
GateClosed ==
    /\ WantsRead /\ gating /\ remaining = 0 /\ ~gateOpen
    /\ pc' = "top"
    /\ UNCHANGED <<wire, posVars, gateVars, outVars>>

\* The length the gate reads at `low`: the record's, or whatever is found
\* there when no record starts at `low`.
RecordLen(len) ==
    \/ /\ low \in Boundary
       /\ low + len \in wire.recEnd
       /\ OneRecord(wire, low, low + len)
       /\ len > 0
    \/ /\ \/ low \notin Boundary
          \/ low >= wire.tlsEnd
       /\ len \in {HeaderLen + g : g \in Garbage}

\* The gate is open: read the next header, then close the gate.
ReadHeader ==
    /\ WantsRead /\ gating /\ remaining = 0 /\ gateOpen
    /\ \/ sock - low < HeaderLen /\ (Fill \/ SocketEmpty)
       \/ /\ sock - low >= HeaderLen
          /\ \E len \in 1..(wire.n + HeaderLen) : RecordLen(len) /\ remaining' = len
          /\ gateOpen' = FALSE
          /\ UNCHANGED <<wire, posVars, gating, outVars, pc>>

\* The gate is off (after End): first what it had buffered, then the socket.
Transparent ==
    /\ WantsRead /\ ~gating
    /\ \/ /\ low < sock
          /\ \E to \in (low + 1)..sock : low' = to /\ Feed(to)
          /\ UNCHANGED <<wire, arrived, sock, parsed, gateVars, outVars, pc>>
       \/ /\ low = sock
          /\ \E to \in (sock + 1)..arrived : sock' = to /\ low' = to /\ Feed(to)
          /\ UNCHANGED <<wire, arrived, parsed, gateVars, outVars, pc>>
       \/ low = sock /\ SocketEmpty

---------------------------------------------------------------------------
(* The tokio task (external).                                                *)

\* The socket wakes the task when something has arrived.
Wake ==
    /\ pc = "wait" /\ sock < arrived
    /\ pc' = "top"
    /\ UNCHANGED <<wire, posVars, gateVars, outVars>>

\* Both directions run in one task: the other one's wake-up polls this one too.
Repoll ==
    /\ pc = "wait"
    /\ pc' = "top"
    /\ UNCHANGED <<wire, posVars, gateVars, outVars>>

Step ==
    \/ HandshakeRead \/ StartGating
    \/ Deliver \/ DirectRead \/ EnterTls \/ PaddedRead \/ PlainRead
    \/ HandOver \/ GateClosed \/ ReadHeader \/ Transparent
    \/ Wake

Next == Arrive \/ Step \/ Repoll

\* The server keeps sending and the runtime keeps polling a woken task.
Fairness == WF_vars(Arrive) /\ WF_vars(Step)

Spec == Init /\ [][Next]_vars /\ Fairness

---------------------------------------------------------------------------
(* Properties.                                                              *)

\* The positions are ordered the way the buffers are stacked, the counters are
\* naturals and the task is in one of its states (record_gate.rs, RecordGate).
TypeOK ==
    /\ wire \in Streams
    /\ arrived \in 0..wire.n /\ sock \in 0..arrived /\ low \in 0..sock
    /\ fed \in 0..low /\ decoded \in 0..fed /\ taken \in 0..decoded
    /\ parsed \in 0..wire.n
    /\ gating \in BOOLEAN /\ remaining \in Nat /\ gateOpen \in BOOLEAN
    /\ done \in BOOLEAN /\ direct \in BOOLEAN
    /\ pc \in {"connect", "top", "tls", "wait", "closed"}

\* rustls is only ever handed TLS records: the bytes the server writes straight
\* to TCP after Direct stay above the gate (record_gate.rs:15-17).
RawNeverFedToTls == fed <= wire.tlsEnd

\* When Vision switches to Direct, rustls has been handed exactly the TLS part
\* and holds nothing of it back, so gate.buf starts with the first raw byte
\* (vision.rs:606-612).
SwitchAtBoundary == direct => fed = wire.tlsEnd /\ ~HasPlain

\* The caller is given everything the server sent and then end of file: no
\* read ever sleeps with a record it could go on with (record_gate.rs:134-139).
AllDelivered == <>(pc = "closed" /\ delivered = Payload)

\* The downlink is a reliable byte pipe: what the caller gets is the proxied data
\* in the order the server sent it, nothing lost, doubled, or out of place where the
\* leftover joins the unpadded data (vision.rs:533-615).
P == INSTANCE Pipe WITH sent <- Cells(wire.payload, 0, arrived),
                        recv <- delivered,
                        eof  <- pc = "closed"
PipeSpec == P!Spec
=============================================================================
