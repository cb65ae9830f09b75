------------------------ MODULE VisionDownlinkProofs ------------------------
(***************************************************************************)
(* For every well-formed stream and every record size: rustls is never     *)
(* handed a raw byte, and the switch to Direct happens exactly at the end  *)
(* of the TLS part, provided the handshake ended with a whole record       *)
(* (IInv). And the caller is given the proxied data, in order and once,    *)
(* and end of file only after all of it (DInv).                            *)
(***************************************************************************)
EXTENDS VisionDownlink, FiniteSetTheorems, SequenceTheorems, TLAPS

\* The handshake ends with a whole record: see the README on TornStart.
WholeStart == TornStart = FALSE

(***************************************************************************)
(* The inductive invariant. RawNeverFedToTls alone is not inductive: what  *)
(* keeps the raw bytes away is that the gate counts whole records          *)
(* (Aligned), that rustls is refilled only when it is empty, so it holds   *)
(* the plaintext of one record at most (OneHeld), and that Vision has      *)
(* therefore seen the Direct frame when the last record is used up         *)
(* (TermAhead).                                                            *)
(***************************************************************************)
DecodedLast ==
    /\ decoded \in Boundary
    /\ \A e \in wire.recEnd : e <= fed => e <= decoded

Aligned ==
    gating /\ ~direct =>
        /\ remaining = 0 => fed \in Boundary
        /\ remaining > 0 => /\ fed + remaining \in wire.recEnd
                            /\ OneRecord(wire, fed, fed + remaining)

OneHeld == gating /\ HasPlain => OneRecord(wire, taken, decoded)

TermAhead == wire.cmd = "DIRECT" /\ ~done => taken < wire.term

Connecting ==
    pc = "connect" =>
        arrived <= wire.early /\ ~gating /\ ~done /\ remaining = 0

Modes ==
    /\ direct <=> done /\ wire.cmd = "DIRECT"
    /\ done => wire.cmd # "NONE"
    /\ gating /\ done => direct
    /\ pc # "connect" /\ ~gating => done /\ ~direct
    /\ pc = "tls" => ~direct
    /\ ~direct => low = fed

IInv ==
    /\ TypeOK
    /\ DecodedLast
    /\ Aligned
    /\ OneHeld
    /\ TermAhead
    /\ Connecting
    /\ Modes
    /\ RawNeverFedToTls
    /\ SwitchAtBoundary

---------------------------------------------------------------------------
\* The assumptions on the streams, for the one this connection carries
\* (external: what a Vision server sends).
LEMMA WireOK == ASSUME TypeOK PROVE StreamOK(wire)
  BY StreamsAssumption DEF TypeOK

\* One read of Vision's takes all the plaintext rustls holds when that comes
\* from a single record (vision.rs:41-42, READ_CHUNK).
LEMMA ChunkTakesRecord ==
    ASSUME TypeOK, HasPlain, OneRecord(wire, taken, decoded),
           NEW r, ReadChunkTo(r)
    PROVE  r = decoded
  <1>1. wire \in Streams /\ taken \in 0..wire.n /\ decoded \in 0..wire.n
    BY WireOK DEF TypeOK, StreamOK
  <1>2. Cardinality(PlainOf(wire, taken, decoded)) <= ReadChunk
    BY <1>1, ReadChunkAssumption
  <1> QED
    BY <1>2 DEF ReadChunkTo

\* The initial states satisfy the invariant.
LEMMA InitIInv == Init => IInv
  <1> SUFFICES ASSUME Init PROVE IInv
    OBVIOUS
  <1>1. StreamOK(wire)
    BY StreamsAssumption DEF Init
  <1>2. ~HasPlain
    BY <1>1 DEF Init, HasPlain, PlainOf, StreamOK
  <1>3. TypeOK
    <2>1. wire.n \in Nat
      BY <1>1 DEF StreamOK
    <2>2. 0 \in 0..wire.n /\ 0 \in 0..0
      BY <2>1
    <2> QED
      BY <2>2 DEF Init, TypeOK
  <1>4. DecodedLast
    BY <1>1 DEF Init, DecodedLast, Boundary, StreamOK
  <1>5. Aligned /\ OneHeld
    BY DEF Init, Aligned, OneHeld
  <1>6. TermAhead
    BY <1>1 DEF Init, TermAhead, StreamOK
  <1>7. Connecting /\ Modes
    BY <1>1 DEF Init, Connecting, Modes, StreamOK
  <1>8. RawNeverFedToTls /\ SwitchAtBoundary
    BY <1>1 DEF Init, RawNeverFedToTls, SwitchAtBoundary, StreamOK
  <1> QED
    BY <1>3, <1>4, <1>5, <1>6, <1>7, <1>8 DEF IInv

---------------------------------------------------------------------------
\* Whatever neither feeds rustls nor takes plaintext from it nor moves the gate
\* keeps the invariant: arrivals, socket reads into a buffer, sleeping, waking,
\* going round the loop.
LEMMA Quiet ==
    ASSUME IInv,
           UNCHANGED <<wire, fed, decoded, taken, gating, remaining, done, direct>>,
           parsed' \in 0..wire.n,
           arrived' \in 0..wire.n, sock' \in 0..arrived', low' \in fed..sock',
           low' = low \/ direct,
           gateOpen' \in BOOLEAN,
           pc' \in {"connect", "top", "tls", "wait", "closed"},
           pc = "connect" <=> pc' = "connect",
           pc = "connect" => arrived' <= wire.early,
           pc' = "tls" => ~direct
    PROVE  IInv'
  <1>1. StreamOK(wire) /\ TypeOK
    BY WireOK DEF IInv
  <1>2. HasPlain' <=> HasPlain
    BY DEF HasPlain, PlainOf
  <1>3. TypeOK'
    BY <1>1 DEF TypeOK, StreamOK
  <1>4. DecodedLast' /\ Aligned' /\ OneHeld'
    BY <1>2 DEF IInv, DecodedLast, Aligned, OneHeld, Boundary, OneRecord
  <1>5. TermAhead' /\ Connecting'
    BY DEF IInv, TermAhead, Connecting
  <1>6. Modes'
    BY DEF IInv, Modes
  <1>7. RawNeverFedToTls' /\ SwitchAtBoundary'
    BY <1>2 DEF IInv, RawNeverFedToTls, SwitchAtBoundary
  <1> QED
    BY <1>3, <1>4, <1>5, <1>6, <1>7 DEF IInv

\* Feeding rustls keeps track of its last whole record, and while it holds no
\* plaintext the Direct frame stays ahead of what Vision has taken.
LEMMA Feeding ==
    ASSUME IInv, ~HasPlain, NEW to \in Nat, Feed(to), fed <= to, to <= wire.n,
           UNCHANGED <<wire, done>>
    PROVE  /\ taken' = decoded /\ decoded' \in decoded..to /\ fed' = to
           /\ DecodedLast' /\ TermAhead'
           /\ \A e \in wire.recEnd : ~(decoded < e /\ e <= fed)
  <1>1. StreamOK(wire) /\ TypeOK
    BY WireOK DEF IInv
  <1>2. /\ decoded \in Nat /\ fed \in Nat /\ taken \in Nat /\ decoded <= fed
        /\ wire.recEnd \subseteq Nat
    BY <1>1 DEF TypeOK, StreamOK
  <1>3. \A e \in wire.recEnd : e <= fed => e <= decoded
    BY DEF IInv, DecodedLast
  <1>4. \A e \in wire.recEnd : ~(decoded < e /\ e <= fed)
    BY <1>2, <1>3
  <1>5. taken' = decoded /\ fed' = to
    BY DEF Feed
  <1>6. DecodedLast'
    BY <1>5 DEF Feed, DecodedLast, Boundary
  <1>7. decoded' \in decoded..to
    <2>1. decoded \in Boundary
      BY DEF IInv, DecodedLast
    <2>2. decoded' \in Boundary /\ decoded' <= to
      BY DEF Feed
    <2>3. \A f \in wire.recEnd : f <= to => f <= decoded'
      BY DEF Feed
    <2> QED
      BY <1>2, <2>1, <2>2, <2>3 DEF Boundary
  <1>8. TermAhead'
    <2> SUFFICES ASSUME wire.cmd = "DIRECT", ~done PROVE decoded < wire.term
      BY <1>5 DEF TermAhead
    <2>1. wire.term \in wire.plain /\ wire.term \in Nat
      BY <1>1 DEF StreamOK
    <2>2. taken < wire.term
      BY DEF IInv, TermAhead
    <2>3. wire.term \notin PlainOf(wire, taken, decoded)
      BY DEF HasPlain
    <2> QED
      BY <1>2, <2>1, <2>2, <2>3 DEF PlainOf
  <1> QED
    BY <1>4, <1>5, <1>6, <1>7, <1>8

---------------------------------------------------------------------------
\* One lemma per action that moves bytes through rustls or moves the gate.

\* The handshake reads nothing beyond the server's first flight.
LEMMA HandshakeReadKeeps == IInv /\ HandshakeRead => IInv'
  <1> SUFFICES ASSUME IInv, HandshakeRead PROVE IInv'
    OBVIOUS
  <1>1. StreamOK(wire) /\ TypeOK /\ Connecting /\ Modes /\ pc = "connect"
    BY WireOK DEF IInv, HandshakeRead
  <1>2. PICK to \in (sock + 1)..arrived : sock' = to /\ low' = to /\ Feed(to)
    BY DEF HandshakeRead
  <1>3. /\ to \in Nat /\ fed <= to /\ to <= wire.n /\ to <= wire.early
        /\ decoded <= wire.early
    BY <1>1, <1>2 DEF TypeOK, StreamOK, Connecting
  <1>4. ~HasPlain
    BY <1>1, <1>3 DEF HasPlain, PlainOf, StreamOK, TypeOK
  <1>5. UNCHANGED <<wire, arrived, parsed, gating, remaining, gateOpen, done, direct, pc>>
    BY DEF HandshakeRead, gateVars, outVars
  <1>6. /\ taken' = decoded /\ decoded' \in decoded..to /\ fed' = to
        /\ DecodedLast' /\ TermAhead'
    BY <1>2, <1>3, <1>4, <1>5, Feeding
  <1>7. TypeOK'
    BY <1>1, <1>2, <1>3, <1>5, <1>6 DEF TypeOK
  <1>8. Aligned' /\ OneHeld' /\ Connecting'
    BY <1>1, <1>5 DEF Aligned, OneHeld, Connecting
  <1>9. Modes'
    BY <1>1, <1>2, <1>5, <1>6 DEF Modes, Connecting
  <1>10. RawNeverFedToTls' /\ SwitchAtBoundary'
    BY <1>1, <1>3, <1>5, <1>6
       DEF RawNeverFedToTls, SwitchAtBoundary, Modes, Connecting, StreamOK, TypeOK
  <1> QED
    BY <1>6, <1>7, <1>8, <1>9, <1>10 DEF IInv

\* Starting the gate: it is at the end of a record, because the handshake was.
LEMMA StartGatingKeeps == WholeStart /\ IInv /\ StartGating => IInv'
  <1> SUFFICES ASSUME WholeStart, IInv, StartGating PROVE IInv'
    OBVIOUS
  <1>1. StreamOK(wire) /\ TypeOK /\ Connecting /\ Modes /\ pc = "connect"
    BY WireOK DEF IInv, StartGating
  <1>2. fed \in Boundary
    BY DEF StartGating, WholeStart
  <1>3. UNCHANGED <<wire, arrived, sock, low, fed, decoded, taken, parsed, remaining, done, direct>>
    BY DEF StartGating, posVars, outVars
  <1>4. gating' = TRUE /\ gateOpen' = TRUE /\ pc' = "top"
    BY DEF StartGating, Start
  <1>5. ~HasPlain' /\ ~HasPlain
    BY <1>1, <1>3 DEF HasPlain, PlainOf, StreamOK, TypeOK, Connecting
  <1>6. TypeOK'
    BY <1>1, <1>3, <1>4 DEF TypeOK
  <1>7. DecodedLast'
    BY <1>3 DEF IInv, DecodedLast, Boundary
  <1>8. Aligned'
    BY <1>1, <1>2, <1>3 DEF Aligned, Connecting, Boundary
  <1>9. OneHeld' /\ TermAhead' /\ Connecting'
    BY <1>3, <1>4, <1>5 DEF IInv, OneHeld, TermAhead, Connecting
  <1>10. Modes'
    BY <1>1, <1>3, <1>4 DEF Modes, Connecting
  <1>11. RawNeverFedToTls' /\ SwitchAtBoundary'
    BY <1>3, <1>5 DEF IInv, RawNeverFedToTls, SwitchAtBoundary
  <1> QED
    BY <1>6, <1>7, <1>8, <1>9, <1>10, <1>11 DEF IInv

\* Reading frames: everything rustls held has been seen, so a Direct frame in it
\* is found, and then its record was the last one.
LEMMA PaddedReadKeeps == IInv /\ PaddedRead => IInv'
  <1> SUFFICES ASSUME IInv, PaddedRead PROVE IInv'
    OBVIOUS
  <1>1. StreamOK(wire) /\ TypeOK /\ Modes /\ pc = "tls" /\ HasPlain /\ ~done
    BY WireOK DEF IInv, PaddedRead
  <1>2. gating /\ ~direct /\ low = fed
    BY <1>1 DEF Modes
  <1>3. OneRecord(wire, taken, decoded)
    BY <1>1, <1>2 DEF IInv, OneHeld
  <1>4. PICK r \in 1..wire.n, f \in 0..wire.n :
            /\ ReadChunkTo(r) /\ taken' = r
            /\ LastFrame(r, f) /\ parsed' = f
            /\ done' = Finished(r)
            /\ direct' = (Finished(r) /\ wire.cmd = "DIRECT")
            /\ \/ Finished(r) /\ wire.cmd = "END" /\ StopGating
               \/ ~(Finished(r) /\ wire.cmd = "END") /\ UNCHANGED gateVars
            /\ \/ direct' /\ readOut' = readOut \o Unpadded(r, f) \o Leftover /\ low' = sock
               \/ ~direct' /\ readOut' = readOut \o Unpadded(r, f) /\ UNCHANGED low
    BY DEF PaddedRead
  <1>5. taken' = decoded
    BY <1>1, <1>3, <1>4, ChunkTakesRecord
  <1>6. UNCHANGED <<wire, arrived, sock, fed, decoded>> /\ pc' = "top"
    BY DEF PaddedRead
  <1>7. ~HasPlain'
    BY <1>1, <1>5, <1>6 DEF HasPlain, PlainOf, TypeOK, StreamOK
  <1>8. done' \in BOOLEAN /\ direct' \in BOOLEAN
    BY <1>4 DEF Finished, HeaderDone
  <1>9. /\ done' <=> wire.respEnd <= decoded /\ wire.cmd # "NONE" /\ wire.term <= decoded
        /\ direct' <=> done' /\ wire.cmd = "DIRECT"
    BY <1>4, <1>5 DEF Finished, HeaderDone
  <1>10. /\ gating' \in BOOLEAN /\ remaining' \in Nat /\ gateOpen' \in BOOLEAN
         /\ ~gating' => done' /\ ~direct'
         /\ gating' => ~done' \/ direct'
         /\ gating' => remaining' = remaining
    <2>1. gating = TRUE /\ gateOpen \in BOOLEAN /\ remaining \in Nat
      BY <1>1, <1>2 DEF TypeOK
    <2>2. CASE Finished(r) /\ wire.cmd = "END"
      <3>1. gating' = FALSE /\ remaining' = 0 /\ gateOpen' = gateOpen
        BY <1>4, <2>2 DEF StopGating
      <3> QED
        BY <1>4, <2>1, <2>2, <3>1
    <2>3. CASE ~(Finished(r) /\ wire.cmd = "END")
      <3>1. gating' = gating /\ remaining' = remaining /\ gateOpen' = gateOpen
        BY <1>4, <2>3 DEF gateVars
      <3>2. done' => wire.cmd = "DIRECT"
        BY <1>1, <1>4, <1>9, <2>3 DEF StreamOK
      <3> QED
        BY <1>9, <2>1, <3>1, <3>2
    <2> QED
      BY <2>2, <2>3
  <1>11. low' \in fed..sock /\ (~direct' => low' = fed)
    BY <1>1, <1>2, <1>4 DEF TypeOK, StreamOK
  <1>12. TypeOK'
    BY <1>1, <1>4, <1>5, <1>6, <1>8, <1>10, <1>11 DEF TypeOK, StreamOK
  <1>13. DecodedLast'
    BY <1>6 DEF IInv, DecodedLast, Boundary
  <1>14. Aligned' /\ OneHeld'
    BY <1>2, <1>6, <1>7, <1>10 DEF IInv, Aligned, OneHeld, OneRecord, Boundary
  <1>15. TermAhead'
    BY <1>1, <1>5, <1>6, <1>9 DEF TermAhead, StreamOK, TypeOK
  <1>16. Connecting' /\ Modes'
    <2>1. Connecting'
      BY <1>6 DEF Connecting
    <2>2. (direct <=> done /\ wire.cmd = "DIRECT")'
      BY <1>6, <1>8, <1>9
    <2>3. (done => wire.cmd # "NONE")'
      BY <1>6, <1>9
    <2>4. (gating /\ done => direct)' /\ (~gating => done /\ ~direct)'
      BY <1>8, <1>10
    <2>5. (pc # "connect" /\ ~gating => done /\ ~direct)' /\ (pc = "tls" => ~direct)'
      BY <1>6, <2>4
    <2>6. (~direct => low = fed)'
      BY <1>6, <1>11
    <2> QED
      BY <2>1, <2>2, <2>3, <2>4, <2>5, <2>6 DEF Modes
  <1>17. RawNeverFedToTls'
    BY <1>6 DEF IInv, RawNeverFedToTls
  <1>18. SwitchAtBoundary'
    <2> SUFFICES ASSUME direct' PROVE fed = wire.tlsEnd
      BY <1>6, <1>7 DEF SwitchAtBoundary
    <2>1. wire.cmd = "DIRECT" /\ wire.term <= decoded
      BY <1>9
    <2>2. wire.term \in Nat \ {0}
      BY <1>1, <2>1 DEF StreamOK
    <2>3. decoded \in wire.recEnd
      BY <1>1, <2>1, <2>2 DEF IInv, DecodedLast, Boundary, TypeOK, StreamOK
    <2>4. decoded = wire.tlsEnd
      BY <1>1, <2>1, <2>3 DEF StreamOK
    <2> QED
      BY <1>1, <2>4 DEF IInv, RawNeverFedToTls, TypeOK, StreamOK
  <1> QED
    BY <1>12, <1>13, <1>14, <1>15, <1>16, <1>17, <1>18 DEF IInv

\* Reading after End only takes plaintext out of rustls.
LEMMA PlainReadKeeps == IInv /\ PlainRead => IInv'
  <1> SUFFICES ASSUME IInv, PlainRead PROVE IInv'
    OBVIOUS
  <1>1. StreamOK(wire) /\ TypeOK /\ Modes /\ pc = "tls" /\ done
    BY WireOK DEF IInv, PlainRead
  <1>2. ~direct /\ ~gating /\ wire.cmd # "DIRECT"
    BY <1>1 DEF Modes
  <1>3. taken' \in PlainOf(wire, taken, decoded) /\ taken' \in 0..decoded
    BY <1>1 DEF PlainRead, PlainOf, TypeOK, StreamOK
  <1>4. /\ UNCHANGED <<wire, arrived, sock, low, fed, decoded, parsed, gating, remaining,
                       gateOpen, done, direct>>
        /\ pc' = "top"
    BY DEF PlainRead, gateVars
  <1>5. TypeOK'
    BY <1>1, <1>3, <1>4 DEF TypeOK
  <1>6. DecodedLast' /\ Aligned' /\ OneHeld'
    BY <1>2, <1>4 DEF IInv, DecodedLast, Aligned, OneHeld, Boundary
  <1>7. TermAhead' /\ Connecting'
    BY <1>2, <1>4 DEF TermAhead, Connecting
  <1>8. Modes'
    BY <1>1, <1>4 DEF Modes
  <1>9. RawNeverFedToTls' /\ SwitchAtBoundary'
    BY <1>2, <1>4 DEF IInv, RawNeverFedToTls, SwitchAtBoundary
  <1> QED
    BY <1>5, <1>6, <1>7, <1>8, <1>9 DEF IInv

\* Handing over part of a record never goes beyond its end.
LEMMA HandPortionKeeps ==
    ASSUME IInv, WantsRead, gating, remaining > 0, low < sock,
           NEW k \in 1..Portion,
           low' = low + k, remaining' = remaining - k, Feed(low + k),
           UNCHANGED <<wire, arrived, sock, parsed, gating, gateOpen, done, direct, pc>>
    PROVE  IInv'
  <1>1. StreamOK(wire) /\ TypeOK /\ Modes /\ pc = "tls" /\ ~HasPlain
    BY WireOK DEF IInv, WantsRead
  <1>2. ~direct /\ ~done /\ low = fed
    BY <1>1 DEF Modes
  <1>3. k \in Nat /\ k >= 1 /\ k <= remaining /\ k <= sock - low /\ low + k <= sock
    BY <1>1 DEF Portion, TypeOK
  <1>4. low + k \in Nat /\ fed <= low + k /\ low + k <= wire.n
    BY <1>1, <1>2, <1>3 DEF TypeOK, StreamOK
  <1>5. /\ taken' = decoded /\ decoded' \in decoded..(low + k) /\ fed' = low + k
        /\ DecodedLast' /\ TermAhead'
        /\ \A e \in wire.recEnd : ~(decoded < e /\ e <= fed)
    BY <1>1, <1>4, Feeding
  <1>6. fed + remaining \in wire.recEnd /\ OneRecord(wire, fed, fed + remaining)
    BY <1>2 DEF IInv, Aligned
  <1>7. TypeOK'
    BY <1>1, <1>3, <1>4, <1>5 DEF TypeOK
  <1>8. Aligned'
    <2>1. fed' + remaining' = fed + remaining
      BY <1>1, <1>2, <1>3, <1>5 DEF TypeOK
    <2>2. fed' + remaining' \in wire.recEnd
      BY <1>6, <2>1
    <2>3. OneRecord(wire, fed', fed' + remaining')
      BY <1>1, <1>2, <1>3, <1>5, <1>6, <2>1 DEF OneRecord, TypeOK, StreamOK
    <2>4. remaining' = 0 => fed' \in Boundary'
      BY <1>1, <1>4, <1>5, <2>2 DEF Boundary
    <2> QED
      BY <2>2, <2>3, <2>4 DEF Aligned
  <1>9. OneHeld'
    <2>1. OneRecord(wire, decoded, decoded')
      <3> SUFFICES ASSUME NEW e \in wire.recEnd, decoded < e, e < decoded' PROVE FALSE
        BY DEF OneRecord
      <3>1. e \in Nat
        BY <1>1 DEF StreamOK
      <3>2. fed < e
        BY <1>1, <1>5, <3>1 DEF TypeOK
      <3>3. e < fed + remaining
        BY <1>1, <1>2, <1>3, <1>5, <3>1 DEF TypeOK, StreamOK
      <3> QED
        BY <1>6, <3>2, <3>3 DEF OneRecord
    <2> QED
      BY <1>5, <2>1 DEF OneHeld
  <1>10. Connecting' /\ Modes'
    <2>1. low' = fed'
      BY <1>5
    <2> QED
      BY <1>1, <2>1 DEF Connecting, Modes
  <1>11. RawNeverFedToTls' /\ SwitchAtBoundary'
    <2>1. fed + remaining <= wire.tlsEnd
      BY <1>1, <1>6 DEF StreamOK
    <2> QED
      BY <1>1, <1>2, <1>3, <1>5, <2>1 DEF RawNeverFedToTls, SwitchAtBoundary, TypeOK, StreamOK
  <1> QED
    BY <1>5, <1>7, <1>8, <1>9, <1>10, <1>11 DEF IInv

\* With the gate off there is no raw part to reach.
LEMMA TransparentFeedKeeps ==
    ASSUME IInv, WantsRead, ~gating,
           NEW to \in Nat, fed <= to, to <= sock', sock' \in sock..arrived,
           low' = to, Feed(to),
           UNCHANGED <<wire, arrived, parsed, gating, remaining, gateOpen, done, direct, pc>>
    PROVE  IInv'
  <1>1. StreamOK(wire) /\ TypeOK /\ Modes /\ pc = "tls" /\ ~HasPlain
    BY WireOK DEF IInv, WantsRead
  <1>2. done /\ ~direct /\ wire.cmd # "DIRECT" /\ wire.tlsEnd = wire.n
    BY <1>1 DEF Modes, StreamOK
  <1>3. to <= wire.n
    BY <1>1 DEF TypeOK, StreamOK
  <1>4. /\ taken' = decoded /\ decoded' \in decoded..to /\ fed' = to
        /\ DecodedLast' /\ TermAhead'
    BY <1>1, <1>3, Feeding
  <1>5. TypeOK'
    BY <1>1, <1>4 DEF TypeOK, StreamOK
  <1>6. Aligned' /\ OneHeld' /\ Connecting'
    BY <1>1 DEF Aligned, OneHeld, Connecting
  <1>7. Modes'
    BY <1>1, <1>4 DEF Modes
  <1>8. RawNeverFedToTls' /\ SwitchAtBoundary'
    BY <1>2, <1>3, <1>4 DEF RawNeverFedToTls, SwitchAtBoundary
  <1> QED
    BY <1>4, <1>5, <1>6, <1>7, <1>8 DEF IInv

\* A header is read where a record starts, and there is one: had the TLS part
\* been used up, Vision would have found the Direct frame and be elsewhere.
LEMMA HeaderKeeps ==
    ASSUME IInv, WantsRead, gating, remaining = 0, sock - low >= HeaderLen,
           NEW len \in Nat, RecordLen(len), remaining' = len, gateOpen' = FALSE,
           UNCHANGED <<wire, arrived, sock, low, fed, decoded, taken, parsed, gating, done,
                       direct, pc>>
    PROVE  IInv'
  <1>1. StreamOK(wire) /\ TypeOK /\ Modes /\ pc = "tls" /\ ~HasPlain
    BY WireOK DEF IInv, WantsRead
  <1>2. ~direct /\ ~done /\ low = fed
    BY <1>1 DEF Modes
  <1>3. fed \in Boundary
    BY <1>2 DEF IInv, Aligned
  <1>4. fed < wire.tlsEnd
    <2>1. fed <= wire.tlsEnd
      BY DEF IInv, RawNeverFedToTls
    <2>2. fed < wire.n
      BY <1>1, <1>2, HeaderLenAssumption DEF TypeOK, StreamOK
    <2>3. CASE wire.cmd # "DIRECT"
      BY <1>1, <2>2, <2>3 DEF StreamOK
    <2>4. CASE wire.cmd = "DIRECT" /\ fed = wire.tlsEnd
      <3>1. decoded = wire.tlsEnd
        BY <1>1, <2>4 DEF IInv, DecodedLast, TypeOK, StreamOK
      <3>2. wire.term \in wire.plain /\ wire.term <= wire.tlsEnd
        BY <1>1, <2>4 DEF StreamOK
      <3>3. taken < wire.term
        BY <1>2, <2>4 DEF IInv, TermAhead
      <3>4. wire.term \in PlainOf(wire, taken, decoded)
        BY <3>1, <3>2, <3>3 DEF PlainOf
      <3> QED
        BY <1>1, <3>4 DEF HasPlain
    <2> QED
      BY <1>1, <2>1, <2>3, <2>4 DEF TypeOK, StreamOK
  <1>5. len > 0 /\ fed + len \in wire.recEnd /\ OneRecord(wire, fed, fed + len)
    BY <1>1, <1>2, <1>3, <1>4 DEF RecordLen, TypeOK, StreamOK
  <1>6. HasPlain' <=> HasPlain
    BY DEF HasPlain, PlainOf
  <1>7. TypeOK'
    BY <1>1 DEF TypeOK
  <1>8. DecodedLast' /\ OneHeld' /\ TermAhead' /\ Connecting'
    BY <1>1, <1>6 DEF IInv, DecodedLast, OneHeld, TermAhead, Connecting, Boundary
  <1>9. Aligned'
    BY <1>5 DEF Aligned
  <1>10. Modes'
    BY <1>1 DEF Modes
  <1>11. RawNeverFedToTls' /\ SwitchAtBoundary'
    BY <1>6 DEF IInv, RawNeverFedToTls, SwitchAtBoundary
  <1> QED
    BY <1>7, <1>8, <1>9, <1>10, <1>11 DEF IInv

---------------------------------------------------------------------------
\* Going to sleep, or finding the end of the stream, in the middle of a read.
LEMMA SocketEmptyKeeps == IInv /\ pc # "connect" /\ SocketEmpty => IInv'
  <1> SUFFICES ASSUME IInv, pc # "connect", SocketEmpty PROVE IInv'
    OBVIOUS
  <1>1. TypeOK /\ StreamOK(wire)
    BY WireOK DEF IInv
  <1>2. pc' \in {"wait", "closed"} /\ UNCHANGED <<wire, posVars, gateVars, outVars>>
    BY DEF SocketEmpty
  <1> QED
    BY <1>1, <1>2, Quiet DEF TypeOK, StreamOK, posVars, gateVars, outVars

\* Reading from the socket into the gate's buffer.
LEMMA FillKeeps == IInv /\ pc # "connect" /\ Fill => IInv'
  <1> SUFFICES ASSUME IInv, pc # "connect", Fill PROVE IInv'
    OBVIOUS
  <1>1. TypeOK /\ StreamOK(wire)
    BY WireOK DEF IInv
  <1>2. /\ sock' \in sock..arrived
        /\ UNCHANGED <<wire, arrived, low, fed, decoded, taken, parsed, gateVars, outVars, pc>>
    BY <1>1 DEF Fill, TypeOK, StreamOK
  <1>3. low' \in fed..sock' /\ sock' \in 0..arrived'
    BY <1>1, <1>2 DEF TypeOK, StreamOK
  <1>4. pc = "tls" => ~direct
    BY DEF IInv, Modes
  <1> QED
    BY <1>1, <1>2, <1>3, <1>4, Quiet DEF TypeOK, StreamOK, gateVars, outVars

\* Every step of the system keeps the invariant.
LEMMA StepKeeps == WholeStart /\ IInv /\ [Next]_vars => IInv'
  <1> SUFFICES ASSUME WholeStart, IInv, [Next]_vars PROVE IInv'
    OBVIOUS
  <1>1. TypeOK /\ StreamOK(wire) /\ Modes /\ Connecting
    BY WireOK DEF IInv
  <1>2. /\ low \in fed..sock /\ arrived \in 0..wire.n /\ sock \in 0..arrived
        /\ parsed \in 0..wire.n /\ gateOpen \in BOOLEAN
        /\ pc \in {"connect", "top", "tls", "wait", "closed"}
    BY <1>1 DEF TypeOK, StreamOK
  <1>3. CASE Arrive
    <2>1. arrived' \in 0..wire.n /\ sock \in 0..arrived'
      BY <1>1, <1>3 DEF Arrive, TypeOK, StreamOK
    <2>2. pc = "connect" => arrived' <= wire.early
      BY <1>1, <1>3 DEF Arrive, TypeOK, StreamOK
    <2>3. UNCHANGED <<wire, sock, low, fed, decoded, taken, parsed, gateVars, outVars, pc>>
      BY <1>3 DEF Arrive
    <2> QED
      BY <1>1, <1>2, <2>1, <2>2, <2>3, Quiet DEF Modes, gateVars, outVars
  <1>4. CASE HandshakeRead
    BY <1>4, HandshakeReadKeeps
  <1>5. CASE StartGating
    BY <1>5, StartGatingKeeps
  <1>6. CASE Deliver
    <2>1. UNCHANGED <<wire, posVars, gateVars, done, direct, pc>> /\ pc = "top"
      BY <1>6 DEF Deliver
    <2> QED
      BY <1>1, <1>2, <2>1, Quiet DEF posVars, gateVars
  <1>7. CASE DirectRead
    <2>1. direct /\ pc = "top"
      BY <1>7 DEF DirectRead
    <2>2. CASE SocketEmpty
      BY <2>1, <2>2, SocketEmptyKeeps
    <2>3. CASE ~SocketEmpty
      <3>1. PICK to \in (sock + 1)..arrived : sock' = to /\ low' = to
        BY <1>7, <2>3 DEF DirectRead
      <3>2. UNCHANGED <<wire, arrived, fed, decoded, taken, parsed, gateVars, done, direct, pc>>
        BY <1>7, <2>3 DEF DirectRead
      <3>3. low' \in fed..sock' /\ sock' \in 0..arrived'
        BY <1>1, <3>1, <3>2 DEF TypeOK, StreamOK
      <3> QED
        BY <1>1, <1>2, <2>1, <3>2, <3>3, Quiet DEF gateVars
    <2> QED
      BY <2>2, <2>3
  <1>8. CASE EnterTls
    <2>1. /\ UNCHANGED <<wire, posVars, gating, remaining, outVars>>
          /\ pc = "top" /\ pc' = "tls" /\ ~direct
      BY <1>8 DEF EnterTls
    <2>2. gateOpen' \in BOOLEAN
      BY <1>2, <1>8 DEF EnterTls
    <2> QED
      BY <1>1, <1>2, <2>1, <2>2, Quiet DEF posVars, outVars
  <1>9. CASE PaddedRead
    BY <1>9, PaddedReadKeeps
  <1>10. CASE PlainRead
    BY <1>10, PlainReadKeeps
  <1>11. CASE HandOver
    <2>1. WantsRead /\ gating /\ remaining > 0 /\ pc = "tls"
      BY <1>11 DEF HandOver, WantsRead
    <2>2. CASE Fill
      BY <2>1, <2>2, FillKeeps
    <2>3. CASE SocketEmpty
      BY <2>1, <2>3, SocketEmptyKeeps
    <2>4. CASE ~Fill /\ ~SocketEmpty
      <3>1. low < sock
        BY <1>11, <2>4 DEF HandOver
      <3>2. PICK k \in 1..Portion :
                low' = low + k /\ remaining' = remaining - k /\ Feed(low + k)
        BY <1>11, <2>4 DEF HandOver
      <3>3. UNCHANGED <<wire, arrived, sock, parsed, gating, gateOpen, done, direct, pc>>
        BY <1>11, <2>4 DEF HandOver, outVars
      <3> QED
        BY <2>1, <3>1, <3>2, <3>3, HandPortionKeeps
    <2> QED
      BY <2>2, <2>3, <2>4
  <1>12. CASE GateClosed
    <2>1. UNCHANGED <<wire, posVars, gateVars, outVars>> /\ pc = "tls" /\ pc' = "top"
      BY <1>12 DEF GateClosed, WantsRead
    <2> QED
      BY <1>1, <1>2, <2>1, Quiet DEF posVars, gateVars, outVars
  <1>13. CASE ReadHeader
    <2>1. WantsRead /\ gating /\ remaining = 0 /\ pc = "tls"
      BY <1>13 DEF ReadHeader, WantsRead
    <2>2. CASE Fill
      BY <2>1, <2>2, FillKeeps
    <2>3. CASE SocketEmpty
      BY <2>1, <2>3, SocketEmptyKeeps
    <2>4. CASE ~Fill /\ ~SocketEmpty
      <3>1. sock - low >= HeaderLen /\ gateOpen' = FALSE
        BY <1>13, <2>4 DEF ReadHeader
      <3>2. PICK len \in 1..(wire.n + HeaderLen) : RecordLen(len) /\ remaining' = len
        BY <1>13, <2>4 DEF ReadHeader
      <3>3. len \in Nat
        BY <1>1, HeaderLenAssumption DEF StreamOK
      <3>4. UNCHANGED <<wire, posVars, gating, outVars, pc>>
        BY <1>13, <2>4 DEF ReadHeader
      <3> QED
        BY <2>1, <3>1, <3>2, <3>3, <3>4, HeaderKeeps DEF posVars, outVars
    <2> QED
      BY <2>2, <2>3, <2>4
  <1>14. CASE Transparent
    <2>1. WantsRead /\ ~gating /\ pc = "tls" /\ low = fed
      BY <1>1, <1>14 DEF Transparent, WantsRead, Modes
    <2>2. CASE SocketEmpty
      BY <2>1, <2>2, SocketEmptyKeeps
    <2>3. CASE ~SocketEmpty
      <3>1. PICK to \in (low + 1)..arrived :
                low' = to /\ Feed(to) /\ to <= sock' /\ sock' \in sock..arrived
        BY <1>1, <1>14, <2>3 DEF Transparent, TypeOK, StreamOK
      <3>2. UNCHANGED <<wire, arrived, parsed, gating, remaining, gateOpen, done, direct, pc>>
        BY <1>14, <2>3 DEF Transparent, gateVars, outVars
      <3>3. to \in Nat /\ fed <= to
        BY <1>1, <2>1 DEF TypeOK, StreamOK
      <3> QED
        BY <2>1, <3>1, <3>2, <3>3, TransparentFeedKeeps
    <2> QED
      BY <2>2, <2>3
  <1>15. CASE Wake \/ Repoll
    <2>1. UNCHANGED <<wire, posVars, gateVars, outVars>> /\ pc = "wait" /\ pc' = "top"
      BY <1>15 DEF Wake, Repoll
    <2> QED
      BY <1>1, <1>2, <2>1, Quiet DEF posVars, gateVars, outVars
  <1>16. CASE UNCHANGED vars
    <2>1. UNCHANGED <<wire, posVars, gateVars, outVars, pc>>
      BY <1>16 DEF vars
    <2> QED
      BY <1>1, <1>2, <2>1, Quiet DEF Modes, Connecting, posVars, gateVars, outVars
  <1> QED
    BY <1>3, <1>4, <1>5, <1>6, <1>7, <1>8, <1>9, <1>10, <1>11, <1>12, <1>13, <1>14, <1>15,
       <1>16 DEF Next, Step

\* The invariant holds in every reachable state.
THEOREM Invariance == WholeStart => (Spec => []IInv)
  <1>1. Init => IInv
    BY InitIInv
  <1>2. ASSUME WholeStart PROVE Spec => []IInv
    <2>1. IInv /\ [Next]_vars => IInv'
      BY <1>2, StepKeeps
    <2> QED
      BY <1>1, <2>1, PTL DEF Spec
  <1> QED
    BY <1>2

\* Types: the buffers stay stacked in the order the bytes travel
\* (record_gate.rs, RecordGate).
THEOREM TypeCorrect == WholeStart => (Spec => []TypeOK)
  <1>1. IInv => TypeOK
    BY DEF IInv
  <1> QED
    BY <1>1, Invariance, PTL

\* No byte the server writes straight to TCP is ever handed to rustls, for any
\* stream and any record size up to READ_CHUNK (record_gate.rs:15-17).
THEOREM NoRawBytesToTls == WholeStart => (Spec => []RawNeverFedToTls)
  <1>1. IInv => RawNeverFedToTls
    BY DEF IInv
  <1> QED
    BY <1>1, Invariance, PTL

\* When Vision goes direct, rustls has been handed exactly the TLS part and all
\* of its plaintext has been read, so the gate's buffer is the head of the
\* direct stream (vision.rs:606-612).
THEOREM DirectStartsAtBoundary == WholeStart => (Spec => []SwitchAtBoundary)
  <1>1. IInv => SwitchAtBoundary
    BY DEF IInv
  <1> QED
    BY <1>1, Invariance, PTL

---------------------------------------------------------------------------
\* The rank of p in T is how many of T there are up to it.
UpTo(T, p) == {q \in T : q <= p}

LEMMA RankType ==
    ASSUME NEW T \in SUBSET Nat, IsFiniteSet(T), NEW p \in T
    PROVE  /\ IsFiniteSet(UpTo(T, p)) /\ Cardinality(UpTo(T, p)) \in 1..Cardinality(T)
           /\ Cardinality(T) \in Nat
  <1>1. UpTo(T, p) \in SUBSET T /\ p \in UpTo(T, p)
    BY DEF UpTo
  <1>2. IsFiniteSet(UpTo(T, p)) /\ Cardinality(UpTo(T, p)) <= Cardinality(T)
    BY <1>1, FS_Subset
  <1>3. Cardinality(UpTo(T, p)) \in Nat /\ Cardinality(T) \in Nat
    BY <1>2, FS_CardinalityType
  <1>4. Cardinality(UpTo(T, p)) # 0
    BY <1>1, <1>2, FS_EmptySet
  <1> QED
    BY <1>2, <1>3, <1>4

LEMMA RankGrows ==
    ASSUME NEW T \in SUBSET Nat, IsFiniteSet(T), NEW p \in T, NEW r \in T, p < r
    PROVE  Cardinality(UpTo(T, p)) < Cardinality(UpTo(T, r))
  <1>0. \A q \in T : q \in Nat
    OBVIOUS
  <1>1. UpTo(T, p) \in SUBSET UpTo(T, r) /\ r \in UpTo(T, r) /\ r \notin UpTo(T, p)
    <2>1. \A q \in T : q <= p => q <= r
      BY <1>0
    <2>2. r <= r /\ ~(r <= p)
      BY <1>0
    <2> QED
      BY <2>1, <2>2 DEF UpTo
  <1>2. /\ IsFiniteSet(UpTo(T, r)) /\ Cardinality(UpTo(T, r)) \in Nat
        /\ Cardinality(UpTo(T, p)) \in Nat
    BY RankType
  <1>3. /\ Cardinality(UpTo(T, p)) <= Cardinality(UpTo(T, r))
        /\ Cardinality(UpTo(T, p)) # Cardinality(UpTo(T, r))
    BY <1>1, <1>2, FS_Subset
  <1> QED
    BY <1>2, <1>3

\* Ranks are distinct, so each of 1..Cardinality(T) is the rank of one member.
LEMMA RankOnto ==
    ASSUME NEW T \in SUBSET Nat, IsFiniteSet(T), NEW i \in 1..Cardinality(T)
    PROVE  \E p \in T : Cardinality(UpTo(T, p)) = i
  <1> DEFINE n == Cardinality(T)
             f == [p \in T |-> Cardinality(UpTo(T, p))]
  <1>1. n \in Nat
    BY FS_CardinalityType
  <1>2. f \in [T -> 1..n]
    BY RankType
  <1>3. ASSUME NEW a \in T, NEW b \in T, f[a] = f[b] PROVE a = b
    <2>1. Cardinality(UpTo(T, a)) \in Nat /\ Cardinality(UpTo(T, b)) \in Nat
      BY RankType
    <2>2. ~(a < b) /\ ~(b < a)
      BY <1>3, <2>1, RankGrows
    <2> QED
      BY <2>2
  <1>4. IsFiniteSet(1..n) /\ Cardinality(1..n) = n
    BY <1>1, FS_Interval
  <1> HIDE DEF f
  <1>5. f \in Injection(T, 1..n)
    <2>1. \A a, b \in T : f[a] = f[b] => a = b
      BY <1>3
    <2> QED
      BY <1>2, <2>1 DEF Injection, IsInjective
  <1>6. f \in Surjection(T, 1..n)
    BY <1>4, <1>5, FS_Injection
  <1>7. \E p \in T : f[p] = i
    BY <1>6 DEF Surjection
  <1> QED
    BY <1>7 DEF f

\* InOrder lists T by rank.
LEMMA InOrderAt ==
    ASSUME NEW T \in SUBSET Nat, IsFiniteSet(T)
    PROVE  /\ InOrder(T) \in Seq(T) /\ InOrder(T) \in Seq(Nat)
           /\ Len(InOrder(T)) = Cardinality(T) /\ Cardinality(T) \in Nat
           /\ \A i \in 1..Cardinality(T) : Cardinality(UpTo(T, InOrder(T)[i])) = i
  <1>1. Cardinality(T) \in Nat
    BY FS_CardinalityType
  <1>2. \A i \in 1..Cardinality(T) : /\ InOrder(T)[i] \in T
                                      /\ Cardinality(UpTo(T, InOrder(T)[i])) = i
    BY RankOnto DEF InOrder, UpTo
  <1>3. InOrder(T) = [i \in 1..Cardinality(T) |-> InOrder(T)[i]]
    BY DEF InOrder
  <1>4. InOrder(T) \in [1..Cardinality(T) -> T]
    BY <1>2, <1>3
  <1>5. InOrder(T) \in Seq(T) /\ Len(InOrder(T)) = Cardinality(T)
    BY <1>1, <1>4
  <1>6. InOrder(T) \in Seq(Nat)
    <2>1. InOrder(T) \in [1..Cardinality(T) -> Nat]
      BY <1>2, <1>3
    <2> QED
      BY <1>1, <2>1
  <1> QED
    BY <1>1, <1>2, <1>5, <1>6

LEMMA InOrderIs ==
    ASSUME NEW T \in SUBSET Nat, IsFiniteSet(T), NEW p \in T,
           NEW i, Cardinality(UpTo(T, p)) = i
    PROVE  InOrder(T)[i] = p
  <1>1. i \in 1..Cardinality(T)
    BY RankType
  <1>2. InOrder(T)[i] \in T /\ Cardinality(UpTo(T, InOrder(T)[i])) = i
    BY <1>1, InOrderAt
  <1>3. i \in Nat
    BY <1>1, RankType
  <1> DEFINE r == InOrder(T)[i]
  <1> HIDE DEF r
  <1>4. r \in T /\ Cardinality(UpTo(T, r)) = i
    BY <1>2 DEF r
  <1>5. ~(r < p)
    BY <1>3, <1>4, RankGrows
  <1>6. ~(p < r)
    BY <1>3, <1>4, RankGrows
  <1>7. p \in Nat /\ r \in Nat
    BY <1>4
  <1> QED
    BY <1>5, <1>6, <1>7 DEF r

\* A set all of whose members come before another's is listed before it.
LEMMA InOrderUnion ==
    ASSUME NEW A \in SUBSET Nat, IsFiniteSet(A), NEW B \in SUBSET Nat, IsFiniteSet(B),
           \A p \in A, q \in B : p < q
    PROVE  InOrder(A \cup B) = InOrder(A) \o InOrder(B)
  <1> DEFINE C == A \cup B
             a == Cardinality(A)
             b == Cardinality(B)
             x == InOrder(A)
             y == InOrder(B)
             z == InOrder(C)
  <1>1. C \in SUBSET Nat /\ IsFiniteSet(C) /\ Cardinality(C) = a + b /\ a \in Nat /\ b \in Nat
    <2>1. A \cap B = {}
      OBVIOUS
    <2>2. Cardinality(A \cap B) = 0
      BY <2>1, FS_EmptySet
    <2>3. a \in Nat /\ b \in Nat
      BY FS_CardinalityType
    <2> QED
      BY <2>2, <2>3, FS_Union
  <1>2. /\ x \in Seq(Nat) /\ Len(x) = a
        /\ \A i \in 1..a : x[i] \in A /\ Cardinality(UpTo(A, x[i])) = i
    BY InOrderAt
  <1>3. /\ y \in Seq(Nat) /\ Len(y) = b
        /\ \A i \in 1..b : y[i] \in B /\ Cardinality(UpTo(B, y[i])) = i
    BY InOrderAt
  <1>4. z \in Seq(Nat) /\ Len(z) = a + b
    BY <1>1, InOrderAt
  <1>12. \A p \in A, q \in B : p \in Nat /\ q \in Nat /\ p <= q /\ ~(q <= p) /\ p # q
    OBVIOUS
  <1>5. \A p \in A : UpTo(C, p) = UpTo(A, p)
    BY <1>12 DEF UpTo
  <1>6. \A p \in B : UpTo(C, p) = A \cup UpTo(B, p) /\ A \cap UpTo(B, p) = {}
    BY <1>12 DEF UpTo
  <1>7. ASSUME NEW i \in 1..a PROVE z[i] = x[i]
    <2>1. x[i] \in C /\ Cardinality(UpTo(C, x[i])) = i
      BY <1>2, <1>5
    <2> QED
      BY <1>1, <2>1, InOrderIs
  <1>8. ASSUME NEW i \in 1..b PROVE z[a + i] = y[i]
    <2>1. y[i] \in B /\ Cardinality(UpTo(B, y[i])) = i /\ IsFiniteSet(UpTo(B, y[i]))
      BY <1>3, RankType
    <2>2. Cardinality(A \cap UpTo(B, y[i])) = 0
      BY <1>6, <2>1, FS_EmptySet
    <2>3. Cardinality(UpTo(C, y[i])) = a + i
      <3>1. Cardinality(A \cup UpTo(B, y[i])) = a + i - 0
        BY <2>1, <2>2, FS_Union
      <3>2. UpTo(C, y[i]) = A \cup UpTo(B, y[i])
        BY <1>6, <2>1, Zenon
      <3>3. a + i - 0 = a + i
        BY <1>1
      <3> QED
        BY <3>1, <3>2, <3>3
    <2> QED
      BY <1>1, <2>1, <2>3, InOrderIs
  <1> HIDE DEF x, y, z, a, b
  <1>9. /\ x \o y \in Seq(Nat) /\ Len(x \o y) = a + b
        /\ \A i \in 1..a + b : (x \o y)[i] = IF i <= a THEN x[i] ELSE y[i - a]
    BY <1>1, <1>2, <1>3, ConcatProperties
  <1>10. ASSUME NEW i \in 1..a + b PROVE z[i] = (x \o y)[i]
    <2>1. CASE i <= a
      <3>1. i \in 1..a
        BY <1>1, <2>1
      <3> QED
        BY <1>7, <1>9, <2>1, <3>1
    <2>2. CASE ~(i <= a)
      <3>1. i - a \in 1..b /\ a + (i - a) = i
        BY <1>1, <2>2
      <3>2. z[a + (i - a)] = y[i - a]
        BY <1>8, <3>1
      <3> QED
        BY <1>9, <2>2, <3>1, <3>2
    <2> QED
      BY <2>1, <2>2
  <1>11. z = x \o y
    BY <1>4, <1>9, <1>10, SeqEqual, Zenon
  <1> QED
    BY <1>11 DEF x, y, z

---------------------------------------------------------------------------
\* Intervals of the wire are finite, split where one likes, and may be empty.
LEMMA Between ==
    ASSUME NEW S \in SUBSET Nat, NEW a \in Nat, NEW b \in Nat
    PROVE  /\ {p \in S : a < p /\ p <= b} \in SUBSET Nat
           /\ IsFiniteSet({p \in S : a < p /\ p <= b})
           /\ Cells(S, a, b) \in Seq(Nat)
  <1> DEFINE T == {p \in S : a < p /\ p <= b}
  <1>1. T \in SUBSET Nat /\ \A p \in T : p <= b
    OBVIOUS
  <1> HIDE DEF T
  <1>2. IsFiniteSet(T)
    BY <1>1, FS_BoundedSetOfNaturals
  <1>3. InOrder(T) \in Seq(Nat)
    BY <1>1, <1>2, InOrderAt
  <1> QED
    BY <1>1, <1>2, <1>3 DEF T, Cells

LEMMA CellsSplit ==
    ASSUME NEW S \in SUBSET Nat, NEW a \in Nat, NEW b \in Nat, NEW c \in Nat, a <= b, b <= c
    PROVE  Cells(S, a, c) = Cells(S, a, b) \o Cells(S, b, c)
  <1> DEFINE A == {p \in S : a < p /\ p <= b}
             B == {p \in S : b < p /\ p <= c}
             C == {p \in S : a < p /\ p <= c}
  <1>1. C = A \cup B
    <2>1. \A p \in S : p \in Nat
      OBVIOUS
    <2>2. \A p \in S : (a < p /\ p <= c) <=> (a < p /\ p <= b) \/ (b < p /\ p <= c)
      BY <2>1
    <2> QED
      BY <2>2
  <1>2. \A p \in A, q \in B : p < q
    OBVIOUS
  <1>3. /\ A \in SUBSET Nat /\ IsFiniteSet(A) /\ B \in SUBSET Nat /\ IsFiniteSet(B)
    BY Between
  <1> HIDE DEF A, B, C
  <1>4. InOrder(C) = InOrder(A) \o InOrder(B)
    BY <1>1, <1>2, <1>3, InOrderUnion
  <1> QED
    BY <1>4 DEF Cells, A, B, C

LEMMA Assoc ==
    ASSUME NEW s \in Seq(Nat), NEW t \in Seq(Nat), NEW u \in Seq(Nat)
    PROVE  (s \o t) \o u = s \o (t \o u)
  BY ConcatAssociative

LEMMA CellsNone ==
    ASSUME NEW S, NEW a, NEW b, \A p \in S : ~(a < p /\ p <= b)
    PROVE  Cells(S, a, b) = <<>>
  <1>1. {p \in S : a < p /\ p <= b} = {}
    OBVIOUS
  <1>2. Cardinality({}) = 0 /\ 1..0 = {}
    BY FS_EmptySet
  <1>3. InOrder({}) = <<>>
    BY <1>2 DEF InOrder
  <1> QED
    BY <1>1, <1>3 DEF Cells

LEMMA CellsSame ==
    ASSUME NEW S \in SUBSET Nat, NEW a \in Nat, NEW b \in Nat, a <= b,
           \A p \in S : ~(a < p /\ p <= b)
    PROVE  Cells(S, 0, a) = Cells(S, 0, b)
  <1>1. Cells(S, 0, b) = Cells(S, 0, a) \o Cells(S, a, b)
    <2>1. 0 \in Nat /\ 0 <= a
      OBVIOUS
    <2> QED
      BY <2>1, CellsSplit
  <1>2. Cells(S, a, b) = <<>> /\ Cells(S, 0, a) \in Seq(Nat)
    BY CellsNone, Between
  <1> QED
    BY <1>1, <1>2, ConcatEmptySeq

---------------------------------------------------------------------------
\* Up to where the data has been taken out of the stream.
Mark == IF direct THEN low ELSE IF done THEN taken ELSE parsed

\* Nothing is lost or doubled: what the caller has, then what waits for it, is the
\* data up to there.
Conserved ==
    /\ delivered \in Seq(Nat) /\ readOut \in Seq(Nat)
    /\ delivered \o readOut = Cells(wire.payload, 0, Mark)

\* Padding is over exactly when the terminal frame has been read.
Ahead == wire.cmd # "NONE" => (done <=> wire.term <= taken)

\* Every frame that has been read whole has been removed.
FramesTaken == ~done => parsed <= taken /\ \A g \in wire.frameEnd : g <= taken => g <= parsed

\* After the switch the gate keeps nothing, and rustls is asked only when there is
\* nothing to give out.
Emptied == (direct => low = sock) /\ (pc = "tls" => readOut = <<>>)

\* End of file comes last.
Ended == pc = "closed" => arrived = wire.n /\ delivered = Payload

DInv == IInv /\ Conserved /\ Ahead /\ FramesTaken /\ Emptied /\ Ended

\* What the steps need of the types.
LEMMA Facts ==
    ASSUME DInv
    PROVE  /\ StreamOK(wire) /\ DataOK(wire) /\ wire \in Streams
           /\ wire.n \in Nat /\ wire.payload \in SUBSET Nat /\ wire.plain \in SUBSET Nat
           /\ wire.tlsEnd \in Nat /\ wire.term \in Nat /\ wire.tlsEnd <= wire.n
           /\ arrived \in Nat /\ sock \in Nat /\ low \in Nat /\ fed \in Nat /\ decoded \in Nat
           /\ taken \in Nat /\ parsed \in Nat /\ Mark \in Nat
           /\ arrived <= wire.n /\ sock <= arrived /\ low <= sock /\ fed <= low
           /\ decoded <= fed /\ taken <= decoded /\ Mark <= low
           /\ readOut \in Seq(Nat) /\ delivered \in Seq(Nat)
           /\ \A p \in wire.plain : p <= wire.tlsEnd
           /\ \A p \in wire.payload : p <= wire.tlsEnd => p \in wire.plain
  <1>1. TypeOK /\ wire \in Streams /\ StreamOK(wire) /\ DataOK(wire)
    BY StreamsAssumption DEF DInv, IInv, TypeOK
  <1>2. /\ wire.n \in Nat /\ wire.payload \in SUBSET Nat /\ wire.plain \in SUBSET Nat
        /\ wire.tlsEnd \in Nat /\ wire.term \in Nat /\ wire.tlsEnd <= wire.n
        /\ \A p \in wire.plain : p <= wire.tlsEnd
        /\ \A p \in wire.payload : p <= wire.tlsEnd => p \in wire.plain
    BY <1>1 DEF StreamOK
  <1>3. /\ arrived \in Nat /\ sock \in Nat /\ low \in Nat /\ fed \in Nat /\ decoded \in Nat
        /\ taken \in Nat /\ parsed \in Nat
        /\ arrived <= wire.n /\ sock <= arrived /\ low <= sock /\ fed <= low
        /\ decoded <= fed /\ taken <= decoded
    BY <1>1, <1>2 DEF TypeOK
  <1>4. Mark \in Nat /\ Mark <= low
    <2>1. ~done => parsed <= taken
      BY DEF DInv, FramesTaken
    <2> QED
      BY <1>3, <2>1 DEF Mark
  <1> QED
    BY <1>1, <1>2, <1>3, <1>4 DEF DInv, Conserved

\* rustls is fed only when it holds no plaintext, so no frame and no data is passed.
LEMMA FeedingCarried ==
    ASSUME DInv, ~HasPlain, ~direct, taken' = decoded, pc' # "closed",
           pc' = "tls" => pc = "tls",
           UNCHANGED <<wire, delivered, readOut, done, direct, parsed>>
    PROVE  Conserved' /\ Ahead' /\ FramesTaken' /\ Emptied' /\ Ended'
  <1>1. /\ StreamOK(wire) /\ taken \in Nat /\ decoded \in Nat /\ taken <= decoded
        /\ decoded <= wire.tlsEnd /\ wire.payload \in SUBSET Nat /\ wire.plain \in SUBSET Nat
        /\ wire.tlsEnd \in Nat /\ wire.term \in Nat
        /\ \A p \in wire.payload : p <= wire.tlsEnd => p \in wire.plain
    <2>1. fed <= wire.tlsEnd
      BY DEF DInv, IInv, RawNeverFedToTls
    <2> QED
      BY <2>1, Facts
  <1>2. \A p \in wire.plain : ~(taken < p /\ p <= decoded)
    BY DEF HasPlain, PlainOf
  <1>3. Ahead'
    <2>1. wire.cmd # "NONE" => wire.term \in wire.plain
      BY <1>1 DEF StreamOK
    <2> QED
      BY <1>1, <1>2, <2>1 DEF DInv, Ahead
  <1>4. FramesTaken'
    <2>1. wire.frameEnd \subseteq wire.plain
      BY <1>1 DEF StreamOK
    <2>2. parsed \in Nat
      BY Facts
    <2>3. ~done => parsed <= decoded
      BY <1>1, <2>2 DEF DInv, FramesTaken
    <2>4. \A g \in wire.frameEnd : g <= decoded => g <= taken
      BY <1>1, <1>2, <2>1
    <2> QED
      BY <2>3, <2>4 DEF DInv, FramesTaken
  <1>5. Conserved'
    <2>1. CASE done
      <3>1. \A p \in wire.payload : ~(taken < p /\ p <= decoded)
        BY <1>1, <1>2
      <3>2. Cells(wire.payload, 0, taken) = Cells(wire.payload, 0, decoded)
        BY <1>1, <3>1, CellsSame
      <3> QED
        BY <2>1, <3>2 DEF DInv, Conserved, Mark
    <2>2. CASE ~done
      BY <2>2 DEF DInv, Conserved, Mark
    <2> QED
      BY <2>1, <2>2
  <1> QED
    BY <1>3, <1>4, <1>5 DEF DInv, Emptied, Ended

\* Steps that move nothing out of the layers above the socket.
LEMMA IdleCarried ==
    ASSUME DInv,
           UNCHANGED <<wire, low, taken, delivered, readOut, done, direct, parsed>>,
           direct => sock' = sock,
           pc' = "closed" => arrived' = wire.n /\ delivered = Payload,
           pc' = "tls" => readOut = <<>>
    PROVE  Conserved' /\ Ahead' /\ FramesTaken' /\ Emptied' /\ Ended'
  <1>1. Mark' = Mark /\ Payload' = Payload
    BY DEF Mark, Payload
  <1> QED
    BY <1>1 DEF DInv, Conserved, Ahead, FramesTaken, Emptied, Ended

\* Giving out a part keeps the whole.
LEMMA DeliverCarried ==
    ASSUME DInv, Deliver
    PROVE  /\ Conserved' /\ Ahead' /\ FramesTaken' /\ Emptied' /\ Ended'
           /\ \E d \in Seq(Nat) : delivered' = delivered \o d
  <1>1. PICK k \in 1..Len(readOut) :
            /\ delivered' = delivered \o SubSeq(readOut, 1, k)
            /\ readOut' = SubSeq(readOut, k + 1, Len(readOut))
    BY DEF Deliver
  <1>2. readOut \in Seq(Nat) /\ delivered \in Seq(Nat) /\ Len(readOut) \in Nat
    BY Facts
  <1> DEFINE x == SubSeq(readOut, 1, k)
             y == SubSeq(readOut, k + 1, Len(readOut))
  <1>3. x \in Seq(Nat) /\ y \in Seq(Nat) /\ x \o y = readOut
    <2>1. /\ x \in Seq(Nat) /\ Len(x) = k /\ \A i \in 1..k : x[i] = readOut[i]
          /\ y \in Seq(Nat) /\ Len(y) = Len(readOut) - k
          /\ \A i \in 1..Len(readOut) - k : y[i] = readOut[k + i]
      BY <1>2
    <2> HIDE DEF x, y
    <2>2. /\ x \o y \in Seq(Nat) /\ Len(x \o y) = Len(readOut)
          /\ \A i \in 1..Len(readOut) : (x \o y)[i] = IF i <= k THEN x[i] ELSE y[i - k]
      <3>1. k + (Len(readOut) - k) = Len(readOut)
        BY <1>2
      <3>2. /\ x \o y \in Seq(Nat) /\ Len(x \o y) = Len(x) + Len(y)
            /\ \A i \in 1..Len(x) + Len(y) :
                  (x \o y)[i] = IF i <= Len(x) THEN x[i] ELSE y[i - Len(x)]
        BY <2>1, ConcatProperties
      <3> QED
        BY <2>1, <3>1, <3>2
    <2>3. ASSUME NEW i \in 1..Len(readOut) PROVE (x \o y)[i] = readOut[i]
      <3>1. CASE i <= k
        BY <1>2, <2>1, <2>2, <3>1
      <3>2. CASE ~(i <= k)
        <4>1. i - k \in 1..Len(readOut) - k /\ k + (i - k) = i
          BY <1>2, <3>2
        <4> QED
          BY <2>1, <2>2, <3>2, <4>1
      <3> QED
        BY <3>1, <3>2
    <2>4. x \o y = readOut
      BY <1>2, <2>2, <2>3, SeqEqual, Zenon
    <2> QED
      BY <2>1, <2>4
  <1> HIDE DEF x, y
  <1>4. delivered' = delivered \o x /\ readOut' = y
    BY <1>1 DEF x, y
  <1>5. delivered' \in Seq(Nat) /\ delivered' \o readOut' = delivered \o readOut
    <2>1. (delivered \o x) \o y = delivered \o (x \o y)
      <3>1. delivered \in Seq(Nat) /\ x \in Seq(Nat) /\ y \in Seq(Nat)
        BY <1>2, <1>3
      <3> QED
        BY <3>1, Assoc
    <2> QED
      BY <1>2, <1>3, <1>4, <2>1, ConcatProperties
  <1>6. /\ UNCHANGED <<wire, low, sock, taken, parsed, done, direct, pc>> /\ pc = "top"
    BY DEF Deliver, posVars
  <1>7. Mark' = Mark
    BY <1>6 DEF Mark
  <1> QED
    BY <1>3, <1>4, <1>5, <1>6, <1>7 DEF DInv, Conserved, Ahead, FramesTaken, Emptied, Ended

\* After End: data as it comes (vision.rs:556-562).
LEMMA PlainReadCarried ==
    ASSUME DInv, PlainRead
    PROVE  /\ Conserved' /\ Ahead' /\ FramesTaken' /\ Emptied' /\ Ended'
           /\ \E d \in Seq(Nat) : delivered' = delivered \o d
  <1>1. /\ pc = "tls" /\ done /\ pc' = "top"
        /\ UNCHANGED <<wire, arrived, sock, low, fed, decoded, parsed, done, direct, readOut>>
    BY DEF PlainRead
  <1>2. PICK r \in PlainOf(wire, taken, decoded) :
            /\ taken' = r
            /\ delivered' = delivered \o Cells(wire.plain, taken, r)
    BY DEF PlainRead
  <1>3. ~direct /\ wire.cmd # "NONE" /\ readOut = <<>> /\ delivered \in Seq(Nat)
    BY <1>1, Facts DEF DInv, IInv, Modes, Emptied
  <1>4. /\ taken \in Nat /\ r \in Nat /\ taken <= r /\ wire.term \in Nat /\ wire.term <= taken
        /\ r <= wire.tlsEnd /\ wire.plain \in SUBSET Nat /\ wire.payload \in SUBSET Nat
        /\ wire.tlsEnd \in Nat
    BY <1>1, <1>2, <1>3, Facts DEF PlainOf, DInv, Ahead
  <1> DEFINE d == Cells(wire.plain, taken, r)
  <1>5. d = Cells(wire.payload, taken, r) /\ d \in Seq(Nat)
    <2>1. \A p : taken < p /\ p <= r => (p \in wire.plain <=> p \in wire.payload)
      <3>1. \A p \in wire.plain : wire.term < p => p \in wire.payload
        BY <1>3, Facts DEF DataOK
      <3>2. \A p \in wire.payload : p <= wire.tlsEnd => p \in wire.plain
        BY Facts
      <3>3. ASSUME NEW p \in wire.plain, taken < p, p <= r PROVE p \in wire.payload
        BY <1>4, <3>1, <3>3
      <3>4. ASSUME NEW p \in wire.payload, taken < p, p <= r PROVE p \in wire.plain
        BY <1>4, <3>2, <3>4
      <3> QED
        BY <3>3, <3>4
    <2>2. d = Cells(wire.payload, taken, r)
      <3>1. {p \in wire.plain : taken < p /\ p <= r} = {p \in wire.payload : taken < p /\ p <= r}
        BY <2>1
      <3> QED
        BY <3>1 DEF Cells
    <2> QED
      BY <1>4, <2>2, Between
  <1> HIDE DEF d
  <1>6. Cells(wire.payload, 0, r) = Cells(wire.payload, 0, taken) \o d
    <2>1. 0 \in Nat /\ 0 <= taken
      BY <1>4
    <2> QED
      BY <1>4, <1>5, <2>1, CellsSplit
  <1>7. Conserved'
    <2>1. delivered \o readOut = delivered
      BY <1>3, ConcatEmptySeq
    <2>2. delivered = Cells(wire.payload, 0, taken)
      BY <1>1, <1>3, <2>1 DEF DInv, Conserved, Mark
    <2>3. delivered' = delivered \o d /\ delivered' \in Seq(Nat)
      BY <1>2, <1>3, <1>5, ConcatProperties DEF d
    <2>4. delivered' \o readOut' = delivered'
      BY <1>1, <1>3, <2>3, ConcatEmptySeq
    <2>5. Mark' = r
      BY <1>1, <1>2, <1>3 DEF Mark
    <2>6. readOut' \in Seq(Nat)
      BY <1>1, <1>3
    <2>7. Cells(wire'.payload, 0, Mark') = delivered \o d
      BY <1>1, <1>6, <2>2, <2>5
    <2> QED
      BY <2>3, <2>4, <2>6, <2>7 DEF Conserved
  <1>8. Ahead' /\ FramesTaken' /\ Emptied' /\ Ended'
    BY <1>1, <1>2, <1>3, <1>4 DEF Ahead, FramesTaken, Emptied, Ended
  <1> QED
    BY <1>2, <1>5, <1>7, <1>8 DEF d

---------------------------------------------------------------------------
LEMMA FromStart ==
    ASSUME NEW S \in SUBSET Nat, NEW b \in Nat, NEW c \in Nat, b <= c
    PROVE  Cells(S, 0, c) = Cells(S, 0, b) \o Cells(S, b, c)
  <1>1. 0 \in Nat /\ 0 <= b
    OBVIOUS
  <1> QED
    BY <1>1, CellsSplit

\* What is past TLS is data, all of it.
LEMMA RawCells ==
    ASSUME DInv, NEW a \in Nat, NEW b \in Nat, wire.tlsEnd <= a, b <= wire.n
    PROVE  Cells(1..wire.n, a, b) = Cells(wire.payload, a, b)
  <1>1. /\ wire.n \in Nat /\ wire.tlsEnd \in Nat /\ wire.payload \in SUBSET Nat
        /\ \A p \in (wire.tlsEnd + 1)..wire.n : p \in wire.payload
    BY Facts DEF DataOK
  <1>2. {p \in 1..wire.n : a < p /\ p <= b} = {p \in wire.payload : a < p /\ p <= b}
    <2>1. ASSUME NEW p \in 1..wire.n, a < p, p <= b PROVE p \in wire.payload
      BY <1>1, <2>1
    <2>2. ASSUME NEW p \in wire.payload, a < p, p <= b PROVE p \in 1..wire.n
      BY <1>1, <2>2
    <2> QED
      BY <2>1, <2>2
  <1> QED
    BY <1>2 DEF Cells

\* In TLS the data is what is decrypted, once the frames are over.
LEMMA PlainCells ==
    ASSUME DInv, NEW a \in Nat, NEW b \in Nat, wire.cmd # "NONE", wire.term <= a,
           b <= wire.tlsEnd
    PROVE  Cells(wire.plain, a, b) = Cells(wire.payload, a, b)
  <1>1. /\ wire.tlsEnd \in Nat /\ wire.term \in Nat
        /\ wire.payload \in SUBSET Nat /\ wire.plain \in SUBSET Nat
        /\ \A p \in wire.plain : wire.term < p => p \in wire.payload
        /\ \A p \in wire.payload : p <= wire.tlsEnd => p \in wire.plain
    BY Facts DEF DataOK
  <1>2. {p \in wire.plain : a < p /\ p <= b} = {p \in wire.payload : a < p /\ p <= b}
    <2>1. ASSUME NEW p \in wire.plain, a < p, p <= b PROVE p \in wire.payload
      BY <1>1, <2>1
    <2>2. ASSUME NEW p \in wire.payload, a < p, p <= b PROVE p \in wire.plain
      BY <1>1, <2>2
    <2> QED
      BY <2>1, <2>2
  <1> QED
    BY <1>2 DEF Cells

\* Before that it is what the frames hold.
LEMMA FramedCells ==
    ASSUME DInv, NEW a \in Nat, NEW b \in Nat, b <= wire.tlsEnd
    PROVE  Cells(wire.payload \cap wire.plain, a, b) = Cells(wire.payload, a, b)
  <1>1. /\ wire.tlsEnd \in Nat /\ wire.payload \in SUBSET Nat
        /\ \A p \in wire.payload : p <= wire.tlsEnd => p \in wire.plain
    BY Facts
  <1>2. {p \in wire.payload \cap wire.plain : a < p /\ p <= b} = {p \in wire.payload : a < p /\ p <= b}
    BY <1>1
  <1> QED
    BY <1>2 DEF Cells

\* After Direct: data from the socket.
LEMMA DirectReadCarried ==
    ASSUME DInv, DirectRead, ~SocketEmpty
    PROVE  /\ Conserved' /\ Ahead' /\ FramesTaken' /\ Emptied' /\ Ended'
           /\ \E d \in Seq(Nat) : delivered' = delivered \o d
  <1>1. /\ pc = "top" /\ pc' = pc /\ readOut = <<>> /\ direct
        /\ UNCHANGED <<wire, arrived, fed, decoded, taken, parsed, done, direct, readOut>>
    BY DEF DirectRead, gateVars
  <1>2. PICK to \in (sock + 1)..arrived :
            /\ sock' = to /\ low' = to
            /\ delivered' = delivered \o Cells(1..wire.n, sock, to)
    BY DEF DirectRead
  <1>3. /\ low = sock /\ fed = wire.tlsEnd /\ Mark = low
    BY <1>1 DEF DInv, IInv, SwitchAtBoundary, Emptied, Mark
  <1>4. /\ sock \in Nat /\ to \in Nat /\ sock <= to /\ to <= wire.n /\ wire.tlsEnd <= sock
        /\ wire.payload \in SUBSET Nat /\ delivered \in Seq(Nat)
    BY <1>2, <1>3, Facts
  <1> DEFINE d == Cells(wire.payload, sock, to)
  <1>5. delivered' = delivered \o d /\ d \in Seq(Nat)
    BY <1>2, <1>4, RawCells, Between
  <1>6. Cells(wire.payload, 0, to) = Cells(wire.payload, 0, sock) \o d
    <2>1. 0 \in Nat /\ 0 <= sock
      BY <1>4
    <2> QED
      BY <1>4, <2>1, CellsSplit
  <1> HIDE DEF d
  <1>7. Conserved'
    <2>1. delivered \o readOut = delivered
      BY <1>1, <1>4, ConcatEmptySeq
    <2>2. delivered = Cells(wire.payload, 0, sock)
      BY <1>3, <2>1 DEF DInv, Conserved
    <2>3. delivered' \in Seq(Nat)
      BY <1>4, <1>5, ConcatProperties
    <2>4. delivered' \o readOut' = delivered'
      BY <1>1, <2>3, ConcatEmptySeq
    <2>5. Mark' = to /\ readOut' \in Seq(Nat)
      BY <1>1, <1>2 DEF Mark
    <2>6. Cells(wire'.payload, 0, Mark') = delivered \o d
      BY <1>1, <1>6, <2>2, <2>5
    <2> QED
      BY <1>5, <2>3, <2>4, <2>5, <2>6 DEF Conserved
  <1>8. Ahead' /\ FramesTaken' /\ Emptied' /\ Ended'
    BY <1>1, <1>2 DEF DInv, Ahead, FramesTaken, Emptied, Ended
  <1> QED
    BY <1>5, <1>7, <1>8

\* Frames removed, and at a terminal one what is behind it in its record; at the
\* switch, what the gate has buffered.
LEMMA PaddedReadCarried ==
    ASSUME DInv, PaddedRead
    PROVE  Conserved' /\ Ahead' /\ FramesTaken' /\ Emptied' /\ Ended'
  <1>1. /\ pc = "tls" /\ HasPlain /\ ~done /\ pc' = "top"
        /\ UNCHANGED <<wire, arrived, sock, fed, decoded, delivered>>
    BY DEF PaddedRead
  <1>2. PICK r \in 1..wire.n, f \in 0..wire.n :
        /\ ReadChunkTo(r) /\ taken' = r
        /\ LastFrame(r, f) /\ parsed' = f
        /\ done' = Finished(r)
        /\ direct' = (Finished(r) /\ wire.cmd = "DIRECT")
        /\ \/ direct' /\ readOut' = readOut \o Unpadded(r, f) \o Leftover /\ low' = sock
           \/ ~direct' /\ readOut' = readOut \o Unpadded(r, f) /\ UNCHANGED low
    BY DEF PaddedRead
  <1>3. ~direct /\ readOut = <<>> /\ gating /\ low = fed
    BY <1>1 DEF DInv, IInv, Modes, Emptied
  <1>4. r = decoded
    BY <1>1, <1>2, <1>3, ChunkTakesRecord DEF DInv, IInv, OneHeld
  <1>5. /\ wire.n \in Nat /\ wire.tlsEnd \in Nat /\ wire.term \in Nat /\ parsed \in Nat
        /\ r \in Nat /\ f \in Nat /\ taken \in Nat /\ taken <= r /\ r <= fed /\ parsed <= taken
        /\ low \in Nat /\ sock \in Nat /\ low <= sock /\ sock <= wire.n /\ fed \in Nat
        /\ wire.payload \in SUBSET Nat /\ wire.plain \in SUBSET Nat
        /\ delivered \in Seq(Nat) /\ wire.respEnd \in Nat /\ wire.frameEnd \subseteq wire.plain
        /\ r <= wire.tlsEnd /\ wire.tlsEnd <= wire.n
    <2>1. fed <= wire.tlsEnd
      BY DEF DInv, IInv, RawNeverFedToTls
    <2>2. parsed <= taken
      BY <1>1 DEF DInv, FramesTaken
    <2>3. arrived <= wire.n /\ sock <= arrived /\ arrived \in Nat
      BY Facts
    <2>4. wire.respEnd \in Nat /\ wire.frameEnd \subseteq wire.plain
      BY Facts DEF StreamOK
    <2>5. wire.n \in Nat /\ wire.tlsEnd \in Nat /\ wire.term \in Nat /\ wire.tlsEnd <= wire.n
      BY Facts
    <2>6. wire.payload \in SUBSET Nat /\ wire.plain \in SUBSET Nat /\ delivered \in Seq(Nat)
      BY Facts
    <2>7. parsed \in Nat /\ taken \in Nat /\ low \in Nat /\ sock \in Nat /\ fed \in Nat
      BY Facts
    <2>8. low <= sock /\ taken <= decoded /\ decoded <= fed /\ decoded \in Nat
      BY Facts
    <2>9. r \in Nat /\ f \in Nat /\ taken <= r /\ r <= fed /\ r <= wire.tlsEnd /\ sock <= wire.n
      BY <1>4, <2>1, <2>3, <2>5, <2>7, <2>8
    <2> QED
      BY <2>2, <2>4, <2>5, <2>6, <2>7, <2>8, <2>9
  <1>6. /\ parsed <= f /\ f <= r
        /\ \A g \in wire.frameEnd : g <= r => g <= f
    <2>1. \A g \in wire.frameEnd : g \in Nat /\ wire.respEnd < g
      BY <1>5, Facts DEF DataOK
    <2>2. ASSUME NEW g \in wire.frameEnd, g <= r, parsed < g PROVE g <= f
      <3>1. HeaderDone(r)
        BY <1>5, <2>1, <2>2 DEF HeaderDone
      <3> QED
        BY <1>2, <2>2, <3>1 DEF LastFrame
    <2>3. f = parsed \/ (parsed < f /\ f <= r)
      BY <1>2 DEF LastFrame
    <2>4. \A g \in wire.frameEnd : parsed < g \/ g <= parsed
      BY <1>5, <2>1
    <2>5. parsed <= f /\ f <= r
      BY <1>5, <2>3
    <2>6. \A g \in wire.frameEnd : g <= parsed => g <= f
      BY <1>5, <2>1, <2>5
    <2> QED
      BY <2>2, <2>4, <2>5, <2>6
  <1>7. wire.cmd # "NONE" => /\ wire.term \in wire.frameEnd /\ wire.respEnd < wire.term
                             /\ Finished(r) <=> wire.term <= r
    <2>1. wire.cmd # "NONE" => wire.term \in wire.frameEnd /\ wire.respEnd < wire.term
      BY Facts DEF StreamOK
    <2> QED
      BY <1>5, <2>1 DEF Finished, HeaderDone
  <1>8. Finished(r) => wire.cmd # "NONE" /\ wire.term <= f
    BY <1>6, <1>7 DEF Finished
  <1>9. Ahead' /\ FramesTaken' /\ Emptied' /\ Ended'
    <2>1. direct' => low' = sock'
      BY <1>1, <1>2
    <2> QED
      BY <1>1, <1>2, <1>5, <1>6, <1>7, <2>1 DEF Ahead, FramesTaken, Emptied, Ended
  <1>10. Cells(wire.payload, 0, parsed) = delivered
    <2>1. delivered \o readOut = delivered
      BY <1>3, <1>5, ConcatEmptySeq
    <2> QED
      BY <1>1, <1>3, <2>1 DEF DInv, Conserved, Mark
  <1> DEFINE x == Cells(wire.payload, parsed, f)
             y == Cells(wire.payload, f, r)
             z == Cells(wire.payload, low, sock)
  <1>11. x \in Seq(Nat) /\ y \in Seq(Nat) /\ z \in Seq(Nat)
    BY <1>5, Between
  <1>12. /\ Cells(wire.payload, 0, f) = delivered \o x
         /\ Cells(wire.payload, 0, r) = (delivered \o x) \o y
    <2>1. /\ wire.payload \in SUBSET Nat /\ parsed \in Nat /\ f \in Nat /\ r \in Nat
          /\ parsed <= f /\ f <= r
      BY <1>5, <1>6
    <2>2. Cells(wire.payload, 0, f) = Cells(wire.payload, 0, parsed) \o x
      BY <2>1, FromStart
    <2>3. Cells(wire.payload, 0, r) = Cells(wire.payload, 0, f) \o y
      BY <2>1, FromStart
    <2> QED
      BY <1>10, <2>2, <2>3
  <1>13. Unpadded(r, f) = IF Finished(r) THEN x \o y ELSE x
    <2>1. Cells(wire.payload \cap wire.plain, parsed, f) = x
      <3>1. f <= wire.tlsEnd
        BY <1>5, <1>6
      <3> QED
        BY <1>5, <3>1, FramedCells
    <2>2. Finished(r) => Cells(wire.plain, f, r) = y
      BY <1>5, <1>8, PlainCells
    <2>3. x \o <<>> = x
      BY <1>11, ConcatEmptySeq
    <2> HIDE DEF x, y
    <2> QED
      BY <2>1, <2>2, <2>3 DEF Unpadded
  <1>14. Finished(r) /\ wire.cmd = "DIRECT" => low = r /\ low = wire.tlsEnd /\ Leftover = z
    <2>1. SUFFICES ASSUME Finished(r), wire.cmd = "DIRECT"
                   PROVE  low = r /\ low = wire.tlsEnd /\ Leftover = z
      OBVIOUS
    <2>2. direct'
      BY <1>2, <2>1
    <2>3. fed = wire.tlsEnd
      <3>1. SwitchAtBoundary'
        BY PaddedReadKeeps DEF DInv, IInv
      <3> QED
        BY <1>1, <2>2, <3>1 DEF SwitchAtBoundary
    <2>4. wire.tlsEnd <= decoded
      <3>1. wire.tlsEnd \in wire.recEnd
        BY Facts DEF StreamOK
      <3> QED
        BY <1>5, <2>3, <3>1 DEF DInv, IInv, DecodedLast
    <2>5. low = r /\ low = wire.tlsEnd
      BY <1>3, <1>4, <1>5, <2>3, <2>4
    <2> QED
      BY <1>5, <2>5, RawCells DEF Leftover
  <1> DEFINE out == Unpadded(r, f)
  <1>15. readOut' = IF direct' THEN out \o z ELSE out
    <2>1. out \in Seq(Nat)
      BY <1>11, <1>13, ConcatProperties
    <2>2. readOut \o out = out
      BY <1>3, <2>1, ConcatEmptySeq
    <2>3. direct' => Leftover = z
      BY <1>2, <1>14
    <2> HIDE DEF out, z
    <2>4. CASE direct'
      <3>1. readOut' = readOut \o out \o Leftover
        BY <1>2, <2>4 DEF out
      <3> QED
        BY <2>2, <2>3, <2>4, <3>1
    <2>5. CASE ~direct'
      BY <1>2, <2>2, <2>5 DEF out
    <2> QED
      BY <2>4, <2>5
  <1>16. Conserved'
    <2> HIDE DEF x, y, z, out
    <2>1. /\ x \o y \in Seq(Nat) /\ (x \o y) \o z \in Seq(Nat)
          /\ delivered \o (x \o y) = (delivered \o x) \o y
          /\ delivered \o ((x \o y) \o z) = ((delivered \o x) \o y) \o z
      <3>1. x \o y \in Seq(Nat) /\ (x \o y) \o z \in Seq(Nat)
        BY <1>11, ConcatProperties
      <3>2. delivered \o (x \o y) = (delivered \o x) \o y
        BY <1>5, <1>11, Assoc
      <3>3. delivered \o ((x \o y) \o z) = (delivered \o (x \o y)) \o z
        BY <1>5, <1>11, <3>1, Assoc
      <3> QED
        BY <3>1, <3>2, <3>3
    <2>2. delivered' \in Seq(Nat) /\ delivered' = delivered
      BY <1>1, <1>5
    <2>3. CASE ~Finished(r)
      <3>1. ~direct' /\ ~done' /\ readOut' = x
        BY <1>2, <1>13, <1>15, <2>3 DEF out
      <3>2. Mark' = f
        BY <1>2, <3>1 DEF Mark
      <3> QED
        BY <1>1, <1>11, <1>12, <2>2, <3>1, <3>2 DEF Conserved
    <2>4. CASE Finished(r) /\ wire.cmd # "DIRECT"
      <3>1. ~direct' /\ done' /\ readOut' = x \o y
        BY <1>2, <1>13, <1>15, <2>4 DEF out
      <3>2. Mark' = r
        BY <1>2, <3>1 DEF Mark
      <3> QED
        BY <1>1, <1>12, <2>1, <2>2, <3>1, <3>2 DEF Conserved
    <2>5. CASE Finished(r) /\ wire.cmd = "DIRECT"
      <3>1. direct' /\ readOut' = (x \o y) \o z
        BY <1>2, <1>13, <1>15, <2>5 DEF out
      <3>2. Mark' = sock
        BY <1>2, <3>1 DEF Mark
      <3>3. Cells(wire.payload, 0, sock) = Cells(wire.payload, 0, r) \o z
        <4>1. low = r /\ r \in Nat /\ sock \in Nat /\ r <= sock /\ wire.payload \in SUBSET Nat
          BY <1>5, <1>14, <2>5
        <4>2. Cells(wire.payload, 0, sock) = Cells(wire.payload, 0, r) \o Cells(wire.payload, r, sock)
          BY <4>1, FromStart
        <4> QED
          BY <4>1, <4>2 DEF z
      <3> QED
        BY <1>1, <1>12, <2>1, <2>2, <3>1, <3>2, <3>3 DEF Conserved
    <2> QED
      BY <2>3, <2>4, <2>5
  <1> QED
    BY <1>9, <1>16

\* The reads that end the connection find nothing left above the socket.
LEMMA NothingLeft ==
    ASSUME DInv, SocketEmpty, pc' = "closed",
           \/ pc = "top" /\ direct /\ readOut = <<>>
           \/ WantsRead /\ ~gating /\ low = sock
           \/ WantsRead /\ gating /\ remaining > 0 /\ low = sock
           \/ WantsRead /\ gating /\ remaining = 0 /\ sock - low < HeaderLen
    PROVE  arrived = wire.n /\ delivered = Payload
  <1>1. sock = arrived /\ arrived = wire.n
    BY DEF SocketEmpty
  <1>2. readOut = <<>>
    BY DEF WantsRead, DInv, Emptied
  <1>3. delivered = Cells(wire.payload, 0, Mark)
    <2>1. delivered \o readOut = delivered
      BY <1>2, Facts, ConcatEmptySeq
    <2> QED
      BY <2>1 DEF DInv, Conserved
  <1>4. CASE direct
    <2>1. Mark = wire.n
      BY <1>1, <1>4 DEF DInv, Emptied, Mark
    <2> QED
      BY <1>1, <1>3, <2>1 DEF Payload
  <1>5. CASE ~direct
    <2>1. WantsRead /\ pc = "tls" /\ ~HasPlain /\ low = fed
      BY <1>5 DEF WantsRead, DInv, IInv, Modes
    <2>2. /\ wire.n \in Nat /\ wire.tlsEnd \in Nat /\ wire.tlsEnd <= wire.n
          /\ fed \in Nat /\ sock \in Nat /\ fed <= sock /\ fed <= wire.tlsEnd
          /\ decoded \in Nat /\ decoded <= fed /\ taken \in Nat /\ taken <= decoded
          /\ wire.tlsEnd \in wire.recEnd /\ wire.term \in Nat /\ HeaderLen \in Nat
          /\ wire.payload \in SUBSET Nat /\ wire.plain \in SUBSET Nat /\ parsed \in Nat
      BY <2>1, Facts, HeaderLenAssumption DEF DInv, IInv, RawNeverFedToTls, StreamOK
    <2>3. \A p \in wire.plain : ~(taken < p /\ p <= decoded)
      BY <2>1 DEF HasPlain, PlainOf
    <2>4. fed = wire.tlsEnd
      <3>1. CASE ~gating \/ remaining > 0
        <4>1. fed = wire.n
          BY <1>1, <1>5, <2>1, <3>1
        <4> QED
          BY <2>2, <4>1
      <3>2. CASE gating /\ ~(remaining > 0)
        <4>1. remaining = 0 /\ sock - low < HeaderLen
          BY <1>5, <3>2
        <4>2. fed \in wire.recEnd \cup {0}
          BY <1>5, <3>2, <4>1 DEF DInv, IInv, Aligned, Boundary
        <4>3. ~(fed < wire.tlsEnd)
          <5>1. fed < wire.tlsEnd => fed + HeaderLen <= wire.tlsEnd
            BY <2>2, <4>2, Facts DEF DataOK
          <5> QED
            BY <1>1, <2>1, <2>2, <4>1, <5>1
        <4> QED
          BY <2>2, <4>3
      <3> QED
        BY <3>1, <3>2
    <2>5. decoded = wire.tlsEnd
      <3>1. wire.tlsEnd <= decoded
        BY <2>2, <2>4 DEF DInv, IInv, DecodedLast
      <3> QED
        BY <2>2, <2>4, <3>1
    <2>6. \A p \in wire.payload : p <= wire.tlsEnd => p <= taken
      <3>1. \A p \in wire.payload : p <= wire.tlsEnd => p \in wire.plain
        BY Facts
      <3> QED
        BY <2>2, <2>3, <2>5, <3>1
    <2>7. wire.cmd # "NONE" => done
      <3>1. wire.cmd # "NONE" => wire.term \in wire.plain /\ wire.term <= wire.tlsEnd
        <4>1. wire.cmd # "NONE" => wire.term \in wire.plain
          BY Facts DEF StreamOK
        <4> QED
          BY <4>1, Facts
      <3>2. wire.cmd # "NONE" => wire.term <= taken
        BY <2>2, <2>3, <2>5, <3>1
      <3> QED
        BY <3>2 DEF DInv, Ahead
    <2>8. wire.tlsEnd = wire.n
      <3>1. wire.cmd # "DIRECT"
        BY <1>5, <2>7 DEF DInv, IInv, Modes
      <3> QED
        BY <3>1, Facts DEF StreamOK
    <2>9. \A p \in wire.payload : ~(Mark < p /\ p <= wire.n)
      <3>1. CASE done
        BY <1>5, <2>2, <2>6, <2>8, <3>1 DEF Mark
      <3>2. CASE ~done
        <4>1. /\ \A p \in wire.payload : \E g \in wire.frameEnd : p <= g
              /\ wire.frameEnd \subseteq wire.plain
          BY <2>7, <3>2, Facts DEF DataOK, StreamOK
        <4>2. \A g \in wire.frameEnd : g <= parsed
          <5>1. \A g \in wire.frameEnd : g <= taken
            <6>1. \A g \in wire.plain : g <= wire.tlsEnd
              BY Facts
            <6> QED
              BY <2>2, <2>3, <2>5, <4>1, <6>1
          <5> QED
            BY <3>2, <5>1 DEF DInv, FramesTaken
        <4>3. \A p \in wire.payload : p <= parsed
          BY <2>2, <4>1, <4>2
        <4> QED
          BY <1>5, <2>2, <3>2, <4>3 DEF Mark
      <3> QED
        BY <3>1, <3>2
    <2>10. Mark \in Nat /\ Mark <= wire.n
      BY <1>1, Facts
    <2>11. Cells(wire.payload, 0, Mark) = Cells(wire.payload, 0, wire.n)
      BY <2>2, <2>9, <2>10, CellsSame
    <2> QED
      BY <1>1, <1>3, <2>11 DEF Payload
  <1> QED
    BY <1>4, <1>5

---------------------------------------------------------------------------
Carried == Conserved /\ Ahead /\ FramesTaken /\ Emptied /\ Ended

Sent == Cells(wire.payload, 0, arrived)

\* What a step may do to what was sent and what was given out.
PipeStep ==
    /\ UNCHANGED wire
    /\ \/ pc # "closed" /\ pc' # "closed" /\ arrived < arrived' /\ UNCHANGED delivered
       \/ /\ pc # "closed" /\ pc' # "closed" /\ UNCHANGED arrived
          /\ \E d \in Seq(Nat) : delivered' = delivered \o d
       \/ delivered = Sent /\ pc' = "closed" /\ UNCHANGED <<arrived, delivered>>
       \/ UNCHANGED <<arrived, delivered, pc>>

\* A socket read that finds nothing sleeps, or ends the connection.
LEMMA ClosingStep ==
    ASSUME DInv, SocketEmpty, direct => sock' = sock,
           \/ pc = "top" /\ direct /\ readOut = <<>>
           \/ WantsRead /\ ~gating /\ low = sock
           \/ WantsRead /\ gating /\ remaining > 0 /\ low = sock
           \/ WantsRead /\ gating /\ remaining = 0 /\ sock - low < HeaderLen
    PROVE  Carried' /\ PipeStep
  <1>1. /\ sock = arrived /\ pc' = IF arrived = wire.n THEN "closed" ELSE "wait"
        /\ UNCHANGED <<wire, arrived, sock, low, taken, parsed, done, direct, readOut, delivered>>
    BY DEF SocketEmpty, posVars, outVars
  <1>2. pc' = "closed" => arrived = wire.n /\ delivered = Payload
    BY NothingLeft
  <1>3. Carried'
    BY <1>1, <1>2, IdleCarried DEF Carried
  <1>4. PipeStep
    <2>1. CASE pc' = "closed"
      <3>1. delivered = Sent
        BY <1>2, <2>1 DEF Payload, Sent
      <3> QED
        BY <1>1, <2>1, <3>1 DEF PipeStep
    <2>2. CASE pc' # "closed"
      <3>1. delivered' = delivered \o <<>> /\ <<>> \in Seq(Nat)
        BY <1>1, Facts, ConcatEmptySeq
      <3>2. pc # "closed"
        BY DEF WantsRead
      <3> QED
        BY <1>1, <2>2, <3>1, <3>2 DEF PipeStep
    <2> QED
      BY <2>1, <2>2
  <1> QED
    BY <1>3, <1>4

\* Steps of a task that neither ends nor gives anything out.
LEMMA GoingOn ==
    ASSUME DInv, UNCHANGED <<wire, delivered>>, pc # "closed", pc' # "closed",
           arrived' = arrived \/ arrived < arrived'
    PROVE  PipeStep
  <1>1. delivered' = delivered \o <<>> /\ <<>> \in Seq(Nat)
    BY Facts, ConcatEmptySeq
  <1> QED
    BY <1>1 DEF PipeStep

LEMMA FedStep ==
    ASSUME DInv, ~HasPlain, ~direct, NEW to, Feed(to), pc # "closed", pc' # "closed",
           pc' = "tls" => pc = "tls",
           UNCHANGED <<wire, arrived, delivered, readOut, done, direct, parsed>>
    PROVE  Carried' /\ PipeStep
  <1>1. taken' = decoded
    BY DEF Feed
  <1> QED
    BY <1>1, FeedingCarried, GoingOn DEF Carried

LEMMA StepCarried ==
    ASSUME DInv, [Next]_vars
    PROVE  Carried' /\ PipeStep
  <1>1. CASE UNCHANGED vars
    <2>1. /\ UNCHANGED <<wire, arrived, sock, low, taken, delivered, readOut, done, direct, parsed, pc>>
      BY <1>1 DEF vars, posVars, outVars
    <2>2. pc' = "closed" => arrived' = wire.n /\ delivered = Payload
      BY <2>1 DEF DInv, Ended
    <2>3. pc' = "tls" => readOut = <<>>
      BY <2>1 DEF DInv, Emptied
    <2> QED
      BY <2>1, <2>2, <2>3, IdleCarried DEF Carried, PipeStep
  <1>2. CASE Arrive
    <2>1. /\ UNCHANGED <<wire, sock, low, taken, delivered, readOut, done, direct, parsed, pc>>
          /\ arrived' \in (arrived + 1)..(IF pc = "connect" THEN wire.early ELSE wire.n)
      BY <1>2 DEF Arrive, outVars
    <2>2. pc # "closed"
      <3>1. pc = "closed" => arrived = wire.n /\ wire.n \in Nat
        BY Facts DEF DInv, Ended
      <3> QED
        BY <2>1, <3>1
    <2>3. arrived < arrived'
      BY <2>1, Facts
    <2>4. pc' = "tls" => readOut = <<>>
      BY <2>1 DEF DInv, Emptied
    <2> QED
      BY <2>1, <2>2, <2>3, <2>4, IdleCarried, GoingOn DEF Carried
  <1>3. CASE HandshakeRead
    <2>1. pc = "connect" /\ pc' = pc
          /\ UNCHANGED <<wire, arrived, delivered, readOut, done, direct, parsed>>
      BY <1>3 DEF HandshakeRead, outVars
    <2>2. PICK to : Feed(to)
      BY <1>3 DEF HandshakeRead
    <2>3. ~direct
      BY <2>1 DEF DInv, IInv, Connecting, Modes
    <2>4. ~HasPlain
      <3>1. arrived <= wire.early
        BY <2>1 DEF DInv, IInv, Connecting
      <3>2. /\ wire.early \in Nat /\ decoded <= arrived /\ decoded \in Nat /\ arrived \in Nat
            /\ \A p \in wire.plain : p \in (wire.early + 1)..wire.tlsEnd
        BY Facts DEF StreamOK
      <3>3. \A p \in wire.plain : ~(p <= decoded)
        BY <3>1, <3>2
      <3> QED
        BY <3>3 DEF HasPlain, PlainOf
    <2> QED
      BY <2>1, <2>2, <2>3, <2>4, FedStep
  <1>4. CASE StartGating \/ EnterTls \/ GateClosed \/ Wake \/ Repoll
    <2>1. /\ UNCHANGED <<wire, arrived, sock, low, taken, delivered, readOut, done, direct, parsed>>
          /\ pc # "closed" /\ pc' # "closed" /\ (pc' = "tls" => readOut = <<>>)
      BY <1>4 DEF StartGating, EnterTls, GateClosed, Wake, Repoll, posVars, outVars, WantsRead
    <2> QED
      BY <2>1, IdleCarried, GoingOn DEF Carried
  <1>5. CASE Deliver \/ PlainRead
    <2>1. Carried' /\ \E d \in Seq(Nat) : delivered' = delivered \o d
      BY <1>5, DeliverCarried, PlainReadCarried DEF Carried
    <2>2. UNCHANGED <<wire, arrived>> /\ pc # "closed" /\ pc' # "closed"
      BY <1>5 DEF Deliver, PlainRead, posVars
    <2> QED
      BY <2>1, <2>2 DEF PipeStep
  <1>6. CASE DirectRead
    <2>1. CASE SocketEmpty
      <3>1. pc = "top" /\ direct /\ readOut = <<>> /\ sock' = sock
        BY <1>6, <2>1 DEF DirectRead, SocketEmpty, posVars
      <3> QED
        BY <2>1, <3>1, ClosingStep
    <2>2. CASE ~SocketEmpty
      <3>1. Carried' /\ \E d \in Seq(Nat) : delivered' = delivered \o d
        BY <1>6, <2>2, DirectReadCarried DEF Carried
      <3>2. UNCHANGED <<wire, arrived, pc>> /\ pc = "top"
        BY <1>6, <2>2 DEF DirectRead
      <3> QED
        BY <3>1, <3>2 DEF PipeStep
    <2> QED
      BY <2>1, <2>2
  <1>7. CASE PaddedRead
    <2>1. UNCHANGED <<wire, arrived, delivered>> /\ pc # "closed" /\ pc' # "closed"
      BY <1>7 DEF PaddedRead
    <2> QED
      BY <1>7, <2>1, PaddedReadCarried, GoingOn DEF Carried
  <1>8. CASE HandOver
    <2>1. WantsRead /\ gating /\ remaining > 0 /\ pc = "tls" /\ ~HasPlain /\ ~direct
      BY <1>8 DEF HandOver, WantsRead, DInv, IInv, Modes
    <2>2. CASE \E to : Feed(to) /\ UNCHANGED <<wire, arrived, sock, parsed, gating, gateOpen, outVars, pc>>
      BY <2>1, <2>2, FedStep DEF outVars
    <2>3. CASE low = sock /\ Fill
      <3>1. UNCHANGED <<wire, arrived, low, taken, delivered, readOut, done, direct, parsed, pc>>
        BY <2>3 DEF Fill, outVars
      <3>2. readOut = <<>>
        BY <2>1 DEF DInv, Emptied
      <3> QED
        BY <2>1, <3>1, <3>2, IdleCarried, GoingOn DEF Carried
    <2>4. CASE low = sock /\ SocketEmpty
      BY <2>1, <2>4, ClosingStep
    <2> QED
      BY <1>8, <2>2, <2>3, <2>4 DEF HandOver
  <1>9. CASE ReadHeader
    <2>1. WantsRead /\ gating /\ remaining = 0 /\ pc = "tls" /\ ~HasPlain /\ ~direct /\ readOut = <<>>
      BY <1>9 DEF ReadHeader, WantsRead, DInv, IInv, Modes, Emptied
    <2>2. CASE Fill \/ UNCHANGED <<wire, posVars, gating, outVars, pc>>
      <3>1. UNCHANGED <<wire, arrived, low, taken, delivered, readOut, done, direct, parsed, pc>>
        BY <2>2 DEF Fill, outVars, posVars
      <3> QED
        BY <2>1, <3>1, IdleCarried, GoingOn DEF Carried
    <2>3. CASE sock - low < HeaderLen /\ SocketEmpty
      BY <2>1, <2>3, ClosingStep
    <2> QED
      BY <1>9, <2>2, <2>3 DEF ReadHeader
  <1>10. CASE Transparent
    <2>1. WantsRead /\ ~gating /\ pc = "tls" /\ ~HasPlain /\ ~direct
      BY <1>10 DEF Transparent, WantsRead, DInv, IInv, Modes
    <2>2. CASE \E to : Feed(to) /\ UNCHANGED <<wire, arrived, parsed, gateVars, outVars, pc>>
      BY <2>1, <2>2, FedStep DEF outVars
    <2>3. CASE low = sock /\ SocketEmpty
      BY <2>1, <2>3, ClosingStep
    <2> QED
      BY <1>10, <2>2, <2>3 DEF Transparent
  <1> QED
    BY <1>1, <1>2, <1>3, <1>4, <1>5, <1>6, <1>7, <1>8, <1>9, <1>10 DEF Next, Step

LEMMA InitCarried == Init => Carried
  <1> SUFFICES ASSUME Init PROVE Carried
    OBVIOUS
  <1> USE DEF Init
  <1>1. StreamOK(wire)
    BY StreamsAssumption
  <1>2. Conserved
    <2>1. Cells(wire.payload, 0, 0) = <<>>
      <3>1. wire.payload \in SUBSET Nat
        BY <1>1 DEF StreamOK
      <3> QED
        BY <3>1, CellsNone
    <2>2. <<>> \o <<>> = <<>>
      BY ConcatEmptySeq
    <2> QED
      BY <2>1, <2>2 DEF Conserved, Mark
  <1>3. Ahead
    <2>1. wire.cmd # "NONE" => wire.term \in wire.plain /\ wire.early \in Nat
                               /\ wire.plain \subseteq (wire.early + 1)..wire.tlsEnd
      BY <1>1 DEF StreamOK
    <2> QED
      BY <2>1 DEF Ahead
  <1>4. FramesTaken
    <2>1. wire.early \in Nat /\ wire.frameEnd \subseteq (wire.early + 1)..wire.tlsEnd
      BY <1>1 DEF StreamOK
    <2> QED
      BY <2>1 DEF FramesTaken
  <1>5. Emptied /\ Ended
    BY DEF Emptied, Ended
  <1> QED
    BY <1>2, <1>3, <1>4, <1>5 DEF Carried

\* The inductive invariant of the data holds in every reachable state
\* (vision.rs:533-615, record_gate.rs:104-154).
THEOREM DownlinkInvariance == WholeStart => (Spec => []DInv)
  <1>1. Init => DInv
    BY InitIInv, InitCarried DEF DInv, Carried
  <1>2. ASSUME WholeStart PROVE Spec => []DInv
    <2>1. DInv /\ [Next]_vars => DInv'
      BY <1>2, StepKeeps, StepCarried DEF DInv, Carried
    <2> QED
      BY <1>1, <2>1, PTL DEF Spec
  <1> QED
    BY <1>2

\* What the caller has is a prefix of what has arrived.
Given == P!IsPrefix(delivered, Sent)

LEMMA PrefixOfConcat ==
    ASSUME NEW s \in Seq(Nat), NEW t \in Seq(Nat)
    PROVE  P!IsPrefix(s, s \o t)
  <1> DEFINE u == s \o t
             a == SubSeq(s, 1, Len(s))
             b == SubSeq(u, 1, Len(s))
  <1>1. /\ u \in Seq(Nat) /\ Len(u) = Len(s) + Len(t) /\ Len(s) \in Nat /\ Len(t) \in Nat
        /\ \A i \in 1..Len(s) + Len(t) : u[i] = IF i <= Len(s) THEN s[i] ELSE t[i - Len(s)]
    BY ConcatProperties
  <1> HIDE DEF u
  <1>2. /\ a \in Seq(Nat) /\ Len(a) = Len(s) /\ \A i \in 1..Len(s) : a[i] = s[i]
        /\ b \in Seq(Nat) /\ Len(b) = Len(s) /\ \A i \in 1..Len(s) : b[i] = u[i]
    BY <1>1
  <1>3. \A i \in 1..Len(s) : u[i] = s[i]
    BY <1>1
  <1> HIDE DEF a, b
  <1>4. Len(a) = Len(b) /\ \A i \in 1..Len(a) : a[i] = b[i]
    BY <1>2, <1>3
  <1>5. a = b
    BY <1>2, <1>4, SeqEqual, Zenon
  <1>6. Len(s) <= Len(u)
    BY <1>1
  <1> QED
    BY <1>5, <1>6 DEF P!IsPrefix, a, b, u

LEMMA GivenIsSent ==
    ASSUME DInv
    PROVE  Given
  <1> DEFINE rest == Cells(wire.payload, Mark, arrived)
  <1>1. /\ Mark \in Nat /\ arrived \in Nat /\ Mark <= arrived /\ wire.payload \in SUBSET Nat
        /\ delivered \in Seq(Nat) /\ readOut \in Seq(Nat)
    <2>1. Mark <= low /\ low <= sock /\ sock <= arrived /\ low \in Nat /\ sock \in Nat
      BY Facts
    <2> QED
      BY <2>1, Facts
  <1>2. rest \in Seq(Nat) /\ Sent = Cells(wire.payload, 0, Mark) \o rest
    BY <1>1, Between, FromStart DEF Sent
  <1> HIDE DEF rest
  <1>3. Sent = (delivered \o readOut) \o rest
    BY <1>2 DEF DInv, Conserved
  <1>4. Sent = delivered \o (readOut \o rest) /\ readOut \o rest \in Seq(Nat)
    BY <1>1, <1>2, <1>3, Assoc, ConcatProperties
  <1> QED
    BY <1>1, <1>4, PrefixOfConcat DEF Given

\* The downlink implements the abstract pipe, for every stream, record size, header
\* length and way the network cuts it: the caller gets the proxied data in order,
\* none lost, doubled or out of place at the switch to Direct, and end of file only
\* after all of it (vision.rs:533-615, record_gate.rs:104-154).
THEOREM DownlinkIsPipe == WholeStart => (Spec => PipeSpec)
  <1>1. Init => P!Init
    <2> SUFFICES ASSUME Init PROVE P!Init
      OBVIOUS
    <2>1. wire.payload \in SUBSET Nat
      BY StreamsAssumption DEF Init, StreamOK
    <2>2. Cells(wire.payload, 0, 0) = <<>>
      BY <2>1, CellsNone
    <2> QED
      BY <2>2 DEF Init, P!Init
  <1>2. DInv /\ DInv' /\ Given' /\ [Next]_vars => [P!Next]_(P!pipeVars)
    <2> SUFFICES ASSUME DInv, DInv', Given', [Next]_vars PROVE [P!Next]_(P!pipeVars)
      OBVIOUS
    <2>1. PipeStep /\ UNCHANGED wire
      BY StepCarried DEF PipeStep
    <2>2. /\ Sent = Cells(wire.payload, 0, arrived)
          /\ Sent' = Cells(wire'.payload, 0, arrived')
          /\ Sent \in Seq(Nat) /\ wire.payload \in SUBSET Nat /\ arrived \in Nat
      BY Facts, Between DEF Sent
    <2>3. CASE pc # "closed" /\ pc' # "closed" /\ arrived < arrived' /\ UNCHANGED delivered
      <3>1. arrived' \in Nat
        <4>1. arrived' \in 0..wire'.n /\ wire.n \in Nat
          BY Facts DEF DInv, IInv, TypeOK
        <4> QED
          BY <2>1, <4>1
      <3> DEFINE more == Cells(wire.payload, arrived, arrived')
      <3>2. Sent' = Sent \o more /\ more \in Seq(Nat)
        <4> PICK n \in Nat : n = arrived'
          BY <3>1
        <4>3. wire.payload \in SUBSET Nat /\ arrived \in Nat /\ arrived <= n
          BY <2>2, <2>3
        <4>1. Cells(wire.payload, 0, n) = Cells(wire.payload, 0, arrived) \o Cells(wire.payload, arrived, n)
          BY <4>3, FromStart
        <4>2. more \in Seq(Nat)
          BY <2>2, <3>1, Between
        <4> QED
          BY <2>1, <2>2, <4>1, <4>2
      <3> HIDE DEF more
      <3>3. P!IsPrefix(Sent, Sent')
        BY <2>2, <3>2, PrefixOfConcat
      <3>4. CASE Sent' = Sent
        BY <2>2, <2>3, <3>4 DEF P!pipeVars
      <3>5. CASE Sent' # Sent
        <4>1. P!Write
          BY <2>2, <2>3, <3>3, <3>5 DEF P!Write
        <4> QED
          BY <4>1 DEF P!Next
      <3> QED
        BY <3>4, <3>5
    <2>4. CASE /\ pc # "closed" /\ pc' # "closed" /\ UNCHANGED arrived
               /\ \E d \in Seq(Nat) : delivered' = delivered \o d
      <3>1. Sent' = Sent
        BY <2>1, <2>2, <2>4
      <3>2. P!IsPrefix(delivered, delivered')
        BY <2>4, PrefixOfConcat, Facts
      <3>3. P!IsPrefix(delivered', Sent)
        BY <3>1 DEF Given
      <3>4. CASE delivered' = delivered
        BY <2>2, <2>4, <3>1, <3>4 DEF P!pipeVars
      <3>5. CASE delivered' # delivered
        <4>1. P!Read
          BY <2>2, <2>4, <3>1, <3>2, <3>3, <3>5 DEF P!Read
        <4> QED
          BY <4>1 DEF P!Next
      <3> QED
        BY <3>4, <3>5
    <2>5. CASE delivered = Sent /\ pc' = "closed" /\ UNCHANGED <<arrived, delivered>>
      <3>1. P!Close
        BY <2>1, <2>2, <2>5 DEF P!Close
      <3> QED
        BY <3>1 DEF P!Next
    <2>6. CASE UNCHANGED <<arrived, delivered, pc>>
      BY <2>1, <2>2, <2>6 DEF P!pipeVars
    <2> QED
      BY <2>1, <2>3, <2>4, <2>5, <2>6 DEF PipeStep
  <1>3. DInv => Given
    BY GivenIsSent
  <1>4. ASSUME WholeStart PROVE Spec => PipeSpec
    <2>1. DInv /\ DInv' /\ Given' /\ [Next]_vars => [P!Next]_(P!pipeVars)
      BY <1>2
    <2>2. Spec => []DInv
      BY <1>4, DownlinkInvariance
    <2> QED
      BY <1>1, <1>3, <2>1, <2>2, PTL DEF Spec, PipeSpec, P!Spec
  <1> QED
    BY <1>4
=============================================================================
