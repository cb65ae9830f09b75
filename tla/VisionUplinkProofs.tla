------------------------- MODULE VisionUplinkProofs -------------------------
(***************************************************************************)
(* Whatever both directions sniff, in any order: Vision prepares to go raw *)
(* only for an inner TLS 1.3, and then padding is over for good (PInv).    *)
(* And whatever the socket takes of each write, the server is never lost:  *)
(* what is queued for it always takes it, cell by cell, from where it is   *)
(* to where the writer believes it to be (Synced, in Flow).                *)
(***************************************************************************)
EXTENDS VisionUplink, SequenceTheorems, WellFoundedInduction, TLAPS

Traffics == [budget : Nat, isTls : BOOLEAN, tls12 : BOOLEAN, xtls : BOOLEAN,
             cipher : Ciphers, rsh : Int]

Padders == [padding : BOOLEAN, direct : BOOLEAN, fresh : BOOLEAN]

(***************************************************************************)
(* A sniffing verdict is final because it uses the budget up, and bytes of *)
(* a ServerHello are only awaited after one has been seen.                 *)
(***************************************************************************)
Verdict(ts) ==
    /\ ts.xtls => ts.tls12 /\ ts.budget = 0
    /\ ts.rsh > 0 => ts.tls12

\* The packet pump is writing, or what is left of it.
Held == wpc = "write" => cur = <<cur[1]>> /\ cur[1] \in Packets

PInv ==
    /\ traffic \in Traffics
    /\ padder \in Padders
    /\ Verdict(traffic)
    /\ Held
    /\ DirectMeansTls13

---------------------------------------------------------------------------
\* Sniffing a packet keeps the verdict, and never takes back a favourable one
\* (vision.rs:202-238).
LEMMA FilterKeeps ==
    ASSUME NEW ts \in Traffics, Verdict(ts),
           NEW p \in Packets
    PROVE  /\ Filter(ts, p) \in Traffics
           /\ Verdict(Filter(ts, p))
           /\ ts.xtls => Filter(ts, p) = ts
  <1> DEFINE less == [ts EXCEPT !.budget = @ - 1]
             seen == SeeHello(less, p)
  <1>0. p.len \in Nat /\ p.shLen \in Int /\ p.cipher \in Ciphers
    BY DEF Packets
  <1>1. CASE ts.budget <= 0
    BY <1>1 DEF Filter, Exhausted, Traffics
  <1>2. CASE ts.budget > 0
    <2>1. ~ts.xtls
      BY <1>2 DEF Verdict, Traffics
    <2>2. /\ less \in Traffics /\ less.xtls = ts.xtls
          /\ less.rsh = ts.rsh /\ less.tls12 = ts.tls12
      BY <1>2 DEF Traffics
    <2>3. ~less.xtls /\ (less.rsh > 0 => less.tls12)
      BY <2>1, <2>2 DEF Verdict
    <2>6. /\ seen \in Traffics /\ ~seen.xtls
          /\ seen.rsh > 0 => seen.tls12
      <3> HIDE DEF less
      <3>1. CASE p.hello = "server"
        <4> DEFINE suite == IF p.cipher = "none" THEN less.cipher ELSE p.cipher
        <4>4. suite \in Ciphers
          BY <1>0, <2>2 DEF Traffics
        <4>1. seen = [less EXCEPT !.rsh = p.shLen, !.tls12 = TRUE, !.isTls = TRUE,
                                  !.cipher = suite]
          BY <3>1 DEF SeeHello
        <4> HIDE DEF suite
        <4>2. seen \in Traffics
          BY <1>0, <2>2, <4>1, <4>4 DEF Traffics
        <4>3. seen.tls12 = TRUE /\ seen.xtls = less.xtls
          BY <2>2, <4>1 DEF Traffics
        <4> QED
          BY <2>3, <4>2, <4>3
      <3>2. CASE p.hello = "client"
        <4>1. seen = [less EXCEPT !.isTls = TRUE]
          BY <3>2 DEF SeeHello
        <4>2. /\ seen \in Traffics /\ seen.xtls = less.xtls
              /\ seen.rsh = less.rsh /\ seen.tls12 = less.tls12
          BY <2>2, <4>1 DEF Traffics
        <4> QED
          BY <2>3, <4>2
      <3>3. CASE p.hello \notin {"server", "client"}
        BY <2>2, <2>3, <3>3 DEF SeeHello
      <3> QED
        BY <3>1, <3>2, <3>3
    <2> HIDE DEF seen
    <2>4. CASE seen.rsh > 0
      <3> DEFINE scan == ScanServerHello(seen, p)
      <3> DEFINE found == p.ext > 0 /\ p.ext <= seen.rsh
                 left  == seen.rsh - p.len
                 xtls  == IF found THEN seen.cipher = "xtls" ELSE seen.xtls
                 more  == IF found \/ left <= 0 THEN 0 ELSE seen.budget
      <3>6. left \in Int /\ xtls \in BOOLEAN /\ more \in Nat /\ (xtls => more = 0)
        <4>1. left \in Int /\ more \in Nat
          BY <1>0, <2>6 DEF Traffics
        <4>2. seen.xtls = FALSE
          BY <2>6 DEF Traffics
        <4>3. xtls \in BOOLEAN
          BY <4>2, Zenon
        <4>4. xtls => more = 0
          BY <4>2
        <4> QED
          BY <4>1, <4>3, <4>4
      <3>7. scan = [seen EXCEPT !.rsh = left, !.xtls = xtls, !.budget = more]
        BY DEF ScanServerHello, SaysTls13
      <3> HIDE DEF found, left, xtls, more
      <3>1. scan \in Traffics
        BY <2>6, <3>6, <3>7 DEF Traffics
      <3>2. scan.tls12 = seen.tls12
        BY <2>6, <3>7 DEF Traffics
      <3>3. scan.xtls => scan.budget = 0
        BY <2>6, <3>6, <3>7 DEF Traffics
      <3>4. Verdict(scan)
        BY <2>6, <2>4, <3>2, <3>3 DEF Verdict
      <3>5. Filter(ts, p) = scan
        BY <1>2, <2>4 DEF Filter, Exhausted, seen, Traffics
      <3> QED
        BY <2>1, <3>1, <3>4, <3>5
    <2>5. CASE ~(seen.rsh > 0)
      <3>1. Filter(ts, p) = seen
        BY <1>2, <2>5 DEF Filter, Exhausted, seen, Traffics
      <3> QED
        BY <2>1, <2>6, <2>5, <3>1 DEF Verdict
    <2> QED
      BY <2>4, <2>5
  <1> QED
    BY <1>1, <1>2 DEF Traffics

\* Sniffing alone, whatever direction it is for, disturbs nothing.
LEMMA SniffKeeps ==
    ASSUME PInv, NEW p \in Packets, traffic' = Filter(traffic, p)
    PROVE  /\ traffic' \in Traffics
           /\ Verdict(traffic')
           /\ padder.direct => traffic'.xtls /\ traffic'.tls12 /\ ~padder.padding
  <1>1. /\ traffic' \in Traffics /\ Verdict(traffic')
        /\ traffic.xtls => traffic' = traffic
    BY FilterKeeps DEF PInv
  <1> QED
    BY <1>1 DEF PInv, DirectMeansTls13

\* A write that is framed: the inner handshake ends padding whenever it decides
\* about the switch (vision.rs:297-309).
LEMMA PaddingKeeps ==
    ASSUME PInv, NEW p \in Packets, NEW ts, ts = Filter(traffic, p),
           traffic' = ts, padder' = Padded(ts, padder, p)
    PROVE  /\ traffic' \in Traffics
           /\ padder' \in Padders
           /\ Verdict(traffic')
           /\ DirectMeansTls13'
  <1>1. /\ traffic' \in Traffics /\ Verdict(traffic')
        /\ padder.direct => traffic'.xtls /\ traffic'.tls12 /\ ~padder.padding
    BY SniffKeeps
  <1> DEFINE done == \E i \in DOMAIN p.pieces :
                        /\ InnerDone(ts, p, i)
                        /\ StopAt(ts, p) > 0 => i < StopAt(ts, p)
             over == padder.padding /\ ~PaddingEnds(ts, p)
             raws == IF done THEN GoesDirect(ts) ELSE padder.direct
  <1>2. padder' = [padding |-> over, direct |-> raws, fresh |-> FALSE]
    BY DEF Padded
  <1>3. done => ~over
    BY DEF PaddingEnds
  <1>4. over \in BOOLEAN
    BY Zenon DEF PInv, Padders
  <1>5. ts.xtls \in BOOLEAN /\ padder.direct \in BOOLEAN
    BY <1>1 DEF PInv, Padders, Traffics
  <1>6. raws \in BOOLEAN
    BY <1>5, Zenon DEF GoesDirect
  <1>7. raws => traffic'.xtls /\ traffic'.tls12 /\ ~over
    BY <1>1, <1>3 DEF GoesDirect, Verdict
  <1> HIDE DEF done, over, raws
  <1>8. padder' \in Padders
    BY <1>2, <1>4, <1>6 DEF Padders
  <1>9. DirectMeansTls13'
    BY <1>2, <1>7 DEF DirectMeansTls13
  <1> QED
    BY <1>1, <1>8, <1>9

\* What is left of a packet is one.
LEMMA RestIsPacket ==
    ASSUME NEW p \in Packets, NEW k \in 0..Len(p.pieces)
    PROVE  Rest(p, k) \in Packets
  <1>1. p.pieces \in Seq(BOOLEAN)
    BY DEF Packets
  <1>2. SubSeq(p.pieces, k + 1, Len(p.pieces)) \in Seq(BOOLEAN)
    BY <1>1
  <1> QED
    BY <1>2 DEF Rest, Packets, Ciphers

LEMMA InitPInv == Init => PInv
  BY FilterPacketsAssumption
  DEF Init, PInv, Traffics, Padders, NewTraffic, NewPadder, Ciphers, Verdict, Held,
      DirectMeansTls13

\* The steps that neither sniff nor frame.
Quiet == UNCHANGED <<traffic, padder>>

LEMMA QuietKeeps ==
    ASSUME PInv, Quiet, Held'
    PROVE  PInv'
  BY DEF PInv, Quiet, Verdict, DirectMeansTls13

LEMMA StepKeeps ==
    ASSUME PInv, [Next]_vars
    PROVE  PInv'
  <1>1. CASE WriteFirst
    <2>1. Held'
      BY <1>1 DEF WriteFirst, Held
    <2>2. CASE UNCHANGED traffic /\ padder' = [padder EXCEPT !.fresh = FALSE]
      BY <2>1, <2>2 DEF PInv, Padders, Verdict, DirectMeansTls13
    <2>3. ASSUME NEW p \in UpPackets, traffic' = Filter(traffic, p),
                 padder' = Padded(Filter(traffic, p), padder, p)
          PROVE  PInv'
      <3>1. p \in Packets
        BY PacketsAssumption DEF PacketOK
      <3> QED
        BY <2>1, <2>3, <3>1, PaddingKeeps DEF PInv
    <2> QED
      BY <1>1, <2>2, <2>3 DEF WriteFirst
  <1>2. CASE FirstOut
    <2>1. Quiet /\ Held'
      BY <1>2 DEF FirstOut, Quiet, Held
    <2> QED
      BY <2>1, QuietKeeps
  <1>3. CASE WriteSettle
    <2>1. Quiet /\ Held'
      BY <1>3 DEF WriteSettle, Quiet, Held, PInv
    <2> QED
      BY <2>1, QuietKeeps
  <1>4. CASE WritePadded
    <2> DEFINE p == cur[1]
    <2>1. p \in Packets /\ Head(cur) = p
      BY <1>4 DEF WritePadded, PInv, Held
    <2>2. /\ traffic' = Filter(traffic, p)
          /\ padder' = Padded(Filter(traffic, p), padder, p)
          /\ wpc' \in AfterWrite
      BY <1>4, <2>1 DEF WritePadded
    <2> HIDE DEF p
    <2>3. Held'
      BY <2>2 DEF Held, AfterWrite
    <2> QED
      BY <2>1, <2>2, <2>3, PaddingKeeps DEF PInv
  <1>5. CASE WritePlain
    <2> DEFINE p == cur[1]
    <2>1. p \in Packets /\ Head(cur) = p
      BY <1>5 DEF WritePlain, PInv, Held
    <2>2. traffic' = Filter(traffic, p) /\ UNCHANGED padder
      BY <1>5, <2>1 DEF WritePlain
    <2>3. PICK k \in 0..Len(p.pieces) :
            \/ wpc' \in AfterWrite
            \/ UNCHANGED wpc /\ cur' = <<IF k = 0 THEN p ELSE Rest(p, k)>>
      BY <1>5, <2>1 DEF WritePlain
    <2> HIDE DEF p
    <2>4. (IF k = 0 THEN p ELSE Rest(p, k)) \in Packets
      BY <2>1, RestIsPacket
    <2>5. Held'
      BY <2>3, <2>4 DEF Held, AfterWrite
    <2> QED
      BY <2>1, <2>2, <2>5, SniffKeeps DEF PInv, DirectMeansTls13
  <1>6. CASE Flush
    <2>1. Quiet /\ Held'
      BY <1>6 DEF Flush, Quiet, Held
    <2> QED
      BY <2>1, QuietKeeps
  <1>7. CASE ShutdownSettle \/ ShutdownRaw \/ ShutdownTls \/ CloseTls
    <2>1. Quiet /\ Held'
      BY <1>7 DEF ShutdownSettle, ShutdownRaw, ShutdownTls, CloseTls, Quiet, Held
    <2> QED
      BY <2>1, QuietKeeps
  <1>8. CASE PumpRead
    <2>1. PICK p \in UpPackets : cur' = <<p>>
      BY <1>8 DEF PumpRead
    <2>2. p \in Packets
      BY PacketsAssumption DEF PacketOK
    <2>3. Quiet /\ Held'
      BY <1>8, <2>1, <2>2 DEF PumpRead, Quiet, Held
    <2> QED
      BY <2>3, QuietKeeps
  <1>9. CASE PumpEof
    <2>1. Quiet /\ Held'
      BY <1>9 DEF PumpEof, Quiet, Held
    <2> QED
      BY <2>1, QuietKeeps
  <1>10. CASE SniffDownlink
    <2>1. PICK p \in DownPackets : traffic' = Filter(traffic, p)
      BY <1>10 DEF SniffDownlink
    <2>2. p \in Packets
      BY PacketsAssumption DEF PacketOK
    <2>3. UNCHANGED <<padder, cur, wpc>>
      BY <1>10 DEF SniffDownlink
    <2> QED
      BY <2>1, <2>2, <2>3, SniffKeeps DEF PInv, Held, DirectMeansTls13
  <1>11. CASE ServerRead
    <2>1. Quiet /\ Held'
      BY <1>11 DEF ServerRead, Quiet, Held, PInv
    <2> QED
      BY <2>1, QuietKeeps
  <1>12. CASE UNCHANGED vars
    <2>1. Quiet /\ Held'
      BY <1>12 DEF vars, Quiet, Held, PInv
    <2> QED
      BY <2>1, QuietKeeps
  <1> QED
    BY <1>1, <1>2, <1>3, <1>4, <1>5, <1>6, <1>7, <1>8, <1>9, <1>10, <1>11, <1>12
    DEF Next, Poll

\* The inductive invariant holds in every reachable state (vision.rs:185-318,
\* 406-530).
THEOREM Invariance == Spec => []PInv
  <1>1. PInv /\ [Next]_vars => PInv'
    BY StepKeeps
  <1> QED
    BY <1>1, InitPInv, PTL DEF Spec

\* For any packets either direction may carry, any FILTER_PACKETS and any size of
\* the buffers, a switch to raw is only prepared for an inner TLS 1.3, and
\* framing is over by then (vision.rs:297-314).
THEOREM DirectOnlyForTls13 == Spec => []DirectMeansTls13
  <1>1. PInv => DirectMeansTls13
    BY DEF PInv
  <1> QED
    BY <1>1, Invariance, PTL

---------------------------------------------------------------------------
\* The first n pieces of data, in order.
Pieces(n) == [i \in 1..n |-> i]

LEMMA PiecesType ==
    ASSUME NEW n \in Nat
    PROVE  Pieces(n) \in Seq(Nat) /\ Len(Pieces(n)) = n
  BY DEF Pieces

\* One more.
LEMMA PiecesAppend ==
    ASSUME NEW n \in Nat
    PROVE  Append(Pieces(n), n + 1) = Pieces(n + 1)
  <1> DEFINE a == Append(Pieces(n), n + 1)
             b == Pieces(n + 1)
  <1>1. /\ Pieces(n) \in Seq(Nat) /\ Len(Pieces(n)) = n
        /\ b \in Seq(Nat) /\ Len(b) = n + 1
    BY PiecesType
  <1>2. /\ a \in Seq(Nat) /\ Len(a) = n + 1
        /\ \A i \in 1..n : a[i] = Pieces(n)[i]
        /\ a[n + 1] = n + 1
    BY <1>1, AppendProperties
  <1>3. \A i \in 1..Len(a) : a[i] = b[i]
    BY <1>2 DEF Pieces
  <1> HIDE DEF a, b
  <1>4. a \in Seq(Nat) /\ b \in Seq(Nat) /\ Len(a) = Len(b)
    BY <1>1, <1>2
  <1>5. a = b
    BY <1>3, <1>4, SeqEqual, Zenon
  <1> QED
    BY <1>5 DEF a, b

---------------------------------------------------------------------------
\* What the buffers hold, and what is on the wire.
CellSet == [kind : Cells, cmd : {"NONE", "CONTINUE", "END", "DIRECT"},
            uuid : BOOLEAN, data : Nat]
Wires == [mode : {"tls", "raw"}, cell : CellSet]

\* A server that has taken n pieces.
Server(stage, direct, first, n) ==
    [stage |-> stage, direct |-> direct, first |-> first, got |-> Pieces(n)]

Stages == Cells \cup {"closed", "eof"}

\* The server is not lost, and has taken at most n pieces, in order.
Servers(n) == [stage : Stages, direct : BOOLEAN, first : BOOLEAN,
               got : {Pieces(k) : k \in 0..n}]

\* The server s can make sense of w, and is t then.
Reads(s, w, t) == ServerAccepts(s, w) /\ t = ServerNext(s, w)

\* The server s can make sense of all of q, cell by cell, and is t then; n bounds
\* what it takes. S lists the states it goes through.
Run(n, q, s, t) ==
    \E S \in [0..Len(q) -> Servers(n)] :
        /\ S[0] = s /\ S[Len(q)] = t
        /\ \A i \in 1..Len(q) : Reads(S[i - 1], q[i], S[i])

LEMMA ServerType ==
    ASSUME NEW n \in Nat, NEW k \in 0..n, NEW stage \in Stages,
           NEW direct \in BOOLEAN, NEW first \in BOOLEAN
    PROVE  Server(stage, direct, first, k) \in Servers(n)
  BY DEF Server, Servers

LEMMA ServersGrow ==
    ASSUME NEW n \in Nat, NEW m \in Nat, n <= m
    PROVE  Servers(n) \subseteq Servers(m)
  <1>1. \A k \in 0..n : k \in 0..m
    OBVIOUS
  <1>2. {Pieces(k) : k \in 0..n} \subseteq {Pieces(k) : k \in 0..m}
    BY <1>1, Zenon
  <1> QED
    BY <1>2 DEF Servers

\* A run is one under a larger bound, of nothing, of one cell, of two parts.
LEMMA RunGrows ==
    ASSUME NEW n \in Nat, NEW m \in Nat, n <= m, NEW q \in Seq(Wires), NEW s, NEW t,
           Run(n, q, s, t)
    PROVE  Run(m, q, s, t)
  <1>1. PICK S \in [0..Len(q) -> Servers(n)] :
            /\ S[0] = s /\ S[Len(q)] = t
            /\ \A i \in 1..Len(q) : Reads(S[i - 1], q[i], S[i])
    BY DEF Run
  <1>2. S \in [0..Len(q) -> Servers(m)]
    BY <1>1, ServersGrow
  <1> QED
    BY <1>1, <1>2 DEF Run

LEMMA RunEmpty ==
    ASSUME NEW n \in Nat, NEW s \in Servers(n)
    PROVE  Run(n, <<>>, s, s)
  <1> DEFINE S == [i \in 0..0 |-> s]
  <1>1. S \in [0..0 -> Servers(n)] /\ S[0] = s
    OBVIOUS
  <1>2. Len(<<>>) = 0 /\ 1..0 = {}
    OBVIOUS
  <1> HIDE DEF S
  <1>3. S \in [0..Len(<<>>) -> Servers(n)] /\ S[Len(<<>>)] = s /\ 1..Len(<<>>) = {}
    BY <1>1, <1>2
  <1> QED
    BY <1>1, <1>3, Zenon DEF Run

LEMMA RunOne ==
    ASSUME NEW n \in Nat, NEW s \in Servers(n), NEW t \in Servers(n), NEW w,
           Reads(s, w, t)
    PROVE  Run(n, <<w>>, s, t)
  <1> DEFINE S == [i \in 0..1 |-> IF i = 0 THEN s ELSE t]
  <1>1. Len(<<w>>) = 1 /\ <<w>>[1] = w
    OBVIOUS
  <1>2. S \in [0..1 -> Servers(n)] /\ S[0] = s /\ S[1] = t
    OBVIOUS
  <1>3. \A i \in 1..1 : Reads(S[i - 1], <<w>>[i], S[i])
    BY <1>1, <1>2
  <1> QED
    BY <1>1, <1>2, <1>3 DEF Run

LEMMA RunConcat ==
    ASSUME NEW n \in Nat, NEW q \in Seq(Wires), NEW r \in Seq(Wires),
           NEW s, NEW t, NEW u, Run(n, q, s, t), Run(n, r, t, u)
    PROVE  Run(n, q \o r, s, u)
  <1>1. PICK S \in [0..Len(q) -> Servers(n)] :
            /\ S[0] = s /\ S[Len(q)] = t
            /\ \A i \in 1..Len(q) : Reads(S[i - 1], q[i], S[i])
    BY DEF Run
  <1>2. PICK T \in [0..Len(r) -> Servers(n)] :
            /\ T[0] = t /\ T[Len(r)] = u
            /\ \A i \in 1..Len(r) : Reads(T[i - 1], r[i], T[i])
    BY DEF Run
  <1> DEFINE a == Len(q)
             b == Len(r)
             U == [i \in 0..a + b |-> IF i <= a THEN S[i] ELSE T[i - a]]
  <1>3. a \in Nat /\ b \in Nat /\ Len(q \o r) = a + b
    OBVIOUS
  <1>4. \A i \in 1..a + b : (q \o r)[i] = IF i <= a THEN q[i] ELSE r[i - a]
    BY ConcatProperties
  <1> HIDE DEF a, b
  <1>5. U \in [0..a + b -> Servers(n)]
    BY <1>1, <1>2, <1>3 DEF a, b
  <1>6. U[0] = s
    BY <1>1, <1>3
  <1>7. U[a + b] = u
    <2>1. CASE b = 0
      BY <1>1, <1>2, <1>3, <2>1 DEF a, b
    <2>2. CASE b > 0
      <3>1. U[a + b] = T[b]
        BY <1>3, <2>2
      <3> QED
        BY <1>2, <3>1 DEF b
    <2> QED
      BY <1>3, <2>1, <2>2
  <1>8. ASSUME NEW i \in 1..a + b PROVE Reads(U[i - 1], (q \o r)[i], U[i])
    <2>1. CASE i <= a
      <3>1. /\ U[i - 1] = S[i - 1] /\ U[i] = S[i] /\ (q \o r)[i] = q[i]
            /\ i \in 1..Len(q)
        BY <1>3, <1>4, <2>1 DEF a
      <3> QED
        BY <1>1, <3>1
    <2>2. CASE i = a + 1
      <3>1. /\ U[i - 1] = t /\ U[i] = T[1] /\ (q \o r)[i] = r[1]
            /\ 1 \in 1..Len(r)
        BY <1>1, <1>3, <1>4, <2>2 DEF a, b
      <3>2. Reads(T[1 - 1], r[1], T[1])
        BY <1>2, <3>1
      <3> QED
        BY <1>2, <3>1, <3>2
    <2>3. CASE i > a + 1
      <3>1. /\ U[i - 1] = T[(i - a) - 1] /\ U[i] = T[i - a] /\ (q \o r)[i] = r[i - a]
            /\ i - a \in 1..Len(r)
        BY <1>3, <1>4, <2>3 DEF b
      <3> QED
        BY <1>2, <3>1
    <2> QED
      BY <1>3, <2>1, <2>2, <2>3
  <1> HIDE DEF U
  <1> QED
    BY <1>3, <1>5, <1>6, <1>7, <1>8 DEF Run

\* The server reads the front of the queue.
LEMMA RunHead ==
    ASSUME NEW n \in Nat, NEW q \in Seq(Wires), q # <<>>, NEW s, NEW t, Run(n, q, s, t)
    PROVE  /\ ServerAccepts(s, Head(q))
           /\ ServerNext(s, Head(q)) \in Servers(n)
           /\ Run(n, Tail(q), ServerNext(s, Head(q)), t)
  <1>1. PICK S \in [0..Len(q) -> Servers(n)] :
            /\ S[0] = s /\ S[Len(q)] = t
            /\ \A i \in 1..Len(q) : Reads(S[i - 1], q[i], S[i])
    BY DEF Run
  <1> DEFINE a == Len(q) - 1
             T == [i \in 0..a |-> S[i + 1]]
  <1>2. /\ a \in Nat /\ Len(Tail(q)) = a /\ Len(q) = a + 1 /\ Head(q) = q[1]
        /\ \A i \in 1..a : Tail(q)[i] = q[i + 1]
    BY HeadTailProperties
  <1> HIDE DEF a
  <1>3. Reads(S[1 - 1], q[1], S[1])
    BY <1>1, <1>2
  <1>4. ServerAccepts(s, Head(q)) /\ S[1] = ServerNext(s, Head(q)) /\ S[1] \in Servers(n)
    BY <1>1, <1>2, <1>3 DEF Reads
  <1>5. T \in [0..a -> Servers(n)] /\ T[0] = S[1] /\ T[a] = t
    BY <1>1, <1>2
  <1>6. ASSUME NEW i \in 1..a PROVE Reads(T[i - 1], Tail(q)[i], T[i])
    <2>1. T[i - 1] = S[(i + 1) - 1] /\ T[i] = S[i + 1] /\ i + 1 \in 1..Len(q)
      BY <1>2
    <2> QED
      BY <1>1, <1>2, <2>1
  <1> HIDE DEF T
  <1>7. Run(n, Tail(q), S[1], t)
    BY <1>2, <1>5, <1>6 DEF Run
  <1> QED
    BY <1>4, <1>7
---------------------------------------------------------------------------
\* What each kind of cell does to the server that may read it.
LEMMA ReadsHeader ==
    ASSUME NEW f \in BOOLEAN, NEW k \in Nat
    PROVE  Reads(Server("header", FALSE, f, k), OnWire("tls", Header), Server("head", FALSE, f, k))
  BY DEF Reads, Server, ServerAccepts, ServerNext, OnWire, Header, Cell

LEMMA ReadsHead ==
    ASSUME NEW f \in BOOLEAN, NEW k \in Nat, NEW cmd
    PROVE  Reads(Server("head", FALSE, f, k), OnWire("tls", Cell("head", cmd, f, 0)),
                 Server("tail", FALSE, FALSE, k))
  BY DEF Reads, Server, ServerAccepts, ServerNext, OnWire, Cell

LEMMA TakeNext ==
    ASSUME NEW k \in Nat, NEW s, s.got = Pieces(k)
    PROVE  Take(s, k + 1) = Pieces(k + 1) /\ Take(s, 0) = Pieces(k)
  <1>1. k + 1 # 0
    OBVIOUS
  <1>2. Append(s.got, k + 1) = Pieces(k + 1)
    BY PiecesAppend
  <1> QED
    BY <1>1, <1>2 DEF Take

LEMMA ReadsTail ==
    ASSUME NEW f \in BOOLEAN, NEW k \in Nat, NEW data \in {0, k + 1},
           NEW cmd \in {"CONTINUE", "END", "DIRECT"}
    PROVE  Reads(Server("tail", FALSE, f, k), OnWire("tls", Cell("tail", cmd, FALSE, data)),
                 Server(IF cmd = "CONTINUE" THEN "head" ELSE "plain", cmd = "DIRECT", f,
                        IF data = 0 THEN k ELSE k + 1))
  <1> DEFINE s == Server("tail", FALSE, f, k)
  <1>1. Take(s, data) = Pieces(IF data = 0 THEN k ELSE k + 1)
    BY TakeNext DEF Server
  <1> QED
    BY <1>1 DEF Reads, Server, ServerAccepts, ServerNext, OnWire, Cell

LEMMA ReadsPlain ==
    ASSUME NEW d \in BOOLEAN, NEW f \in BOOLEAN, NEW k \in Nat
    PROVE  Reads(Server("plain", d, f, k), OnWire(IF d THEN "raw" ELSE "tls", Plain(k + 1)),
                 Server("plain", d, f, k + 1))
  <1> DEFINE s == Server("plain", d, f, k)
  <1>1. Take(s, k + 1) = Pieces(k + 1)
    BY TakeNext DEF Server
  <1> QED
    BY <1>1 DEF Reads, Server, ServerAccepts, ServerNext, OnWire, Cell, Plain

LEMMA ReadsAlert ==
    ASSUME NEW f \in BOOLEAN, NEW k \in Nat, NEW stage \in {"head", "plain"}
    PROVE  Reads(Server(stage, FALSE, f, k), OnWire("tls", Alert), Server("closed", FALSE, f, k))
  BY DEF Reads, Server, ServerAccepts, ServerNext, OnWire, Cell, Alert

LEMMA ReadsFin ==
    ASSUME NEW d \in BOOLEAN, NEW f \in BOOLEAN, NEW k \in Nat, NEW mode,
           NEW stage, stage = "closed" \/ (stage = "plain" /\ d)
    PROVE  Reads(Server(stage, d, f, k), OnWire(mode, Fin), Server("eof", d, f, k))
  BY DEF Reads, Server, ServerAccepts, ServerNext, OnWire, Cell, Fin

---------------------------------------------------------------------------
\* The cells q as TLS sends them.
Tls(q) == [i \in 1..Len(q) |-> OnWire("tls", q[i])]

LEMMA TlsType ==
    ASSUME NEW q \in Seq(CellSet)
    PROVE  /\ Tls(q) \in Seq(Wires) /\ Len(Tls(q)) = Len(q)
           /\ \A i \in 1..Len(q) : Tls(q)[i] = OnWire("tls", q[i])
  <1>1. Len(q) \in Nat
    OBVIOUS
  <1>2. \A i \in 1..Len(q) : OnWire("tls", q[i]) \in Wires
    BY DEF OnWire, Wires
  <1> QED
    BY <1>1, <1>2 DEF Tls

LEMMA TlsConcat ==
    ASSUME NEW q \in Seq(CellSet), NEW r \in Seq(CellSet)
    PROVE  Tls(q \o r) = Tls(q) \o Tls(r)
  <1> DEFINE a == Tls(q \o r)
             b == Tls(q) \o Tls(r)
  <1>1. /\ q \o r \in Seq(CellSet) /\ Len(q \o r) = Len(q) + Len(r)
        /\ \A i \in 1..Len(q) + Len(r) : (q \o r)[i] = IF i <= Len(q) THEN q[i] ELSE r[i - Len(q)]
    BY ConcatProperties
  <1>2. /\ Tls(q) \in Seq(Wires) /\ Len(Tls(q)) = Len(q)
        /\ Tls(r) \in Seq(Wires) /\ Len(Tls(r)) = Len(r)
        /\ \A i \in 1..Len(q) : Tls(q)[i] = OnWire("tls", q[i])
        /\ \A i \in 1..Len(r) : Tls(r)[i] = OnWire("tls", r[i])
    BY TlsType
  <1>3. /\ a \in Seq(Wires) /\ Len(a) = Len(q) + Len(r)
        /\ \A i \in 1..Len(q) + Len(r) : a[i] = OnWire("tls", (q \o r)[i])
    BY <1>1, TlsType
  <1>4. /\ b \in Seq(Wires) /\ Len(b) = Len(q) + Len(r)
        /\ \A i \in 1..Len(q) + Len(r) : b[i] = IF i <= Len(q) THEN Tls(q)[i] ELSE Tls(r)[i - Len(q)]
    <2> HIDE DEF b
    <2>1. /\ b \in Seq(Wires) /\ Len(b) = Len(Tls(q)) + Len(Tls(r))
          /\ \A i \in 1..Len(Tls(q)) + Len(Tls(r)) :
                b[i] = IF i <= Len(Tls(q)) THEN Tls(q)[i] ELSE Tls(r)[i - Len(Tls(q))]
      <3>1. Tls(q) \in Seq(Wires) /\ Tls(r) \in Seq(Wires)
        BY <1>2
      <3> QED
        BY <3>1, ConcatProperties DEF b
    <2> QED
      BY <1>2, <2>1
  <1>5. Len(q) \in Nat /\ Len(r) \in Nat
    OBVIOUS
  <1> HIDE DEF a, b
  <1>6. ASSUME NEW i \in 1..Len(a) PROVE a[i] = b[i]
    <2>1. i \in 1..Len(q) + Len(r)
      BY <1>3
    <2>2. CASE i <= Len(q)
      BY <1>1, <1>2, <1>3, <1>4, <1>5, <2>1, <2>2
    <2>3. CASE i > Len(q)
      <3>1. i - Len(q) \in 1..Len(r) /\ ~(i <= Len(q))
        BY <1>5, <2>1, <2>3
      <3>2. a[i] = OnWire("tls", r[i - Len(q)])
        BY <1>1, <1>3, <2>1, <3>1
      <3>3. b[i] = Tls(r)[i - Len(q)]
        BY <1>4, <2>1, <3>1
      <3> QED
        BY <1>2, <3>1, <3>2, <3>3
    <2> QED
      BY <1>5, <2>1, <2>2, <2>3
  <1>7. Len(a) = Len(b)
    BY <1>3, <1>4
  <1>8. a = b
    BY <1>3, <1>4, <1>6, <1>7, SeqEqual, Zenon
  <1> QED
    BY <1>8 DEF a, b

---------------------------------------------------------------------------
\* The natural numbers are well-founded, so a set of them has a least member.
LessThan == {s \in Nat \X Nat : s[1] < s[2]}

LEMMA LessThanWellFounded == IsWellFoundedOn(LessThan, Nat)
  BY NatLessThanWellFounded DEF OpToRel, LessThan

LEMMA LeastNatural ==
    ASSUME NEW T, T \subseteq Nat, T # {}
    PROVE  \E n \in T : \A m \in T : n <= m
  <1>1. PICK n \in T : \A m \in T : ~ (<<m, n>> \in LessThan)
    BY LessThanWellFounded, WFMin
  <1>2. ASSUME NEW m \in T PROVE n <= m
    <2>1. ~ (<<m, n>> \in LessThan)
      BY <1>1
    <2>2. <<m, n>> \in Nat \X Nat
      OBVIOUS
    <2>3. ~(m < n)
      BY <2>1, <2>2 DEF LessThan
    <2> QED
      BY <2>3
  <1> QED
    BY <1>2

\* The piece that stops the framing, if any, is the first that ends it.
LEMMA StopAtRange ==
    ASSUME NEW ts, NEW p \in Packets
    PROVE  /\ StopAt(ts, p) \in 0..Len(p.pieces)
           /\ StopAt(ts, p) > 0 => GiveUp(ts)
           /\ Len(p.pieces) \in Nat /\ DOMAIN p.pieces = 1..Len(p.pieces)
  <1> DEFINE open == {i \in DOMAIN p.pieces : ~InnerDone(ts, p, i)}
  <1>1. Len(p.pieces) \in Nat /\ DOMAIN p.pieces = 1..Len(p.pieces)
    BY DEF Packets
  <1>2. CASE GiveUp(ts) /\ open # {}
    <2>1. StopAt(ts, p) = CHOOSE i \in open : \A j \in open : i <= j
      BY <1>2 DEF StopAt
    <2>2. open \subseteq Nat
      BY <1>1
    <2>3. \E i \in open : \A j \in open : i <= j
      <3> HIDE DEF open
      <3> QED
        BY <1>2, <2>2, LeastNatural
    <2>4. StopAt(ts, p) \in open
      <3> HIDE DEF open
      <3> QED
        BY <2>1, <2>3
    <2> QED
      BY <1>1, <1>2, <2>4
  <1>3. CASE ~(GiveUp(ts) /\ open # {})
    BY <1>1, <1>3 DEF StopAt
  <1> QED
    BY <1>2, <1>3

Commands == {"CONTINUE", "END", "DIRECT"}

\* What one framed write does to the padder shows in its frames: all but the last
\* continue, and the last says whether padding and TLS are over.
LEMMA FramesTell ==
    ASSUME NEW ts \in Traffics, Verdict(ts), NEW p \in Packets, p.pieces # <<>>,
           NEW pd \in Padders, pd.padding, ~pd.direct
    PROVE  /\ InFrames(ts, p) \in 1..Len(p.pieces)
           /\ \A i \in 1..InFrames(ts, p) : Command(ts, p, i) \in Commands
           /\ \A i \in 1..InFrames(ts, p) - 1 : Command(ts, p, i) = "CONTINUE"
           /\ Command(ts, p, InFrames(ts, p)) = "CONTINUE" <=> Padded(ts, pd, p).padding
           /\ Command(ts, p, InFrames(ts, p)) = "DIRECT" <=> Padded(ts, pd, p).direct
           /\ InFrames(ts, p) < Len(p.pieces) => Command(ts, p, InFrames(ts, p)) = "END"
  <1> DEFINE len == Len(p.pieces)
             stop == StopAt(ts, p)
             ends == PaddingEnds(ts, p)
  <1>1. /\ len \in Nat \ {0} /\ DOMAIN p.pieces = 1..len /\ stop \in 0..len
        /\ stop > 0 => ~ts.xtls
    <2>1. p.pieces \in Seq(BOOLEAN)
      BY DEF Packets
    <2>2. len # 0
      BY <2>1
    <2>3. stop > 0 => ~ts.xtls
      BY StopAtRange DEF GiveUp, Verdict
    <2> QED
      BY <2>2, <2>3, StopAtRange
  <1>2. /\ Padded(ts, pd, p).padding <=> ~ends
        /\ Padded(ts, pd, p).direct <=> /\ \E i \in 1..len : InnerDone(ts, p, i) /\ (stop > 0 => i < stop)
                                        /\ ts.xtls
    BY <1>1 DEF Padded, GoesDirect
  <1>3. ends <=> stop > 0 \/ \E i \in 1..len : InnerDone(ts, p, i)
    BY <1>1 DEF PaddingEnds
  <1>4. CASE stop > 0
    <2>1. InFrames(ts, p) = stop
      BY <1>4 DEF InFrames
    <2>2. Command(ts, p, stop) = "END"
      BY DEF Command
    <2>3. \A i \in 1..stop - 1 : Command(ts, p, i) = "CONTINUE"
      BY <1>1, <1>4 DEF Command
    <2> HIDE DEF len, stop, ends
    <2> QED
      BY <1>1, <1>2, <1>3, <1>4, <2>1, <2>2, <2>3 DEF len, Commands
  <1>5. CASE stop = 0
    <2>1. InFrames(ts, p) = len
      BY <1>5 DEF InFrames
    <2>2. Command(ts, p, len) = IF ends THEN EndCommand(ts) ELSE "CONTINUE"
      BY <1>1, <1>5 DEF Command
    <2>3. \A i \in 1..len - 1 : Command(ts, p, i) = "CONTINUE"
      BY <1>1, <1>5 DEF Command
    <2>4. EndCommand(ts) = IF ts.xtls THEN "DIRECT" ELSE "END"
      BY DEF EndCommand
    <2> HIDE DEF len, stop, ends
    <2> QED
      BY <1>1, <1>2, <1>3, <1>5, <2>1, <2>2, <2>3, <2>4 DEF len, Commands
  <1> QED
    BY <1>1, <1>4, <1>5

Half(j) == (j + 1) \div 2

\* Cells 2i - 1 and 2i of a framed write are the head and the tail of frame i.
FrameCells(ts, pd, p, base) ==
    [j \in 1..2 * InFrames(ts, p) |->
        Frame(Command(ts, p, Half(j)), pd.fresh /\ Half(j) = 1, base + Half(j))
            [IF j % 2 = 1 THEN 1 ELSE 2]]

PlainCells(ts, p, base) ==
    [j \in 1..Unframed(ts, p) |-> Plain(base + InFrames(ts, p) + j)]

LEMMA PadCellsSplit ==
    ASSUME NEW ts, NEW pd, NEW p, NEW base
    PROVE  PadCells(ts, pd, p, base) = FrameCells(ts, pd, p, base) \o PlainCells(ts, p, base)
  BY DEF PadCells, FrameCells, PlainCells, Half

\* Cells 2i - 1 and 2i belong to piece i.
LEMMA Halves ==
    ASSUME NEW n \in Nat, NEW j \in 1..2 * n
    PROVE  /\ Half(j) \in 1..n
           /\ \/ j % 2 = 1 /\ j = 2 * Half(j) - 1
              \/ j % 2 = 0 /\ j = 2 * Half(j)
  BY DEF Half

LEMMA Doubles ==
    ASSUME NEW n \in Nat, NEW i \in 1..n
    PROVE  /\ 2 * i - 1 \in 1..2 * n /\ (2 * i - 1) % 2 = 1 /\ Half(2 * i - 1) = i
           /\ 2 * i \in 1..2 * n /\ (2 * i) % 2 = 0 /\ Half(2 * i) = i
  <1>1. 2 * i - 1 \in 1..2 * n /\ 2 * i \in 1..2 * n
    OBVIOUS
  <1>2. (2 * i - 1) % 2 = 1
    OBVIOUS
  <1>3. (2 * i) % 2 = 0
    OBVIOUS
  <1>4. Half(2 * i - 1) = i
    BY DEF Half
  <1>5. Half(2 * i) = i
    BY DEF Half
  <1> QED
    BY <1>1, <1>2, <1>3, <1>4, <1>5

LEMMA FrameCellsType ==
    ASSUME NEW ts \in Traffics, Verdict(ts), NEW p \in Packets, p.pieces # <<>>,
           NEW pd \in Padders, pd.padding, ~pd.direct, NEW base \in Nat
    PROVE  /\ FrameCells(ts, pd, p, base) \in Seq(CellSet)
           /\ Len(FrameCells(ts, pd, p, base)) = 2 * InFrames(ts, p)
           /\ \A i \in 1..InFrames(ts, p) :
                 /\ FrameCells(ts, pd, p, base)[2 * i - 1] =
                        Cell("head", Command(ts, p, i), pd.fresh /\ i = 1, 0)
                 /\ FrameCells(ts, pd, p, base)[2 * i] =
                        Cell("tail", Command(ts, p, i), FALSE, base + i)
  <1> DEFINE n == InFrames(ts, p)
             cell(j) == Frame(Command(ts, p, Half(j)), pd.fresh /\ Half(j) = 1, base + Half(j))
                            [IF j % 2 = 1 THEN 1 ELSE 2]
  <1>1. n \in Nat /\ \A i \in 1..n : Command(ts, p, i) \in Commands
    BY FramesTell, StopAtRange
  <1>2. \A j \in 1..2 * n : j % 2 = 1 => cell(j) = Cell("head", Command(ts, p, Half(j)), pd.fresh /\ Half(j) = 1, 0)
    BY DEF Frame
  <1>3. \A j \in 1..2 * n : j % 2 # 1 => cell(j) = Cell("tail", Command(ts, p, Half(j)), FALSE, base + Half(j))
    BY DEF Frame
  <1>4. ASSUME NEW j \in 1..2 * n PROVE cell(j) \in CellSet
    <2>1. Half(j) \in 1..n /\ Command(ts, p, Half(j)) \in Commands
      BY <1>1, Halves
    <2>2. (pd.fresh /\ Half(j) = 1) \in BOOLEAN /\ base + Half(j) \in Nat
      BY <2>1, <1>1 DEF Padders
    <2>3. CASE j % 2 = 1
      <3>1. cell(j) = Cell("head", Command(ts, p, Half(j)), pd.fresh /\ Half(j) = 1, 0)
        BY <1>2, <2>3
      <3> HIDE DEF cell
      <3> QED
        BY <2>1, <2>2, <3>1 DEF Cell, CellSet, Cells, Commands
    <2>4. CASE j % 2 # 1
      <3>1. cell(j) = Cell("tail", Command(ts, p, Half(j)), FALSE, base + Half(j))
        BY <1>3, <2>4
      <3> HIDE DEF cell
      <3> QED
        BY <2>1, <2>2, <3>1 DEF Cell, CellSet, Cells, Commands
    <2> QED
      BY <2>3, <2>4
  <1> HIDE DEF n, cell
  <1>5. FrameCells(ts, pd, p, base) = [j \in 1..2 * n |-> cell(j)]
    BY DEF FrameCells, n, cell
  <1>6. ASSUME NEW i \in 1..n
        PROVE  /\ 2 * i - 1 \in 1..2 * n /\ (2 * i - 1) % 2 = 1 /\ Half(2 * i - 1) = i
               /\ 2 * i \in 1..2 * n /\ (2 * i) % 2 = 0 /\ Half(2 * i) = i
    BY <1>1, Doubles
  <1>7. \A i \in 1..n :
            /\ FrameCells(ts, pd, p, base)[2 * i - 1] = cell(2 * i - 1)
            /\ FrameCells(ts, pd, p, base)[2 * i] = cell(2 * i)
    BY <1>5, <1>6
  <1>8. /\ FrameCells(ts, pd, p, base) \in Seq(CellSet)
        /\ Len(FrameCells(ts, pd, p, base)) = 2 * n
    BY <1>1, <1>4, <1>5
  <1>9. ASSUME NEW i \in 1..n
        PROVE  /\ FrameCells(ts, pd, p, base)[2 * i - 1] =
                        Cell("head", Command(ts, p, i), pd.fresh /\ i = 1, 0)
               /\ FrameCells(ts, pd, p, base)[2 * i] =
                        Cell("tail", Command(ts, p, i), FALSE, base + i)
    <2>1. cell(2 * i - 1) = Cell("head", Command(ts, p, Half(2 * i - 1)), pd.fresh /\ Half(2 * i - 1) = 1, 0)
      BY <1>2, <1>6
    <2>2. cell(2 * i) = Cell("tail", Command(ts, p, Half(2 * i)), FALSE, base + Half(2 * i))
      <3>1. 2 * i \in 1..2 * n /\ (2 * i) % 2 # 1
        BY <1>6
      <3> QED
        BY <1>3, <3>1, Zenon
    <2> QED
      BY <1>6, <1>7, <2>1, <2>2
  <1> QED
    BY <1>8, <1>9 DEF n

---------------------------------------------------------------------------
\* The frames of one write take the server from the head of a frame to the head of
\* the next one, or past the framing when the last command says so
\* (vision.rs:297-318).
LEMMA FrameRun ==
    ASSUME NEW ts \in Traffics, Verdict(ts), NEW p \in Packets, p.pieces # <<>>,
           NEW pd \in Padders, pd.padding, ~pd.direct, NEW base \in Nat,
           NEW n \in Nat, base + InFrames(ts, p) <= n
    PROVE  Run(n, Tls(FrameCells(ts, pd, p, base)),
               Server("head", FALSE, pd.fresh, base),
               Server(IF Padded(ts, pd, p).padding THEN "head" ELSE "plain",
                      Padded(ts, pd, p).direct, FALSE, base + InFrames(ts, p)))
  <1> DEFINE f == InFrames(ts, p)
             cells == FrameCells(ts, pd, p, base)
             cmd(i) == Command(ts, p, i)
             first == Server("head", FALSE, pd.fresh, base)
             last == Server(IF Padded(ts, pd, p).padding THEN "head" ELSE "plain",
                            Padded(ts, pd, p).direct, FALSE, base + f)
             head(i) == IF i = f THEN last
                        ELSE Server("head", FALSE, pd.fresh /\ i = 0, base + i)
             tail(i) == Server("tail", FALSE, FALSE, base + i - 1)
             S == [j \in 0..2 * f |-> IF j % 2 = 1 THEN tail(Half(j)) ELSE head(Half(j))]
  <1>1. /\ f \in Nat \ {0}
        /\ \A i \in 1..f : cmd(i) \in Commands
        /\ \A i \in 1..f - 1 : cmd(i) = "CONTINUE"
        /\ cmd(f) = "CONTINUE" <=> Padded(ts, pd, p).padding
        /\ cmd(f) = "DIRECT" <=> Padded(ts, pd, p).direct
    BY FramesTell, StopAtRange
  <1>2. Padded(ts, pd, p).direct \in BOOLEAN /\ pd.fresh \in BOOLEAN
    BY DEF Padded, GoesDirect, Padders, Traffics
  <1>3. /\ cells \in Seq(CellSet) /\ Len(cells) = 2 * f
        /\ \A i \in 1..f : /\ cells[2 * i - 1] = Cell("head", cmd(i), pd.fresh /\ i = 1, 0)
                           /\ cells[2 * i] = Cell("tail", cmd(i), FALSE, base + i)
    BY FrameCellsType
  <1>4. /\ Tls(cells) \in Seq(Wires) /\ Len(Tls(cells)) = 2 * f
        /\ \A i \in 1..2 * f : Tls(cells)[i] = OnWire("tls", cells[i])
    BY <1>3, TlsType
  <1> HIDE DEF cells, f, cmd
  <1>5. last \in Servers(n)
    <2>1. base + f \in 0..n
      BY <1>1 DEF f
    <2>2. (IF Padded(ts, pd, p).padding THEN "head" ELSE "plain") \in Stages
      BY DEF Stages, Cells
    <2> QED
      BY <1>2, <2>1, <2>2, ServerType
  <1>6. \A i \in 0..f : head(i) \in Servers(n)
    <2> HIDE DEF last
    <2>1. ASSUME NEW i \in 0..f, i # f
          PROVE  Server("head", FALSE, pd.fresh /\ i = 0, base + i) \in Servers(n)
      <3>1. base + i \in 0..n
        BY <1>1, <2>1 DEF f
      <3>2. (pd.fresh /\ i = 0) \in BOOLEAN /\ "head" \in Stages
        BY DEF Stages, Cells
      <3> QED
        BY <3>1, <3>2, ServerType
    <2> QED
      BY <1>5, <2>1
  <1>7. \A i \in 1..f : tail(i) \in Servers(n)
    <2>1. ASSUME NEW i \in 1..f PROVE tail(i) \in Servers(n)
      <3>1. base + i - 1 \in 0..n
        BY <1>1 DEF f
      <3>2. "tail" \in Stages
        BY DEF Stages, Cells
      <3> QED
        BY <3>1, <3>2, ServerType
    <2> QED
      BY <2>1
  <1>8. \A i \in 0..f : 2 * i \in 0..2 * f /\ (2 * i) % 2 # 1 /\ Half(2 * i) = i
    BY <1>1 DEF Half
  <1>9. \A i \in 1..f : 2 * i - 1 \in 0..2 * f /\ (2 * i - 1) % 2 = 1 /\ Half(2 * i - 1) = i
    BY <1>1, Doubles
  <1>10. \A j \in 0..2 * f : \/ j % 2 = 1 /\ Half(j) \in 1..f
                             \/ j % 2 # 1 /\ Half(j) \in 0..f
    BY <1>1 DEF Half
  <1> HIDE DEF head, tail
  <1>11. S \in [0..2 * f -> Servers(n)]
    BY <1>6, <1>7, <1>10
  <1>12. /\ \A i \in 0..f : S[2 * i] = head(i)
         /\ \A i \in 1..f : S[2 * i - 1] = tail(i)
    BY <1>8, <1>9
  <1> HIDE DEF S
  <1>13. S[0] = first
    <2>1. 0 \in 0..f /\ 2 * 0 = 0 /\ 0 # f /\ base + 0 = base
      BY <1>1
    <2>2. S[0] = head(0)
      BY <1>12, <2>1
    <2>3. (pd.fresh /\ 0 = 0) = pd.fresh
      BY <1>2
    <2> QED
      BY <2>1, <2>2, <2>3 DEF head
  <1>14. S[2 * f] = last
    <2>1. f \in 0..f /\ head(f) = last
      BY <1>1 DEF head
    <2> QED
      BY <1>12, <2>1
  <1>15. ASSUME NEW i \in 1..f
         PROVE  /\ Reads(S[(2 * i - 1) - 1], Tls(cells)[2 * i - 1], S[2 * i - 1])
                /\ Reads(S[2 * i - 1], Tls(cells)[2 * i], S[2 * i])
    <2>1. i - 1 \in 0..f /\ (2 * i - 1) - 1 = 2 * (i - 1) /\ i - 1 # f /\ base + i - 1 \in Nat
          /\ 2 * i - 1 \in 1..2 * f /\ 2 * i \in 1..2 * f /\ i \in 0..f /\ base + i = (base + i - 1) + 1
          /\ base + (i - 1) = base + i - 1 /\ base + i # 0
      BY <1>1
    <2>2. S[(2 * i - 1) - 1] = Server("head", FALSE, pd.fresh /\ i = 1, base + i - 1)
      <3>1. S[(2 * i - 1) - 1] = head(i - 1)
        BY <1>12, <2>1
      <3>2. (i - 1 = 0) <=> (i = 1)
        OBVIOUS
      <3>3. (pd.fresh /\ i - 1 = 0) = (pd.fresh /\ i = 1)
        BY <1>2, <3>2
      <3> QED
        BY <2>1, <3>1, <3>3 DEF head
    <2>3. S[2 * i - 1] = Server("tail", FALSE, FALSE, base + i - 1)
      BY <1>12 DEF tail
    <2>4. /\ Tls(cells)[2 * i - 1] = OnWire("tls", Cell("head", cmd(i), pd.fresh /\ i = 1, 0))
          /\ Tls(cells)[2 * i] = OnWire("tls", Cell("tail", cmd(i), FALSE, base + i))
      BY <1>3, <1>4, <2>1
    <2>5. (pd.fresh /\ i = 1) \in BOOLEAN
      OBVIOUS
    <2>6. Reads(S[(2 * i - 1) - 1], Tls(cells)[2 * i - 1], S[2 * i - 1])
      BY <2>1, <2>2, <2>3, <2>4, <2>5, ReadsHead
    <2>7. S[2 * i] = Server(IF cmd(i) = "CONTINUE" THEN "head" ELSE "plain", cmd(i) = "DIRECT",
                            FALSE, base + i)
      <3>1. S[2 * i] = head(i)
        BY <1>12, <2>1
      <3>2. CASE i = f
        <4>1. (cmd(f) = "DIRECT") = Padded(ts, pd, p).direct
          BY <1>1, <1>2
        <4>2. (IF cmd(f) = "CONTINUE" THEN "head" ELSE "plain")
                = (IF Padded(ts, pd, p).padding THEN "head" ELSE "plain")
          BY <1>1
        <4> QED
          BY <3>1, <3>2, <4>1, <4>2 DEF head
      <3>3. CASE i # f
        <4>1. cmd(i) = "CONTINUE" /\ (pd.fresh /\ i = 0) = FALSE /\ (cmd(i) = "DIRECT") = FALSE
          BY <1>1, <3>3
        <4> QED
          BY <3>1, <3>3, <4>1 DEF head
      <3> QED
        BY <3>2, <3>3
    <2>8. Reads(S[2 * i - 1], Tls(cells)[2 * i], S[2 * i])
      <3>1. cmd(i) \in {"CONTINUE", "END", "DIRECT"} /\ base + i \in {0, (base + i - 1) + 1}
        BY <1>1, <2>1 DEF Commands
      <3>2. Reads(Server("tail", FALSE, FALSE, base + i - 1), OnWire("tls", Cell("tail", cmd(i), FALSE, base + i)),
                 Server(IF cmd(i) = "CONTINUE" THEN "head" ELSE "plain", cmd(i) = "DIRECT", FALSE,
                        IF base + i = 0 THEN base + i - 1 ELSE (base + i - 1) + 1))
        BY <2>1, <3>1, ReadsTail
      <3>3. (IF base + i = 0 THEN base + i - 1 ELSE (base + i - 1) + 1) = base + i
        BY <2>1
      <3> QED
        BY <2>3, <2>4, <2>7, <3>2, <3>3
    <2> QED
      BY <2>6, <2>8
  <1>16. ASSUME NEW j \in 1..2 * f PROVE Reads(S[j - 1], Tls(cells)[j], S[j])
    <2>1. /\ Half(j) \in 1..f
          /\ \/ j = 2 * Half(j) - 1
             \/ j = 2 * Half(j)
      BY <1>1, Halves
    <2>2. CASE j = 2 * Half(j) - 1
      BY <1>15, <2>1, <2>2
    <2>3. CASE j = 2 * Half(j)
      BY <1>15, <2>1, <2>3
    <2> QED
      BY <2>1, <2>2, <2>3
  <1> HIDE DEF first, last
  <1>17. Run(n, Tls(cells), first, last)
    BY <1>4, <1>11, <1>13, <1>14, <1>16 DEF Run
  <1> QED
    BY <1>17 DEF cells, first, last, f

\* What follows the frame that ends them is plain data for a server that is past
\* them.
LEMMA PlainRun ==
    ASSUME NEW n \in Nat, NEW k \in Nat, NEW m \in Nat, k + m <= n,
           NEW d \in BOOLEAN, NEW mode, mode = IF d THEN "raw" ELSE "tls",
           NEW q \in Seq(Wires), Len(q) = m, \A j \in 1..m : q[j] = OnWire(mode, Plain(k + j))
    PROVE  Run(n, q, Server("plain", d, FALSE, k), Server("plain", d, FALSE, k + m))
  <1> DEFINE S == [j \in 0..m |-> Server("plain", d, FALSE, k + j)]
  <1>1. \A j \in 0..m : k + j \in 0..n
    OBVIOUS
  <1>2. "plain" \in Stages
    BY DEF Stages, Cells
  <1>3. \A j \in 0..m : Server("plain", d, FALSE, k + j) \in Servers(n)
    BY <1>1, <1>2, ServerType
  <1>4. S \in [0..m -> Servers(n)] /\ S[0] = Server("plain", d, FALSE, k)
        /\ S[m] = Server("plain", d, FALSE, k + m)
    <2>1. 0 \in 0..m /\ m \in 0..m /\ k + 0 = k
      OBVIOUS
    <2>2. S[0] = Server("plain", d, FALSE, k + 0) /\ S[m] = Server("plain", d, FALSE, k + m)
      BY <2>1
    <2> QED
      BY <1>3, <2>1, <2>2
  <1>5. ASSUME NEW j \in 1..m PROVE Reads(S[j - 1], q[j], S[j])
    <2>1. k + j = (k + (j - 1)) + 1 /\ k + (j - 1) \in Nat /\ j - 1 \in 0..m /\ j \in 0..m
      OBVIOUS
    <2>2. /\ S[j - 1] = Server("plain", d, FALSE, k + (j - 1))
          /\ S[j] = Server("plain", d, FALSE, k + j)
      BY <2>1
    <2> HIDE DEF S
    <2>3. Reads(Server("plain", d, FALSE, k + (j - 1)), OnWire(IF d THEN "raw" ELSE "tls", Plain((k + (j - 1)) + 1)),
                Server("plain", d, FALSE, (k + (j - 1)) + 1))
      BY <2>1, ReadsPlain
    <2> QED
      BY <2>1, <2>2, <2>3
  <1> HIDE DEF S
  <1> QED
    BY <1>4, <1>5 DEF Run

LEMMA PlainCell == ASSUME NEW k \in Nat PROVE Plain(k) \in CellSet
  BY DEF Plain, Cell, CellSet, Cells

\* Everything one padded write becomes.
LEMMA PadRun ==
    ASSUME NEW ts \in Traffics, Verdict(ts), NEW p \in Packets, p.pieces # <<>>,
           NEW pd \in Padders, pd.padding, ~pd.direct, NEW base \in Nat
    PROVE  /\ PadCells(ts, pd, p, base) \in Seq(CellSet)
           /\ Run(base + Len(p.pieces), Tls(PadCells(ts, pd, p, base)),
                  Server("head", FALSE, pd.fresh, base),
                  Server(IF Padded(ts, pd, p).padding THEN "head" ELSE "plain",
                         Padded(ts, pd, p).direct, FALSE, base + Len(p.pieces)))
  <1> DEFINE f == InFrames(ts, p)
             len == Len(p.pieces)
             m == Unframed(ts, p)
             a == FrameCells(ts, pd, p, base)
             b == PlainCells(ts, p, base)
             start == Server("head", FALSE, pd.fresh, base)
             mid == Server(IF Padded(ts, pd, p).padding THEN "head" ELSE "plain",
                           Padded(ts, pd, p).direct, FALSE, base + f)
             end == Server(IF Padded(ts, pd, p).padding THEN "head" ELSE "plain",
                           Padded(ts, pd, p).direct, FALSE, base + len)
  <1>1. f \in 1..len /\ len \in Nat /\ m = len - f /\ m \in Nat /\ f + m = len
        /\ base + len \in Nat /\ base + f <= base + len /\ base + f \in Nat
    BY FramesTell, StopAtRange DEF Unframed
  <1>2. a \in Seq(CellSet)
    BY FrameCellsType
  <1>3. b \in Seq(CellSet) /\ Len(b) = m /\ \A j \in 1..m : b[j] = Plain(base + f + j)
    <2> HIDE DEF f, m
    <2>1. b = [j \in 1..m |-> Plain(base + f + j)]
      BY DEF PlainCells, f, m
    <2>2. \A j \in 1..m : Plain(base + f + j) \in CellSet
      BY <1>1, PlainCell
    <2> QED
      BY <1>1, <2>1, <2>2
  <1>4. PadCells(ts, pd, p, base) = a \o b /\ a \o b \in Seq(CellSet)
    BY <1>2, <1>3, PadCellsSplit, ConcatProperties
  <1>5. /\ Tls(a) \in Seq(Wires)
        /\ Tls(b) \in Seq(Wires) /\ Len(Tls(b)) = m
        /\ \A j \in 1..m : Tls(b)[j] = OnWire("tls", Plain((base + f) + j))
    <2> HIDE DEF a, b, f, m
    <2> QED
      BY <1>2, <1>3, TlsType
  <1>6. Tls(a \o b) = Tls(a) \o Tls(b)
    BY <1>2, <1>3, TlsConcat
  <1>7. Run(base + len, Tls(a), start, mid)
    BY <1>1, FrameRun
  <1>8. Run(base + len, Tls(b), mid, end)
    <2>1. CASE m = 0
      <3>1. mid = end
        <4>1. base + f = base + len
          BY <1>1, <2>1
        <4> QED
          BY <4>1
      <3>2. Tls(b) = <<>>
        <4> HIDE DEF b
        <4> QED
          BY <1>5, <2>1, EmptySeq
      <3>3. mid \in Servers(base + len)
        <4>1. Padded(ts, pd, p).direct \in BOOLEAN
          BY DEF Padded, GoesDirect, Padders, Traffics
        <4>2. base + f \in 0..base + len
          BY <1>1
        <4>3. (IF Padded(ts, pd, p).padding THEN "head" ELSE "plain") \in Stages
          BY DEF Stages, Cells
        <4> QED
          BY <1>1, <4>1, <4>2, <4>3, ServerType
      <3> HIDE DEF mid, end, b, len
      <3> QED
        BY <1>1, <3>1, <3>2, <3>3, RunEmpty
    <2>2. CASE m > 0
      <3>1. ~Padded(ts, pd, p).padding /\ Padded(ts, pd, p).direct = FALSE
        <4>1. Command(ts, p, f) = "END"
          BY <1>1, <2>2, FramesTell
        <4>2. Padded(ts, pd, p).direct \in BOOLEAN
          BY DEF Padded, GoesDirect, Padders, Traffics
        <4> QED
          BY <4>1, <4>2, FramesTell
      <3>2. mid = Server("plain", FALSE, FALSE, base + f)
            /\ end = Server("plain", FALSE, FALSE, (base + f) + m)
        <4>1. base + len = (base + f) + m
          BY <1>1
        <4> QED
          BY <3>1, <4>1
      <3>3. (base + f) + m <= base + len
        BY <1>1
      <3>4. "tls" = IF FALSE THEN "raw" ELSE "tls"
        OBVIOUS
      <3> HIDE DEF mid, end, b, len, f, m
      <3>5. Run(base + len, Tls(b), Server("plain", FALSE, FALSE, base + f), Server("plain", FALSE, FALSE, (base + f) + m))
        BY <1>1, <1>5, <3>3, <3>4, PlainRun
      <3> QED
        BY <3>2, <3>5
    <2> HIDE DEF a, b, mid, end, m, len
    <2>3. m = 0 \/ m > 0
      BY <1>1
    <2> QED
      BY <2>1, <2>2, <2>3
  <1> HIDE DEF a, b, start, mid, end, len
  <1>9. Run(base + len, Tls(a) \o Tls(b), start, end)
    BY <1>1, <1>5, <1>7, <1>8, RunConcat
  <1> QED
    BY <1>4, <1>6, <1>9 DEF start, end, len

---------------------------------------------------------------------------
\* All that is on its way to the server, in order.
Queue == sock \o Tls(tlsOut \o outBuf)

\* The buffers hold cells and the socket keeps to its limit.
Buffers ==
    /\ outBuf \in Seq(CellSet) /\ tlsOut \in Seq(CellSet)
    /\ sock \in Seq(Wires) /\ Len(sock) <= SockCap

Writer == {"first", "firstOut", "ready", "unflushed", "write", "flush", "shutdown",
           "closing", "closed"}

\* The writer keeps within the bounds, and writes exactly what it holds.
Limits ==
    /\ traffic.budget <= FilterPackets
    /\ handed \in 0..MaxHanded /\ raw \in BOOLEAN /\ wpc \in Writer
    /\ Len(tlsOut) <= IF wpc \in {"closing", "closed"} THEN TlsCap + 1 ELSE TlsCap
    /\ cur # <<>> <=> wpc = "write"
    /\ wpc = "write" => cur[1].pieces # <<>> /\ handed + Len(cur[1].pieces) <= MaxHanded

\* Raw only once TLS is empty, nothing of TLS behind the end of the stream, and
\* nothing sent before the header.
Modes ==
    /\ raw => padder.direct /\ outBuf = <<>> /\ tlsOut = <<>>
    /\ wpc = "first" => /\ outBuf = <<>> /\ tlsOut = <<>> /\ ~raw /\ handed = 0
                        /\ padder.padding /\ ~padder.direct
    /\ wpc = "firstOut" => ~raw
    /\ wpc \in {"closing", "closed"} => outBuf = <<>>
    /\ wpc = "closing" => ~padder.direct
    /\ wpc = "closed" => tlsOut = <<>>
    /\ wpc # "first" => ~padder.fresh

\* Where the server is once it has read everything on its way.
Stage ==
    CASE wpc = "first" -> "header"
      [] wpc = "closing" -> "closed"
      [] wpc = "closed" -> "eof"
      [] OTHER -> IF padder.padding THEN "head" ELSE "plain"

Expected == Server(Stage, padder.direct, padder.fresh, handed)

\* The heart of it: reading the queue takes the server there.
Synced == Run(handed, Queue, srv, Expected)

Flow == Buffers /\ Limits /\ Modes /\ Synced

UInv == PInv /\ Flow

---------------------------------------------------------------------------
LEMMA WireAssoc ==
    ASSUME NEW a \in Seq(Wires), NEW b \in Seq(Wires), NEW c \in Seq(Wires)
    PROVE  (a \o b) \o c = a \o (b \o c)
  BY ConcatAssociative

\* Cells that TLS takes move along the queue and keep their order.
LEMMA TlsTakeMoves ==
    ASSUME Buffers, NEW q \in Seq(CellSet), NEW left \in 0..Len(q), TlsTake(q, left),
           NEW rest, rest = SubSeq(q, Len(q) - left + 1, Len(q))
    PROVE  /\ sock' \in Seq(Wires) /\ Len(sock') <= SockCap
           /\ tlsOut' \in Seq(CellSet) /\ Len(tlsOut') <= TlsCap
           /\ rest \in Seq(CellSet)
           /\ sock' \o Tls(tlsOut' \o rest) = sock \o Tls(tlsOut \o q)
  <1> DEFINE all == tlsOut \o q
             len == Len(all)
             kept == len - left
  <1>1. /\ all \in Seq(CellSet) /\ len = Len(tlsOut) + Len(q) /\ len \in Nat /\ kept \in 0..len
        /\ Len(tlsOut) \in Nat /\ Len(q) \in Nat
        /\ \A i \in 1..Len(tlsOut) + Len(q) :
              all[i] = IF i <= Len(tlsOut) THEN tlsOut[i] ELSE q[i - Len(tlsOut)]
    BY ConcatProperties DEF Buffers
  <1>2. PICK m \in 0..(IF Room < kept THEN Room ELSE kept) :
            /\ kept - m <= TlsCap
            /\ sock' = sock \o [i \in 1..m |-> OnWire("tls", all[i])]
            /\ tlsOut' = SubSeq(all, m + 1, kept)
    BY DEF TlsTake
  <1> HIDE DEF all, len, kept
  <1>3. m \in Nat /\ m <= kept /\ Len(sock) + m <= SockCap /\ Len(sock) \in Nat
    BY <1>1, <1>2, CapsAssumption DEF Room, Buffers
  <1> DEFINE front == SubSeq(all, 1, m)
             mid == SubSeq(all, m + 1, kept)
  <1>4. /\ front \in Seq(CellSet) /\ Len(front) = m /\ \A i \in 1..m : front[i] = all[i]
        /\ mid \in Seq(CellSet) /\ Len(mid) = kept - m
    BY <1>1, <1>3 DEF len
  <1>5. rest \in Seq(CellSet) /\ rest = SubSeq(all, kept + 1, len)
    <2> DEFINE last == SubSeq(all, kept + 1, len)
    <2>1. /\ rest \in Seq(CellSet) /\ Len(rest) = left
          /\ \A i \in 1..left : rest[i] = q[Len(q) - left + i]
      BY <1>1
    <2>2. /\ last \in Seq(CellSet) /\ Len(last) = left
          /\ \A i \in 1..left : last[i] = all[kept + i]
      <3>1. /\ \A i \in kept + 1..len : all[i] \in CellSet
            /\ kept + 1 \in Int /\ len \in Int /\ len - (kept + 1) + 1 = left
            /\ (IF kept + 1 <= len THEN len - (kept + 1) + 1 ELSE 0) = left
        BY <1>1 DEF kept, len
      <3>2. /\ last \in Seq(CellSet) /\ Len(last) = left
            /\ \A i \in 1..left : last[i] = all[(kept + 1) + i - 1]
        BY <3>1, SubSeqProperties
      <3>3. \A i \in 1..left : (kept + 1) + i - 1 = kept + i
        BY <1>1
      <3> HIDE DEF last
      <3> QED
        BY <3>2, <3>3
    <2>3. ASSUME NEW i \in 1..left PROVE all[kept + i] = q[Len(q) - left + i]
      <3>1. /\ kept + i \in 1..Len(tlsOut) + Len(q) /\ ~(kept + i <= Len(tlsOut))
            /\ (kept + i) - Len(tlsOut) = Len(q) - left + i
        BY <1>1 DEF kept
      <3>2. \A j \in 1..Len(tlsOut) + Len(q) : ~(j <= Len(tlsOut)) => all[j] = q[j - Len(tlsOut)]
        BY <1>1
      <3>3. all[kept + i] = q[(kept + i) - Len(tlsOut)]
        BY <3>1, <3>2, Zenon
      <3> QED
        BY <3>1, <3>3
    <2> HIDE DEF last
    <2>4. Len(rest) = Len(last) /\ \A i \in 1..Len(rest) : rest[i] = last[i]
      <3>1. \A i \in 1..left : rest[i] = last[i]
        BY <2>1, <2>2, <2>3, Zenon
      <3> QED
        BY <2>1, <2>2, <3>1
    <2>5. rest = last
      BY <2>1, <2>2, <2>4, SeqEqual, Zenon
    <2> QED
      BY <2>1, <2>5 DEF last
  <1>6. mid \o rest = SubSeq(all, m + 1, len) /\ mid \o rest \in Seq(CellSet)
    <2>1. m + 1 \in 1..Len(all) + 1 /\ kept \in (m + 1) - 1..Len(all) /\ Len(all) \in kept..Len(all)
      BY <1>1, <1>3 DEF len
    <2>2. SubSeq(all, m + 1, kept) \o SubSeq(all, kept + 1, Len(all)) = SubSeq(all, m + 1, Len(all))
      BY <1>1, <2>1, ConcatAdjacentSubSeq, Zenon
    <2> QED
      BY <1>4, <1>5, <2>2, ConcatProperties DEF len
  <1>7. front \o (mid \o rest) = all
    <2>1. 1 \in 1..Len(all) + 1 /\ m \in 1 - 1..Len(all) /\ Len(all) \in m..Len(all)
      BY <1>1, <1>3 DEF len
    <2>2. SubSeq(all, 1, m) \o SubSeq(all, m + 1, Len(all)) = SubSeq(all, 1, Len(all))
      BY <1>1, <2>1, ConcatAdjacentSubSeq, Zenon
    <2>3. SubSeq(all, 1, Len(all)) = all
      BY <1>1, SubSeqFull
    <2> QED
      BY <1>6, <2>2, <2>3 DEF len
  <1> HIDE DEF front, mid
  <1>8. sock' = sock \o Tls(front)
    <2>1. [i \in 1..m |-> OnWire("tls", all[i])] = Tls(front)
      BY <1>4 DEF Tls
    <2> QED
      BY <1>2, <2>1
  <1>9. /\ Tls(front) \in Seq(Wires) /\ Len(Tls(front)) = m
        /\ Tls(mid \o rest) \in Seq(Wires)
        /\ Tls(front \o (mid \o rest)) = Tls(front) \o Tls(mid \o rest)
    BY <1>4, <1>6, TlsType, TlsConcat
  <1>10. sock' \in Seq(Wires) /\ Len(sock') = Len(sock) + m
    BY <1>8, <1>9, ConcatProperties DEF Buffers
  <1>11. sock' \o Tls(mid \o rest) = sock \o (Tls(front) \o Tls(mid \o rest))
    <2>1. sock \in Seq(Wires)
      BY DEF Buffers
    <2>2. (sock \o Tls(front)) \o Tls(mid \o rest) = sock \o (Tls(front) \o Tls(mid \o rest))
      BY <1>9, <2>1, WireAssoc
    <2> QED
      BY <1>8, <2>2, Zenon
  <1>12. sock' \o Tls(mid \o rest) = sock \o Tls(all)
    BY <1>7, <1>9, <1>11
  <1>13. tlsOut' = mid
    BY <1>2 DEF mid
  <1> QED
    BY <1>2, <1>3, <1>4, <1>5, <1>10, <1>12, <1>13 DEF all

\* So poll_drain changes nothing the server will see.
LEMMA DrainMoves ==
    ASSUME Buffers, Drain
    PROVE  Buffers' /\ Queue' = Queue /\ Len(tlsOut') <= TlsCap
  <1>1. PICK left \in 0..Len(outBuf) :
            /\ TlsTake(outBuf, left)
            /\ outBuf' = SubSeq(outBuf, Len(outBuf) - left + 1, Len(outBuf))
    BY DEF Drain
  <1> QED
    BY <1>1, TlsTakeMoves DEF Buffers, Queue

\* Cells handed to TLS behind an empty outBuf come at the end of the queue.
LEMMA TakenAtEnd ==
    ASSUME Buffers, outBuf = <<>>, NEW q \in Seq(CellSet), NEW left \in 0..Len(q),
           TlsTake(q, left), outBuf' = SubSeq(q, Len(q) - left + 1, Len(q))
    PROVE  /\ Buffers' /\ Len(tlsOut') <= TlsCap
           /\ Queue \in Seq(Wires) /\ Tls(q) \in Seq(Wires)
           /\ Queue' = Queue \o Tls(q)
  <1>1. /\ Buffers' /\ Len(tlsOut') <= TlsCap
        /\ Queue' = sock \o Tls(tlsOut \o q)
    BY TlsTakeMoves DEF Buffers, Queue
  <1>2. tlsOut \o outBuf = tlsOut
    BY ConcatEmptySeq DEF Buffers
  <1>3. /\ Tls(tlsOut) \in Seq(Wires) /\ Tls(q) \in Seq(Wires)
        /\ Tls(tlsOut \o q) = Tls(tlsOut) \o Tls(q)
    BY TlsType, TlsConcat DEF Buffers
  <1>4. sock \o (Tls(tlsOut) \o Tls(q)) = (sock \o Tls(tlsOut)) \o Tls(q)
    <2>1. sock \in Seq(Wires)
      BY DEF Buffers
    <2> QED
      BY <1>3, <2>1, WireAssoc
  <1>5. Queue \in Seq(Wires)
    BY <1>2, <1>3, ConcatProperties DEF Buffers, Queue
  <1> QED
    BY <1>1, <1>2, <1>3, <1>4, <1>5 DEF Queue

LEMMA QueueType ==
    ASSUME Buffers
    PROVE  Queue \in Seq(Wires)
  <1>1. tlsOut \o outBuf \in Seq(CellSet)
    BY ConcatProperties DEF Buffers
  <1>2. Tls(tlsOut \o outBuf) \in Seq(Wires)
    BY <1>1, TlsType
  <1> QED
    BY <1>2, ConcatProperties DEF Buffers, Queue

---------------------------------------------------------------------------
\* What the steps need of the types.
LEMMA Types ==
    ASSUME UInv
    PROVE  /\ padder \in Padders /\ padder.padding \in BOOLEAN /\ padder.direct \in BOOLEAN
           /\ padder.fresh \in BOOLEAN
           /\ handed \in Nat /\ MaxHanded \in Nat /\ Queue \in Seq(Wires)
           /\ Stage \in Stages /\ Expected \in Servers(handed)
  <1>1. handed \in Nat /\ handed \in 0..handed /\ MaxHanded \in Nat
    BY CapsAssumption DEF UInv, Flow, Limits
  <1>2. /\ padder \in Padders /\ padder.padding \in BOOLEAN /\ padder.direct \in BOOLEAN
        /\ padder.fresh \in BOOLEAN
    BY DEF UInv, Flow, PInv, Padders
  <1>3. Stage \in Stages
    BY DEF Stage, Stages, Cells
  <1>4. Expected \in Servers(handed)
    BY <1>1, <1>2, <1>3, ServerType DEF Expected
  <1> QED
    BY <1>1, <1>2, <1>3, <1>4, QueueType DEF UInv, Flow

\* A step that only moves the queue along leaves the server in step.
LEMMA MovedSynced ==
    ASSUME UInv, Queue' = Queue, UNCHANGED <<padder, handed, srv>>, Stage' = Stage
    PROVE  Synced'
  <1>1. Expected' = Expected
    BY DEF Expected
  <1> QED
    BY <1>1 DEF UInv, Flow, Synced

\* So does one whose cells take the server from what was expected of it to what is.
LEMMA ExtendedSynced ==
    ASSUME UInv, NEW q \in Seq(Wires), Queue' = Queue \o q, UNCHANGED srv,
           handed' \in Nat, handed <= handed', Run(handed', q, Expected, Expected')
    PROVE  Synced'
  <1>1. Queue \in Seq(Wires) /\ handed \in Nat
    BY Types
  <1>2. Run(handed', Queue, srv, Expected)
    BY <1>1, RunGrows DEF UInv, Flow, Synced
  <1>3. Run(handed', Queue \o q, srv, Expected')
    BY <1>1, <1>2, RunConcat
  <1> QED
    BY <1>3 DEF Synced

\* Behind an empty TLS there is nothing.
LEMMA NothingBehind ==
    ASSUME NEW s \in Seq(Wires)
    PROVE  s \o Tls(<<>> \o <<>>) = s
  <1>1. <<>> \o <<>> = <<>>
    OBVIOUS
  <1>2. Tls(<<>>) = <<>>
    BY DEF Tls
  <1>3. s \o <<>> = s
    BY ConcatEmptySeq
  <1> QED
    BY <1>1, <1>2, <1>3

LEMMA QueueIsSock ==
    ASSUME sock \in Seq(Wires), tlsOut = <<>>, outBuf = <<>>
    PROVE  Queue = sock
  BY NothingBehind DEF Queue

LEMMA TlsOne ==
    ASSUME NEW c \in CellSet
    PROVE  <<c>> \in Seq(CellSet) /\ Tls(<<c>>) = <<OnWire("tls", c)>> /\ Tls(<<c>>) \in Seq(Wires)
  <1>1. <<c>> \in Seq(CellSet) /\ Len(<<c>>) = 1 /\ <<c>>[1] = c
    OBVIOUS
  <1>2. Tls(<<c>>) = [i \in 1..1 |-> OnWire("tls", c)]
    BY <1>1 DEF Tls
  <1>3. OnWire("tls", c) \in Wires
    BY DEF OnWire, Wires
  <1>4. \A w \in Wires : [i \in 1..1 |-> w] = <<w>> /\ <<w>> \in Seq(Wires)
    OBVIOUS
  <1> QED
    BY <1>1, <1>2, <1>3, <1>4

LEMMA ControlCells == Header \in CellSet /\ Alert \in CellSet /\ Fin \in CellSet
  BY DEF Header, Alert, Fin, Cell, CellSet, Cells

\* The request header in front of the first frames.
LEMMA HeaderRun ==
    ASSUME NEW n \in Nat, NEW f \in BOOLEAN, NEW cells \in Seq(CellSet), NEW t,
           Run(n, Tls(cells), Server("head", FALSE, f, 0), t)
    PROVE  /\ <<Header>> \o cells \in Seq(CellSet)
           /\ Run(n, Tls(<<Header>> \o cells), Server("header", FALSE, f, 0), t)
  <1>1. /\ <<Header>> \in Seq(CellSet) /\ Tls(<<Header>>) = <<OnWire("tls", Header)>>
        /\ Tls(<<Header>>) \in Seq(Wires)
    BY ControlCells, TlsOne
  <1>2. Tls(cells) \in Seq(Wires)
    BY TlsType
  <1>3. Server("header", FALSE, f, 0) \in Servers(n) /\ Server("head", FALSE, f, 0) \in Servers(n)
    <2>1. 0 \in 0..n /\ "header" \in Stages /\ "head" \in Stages
      BY DEF Stages, Cells
    <2> QED
      BY <2>1, ServerType
  <1>4. Run(n, Tls(<<Header>>), Server("header", FALSE, f, 0), Server("head", FALSE, f, 0))
    BY <1>1, <1>3, ReadsHeader, RunOne
  <1>5. Run(n, Tls(<<Header>>) \o Tls(cells), Server("header", FALSE, f, 0), t)
    BY <1>1, <1>2, <1>4, RunConcat
  <1> QED
    BY <1>1, <1>5, TlsConcat, ConcatProperties

LEMMA CamouflageRun ==
    ASSUME NEW pd \in Padders
    PROVE  /\ Camouflage(pd) \in Seq(CellSet)
           /\ Run(0, Tls(Camouflage(pd)), Server("head", FALSE, pd.fresh, 0),
                  Server("head", FALSE, FALSE, 0))
  <1> DEFINE a == Cell("head", "CONTINUE", pd.fresh, 0)
             b == Cell("tail", "CONTINUE", FALSE, 0)
  <1>1. pd.fresh \in BOOLEAN
    BY DEF Padders
  <1>2. a \in CellSet /\ b \in CellSet
    BY <1>1 DEF Cell, CellSet, Cells
  <1>3. Camouflage(pd) = <<a>> \o <<b>>
    <2>1. Camouflage(pd) = <<a, b>>
      BY DEF Camouflage, Frame
    <2>2. \A c, d \in CellSet : <<c, d>> = <<c>> \o <<d>>
      <3>1. ASSUME NEW c \in CellSet, NEW d \in CellSet PROVE <<c, d>> = <<c>> \o <<d>>
        <4>1. /\ <<c, d>> \in Seq(CellSet) /\ <<c>> \in Seq(CellSet) /\ <<d>> \in Seq(CellSet)
              /\ Len(<<c, d>>) = 2 /\ Len(<<c>>) = 1 /\ Len(<<d>>) = 1
          OBVIOUS
        <4>2. <<c>> \o <<d>> \in Seq(CellSet) /\ Len(<<c>> \o <<d>>) = 2
              /\ (<<c>> \o <<d>>)[1] = c /\ (<<c>> \o <<d>>)[2] = d
          OBVIOUS
        <4>3. \A i \in 1..2 : <<c, d>>[i] = (<<c>> \o <<d>>)[i]
          BY <4>2
        <4> QED
          BY <4>1, <4>2, <4>3, SeqEqual
      <3> QED
        BY <3>1
    <2> QED
      BY <1>2, <2>1, <2>2
  <1>4. /\ Server("head", FALSE, pd.fresh, 0) \in Servers(0)
        /\ Server("tail", FALSE, FALSE, 0) \in Servers(0)
        /\ Server("head", FALSE, FALSE, 0) \in Servers(0)
    <2>1. 0 \in 0..0 /\ "head" \in Stages /\ "tail" \in Stages /\ 0 \in Nat
      BY DEF Stages, Cells
    <2> QED
      BY <1>1, <2>1, ServerType
  <1>5. Reads(Server("head", FALSE, pd.fresh, 0), OnWire("tls", a), Server("tail", FALSE, FALSE, 0))
    BY <1>1, ReadsHead
  <1>6. Reads(Server("tail", FALSE, FALSE, 0), OnWire("tls", b), Server("head", FALSE, FALSE, 0))
    <2>1. 0 \in {0, 0 + 1} /\ "CONTINUE" \in {"CONTINUE", "END", "DIRECT"} /\ FALSE \in BOOLEAN
      OBVIOUS
    <2>2. Reads(Server("tail", FALSE, FALSE, 0), OnWire("tls", Cell("tail", "CONTINUE", FALSE, 0)),
                Server(IF "CONTINUE" = "CONTINUE" THEN "head" ELSE "plain", "CONTINUE" = "DIRECT", FALSE,
                       IF 0 = 0 THEN 0 ELSE 0 + 1))
      BY <2>1, ReadsTail
    <2>3. ("CONTINUE" = "DIRECT") = FALSE
      OBVIOUS
    <2> QED
      BY <2>2, <2>3
  <1> HIDE DEF a, b
  <1>7. /\ Tls(<<a>>) = <<OnWire("tls", a)>> /\ Tls(<<a>>) \in Seq(Wires) /\ <<a>> \in Seq(CellSet)
        /\ Tls(<<b>>) = <<OnWire("tls", b)>> /\ Tls(<<b>>) \in Seq(Wires) /\ <<b>> \in Seq(CellSet)
    BY <1>2, TlsOne
  <1>8. /\ Run(0, Tls(<<a>>), Server("head", FALSE, pd.fresh, 0), Server("tail", FALSE, FALSE, 0))
        /\ Run(0, Tls(<<b>>), Server("tail", FALSE, FALSE, 0), Server("head", FALSE, FALSE, 0))
    BY <1>4, <1>5, <1>6, <1>7, RunOne
  <1>9. Run(0, Tls(<<a>>) \o Tls(<<b>>), Server("head", FALSE, pd.fresh, 0), Server("head", FALSE, FALSE, 0))
    BY <1>7, <1>8, RunConcat
  <1> QED
    BY <1>3, <1>7, <1>9, TlsConcat, ConcatProperties

---------------------------------------------------------------------------
\* Sniffing only uses the budget up.
LEMMA BudgetFalls ==
    ASSUME NEW ts \in Traffics, NEW p \in Packets
    PROVE  Filter(ts, p).budget <= ts.budget
  <1> DEFINE less == [ts EXCEPT !.budget = @ - 1]
             seen == SeeHello(less, p)
  <1>1. CASE ts.budget <= 0
    BY <1>1 DEF Filter, Exhausted, Traffics
  <1>2. CASE ts.budget > 0
    <2>1. less.budget = ts.budget - 1 /\ less.budget \in Nat
      BY <1>2 DEF Traffics
    <2>2. seen.budget = less.budget
      <3>1. /\ DOMAIN less = {"budget", "isTls", "tls12", "xtls", "cipher", "rsh"}
        BY DEF Traffics
      <3> HIDE DEF less
      <3> QED
        BY <3>1 DEF SeeHello
    <2>3. DOMAIN seen = {"budget", "isTls", "tls12", "xtls", "cipher", "rsh"}
      <3>1. /\ DOMAIN less = {"budget", "isTls", "tls12", "xtls", "cipher", "rsh"}
        BY DEF Traffics
      <3> HIDE DEF less
      <3> QED
        BY <3>1 DEF SeeHello
    <2> HIDE DEF seen
    <2>4. ScanServerHello(seen, p).budget \in {0, seen.budget}
      BY <2>3 DEF ScanServerHello
    <2>5. Filter(ts, p) = IF seen.rsh > 0 THEN ScanServerHello(seen, p) ELSE seen
      BY <1>2 DEF Filter, Exhausted, seen, Traffics
    <2>6. Filter(ts, p) \in {seen, ScanServerHello(seen, p)}
      BY <2>5
    <2> QED
      BY <2>1, <2>2, <2>4, <2>6 DEF Traffics
  <1> QED
    BY <1>1, <1>2 DEF Traffics

\* What the two writes that frame have in common: the verdict on the packet and
\* the frames it becomes.
LEMMA FramedWrite ==
    ASSUME UInv, padder.padding, ~padder.direct, NEW p \in Packets, p.pieces # <<>>,
           NEW ts, ts = Filter(traffic, p), padder' = Padded(ts, padder, p)
    PROVE  /\ ts.budget <= FilterPackets /\ Len(p.pieces) \in Nat \ {0}
           /\ ~padder'.fresh
           /\ PadCells(ts, padder, p, handed) \in Seq(CellSet)
           /\ Run(handed + Len(p.pieces), Tls(PadCells(ts, padder, p, handed)),
                  Server("head", FALSE, padder.fresh, handed),
                  Server(IF padder'.padding THEN "head" ELSE "plain", padder'.direct,
                         padder'.fresh, handed + Len(p.pieces)))
  <1>1. /\ ts \in Traffics /\ Verdict(ts)
        /\ traffic \in Traffics /\ traffic.budget <= FilterPackets
    BY FilterKeeps DEF UInv, PInv, Flow, Limits
  <1>2. ts.budget <= FilterPackets
    BY <1>1, BudgetFalls, FilterPacketsAssumption DEF Traffics
  <1>3. padder'.fresh = FALSE
    BY DEF Padded
  <1>4. Len(p.pieces) \in Nat \ {0}
    <2>1. p.pieces \in Seq(BOOLEAN)
      BY DEF Packets
    <2> QED
      BY <2>1
  <1> QED
    BY <1>1, <1>2, <1>3, <1>4, Types, PadRun

\* write_first (vision.rs:412-427).
LEMMA WriteFirstFlow ==
    ASSUME UInv, WriteFirst
    PROVE  Flow'
  <1>1. /\ wpc = "first" /\ outBuf = <<>> /\ tlsOut = <<>> /\ ~raw /\ handed = 0
        /\ padder.padding /\ ~padder.direct /\ wpc' = "firstOut"
        /\ UNCHANGED <<raw, tlsOut, sock, cur, srv>>
    BY DEF WriteFirst, UInv, Flow, Modes
  <1>2. Expected = Server("header", FALSE, padder.fresh, 0) /\ padder.fresh \in BOOLEAN
    BY <1>1, Types DEF Expected, Stage
  <1>3. Queue = sock
    BY <1>1, QueueIsSock DEF UInv, Flow, Buffers
  <1>4. ASSUME NEW cells \in Seq(CellSet), outBuf' = <<Header>> \o cells,
               handed' \in Nat, handed' <= MaxHanded, ~padder'.fresh,
               traffic'.budget <= FilterPackets,
               Run(handed', Tls(cells), Server("head", FALSE, padder.fresh, 0),
                   Server(IF padder'.padding THEN "head" ELSE "plain", padder'.direct,
                          padder'.fresh, handed'))
        PROVE  Flow'
    <2>1. Expected' = Server(IF padder'.padding THEN "head" ELSE "plain", padder'.direct,
                             padder'.fresh, handed')
      BY <1>1 DEF Expected, Stage
    <2>2. outBuf' \in Seq(CellSet) /\ Run(handed', Tls(outBuf'), Expected, Expected')
      BY <1>2, <1>4, <2>1, HeaderRun
    <2>3. Queue' = Queue \o Tls(outBuf')
      <3>1. tlsOut' \o outBuf' = outBuf'
        BY <1>1, <2>2, ConcatEmptySeq
      <3> QED
        BY <1>1, <1>3, <3>1 DEF Queue
    <2>4. Buffers'
      BY <1>1, <2>2 DEF Buffers, UInv, Flow
    <2>5. Synced'
      <3>1. Tls(outBuf') \in Seq(Wires)
        BY <2>2, TlsType
      <3>2. handed <= handed' /\ UNCHANGED srv
        BY <1>1, <1>4
      <3> QED
        BY <1>4, <2>2, <2>3, <3>1, <3>2, ExtendedSynced
    <2>6. Limits'
      BY <1>1, <1>4 DEF Limits, UInv, Flow, Writer
    <2>7. Modes'
      BY <1>1, <1>4 DEF Modes, UInv, Flow
    <2> QED
      BY <2>4, <2>5, <2>6, <2>7 DEF Flow
  <1>5. CASE /\ outBuf' = <<Header>> \o Camouflage(padder)
             /\ padder' = [padder EXCEPT !.fresh = FALSE]
             /\ UNCHANGED <<traffic, handed>>
    <2>1. padder'.padding /\ ~padder'.direct /\ padder'.direct \in BOOLEAN /\ padder'.fresh = FALSE
      BY <1>1, <1>5, Types DEF Padders
    <2>2. handed' = 0 /\ handed' <= MaxHanded /\ traffic'.budget <= FilterPackets
      BY <1>1, <1>5, Types DEF UInv, Flow, Limits
    <2>3. Server(IF padder'.padding THEN "head" ELSE "plain", padder'.direct, padder'.fresh, handed')
            = Server("head", FALSE, FALSE, 0)
      BY <2>1, <2>2
    <2>4. /\ Camouflage(padder) \in Seq(CellSet)
          /\ Run(0, Tls(Camouflage(padder)), Server("head", FALSE, padder.fresh, 0),
                  Server("head", FALSE, FALSE, 0))
      BY Types, CamouflageRun
    <2>5. Run(handed', Tls(Camouflage(padder)), Server("head", FALSE, padder.fresh, 0),
              Server(IF padder'.padding THEN "head" ELSE "plain", padder'.direct, padder'.fresh, handed'))
      BY <2>2, <2>3, <2>4
    <2>6. handed' \in Nat /\ ~padder'.fresh
      BY <2>1, <2>2
    <2> QED
      BY <1>4, <1>5, <2>2, <2>4, <2>5, <2>6
  <1>6. ASSUME NEW p \in UpPackets, NEW ts, ts = Filter(traffic, p), Len(p.pieces) <= MaxHanded,
               traffic' = ts, outBuf' = <<Header>> \o PadCells(ts, padder, p, 0),
               padder' = Padded(ts, padder, p), handed' = Len(p.pieces)
        PROVE  Flow'
    <2>1. p \in Packets /\ p.pieces # <<>>
      BY <1>6, PacketsAssumption DEF PacketOK
    <2>2. handed + Len(p.pieces) = Len(p.pieces) /\ Len(p.pieces) \in Nat
      BY <1>1, <1>6, <2>1, FramedWrite
    <2> QED
      BY <1>1, <1>4, <1>6, <2>1, <2>2, FramedWrite
  <1> QED
    BY <1>5, <1>6 DEF WriteFirst

---------------------------------------------------------------------------
\* The writer is past the first write and not yet at the end.
Running == Writer \ {"first", "closing", "closed"}

\* The calls that drain what is already framed, and may go raw once it is out.
LEMMA DrainFlow ==
    ASSUME UInv, Drain, ~raw, wpc \in Running, wpc' \in Running,
           raw' \in BOOLEAN, raw' => padder.direct /\ Flushed, wpc' = "firstOut" => ~raw',
           UNCHANGED <<traffic, padder, cur, handed, srv>>,
           wpc' = "write" <=> wpc = "write"
    PROVE  Flow'
  <1>1. Buffers' /\ Queue' = Queue /\ Len(tlsOut') <= TlsCap
    BY DrainMoves DEF UInv, Flow
  <1>2. Stage' = Stage
    BY DEF Stage, Running, Writer
  <1>3. Synced'
    BY <1>1, <1>2, MovedSynced
  <1>4. Limits'
    BY <1>1, Zenon DEF UInv, Flow, Limits, Running, Writer
  <1>5. Modes'
    BY DEF UInv, Flow, Modes, Running, Writer, Flushed
  <1> QED
    BY <1>1, <1>3, <1>4, <1>5 DEF Flow

LEMMA LimitsHold ==
    ASSUME traffic'.budget <= FilterPackets, handed' \in Nat, handed' <= MaxHanded,
           raw' \in BOOLEAN, wpc' \in Running, Len(tlsOut') <= TlsCap,
           cur' # <<>> <=> wpc' = "write",
           wpc' = "write" => cur'[1].pieces # <<>> /\ handed' + Len(cur'[1].pieces) <= MaxHanded
    PROVE  Limits'
  <1>1. handed' \in 0..MaxHanded
    BY CapsAssumption
  <1>2. wpc' \in Writer /\ wpc' \notin {"closing", "closed"}
    BY DEF Running
  <1> QED
    BY <1>1, <1>2, Zenon DEF Limits

\* poll_write while padding.
LEMMA WritePaddedFlow ==
    ASSUME UInv, WritePadded
    PROVE  Flow'
  <1> DEFINE p == cur[1]
             ts == Filter(traffic, p)
             cells == PadCells(ts, padder, p, handed)
  <1>1. /\ p \in Packets /\ Head(cur) = p /\ wpc = "write" /\ padder.padding
        /\ p.pieces # <<>> /\ handed + Len(p.pieces) <= MaxHanded
    BY DEF WritePadded, UInv, PInv, Held, Flow, Limits
  <1>2. /\ ~padder.direct /\ ~raw /\ outBuf = <<>> /\ ~padder.fresh
    BY <1>1 DEF WritePadded, Unsettled, UInv, PInv, DirectMeansTls13, Flow, Modes
  <1>3. /\ traffic' = ts /\ padder' = Padded(ts, padder, p)
        /\ handed' = handed + Len(p.pieces)
        /\ raw' = (raw \/ (padder'.direct /\ MaySwitch))
        /\ cur' = <<>> /\ wpc' \in AfterWrite /\ UNCHANGED srv
    BY <1>1 DEF WritePadded
  <1>4. PICK left \in 0..Len(cells) :
            /\ TlsTake(cells, left)
            /\ outBuf' = SubSeq(cells, Len(cells) - left + 1, Len(cells))
    BY <1>1 DEF WritePadded
  <1>5. /\ ts.budget <= FilterPackets /\ Len(p.pieces) \in Nat \ {0}
        /\ ~padder'.fresh
        /\ cells \in Seq(CellSet)
        /\ Run(handed', Tls(cells),
               Server("head", FALSE, padder.fresh, handed),
               Server(IF padder'.padding THEN "head" ELSE "plain", padder'.direct,
                      padder'.fresh, handed'))
    BY <1>1, <1>2, <1>3, FramedWrite
  <1> HIDE DEF p, ts, cells
  <1>6. /\ Buffers' /\ Len(tlsOut') <= TlsCap /\ Tls(cells) \in Seq(Wires)
        /\ Queue' = Queue \o Tls(cells)
    BY <1>2, <1>4, <1>5, TakenAtEnd DEF UInv, Flow
  <1>7. wpc' \in {"flush", "unflushed"}
    BY <1>3 DEF AfterWrite
  <1>8. Expected = Server("head", FALSE, padder.fresh, handed)
    BY <1>1, <1>2, Types DEF Expected, Stage
  <1>9. Expected' = Server(IF padder'.padding THEN "head" ELSE "plain", padder'.direct,
                           padder'.fresh, handed')
    BY <1>7 DEF Expected, Stage
  <1>10. handed \in Nat /\ handed' \in Nat /\ handed <= handed' /\ handed' <= MaxHanded
    BY <1>1, <1>3, <1>5, Types
  <1>11. Synced'
    BY <1>3, <1>5, <1>6, <1>8, <1>9, <1>10, ExtendedSynced
  <1>12. raw' \in BOOLEAN /\ (raw' => padder'.direct /\ Flushed)
    BY <1>2, <1>3 DEF MaySwitch
  <1>13. Limits'
    <2>1. wpc' \in Running /\ wpc' # "write" /\ traffic'.budget <= FilterPackets
      BY <1>3, <1>5, <1>7 DEF Running, Writer
    <2> QED
      BY <1>3, <1>6, <1>10, <1>12, <2>1, LimitsHold
  <1>14. Modes'
    BY <1>5, <1>7, <1>12 DEF Modes, Flushed
  <1> QED
    BY <1>6, <1>11, <1>13, <1>14 DEF Flow

\* What is left of a packet has a piece left.
LEMMA RestPieces ==
    ASSUME NEW p \in Packets, NEW k \in 0..Len(p.pieces), k < Len(p.pieces)
    PROVE  LET q == IF k = 0 THEN p ELSE Rest(p, k)
           IN  q.pieces # <<>> /\ Len(q.pieces) = Len(p.pieces) - k
  <1> DEFINE tail == SubSeq(p.pieces, k + 1, Len(p.pieces))
  <1>1. p.pieces \in Seq(BOOLEAN) /\ Len(p.pieces) \in Nat
    BY DEF Packets
  <1>2. tail \in Seq(BOOLEAN) /\ Len(tail) = Len(p.pieces) - k
    BY <1>1
  <1>3. Rest(p, k).pieces = tail
    BY DEF Rest, Packets
  <1>4. p.pieces # <<>> /\ tail # <<>>
    <2> HIDE DEF tail
    <2>1. Len(<<>>) = 0 /\ Len(p.pieces) > 0 /\ Len(tail) > 0
      BY <1>1, <1>2
    <2> QED
      BY <2>1
  <1> HIDE DEF tail
  <1> QED
    BY <1>1, <1>2, <1>3, <1>4

\* poll_write after padding, through TLS or raw.
LEMMA WritePlainFlow ==
    ASSUME UInv, WritePlain
    PROVE  Flow'
  <1> DEFINE p == cur[1]
             len == Len(p.pieces)
  <1>1. /\ p \in Packets /\ Head(cur) = p /\ wpc = "write" /\ ~padder.padding
        /\ p.pieces # <<>> /\ handed + len <= MaxHanded /\ len \in Nat
        /\ UNCHANGED <<padder, raw, outBuf, srv>> /\ traffic' = Filter(traffic, p)
    <2>1. p \in Packets /\ Head(cur) = p
      BY DEF WritePlain, UInv, PInv, Held
    <2>2. len \in Nat
      BY <2>1 DEF Packets
    <2> QED
      BY <2>1, <2>2 DEF WritePlain, UInv, Flow, Limits
  <1>2. outBuf = <<>> /\ raw = padder.direct /\ padder.fresh = FALSE
    BY <1>1, Types DEF WritePlain, Unsettled, UInv, Flow, Modes, Limits
  <1>3. PICK k \in 0..len :
            LET data == [i \in 1..k |-> Plain(handed + i)]
            IN  /\ \/ ~raw /\ TlsTake(data, 0)
                   \/ /\ raw /\ k <= Room
                      /\ sock' = sock \o [i \in 1..k |-> OnWire("raw", data[i])]
                      /\ UNCHANGED tlsOut
                /\ handed' = handed + k
                /\ \/ /\ k = len
                      /\ cur' = <<>> /\ wpc' \in AfterWrite
                   \/ /\ k < len
                      /\ cur' = <<IF k = 0 THEN p ELSE Rest(p, k)>>
                      /\ UNCHANGED wpc
    BY <1>1 DEF WritePlain
  <1> DEFINE data == [i \in 1..k |-> Plain(handed + i)]
             mode == IF raw THEN "raw" ELSE "tls"
             q == [i \in 1..k |-> OnWire(mode, Plain(handed + i))]
  <1>4. /\ k \in Nat /\ handed \in Nat /\ handed' = handed + k /\ handed' \in Nat
        /\ handed <= handed' /\ handed' <= MaxHanded /\ handed + k <= handed'
    BY <1>1, <1>3, Types
  <1>5. data \in Seq(CellSet) /\ Len(data) = k /\ \A i \in 1..k : data[i] = Plain(handed + i)
    <2>1. \A i \in 1..k : Plain(handed + i) \in CellSet
      BY <1>4, PlainCell
    <2> QED
      BY <1>4, <2>1
  <1>6. /\ q \in Seq(Wires) /\ Len(q) = k
        /\ \A i \in 1..k : q[i] = OnWire(mode, Plain(handed + i))
    <2>1. \A i \in 1..k : OnWire(mode, Plain(handed + i)) \in Wires
      BY <1>4, PlainCell DEF OnWire, Wires
    <2> QED
      BY <1>4, <2>1
  <1>7. Buffers' /\ Queue' = Queue \o q /\ Len(tlsOut') <= TlsCap
        /\ (raw => tlsOut' = <<>>)
    <2>1. CASE ~raw
      <3>1. TlsTake(data, 0)
        BY <1>3, <2>1
      <3>2. q = Tls(data)
        BY <1>5, <2>1 DEF Tls
      <3>3. outBuf' = SubSeq(data, Len(data) - 0 + 1, Len(data)) /\ 0 \in 0..Len(data)
        <4> HIDE DEF data
        <4>1. SubSeq(data, Len(data) - 0 + 1, Len(data)) = <<>>
          BY <1>4, <1>5, SubSeqEmpty
        <4> QED
          BY <1>1, <1>2, <1>4, <1>5, <4>1
      <3> HIDE DEF data, q
      <3> QED
        BY <1>2, <1>5, <2>1, <3>1, <3>2, <3>3, TakenAtEnd DEF UInv, Flow
    <2>2. CASE raw
      <3>1. k <= Room /\ sock' = sock \o [i \in 1..k |-> OnWire("raw", data[i])] /\ UNCHANGED tlsOut
        BY <1>3, <2>2
      <3>2. [i \in 1..k |-> OnWire("raw", data[i])] = q
        BY <1>5, <2>2
      <3>3. tlsOut = <<>> /\ outBuf = <<>> /\ sock \in Seq(Wires) /\ Len(sock) <= SockCap
            /\ SockCap \in Nat /\ TlsCap \in Nat /\ Len(sock) \in Nat
        BY <2>2, CapsAssumption DEF UInv, Flow, Modes, Buffers
      <3> HIDE DEF data, q
      <3>4. sock' = sock \o q /\ sock' \in Seq(Wires) /\ Len(sock') = Len(sock) + k
        BY <1>6, <3>1, <3>2, <3>3, ConcatProperties
      <3>5. Len(sock') <= SockCap
        BY <1>4, <3>1, <3>3, <3>4 DEF Room
      <3>6. tlsOut' = <<>> /\ outBuf' = <<>> /\ Len(<<>>) = 0
        BY <1>1, <3>1, <3>3
      <3>7. Queue = sock /\ Queue' = sock'
        BY <3>3, <3>4, <3>6, NothingBehind DEF Queue
      <3> QED
        BY <3>3, <3>4, <3>5, <3>6, <3>7 DEF Buffers
    <2> QED
      BY <2>1, <2>2
  <1>8. wpc' \in {"write", "flush", "unflushed"}
    BY <1>1, <1>3 DEF AfterWrite
  <1>9. /\ Expected = Server("plain", padder.direct, FALSE, handed)
        /\ Expected' = Server("plain", padder.direct, FALSE, handed + k)
    BY <1>1, <1>2, <1>4, <1>8, Zenon DEF Expected, Stage
  <1>10. padder.direct \in BOOLEAN /\ mode = IF padder.direct THEN "raw" ELSE "tls"
    BY <1>2, Types
  <1>11. Run(handed', q, Expected, Expected')
    <2> HIDE DEF q, mode
    <2> QED
      BY <1>4, <1>6, <1>9, <1>10, PlainRun
  <1>12. Synced'
    <2> HIDE DEF q
    <2> QED
      BY <1>1, <1>4, <1>6, <1>7, <1>11, ExtendedSynced
  <1>13. traffic'.budget <= FilterPackets
    <2>1. traffic \in Traffics /\ traffic'.budget <= traffic.budget /\ traffic' \in Traffics
          /\ traffic.budget <= FilterPackets
      BY <1>1, BudgetFalls, FilterKeeps DEF UInv, PInv, Flow, Limits
    <2> QED
      BY <2>1, FilterPacketsAssumption DEF Traffics
  <1>14. /\ cur' # <<>> <=> wpc' = "write"
         /\ wpc' = "write" => cur'[1].pieces # <<>> /\ handed' + Len(cur'[1].pieces) <= MaxHanded
    <2>1. CASE k = len /\ cur' = <<>> /\ wpc' \in AfterWrite
      BY <2>1 DEF AfterWrite
    <2>2. CASE k < len /\ cur' = <<IF k = 0 THEN p ELSE Rest(p, k)>> /\ wpc' = wpc
      <3> DEFINE r == IF k = 0 THEN p ELSE Rest(p, k)
      <3>1. r.pieces # <<>> /\ Len(r.pieces) = len - k
        BY <1>1, <2>2, RestPieces
      <3>2. cur' # <<>> /\ cur'[1] = r
        BY <2>2
      <3> HIDE DEF r
      <3> QED
        BY <1>1, <1>4, <2>2, <3>1, <3>2
    <2> QED
      BY <1>3, <2>1, <2>2
  <1> HIDE DEF data, q, mode, p, len
  <1>15. Limits'
    <2>1. wpc' \in Running /\ raw' \in BOOLEAN
      BY <1>1, <1>8 DEF Running, Writer, UInv, Flow, Limits
    <2> QED
      BY <1>4, <1>7, <1>13, <1>14, <2>1, LimitsHold
  <1>16. Modes'
    BY <1>1, <1>2, <1>7, <1>8 DEF UInv, Flow, Modes
  <1> QED
    BY <1>7, <1>12, <1>15, <1>16 DEF Flow

---------------------------------------------------------------------------
LEMMA SettleFlow ==
    ASSUME UInv, Settle, ~raw, wpc \in Running \ {"firstOut"}, wpc' \in Running \ {"firstOut"},
           UNCHANGED <<traffic, padder, cur, handed, srv>>,
           wpc' = "write" <=> wpc = "write"
    PROVE  Flow'
  <1>1. Drain /\ raw' = (raw \/ (padder.direct /\ MaySwitch))
    BY DEF Settle
  <1>2. raw' \in BOOLEAN /\ (raw' => padder.direct /\ Flushed)
    BY <1>1 DEF MaySwitch
  <1> QED
    BY <1>1, <1>2, DrainFlow

LEMMA FirstOutFlow ==
    ASSUME UInv, FirstOut
    PROVE  Flow'
  <1>1. /\ Drain /\ ~raw /\ UNCHANGED <<traffic, padder, raw, cur, handed, srv>>
        /\ wpc = "firstOut" /\ wpc' \in {"firstOut", "ready"}
    BY DEF FirstOut, UInv, Flow, Modes
  <1>2. wpc \in Running /\ wpc' \in Running /\ (wpc' = "write" <=> wpc = "write")
    BY <1>1 DEF Running, Writer
  <1>3. raw' = FALSE
    BY <1>1 DEF UInv, Flow, Limits
  <1> QED
    BY <1>1, <1>2, <1>3, DrainFlow

LEMMA SettlingFlow ==
    ASSUME UInv, WriteSettle \/ ShutdownSettle
    PROVE  Flow'
  <1>1. /\ Settle /\ ~raw /\ UNCHANGED <<traffic, padder, cur, handed, wpc, srv>>
        /\ wpc \in {"write", "shutdown"}
    BY DEF WriteSettle, ShutdownSettle, Unsettled, UInv, Flow, Modes
  <1>2. wpc \in Running \ {"firstOut"}
    BY <1>1 DEF Running, Writer
  <1> QED
    BY <1>1, <1>2, SettleFlow

\* Steps that leave the buffers, the padder and the server alone.
LEMMA IdleFlow ==
    ASSUME UInv, wpc \in Running \ {"firstOut"}, wpc' \in Running \ {"firstOut"},
           UNCHANGED <<padder, raw, outBuf, tlsOut, sock, handed, srv>>,
           traffic'.budget <= FilterPackets,
           cur' # <<>> <=> wpc' = "write",
           wpc' = "write" => cur'[1].pieces # <<>> /\ handed' + Len(cur'[1].pieces) <= MaxHanded
    PROVE  Flow'
  <1>1. Queue' = Queue /\ Buffers'
    BY DEF UInv, Flow, Buffers, Queue
  <1>2. Stage' = Stage
    BY DEF Stage, Running, Writer
  <1>3. Synced'
    BY <1>1, <1>2, MovedSynced
  <1>4. Limits'
    <2>1. /\ handed' \in Nat /\ handed' <= MaxHanded /\ raw' \in BOOLEAN
          /\ Len(tlsOut') <= TlsCap
      BY CapsAssumption DEF UInv, Flow, Limits, Running
    <2> QED
      BY <2>1, LimitsHold
  <1>5. Modes'
    BY DEF UInv, Flow, Modes, Running
  <1> QED
    BY <1>1, <1>3, <1>4, <1>5 DEF Flow

LEMMA FlushFlow ==
    ASSUME UInv, Flush
    PROVE  Flow'
  <1>1. /\ wpc = "flush" /\ wpc' \in {"flush", "ready"}
        /\ UNCHANGED <<traffic, padder, cur, handed, srv>>
    BY DEF Flush
  <1>2. /\ wpc \in Running \ {"firstOut"} /\ wpc' \in Running \ {"firstOut"}
        /\ wpc # "write" /\ wpc' # "write"
    BY <1>1 DEF Running, Writer
  <1>3. CASE ~raw /\ Settle
    BY <1>1, <1>2, <1>3, SettleFlow
  <1>4. CASE UNCHANGED <<raw, outBuf, tlsOut, sock>>
    <2>1. traffic'.budget <= FilterPackets /\ (cur' # <<>> <=> wpc' = "write")
      BY <1>1, <1>2 DEF UInv, Flow, Limits
    <2> QED
      BY <1>1, <1>2, <1>4, <2>1, IdleFlow
  <1> QED
    BY <1>3, <1>4 DEF Flush

LEMMA PumpFlow ==
    ASSUME UInv, PumpRead \/ PumpEof
    PROVE  Flow'
  <1>1. /\ wpc \in {"ready", "unflushed"} /\ wpc' \in {"write", "shutdown"}
        /\ UNCHANGED <<traffic, padder, raw, outBuf, tlsOut, sock, handed, srv>>
    BY DEF PumpRead, PumpEof
  <1>2. wpc \in Running \ {"firstOut"} /\ wpc' \in Running \ {"firstOut"}
    BY <1>1 DEF Running, Writer
  <1>3. traffic'.budget <= FilterPackets
    BY <1>1 DEF UInv, Flow, Limits
  <1>4. CASE PumpRead
    <2>1. PICK p \in UpPackets : handed + Len(p.pieces) <= MaxHanded /\ cur' = <<p>>
      BY <1>4 DEF PumpRead
    <2>2. p.pieces # <<>> /\ cur' # <<>> /\ cur'[1] = p /\ wpc' = "write"
      BY <1>4, <2>1, PacketsAssumption DEF PumpRead, PacketOK
    <2> QED
      BY <1>1, <1>2, <1>3, <2>1, <2>2, IdleFlow
  <1>5. CASE PumpEof
    <2>1. (cur' # <<>> <=> wpc' = "write") /\ wpc' # "write"
      BY <1>1, <1>5 DEF PumpEof, UInv, Flow, Limits
    <2> QED
      BY <1>1, <1>2, <1>3, <2>1, IdleFlow
  <1> QED
    BY <1>4, <1>5

LEMMA SniffFlow ==
    ASSUME UInv, SniffDownlink
    PROVE  Flow'
  <1>1. UNCHANGED <<padder, raw, outBuf, tlsOut, sock, cur, handed, wpc, srv>>
    BY DEF SniffDownlink
  <1>2. PICK p \in DownPackets : traffic' = Filter(traffic, p)
    BY DEF SniffDownlink
  <1>3. traffic'.budget <= FilterPackets
    <2>1. traffic \in Traffics /\ traffic'.budget <= traffic.budget /\ traffic' \in Traffics
          /\ traffic.budget <= FilterPackets
      BY <1>2, BudgetFalls, FilterKeeps, PacketsAssumption DEF UInv, PInv, Flow, Limits, PacketOK
    <2> QED
      BY <2>1, FilterPacketsAssumption DEF Traffics
  <1>4. Queue' = Queue /\ Buffers' /\ Stage' = Stage
    BY <1>1 DEF UInv, Flow, Buffers, Queue, Stage
  <1>5. Synced'
    BY <1>1, <1>4, MovedSynced
  <1>6. Limits' /\ Modes'
    BY <1>1, <1>3 DEF UInv, Flow, Limits, Modes
  <1> QED
    BY <1>4, <1>5, <1>6 DEF Flow

---------------------------------------------------------------------------
\* The end of the stream: one more cell, in the mode the server is in.

LEMMA ShutdownTlsFlow ==
    ASSUME UInv, ShutdownTls
    PROVE  Flow'
  <1>1. /\ wpc = "shutdown" /\ ~raw /\ outBuf = <<>> /\ ~padder.direct
        /\ tlsOut' = Append(tlsOut, Alert) /\ wpc' = "closing"
        /\ UNCHANGED <<traffic, padder, raw, outBuf, sock, cur, handed, srv>>
        /\ tlsOut \in Seq(CellSet) /\ Len(tlsOut) <= TlsCap /\ TlsCap \in Nat
        /\ sock \in Seq(Wires)
    BY CapsAssumption DEF ShutdownTls, Unsettled, UInv, Flow, Limits, Buffers
  <1>2. /\ <<Alert>> \in Seq(CellSet) /\ Tls(<<Alert>>) = <<OnWire("tls", Alert)>>
        /\ Tls(<<Alert>>) \in Seq(Wires)
    BY ControlCells, TlsOne
  <1>3. /\ tlsOut' \in Seq(CellSet) /\ Len(tlsOut') = Len(tlsOut) + 1
        /\ tlsOut' = tlsOut \o <<Alert>>
    BY <1>1, ControlCells, AppendProperties, AppendIsConcat
  <1>4. Queue' = Queue \o <<OnWire("tls", Alert)>>
    <2>1. tlsOut' \o outBuf' = tlsOut' /\ tlsOut \o outBuf = tlsOut
      BY <1>1, <1>3, ConcatEmptySeq
    <2>2. Tls(tlsOut') = Tls(tlsOut) \o Tls(<<Alert>>) /\ Tls(tlsOut) \in Seq(Wires)
      BY <1>1, <1>2, <1>3, TlsConcat, TlsType
    <2>3. sock \o (Tls(tlsOut) \o Tls(<<Alert>>)) = (sock \o Tls(tlsOut)) \o Tls(<<Alert>>)
      <3>1. sock \in Seq(Wires) /\ Tls(tlsOut) \in Seq(Wires) /\ Tls(<<Alert>>) \in Seq(Wires)
        BY <1>1, <1>2, <2>2
      <3> QED
        BY <3>1, WireAssoc, Zenon
    <2> QED
      BY <1>1, <1>2, <2>1, <2>2, <2>3 DEF Queue
  <1>5. /\ Expected = Server(IF padder.padding THEN "head" ELSE "plain", FALSE, padder.fresh, handed)
        /\ Expected' = Server("closed", FALSE, padder.fresh, handed)
    BY <1>1, Types DEF Expected, Stage
  <1>6. /\ handed \in Nat /\ handed \in 0..handed /\ padder.fresh \in BOOLEAN
        /\ Expected \in Servers(handed) /\ "closed" \in Stages
    BY Types DEF Stages
  <1>7. Expected' \in Servers(handed)
    BY <1>5, <1>6, ServerType
  <1>8. Run(handed', <<OnWire("tls", Alert)>>, Expected, Expected')
    <2>1. (IF padder.padding THEN "head" ELSE "plain") \in {"head", "plain"}
      OBVIOUS
    <2>2. Reads(Expected, OnWire("tls", Alert), Expected')
      BY <1>5, <1>6, <2>1, ReadsAlert
    <2> QED
      BY <1>1, <1>6, <1>7, <2>2, RunOne
  <1>9. Synced'
    <2>1. handed' \in Nat /\ handed <= handed' /\ UNCHANGED srv
      BY <1>1, <1>6
    <2> QED
      BY <1>2, <1>4, <1>8, <2>1, ExtendedSynced
  <1>10. Limits'
    BY <1>1, <1>3 DEF UInv, Flow, Limits, Writer
  <1>11. Modes'
    BY <1>1 DEF UInv, Flow, Modes
  <1>12. Buffers'
    BY <1>1, <1>3 DEF UInv, Flow, Buffers
  <1> QED
    BY <1>9, <1>10, <1>11, <1>12 DEF Flow

\* The socket's write side is closed when nothing waits in front of it.
LEMMA FinFlow ==
    ASSUME UInv, NEW mode \in {"tls", "raw"}, outBuf = <<>>, tlsOut = <<>>, Room > 0,
           Stage = "closed" \/ (Stage = "plain" /\ padder.direct), wpc # "first",
           sock' = Append(sock, OnWire(mode, Fin)), wpc' = "closed", wpc # "write",
           UNCHANGED <<traffic, padder, raw, outBuf, tlsOut, cur, handed, srv>>
    PROVE  Flow'
  <1> DEFINE w == OnWire(mode, Fin)
  <1>1. w \in Wires /\ sock \in Seq(Wires) /\ Len(sock) < SockCap /\ SockCap \in Nat
    BY ControlCells, CapsAssumption DEF OnWire, Wires, UInv, Flow, Buffers, Room
  <1> HIDE DEF w
  <1>2. sock' = sock \o <<w>> /\ sock' \in Seq(Wires) /\ Len(sock') <= SockCap
        /\ <<w>> \in Seq(Wires)
    <2>1. sock' = Append(sock, w)
      BY DEF w
    <2>2. Len(sock') = Len(sock) + 1 /\ sock' \in Seq(Wires) /\ sock' = sock \o <<w>>
      BY <1>1, <2>1, AppendProperties, AppendIsConcat
    <2> QED
      BY <1>1, <2>2
  <1>3. Queue' = Queue \o <<w>>
    BY <1>1, <1>2, NothingBehind DEF Queue
  <1>4. /\ Expected = Server(Stage, padder.direct, padder.fresh, handed)
        /\ Expected' = Server("eof", padder.direct, padder.fresh, handed)
    BY DEF Expected, Stage
  <1>5. /\ handed \in Nat /\ handed \in 0..handed /\ padder.fresh \in BOOLEAN
        /\ padder.direct \in BOOLEAN
        /\ Expected \in Servers(handed) /\ "eof" \in Stages
    BY Types DEF Stages
  <1>6. Expected' \in Servers(handed)
    BY <1>4, <1>5, ServerType
  <1>7. Run(handed', <<w>>, Expected, Expected')
    <2>1. Reads(Expected, w, Expected')
      BY <1>4, <1>5, ReadsFin DEF w
    <2> QED
      BY <1>5, <1>6, <2>1, RunOne
  <1>8. Synced'
    <2>1. handed' \in Nat /\ handed <= handed' /\ UNCHANGED srv
      BY <1>5
    <2> QED
      BY <1>2, <1>3, <1>7, <2>1, ExtendedSynced
  <1>9. Limits'
    <2>1. Len(tlsOut') = 0 /\ TlsCap \in Nat
      BY CapsAssumption
    <2>2. traffic.budget <= FilterPackets /\ handed \in 0..MaxHanded /\ raw \in BOOLEAN /\ cur = <<>>
      BY DEF UInv, Flow, Limits
    <2> QED
      BY <2>1, <2>2 DEF Limits, Writer
  <1>10. Modes'
    BY DEF UInv, Flow, Modes
  <1>11. Buffers'
    BY <1>2 DEF UInv, Flow, Buffers
  <1> QED
    BY <1>8, <1>9, <1>10, <1>11 DEF Flow

LEMMA ShutdownRawFlow ==
    ASSUME UInv, ShutdownRaw
    PROVE  Flow'
  <1>1. padder.direct /\ outBuf = <<>> /\ tlsOut = <<>> /\ ~padder.padding /\ wpc = "shutdown"
    BY DEF ShutdownRaw, UInv, PInv, DirectMeansTls13, Flow, Modes
  <1>2. Stage = "plain"
    BY <1>1 DEF Stage
  <1> QED
    BY <1>1, <1>2, FinFlow DEF ShutdownRaw

LEMMA CloseTlsFlow ==
    ASSUME UInv, CloseTls
    PROVE  Flow'
  <1>1. /\ wpc = "closing" /\ outBuf = <<>> /\ ~padder.direct
        /\ UNCHANGED <<traffic, padder, raw, outBuf, cur, handed, srv>>
    BY DEF CloseTls, UInv, Flow, Modes
  <1>2. CASE TlsTake(<<>>, 0) /\ UNCHANGED wpc
    <2>1. /\ <<>> \in Seq(CellSet) /\ 0 \in 0..Len(<<>>)
          /\ outBuf' = SubSeq(<<>>, Len(<<>>) - 0 + 1, Len(<<>>))
      <3>1. Len(<<>>) = 0 /\ SubSeq(<<>>, 1, 0) = <<>>
        BY SubSeqEmpty
      <3> QED
        BY <1>1, <3>1
    <2>2. Buffers' /\ Len(tlsOut') <= TlsCap /\ Queue' = Queue \o Tls(<<>>) /\ Queue \in Seq(Wires)
      BY <1>1, <1>2, <2>1, TakenAtEnd DEF UInv, Flow
    <2>3. Queue' = Queue
      <3>1. Tls(<<>>) = <<>>
        BY DEF Tls
      <3> QED
        BY <2>2, <3>1, ConcatEmptySeq
    <2>4. Synced'
      <3>1. Stage' = Stage
        BY <1>1, <1>2 DEF Stage
      <3> QED
        BY <1>1, <2>3, <3>1, MovedSynced
    <2>5. Limits'
      <3>1. Len(tlsOut') <= TlsCap + 1
        <4>1. tlsOut' \in Seq(CellSet)
          BY <2>2 DEF Buffers
        <4>2. Len(tlsOut') \in Nat
          BY <4>1
        <4> QED
          BY <2>2, <4>2, CapsAssumption
      <3> QED
        BY <1>1, <1>2, <3>1 DEF UInv, Flow, Limits
    <2>6. Modes'
      BY <1>1, <1>2 DEF UInv, Flow, Modes
    <2> QED
      BY <2>2, <2>4, <2>5, <2>6 DEF Flow
  <1>3. CASE /\ tlsOut = <<>> /\ Room > 0 /\ sock' = Append(sock, OnWire("tls", Fin))
             /\ wpc' = "closed" /\ UNCHANGED tlsOut
    <2>1. Stage = "closed"
      BY <1>1 DEF Stage
    <2> QED
      BY <1>1, <1>3, <2>1, FinFlow
  <1> QED
    BY <1>2, <1>3 DEF CloseTls

---------------------------------------------------------------------------
\* The front of the queue is the front of the socket's buffer.
LEMMA QueueHead ==
    ASSUME Buffers, sock # <<>>
    PROVE  /\ Queue \in Seq(Wires) /\ Queue # <<>> /\ Head(Queue) = Head(sock)
           /\ Tail(Queue) = Tail(sock) \o Tls(tlsOut \o outBuf) /\ Tail(sock) \in Seq(Wires)
           /\ Len(Tail(sock)) <= Len(sock)
  <1> DEFINE rest == Tls(tlsOut \o outBuf)
  <1>9. sock # <<>> /\ sock \in Seq(Wires)
    BY DEF Buffers
  <1>10. rest \in Seq(Wires) /\ Queue = sock \o rest
    <2>1. tlsOut \o outBuf \in Seq(CellSet)
      BY ConcatProperties DEF Buffers
    <2> QED
      BY <2>1, TlsType DEF Queue
  <1> HIDE DEF rest
  <1>1. /\ Tail(sock) \in Seq(Wires) /\ Len(Tail(sock)) = Len(sock) - 1 /\ Len(sock) \in Nat \ {0}
        /\ \A i \in 1..Len(Tail(sock)) : Tail(sock)[i] = sock[i + 1]
    BY <1>9, HeadTailProperties, EmptySeq
  <1>2. /\ Queue \in Seq(Wires) /\ Len(Queue) = Len(sock) + Len(rest) /\ Len(rest) \in Nat
        /\ \A i \in 1..Len(sock) + Len(rest) :
              Queue[i] = IF i <= Len(sock) THEN sock[i] ELSE rest[i - Len(sock)]
    BY <1>9, <1>10, ConcatProperties
  <1>3. Queue # <<>>
    <2>1. Len(Queue) # 0 /\ Len(<<>>) = 0
      BY <1>1, <1>2
    <2> QED
      BY <2>1
  <1>4. /\ Tail(Queue) \in Seq(Wires) /\ Len(Tail(Queue)) = Len(Queue) - 1
        /\ \A i \in 1..Len(Tail(Queue)) : Tail(Queue)[i] = Queue[i + 1]
    BY <1>2, <1>3, HeadTailProperties
  <1>5. /\ Tail(sock) \o rest \in Seq(Wires)
        /\ Len(Tail(sock) \o rest) = Len(Tail(sock)) + Len(rest)
        /\ \A i \in 1..Len(Tail(sock)) + Len(rest) :
              (Tail(sock) \o rest)[i] = IF i <= Len(Tail(sock)) THEN Tail(sock)[i]
                                        ELSE rest[i - Len(Tail(sock))]
    BY <1>10, <1>1, ConcatProperties
  <1>6. Head(Queue) = Head(sock)
    <2>1. Queue[1] = sock[1]
      BY <1>1, <1>2
    <2> QED
      BY <1>9, <1>2, <1>3, <2>1
  <1>7. ASSUME NEW i \in 1..Len(Tail(Queue)) PROVE Tail(Queue)[i] = (Tail(sock) \o rest)[i]
    <2>1. /\ i + 1 \in 1..Len(sock) + Len(rest) /\ i \in 1..Len(Tail(sock)) + Len(rest)
          /\ (i + 1) - Len(sock) = i - Len(Tail(sock))
      BY <1>1, <1>2, <1>4
    <2>2. CASE i <= Len(Tail(sock))
      <3>1. i + 1 <= Len(sock) /\ i \in 1..Len(Tail(sock))
        BY <1>1, <2>2
      <3> QED
        BY <1>1, <1>2, <1>4, <1>5, <2>1, <2>2, <3>1
    <2>3. CASE ~(i <= Len(Tail(sock)))
      <3>1. ~(i + 1 <= Len(sock))
        BY <1>1, <2>3
      <3>2. Queue[i + 1] = rest[(i + 1) - Len(sock)]
        BY <1>2, <2>1, <3>1
      <3>3. (Tail(sock) \o rest)[i] = rest[i - Len(Tail(sock))]
        BY <1>5, <2>1, <2>3
      <3> QED
        BY <1>4, <2>1, <3>2, <3>3
    <2> QED
      BY <2>2, <2>3
  <1>8. Tail(Queue) = Tail(sock) \o rest
    <2>1. Len(Tail(Queue)) = Len(Tail(sock) \o rest)
      BY <1>1, <1>2, <1>4, <1>5
    <2> QED
      BY <1>4, <1>5, <1>7, <2>1, SeqEqual, Zenon
  <1> QED
    BY <1>1, <1>2, <1>3, <1>6, <1>8 DEF rest

LEMMA ServerReadFlow ==
    ASSUME UInv, ServerRead
    PROVE  Flow'
  <1>1. /\ sock # <<>> /\ sock \in Seq(Wires) /\ sock' = Tail(sock)
        /\ srv' = ServerNext(srv, Head(sock))
        /\ UNCHANGED <<traffic, padder, raw, outBuf, tlsOut, cur, handed, wpc>>
    BY DEF ServerRead, UInv, Flow, Buffers
  <1> DEFINE rest == Tls(tlsOut \o outBuf)
  <1>2. rest \in Seq(Wires) /\ Queue = sock \o rest /\ Queue' = Tail(sock) \o rest
    <2>1. tlsOut \o outBuf \in Seq(CellSet)
      BY ConcatProperties DEF UInv, Flow, Buffers
    <2> QED
      BY <1>1, <2>1, TlsType DEF Queue
  <1> HIDE DEF rest
  <1>3. /\ Queue \in Seq(Wires) /\ Queue # <<>> /\ Head(Queue) = Head(sock)
        /\ Tail(Queue) = Tail(sock) \o rest /\ Tail(sock) \in Seq(Wires)
        /\ Len(Tail(sock)) <= Len(sock)
    BY <1>1, QueueHead DEF rest, UInv, Flow
  <1>4. Run(handed, Tail(Queue), ServerNext(srv, Head(Queue)), Expected)
    BY <1>3, Types, RunHead DEF UInv, Flow, Synced
  <1>5. Synced'
    <2>1. Expected' = Expected /\ Queue' = Tail(Queue) /\ srv' = ServerNext(srv, Head(Queue))
      BY <1>1, <1>2, <1>3 DEF Expected, Stage
    <2> QED
      BY <1>1, <1>4, <2>1 DEF Synced
  <1>6. Buffers'
    <2>1. Len(sock) \in Nat /\ Len(Tail(sock)) \in Nat /\ SockCap \in Nat
      BY <1>1, <1>3, CapsAssumption
    <2> QED
      BY <1>1, <1>3, <2>1 DEF UInv, Flow, Buffers
  <1>7. Limits' /\ Modes'
    BY <1>1 DEF UInv, Flow, Limits, Modes
  <1> QED
    BY <1>5, <1>6, <1>7 DEF Flow

---------------------------------------------------------------------------
LEMMA InitFlow == Init => Flow
  <1> SUFFICES ASSUME Init PROVE Flow
    OBVIOUS
  <1> USE DEF Init
  <1>1. Buffers
    BY CapsAssumption DEF Buffers
  <1>2. Limits
    <2>1. traffic.budget <= FilterPackets
      BY FilterPacketsAssumption DEF NewTraffic
    <2>2. handed \in 0..MaxHanded /\ Len(tlsOut) <= TlsCap
      <3>1. Len(<<>>) = 0
        OBVIOUS
      <3> QED
        BY <3>1, CapsAssumption
    <2>3. raw \in BOOLEAN /\ wpc \in Writer /\ wpc \notin {"closing", "closed", "write"} /\ cur = <<>>
      BY DEF Writer
    <2> QED
      BY <2>1, <2>2, <2>3 DEF Limits
  <1>3. Modes
    BY DEF Modes, NewPadder
  <1>4. Synced
    <2>1. Queue = <<>>
      <3>1. <<>> \in Seq(Wires)
        OBVIOUS
      <3> QED
        BY <3>1, QueueIsSock
    <2>2. Expected = Server("header", FALSE, TRUE, 0)
      BY DEF Expected, Stage, NewPadder
    <2>3. srv = Server("header", FALSE, TRUE, 0)
      <3>1. Pieces(0) = <<>>
        BY DEF Pieces
      <3> QED
        BY <3>1 DEF NewServer, Server
    <2>4. Server("header", FALSE, TRUE, 0) \in Servers(0)
      <3>1. 0 \in 0..0 /\ 0 \in Nat /\ "header" \in Stages
        BY DEF Stages, Cells
      <3> QED
        BY <3>1, ServerType
    <2> QED
      BY <2>1, <2>2, <2>3, <2>4, RunEmpty DEF Synced
  <1> QED
    BY <1>1, <1>2, <1>3, <1>4 DEF Flow

LEMMA StepFlow ==
    ASSUME UInv, [Next]_vars
    PROVE  Flow'
  <1>1. CASE UNCHANGED vars
    BY <1>1 DEF vars, UInv, Flow, Buffers, Limits, Modes, Synced, Queue, Expected, Stage
  <1> QED
    BY <1>1, WriteFirstFlow, FirstOutFlow, SettlingFlow, WritePaddedFlow, WritePlainFlow,
       FlushFlow, PumpFlow, SniffFlow, ShutdownTlsFlow, ShutdownRawFlow, CloseTlsFlow,
       ServerReadFlow
    DEF Next, Poll

\* The inductive invariant holds in every reachable state, for any packets, any
\* buffer sizes and however little the socket takes at a time (vision.rs:412-533).
THEOREM UplinkInvariance == Spec => []UInv
  <1>1. Init => UInv
    BY InitPInv, InitFlow DEF UInv
  <1>2. UInv /\ [Next]_vars => UInv'
    BY StepKeeps, StepFlow DEF UInv
  <1> QED
    BY <1>1, <1>2, PTL DEF Spec

LEMMA ServerTyped ==
    ASSUME UInv
    PROVE  srv \in Servers(handed) /\ srv.stage \in Stages
  <1>1. PICK S \in [0..Len(Queue) -> Servers(handed)] : S[0] = srv
    BY DEF UInv, Flow, Synced, Run
  <1>2. Len(Queue) \in Nat
    BY Types
  <1>3. srv \in Servers(handed)
    BY <1>1, <1>2
  <1> QED
    BY <1>3 DEF Servers

\* The buffers hold cells, keep to the limits of rustls and the socket, and pump
\* holds a packet exactly while it writes one (vision.rs:412-533).
THEOREM TypeCorrect == Spec => []TypeOK
  <1>1. UInv => TypeOK
    <2> SUFFICES ASSUME UInv PROVE TypeOK
      OBVIOUS
    <2>1. traffic \in Traffics /\ traffic.budget <= FilterPackets /\ padder \in Padders
          /\ raw \in BOOLEAN /\ handed \in 0..MaxHanded /\ (cur # <<>> <=> wpc = "write")
          /\ Len(sock) <= SockCap
      BY DEF UInv, PInv, Flow, Limits, Buffers
    <2>2. \A q \in Seq(CellSet) : \A i \in DOMAIN q : q[i].kind \in Cells
      <3>1. \A q \in Seq(CellSet) : \A i \in DOMAIN q : q[i] \in CellSet
        OBVIOUS
      <3>2. \A c \in CellSet : c.kind \in Cells
        BY DEF CellSet
      <3> QED
        BY <3>1, <3>2, Zenon
    <2>3. Len(tlsOut) <= TlsCap + 1
      <3>1. Len(tlsOut) \in Nat /\ TlsCap \in Nat
        BY CapsAssumption DEF UInv, Flow, Buffers
      <3> QED
        BY <3>1 DEF UInv, Flow, Limits
    <2>4. srv.stage \in Stages
      BY ServerTyped
    <2>5. outBuf \in Seq(CellSet) /\ tlsOut \in Seq(CellSet)
      BY DEF UInv, Flow, Buffers
    <2>6. /\ traffic.budget \in 0..FilterPackets /\ traffic.rsh \in Int /\ traffic.cipher \in Ciphers
          /\ {traffic.isTls, traffic.tls12, traffic.xtls} \subseteq BOOLEAN
      BY <2>1, FilterPacketsAssumption DEF Traffics
    <2>7. {padder.padding, padder.direct, padder.fresh, raw} \subseteq BOOLEAN
      BY <2>1 DEF Padders
    <2> QED
      BY <2>1, <2>2, <2>3, <2>4, <2>5, <2>6, <2>7 DEF TypeOK, Stages
  <1> QED
    BY <1>1, UplinkInvariance, PTL

\* The server makes sense of every byte in the mode it is in, wherever a write, a
\* flush or a shutdown was cut short: nothing leaves TLS behind a Direct frame and
\* nothing raw in front of one (vision.rs:452-465, 520-526).
THEOREM ServerNeverLost == Spec => []ServerInSync
  <1>1. UInv => ServerInSync
    <2> SUFFICES ASSUME UInv PROVE ServerInSync
      OBVIOUS
    <2>1. srv.stage \in Stages
      BY ServerTyped
    <2> QED
      BY <2>1 DEF Stages, Cells, ServerInSync
  <1> QED
    BY <1>1, UplinkInvariance, PTL

---------------------------------------------------------------------------
LEMMA EofIsLast ==
    ASSUME UInv, srv.stage = "eof"
    PROVE  wpc = "closed" /\ srv.got = Pieces(handed)
  <1>1. Queue \in Seq(Wires) /\ Run(handed, Queue, srv, Expected) /\ handed \in Nat
    BY Types DEF UInv, Flow, Synced
  <1>2. Queue = <<>>
    <2>1. SUFFICES ASSUME Queue # <<>> PROVE FALSE
      OBVIOUS
    <2>2. ServerAccepts(srv, Head(Queue)) /\ Head(Queue) \in Wires
      BY <1>1, <2>1, RunHead, HeadTailProperties
    <2>3. Head(Queue).cell.kind \in Cells
      BY <2>2 DEF Wires, CellSet
    <2> QED
      BY <2>2, <2>3 DEF ServerAccepts, Cells
  <1>3. srv = Expected
    <2>1. PICK S \in [0..Len(Queue) -> Servers(handed)] : S[0] = srv /\ S[Len(Queue)] = Expected
      BY <1>1 DEF Run
    <2>2. Len(Queue) = 0
      BY <1>2
    <2> QED
      BY <2>1, <2>2
  <1>4. Stage = "eof" /\ srv.got = Pieces(handed)
    BY <1>3 DEF Expected, Server
  <1> QED
    BY <1>4 DEF Stage

\* Pieces in order are a prefix of more pieces in order.
LEMMA PiecesPrefix ==
    ASSUME NEW k \in Nat, NEW n \in Nat, k <= n
    PROVE  IsPrefix(Pieces(k), Pieces(n))
  <1>1. Len(Pieces(k)) = k /\ Len(Pieces(n)) = n /\ Pieces(k) \in Seq(Nat) /\ Pieces(n) \in Seq(Nat)
    BY PiecesType
  <1> DEFINE a == SubSeq(Pieces(k), 1, k)
             b == SubSeq(Pieces(n), 1, k)
  <1>2. /\ a \in Seq(Nat) /\ Len(a) = k /\ \A i \in 1..k : a[i] = Pieces(k)[i]
        /\ b \in Seq(Nat) /\ Len(b) = k /\ \A i \in 1..k : b[i] = Pieces(n)[i]
    BY <1>1
  <1>3. \A i \in 1..k : Pieces(k)[i] = i /\ Pieces(n)[i] = i
    BY DEF Pieces
  <1> HIDE DEF a, b
  <1>4. Len(a) = Len(b) /\ \A i \in 1..Len(a) : a[i] = b[i]
    BY <1>2, <1>3
  <1>5. a = b
    BY <1>2, <1>4, SeqEqual, Zenon
  <1> QED
    BY <1>1, <1>5 DEF IsPrefix, a, b

\* What reading one cell does to what the server has taken.
LEMMA ReadTakes ==
    ASSUME NEW s, NEW w \in Wires, ServerAccepts(s, w), NEW k \in Nat, s.got = Pieces(k),
           NEW n \in Nat, ServerNext(s, w) \in Servers(n), s \in Servers(n)
    PROVE  /\ s.stage # "eof"
           /\ \E j \in k..n : ServerNext(s, w).got = Pieces(j)
           /\ ServerNext(s, w).stage = "eof" => ServerNext(s, w).got = Pieces(k)
  <1> DEFINE c == w.cell
             t == ServerNext(s, w)
  <1>1. c.kind \in Cells /\ c.data \in Nat
    BY DEF Wires, CellSet
  <1>2. s.stage # "eof"
    BY <1>1 DEF ServerAccepts, Cells
  <1>3. t.got \in {s.got, Take(s, c.data)} /\ (t.stage = "eof" => t.got = s.got)
    <2>1. s = [stage |-> s.stage, direct |-> s.direct, first |-> s.first, got |-> s.got]
      BY DEF Servers
    <2>2. CASE c.kind \in {"header", "head"}
      <3>1. t.got = s.got
        BY <2>1, <2>2 DEF ServerNext
      <3>2. t.stage # "eof"
        BY <2>1, <2>2 DEF ServerNext
      <3> QED
        BY <3>1, <3>2
    <2>3. CASE c.kind = "tail"
      <3>1. t.got = Take(s, c.data)
        BY <2>1, <2>3 DEF ServerNext
      <3>2. t.stage # "eof"
        BY <2>1, <2>3 DEF ServerNext
      <3> QED
        BY <3>1, <3>2
    <2>4. CASE c.kind = "plain"
      <3>1. t.got = Take(s, c.data)
        BY <2>1, <2>4 DEF ServerNext
      <3>2. t.stage # "eof"
        BY <1>2, <2>1, <2>4 DEF ServerNext
      <3> QED
        BY <3>1, <3>2
    <2>5. CASE c.kind \in {"alert", "fin"}
      <3>1. t.got = s.got
        BY <2>1, <2>5 DEF ServerNext
      <3> QED
        BY <3>1
    <2> QED
      BY <1>1, <2>2, <2>3, <2>4, <2>5 DEF Cells
  <1>4. PICK j \in 0..n : t.got = Pieces(j)
    BY DEF Servers
  <1> HIDE DEF t
  <1>5. k <= j
    <2>1. CASE t.got = s.got
      <3>1. Len(Pieces(k)) = k /\ Len(Pieces(j)) = j
        BY PiecesType
      <3> QED
        BY <1>4, <2>1, <3>1
    <2>2. CASE t.got = Append(s.got, c.data)
      <3>1. Len(Append(Pieces(k), c.data)) = k + 1 /\ Len(Pieces(j)) = j
        BY <1>1, PiecesType, AppendProperties
      <3> QED
        BY <1>4, <2>2, <3>1
    <2> QED
      BY <1>3, <2>1, <2>2 DEF Take
  <1>6. j \in k..n
    BY <1>5
  <1> QED
    BY <1>2, <1>3, <1>4, <1>6 DEF t

\* What a step can do to what is handed over and what is taken.
PipeStep ==
    \/ /\ srv.stage # "eof" /\ srv'.stage # "eof" /\ handed' # handed
       /\ IsPrefix(Pieces(handed), Pieces(handed')) /\ Pieces(handed') # Pieces(handed)
       /\ UNCHANGED srv
    \/ /\ srv.stage # "eof" /\ srv'.stage # "eof" /\ handed' = handed
       /\ IsPrefix(srv.got, srv'.got) /\ IsPrefix(srv'.got, Pieces(handed))
    \/ /\ srv.got = Pieces(handed) /\ srv'.stage = "eof" /\ srv'.got = srv.got
       /\ handed' = handed
    \/ UNCHANGED <<handed, srv>>

LEMMA HandedOver ==
    ASSUME UInv, WriteFirst \/ WritePadded \/ WritePlain
    PROVE  PipeStep
  <1>1. wpc # "closed" /\ UNCHANGED srv
    BY DEF WriteFirst, WritePadded, WritePlain
  <1>2. handed \in Nat /\ handed' \in Nat /\ handed <= handed'
    <2>1. handed \in Nat
      BY Types
    <2>2. CASE WriteFirst
      <3>1. handed = 0
        BY <2>2 DEF WriteFirst, UInv, Flow, Modes
      <3>2. handed' = handed \/ \E p \in UpPackets : handed' = Len(p.pieces)
        BY <2>2 DEF WriteFirst
      <3>3. \A p \in UpPackets : Len(p.pieces) \in Nat
        BY PacketsAssumption DEF PacketOK, Packets
      <3> QED
        BY <2>1, <3>1, <3>2, <3>3
    <2>3. CASE WritePadded \/ WritePlain
      <3>1. cur[1] \in Packets /\ Head(cur) = cur[1]
        BY <2>3 DEF WritePadded, WritePlain, UInv, PInv, Held
      <3>2. Len(cur[1].pieces) \in Nat
        BY <3>1 DEF Packets
      <3>3. \E k \in 0..Len(cur[1].pieces) : handed' = handed + k
        <4>1. CASE WritePadded
          <5>1. handed' = handed + Len(cur[1].pieces)
            BY <3>1, <4>1 DEF WritePadded
          <5> QED
            BY <3>2, <5>1
        <4>2. CASE WritePlain
          BY <3>1, <4>2, Zenon DEF WritePlain
        <4> QED
          BY <2>3, <4>1, <4>2
      <3> QED
        BY <2>1, <3>2, <3>3
    <2> QED
      BY <2>2, <2>3
  <1>3. srv.stage # "eof"
    BY <1>1, EofIsLast
  <1>4. CASE handed' = handed
    BY <1>1, <1>4 DEF PipeStep
  <1>5. CASE handed' # handed
    <2>1. Len(Pieces(handed)) = handed /\ Len(Pieces(handed')) = handed'
      BY <1>2, PiecesType
    <2> QED
      BY <1>1, <1>2, <1>3, <1>5, <2>1, PiecesPrefix DEF PipeStep
  <1> QED
    BY <1>4, <1>5

\* Once the server has seen the end there is nothing it has not seen.
EofLast == srv.stage = "eof" => wpc = "closed" /\ srv.got = Pieces(handed)

LEMMA TakenOver ==
    ASSUME UInv, EofLast', ServerRead
    PROVE  PipeStep
  <1>1. /\ handed' = handed /\ handed \in Nat
        /\ sock # <<>> /\ sock \in Seq(Wires) /\ srv' = ServerNext(srv, Head(sock))
    BY Types DEF ServerRead, UInv, Flow, Buffers
  <1>2. Head(sock) \in Wires
    BY <1>1, HeadTailProperties
  <1>3. /\ srv \in Servers(handed) /\ srv' \in Servers(handed)
        /\ ServerAccepts(srv, Head(sock))
    <2>1. Queue \in Seq(Wires) /\ Queue # <<>> /\ Head(Queue) = Head(sock)
      BY <1>1, QueueHead DEF UInv, Flow
    <2>2. ServerAccepts(srv, Head(sock)) /\ srv' \in Servers(handed)
      BY <1>1, <2>1, RunHead DEF UInv, Flow, Synced
    <2> QED
      BY <2>2, ServerTyped
  <1>4. PICK k \in 0..handed : srv.got = Pieces(k)
    BY <1>3 DEF Servers
  <1>5. PICK j \in k..handed : srv'.got = Pieces(j)
    BY <1>1, <1>2, <1>3, <1>4, ReadTakes
  <1>6. srv.stage # "eof" /\ (srv'.stage = "eof" => srv'.got = srv.got)
    BY <1>1, <1>2, <1>3, <1>4, ReadTakes
  <1>7. CASE srv'.stage = "eof"
    <2>1. srv'.got = Pieces(handed')
      BY <1>7 DEF EofLast
    <2> QED
      BY <1>1, <1>6, <1>7, <2>1 DEF PipeStep
  <1>8. CASE srv'.stage # "eof"
    BY <1>1, <1>4, <1>5, <1>6, <1>8, PiecesPrefix DEF PipeStep
  <1> QED
    BY <1>7, <1>8

\* The uplink implements the abstract pipe: the server takes what Vision was given,
\* in order, none of it lost or twice, and sees the end only after the last of it
\* (vision.rs:412-533, relay.rs:99-131).
THEOREM UplinkIsPipe == Spec => PipeSpec
  <1>1. Init => P!Init
    BY DEF Init, P!Init, NewServer
  <1>2. UInv /\ EofLast' /\ [Next]_vars => [P!Next]_(P!pipeVars)
    <2> SUFFICES ASSUME UInv, EofLast', [Next]_vars PROVE [P!Next]_(P!pipeVars)
      OBVIOUS
    <2>1. PipeStep
      <3>1. CASE WriteFirst \/ WritePadded \/ WritePlain
        BY <3>1, HandedOver
      <3>2. CASE ServerRead
        BY <3>2, TakenOver
      <3>3. CASE UNCHANGED <<handed, srv>>
        BY <3>3 DEF PipeStep
      <3> QED
        BY <3>1, <3>2, <3>3
        DEF Next, Poll, vars, FirstOut, WriteSettle, Flush, ShutdownSettle, ShutdownRaw,
            ShutdownTls, CloseTls, PumpRead, PumpEof, SniffDownlink
    <2>2. [i \in 1..handed |-> i] = Pieces(handed) /\ [i \in 1..handed' |-> i] = Pieces(handed')
      BY DEF Pieces
    <2> DEFINE moved == /\ srv.stage # "eof" /\ srv'.stage # "eof" /\ handed' # handed
                        /\ IsPrefix(Pieces(handed), Pieces(handed'))
                        /\ Pieces(handed') # Pieces(handed) /\ UNCHANGED srv
               taken == /\ srv.stage # "eof" /\ srv'.stage # "eof" /\ handed' = handed
                        /\ IsPrefix(srv.got, srv'.got) /\ IsPrefix(srv'.got, Pieces(handed))
               ended == /\ srv.got = Pieces(handed) /\ srv'.stage = "eof"
                        /\ srv'.got = srv.got /\ handed' = handed
    <2>3. CASE moved
      <3>1. P!Write
        BY <2>2, <2>3 DEF P!Write, IsPrefix, P!IsPrefix
      <3> QED
        BY <3>1 DEF P!Next
    <2>4. CASE taken
      <3>1. CASE srv'.got = srv.got
        BY <2>2, <2>4, <3>1 DEF P!pipeVars
      <3>2. CASE srv'.got # srv.got
        <4>1. P!Read
          BY <2>2, <2>4, <3>2 DEF P!Read, IsPrefix, P!IsPrefix
        <4> QED
          BY <4>1 DEF P!Next
      <3> QED
        BY <3>1, <3>2
    <2>5. CASE ended
      <3>1. P!Close
        BY <2>2, <2>5 DEF P!Close
      <3> QED
        BY <3>1 DEF P!Next
    <2>6. CASE UNCHANGED <<handed, srv>>
      BY <2>2, <2>6 DEF P!pipeVars
    <2> QED
      BY <2>1, <2>3, <2>4, <2>5, <2>6 DEF PipeStep
  <1>3. UInv => EofLast
    BY EofIsLast DEF EofLast
  <1> QED
    BY <1>1, <1>2, <1>3, UplinkInvariance, PTL DEF Spec, PipeSpec, P!Spec
=============================================================================
