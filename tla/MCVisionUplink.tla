--------------------------- MODULE MCVisionUplink ---------------------------
(***************************************************************************)
(* Packets that tell the branches of filter and pad_into apart. Lengths are *)
(* in units of half a ServerHello.                                          *)
(***************************************************************************)
EXTENDS VisionUplink

Packet(hello, pieces, complete) ==
    [hello |-> hello, len |-> 1, shLen |-> 0, cipher |-> "none", ext |-> 0,
     complete |-> complete, pieces |-> pieces]

ClientHello == Packet("client", <<FALSE>>, FALSE)
Other       == Packet("none", <<FALSE, FALSE>>, FALSE)
AppData     == Packet("none", <<TRUE>>, TRUE)
AppDataCut  == Packet("none", <<TRUE>>, FALSE)
\* a write too large for one frame, cut at a record header or in a record
AppDataBig  == Packet("none", <<TRUE, FALSE>>, TRUE)
\* a write that starts inside a record
AppDataLate == Packet("none", <<FALSE, TRUE>>, TRUE)

ServerHello(cipher, len, ext) ==
    [hello |-> "server", len |-> len, shLen |-> 2, cipher |-> cipher, ext |-> ext,
     complete |-> FALSE, pieces |-> <<FALSE>>]

Tls13      == ServerHello("xtls", 2, 2)
Tls13Ccm8  == ServerHello("other", 2, 2)
Tls13First == ServerHello("xtls", 1, 0)
Tls12      == ServerHello("other", 2, 0)
Tls13Rest  == [Packet("none", <<FALSE>>, FALSE) EXCEPT !.ext = 1]

MCUpPackets == {ClientHello, Other, AppData, AppDataCut, AppDataBig, AppDataLate}
MCDownPackets == {Tls13, Tls13Ccm8, Tls13First, Tls13Rest, Tls12}
=============================================================================
