-------------------------- MODULE MCVisionDownlink --------------------------
(***************************************************************************)
(* Answers a Vision server may give, cell by cell. Records are two   *)
(* header cells and a body; "R" is the VLESS response header, "h" a frame  *)
(* header, "p" padding, "d" proxied data.                                  *)
(***************************************************************************)
EXTENDS VisionDownlink

\* handshake, ticket | R h d | p h d(Direct) | raw d d d
DirectStream ==
    [n |-> 19, hs |-> 3, early |-> 6, tlsEnd |-> 16,
     recEnd |-> {3, 6, 11, 16}, plain |-> {9, 10, 11, 14, 15, 16},
     respEnd |-> 9, frameEnd |-> {14, 16}, cmd |-> "DIRECT", term |-> 16,
     payload |-> {11, 16, 17, 18, 19}]

\* handshake | R | R h d(Direct) d | raw d, a response header over two records
\* and data behind the Direct frame in its own record
MixedStream ==
    [n |-> 13, hs |-> 3, early |-> 3, tlsEnd |-> 12,
     recEnd |-> {3, 6, 12}, plain |-> {6, 9, 10, 11, 12},
     respEnd |-> 9, frameEnd |-> {11}, cmd |-> "DIRECT", term |-> 11,
     payload |-> {11, 12, 13}]

\* handshake | R h d(End) d | d d | d
EndStream ==
    [n |-> 16, hs |-> 3, early |-> 3, tlsEnd |-> 16,
     recEnd |-> {3, 9, 13, 16}, plain |-> {6, 7, 8, 9, 12, 13, 16},
     respEnd |-> 6, frameEnd |-> {8}, cmd |-> "END", term |-> 8,
     payload |-> {8, 9, 12, 13, 16}]

\* handshake | R h d | h d, cut off inside a frame
CutStream ==
    [n |-> 12, hs |-> 3, early |-> 3, tlsEnd |-> 12,
     recEnd |-> {3, 8, 12}, plain |-> {6, 7, 8, 11, 12},
     respEnd |-> 6, frameEnd |-> {8}, cmd |-> "NONE", term |-> 0,
     payload |-> {8}]

MCStreams == {DirectStream, MixedStream, EndStream, CutStream}
MCTornStreams == {DirectStream}
MCGarbage == 0..2
=============================================================================
