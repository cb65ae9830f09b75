------------------------------- MODULE Config -------------------------------
(***************************************************************************)
(* Reading the credentials in a configuration (config.rs). A text is a     *)
(* sequence of character codes. What may fail returns the set of its       *)
(* results: one, or none for an error.                                     *)
(***************************************************************************)
EXTENDS Integers, Sequences, SequencesExt

CONSTANTS
    UuidLen,    \* bytes of a UUID, 16
    KeyLen,     \* bytes of a public key, 32
    AccWidth    \* 2^32, the width of base64_decode's accumulator

\* What the file has of a user and a server, and what becomes of it.
RawCredentials == [uuid : Seq(0..127), flow : Seq(0..127),
                   publicKey : Seq(0..127), shortId : Seq(0..127)]
Credentials == [uuid : Seq(0..255), flow : Seq(0..127),
                publicKey : Seq(0..255), shortId : Seq(0..255)]

Digits == 48..57
Upper  == 65..90
Lower  == 97..122

NibbleOf(c) == CASE c \in Digits -> {c - 48}
                 [] c \in 97..102 -> {c - 87}
                 [] c \in 65..70 -> {c - 55}
                 [] OTHER -> {}

ParseHex(text) ==
    LET bad == \E i \in DOMAIN text : NibbleOf(text[i]) = {}
        nibble(i) == CHOOSE v \in NibbleOf(text[i]) : TRUE
    IN  IF Len(text) % 2 # 0 \/ bad THEN {}
        ELSE {[i \in 1..(Len(text) \div 2) |-> nibble(2 * i - 1) * 16 + nibble(2 * i)]}

\* The hyphens of a UUID may be anywhere.
NoHyphens(text) == FlattenSeq([i \in DOMAIN text |-> IF text[i] = 45 THEN <<>> ELSE <<text[i]>>])
ParseUuid(text) == {id \in ParseHex(NoHyphens(text)) : Len(id) = UuidLen}

SextetOf_Url(c) == CASE c \in Upper -> {c - 65}     \* mutant: only the one for URLs
                     [] c \in Lower -> {c - 71}
                     [] c \in Digits -> {c + 4}
                     [] c = 45 -> {62}
                     [] c = 95 -> {63}
                     [] OTHER -> {}

\* The standard alphabet or the one for URLs.
SextetOf(c) == CASE c \in Upper -> {c - 65}
                 [] c \in Lower -> {c - 71}
                 [] c \in Digits -> {c + 4}
                 [] c \in {43, 45} -> {62}
                 [] c \in {47, 95} -> {63}
                 [] OTHER -> {}

\* 2^bits, for the bits a byte may leave over.
Weight == [bits \in {0, 2, 4} |-> CASE bits = 0 -> 1 [] bits = 2 -> 4 [] bits = 4 -> 16]

\* One character: six more bits, and a byte out when there are eight.
TakeSextet(acc, v) ==
    LET buf  == (acc.buf * 64 + v) % AccWidth
        bits == acc.bits + 6
    IN  IF bits < 8 THEN [buf |-> buf, bits |-> bits, out |-> acc.out]
        ELSE [buf |-> buf, bits |-> bits - 8,
              out |-> Append(acc.out, (buf \div Weight[bits - 8]) % 256)]

\* Padding characters at the end, if any, are dropped.
Base64Decode(text) ==
    LET kept == {i \in DOMAIN text : text[i] # 61}
        s == IF kept = {} THEN <<>> ELSE SubSeq(text, 1, Max(kept))
        bad == \E i \in DOMAIN s : SextetOf(s[i]) = {}
        after[i \in 0..Len(s)] ==
            IF i = 0 THEN [buf |-> 0, bits |-> 0, out |-> <<>>]
            ELSE TakeSextet(after[i - 1], CHOOSE v \in SextetOf(s[i]) : TRUE)
    IN  IF bad THEN {} ELSE {after[Len(s)].out}

ParsePublicKey(text) == {k \in Base64Decode(text) : Len(k) = KeyLen}

\* The fields the connections depend on; the length of the short ID and the flow
\* are not looked at here.
LoadConfig(raw) ==
    {[uuid |-> u, flow |-> raw.flow, publicKey |-> k, shortId |-> i] :
        u \in ParseUuid(raw.uuid), k \in ParsePublicKey(raw.publicKey),
        i \in ParseHex(raw.shortId)}
=============================================================================
