------------------------------ MODULE Reality -------------------------------
(***************************************************************************)
(* reality.rs: how a connection gets a session ID into its ClientHello that *)
(* authenticates that ClientHello. Pass A has rustls build the message from *)
(* scripted random bytes; the session ID is sealed over what came out; pass *)
(* B builds it again from the same bytes, with the draw of the session ID   *)
(* replaced. Scripts are thread-local, connections are tasks on a pool of   *)
(* threads, and both passes run without an await.                           *)
(*                                                                         *)
(* External: what rustls and tokio-rustls do in which order (lib), and the  *)
(* other end. Bytes are named by where they come from; two draws are equal  *)
(* only if their names are. The seed, the x25519 secret and the ML-KEM pair *)
(* of a connection are all written as the connection.                       *)
(***************************************************************************)
EXTENDS Naturals, Sequences

CONSTANTS
    Conns,      \* connections that are being opened
    Threads,    \* of the runtime
    Libraries,  \* what the TLS libraries may do, see LibrariesAssumption
    None

Draws == {"random", "sid", "ext"}        \* "ext" is rustls's order of extensions
Groups == {"hybrid", "x25519"}

\* steps: the calls of one build into the provider, in order. inside: how many
\* of them TlsConnector::connect makes before it returns its future; the rest
\* are made when the future is polled.
ASSUME LibrariesAssumption ==
    \A l \in Libraries : l.steps \in Seq(Draws \cup Groups) /\ l.inside \in 0..Len(l.steps)
ASSUME NoneAssumption == None \notin Conns

\* A random and a session ID have 32 bytes, the unit is 16.
Width(f) == IF f = "ext" THEN 1 ELSE 2

Bytes == [src : {"none", "seed", "sealed", "os", "zero"}, of : Conns \cup {None},
          at : Nat, len : 0..2]
Blank         == [src |-> "none", of |-> None, at |-> 0, len |-> 0]
Zero          == [src |-> "zero", of |-> None, at |-> 0, len |-> 2]
Os(c, w)      == [src |-> "os", of |-> c, at |-> 0, len |-> w]
Stream(c, n, w) == [src |-> "seed", of |-> c, at |-> n, len |-> w]
Sealed(c)     == [src |-> "sealed", of |-> c, at |-> 0, len |-> 2]

Hello == [random : Bytes, sid : Bytes, ext : Bytes, kx : Conns \cup {None}, mlkem : Conns \cup {None}]
NoHello == [random |-> Blank, sid |-> Blank, ext |-> Blank, kx |-> None, mlkem |-> None]

\* HKDF of the shared x25519 secret, salted with the random
AuthKey(h) == [kx |-> h.kx, random |-> h.random]
Keys == [kx : Conns \cup {None}, random : Bytes]

Aad(h) == [h EXCEPT !.sid = Zero]

Shares == {"none", "public", "active"}
Scripts == [seed : Conns \cup {None}, at : Nat, calls : Seq(Bytes), swap : Nat, mlkem : Shares]
NoScript == [seed |-> None, at |-> 0, calls |-> <<>>, swap |-> 0, mlkem |-> "none"]

\* mutant: the script is told the number of the draw after the one that was found
NewScript_Next(c, mlkem, swap) ==
    [seed |-> c, at |-> 0, calls |-> <<>>, swap |-> IF swap = 0 THEN 0 ELSE swap + 1, mlkem |-> mlkem]

\* swap: the number of the draw to replace, from 1; 0 for none
NewScript(c, mlkem, swap) ==
    [seed |-> c, at |-> 0, calls |-> <<>>, swap |-> swap, mlkem |-> mlkem]

NotPrepared == [call |-> 0, count |-> 0, key |-> AuthKey(NoHello), aad |-> NoHello]
Answers == [cert : Keys, group : Groups \cup {None}]
NoAnswer  == [cert |-> AuthKey(NoHello), group |-> None]
CoverSite == [cert |-> AuthKey(NoHello), group |-> "x25519"]

VARIABLES
    lib,       \* the libraries the program is built with
    pc,        \* each connection: "new", "passA", "prepared", "passB", "wait",
               \* "sent", "up", "failed" or "timeout"
    run,       \* each thread: the connection it is running without an await
    script,    \* each thread: SCRIPT
    left,      \* steps rustls still has to make in this pass
    hello,     \* the ClientHello as far as it is built
    share,     \* what rustls holds of the ML-KEM pair
    prepared,  \* Prepared: draw of the session ID, number of draws, key, and the
               \* AAD that Sealed(c) is sealed over
    answer,    \* the other end's key share and certificate
    late       \* random bytes rustls drew after the ClientHello

connVars == <<pc, left, hello, share, prepared, answer, late>>
vars == <<lib, run, script, connVars>>

Init ==
    /\ lib \in Libraries
    /\ pc = [c \in Conns |-> "new"]
    /\ run = [t \in Threads |-> None]
    /\ script = [t \in Threads |-> NoScript]
    /\ left = [c \in Conns |-> <<>>]
    /\ hello = [c \in Conns |-> NoHello]
    /\ share = [c \in Conns |-> "none"]
    /\ prepared = [c \in Conns |-> NotPrepared]
    /\ answer = [c \in Conns |-> NoAnswer]
    /\ late = [c \in Conns |-> Blank]

---------------------------------------------------------------------------
(* The provider: ScriptedRandom and the two key exchange groups             *)

\* mutant: one slot for the whole process
Slot_Shared(t) == CHOOSE u \in Threads : TRUE

\* Each thread has a script slot of its own.
Slot(t) == t

\* ScriptedRandom::fill of w units for connection c, under script s
Filled(s, c, w) ==
    IF s.seed = None THEN Os(c, w)
    ELSE IF s.swap = Len(s.calls) + 1 /\ w = 2 THEN Sealed(s.seed)
    ELSE Stream(s.seed, s.at, w)

\* mutant: a replaced draw takes nothing off the stream
AfterFill_Kept(s, w, bytes) ==
    IF s.seed = None THEN s
    ELSE [s EXCEPT !.at = IF bytes.src = "sealed" THEN @ ELSE @ + w, !.calls = Append(@, bytes)]

\* A replaced draw takes its bytes off the stream all the same.
AfterFill(s, w, bytes) ==
    IF s.seed = None THEN s ELSE [s EXCEPT !.at = @ + w, !.calls = Append(@, bytes)]

InPass(c, t) == run[t] = c /\ pc[c] \in {"passA", "passB"} /\ left[c] # <<>>

Draw(c, t) ==
    /\ InPass(c, t) /\ Head(left[c]) \in Draws
    /\ LET f == Head(left[c])
           bytes == Filled(script[Slot(t)], c, Width(f))
       IN  /\ hello' = [hello EXCEPT ![c] = [@ EXCEPT ![f] = bytes]]
           /\ script' = [script EXCEPT ![Slot(t)] = AfterFill(@, Width(f), bytes)]
    /\ left' = [left EXCEPT ![c] = Tail(@)]
    /\ UNCHANGED <<lib, pc, run, share, prepared, answer, late>>

\* A group that finds no script refuses to start, and so does the hybrid one when
\* the script has no ML-KEM share (any more).
CanStart(s, g) == s.seed # None /\ (g = "hybrid" => s.mlkem # "none")

\* ScriptedX25519Mlkem768::start takes the ML-KEM share out of the script.
StartHybrid(c, t) ==
    /\ InPass(c, t) /\ Head(left[c]) = "hybrid"
    /\ LET s == script[Slot(t)]
       IN  /\ CanStart(s, "hybrid")
           /\ hello' = [hello EXCEPT ![c] = [@ EXCEPT !.kx = s.seed, !.mlkem = s.seed]]
           /\ share' = [share EXCEPT ![c] = s.mlkem]
    /\ script' = [script EXCEPT ![Slot(t)].mlkem = "none"]
    /\ left' = [left EXCEPT ![c] = Tail(@)]
    /\ UNCHANGED <<lib, pc, run, prepared, answer, late>>

\* The build fails.
GroupRefused(c, t) ==
    /\ InPass(c, t) /\ Head(left[c]) \in Groups
    /\ ~CanStart(script[Slot(t)], Head(left[c]))
    /\ hello' = [hello EXCEPT ![c] = NoHello]
    /\ left' = [left EXCEPT ![c] = <<>>]
    /\ UNCHANGED <<lib, pc, run, script, share, prepared, answer, late>>

StartX25519(c, t) ==
    /\ InPass(c, t) /\ Head(left[c]) = "x25519"
    /\ CanStart(script[Slot(t)], "x25519")
    /\ hello' = [hello EXCEPT ![c].kx = script[Slot(t)].seed]
    /\ left' = [left EXCEPT ![c] = Tail(@)]
    /\ UNCHANGED <<lib, pc, run, script, share, prepared, answer, late>>

---------------------------------------------------------------------------
(* connect                                                                  *)

Goto(c, at) == pc' = [pc EXCEPT ![c] = at]

Begin(c, t) ==
    /\ pc[c] = "new" /\ run[t] = None
    /\ run' = [run EXCEPT ![t] = c]
    /\ script' = [script EXCEPT ![Slot(t)] = NewScript(c, "public", 0)]
    /\ left' = [left EXCEPT ![c] = lib.steps]
    /\ Goto(c, "passA")
    /\ UNCHANGED <<lib, hello, share, prepared, answer, late>>

\* locate_session_id_call: is i the draw that went into the session ID?
IsSessionIdCall(i, calls, h) == i \in 1..Len(calls) /\ calls[i] = h.sid

\* mutant: the script stays until the next one replaces it
PassOver_Left(s) == s

\* with_script takes the script back, whatever became of the build.
PassOver(s) == NoScript

Seal(c, t) ==
    /\ run[t] = c /\ pc[c] = "passA" /\ left[c] = <<>>
    /\ LET calls == script[Slot(t)].calls
       IN  \E i \in 1..Len(calls) :
               /\ IsSessionIdCall(i, calls, hello[c])
               /\ prepared' = [prepared EXCEPT ![c] =
                      [call |-> i, count |-> Len(calls), key |-> AuthKey(hello[c]), aad |-> Aad(hello[c])]]
    /\ script' = [script EXCEPT ![Slot(t)] = PassOver(@)]
    /\ Goto(c, "prepared")
    /\ UNCHANGED <<lib, run, left, hello, share, answer, late>>

\* No ClientHello came out, or no draw went into its session ID.
CannotSeal(c, t) ==
    /\ run[t] = c /\ pc[c] = "passA" /\ left[c] = <<>>
    /\ LET calls == script[Slot(t)].calls
       IN  \A i \in 1..Len(calls) : ~IsSessionIdCall(i, calls, hello[c])
    /\ script' = [script EXCEPT ![Slot(t)] = PassOver(@)]
    /\ run' = [run EXCEPT ![t] = None]
    /\ Goto(c, "failed")
    /\ UNCHANGED <<lib, left, hello, share, prepared, answer, late>>

BeginB(c, t) ==
    /\ run[t] = c /\ pc[c] = "prepared"
    /\ script' = [script EXCEPT ![Slot(t)] = NewScript(c, "active", prepared[c].call)]
    /\ left' = [left EXCEPT ![c] = SubSeq(lib.steps, 1, lib.inside)]
    /\ hello' = [hello EXCEPT ![c] = NoHello]
    /\ share' = [share EXCEPT ![c] = "none"]
    /\ Goto(c, "passB")
    /\ UNCHANGED <<lib, run, prepared, answer, late>>

\* mutant: the number of draws is not compared
SelfCheck_NoCount(c, calls) ==
    prepared[c].call \in 1..Len(calls) => calls[prepared[c].call] = Sealed(c)

SelfCheck(c, calls) ==
    /\ Len(calls) = prepared[c].count
    /\ calls[prepared[c].call] = Sealed(c)

PassBOver(c, t) ==
    /\ run[t] = c /\ pc[c] = "passB" /\ left[c] = <<>>
    /\ script' = [script EXCEPT ![Slot(t)] = PassOver(@)]
    /\ IF SelfCheck(c, script[Slot(t)].calls)
         THEN run' = run /\ Goto(c, "wait")
         ELSE run' = [run EXCEPT ![t] = None] /\ Goto(c, "failed")
    /\ UNCHANGED <<lib, left, hello, share, prepared, answer, late>>

---------------------------------------------------------------------------
(* The handshake, outside any script                                        *)

\* What rustls had not done before connect() returned it does now. The first
\* poll follows without an await.
Postponed == {lib.steps[i] : i \in (lib.inside + 1)..Len(lib.steps)}

Send(c, t) ==
    /\ run[t] = c /\ pc[c] = "wait"
    /\ hello' = [hello EXCEPT ![c] =
           [f \in DOMAIN @ |-> IF f \in Postponed THEN Filled(script[Slot(t)], c, Width(f)) ELSE @[f]]]
    /\ Goto(c, IF Postponed \cap Groups = {} THEN "sent" ELSE "failed")
    /\ run' = [run EXCEPT ![t] = None]
    /\ UNCHANGED <<lib, script, left, share, prepared, answer, late>>

\* The server (external) derives the key from the ClientHello's own x25519 share
\* and random, and opens the session ID over the message with that zeroed.
Opens(h) ==
    \E c \in Conns : h.sid = Sealed(c) /\ prepared[c].key = AuthKey(h) /\ prepared[c].aad = Aad(h)

\* The groups it may choose from: those the message has a share of
Offered(h) == {g \in Groups : IF g = "hybrid" THEN h.mlkem # None ELSE h.kx # None}

\* A certificate made with the key, or the cover site's from the server or from
\* whatever else is at the address.
Answer(c) ==
    /\ pc[c] = "sent" /\ answer[c] = NoAnswer
    /\ \/ \E g \in Offered(hello[c]) : Opens(hello[c])
              /\ answer' = [answer EXCEPT ![c] = [cert |-> AuthKey(hello[c]), group |-> g]]
       \/ answer' = [answer EXCEPT ![c] = CoverSite]
    /\ UNCHANGED <<lib, run, script, pc, left, hello, share, prepared, late>>

\* The public half of an ML-KEM pair cannot complete the hybrid exchange.
Completes(c) == answer[c].group = "hybrid" => share[c] = "active"

\* RealityVerifier: the certificate is made with the key of this connection.
Verified(c) == answer[c].cert = prepared[c].key

\* The task is polled on any thread that is free, and rustls may draw again.
Finish(c, t) ==
    /\ pc[c] = "sent" /\ answer[c] # NoAnswer /\ run[t] = None
    /\ late' = [late EXCEPT ![c] = Filled(script[Slot(t)], c, 2)]
    /\ Goto(c, IF Completes(c) /\ Verified(c) THEN "up" ELSE "failed")
    /\ UNCHANGED <<lib, run, script, left, hello, share, prepared, answer>>

Timeout(c) ==
    /\ pc[c] = "sent"
    /\ Goto(c, "timeout")
    /\ UNCHANGED <<lib, run, script, left, hello, share, prepared, answer, late>>

---------------------------------------------------------------------------
Next ==
    \E c \in Conns :
        \/ \E t \in Threads :
              \/ Begin(c, t) \/ Draw(c, t) \/ StartHybrid(c, t) \/ GroupRefused(c, t)
              \/ StartX25519(c, t) \/ Seal(c, t) \/ CannotSeal(c, t) \/ BeginB(c, t)
              \/ PassBOver(c, t) \/ Send(c, t) \/ Finish(c, t)
        \/ Answer(c) \/ Timeout(c)

Spec == Init /\ [][Next]_vars

---------------------------------------------------------------------------
\* The type invariant; a slot holds a script only of the connection its thread
\* is running.
TypeOK ==
    /\ lib \in Libraries
    /\ pc \in [Conns -> {"new", "passA", "prepared", "passB", "wait", "sent", "up", "failed", "timeout"}]
    /\ run \in [Threads -> Conns \cup {None}]
    /\ script \in [Threads -> Scripts]
    /\ \A t \in Threads : script[t].seed \in {run[t], None}
    /\ left \in [Conns -> Seq(Draws \cup Groups)]
    /\ hello \in [Conns -> Hello]
    /\ share \in [Conns -> Shares]
    /\ prepared \in [Conns -> [call : Nat, count : Nat, key : Keys, aad : Hello]]
    /\ answer \in [Conns -> Answers]
    /\ late \in [Conns -> Bytes]

\* Whatever the libraries do, a ClientHello that is sent is byte for byte, the
\* session ID apart, the one its session ID was sealed over, the server can open
\* it, and the secret half of an ML-KEM share in it is at hand: the replay, the
\* self-check of connect and the groups that refuse to start (reality.rs).
SentIsSealed ==
    \A c \in Conns : pc[c] \in {"sent", "up"} =>
        /\ hello[c].sid = Sealed(c) /\ Opens(hello[c])
        /\ hello[c].mlkem # None => share[c] = "active"

\* No connection gets random bytes or keys of another one's script, and what
\* rustls draws after the ClientHello never comes from a script (SCRIPT and
\* with_script in reality.rs).
OwnDraws ==
    \A c \in Conns :
        /\ \A f \in Draws : hello[c][f].of \in {c, None}
        /\ hello[c].kx \in {c, None} /\ hello[c].mlkem \in {c, None}
        /\ late[c].src \in {"none", "os"}

\* Libraries of which connect's two passes make the same ClientHello
Suitable(l) ==
    /\ l.inside = Len(l.steps)
    /\ \E i \in 1..Len(l.steps) : l.steps[i] = "sid"
    /\ \A i, j \in 1..Len(l.steps) : l.steps[i] = "hybrid" /\ l.steps[j] = "hybrid" => i = j

\* A handshake fails only for a reason outside: libraries that do not build the
\* message in one go, or an answer without the server's certificate (connect and
\* prepare in reality.rs).
RefusedForCause ==
    \A c \in Conns : pc[c] = "failed" => ~Suitable(lib) \/ answer[c] = CoverSite
=============================================================================
