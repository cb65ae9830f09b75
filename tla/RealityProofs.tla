--------------------------- MODULE RealityProofs ----------------------------
(***************************************************************************)
(* No connection sees another one's script, whatever the libraries do and   *)
(* however many connections share the threads (reality.rs `with_script`).   *)
(* What is sent is what was sealed, and what is refused had to be (prepare  *)
(* and connect).                                                            *)
(***************************************************************************)
EXTENDS Reality, TLAPS

Busy == {"passA", "prepared", "passB", "wait"}

\* A thread runs a connection that is busy, a connection is run by one thread,
\* and a script is there only during a pass.
Running ==
    /\ \A t \in Threads : run[t] # None => pc[run[t]] \in Busy
    /\ \A t, u \in Threads : run[t] # None /\ run[t] = run[u] => t = u
    /\ \A t \in Threads : script[t].seed # None => pc[run[t]] \in {"passA", "passB"}

IInv == TypeOK /\ Running /\ OwnDraws

USE DEF Slot, Goto

---------------------------------------------------------------------------
(* Types of the values                                                      *)

LEMMA ConstantTypes ==
    /\ Blank \in Bytes /\ Zero \in Bytes
    /\ NoHello \in Hello /\ NoScript \in Scripts
    /\ NotPrepared \in [call : Nat, count : Nat, key : Keys, aad : Hello]
    /\ NoAnswer \in Answers /\ CoverSite \in Answers
  <1>1. Blank \in Bytes /\ Zero \in Bytes
    BY DEF Blank, Zero, Bytes
  <1>2. NoHello \in Hello
    BY <1>1 DEF NoHello, Hello
  <1>3. NoScript \in Scripts
    BY DEF NoScript, Scripts, Shares
  <1>4. AuthKey(NoHello) \in Keys
    BY <1>1 DEF AuthKey, NoHello, Keys
  <1> QED
    BY <1>1, <1>2, <1>3, <1>4 DEF NotPrepared, NoAnswer, CoverSite, Answers, Groups

LEMMA HelloTypes ==
    ASSUME NEW h \in Hello
    PROVE  AuthKey(h) \in Keys /\ Aad(h) \in Hello
  BY ConstantTypes DEF Hello, AuthKey, Keys, Aad

LEMMA NewScriptType ==
    ASSUME NEW c \in Conns, NEW m \in Shares, NEW n \in Nat
    PROVE  NewScript(c, m, n) \in Scripts /\ NewScript(c, m, n).seed = c
  BY DEF NewScript, Scripts

\* A draw under a connection's own script, or under none, is its own.
LEMMA FilledType ==
    ASSUME NEW c \in Conns, NEW s \in Scripts, NEW w \in {1, 2}, s.seed \in {c, None}
    PROVE  /\ Filled(s, c, w) \in Bytes
           /\ Filled(s, c, w).of = c
           /\ s.seed = None => Filled(s, c, w).src = "os"
  BY DEF Filled, Bytes, Scripts, Os, Sealed, Stream

LEMMA AfterFillType ==
    ASSUME NEW s \in Scripts, NEW w \in {1, 2}, NEW b \in Bytes
    PROVE  AfterFill(s, w, b) \in Scripts /\ AfterFill(s, w, b).seed = s.seed
  <1>1. Append(s.calls, b) \in Seq(Bytes) /\ s.at + w \in Nat
    BY DEF Scripts
  <1>2. [s EXCEPT !.at = s.at + w, !.calls = Append(s.calls, b)] \in Scripts
    BY <1>1 DEF Scripts
  <1>3. [s EXCEPT !.at = s.at + w, !.calls = Append(s.calls, b)].seed = s.seed
    BY DEF Scripts
  <1> QED
    BY <1>2, <1>3 DEF AfterFill

LEMMA WidthType == \A f : Width(f) \in {1, 2}
  BY DEF Width

---------------------------------------------------------------------------
LEMMA InitIInv == Init => IInv
  <1> SUFFICES ASSUME Init PROVE IInv
    OBVIOUS
  <1>1. TypeOK
    BY ConstantTypes DEF Init, TypeOK, NoScript, Shares
  <1>2. Running
    BY DEF Init, Running, NoScript
  <1>3. OwnDraws
    <2>1. Blank.of = None /\ Blank.src = "none"
      BY DEF Blank
    <2>2. \A f \in Draws : NoHello[f] = Blank
      BY DEF NoHello, Draws
    <2>3. NoHello.kx = None /\ NoHello.mlkem = None
      BY DEF NoHello
    <2> QED
      BY <2>1, <2>2, <2>3 DEF Init, OwnDraws
  <1> QED
    BY <1>1, <1>2, <1>3 DEF IInv

LEMMA BeginStep == ASSUME NEW c \in Conns, NEW t \in Threads, IInv, Begin(c, t) PROVE IInv'
  <1> USE DEF IInv
  <1>1. NewScript(c, "public", 0) \in Scripts /\ NewScript(c, "public", 0).seed = c
    BY NewScriptType DEF Shares
  <1>2. lib.steps \in Seq(Draws \cup Groups)
    BY LibrariesAssumption DEF TypeOK
  <1>3. TypeOK'
    BY <1>1, <1>2, NoneAssumption DEF TypeOK, Begin
  <1>4. \A u \in Threads : run[u] # c
    BY NoneAssumption DEF Running, Begin, Busy
  <1>5. Running'
    BY <1>1, <1>4, NoneAssumption DEF TypeOK, Running, Begin, Busy
  <1>6. OwnDraws'
    BY DEF OwnDraws, Begin
  <1> QED
    BY <1>3, <1>5, <1>6

LEMMA DrawStep == ASSUME NEW c \in Conns, NEW t \in Threads, IInv, Draw(c, t) PROVE IInv'
  <1> USE DEF IInv
  <1> DEFINE f == Head(left[c])
             s == script[t]
             bytes == Filled(s, c, Width(f))
             after == AfterFill(s, Width(f), bytes)
  <1>1. f \in Draws /\ s \in Scripts /\ s.seed \in {c, None} /\ run[t] = c
    BY DEF TypeOK, Draw, InPass
  <1>2. bytes \in Bytes /\ bytes.of = c
    BY <1>1, FilledType, WidthType
  <1>3. after \in Scripts /\ after.seed = s.seed
    BY <1>1, <1>2, AfterFillType, WidthType
  <1>4. /\ hello' = [hello EXCEPT ![c] = [hello[c] EXCEPT ![f] = bytes]]
        /\ script' = [script EXCEPT ![t] = after]
        /\ left' = [left EXCEPT ![c] = Tail(left[c])]
        /\ left[c] # <<>>
        /\ UNCHANGED <<lib, pc, run, share, prepared, answer, late>>
    BY DEF TypeOK, Draw, InPass
  <1> HIDE DEF f, s, bytes, after
  <1>5. [hello[c] EXCEPT ![f] = bytes] \in Hello
    <2>1. hello[c] \in Hello
      BY DEF TypeOK
    <2>2. CASE f = "random"
      BY <1>2, <2>1, <2>2 DEF Hello
    <2>3. CASE f = "sid"
      BY <1>2, <2>1, <2>3 DEF Hello
    <2>4. CASE f = "ext"
      BY <1>2, <2>1, <2>4 DEF Hello
    <2> QED
      BY <1>1, <2>2, <2>3, <2>4 DEF Draws
  <1>6. Tail(left[c]) \in Seq(Draws \cup Groups)
    BY <1>4 DEF TypeOK
  <1>7. TypeOK'
    <2>1. script' \in [Threads -> Scripts] /\ \A u \in Threads : script'[u].seed = script[u].seed
      BY <1>3, <1>4 DEF TypeOK, s
    <2>2. hello' \in [Conns -> Hello] /\ left' \in [Conns -> Seq(Draws \cup Groups)]
      BY <1>4, <1>5, <1>6 DEF TypeOK
    <2> QED
      BY <1>4, <2>1, <2>2 DEF TypeOK
  <1>8. Running'
    BY <1>3, <1>4 DEF TypeOK, Running, s
  <1>9. OwnDraws'
    <2> SUFFICES ASSUME NEW d \in Conns
                 PROVE  /\ \A g \in Draws : hello'[d][g].of \in {d, None}
                        /\ hello'[d].kx \in {d, None} /\ hello'[d].mlkem \in {d, None}
      BY <1>4 DEF OwnDraws
    <2>1. CASE d = c
      <3>1. hello'[d] = [hello[c] EXCEPT ![f] = bytes] /\ hello[c] \in Hello
        BY <1>4, <2>1 DEF TypeOK
      <3> QED
        BY <1>1, <1>2, <2>1, <3>1 DEF OwnDraws, Hello, Draws
    <2>2. CASE d # c
      BY <1>4, <2>2 DEF TypeOK, OwnDraws
    <2> QED
      BY <2>1, <2>2
  <1> QED
    BY <1>7, <1>8, <1>9

---------------------------------------------------------------------------
\* The groups take their keys from the thread's script, which is the connection's.
LEMMA StartHybridStep ==
    ASSUME NEW c \in Conns, NEW t \in Threads, IInv, StartHybrid(c, t) PROVE IInv'
  <1> USE DEF IInv
  <1> DEFINE s == script[t]
  <1>1. s \in Scripts /\ s.seed = c /\ hello[c] \in Hello
    BY DEF TypeOK, StartHybrid, InPass, CanStart
  <1>2. /\ hello' = [hello EXCEPT ![c] = [hello[c] EXCEPT !.kx = s.seed, !.mlkem = s.seed]]
        /\ share' = [share EXCEPT ![c] = s.mlkem]
        /\ script' = [script EXCEPT ![t] = [s EXCEPT !.mlkem = "none"]]
        /\ left' = [left EXCEPT ![c] = Tail(left[c])]
        /\ left[c] # <<>>
        /\ UNCHANGED <<lib, pc, run, prepared, answer, late>>
    BY DEF TypeOK, StartHybrid, InPass
  <1> HIDE DEF s
  <1>3. [s EXCEPT !.mlkem = "none"] \in Scripts /\ [s EXCEPT !.mlkem = "none"].seed = s.seed
    BY <1>1 DEF Scripts, Shares
  <1>4. [hello[c] EXCEPT !.kx = s.seed, !.mlkem = s.seed] \in Hello /\ s.mlkem \in Shares
    BY <1>1 DEF Hello, Scripts
  <1>5. Tail(left[c]) \in Seq(Draws \cup Groups)
    BY <1>2 DEF TypeOK
  <1>6. script' \in [Threads -> Scripts] /\ \A u \in Threads : script'[u].seed = script[u].seed
    BY <1>2, <1>3 DEF TypeOK, s
  <1>7. TypeOK'
    BY <1>2, <1>4, <1>5, <1>6 DEF TypeOK
  <1>8. Running'
    BY <1>2, <1>6 DEF Running
  <1>9. OwnDraws'
    BY <1>1, <1>2 DEF TypeOK, OwnDraws, Hello, Draws
  <1> QED
    BY <1>7, <1>8, <1>9

LEMMA StartX25519Step ==
    ASSUME NEW c \in Conns, NEW t \in Threads, IInv, StartX25519(c, t) PROVE IInv'
  <1> USE DEF IInv
  <1>1. script[t].seed = c /\ hello[c] \in Hello
    BY DEF TypeOK, StartX25519, InPass, CanStart
  <1>2. /\ hello' = [hello EXCEPT ![c] = [hello[c] EXCEPT !.kx = c]]
        /\ left' = [left EXCEPT ![c] = Tail(left[c])]
        /\ left[c] # <<>>
        /\ UNCHANGED <<lib, pc, run, script, share, prepared, answer, late>>
    BY <1>1 DEF TypeOK, StartX25519, InPass
  <1>3. [hello[c] EXCEPT !.kx = c] \in Hello
    BY <1>1 DEF Hello
  <1>4. Tail(left[c]) \in Seq(Draws \cup Groups)
    BY <1>2 DEF TypeOK
  <1>5. TypeOK'
    BY <1>2, <1>3, <1>4 DEF TypeOK
  <1>6. Running'
    BY <1>2 DEF Running
  <1>7. OwnDraws'
    BY <1>1, <1>2 DEF TypeOK, OwnDraws, Hello, Draws
  <1> QED
    BY <1>5, <1>6, <1>7

\* An empty ClientHello is nobody's.
LEMMA NoHelloOwn ==
    ASSUME NEW c \in Conns
    PROVE  /\ \A f \in Draws : NoHello[f].of = None
           /\ NoHello.kx = None /\ NoHello.mlkem = None
  BY DEF NoHello, Blank, Draws

LEMMA GroupRefusedStep ==
    ASSUME NEW c \in Conns, NEW t \in Threads, IInv, GroupRefused(c, t) PROVE IInv'
  <1> USE DEF IInv
  <1>1. TypeOK'
    BY ConstantTypes DEF TypeOK, GroupRefused
  <1>2. Running'
    BY DEF Running, GroupRefused
  <1>3. OwnDraws'
    BY NoHelloOwn DEF TypeOK, OwnDraws, GroupRefused
  <1> QED
    BY <1>1, <1>2, <1>3

---------------------------------------------------------------------------
\* The end of a pass takes the script back.
LEMMA SealStep == ASSUME NEW c \in Conns, NEW t \in Threads, IInv, Seal(c, t) PROVE IInv'
  <1> USE DEF IInv
  <1>1. PICK i \in 1..Len(script[t].calls) :
           prepared' = [prepared EXCEPT ![c] =
               [call |-> i, count |-> Len(script[t].calls), key |-> AuthKey(hello[c]), aad |-> Aad(hello[c])]]
    BY DEF Seal
  <1>2. Len(script[t].calls) \in Nat /\ hello[c] \in Hello
    BY DEF TypeOK, Scripts
  <1>3. prepared' \in [Conns -> [call : Nat, count : Nat, key : Keys, aad : Hello]]
    BY <1>1, <1>2, HelloTypes DEF TypeOK
  <1>4. NoScript.seed = None
    BY DEF NoScript
  <1>5. TypeOK'
    BY <1>3, <1>4, ConstantTypes DEF TypeOK, Seal, PassOver
  <1>6. Running'
    BY <1>4 DEF TypeOK, Running, Seal, PassOver, Busy
  <1>7. OwnDraws'
    BY DEF OwnDraws, Seal
  <1> QED
    BY <1>5, <1>6, <1>7

LEMMA CannotSealStep ==
    ASSUME NEW c \in Conns, NEW t \in Threads, IInv, CannotSeal(c, t) PROVE IInv'
  <1> USE DEF IInv
  <1>1. NoScript.seed = None
    BY DEF NoScript
  <1>2. TypeOK'
    BY <1>1, ConstantTypes DEF TypeOK, CannotSeal, PassOver
  <1>3. Running'
    BY <1>1, NoneAssumption DEF TypeOK, Running, CannotSeal, PassOver, Busy
  <1>4. OwnDraws'
    BY DEF OwnDraws, CannotSeal
  <1> QED
    BY <1>2, <1>3, <1>4

LEMMA BeginBStep == ASSUME NEW c \in Conns, NEW t \in Threads, IInv, BeginB(c, t) PROVE IInv'
  <1> USE DEF IInv
  <1> DEFINE new == NewScript(c, "active", prepared[c].call)
  <1>1. new \in Scripts /\ new.seed = c
    BY NewScriptType DEF TypeOK, Shares
  <1>2. SubSeq(lib.steps, 1, lib.inside) \in Seq(Draws \cup Groups)
    BY LibrariesAssumption DEF TypeOK
  <1>3. script' = [script EXCEPT ![t] = new]
    BY DEF BeginB
  <1> HIDE DEF new
  <1>4. TypeOK'
    BY <1>1, <1>2, <1>3, ConstantTypes DEF TypeOK, BeginB, Shares
  <1>5. Running'
    BY <1>1, <1>3 DEF TypeOK, Running, BeginB, Busy
  <1>6. OwnDraws'
    BY NoHelloOwn DEF TypeOK, OwnDraws, BeginB
  <1> QED
    BY <1>4, <1>5, <1>6

LEMMA PassBOverStep ==
    ASSUME NEW c \in Conns, NEW t \in Threads, IInv, PassBOver(c, t) PROVE IInv'
  <1> USE DEF IInv
  <1>1. NoScript.seed = None
    BY DEF NoScript
  <1>2. /\ script' = [script EXCEPT ![t] = NoScript]
        /\ \/ run' = run /\ pc' = [pc EXCEPT ![c] = "wait"]
           \/ run' = [run EXCEPT ![t] = None] /\ pc' = [pc EXCEPT ![c] = "failed"]
        /\ run[t] = c
        /\ UNCHANGED <<lib, left, hello, share, prepared, answer, late>>
    BY DEF PassBOver, PassOver
  <1>3. TypeOK'
    BY <1>1, <1>2, ConstantTypes DEF TypeOK
  <1>4. Running'
    <2>1. \A u \in Threads : script'[u].seed # None => u # t /\ script[u].seed # None
      BY <1>1, <1>2 DEF TypeOK
    <2>2. \A u \in Threads \ {t} : run[u] # c
      BY <1>2, NoneAssumption DEF Running
    <2>3. CASE run' = run /\ pc' = [pc EXCEPT ![c] = "wait"]
      BY <1>2, <2>1, <2>2, <2>3, NoneAssumption DEF TypeOK, Running, Busy
    <2>4. CASE run' = [run EXCEPT ![t] = None] /\ pc' = [pc EXCEPT ![c] = "failed"]
      BY <1>2, <2>1, <2>2, <2>4, NoneAssumption DEF TypeOK, Running, Busy
    <2> QED
      BY <1>2, <2>3, <2>4
  <1>5. OwnDraws'
    BY <1>2 DEF OwnDraws
  <1> QED
    BY <1>3, <1>4, <1>5

---------------------------------------------------------------------------
\* Outside the passes there is no script, and rustls draws from the system.
LEMMA SendStep == ASSUME NEW c \in Conns, NEW t \in Threads, IInv, Send(c, t) PROVE IInv'
  <1> USE DEF IInv
  <1> DEFINE s == script[t]
             put == [f \in DOMAIN hello[c] |->
                       IF f \in Postponed THEN Filled(s, c, Width(f)) ELSE hello[c][f]]
  <1>1. s \in Scripts /\ s.seed = None /\ run[t] = c /\ hello[c] \in Hello
    BY NoneAssumption DEF TypeOK, Running, Send
  <1>2. \A f : Filled(s, c, Width(f)) \in Bytes /\ Filled(s, c, Width(f)).of = c
    BY <1>1, FilledType, WidthType
  <1>3. /\ hello' = [hello EXCEPT ![c] = put]
        /\ \/ pc' = [pc EXCEPT ![c] = "sent"]
           \/ pc' = [pc EXCEPT ![c] = "failed"]
        /\ run' = [run EXCEPT ![t] = None]
        /\ UNCHANGED <<lib, script, left, share, prepared, answer, late>>
    BY DEF TypeOK, Send
  <1>4. Postponed \subseteq Draws \cup Groups
    BY LibrariesAssumption DEF Postponed, TypeOK
  <1>5. put = [random |-> put.random, sid |-> put.sid, ext |-> put.ext,
               kx |-> hello[c].kx, mlkem |-> hello[c].mlkem]
    <2>1. DOMAIN hello[c] = {"random", "sid", "ext", "kx", "mlkem"}
      BY <1>1 DEF Hello
    <2>2. "kx" \notin Postponed /\ "mlkem" \notin Postponed
      BY <1>4 DEF Draws, Groups
    <2> QED
      BY <2>1, <2>2
  <1>6. \A f \in Draws : put[f] \in Bytes /\ put[f].of \in {c, None}
    BY <1>1, <1>2 DEF Hello, Draws, OwnDraws
  <1> HIDE DEF put, s
  <1>7. put \in Hello
    BY <1>1, <1>5, <1>6 DEF Hello, Draws
  <1>8. put.kx = hello[c].kx /\ put.mlkem = hello[c].mlkem
    BY <1>5
  <1>9. TypeOK'
    BY <1>1, <1>3, <1>7 DEF TypeOK, s
  <1>10. Running'
    BY <1>1, <1>3, NoneAssumption DEF TypeOK, Running, s
  <1>11. OwnDraws'
    BY <1>3, <1>6, <1>8 DEF TypeOK, OwnDraws
  <1> QED
    BY <1>9, <1>10, <1>11

LEMMA AnswerStep == ASSUME NEW c \in Conns, IInv, Answer(c) PROVE IInv'
  <1> USE DEF IInv
  <1>1. AuthKey(hello[c]) \in Keys
    BY HelloTypes DEF TypeOK
  <1>2. answer' \in [Conns -> Answers]
    <2>1. \A g \in Groups : [cert |-> AuthKey(hello[c]), group |-> g] \in Answers
      BY <1>1 DEF Answers
    <2> QED
      BY <2>1, ConstantTypes DEF TypeOK, Answer, Offered
  <1>3. TypeOK'
    BY <1>2 DEF TypeOK, Answer
  <1>4. Running' /\ OwnDraws'
    BY DEF Running, OwnDraws, Answer
  <1> QED
    BY <1>3, <1>4

LEMMA FinishStep == ASSUME NEW c \in Conns, NEW t \in Threads, IInv, Finish(c, t) PROVE IInv'
  <1> USE DEF IInv
  <1> DEFINE bytes == Filled(script[t], c, 2)
  <1>1. script[t] \in Scripts /\ script[t].seed = None
    BY DEF TypeOK, Finish
  <1>2. bytes \in Bytes /\ bytes.src = "os"
    BY <1>1, FilledType
  <1>3. /\ late' = [late EXCEPT ![c] = bytes]
        /\ \/ pc' = [pc EXCEPT ![c] = "up"]
           \/ pc' = [pc EXCEPT ![c] = "failed"]
        /\ pc[c] = "sent"
        /\ UNCHANGED <<lib, run, script, left, hello, share, prepared, answer>>
    BY DEF Finish
  <1> HIDE DEF bytes
  <1>4. TypeOK'
    BY <1>2, <1>3 DEF TypeOK
  <1>5. Running'
    <2>1. /\ \A u \in Threads : run[u] \in Conns \cup {None}
          /\ pc' = [pc EXCEPT ![c] = pc'[c]] /\ DOMAIN pc = Conns
      BY <1>3 DEF TypeOK
    <2>2. \A d \in Conns : pc[d] \in Busy => d # c
      BY <1>3 DEF Busy
    <2>3. \A d \in Conns : pc[d] \in Busy => pc'[d] = pc[d]
      BY <2>1, <2>2
    <2>4. \A u \in Threads : run[u] # None => run[u] \in Conns /\ pc[run[u]] \in Busy
      BY <2>1 DEF Running
    <2>5. \A u \in Threads : run[u] # None => pc'[run[u]] = pc[run[u]]
      BY <2>3, <2>4
    <2>6. \A u \in Threads : script[u].seed # None => run[u] # None
      BY <2>1 DEF Running, TypeOK
    <2> QED
      BY <1>3, <2>5, <2>6 DEF Running
  <1>6. OwnDraws'
    BY <1>2, <1>3 DEF TypeOK, OwnDraws
  <1> QED
    BY <1>4, <1>5, <1>6

LEMMA TimeoutStep == ASSUME NEW c \in Conns, IInv, Timeout(c) PROVE IInv'
  <1> USE DEF IInv
  <1>1. TypeOK'
    BY DEF TypeOK, Timeout
  <1>2. Running'
    BY DEF TypeOK, Running, Timeout, Busy
  <1>3. OwnDraws'
    BY DEF OwnDraws, Timeout
  <1> QED
    BY <1>1, <1>2, <1>3

LEMMA NextStep == IInv /\ [Next]_vars => IInv'
  <1> SUFFICES ASSUME IInv, [Next]_vars PROVE IInv'
    OBVIOUS
  <1>1. CASE UNCHANGED vars
    BY <1>1 DEF IInv, TypeOK, Running, OwnDraws, vars, connVars
  <1>2. CASE Next
    BY <1>2, BeginStep, DrawStep, StartHybridStep, GroupRefusedStep, StartX25519Step, SealStep,
       CannotSealStep, BeginBStep, PassBOverStep, SendStep, AnswerStep, FinishStep, TimeoutStep
       DEF Next
  <1> QED
    BY <1>1, <1>2

---------------------------------------------------------------------------
\* The types, and that a slot only ever holds a script of the connection its
\* thread is running (reality.rs SCRIPT), for any connections, threads, libraries.
THEOREM RealityTypes == Spec => []TypeOK
  <1>1. IInv => TypeOK
    BY DEF IInv
  <1> QED
    BY InitIInv, NextStep, <1>1, PTL DEF Spec

\* No connection ever gets random bytes or keys of another one's script, and no
\* script outlives its pass (reality.rs with_script), for any connections,
\* threads and libraries.
THEOREM RealityOwnDraws == Spec => []OwnDraws
  <1>1. IInv => OwnDraws
    BY DEF IInv
  <1> QED
    BY InitIInv, NextStep, <1>1, PTL DEF Spec

---------------------------------------------------------------------------
(***************************************************************************)
(* What is sent is what was sealed. Pass B is compared with pass A step by *)
(* step: a trace T has, for each number of steps, where in the seed's      *)
(* stream pass A was, how many draws it had made, its message, and which   *)
(* draw last went into the session ID.                                     *)
(***************************************************************************)
Total == Len(lib.steps)

TraceStates == [at : Nat, count : Nat, hello : Hello, last : Nat]
Start == [at |-> 0, count |-> 0, hello |-> NoHello, last |-> 0]

\* What a step makes of st in pass A
Built(c, st, f) ==
    IF f \in Draws
    THEN [at    |-> st.at + Width(f), count |-> st.count + 1,
          hello |-> [st.hello EXCEPT ![f] = Stream(c, st.at, Width(f))],
          last  |-> IF f = "sid" THEN st.count + 1 ELSE st.last]
    ELSE IF f = "hybrid" THEN [st EXCEPT !.hello = [st.hello EXCEPT !.kx = c, !.mlkem = c]]
    ELSE [st EXCEPT !.hello = [st.hello EXCEPT !.kx = c]]

\* T is pass A's way through the first k steps.
Trace(c, T, k) ==
    /\ k \in 0..Total /\ T \in [0..Total -> TraceStates] /\ T[0] = Start
    /\ \A i \in 0..(k - 1) : /\ T[i + 1] = Built(c, T[i], lib.steps[i + 1])
                             /\ lib.steps[i + 1] = "hybrid" => T[i].hello.mlkem = None
    /\ \A i, j \in 0..k : i <= j => T[i].count <= T[j].count /\ T[i].last <= T[j].last
    /\ T[k].last <= T[k].count /\ (T[k].last = 0 => T[k].hello.sid = Blank)
    /\ \A i \in 0..(k - 1) :
          lib.steps[i + 1] \in Draws /\ T[i].count + 1 = T[k].last => lib.steps[i + 1] = "sid"
    /\ T[k].hello.mlkem # None => \E i \in 1..k : lib.steps[i] = "hybrid"

\* q has the steps from k up to m.
Ahead(q, k, m) == /\ k \in 0..m /\ Len(q) = m - k
                  /\ \A i \in 1..(m - k) : q[i] = lib.steps[k + i]

\* The draws of a script that replaces none: no two have the same name.
Distinct(s) ==
    /\ \A i \in 1..Len(s.calls) : s.calls[i].src = "seed" /\ s.calls[i].at < s.at
    /\ \A i, j \in 1..Len(s.calls) : i < j => s.calls[i].at < s.calls[j].at

\* Script and message in pass A are where its trace is,
FollowsA(c, s, h, st) ==
    /\ s.seed = c /\ s.swap = 0 /\ s.at = st.at /\ Len(s.calls) = st.count
    /\ h = st.hello
    /\ s.mlkem # "none" <=> h.mlkem = None
    /\ st.last <= st.count /\ (st.last > 0 => s.calls[st.last] = h.sid)
    /\ Distinct(s)

\* and in pass B too, up to the session ID that is put in at the draw `swap`.
FollowsB(c, s, h, sh, st, swap) ==
    /\ s.seed = c /\ s.swap = swap /\ s.at = st.at /\ Len(s.calls) = st.count
    /\ \A f \in {"random", "ext", "kx", "mlkem"} : h[f] = st.hello[f]
    /\ st.last = swap => h.sid = Sealed(c)
    /\ st.count >= swap => s.calls[swap] = Sealed(c)
    /\ s.mlkem = IF h.mlkem = None THEN "active" ELSE "none"
    /\ h.mlkem # None => sh = "active"

PassA(c, s) ==
    \/ left[c] = <<>> /\ hello[c].sid = Blank /\ ~Suitable(lib) /\ Distinct(s)
    \/ \E T, k : Trace(c, T, k) /\ Ahead(left[c], k, Total) /\ FollowsA(c, s, hello[c], T[k])

\* What Prepared says of pass A
Recorded(c, T) ==
    /\ Trace(c, T, Total) /\ T[Total].last > 0
    /\ prepared[c] = [call |-> T[Total].last, count |-> T[Total].count,
                      key |-> AuthKey(T[Total].hello), aad |-> Aad(T[Total].hello)]

PassB(c, s) ==
    \E T, k : /\ Recorded(c, T) /\ Ahead(left[c], k, lib.inside)
              /\ FollowsB(c, s, hello[c], share[c], T[k], T[Total].last)

\* The message is the one that was sealed, and a hybrid share can be completed.
Good(c) ==
    /\ hello[c].sid = Sealed(c)
    /\ prepared[c].key = AuthKey(hello[c]) /\ prepared[c].aad = Aad(hello[c])
    /\ hello[c].mlkem # None => share[c] = "active"

AnswerFits(c) ==
    \/ answer[c] \in {NoAnswer, CoverSite}
    \/ answer[c].cert = AuthKey(hello[c]) /\ answer[c].group \in Offered(hello[c])

Replay(c) ==
    /\ pc[c] = "new" => hello[c] = NoHello
    /\ pc[c] \in Busy \cup {"new"} => answer[c] = NoAnswer
    /\ pc[c] = "passA" => \A t \in Threads : run[t] = c => PassA(c, script[t])
    /\ pc[c] = "prepared" => \E T : Recorded(c, T)
    /\ pc[c] = "passB" => \A t \in Threads : run[t] = c => PassB(c, script[t])
    /\ pc[c] = "wait" => Postponed \cap Draws = {} /\ (Postponed = {} => Good(c))
    /\ pc[c] \in {"sent", "up"} => Good(c) /\ AnswerFits(c)
    /\ pc[c] = "failed" => ~Suitable(lib) \/ answer[c] = CoverSite

Replays == \A c \in Conns : Replay(c)

---------------------------------------------------------------------------
(* Steps of a trace                                                         *)

LEMMA BuiltType ==
    ASSUME NEW c \in Conns, NEW st \in TraceStates, NEW f \in Draws \cup Groups
    PROVE  Built(c, st, f) \in TraceStates
  <1>1. st.hello \in Hello /\ st.at \in Nat /\ st.count \in Nat /\ st.last \in Nat
    BY DEF TraceStates
  <1>2. Width(f) \in {1, 2}
    BY WidthType
  <1>3. CASE f \in Draws
    <2> DEFINE bytes == Stream(c, st.at, Width(f))
    <2>1. bytes \in Bytes
      BY <1>1, <1>2 DEF Stream, Bytes
    <2> HIDE DEF bytes
    <2>2. [st.hello EXCEPT ![f] = bytes] \in Hello
      <3>1. CASE f = "random"
        BY <1>1, <2>1, <3>1 DEF Hello
      <3>2. CASE f = "sid"
        BY <1>1, <2>1, <3>2 DEF Hello
      <3>3. CASE f = "ext"
        BY <1>1, <2>1, <3>3 DEF Hello
      <3> QED
        BY <1>3, <3>1, <3>2, <3>3 DEF Draws
    <2>3. st.at + Width(f) \in Nat
      BY <1>1, <1>2
    <2> QED
      BY <1>1, <1>3, <2>2, <2>3 DEF Built, TraceStates, bytes
  <1>4. CASE f \notin Draws
    <2>1. [st.hello EXCEPT !.kx = c, !.mlkem = c] \in Hello /\ [st.hello EXCEPT !.kx = c] \in Hello
      BY <1>1 DEF Hello
    <2> QED
      BY <1>4, <2>1 DEF Built, TraceStates
  <1> QED
    BY <1>3, <1>4

LEMMA StepsType ==
    ASSUME TypeOK
    PROVE  /\ lib.steps \in Seq(Draws \cup Groups) /\ lib.inside \in 0..Total /\ Total \in Nat
           /\ \A i \in 1..Total : lib.steps[i] \in Draws \cup Groups
  <1>1. lib.steps \in Seq(Draws \cup Groups) /\ lib.inside \in 0..Len(lib.steps)
    BY LibrariesAssumption DEF TypeOK
  <1> QED
    BY <1>1 DEF Total

LEMMA AheadTail ==
    ASSUME NEW q, NEW k, NEW m \in 0..Total, TypeOK, q \in Seq(Draws \cup Groups),
           Ahead(q, k, m), q # <<>>
    PROVE  /\ k \in 0..(m - 1) /\ k \in 0..(Total - 1) /\ Head(q) = lib.steps[k + 1]
           /\ Ahead(Tail(q), k + 1, m)
  <1>1. Len(q) > 0 /\ Total \in Nat
    BY StepsType
  <1>2. k \in 0..(m - 1) /\ Head(q) = lib.steps[k + 1]
    BY <1>1 DEF Ahead
  <1>3. Ahead(Tail(q), k + 1, m)
    <2>1. Len(Tail(q)) = m - (k + 1)
      BY <1>1 DEF Ahead
    <2>2. \A i \in 1..(m - (k + 1)) : Tail(q)[i] = q[i + 1] /\ i + 1 \in 1..(m - k)
      BY <1>1, <1>2 DEF Ahead
    <2>3. \A i \in 1..(m - (k + 1)) : q[i + 1] = lib.steps[k + (i + 1)]
      BY <2>2 DEF Ahead
    <2>4. \A i \in 1..(m - (k + 1)) : k + (i + 1) = (k + 1) + i
      BY <1>2
    <2> QED
      BY <1>2, <2>1, <2>2, <2>3, <2>4 DEF Ahead
  <1> QED
    BY <1>1, <1>2, <1>3

LEMMA ExtendTrace ==
    ASSUME NEW c \in Conns, NEW T, NEW k, TypeOK, Trace(c, T, k), k < Total,
           lib.steps[k + 1] = "hybrid" => T[k].hello.mlkem = None
    PROVE  Trace(c, [T EXCEPT ![k + 1] = Built(c, T[k], lib.steps[k + 1])], k + 1)
  <1> DEFINE f == lib.steps[k + 1]
             new == Built(c, T[k], f)
             U == [T EXCEPT ![k + 1] = new]
  <1>1. k \in 0..(Total - 1) /\ k + 1 \in 1..Total /\ k + 1 \in 0..Total /\ Total \in Nat
    BY StepsType DEF Trace
  <1>2. f \in Draws \cup Groups
    BY <1>1, StepsType
  <1>3. T[k] \in TraceStates /\ new \in TraceStates
    BY <1>1, <1>2, BuiltType DEF Trace
  <1>4. /\ U \in [0..Total -> TraceStates] /\ U[k + 1] = new
        /\ \A i \in 0..k : U[i] = T[i] /\ T[i] \in TraceStates
    BY <1>1, <1>3 DEF Trace
  <1>5. /\ f \in Draws => new.count = T[k].count + 1
        /\ f \notin Draws => new.count = T[k].count
        /\ f = "sid" => new.last = T[k].count + 1
        /\ f # "sid" => new.last = T[k].last /\ new.hello.sid = T[k].hello.sid
        /\ new.hello.mlkem # None => f = "hybrid" \/ T[k].hello.mlkem # None
    BY <1>2, <1>3 DEF Built, TraceStates, Draws, Groups, Hello
  <1>6. T[k].count \in Nat /\ T[k].last \in Nat /\ T[k].last <= T[k].count
    BY <1>3 DEF TraceStates, Trace
  <1>7. "sid" \in Draws
    BY DEF Draws
  <1> HIDE DEF f, new, U
  <1>8. \A i \in 0..k : U[i + 1] = Built(c, U[i], lib.steps[i + 1])
                        /\ (lib.steps[i + 1] = "hybrid" => U[i].hello.mlkem = None)
    <2> SUFFICES ASSUME NEW i \in 0..k
                 PROVE  /\ U[i + 1] = Built(c, U[i], lib.steps[i + 1])
                        /\ lib.steps[i + 1] = "hybrid" => U[i].hello.mlkem = None
      OBVIOUS
    <2>1. CASE i = k
      BY <1>1, <1>4, <2>1 DEF f, new
    <2>2. CASE i # k
      <3>1. i \in 0..(k - 1) /\ i + 1 \in 0..k
        BY <1>1, <2>2
      <3>2. /\ T[i + 1] = Built(c, T[i], lib.steps[i + 1])
            /\ lib.steps[i + 1] = "hybrid" => T[i].hello.mlkem = None
        BY <3>1 DEF Trace
      <3> QED
        BY <1>4, <3>1, <3>2
    <2> QED
      BY <2>1, <2>2
  <1>9. \A i, j \in 0..(k + 1) : i <= j => U[i].count <= U[j].count /\ U[i].last <= U[j].last
    <2>1. \A i \in 0..k : T[i].count <= T[k].count /\ T[i].last <= T[k].last
                          /\ T[i].count \in Nat /\ T[i].last \in Nat
      <3> TAKE i \in 0..k
      <3>1. k \in 0..k /\ i <= k
        BY <1>1
      <3>2. T[i].count <= T[k].count /\ T[i].last <= T[k].last
        BY <3>1 DEF Trace
      <3>3. T[i] \in TraceStates
        BY <1>4
      <3> QED
        BY <3>2, <3>3 DEF TraceStates
    <2>2. T[k].count <= new.count /\ T[k].last <= new.last /\ new.count \in Nat /\ new.last \in Nat
      BY <1>3, <1>5, <1>6 DEF TraceStates
    <2>3. \A i, j \in 0..k : i <= j => U[i].count <= U[j].count /\ U[i].last <= U[j].last
      BY <1>4 DEF Trace
    <2>4. \A i \in 0..k : U[i].count <= U[k + 1].count /\ U[i].last <= U[k + 1].last
      <3> TAKE i \in 0..k
      <3>1. U[i] = T[i]
        BY <1>4
      <3>2. T[i].count <= new.count /\ T[i].last <= new.last
        BY <2>1, <2>2, <1>6
      <3> QED
        BY <1>4, <3>1, <3>2
    <2> QED
      BY <1>1, <1>4, <2>2, <2>3, <2>4
  <1>10. new.last <= new.count /\ (new.last = 0 => new.hello.sid = Blank)
    BY <1>5, <1>6, <1>7 DEF Trace
  <1>11. \A i \in 0..k : lib.steps[i + 1] \in Draws /\ U[i].count + 1 = new.last => lib.steps[i + 1] = "sid"
    <2> SUFFICES ASSUME NEW i \in 0..k, lib.steps[i + 1] \in Draws, T[i].count + 1 = new.last,
                        lib.steps[i + 1] # "sid"
                 PROVE  FALSE
      BY <1>4
    <2>1. CASE i = k
      BY <1>5, <1>6, <2>1 DEF f
    <2>2. CASE i # k
      <3>1. i \in 0..(k - 1) /\ i + 1 \in 0..k
        BY <1>1, <2>2
      <3>2. T[i] \in TraceStates /\ T[i + 1] = Built(c, T[i], lib.steps[i + 1])
        BY <1>4, <3>1 DEF Trace
      <3>3. T[i + 1].count = T[i].count + 1 /\ T[i].count \in Nat
        BY <3>2 DEF Built, TraceStates
      <3>4. T[i + 1].count <= T[k].count
        BY <1>1, <3>1 DEF Trace
      <3>5. CASE f = "sid"
        BY <1>5, <1>6, <3>3, <3>4, <3>5
      <3>6. CASE f # "sid"
        BY <1>5, <3>1, <3>6 DEF Trace
      <3> QED
        BY <3>5, <3>6
    <2> QED
      BY <2>1, <2>2
  <1>12. new.hello.mlkem # None => \E i \in 1..(k + 1) : lib.steps[i] = "hybrid"
    BY <1>1, <1>5 DEF Trace, f
  <1>13. \A i : i \in 0..((k + 1) - 1) <=> i \in 0..k
    BY <1>1
  <1>14. U[0] = Start
    BY <1>1, <1>4 DEF Trace
  <1> QED
    BY <1>1, <1>4, <1>8, <1>9, <1>10, <1>11, <1>12, <1>13, <1>14 DEF Trace, U, new, f

---------------------------------------------------------------------------
(* A step of either pass goes where the trace goes                          *)

LEMMA DrawFollowsA ==
    ASSUME NEW c \in Conns, NEW st \in TraceStates, NEW s \in Scripts, NEW f \in Draws,
           FollowsA(c, s, st.hello, st)
    PROVE  LET bytes == Filled(s, c, Width(f))
           IN  FollowsA(c, AfterFill(s, Width(f), bytes), [st.hello EXCEPT ![f] = bytes],
                        Built(c, st, f))
  <1> DEFINE w == Width(f)
             bytes == Filled(s, c, w)
             h == [st.hello EXCEPT ![f] = bytes]
             after == AfterFill(s, w, bytes)
             built == Built(c, st, f)
  <1>1. w \in {1, 2} /\ c # None
    BY WidthType, NoneAssumption
  <1>2. s.seed = c /\ s.swap = 0 /\ s.at = st.at /\ Len(s.calls) = st.count
    BY DEF FollowsA
  <1>3. s.calls \in Seq(Bytes) /\ s.at \in Nat /\ Len(s.calls) \in Nat
    BY DEF Scripts
  <1>4. bytes = Stream(c, s.at, w)
    BY <1>1, <1>2, <1>3 DEF Filled
  <1>5. bytes \in Bytes /\ bytes.src = "seed" /\ bytes.at = s.at
    BY <1>1, <1>3, <1>4 DEF Stream, Bytes
  <1>6. after = [s EXCEPT !.at = s.at + w, !.calls = Append(s.calls, bytes)]
    BY <1>1, <1>2 DEF AfterFill
  <1>7. /\ built.at = st.at + w /\ built.count = st.count + 1
        /\ built.hello = h
        /\ built.last = IF f = "sid" THEN st.count + 1 ELSE st.last
    BY <1>2, <1>4 DEF Built
  <1> HIDE DEF w, bytes, after, built
  <1>8. /\ after.seed = c /\ after.swap = 0 /\ after.at = s.at + w
        /\ after.mlkem = s.mlkem
        /\ after.calls = Append(s.calls, bytes)
    BY <1>2, <1>6 DEF Scripts
  <1>9. /\ Len(after.calls) = Len(s.calls) + 1
        /\ after.calls[Len(s.calls) + 1] = bytes
        /\ \A i \in 1..Len(s.calls) : after.calls[i] = s.calls[i]
    BY <1>3, <1>5, <1>8
  <1>10. st.hello \in Hello /\ st.last \in Nat
    BY DEF TraceStates
  <1>11. h.mlkem = st.hello.mlkem
    BY <1>10 DEF Draws, Hello
  <1>12. built.last > 0 => after.calls[built.last] = h.sid
    <2>1. CASE f = "sid"
      BY <1>2, <1>7, <1>9, <1>10, <2>1 DEF Hello
    <2>2. CASE f # "sid"
      <3>1. h.sid = st.hello.sid
        BY <1>10, <2>2 DEF Hello
      <3>2. ASSUME st.last > 0 PROVE st.last \in 1..Len(s.calls)
        BY <1>2, <1>10, <3>2 DEF FollowsA
      <3> QED
        BY <1>7, <1>9, <2>2, <3>1, <3>2 DEF FollowsA
    <2> QED
      BY <2>1, <2>2
  <1>13. Distinct(after)
    <2>1. \A i \in 1..Len(s.calls) : s.calls[i].src = "seed" /\ s.calls[i].at < s.at /\ s.calls[i].at \in Nat
      <3>1. \A i \in 1..Len(s.calls) : s.calls[i] \in Bytes
        BY <1>3
      <3>2. \A i \in 1..Len(s.calls) : s.calls[i].at \in Nat
        BY <3>1 DEF Bytes
      <3>3. \A i \in 1..Len(s.calls) : s.calls[i].src = "seed" /\ s.calls[i].at < s.at
        BY DEF FollowsA, Distinct
      <3> QED
        BY <3>2, <3>3
    <2>2. \A i \in 1..Len(after.calls) : i \in 1..Len(s.calls) \/ i = Len(s.calls) + 1
      BY <1>3, <1>9
    <2>3. \A i \in 1..Len(after.calls) : after.calls[i].src = "seed" /\ after.calls[i].at < after.at
      BY <1>1, <1>3, <1>5, <1>8, <1>9, <2>1, <2>2
    <2>4. \A i, j \in 1..Len(after.calls) : i < j => i \in 1..Len(s.calls)
      BY <1>3, <1>9
    <2>5. \A i, j \in 1..Len(s.calls) : i < j => s.calls[i].at < s.calls[j].at
      BY DEF FollowsA, Distinct
    <2>6. \A i, j \in 1..Len(after.calls) : i < j => after.calls[i].at < after.calls[j].at
      BY <1>5, <1>9, <2>1, <2>2, <2>4, <2>5
    <2> QED
      BY <2>3, <2>6 DEF Distinct
  <1>14. built.last <= built.count
    BY <1>2, <1>3, <1>7, <1>10 DEF FollowsA
  <1>15. after.mlkem # "none" <=> h.mlkem = None
    BY <1>8, <1>11 DEF FollowsA
  <1>16. after.at = built.at /\ Len(after.calls) = built.count
    BY <1>2, <1>7, <1>8, <1>9
  <1> QED
    BY <1>7, <1>8, <1>12, <1>13, <1>14, <1>15, <1>16 DEF FollowsA, w, bytes, after, built

LEMMA DrawFollowsB ==
    ASSUME NEW c \in Conns, NEW st \in TraceStates, NEW s \in Scripts, NEW f \in Draws,
           NEW h \in Hello, NEW sh, NEW swap \in Nat \ {0}, FollowsB(c, s, h, sh, st, swap),
           st.count + 1 = swap => f = "sid"
    PROVE  LET bytes == Filled(s, c, Width(f))
           IN  FollowsB(c, AfterFill(s, Width(f), bytes), [h EXCEPT ![f] = bytes], sh,
                        Built(c, st, f), swap)
  <1> DEFINE w == Width(f)
             bytes == Filled(s, c, w)
             g == [h EXCEPT ![f] = bytes]
             after == AfterFill(s, w, bytes)
             built == Built(c, st, f)
  <1>1. w \in {1, 2} /\ c # None /\ (f = "sid" => w = 2)
    BY WidthType, NoneAssumption DEF Width
  <1>2. s.seed = c /\ s.swap = swap /\ s.at = st.at /\ Len(s.calls) = st.count
    BY DEF FollowsB
  <1>3. s.calls \in Seq(Bytes) /\ s.at \in Nat /\ Len(s.calls) \in Nat
    BY DEF Scripts
  <1>4. bytes = IF st.count + 1 = swap THEN Sealed(c) ELSE Stream(c, st.at, w)
    BY <1>1, <1>2, <1>3 DEF Filled
  <1>5. bytes \in Bytes
    BY <1>1, <1>2, <1>3, <1>4 DEF Stream, Sealed, Bytes
  <1>6. after = [s EXCEPT !.at = s.at + w, !.calls = Append(s.calls, bytes)]
    BY <1>1, <1>2 DEF AfterFill
  <1>7. /\ built.at = st.at + w /\ built.count = st.count + 1
        /\ built.hello = [st.hello EXCEPT ![f] = Stream(c, st.at, w)]
        /\ built.last = IF f = "sid" THEN st.count + 1 ELSE st.last
    BY DEF Built
  <1> HIDE DEF w, bytes, after, built
  <1>8. /\ after.seed = c /\ after.swap = swap /\ after.at = s.at + w
        /\ after.mlkem = s.mlkem
        /\ after.calls = Append(s.calls, bytes)
    BY <1>2, <1>6 DEF Scripts
  <1>9. /\ Len(after.calls) = Len(s.calls) + 1
        /\ after.calls[Len(s.calls) + 1] = bytes
        /\ \A i \in 1..Len(s.calls) : after.calls[i] = s.calls[i]
    BY <1>3, <1>5, <1>8
  <1>10. st.hello \in Hello /\ st.last \in Nat /\ st.count \in Nat
    BY DEF TraceStates
  <1>11. \A x \in {"random", "ext", "kx", "mlkem"} : g[x] = built.hello[x]
    BY <1>4, <1>7, <1>10 DEF FollowsB, Hello, Draws
  <1>12. g.mlkem = h.mlkem
    BY DEF Draws, Hello
  <1>13. built.last = swap => g.sid = Sealed(c)
    <2>1. CASE f = "sid"
      BY <1>4, <1>7, <2>1 DEF Hello
    <2>2. CASE f # "sid"
      BY <1>7, <2>2 DEF FollowsB, Hello
    <2> QED
      BY <2>1, <2>2
  <1>14. built.count >= swap => after.calls[swap] = Sealed(c)
    <2>1. CASE st.count + 1 = swap
      BY <1>2, <1>4, <1>9, <2>1
    <2>2. CASE st.count >= swap
      BY <1>2, <1>9, <1>10, <2>2 DEF FollowsB
    <2> QED
      BY <1>7, <1>10, <2>1, <2>2
  <1> QED
    BY <1>2, <1>7, <1>8, <1>9, <1>11, <1>12, <1>13, <1>14 DEF FollowsB, w, bytes, after, built

\* The groups: as long as the trace finds its ML-KEM share, so does the pass.
LEMMA HybridFollows ==
    ASSUME NEW c \in Conns, NEW st \in TraceStates, NEW s \in Scripts, NEW h \in Hello,
           NEW sh, NEW swap \in Nat, st.hello.mlkem = None
    PROVE  LET after == [s EXCEPT !.mlkem = "none"]
               g == [h EXCEPT !.kx = c, !.mlkem = c]
           IN  /\ FollowsA(c, s, h, st) => FollowsA(c, after, g, Built(c, st, "hybrid"))
               /\ FollowsB(c, s, h, sh, st, swap) =>
                      s.mlkem = "active" /\ FollowsB(c, after, g, s.mlkem, Built(c, st, "hybrid"), swap)
  <1> DEFINE after == [s EXCEPT !.mlkem = "none"]
             g == [h EXCEPT !.kx = c, !.mlkem = c]
             built == Built(c, st, "hybrid")
  <1>1. st.hello \in Hello /\ c # None
    BY NoneAssumption DEF TraceStates
  <1>2. built = [st EXCEPT !.hello = [st.hello EXCEPT !.kx = c, !.mlkem = c]]
    BY DEF Built, Draws
  <1>3. /\ built.at = st.at /\ built.count = st.count /\ built.last = st.last
        /\ built.hello = [st.hello EXCEPT !.kx = c, !.mlkem = c]
    BY <1>2 DEF TraceStates
  <1>4. /\ after.seed = s.seed /\ after.swap = s.swap /\ after.at = s.at
        /\ after.calls = s.calls /\ after.mlkem = "none"
    BY DEF Scripts
  <1>5. /\ g.kx = c /\ g.mlkem = c
        /\ g.sid = h.sid /\ g.random = h.random /\ g.ext = h.ext
    BY DEF Hello
  <1>6. /\ built.hello.kx = c /\ built.hello.mlkem = c
        /\ built.hello.random = st.hello.random /\ built.hello.ext = st.hello.ext
    BY <1>1, <1>3 DEF Hello
  <1> HIDE DEF after, built
  <1>7. ASSUME FollowsA(c, s, h, st) PROVE FollowsA(c, after, g, built)
    BY <1>1, <1>3, <1>4, <1>5, <1>7 DEF FollowsA, Distinct
  <1>8. ASSUME FollowsB(c, s, h, sh, st, swap)
        PROVE  s.mlkem = "active" /\ FollowsB(c, after, g, s.mlkem, built, swap)
    <2>1. h.mlkem = None /\ s.mlkem = "active"
      BY <1>8 DEF FollowsB
    <2> QED
      BY <1>1, <1>3, <1>4, <1>5, <1>6, <1>8, <2>1 DEF FollowsB
  <1> QED
    BY <1>7, <1>8 DEF after, built

LEMMA X25519Follows ==
    ASSUME NEW c \in Conns, NEW st \in TraceStates, NEW s \in Scripts, NEW h \in Hello,
           NEW sh, NEW swap \in Nat
    PROVE  LET g == [h EXCEPT !.kx = c]
           IN  /\ FollowsA(c, s, h, st) => FollowsA(c, s, g, Built(c, st, "x25519"))
               /\ FollowsB(c, s, h, sh, st, swap) => FollowsB(c, s, g, sh, Built(c, st, "x25519"), swap)
  <1> DEFINE g == [h EXCEPT !.kx = c]
             built == Built(c, st, "x25519")
  <1>1. st.hello \in Hello
    BY DEF TraceStates
  <1>2. built = [st EXCEPT !.hello = [st.hello EXCEPT !.kx = c]]
    BY DEF Built, Draws
  <1>3. /\ built.at = st.at /\ built.count = st.count /\ built.last = st.last
        /\ built.hello = [st.hello EXCEPT !.kx = c]
    BY <1>2 DEF TraceStates
  <1>4. /\ g.kx = c /\ g.mlkem = h.mlkem
        /\ g.sid = h.sid /\ g.random = h.random /\ g.ext = h.ext
    BY DEF Hello
  <1>5. /\ built.hello.kx = c /\ built.hello.mlkem = st.hello.mlkem
        /\ built.hello.random = st.hello.random /\ built.hello.ext = st.hello.ext
    BY <1>1, <1>3 DEF Hello
  <1> HIDE DEF built
  <1>6. ASSUME FollowsA(c, s, h, st) PROVE FollowsA(c, s, g, built)
    BY <1>3, <1>4, <1>6 DEF FollowsA
  <1>7. ASSUME FollowsB(c, s, h, sh, st, swap) PROVE FollowsB(c, s, g, sh, built, swap)
    BY <1>3, <1>4, <1>5, <1>7 DEF FollowsB
  <1> QED
    BY <1>6, <1>7 DEF built

---------------------------------------------------------------------------
(* Steps of the program                                                     *)

LEMMA LibraryStays ==
    ASSUME lib' = lib
    PROVE  /\ Total' = Total /\ Postponed' = Postponed
           /\ \A c, T, k : Trace(c, T, k)' <=> Trace(c, T, k)
           /\ \A q, k, m : Ahead(q, k, m)' <=> Ahead(q, k, m)
  <1>1. Total' = Total /\ Postponed' = Postponed
    BY DEF Total, Postponed
  <1>2. \A c, T, k : Trace(c, T, k)' <=> Trace(c, T, k)
    BY <1>1 DEF Trace
  <1>3. \A q, k, m : Ahead(q, k, m)' <=> Ahead(q, k, m)
    BY <1>1 DEF Ahead
  <1> QED
    BY <1>1, <1>2, <1>3

\* What a connection does is nothing to the others.
LEMMA OthersKept ==
    ASSUME NEW d \in Conns, Replay(d),
           lib' = lib, pc'[d] = pc[d], left'[d] = left[d], hello'[d] = hello[d],
           share'[d] = share[d], prepared'[d] = prepared[d], answer'[d] = answer[d],
           \A t \in Threads : run'[t] = d => run[t] = d /\ script'[t] = script[t]
    PROVE  Replay(d)'
  <1>1. \A T : Recorded(d, T)' <=> Recorded(d, T)
    BY LibraryStays DEF Recorded
  <1>2. ASSUME NEW t \in Threads, PassA(d, script[t]), script'[t] = script[t]
        PROVE  PassA(d, script[t])'
    BY <1>2, LibraryStays DEF PassA
  <1>3. ASSUME NEW t \in Threads, PassB(d, script[t]), script'[t] = script[t]
        PROVE  PassB(d, script[t])'
    BY <1>3, LibraryStays, <1>1 DEF PassB
  <1>4. Good(d)' <=> Good(d)
    BY DEF Good
  <1>5. AnswerFits(d)' <=> AnswerFits(d)
    BY DEF AnswerFits
  <1>6. (pc[d] = "passA" => \A t \in Threads : run[t] = d => PassA(d, script[t]))'
    BY <1>2 DEF Replay
  <1>7. (pc[d] = "passB" => \A t \in Threads : run[t] = d => PassB(d, script[t]))'
    BY <1>3 DEF Replay
  <1>8. (pc[d] = "wait" => Postponed \cap Draws = {} /\ (Postponed = {} => Good(d)))'
    BY LibraryStays, <1>4 DEF Replay
  <1>9. (pc[d] = "prepared" => \E T : Recorded(d, T))'
    BY <1>1 DEF Replay
  <1>10. (pc[d] \in {"sent", "up"} => Good(d) /\ AnswerFits(d))'
    BY <1>4, <1>5 DEF Replay
  <1>11. /\ (pc[d] = "new" => hello[d] = NoHello)'
         /\ (pc[d] \in Busy \cup {"new"} => answer[d] = NoAnswer)'
         /\ (pc[d] = "failed" => ~Suitable(lib) \/ answer[d] = CoverSite)'
    BY DEF Replay
  <1> QED
    BY <1>6, <1>7, <1>8, <1>9, <1>10, <1>11 DEF Replay

LEMMA OneThread ==
    ASSUME NEW c \in Conns, NEW t \in Threads, IInv, run[t] = c
    PROVE  \A u \in Threads : run[u] = c => u = t
  BY NoneAssumption DEF IInv, Running

LEMMA StartFacts ==
    /\ Start \in TraceStates
    /\ \A c, T, k : Trace(c, T, k) => T[k] \in TraceStates
  <1>1. Start \in TraceStates
    BY ConstantTypes DEF Start, TraceStates
  <1>2. \A c, T, k : Trace(c, T, k) => T[k] \in TraceStates
    BY DEF Trace
  <1> QED
    BY <1>1, <1>2

LEMMA BeginReplay ==
    ASSUME NEW c \in Conns, NEW t \in Threads, IInv, Replay(c), Begin(c, t)
    PROVE  Replay(c)'
  <1> DEFINE T == [i \in 0..Total |-> Start]
             s == NewScript(c, "public", 0)
  <1>1. /\ TypeOK /\ Total \in Nat /\ lib.steps \in Seq(Draws \cup Groups)
    BY StepsType DEF IInv
  <1>2. /\ pc[c] = "new" /\ pc'[c] = "passA" /\ left'[c] = lib.steps
        /\ script'[t] = s /\ hello'[c] = hello[c] /\ answer'[c] = answer[c] /\ lib' = lib
        /\ run' = [run EXCEPT ![t] = c]
    BY <1>1 DEF Begin, TypeOK
  <1>3. \A u \in Threads : run'[u] = c => u = t
    BY <1>1, <1>2, NoneAssumption DEF IInv, Running, Busy, TypeOK
  <1>4. hello[c] = NoHello /\ answer[c] = NoAnswer
    BY <1>2 DEF Replay
  <1>5. Trace(c, T, 0)
    <2>1. T[0] = Start /\ T \in [0..Total -> TraceStates]
      BY <1>1, StartFacts
    <2>2. Start.last = 0 /\ Start.count = 0 /\ Start.hello = NoHello /\ NoHello.sid = Blank
          /\ NoHello.mlkem = None
      BY DEF Start, NoHello
    <2> HIDE DEF T
    <2> QED
      BY <1>1, <2>1, <2>2 DEF Trace
  <1>6. Ahead(lib.steps, 0, Total)
    BY <1>1 DEF Ahead, Total
  <1>7. FollowsA(c, s, NoHello, T[0])
    <2>1. /\ s.seed = c /\ s.swap = 0 /\ s.at = 0 /\ s.calls = <<>> /\ s.mlkem = "public"
      BY DEF NewScript
    <2>2. /\ T[0] = Start /\ Start.at = 0 /\ Start.count = 0 /\ Start.last = 0
          /\ Start.hello = NoHello /\ NoHello.mlkem = None
      BY <1>1 DEF Start, NoHello
    <2> HIDE DEF s, T
    <2>3. Distinct(s)
      BY <2>1 DEF Distinct
    <2> QED
      BY <2>1, <2>2, <2>3 DEF FollowsA
  <1> HIDE DEF T, s
  <1>8. PassA(c, script[t])'
    BY <1>2, <1>4, <1>5, <1>6, <1>7, LibraryStays DEF PassA
  <1>9. (\A u \in Threads : run[u] = c => PassA(c, script[u]))'
    BY <1>3, <1>8
  <1> QED
    BY <1>2, <1>4, <1>9 DEF Replay, Busy

\* While a connection is in a pass, the rest of Replay is not concerned.
LEMMA InPassA ==
    ASSUME NEW c \in Conns, NEW t \in Threads, IInv, Replay(c), run' = run, run[t] = c,
           pc'[c] = "passA", answer'[c] = NoAnswer, PassA(c, script[t])'
    PROVE  Replay(c)'
  <1>1. (\A u \in Threads : run[u] = c => PassA(c, script[u]))'
    BY OneThread
  <1> QED
    BY <1>1 DEF Replay, Busy

LEMMA InPassB ==
    ASSUME NEW c \in Conns, NEW t \in Threads, IInv, Replay(c), run' = run, run[t] = c,
           pc'[c] = "passB", answer'[c] = NoAnswer, PassB(c, script[t])'
    PROVE  Replay(c)'
  <1>1. (\A u \in Threads : run[u] = c => PassB(c, script[u]))'
    BY OneThread
  <1> QED
    BY <1>1 DEF Replay, Busy

\* The two ways a pass goes on: along the trace, or not at all.
LEMMA PassAGoesOn ==
    ASSUME NEW c \in Conns, NEW s \in Scripts, NEW T, NEW k, NEW f, TypeOK,
           Trace(c, T, k), k < Total, f = lib.steps[k + 1],
           f = "hybrid" => T[k].hello.mlkem = None, lib' = lib,
           Ahead(left'[c], k + 1, Total), NEW t \in Threads,
           FollowsA(c, script'[t], hello'[c], Built(c, T[k], f))
    PROVE  PassA(c, script[t])'
  <1> DEFINE U == [T EXCEPT ![k + 1] = Built(c, T[k], f)]
  <1>1. Trace(c, U, k + 1)
    BY ExtendTrace
  <1>2. U[k + 1] = Built(c, T[k], f)
    BY StepsType DEF Trace
  <1> HIDE DEF U
  <1> QED
    BY <1>1, <1>2, LibraryStays DEF PassA

LEMMA PassBGoesOn ==
    ASSUME NEW c \in Conns, NEW T, NEW k, NEW f, TypeOK,
           Recorded(c, T), k \in 0..(Total - 1), f = lib.steps[k + 1], lib' = lib,
           prepared' = prepared, Ahead(left'[c], k + 1, lib.inside), NEW t \in Threads,
           FollowsB(c, script'[t], hello'[c], share'[c], Built(c, T[k], f), T[Total].last)
    PROVE  PassB(c, script[t])'
  <1>1. T[k + 1] = Built(c, T[k], f)
    BY StepsType DEF Recorded, Trace
  <1>2. Recorded(c, T)'
    BY LibraryStays DEF Recorded
  <1> QED
    BY <1>1, <1>2, LibraryStays DEF PassB

\* Where a pass is before a step of its
LEMMA StepOfPassA ==
    ASSUME NEW c \in Conns, NEW t \in Threads, IInv, Replay(c), InPass(c, t), pc[c] = "passA"
    PROVE  \E T, k : /\ Trace(c, T, k) /\ k \in 0..(Total - 1) /\ T[k] \in TraceStates
                     /\ Head(left[c]) = lib.steps[k + 1] /\ Ahead(Tail(left[c]), k + 1, Total)
                     /\ FollowsA(c, script[t], hello[c], T[k])
  <1>1. run[t] = c /\ left[c] # <<>> /\ left[c] \in Seq(Draws \cup Groups) /\ TypeOK
    BY DEF InPass, IInv, TypeOK
  <1>2. PICK T, k : Trace(c, T, k) /\ Ahead(left[c], k, Total) /\ FollowsA(c, script[t], hello[c], T[k])
    BY <1>1 DEF Replay, PassA
  <1>3. Total \in 0..Total
    BY <1>1, StepsType
  <1>4. /\ k \in 0..(Total - 1) /\ Head(left[c]) = lib.steps[k + 1]
        /\ Ahead(Tail(left[c]), k + 1, Total)
    BY <1>1, <1>2, <1>3, AheadTail
  <1> QED
    BY <1>2, <1>4, StartFacts

LEMMA StepOfPassB ==
    ASSUME NEW c \in Conns, NEW t \in Threads, IInv, Replay(c), InPass(c, t), pc[c] = "passB"
    PROVE  \E T, k : /\ Recorded(c, T) /\ k \in 0..(Total - 1) /\ T[k] \in TraceStates
                     /\ Head(left[c]) = lib.steps[k + 1] /\ Ahead(Tail(left[c]), k + 1, lib.inside)
                     /\ T[Total].last \in Nat \ {0}
                     /\ lib.steps[k + 1] = "hybrid" => T[k].hello.mlkem = None
                     /\ lib.steps[k + 1] \in Draws /\ T[k].count + 1 = T[Total].last =>
                            lib.steps[k + 1] = "sid"
                     /\ FollowsB(c, script[t], hello[c], share[c], T[k], T[Total].last)
  <1>1. run[t] = c /\ left[c] # <<>> /\ left[c] \in Seq(Draws \cup Groups) /\ TypeOK
    BY DEF InPass, IInv, TypeOK
  <1>2. PICK T, k : /\ Recorded(c, T) /\ Ahead(left[c], k, lib.inside)
                    /\ FollowsB(c, script[t], hello[c], share[c], T[k], T[Total].last)
    BY <1>1 DEF Replay, PassB
  <1>3. lib.inside \in 0..Total /\ Total \in Nat
    BY <1>1, StepsType
  <1>4. /\ k \in 0..(Total - 1) /\ Head(left[c]) = lib.steps[k + 1]
        /\ Ahead(Tail(left[c]), k + 1, lib.inside)
    BY <1>1, <1>2, <1>3, AheadTail
  <1>5. Trace(c, T, Total) /\ T[Total].last > 0
    BY <1>2 DEF Recorded
  <1>6. T[k] \in TraceStates /\ T[Total] \in TraceStates
    BY <1>3, <1>4, <1>5 DEF Trace
  <1>7. /\ lib.steps[k + 1] = "hybrid" => T[k].hello.mlkem = None
        /\ lib.steps[k + 1] \in Draws /\ T[k].count + 1 = T[Total].last => lib.steps[k + 1] = "sid"
    BY <1>4, <1>5 DEF Trace
  <1>8. T[Total].last \in Nat \ {0}
    BY <1>5, <1>6 DEF TraceStates
  <1> QED
    BY <1>2, <1>4, <1>6, <1>7, <1>8

LEMMA DrawReplay ==
    ASSUME NEW c \in Conns, NEW t \in Threads, IInv, Replay(c), Draw(c, t)
    PROVE  Replay(c)'
  <1> DEFINE f == Head(left[c])
             s == script[t]
             bytes == Filled(s, c, Width(f))
  <1>1. /\ TypeOK /\ InPass(c, t) /\ f \in Draws /\ s \in Scripts /\ hello[c] \in Hello
        /\ run[t] = c /\ pc[c] \in {"passA", "passB"}
    BY DEF IInv, TypeOK, Draw, InPass
  <1>2. /\ hello'[c] = [hello[c] EXCEPT ![f] = bytes]
        /\ script'[t] = AfterFill(s, Width(f), bytes)
        /\ left'[c] = Tail(left[c])
        /\ lib' = lib /\ run' = run /\ pc'[c] = pc[c] /\ prepared' = prepared
        /\ share'[c] = share[c] /\ answer'[c] = answer[c]
    BY <1>1 DEF TypeOK, Draw
  <1>3. answer'[c] = NoAnswer
    BY <1>1, <1>2 DEF Replay, Busy
  <1> HIDE DEF f, s, bytes
  <1>4. CASE pc[c] = "passA"
    <2>1. PICK T, k : /\ Trace(c, T, k) /\ k \in 0..(Total - 1) /\ T[k] \in TraceStates
                      /\ f = lib.steps[k + 1] /\ Ahead(Tail(left[c]), k + 1, Total)
                      /\ FollowsA(c, s, hello[c], T[k])
      BY <1>1, <1>4, StepOfPassA DEF f, s
    <2>2. hello[c] = T[k].hello
      BY <2>1 DEF FollowsA
    <2>3. FollowsA(c, script'[t], hello'[c], Built(c, T[k], f))
      BY <1>1, <1>2, <2>1, <2>2, DrawFollowsA DEF bytes
    <2>4. f # "hybrid" /\ k < Total
      BY <1>1, <2>1, StepsType DEF Draws
    <2>5. PassA(c, script[t])'
      BY <1>1, <1>2, <2>1, <2>3, <2>4, PassAGoesOn
    <2> QED
      BY <1>1, <1>2, <1>3, <1>4, <2>5, InPassA
  <1>5. CASE pc[c] = "passB"
    <2>1. PICK T, k : /\ Recorded(c, T) /\ k \in 0..(Total - 1) /\ T[k] \in TraceStates
                      /\ f = lib.steps[k + 1] /\ Ahead(Tail(left[c]), k + 1, lib.inside)
                      /\ T[Total].last \in Nat \ {0}
                      /\ f \in Draws /\ T[k].count + 1 = T[Total].last => f = "sid"
                      /\ FollowsB(c, s, hello[c], share[c], T[k], T[Total].last)
      BY <1>1, <1>5, StepOfPassB DEF f, s
    <2>2. FollowsB(c, script'[t], hello'[c], share'[c], Built(c, T[k], f), T[Total].last)
      BY <1>1, <1>2, <2>1, DrawFollowsB DEF bytes
    <2>3. PassB(c, script[t])'
      BY <1>1, <1>2, <2>1, <2>2, PassBGoesOn
    <2> QED
      BY <1>1, <1>2, <1>3, <1>5, <2>3, InPassB
  <1> QED
    BY <1>1, <1>4, <1>5

LEMMA StartHybridReplay ==
    ASSUME NEW c \in Conns, NEW t \in Threads, IInv, Replay(c), StartHybrid(c, t)
    PROVE  Replay(c)'
  <1> DEFINE s == script[t]
  <1>1. /\ TypeOK /\ InPass(c, t) /\ Head(left[c]) = "hybrid" /\ s \in Scripts /\ hello[c] \in Hello
        /\ run[t] = c /\ pc[c] \in {"passA", "passB"} /\ s.seed = c /\ s.mlkem # "none"
    BY DEF IInv, TypeOK, StartHybrid, InPass, CanStart
  <1>2. /\ hello'[c] = [hello[c] EXCEPT !.kx = c, !.mlkem = c]
        /\ script'[t] = [s EXCEPT !.mlkem = "none"]
        /\ share'[c] = s.mlkem
        /\ left'[c] = Tail(left[c])
        /\ lib' = lib /\ run' = run /\ pc'[c] = pc[c] /\ prepared' = prepared
        /\ answer'[c] = answer[c]
    BY <1>1 DEF TypeOK, StartHybrid
  <1>3. answer'[c] = NoAnswer
    BY <1>1, <1>2 DEF Replay, Busy
  <1> HIDE DEF s
  <1>4. CASE pc[c] = "passA"
    <2>1. PICK T, k : /\ Trace(c, T, k) /\ k \in 0..(Total - 1) /\ T[k] \in TraceStates
                      /\ Head(left[c]) = lib.steps[k + 1] /\ Ahead(Tail(left[c]), k + 1, Total)
                      /\ FollowsA(c, s, hello[c], T[k])
      BY <1>1, <1>4, StepOfPassA DEF s
    <2>2. T[k].hello.mlkem = None
      BY <1>1, <2>1 DEF FollowsA
    <2>3. FollowsA(c, script'[t], hello'[c], Built(c, T[k], "hybrid"))
      <3>1. FollowsA(c, [s EXCEPT !.mlkem = "none"], [hello[c] EXCEPT !.kx = c, !.mlkem = c],
                     Built(c, T[k], "hybrid"))
        BY <1>1, <2>1, <2>2, HybridFollows
      <3> QED
        BY <1>2, <3>1
    <2>4. k < Total /\ lib.steps[k + 1] = "hybrid"
      BY <1>1, <2>1, StepsType
    <2>5. PassA(c, script[t])'
      BY <1>1, <1>2, <2>1, <2>2, <2>3, <2>4, PassAGoesOn
    <2> QED
      BY <1>1, <1>2, <1>3, <1>4, <2>5, InPassA
  <1>5. CASE pc[c] = "passB"
    <2>1. PICK T, k : /\ Recorded(c, T) /\ k \in 0..(Total - 1) /\ T[k] \in TraceStates
                      /\ Head(left[c]) = lib.steps[k + 1] /\ Ahead(Tail(left[c]), k + 1, lib.inside)
                      /\ T[Total].last \in Nat \ {0}
                      /\ lib.steps[k + 1] = "hybrid" => T[k].hello.mlkem = None
                      /\ FollowsB(c, s, hello[c], share[c], T[k], T[Total].last)
      BY <1>1, <1>5, StepOfPassB DEF s
    <2>2. FollowsB(c, script'[t], hello'[c], share'[c], Built(c, T[k], "hybrid"), T[Total].last)
      <3>1. T[k].hello.mlkem = None /\ T[Total].last \in Nat
        BY <1>1, <2>1
      <3>2. FollowsB(c, [s EXCEPT !.mlkem = "none"], [hello[c] EXCEPT !.kx = c, !.mlkem = c],
                     s.mlkem, Built(c, T[k], "hybrid"), T[Total].last)
        BY <1>1, <2>1, <3>1, HybridFollows
      <3> QED
        BY <1>2, <3>2
    <2>3. PassB(c, script[t])'
      BY <1>1, <1>2, <2>1, <2>2, PassBGoesOn
    <2> QED
      BY <1>1, <1>2, <1>3, <1>5, <2>3, InPassB
  <1> QED
    BY <1>1, <1>4, <1>5

LEMMA StartX25519Replay ==
    ASSUME NEW c \in Conns, NEW t \in Threads, IInv, Replay(c), StartX25519(c, t)
    PROVE  Replay(c)'
  <1> DEFINE s == script[t]
  <1>1. /\ TypeOK /\ InPass(c, t) /\ Head(left[c]) = "x25519" /\ s \in Scripts /\ hello[c] \in Hello
        /\ run[t] = c /\ pc[c] \in {"passA", "passB"} /\ s.seed = c
    BY DEF IInv, TypeOK, StartX25519, InPass, CanStart
  <1>2. /\ hello'[c] = [hello[c] EXCEPT !.kx = c]
        /\ script'[t] = s
        /\ share'[c] = share[c]
        /\ left'[c] = Tail(left[c])
        /\ lib' = lib /\ run' = run /\ pc'[c] = pc[c] /\ prepared' = prepared
        /\ answer'[c] = answer[c]
    BY <1>1 DEF TypeOK, StartX25519
  <1>3. answer'[c] = NoAnswer
    BY <1>1, <1>2 DEF Replay, Busy
  <1> HIDE DEF s
  <1>4. CASE pc[c] = "passA"
    <2>1. PICK T, k : /\ Trace(c, T, k) /\ k \in 0..(Total - 1) /\ T[k] \in TraceStates
                      /\ Head(left[c]) = lib.steps[k + 1] /\ Ahead(Tail(left[c]), k + 1, Total)
                      /\ FollowsA(c, s, hello[c], T[k])
      BY <1>1, <1>4, StepOfPassA DEF s
    <2>2. FollowsA(c, script'[t], hello'[c], Built(c, T[k], "x25519"))
      BY <1>1, <1>2, <2>1, X25519Follows
    <2>3. k < Total /\ lib.steps[k + 1] = "x25519"
      BY <1>1, <2>1, StepsType
    <2>4. PassA(c, script[t])'
      BY <1>1, <1>2, <2>1, <2>2, <2>3, PassAGoesOn
    <2> QED
      BY <1>1, <1>2, <1>3, <1>4, <2>4, InPassA
  <1>5. CASE pc[c] = "passB"
    <2>1. PICK T, k : /\ Recorded(c, T) /\ k \in 0..(Total - 1) /\ T[k] \in TraceStates
                      /\ Head(left[c]) = lib.steps[k + 1] /\ Ahead(Tail(left[c]), k + 1, lib.inside)
                      /\ T[Total].last \in Nat \ {0}
                      /\ FollowsB(c, s, hello[c], share[c], T[k], T[Total].last)
      BY <1>1, <1>5, StepOfPassB DEF s
    <2>2. FollowsB(c, script'[t], hello'[c], share'[c], Built(c, T[k], "x25519"), T[Total].last)
      BY <1>1, <1>2, <2>1, X25519Follows
    <2>3. PassB(c, script[t])'
      BY <1>1, <1>2, <2>1, <2>2, PassBGoesOn
    <2> QED
      BY <1>1, <1>2, <1>3, <1>5, <2>3, InPassB
  <1> QED
    BY <1>1, <1>4, <1>5

\* A trace that runs into a second hybrid start is one of unsuitable libraries,
\* and pass B runs into none that pass A has not.
LEMMA GroupRefusedReplay ==
    ASSUME NEW c \in Conns, NEW t \in Threads, IInv, Replay(c), GroupRefused(c, t)
    PROVE  Replay(c)'
  <1> DEFINE s == script[t]
  <1>1. /\ TypeOK /\ InPass(c, t) /\ s \in Scripts /\ c # None /\ Total \in Nat
        /\ run[t] = c /\ pc[c] \in {"passA", "passB"} /\ ~CanStart(s, Head(left[c]))
    BY NoneAssumption, StepsType DEF IInv, TypeOK, GroupRefused, InPass
  <1>2. /\ hello'[c] = NoHello /\ left'[c] = <<>> /\ script' = script
        /\ lib' = lib /\ run' = run /\ pc'[c] = pc[c] /\ answer'[c] = answer[c]
    BY <1>1 DEF TypeOK, GroupRefused
  <1>3. answer'[c] = NoAnswer
    BY <1>1, <1>2 DEF Replay, Busy
  <1> HIDE DEF s
  <1>4. CASE pc[c] = "passA"
    <2>1. PICK T, k : /\ Trace(c, T, k) /\ k \in 0..(Total - 1)
                      /\ Head(left[c]) = lib.steps[k + 1]
                      /\ FollowsA(c, s, hello[c], T[k])
      BY <1>1, <1>4, StepOfPassA DEF s
    <2>2. s.seed = c
      BY <2>1 DEF FollowsA
    <2>3. lib.steps[k + 1] = "hybrid" /\ s.mlkem = "none"
      BY <1>1, <2>1, <2>2 DEF CanStart
    <2>4. T[k].hello.mlkem # None
      BY <2>1, <2>3 DEF FollowsA
    <2>5. PICK i \in 1..k : lib.steps[i] = "hybrid"
      BY <2>1, <2>4 DEF Trace
    <2>6. i # k + 1 /\ i \in 1..Total /\ k + 1 \in 1..Total
      BY <1>1, <2>1, <2>5
    <2>7. ~Suitable(lib)
      BY <2>3, <2>5, <2>6 DEF Suitable, Total
    <2>8. Distinct(script'[t])
      BY <1>2, <2>1 DEF FollowsA, s
    <2>9. NoHello.sid = Blank
      BY DEF NoHello
    <2>10. PassA(c, script[t])'
      BY <1>2, <2>7, <2>8, <2>9 DEF PassA
    <2> QED
      BY <1>1, <1>2, <1>3, <1>4, <2>10, InPassA
  <1>5. CASE pc[c] = "passB"
    <2>1. PICK T, k : /\ Recorded(c, T) /\ Head(left[c]) = lib.steps[k + 1]
                      /\ lib.steps[k + 1] = "hybrid" => T[k].hello.mlkem = None
                      /\ FollowsB(c, s, hello[c], share[c], T[k], T[Total].last)
      BY <1>1, <1>5, StepOfPassB DEF s
    <2>2. s.seed = c /\ s.mlkem = IF T[k].hello.mlkem = None THEN "active" ELSE "none"
      BY <2>1 DEF FollowsB
    <2> QED
      BY <1>1, <2>1, <2>2 DEF CanStart
  <1> QED
    BY <1>1, <1>4, <1>5

---------------------------------------------------------------------------
(* Between the passes and behind them                                       *)

\* What pass A has come to, whether it got to the end of its steps or not
LEMMA EndOfPassA ==
    ASSUME NEW c \in Conns, NEW t \in Threads, IInv, Replay(c), run[t] = c, pc[c] = "passA",
           left[c] = <<>>
    PROVE  \/ hello[c].sid = Blank /\ ~Suitable(lib) /\ Distinct(script[t])
           \/ \E T : Trace(c, T, Total) /\ FollowsA(c, script[t], hello[c], T[Total])
  <1>1. PassA(c, script[t]) /\ Total \in Nat
    BY StepsType DEF Replay, IInv
  <1>2. ASSUME NEW T, NEW k, Trace(c, T, k), Ahead(left[c], k, Total),
               FollowsA(c, script[t], hello[c], T[k])
        PROVE  \E U : Trace(c, U, Total) /\ FollowsA(c, script[t], hello[c], U[Total])
    <2>1. k = Total
      BY <1>1, <1>2 DEF Ahead
    <2> QED
      BY <1>2, <2>1
  <1> QED
    BY <1>1, <1>2 DEF PassA

LEMMA SealReplay ==
    ASSUME NEW c \in Conns, NEW t \in Threads, IInv, Replay(c), Seal(c, t)
    PROVE  Replay(c)'
  <1> DEFINE s == script[t]
  <1>1. /\ TypeOK /\ s \in Scripts /\ run[t] = c /\ pc[c] = "passA" /\ left[c] = <<>>
        /\ Total \in Nat
    BY StepsType DEF IInv, TypeOK, Seal
  <1>2. PICK i \in 1..Len(s.calls) :
            /\ s.calls[i] = hello[c].sid
            /\ prepared'[c] = [call |-> i, count |-> Len(s.calls), key |-> AuthKey(hello[c]),
                               aad |-> Aad(hello[c])]
    BY <1>1 DEF Seal, IsSessionIdCall, TypeOK
  <1>3. lib' = lib /\ pc'[c] = "prepared" /\ answer'[c] = answer[c]
    BY <1>1 DEF Seal, TypeOK
  <1> HIDE DEF s
  <1>4. Distinct(s) /\ s.calls[i].src = "seed"
    BY <1>1, <1>2, EndOfPassA DEF FollowsA, Distinct, s
  <1>5. hello[c].sid # Blank
    BY <1>2, <1>4 DEF Blank
  <1>6. PICK T : Trace(c, T, Total) /\ FollowsA(c, s, hello[c], T[Total])
    BY <1>1, <1>5, EndOfPassA DEF s
  <1>7. T[Total] \in TraceStates
    BY <1>6, StartFacts
  <1>8. T[Total].last > 0 /\ T[Total].last \in 1..Len(s.calls)
    BY <1>5, <1>6, <1>7 DEF Trace, FollowsA, TraceStates
  <1>9. T[Total].last = i
    <2>1. s.calls[T[Total].last] = s.calls[i]
      BY <1>2, <1>6, <1>8 DEF FollowsA
    <2>2. s.calls \in Seq(Bytes) /\ Len(s.calls) \in Nat
      BY <1>1 DEF Scripts
    <2>3. \A j \in 1..Len(s.calls) : s.calls[j] \in Bytes
      BY <2>2
    <2>4. s.calls[i].at \in Nat
      BY <2>3 DEF Bytes
    <2>5. \A a, b \in 1..Len(s.calls) : a < b => s.calls[a].at < s.calls[b].at
      BY <1>4 DEF Distinct
    <2>6. ~(T[Total].last < i) /\ ~(i < T[Total].last)
      BY <1>8, <2>1, <2>4, <2>5
    <2> QED
      BY <1>8, <2>2, <2>6
  <1>10. Recorded(c, T)'
    BY <1>2, <1>3, <1>6, <1>8, <1>9, LibraryStays DEF Recorded, FollowsA
  <1>11. answer'[c] = NoAnswer
    BY <1>1, <1>3 DEF Replay, Busy
  <1> QED
    BY <1>3, <1>10, <1>11 DEF Replay, Busy

LEMMA CannotSealReplay ==
    ASSUME NEW c \in Conns, NEW t \in Threads, IInv, Replay(c), CannotSeal(c, t)
    PROVE  Replay(c)'
  <1> DEFINE s == script[t]
  <1>1. /\ TypeOK /\ s \in Scripts /\ run[t] = c /\ pc[c] = "passA" /\ left[c] = <<>>
        /\ Total \in Nat /\ lib' = lib /\ pc'[c] = "failed"
        /\ \A i \in 1..Len(s.calls) : s.calls[i] # hello[c].sid
    BY StepsType DEF IInv, TypeOK, CannotSeal, IsSessionIdCall
  <1> HIDE DEF s
  <1>2. ASSUME NEW T, Trace(c, T, Total), FollowsA(c, s, hello[c], T[Total]), Suitable(lib)
        PROVE  FALSE
    <2>1. PICK i \in 1..Total : lib.steps[i] = "sid"
      BY <1>2 DEF Suitable, Total
    <2>2. i - 1 \in 0..(Total - 1) /\ i \in 0..Total /\ Total \in 0..Total /\ (i - 1) + 1 = i
          /\ i - 1 \in 0..Total
      BY <1>1, <2>1
    <2>3. T[i] = Built(c, T[i - 1], "sid") /\ T[i - 1] \in TraceStates /\ T[Total] \in TraceStates
      BY <1>2, <2>1, <2>2 DEF Trace
    <2>4. T[i].last = T[i - 1].count + 1 /\ T[i - 1].count \in Nat
      BY <2>3 DEF Built, Draws, TraceStates
    <2>5. T[i].last <= T[Total].last
      BY <1>2, <2>1, <2>2 DEF Trace
    <2>6. T[Total].last \in 1..Len(s.calls)
      BY <1>2, <2>3, <2>4, <2>5 DEF FollowsA, TraceStates
    <2> QED
      BY <1>1, <1>2, <2>6 DEF FollowsA
  <1>3. ~Suitable(lib)
    BY <1>1, <1>2, EndOfPassA DEF s
  <1> QED
    BY <1>1, <1>3 DEF Replay, Busy

LEMMA BeginBReplay ==
    ASSUME NEW c \in Conns, NEW t \in Threads, IInv, Replay(c), BeginB(c, t)
    PROVE  Replay(c)'
  <1> DEFINE s == NewScript(c, "active", prepared[c].call)
  <1>1. /\ TypeOK /\ run[t] = c /\ pc[c] = "prepared"
        /\ lib.steps \in Seq(Draws \cup Groups) /\ lib.inside \in 0..Total /\ Total \in Nat
    BY StepsType DEF IInv, BeginB
  <1>2. /\ pc'[c] = "passB" /\ left'[c] = SubSeq(lib.steps, 1, lib.inside)
        /\ script'[t] = s /\ hello'[c] = NoHello /\ share'[c] = "none"
        /\ answer'[c] = answer[c] /\ lib' = lib /\ run' = run /\ prepared' = prepared
    BY <1>1 DEF BeginB, TypeOK
  <1>3. PICK T : Recorded(c, T)
    BY <1>1 DEF Replay
  <1>4. Ahead(left'[c], 0, lib.inside)
    BY <1>1, <1>2 DEF Ahead, Total
  <1>5. FollowsB(c, s, NoHello, "none", T[0], T[Total].last)
    <2>1. T[0] = Start /\ T[Total].last > 0 /\ T[Total].last = prepared[c].call
      BY <1>3 DEF Recorded, Trace
    <2>2. T[Total] \in TraceStates
      BY <1>3, StartFacts DEF Recorded
    <2>3. T[Total].last \in Nat \ {0}
      BY <2>1, <2>2 DEF TraceStates
    <2>4. /\ s.seed = c /\ s.swap = T[Total].last /\ s.at = 0 /\ s.calls = <<>> /\ s.mlkem = "active"
      BY <2>1 DEF NewScript
    <2>5. /\ Start.at = 0 /\ Start.count = 0 /\ Start.last = 0
          /\ Start.hello = NoHello /\ NoHello.mlkem = None
      BY DEF Start, NoHello
    <2> HIDE DEF s
    <2> QED
      BY <2>1, <2>3, <2>4, <2>5 DEF FollowsB
  <1>6. Recorded(c, T)'
    BY <1>2, <1>3, LibraryStays DEF Recorded
  <1> HIDE DEF s
  <1>7. PassB(c, script[t])'
    BY <1>2, <1>4, <1>5, <1>6, LibraryStays DEF PassB
  <1>8. answer'[c] = NoAnswer
    BY <1>1, <1>2 DEF Replay, Busy
  <1> QED
    BY <1>1, <1>2, <1>7, <1>8, InPassB

\* What is left to do when connect has returned is not a draw if the counts agree.
LEMMA PassBOverReplay ==
    ASSUME NEW c \in Conns, NEW t \in Threads, IInv, Replay(c), PassBOver(c, t)
    PROVE  Replay(c)'
  <1> DEFINE s == script[t]
  <1>1. /\ TypeOK /\ run[t] = c /\ pc[c] = "passB" /\ left[c] = <<>> /\ s \in Scripts
        /\ lib.inside \in 0..Total /\ Total \in Nat
        /\ \A i \in 1..Total : lib.steps[i] \in Draws \cup Groups
    BY StepsType DEF IInv, TypeOK, PassBOver
  <1>2. /\ lib' = lib /\ hello'[c] = hello[c] /\ share'[c] = share[c] /\ answer'[c] = answer[c]
        /\ prepared' = prepared
        /\ IF SelfCheck(c, s.calls) THEN pc'[c] = "wait" ELSE pc'[c] = "failed"
    BY <1>1 DEF PassBOver, TypeOK
  <1> HIDE DEF s
  <1>3. PICK T, k : /\ Recorded(c, T) /\ Ahead(left[c], k, lib.inside)
                    /\ FollowsB(c, s, hello[c], share[c], T[k], T[Total].last)
    BY <1>1 DEF Replay, PassB, s
  <1>4. k = lib.inside
    BY <1>1, <1>3 DEF Ahead
  <1>5. Trace(c, T, Total) /\ \A i \in 0..Total : T[i] \in TraceStates
    BY <1>3 DEF Recorded, Trace
  <1>6. /\ prepared[c].call = T[Total].last /\ prepared[c].count = T[Total].count
        /\ prepared[c].key = AuthKey(T[Total].hello) /\ prepared[c].aad = Aad(T[Total].hello)
    BY <1>3 DEF Recorded
  <1>7. Len(s.calls) = T[k].count /\ answer[c] = NoAnswer
    BY <1>1, <1>3 DEF FollowsB, Replay, Busy
  <1>8. CASE SelfCheck(c, s.calls)
    <2>1. T[lib.inside].count = T[Total].count
      BY <1>4, <1>6, <1>7, <1>8 DEF SelfCheck
    <2>2. ASSUME NEW i \in (lib.inside + 1)..Total, lib.steps[i] \in Draws PROVE FALSE
      <3>1. /\ i - 1 \in 0..(Total - 1) /\ (i - 1) + 1 = i /\ i \in 0..Total /\ i - 1 \in 0..Total
            /\ lib.inside \in 0..Total /\ lib.inside <= i - 1 /\ Total \in 0..Total /\ i <= Total
        BY <1>1
      <3>2. T[i] = Built(c, T[i - 1], lib.steps[i])
        BY <1>5, <3>1 DEF Trace
      <3>3. T[i].count = T[i - 1].count + 1
        BY <2>2, <3>2 DEF Built
      <3>4. T[lib.inside].count <= T[i - 1].count /\ T[i].count <= T[Total].count
        BY <1>5, <3>1 DEF Trace
      <3>5. T[i - 1].count \in Nat /\ T[Total].count \in Nat
        BY <1>5, <3>1 DEF TraceStates
      <3> QED
        BY <2>1, <3>3, <3>4, <3>5
    <2>3. Postponed \cap Draws = {}
      BY <2>2 DEF Postponed, Total
    <2>4. ASSUME Postponed = {} PROVE Good(c)
      <3>1. lib.inside = Total
        <4>1. \A i \in (lib.inside + 1)..Total : lib.steps[i] \in Postponed
          BY DEF Postponed, Total
        <4>2. lib.inside + 1 \notin (lib.inside + 1)..Total
          BY <2>4, <4>1
        <4> QED
          BY <1>1, <4>2
      <3>2. FollowsB(c, s, hello[c], share[c], T[Total], T[Total].last)
        BY <1>3, <1>4, <3>1
      <3>3. T[Total].hello \in Hello /\ hello[c] \in Hello
        BY <1>1, <1>5 DEF TraceStates, TypeOK
      <3>4. hello[c].sid = Sealed(c)
        BY <3>2 DEF FollowsB
      <3>5. /\ hello[c].random = T[Total].hello.random /\ hello[c].ext = T[Total].hello.ext
            /\ hello[c].kx = T[Total].hello.kx /\ hello[c].mlkem = T[Total].hello.mlkem
        BY <3>2 DEF FollowsB
      <3>6. AuthKey(hello[c]) = AuthKey(T[Total].hello)
        BY <3>5 DEF AuthKey
      <3>7. Aad(hello[c]) = Aad(T[Total].hello)
        BY <3>3, <3>5 DEF Aad, Hello
      <3> QED
        BY <1>6, <3>2, <3>4, <3>6, <3>7 DEF Good, FollowsB
    <2>5. Postponed' = Postponed /\ (Good(c)' <=> Good(c))
      BY <1>2, LibraryStays DEF Good
    <2> QED
      BY <1>2, <1>7, <1>8, <2>3, <2>4, <2>5 DEF Replay, Busy
  <1>9. CASE ~SelfCheck(c, s.calls)
    <2>1. ASSUME Suitable(lib) PROVE FALSE
      <3>1. k = Total
        BY <1>4, <2>1 DEF Suitable, Total
      <3>2. Total \in 0..Total /\ T[Total].last <= T[Total].count
        BY <1>1, <1>5 DEF Trace
      <3>3. s.calls[T[Total].last] = Sealed(c)
        BY <1>3, <1>5, <3>1, <3>2 DEF FollowsB, TraceStates
      <3> QED
        BY <1>6, <1>7, <1>9, <3>1, <3>3 DEF SelfCheck
    <2> QED
      BY <1>2, <1>9, <2>1 DEF Replay, Busy
  <1> QED
    BY <1>8, <1>9

LEMMA SendReplay ==
    ASSUME NEW c \in Conns, NEW t \in Threads, IInv, Replay(c), Send(c, t)
    PROVE  Replay(c)'
  <1>1. /\ TypeOK /\ run[t] = c /\ pc[c] = "wait" /\ hello[c] \in Hello
        /\ lib.inside \in 0..Total /\ Total \in Nat
    BY StepsType DEF IInv, TypeOK, Send
  <1>2. Postponed \cap Draws = {} /\ (Postponed = {} => Good(c)) /\ answer[c] = NoAnswer
    BY <1>1 DEF Replay, Busy
  <1>3. Postponed \subseteq Groups
    <2>1. \A i \in (lib.inside + 1)..Total : i \in 1..Total
      BY <1>1
    <2> QED
      BY <1>1, <1>2, <2>1, StepsType DEF Postponed, Total
  <1>4. /\ lib' = lib /\ share'[c] = share[c] /\ prepared' = prepared /\ answer'[c] = answer[c]
        /\ pc'[c] = IF Postponed \cap Groups = {} THEN "sent" ELSE "failed"
    BY <1>1 DEF Send, TypeOK
  <1>5. hello'[c] = hello[c]
    <2>1. DOMAIN hello[c] = {"random", "sid", "ext", "kx", "mlkem"}
      BY <1>1 DEF Hello
    <2>2. \A f \in DOMAIN hello[c] : f \notin Postponed
      BY <1>3, <2>1 DEF Groups
    <2>3. [f \in DOMAIN hello[c] |->
              IF f \in Postponed THEN Filled(script[t], c, Width(f)) ELSE hello[c][f]] = hello[c]
      BY <1>1, <2>2 DEF Hello
    <2> QED
      BY <1>1, <2>3 DEF Send, TypeOK
  <1>6. CASE Postponed \cap Groups = {}
    <2>1. Good(c)
      BY <1>2, <1>3, <1>6
    <2>2. Good(c)' /\ AnswerFits(c)'
      BY <1>2, <1>4, <1>5, <2>1 DEF Good, AnswerFits
    <2> QED
      BY <1>4, <1>6, <2>2 DEF Replay, Busy
  <1>7. CASE Postponed \cap Groups # {}
    <2>1. ~Suitable(lib)
      BY <1>1, <1>7 DEF Suitable, Postponed, Total
    <2> QED
      BY <1>4, <1>7, <2>1 DEF Replay, Busy
  <1> QED
    BY <1>6, <1>7

LEMMA AnswerReplay ==
    ASSUME NEW c \in Conns, IInv, Replay(c), Answer(c)
    PROVE  Replay(c)'
  <1>1. /\ pc[c] = "sent" /\ pc' = pc /\ lib' = lib
        /\ hello' = hello /\ share' = share /\ prepared' = prepared
    BY DEF Answer
  <1>2. \/ \E g \in Offered(hello[c]) : answer'[c] = [cert |-> AuthKey(hello[c]), group |-> g]
        \/ answer'[c] = CoverSite
    BY DEF Answer, IInv, TypeOK
  <1>3. AnswerFits(c)'
    <2>1. CASE answer'[c] = CoverSite
      BY <2>1 DEF AnswerFits
    <2>2. ASSUME NEW g \in Offered(hello[c]), answer'[c] = [cert |-> AuthKey(hello[c]), group |-> g]
          PROVE  AnswerFits(c)'
      <3>1. answer'[c].cert = AuthKey(hello'[c]) /\ answer'[c].group = g
        BY <1>1, <2>2
      <3>2. Offered(hello'[c]) = Offered(hello[c])
        BY <1>1
      <3> QED
        BY <3>1, <3>2 DEF AnswerFits
    <2> QED
      BY <1>2, <2>1, <2>2
  <1>4. Good(c)'
    BY <1>1 DEF Replay, Good
  <1> QED
    BY <1>1, <1>3, <1>4 DEF Replay, Busy

\* A connection that was sealed comes up unless the answer is the cover site's.
LEMMA FinishReplay ==
    ASSUME NEW c \in Conns, NEW t \in Threads, IInv, Replay(c), Finish(c, t)
    PROVE  Replay(c)'
  <1>1. /\ pc[c] = "sent" /\ answer[c] # NoAnswer /\ lib' = lib
        /\ hello' = hello /\ share' = share /\ prepared' = prepared /\ answer' = answer
        /\ pc'[c] = IF Completes(c) /\ Verified(c) THEN "up" ELSE "failed"
    BY DEF Finish, IInv, TypeOK
  <1>2. Good(c) /\ AnswerFits(c)
    BY <1>1 DEF Replay
  <1>3. Good(c)' /\ AnswerFits(c)'
    BY <1>1, <1>2 DEF Good, AnswerFits
  <1>4. ASSUME answer[c] # CoverSite PROVE Completes(c) /\ Verified(c)
    <2>1. answer[c].cert = AuthKey(hello[c]) /\ answer[c].group \in Offered(hello[c])
      BY <1>1, <1>2, <1>4 DEF AnswerFits
    <2>2. Verified(c)
      BY <1>2, <2>1 DEF Verified, Good
    <2>3. Completes(c)
      BY <1>2, <2>1 DEF Completes, Offered, Good
    <2> QED
      BY <2>2, <2>3
  <1> QED
    BY <1>1, <1>3, <1>4 DEF Replay, Busy

LEMMA TimeoutReplay ==
    ASSUME NEW c \in Conns, IInv, Replay(c), Timeout(c)
    PROVE  Replay(c)'
  <1>1. pc'[c] = "timeout"
    BY DEF Timeout, IInv, TypeOK
  <1> QED
    BY <1>1 DEF Replay, Busy

LEMMA InitReplays == Init => Replays
  BY DEF Init, Replays, Replay, Busy

\* The actions of another connection, on whichever thread
LEMMA OthersReplay ==
    ASSUME NEW c \in Conns, NEW d \in Conns \ {c}, IInv, Replay(d), NEW t \in Threads,
           \/ Begin(c, t) \/ Draw(c, t) \/ StartHybrid(c, t) \/ GroupRefused(c, t)
           \/ StartX25519(c, t) \/ Seal(c, t) \/ CannotSeal(c, t) \/ BeginB(c, t)
           \/ PassBOver(c, t) \/ Send(c, t) \/ Finish(c, t) \/ Answer(c) \/ Timeout(c)
    PROVE  Replay(d)'
  <1>1. TypeOK /\ d # None /\ c # d
    BY NoneAssumption DEF IInv
  <1>2. /\ lib' = lib /\ pc'[d] = pc[d] /\ left'[d] = left[d] /\ hello'[d] = hello[d]
        /\ share'[d] = share[d] /\ prepared'[d] = prepared[d] /\ answer'[d] = answer[d]
    BY <1>1 DEF TypeOK, Begin, Draw, StartHybrid, GroupRefused, StartX25519, Seal, CannotSeal,
                BeginB, PassBOver, Send, Finish, Answer, Timeout
  <1>3. ASSUME NEW u \in Threads, run'[u] = d
        PROVE  run[u] = d /\ script'[u] = script[u]
    <2>1. CASE Begin(c, t)
      BY <1>1, <1>3, <2>1 DEF TypeOK, Begin
    <2>2. CASE Draw(c, t) \/ StartHybrid(c, t) \/ GroupRefused(c, t) \/ StartX25519(c, t)
               \/ Seal(c, t)
      <3>1. run[t] = c /\ run' = run
        BY <2>2 DEF Draw, StartHybrid, GroupRefused, StartX25519, Seal, InPass
      <3>2. u # t
        BY <1>1, <1>3, <3>1
      <3> QED
        BY <1>1, <1>3, <2>2, <3>1, <3>2
           DEF TypeOK, Draw, StartHybrid, GroupRefused, StartX25519, Seal
    <2>3. CASE CannotSeal(c, t) \/ BeginB(c, t) \/ PassBOver(c, t) \/ Send(c, t)
      <3>1. run[t] = c /\ (run' = run \/ run' = [run EXCEPT ![t] = None])
        BY <2>3 DEF CannotSeal, BeginB, PassBOver, Send
      <3>2. u # t
        BY <1>1, <1>3, <3>1 DEF TypeOK
      <3> QED
        BY <1>1, <1>3, <2>3, <3>1, <3>2 DEF TypeOK, CannotSeal, BeginB, PassBOver, Send
    <2>4. CASE Finish(c, t) \/ Answer(c) \/ Timeout(c)
      BY <1>3, <2>4 DEF Finish, Answer, Timeout
    <2> QED
      BY <2>1, <2>2, <2>3, <2>4
  <1> QED
    BY <1>2, <1>3, OthersKept

LEMMA StepReplays == IInv /\ Replays /\ [Next]_vars => Replays'
  <1> SUFFICES ASSUME IInv, Replays, [Next]_vars, NEW d \in Conns PROVE Replay(d)'
    BY DEF Replays
  <1>1. Replay(d)
    BY DEF Replays
  <1>2. CASE UNCHANGED vars
    BY <1>1, <1>2, OthersKept DEF vars, connVars
  <1>3. ASSUME NEW c \in Conns, NEW t \in Threads,
               \/ Begin(c, t) \/ Draw(c, t) \/ StartHybrid(c, t) \/ GroupRefused(c, t)
               \/ StartX25519(c, t) \/ Seal(c, t) \/ CannotSeal(c, t) \/ BeginB(c, t)
               \/ PassBOver(c, t) \/ Send(c, t) \/ Finish(c, t)
        PROVE  Replay(d)'
    <2>1. CASE c = d
      BY <1>1, <1>3, <2>1, BeginReplay, DrawReplay, StartHybridReplay, GroupRefusedReplay,
         StartX25519Replay, SealReplay, CannotSealReplay, BeginBReplay, PassBOverReplay,
         SendReplay, FinishReplay
    <2>2. CASE c # d
      BY <1>1, <1>3, <2>2, OthersReplay
    <2> QED
      BY <2>1, <2>2
  <1>4. ASSUME NEW c \in Conns, Answer(c) \/ Timeout(c) PROVE Replay(d)'
    <2>1. CASE c = d
      BY <1>1, <1>4, <2>1, AnswerReplay, TimeoutReplay
    <2>2. CASE c # d
      <3>1. /\ lib' = lib /\ run' = run /\ script' = script /\ pc'[d] = pc[d] /\ left' = left
            /\ hello' = hello /\ share' = share /\ prepared' = prepared /\ answer'[d] = answer[d]
        BY <1>4, <2>2 DEF IInv, TypeOK, Answer, Timeout
      <3> QED
        BY <1>1, <3>1, OthersKept
    <2> QED
      BY <2>1, <2>2
  <1> QED
    BY <1>2, <1>3, <1>4 DEF Next

\* The replay works in every reachable state (reality.rs prepare, connect).
THEOREM ReplayInvariance == Spec => [](IInv /\ Replays)
  <1>1. Init => IInv /\ Replays
    BY InitIInv, InitReplays
  <1>2. IInv /\ Replays /\ [Next]_vars => IInv' /\ Replays'
    BY NextStep, StepReplays
  <1> QED
    BY <1>1, <1>2, PTL DEF Spec

\* For any connections and threads, and libraries that draw in any order, start any
\* groups and put off any part of the build: a ClientHello that is sent is, its
\* session ID apart, the one the session ID was sealed over, and its ML-KEM share can
\* be completed (reality.rs connect, ScriptedX25519Mlkem768).
THEOREM SentHelloIsSealed == Spec => []SentIsSealed
  <1>1. Replays => SentIsSealed
    <2> SUFFICES ASSUME Replays, NEW c \in Conns, pc[c] \in {"sent", "up"}
                 PROVE  /\ hello[c].sid = Sealed(c) /\ Opens(hello[c])
                        /\ hello[c].mlkem # None => share[c] = "active"
      BY DEF SentIsSealed
    <2>1. Good(c)
      BY DEF Replays, Replay
    <2> QED
      BY <2>1 DEF Good, Opens
  <1> QED
    BY <1>1, ReplayInvariance, PTL

\* ... and connect fails only if the libraries do not build the message in one go
\* or the answer is the cover site's (reality.rs prepare, connect, RealityVerifier).
THEOREM FailsForCause == Spec => []RefusedForCause
  <1>1. Replays => RefusedForCause
    BY DEF Replays, Replay, RefusedForCause
  <1> QED
    BY <1>1, ReplayInvariance, PTL
=============================================================================
