---------------------------- MODULE DriverProofs ----------------------------
(***************************************************************************)
(* Permits are conserved, for any limit and any number of connections      *)
(* (driver.rs `serve`).                                                     *)
(***************************************************************************)
EXTENDS Driver, FiniteSetTheorems, TLAPS

Phases == {"away", "queued", "over"} \cup Untimed \cup Timed

Types ==
    /\ limit \in Nat /\ slots \in Nat
    /\ loop \in {"permit", "accept", "retry"}
    /\ phase \in [Clients -> Phases]

\* The kernel's queue holds queued connections only, each once: accept never
\* hands out a connection that has a permit already.
Queue ==
    /\ backlog \in Seq(Clients)
    /\ \A i \in DOMAIN backlog : phase[backlog[i]] = "queued"
    /\ \A i, j \in DOMAIN backlog : i # j => backlog[i] # backlog[j]

IInv == Types /\ Queue /\ SlotsKept

---------------------------------------------------------------------------
LEMMA ServedFinite ==
    /\ IsFiniteSet(Served) /\ Cardinality(Served) \in Nat
    /\ IsFiniteSet(Served') /\ Cardinality(Served') \in Nat
  <1>1. Served \in SUBSET Clients /\ Served' \in SUBSET Clients
    BY DEF Served
  <1> QED
    BY <1>1, FS_Subset, FS_CardinalityType, ClientsAssumption

LEMMA InitIInv == Init => IInv
  <1> SUFFICES ASSUME Init PROVE IInv
    OBVIOUS
  <1>1. Types
    BY LimitsAssumption DEF Init, Types, Phases
  <1>2. Queue
    BY DEF Init, Queue
  <1>3. Served = {}
    BY DEF Init, Served, Untimed, Timed
  <1>4. SlotsKept
    BY <1>1, <1>3, FS_EmptySet DEF Init, Types, SlotsKept, LoopHolds
  <1> QED
    BY <1>1, <1>2, <1>4 DEF IInv

---------------------------------------------------------------------------
\* The loop takes a permit out of the semaphore, or puts one back.
LEMMA LoopStep == ASSUME IInv, Acquire \/ AcceptFails \/ Retry PROVE IInv'
  <1>1. UNCHANGED <<limit, phase, backlog>>
    BY DEF Acquire, AcceptFails, Retry, connVars
  <1>2. Queue' /\ Served' = Served
    BY <1>1 DEF IInv, Queue, Served
  <1>3. Types'
    BY <1>1 DEF IInv, Types, Acquire, AcceptFails, Retry, Release, AfterAcceptError
  <1>4. SlotsKept'
    BY <1>1, <1>2, ServedFinite
       DEF IInv, Types, SlotsKept, LoopHolds, Acquire, AcceptFails, Retry, Release, AfterAcceptError
  <1> QED
    BY <1>2, <1>3, <1>4 DEF IInv

\* The loop's permit becomes the connection's.
LEMMA AcceptStep == ASSUME IInv, Accept PROVE IInv'
  <1> DEFINE c == Head(backlog)
  <1>1. /\ backlog \in Seq(Clients) /\ backlog # <<>>
        /\ 1 \in DOMAIN backlog /\ c = backlog[1] /\ c \in Clients
    BY DEF IInv, Queue, Accept
  <1>2. phase[c] = "queued" /\ c \notin Served
    BY <1>1 DEF IInv, Queue, Served, Untimed, Timed
  <1>3. /\ backlog' \in Seq(Clients)
        /\ \A i \in DOMAIN backlog' : i \in Int /\ i + 1 \in DOMAIN backlog /\ i + 1 # 1
                                      /\ backlog'[i] = backlog[i + 1]
    BY <1>1 DEF Accept
  <1>4. Queue'
    <2>1. \A i \in DOMAIN backlog' : backlog'[i] # c /\ backlog'[i] \in Clients
      BY <1>1, <1>3 DEF IInv, Queue
    <2>2. \A i \in DOMAIN backlog' : phase'[backlog'[i]] = "queued"
      BY <1>3, <2>1 DEF IInv, Queue, Types, Accept
    <2>3. \A i, j \in DOMAIN backlog' : i # j => backlog'[i] # backlog'[j]
      BY <1>3 DEF IInv, Queue
    <2> QED
      BY <1>3, <2>2, <2>3 DEF Queue
  <1>5. Types'
    BY <1>1 DEF IInv, Types, Accept, AfterAccept, Phases, Untimed
  <1>6. Served' = Served \cup {c}
    BY <1>1 DEF IInv, Types, Accept, Served, Untimed, Timed
  <1>7. Cardinality(Served') = Cardinality(Served) + 1
    BY <1>2, <1>6, ServedFinite, FS_AddElement
  <1>8. SlotsKept'
    BY <1>7, ServedFinite DEF IInv, Types, SlotsKept, LoopHolds, Accept, AfterAccept
  <1> QED
    BY <1>4, <1>5, <1>8 DEF IInv

LEMMA ConnectStep == ASSUME IInv, NEW c \in Clients, Connect(c) PROVE IInv'
  <1>1. /\ backlog' = Append(backlog, c) /\ backlog \in Seq(Clients)
        /\ phase[c] = "away" /\ phase' = [phase EXCEPT ![c] = "queued"]
        /\ UNCHANGED <<limit, slots, loop>>
    BY DEF IInv, Queue, Connect
  <1>2. /\ DOMAIN backlog' = DOMAIN backlog \cup {Len(backlog) + 1}
        /\ \A i \in DOMAIN backlog : backlog'[i] = backlog[i] /\ backlog[i] # c
        /\ backlog'[Len(backlog) + 1] = c
        /\ backlog' \in Seq(Clients)
    BY <1>1 DEF IInv, Queue
  <1>3. Types'
    BY <1>1 DEF IInv, Types, Phases
  <1>4. Queue'
    <2>1. \A i \in DOMAIN backlog' : phase'[backlog'[i]] = "queued"
      BY <1>1, <1>2 DEF IInv, Queue, Types
    <2>2. \A i, j \in DOMAIN backlog' : i # j => backlog'[i] # backlog'[j]
      BY <1>2 DEF IInv, Queue
    <2> QED
      BY <1>2, <2>1, <2>2 DEF Queue
  <1>5. Served' = Served
    BY <1>1 DEF IInv, Types, Served, Untimed, Timed
  <1>6. SlotsKept'
    BY <1>1, <1>5 DEF IInv, SlotsKept, LoopHolds
  <1> QED
    BY <1>3, <1>4, <1>6 DEF IInv

\* A connection that is being served goes on to another phase.
LEMMA EntersStep ==
    ASSUME IInv, NEW c \in Clients, c \in Served, NEW ph \in Untimed \cup Timed, Enters(c, ph)
    PROVE  IInv'
  <1>1. Types'
    BY DEF IInv, Types, Enters, Phases
  <1>2. Queue'
    BY DEF IInv, Types, Queue, Enters, Served, Untimed, Timed
  <1>3. Served' = Served
    BY DEF IInv, Types, Served, Enters
  <1>4. SlotsKept'
    BY <1>3 DEF IInv, SlotsKept, LoopHolds, Enters
  <1> QED
    BY <1>1, <1>2, <1>4 DEF IInv

\* ... or ends and gives its permit back.
LEMMA EndsStep ==
    ASSUME IInv, NEW c \in Clients, c \in Served, Ends(c)
    PROVE  IInv'
  <1>1. Types'
    BY DEF IInv, Types, Ends, Phases, Release
  <1>2. Queue'
    BY DEF IInv, Types, Queue, Ends, Served, Untimed, Timed
  <1>3. Served' = Served \ {c}
    BY DEF IInv, Types, Served, Ends, Untimed, Timed
  <1>4. Cardinality(Served') = Cardinality(Served) - 1
    BY <1>3, ServedFinite, FS_RemoveElement
  <1>5. SlotsKept'
    BY <1>4, ServedFinite DEF IInv, Types, SlotsKept, LoopHolds, Ends, Release
  <1> QED
    BY <1>1, <1>2, <1>5 DEF IInv

\* What a connection does beside opening: it ends, or goes on with nothing read.
Goes(c) == LastRead(c) \/ RelayDone(c) \/ Fails(c) \/ TimesOut(c)

LEMMA GoesOnOrEnds ==
    ASSUME NEW c \in Clients, Goes(c)
    PROVE  /\ c \in Served
           /\ Ends(c) \/ (UNCHANGED read /\ \E ph \in {"idle", "header"} : Enters(c, ph))
  BY DEF Goes, LastRead, RelayDone, Fails, TimesOut, DialTimesOut, HandshakeTimesOut,
         PayloadTimesOut, PayloadTimes, RelayTimesOut, Served, Untimed, Timed

LEMMA ConnectionStep ==
    ASSUME IInv, NEW c \in Clients,
           Talk(c) \/ Outbound(c) \/ FirstPayload(c) \/ Goes(c)
    PROVE  IInv'
  <1>1. c \in Served
    BY GoesOnOrEnds DEF Talk, Socks, WriteFirst, Outbound, FirstPayload, Served, Untimed, Timed
  <1>2. Ends(c) \/ \E ph \in Untimed \cup Timed : Enters(c, ph)
    BY GoesOnOrEnds DEF Talk, Socks, WriteFirst, Outbound, FirstPayload, Untimed, Timed
  <1> QED
    BY <1>1, <1>2, EndsStep, EntersStep

LEMMA StepIInv == IInv /\ [Next]_vars => IInv'
  <1> SUFFICES ASSUME IInv, [Next]_vars PROVE IInv'
    OBVIOUS
  <1>1. CASE Acquire \/ AcceptFails \/ Retry
    BY <1>1, LoopStep
  <1>2. CASE Accept
    BY <1>2, AcceptStep
  <1>3. ASSUME NEW c \in Clients, Connect(c) PROVE IInv'
    BY <1>3, ConnectStep
  <1>4. ASSUME NEW c \in Clients,
               Talk(c) \/ Outbound(c) \/ FirstPayload(c) \/ Goes(c)
        PROVE  IInv'
    BY <1>4, ConnectionStep
  <1>5. CASE UNCHANGED vars
    BY <1>5 DEF vars, connVars, IInv, Types, Queue, SlotsKept, LoopHolds, Served
  <1> QED
    BY <1>1, <1>2, <1>3, <1>4, <1>5 DEF Next, Goes

(***************************************************************************)
(* No permit is lost or made up, whichever way accepts and connections end *)
(* (driver.rs:22-32, 38, 47-50).                                               *)
(***************************************************************************)
THEOREM SlotsConserved == Spec => []SlotsKept
  <1>1. Init => IInv
    BY InitIInv
  <1>2. IInv /\ [Next]_vars => IInv'
    BY StepIInv
  <1>3. IInv => SlotsKept
    BY DEF IInv
  <1> QED
    BY <1>1, <1>2, <1>3, PTL DEF Spec

\* The limit on connections holds (driver.rs:14, config max_connections).
THEOREM NeverMoreThanLimit == Spec => [](limit > 0 => Cardinality(Served) <= limit)
  <1>1. Init => IInv
    BY InitIInv
  <1>2. IInv /\ [Next]_vars => IInv'
    BY StepIInv
  <1>3. IInv => (limit > 0 => Cardinality(Served) <= limit)
    BY ServedFinite DEF IInv, Types, SlotsKept, LoopHolds
  <1> QED
    BY <1>1, <1>2, <1>3, PTL DEF Spec

---------------------------------------------------------------------------
\* What IInv leaves out: no queued connection is forgotten, without a limit no
\* permits are counted, and a first payload is part of what the target waits for.
Payloads ==
    /\ limit \in Limits /\ (limit = 0 => slots = 0)
    /\ \A c \in Clients : phase[c] = "queued" => \E i \in DOMAIN backlog : backlog[i] = c
    /\ needs \in [Clients -> 0..MaxMessages] /\ read \in [Clients -> Nat]
    /\ \A c \in Clients : read[c] <= needs[c]
    /\ \A c \in Clients : phase[c] \in {"away", "queued"} => read[c] = 0

LEMMA StepPayloads ==
    ASSUME IInv, Payloads, [Next]_vars
    PROVE  Payloads'
  <1> USE LimitsAssumption
  <1>1. CASE Acquire \/ AcceptFails \/ Retry
    BY <1>1 DEF Payloads, Acquire, AcceptFails, Retry, Release, connVars
  <1>2. CASE Accept
    <2> DEFINE c == Head(backlog)
    <2>1. /\ backlog \in Seq(Clients) /\ backlog # <<>>
          /\ phase' = [phase EXCEPT ![c] = "greeting"] /\ backlog' = Tail(backlog)
          /\ UNCHANGED <<limit, slots, needs, read>>
      BY <1>2 DEF IInv, Queue, Accept, AfterAccept
    <2>2. ASSUME NEW e \in Clients, phase'[e] = "queued"
          PROVE  \E i \in DOMAIN backlog' : backlog'[i] = e
      <3>1. phase[e] = "queued" /\ e # c
        BY <2>1, <2>2 DEF IInv, Types
      <3>2. PICK i \in DOMAIN backlog : backlog[i] = e
        BY <3>1 DEF Payloads
      <3>3. i # 1 /\ i - 1 \in DOMAIN backlog'
        BY <2>1, <3>1, <3>2
      <3>4. backlog'[i - 1] = e
        BY <2>1, <3>2, <3>3
      <3> QED
        BY <3>3, <3>4
    <2> QED
      BY <2>1, <2>2 DEF Payloads, IInv, Types
  <1>3. ASSUME NEW c \in Clients, Connect(c) PROVE Payloads'
    <2>1. /\ backlog' = Append(backlog, c) /\ backlog \in Seq(Clients)
          /\ phase[c] = "away" /\ phase' = [phase EXCEPT ![c] = "queued"]
          /\ \E n \in 0..MaxMessages : needs' = [needs EXCEPT ![c] = n]
          /\ UNCHANGED <<limit, slots, read>>
      BY <1>3 DEF IInv, Queue, Connect
    <2>2. ASSUME NEW e \in Clients, phase'[e] = "queued"
          PROVE  \E i \in DOMAIN backlog' : backlog'[i] = e
      <3>1. CASE e = c
        <4>1. Len(backlog) + 1 \in DOMAIN backlog' /\ backlog'[Len(backlog) + 1] = c
          BY <2>1
        <4> QED
          BY <3>1, <4>1
      <3>2. CASE e # c
        <4>1. PICK i \in DOMAIN backlog : backlog[i] = e
          BY <2>1, <2>2, <3>2 DEF IInv, Types, Payloads
        <4>2. i \in DOMAIN backlog' /\ backlog'[i] = e
          BY <2>1, <4>1
        <4> QED
          BY <4>2
      <3> QED
        BY <3>1, <3>2
    <2>3. /\ needs' \in [Clients -> 0..MaxMessages]
          /\ \A e \in Clients : read'[e] <= needs'[e]
      BY <2>1 DEF Payloads
    <2> QED
      BY <2>1, <2>2, <2>3 DEF Payloads, IInv, Types
  <1>4. ASSUME NEW c \in Clients,
               Talk(c) \/ Outbound(c) \/ FirstPayload(c) \/ Goes(c)
        PROVE  Payloads'
    <2>1. c \in Served
      BY <1>4, GoesOnOrEnds
         DEF Talk, Socks, WriteFirst, Outbound, FirstPayload, Served, Untimed, Timed
    <2>2. UNCHANGED limit /\ (limit = 0 => slots' = slots) /\ UNCHANGED backlog
      BY <1>4, GoesOnOrEnds
         DEF Talk, Socks, WriteFirst, Outbound, FirstPayload, Enters, Ends, Release, Payloads
    <2>3. \E ph \in {"over"} \cup Untimed \cup Timed : phase' = [phase EXCEPT ![c] = ph]
      BY <1>4, GoesOnOrEnds
         DEF Talk, Socks, WriteFirst, Outbound, FirstPayload, Enters, Ends, Untimed, Timed
    <2>4. \A e \in Clients : phase'[e] \in {"away", "queued"} => phase[e] = phase'[e] /\ e # c
      BY <2>1, <2>3 DEF IInv, Types, Untimed, Timed
    <2>5. \/ UNCHANGED needs /\ \E n \in 0..needs[c] : read' = [read EXCEPT ![c] = n]
          \/ needs' = [needs EXCEPT ![c] = 0] /\ read' = [read EXCEPT ![c] = 0]
          \/ UNCHANGED <<needs, read>>
      BY <1>4, GoesOnOrEnds
         DEF Talk, Socks, WriteFirst, Outbound, FirstPayload, Enters, Ends, Payloads
    <2>6. /\ needs' \in [Clients -> 0..MaxMessages] /\ read' \in [Clients -> Nat]
          /\ \A e \in Clients : read'[e] <= needs'[e]
          /\ \A e \in Clients : e # c => read'[e] = read[e]
      BY <2>5 DEF Payloads
    <2> QED
      BY <2>2, <2>4, <2>6 DEF Payloads
  <1>5. CASE UNCHANGED vars
    BY <1>5 DEF vars, connVars, Payloads
  <1> QED
    BY <1>1, <1>2, <1>3, <1>4, <1>5 DEF Next, Goes

LEMMA PartsMeanTypeOK == IInv /\ Payloads => TypeOK
  <1> SUFFICES ASSUME IInv, Payloads PROVE TypeOK
    OBVIOUS
  <1>1. slots \in 0..limit
    BY ServedFinite DEF IInv, Types, SlotsKept, LoopHolds, Payloads
  <1>2. {backlog[i] : i \in DOMAIN backlog} = {c \in Clients : phase[c] = "queued"}
    BY DEF IInv, Queue, Payloads
  <1> QED
    BY <1>1, <1>2 DEF IInv, Types, Phases, Queue, Payloads, TypeOK

\* The kernel's queue and the phases agree, and never more permits are there than
\* the limit, whichever way accepts and connections end (driver.rs:16-50).
THEOREM DriverTypes == Spec => []TypeOK
  <1>1. Init => IInv /\ Payloads
    BY InitIInv, LimitsAssumption DEF Init, Payloads
  <1>2. IInv /\ Payloads /\ [Next]_vars => IInv' /\ Payloads'
    BY StepIInv, StepPayloads
  <1> QED
    BY <1>1, <1>2, PartsMeanTypeOK, PTL DEF Spec
=============================================================================
