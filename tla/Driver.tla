------------------------------- MODULE Driver -------------------------------
(***************************************************************************)
(* driver.rs: the accept loop with its permits, and the phases every       *)
(* connection goes through: SOCKS5 handshake and reply (socks5.rs), dial,  *)
(* Reality handshake, first payload, request (outbound `open`), relay.     *)
(*                                                                         *)
(* Dial and Relay are modules of their own; here a phase is only how it    *)
(* may end and whether time ends it. Time does not end a relay as such:    *)
(* every read moves its deadline. It is in phase "relay" as long as there  *)
(* are reads to come and "idle" from the last one on.                      *)
(*                                                                         *)
(* `needs` is what makes the order of the phases matter: how many messages *)
(* of the client the target wants before it sends anything, the VLESS      *)
(* response header included. 0 is a protocol in which the server speaks    *)
(* first.                                                                   *)
(***************************************************************************)
EXTENDS Naturals, FiniteSets, Sequences

CONSTANTS
    Clients,      \* the connections clients make
    Quiet,        \* those of clients that may stop talking at any point
    Limits,       \* values of max_connections to try, 0 for no limit
    MaxMessages   \* bound on needs

ASSUME ClientsAssumption == IsFiniteSet(Clients) /\ Quiet \subseteq Clients
ASSUME LimitsAssumption == Limits \subseteq Nat /\ MaxMessages \in Nat

VARIABLES
    limit,     \* max_connections
    slots,     \* permits the semaphore has left
    loop,      \* the accept loop: waiting for a "permit", in "accept", or
               \* asleep after an error ("retry")
    backlog,   \* connections the kernel has queued
    phase,     \* of each connection
    needs,     \* of each connection's target
    read       \* messages of the client read as its first payload

connVars == <<phase, needs, read>>
vars == <<limit, slots, loop, backlog, connVars>>

\* Nothing limits the time a connection may be in these ...
Untimed == {"greeting", "request", "reply", "header", "relay"}
\* ... and a timer ends each of these.
Timed   == {"dial", "tls", "payload", "idle"}
Served  == {c \in Clients : phase[c] \in Untimed \cup Timed}

Init ==
    /\ limit \in Limits
    /\ slots = limit
    /\ loop = "permit"
    /\ backlog = <<>>
    /\ phase = [c \in Clients |-> "away"]
    /\ needs = [c \in Clients |-> 0]
    /\ read = [c \in Clients |-> 0]

\* A client connects (external); the kernel queues the connection.
Connect(c) ==
    /\ phase[c] = "away"
    /\ phase' = [phase EXCEPT ![c] = "queued"]
    /\ needs' \in {[needs EXCEPT ![c] = n] : n \in 0..MaxMessages}
    /\ backlog' = Append(backlog, c)
    /\ UNCHANGED <<limit, slots, loop, read>>

---------------------------------------------------------------------------
(* serve                                                                    *)

\* A permit, if there is a limit, before accept.
Acquire ==
    /\ loop = "permit"
    /\ limit > 0 => slots > 0
    /\ slots' = IF limit > 0 THEN slots - 1 ELSE slots
    /\ loop' = "accept"
    /\ UNCHANGED <<limit, backlog, connVars>>

\* A permit that is dropped goes back.
Release_Lost == slots   \* mutant: forgotten
Release == IF limit > 0 THEN slots + 1 ELSE slots

\* The permit goes with the connection.
AfterAccept == slots

Accept ==
    /\ loop = "accept" /\ backlog # <<>>
    /\ phase' = [phase EXCEPT ![Head(backlog)] = "greeting"]
    /\ backlog' = Tail(backlog)
    /\ slots' = AfterAccept
    /\ loop' = "permit"
    /\ UNCHANGED <<limit, needs, read>>

\* accept fails, with the process out of descriptors for example. The loop keeps
\* its permit while it sleeps.
AfterAcceptError_Return == "gone"   \* mutant: the error ends the loop
AfterAcceptError == "retry"

AcceptFails ==
    /\ loop = "accept"
    /\ loop' = AfterAcceptError
    /\ UNCHANGED <<limit, slots, backlog, connVars>>

Retry ==
    /\ loop = "retry"
    /\ slots' = Release
    /\ loop' = "permit"
    /\ UNCHANGED <<limit, backlog, connVars>>

---------------------------------------------------------------------------
(* handle_connection                                                        *)

\* The task ends and drops the socket and the permit.
Ends(c) ==
    /\ phase' = [phase EXCEPT ![c] = "over"]
    /\ slots' = Release
    /\ needs' = [needs EXCEPT ![c] = 0]
    /\ read' = [read EXCEPT ![c] = 0]
    /\ UNCHANGED <<limit, loop, backlog>>

Enters(c, ph) ==
    /\ phase' = [phase EXCEPT ![c] = ph]
    /\ UNCHANGED <<limit, slots, loop, backlog, needs>>

\* Greeting and method, request, reply: as far as the client reads and writes.
Socks(c) ==
    \/ phase[c] = "greeting" /\ Enters(c, "request") /\ UNCHANGED read
    \/ phase[c] = "request" /\ Enters(c, "reply") /\ UNCHANGED read
    \/ phase[c] = "reply" /\ Enters(c, "dial") /\ UNCHANGED read

\* dial and the handshake succeed before their time is up.
Outbound(c) ==
    \/ phase[c] = "dial" /\ Enters(c, "tls") /\ UNCHANGED read
    \/ phase[c] = "tls" /\ Enters(c, "payload") /\ UNCHANGED read

\* What the client has sent by then, in one read.
FirstPayload(c) ==
    /\ phase[c] = "payload" /\ needs[c] > 0
    /\ Enters(c, "header")
    /\ \E n \in 1..needs[c] : read' = [read EXCEPT ![c] = n]

\* write_first: the request goes out with the first payload. Nothing is awaited
\* from the server.
OpenDone_AwaitsResponse(c) == read[c] >= needs[c]   \* mutant: its header is
OpenDone(c) == TRUE

WriteFirst(c) ==
    /\ phase[c] = "header" /\ OpenDone(c)
    /\ Enters(c, "relay")
    /\ read' = [read EXCEPT ![c] = 0]

\* The last read of a relay. Its peers need not come to it.
LastRead(c) == phase[c] = "relay" /\ Enters(c, "idle") /\ UNCHANGED read

\* Both directions have ended.
RelayDone(c) == phase[c] \in {"relay", "idle"} /\ Ends(c)

\* Any call may fail, a malformed greeting or a refused handshake included.
Fails(c) == c \in Served /\ Ends(c)

\* A dial gives up after its retries, each attempt with a limit of its own.
DialTimesOut(c) == phase[c] = "dial" /\ Ends(c)

\* The handshake fails after handshake_ms.
HandshakeTimesOut(c) == phase[c] = "tls" /\ Ends(c)

\* The wait for a first payload ends without one.
PayloadTimes_Never(c) == FALSE   \* mutant: wait until the client speaks
PayloadTimes(c) == phase[c] = "payload"
PayloadTimesOut(c) == PayloadTimes(c) /\ Enters(c, "header") /\ UNCHANGED read

\* The watchdog ends a relay in which nothing is read any more (Relay has when).
RelayTimesOut(c) == phase[c] = "idle" /\ Ends(c)

TimesOut(c) ==
    DialTimesOut(c) \/ HandshakeTimesOut(c) \/ PayloadTimesOut(c) \/ RelayTimesOut(c)

\* What a talking client and a server that reads bring about.
Talk(c) == Socks(c) \/ WriteFirst(c)

Next ==
    \/ Acquire \/ Accept \/ AcceptFails \/ Retry
    \/ \E c \in Clients :
          \/ Connect(c) \/ Talk(c) \/ Outbound(c) \/ FirstPayload(c)
          \/ LastRead(c) \/ RelayDone(c) \/ Fails(c) \/ TimesOut(c)

\* The loop runs and accept does not fail for ever; timers fire; clients that are
\* not quiet and servers go on in the phases that wait for them alone. Nothing makes
\* the data of a relay come to an end.
Fairness ==
    /\ WF_vars(Acquire) /\ SF_vars(Accept) /\ WF_vars(Retry)
    /\ \A c \in Clients : WF_vars(TimesOut(c))
    /\ \A c \in Clients \ Quiet : WF_vars(Talk(c))

Spec == Init /\ [][Next]_vars /\ Fairness

---------------------------------------------------------------------------
(* Properties.                                                              *)

\* Types; the backlog holds the queued connections, each once (driver.rs:16-50).
TypeOK ==
    /\ limit \in Limits
    /\ slots \in 0..limit
    /\ loop \in {"permit", "accept", "retry"}
    /\ phase \in [Clients -> {"away", "queued", "over"} \cup Untimed \cup Timed]
    /\ {backlog[i] : i \in DOMAIN backlog} = {c \in Clients : phase[c] = "queued"}
    /\ \A i, j \in DOMAIN backlog : i # j => backlog[i] # backlog[j]
    /\ needs \in [Clients -> 0..MaxMessages]
    /\ \A c \in Clients : read[c] \in 0..needs[c]

LoopHolds == IF loop \in {"accept", "retry"} THEN 1 ELSE 0

\* A permit is with the semaphore, the loop or one connection, whichever way
\* accepts and connections end: the limit neither erodes nor is exceeded
\* (driver.rs:22-32, 38, 47-50).
SlotsKept == limit > 0 => slots + LoopHolds + Cardinality(Served) = limit

\* Who waits in the backlog is served, provided that no connection stays for ever
\* in a phase without a time limit: with a client that is silent before the relay, or
\* in a relay whose data keep coming (driver.rs:14-15; relay.rs:84-96, 111).
QueueServed ==
    (\A c \in Clients : []<>(phase[c] \notin Untimed))
        => \A c \in Clients : phase[c] = "queued" ~> phase[c] # "queued"

\* Client, server and target never all wait for each other while a connection is
\* opened, whoever of them speaks first (outbound/mod.rs:19-21, 48-50).
OpensOrEnds ==
    \A c \in Clients \ Quiet : phase[c] = "greeting" ~> phase[c] \in {"relay", "over"}
=============================================================================
