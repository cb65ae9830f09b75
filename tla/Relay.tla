------------------------------- MODULE Relay -------------------------------
(***************************************************************************)
(* relay.rs: two pumps and a watchdog in one task. A pump reads a chunk,   *)
(* writes all of it, flushes and reads on; at end of file it closes the    *)
(* other stream's write side. The watchdog ends the relay when nothing has *)
(* been read for `idle`, or for `half_close` once a direction has ended.   *)
(*                                                                         *)
(* Time passes in ticks. Instants are kept as distances from now: how long *)
(* ago last_ms was stored, how far away the watchdog's deadline is.        *)
(***************************************************************************)
EXTENDS Integers, Sequences, SequencesExt

CONSTANTS
    TimeoutPairs,   \* [idle, half] to try, in ticks
    MaxItems,       \* bound: data items followed per direction
    ChunkMax        \* items one read may bring (RELAY_BUF)

ASSUME TimeoutsAssumption == TimeoutPairs \subseteq [idle : Nat, half : Nat]
ASSUME ItemsAssumption == MaxItems \in Nat /\ ChunkMax \in Nat \ {0}

Dirs == {"up", "down"}
Other(d) == IF d = "up" THEN "down" ELSE "up"

VARIABLES
    timeouts,    \* Timeouts of this relay
    pc,          \* each pump: "read", "write", "flush", "shutdown" or "done"
    taken,       \* items each pump has read
    hand,        \* buf[..n]: read, not yet accepted by the writer
    held,        \* accepted by the writer, which may still hold them (Vision)
    out,         \* on their way to the peer
    age,         \* Activity: time since last_ms
    halfClosed,  \* Activity.half_closed
    notified,    \* Activity.changed holds a permit
    wake,        \* time until the watchdog's sleep ends
    over,        \* how the relay ended: "no", "done", "error" or "idle"
    quiet,       \* history: time since a pump last read data or end of file
    still        \* history: time since data moved or a direction ended

pumpVars  == <<pc, taken, hand, held, out>>
clockVars == <<age, halfClosed, notified, wake, quiet, still>>
vars      == <<timeouts, pumpVars, clockVars, over>>

Items(from, to) == [i \in 1..(to - from) |-> from + i]

Init ==
    /\ timeouts \in TimeoutPairs
    /\ pc = [d \in Dirs |-> "read"]
    /\ taken = [d \in Dirs |-> 0]
    /\ hand = [d \in Dirs |-> <<>>]
    /\ held = [d \in Dirs |-> <<>>]
    /\ out = [d \in Dirs |-> <<>>]
    /\ age = 0 /\ halfClosed = FALSE /\ notified = FALSE
    /\ wake = 0     \* the watchdog has not been polled yet
    /\ over = "no"
    /\ quiet = 0 /\ still = 0

---------------------------------------------------------------------------
(* Activity                                                                 *)

Limit == IF halfClosed THEN timeouts.half ELSE timeouts.idle

\* touch
Touch == age' = 0

\* half_close: shorter limit, counted from now, and the watchdog is told.
HalfClose_NoNotify ==   \* mutant: the watchdog sleeps on
    halfClosed' = TRUE /\ Touch /\ UNCHANGED notified
HalfClose_NoTouch ==    \* mutant: the limit counts from the last read
    halfClosed' = TRUE /\ UNCHANGED age /\ notified' = TRUE
HalfClose == halfClosed' = TRUE /\ Touch /\ notified' = TRUE

---------------------------------------------------------------------------
(* pump                                                                     *)

Running(d, at) == over = "no" /\ pc[d] = at

\* The writer (external) passes any part of what it holds on to the peer.
Forward(d, cells) ==
    \E k \in 0..Len(cells) :
        /\ out' = [out EXCEPT ![d] = @ \o SubSeq(cells, 1, k)]
        /\ held' = [held EXCEPT ![d] = SubSeq(cells, k + 1, Len(cells))]

ReadData(d) ==
    /\ Running(d, "read")
    /\ \E n \in 1..ChunkMax :
          /\ taken[d] + n <= MaxItems
          /\ hand' = [hand EXCEPT ![d] = Items(taken[d], taken[d] + n)]
          /\ taken' = [taken EXCEPT ![d] = @ + n]
    /\ pc' = [pc EXCEPT ![d] = "write"]
    /\ Touch
    /\ quiet' = 0 /\ still' = 0
    /\ UNCHANGED <<timeouts, held, out, halfClosed, notified, wake, over>>

\* Data behind the last item that is followed: it moves the deadline like any
\* other, and the writer may take as long over it. A peer may send it for ever.
ReadOn(d) ==
    /\ Running(d, "read")
    /\ taken[d] = MaxItems
    /\ pc' = [pc EXCEPT ![d] = "flush"]
    /\ Touch
    /\ quiet' = 0 /\ still' = 0
    /\ UNCHANGED <<timeouts, taken, hand, held, out, halfClosed, notified, wake, over>>

ReadEof(d) ==
    /\ Running(d, "read")
    /\ HalfClose
    /\ pc' = [pc EXCEPT ![d] = "shutdown"]
    /\ quiet' = 0 /\ still' = 0
    /\ UNCHANGED <<timeouts, taken, hand, held, out, wake, over>>

\* write_all: the writer accepts any part at a time until nothing is left.
WroteAll_Once(d) == TRUE   \* mutant: write instead of write_all
WroteAll(d) == hand'[d] = <<>>

\* What of the chunk is left after k items of it.
Unwritten(d, k) == SubSeq(hand[d], k + 1, Len(hand[d]))

\* What follows a chunk.
AfterChunk_NoFlush == "read"   \* mutant: the next read without a flush
AfterChunk == "flush"

Write(d) ==
    /\ Running(d, "write")
    /\ \E k \in 1..Len(hand[d]) :
          /\ hand' = [hand EXCEPT ![d] = Unwritten(d, k)]
          /\ Forward(d, held[d] \o SubSeq(hand[d], 1, k))
    /\ pc' = [pc EXCEPT ![d] = IF WroteAll(d) THEN AfterChunk ELSE "write"]
    /\ still' = 0
    /\ UNCHANGED <<timeouts, taken, age, halfClosed, notified, wake, over, quiet>>

\* To poll a writer is no activity.
WriterPolled_Touch == Touch   \* mutant: it counts, whatever the writer does
WriterPolled == UNCHANGED age

Flush(d) ==
    /\ Running(d, "flush")
    /\ WriterPolled
    /\ Forward(d, held[d])
    /\ pc' = [pc EXCEPT ![d] = IF held'[d] = <<>> THEN "read" ELSE "flush"]
    /\ still' = IF held'[d] # held[d] THEN 0 ELSE still
    /\ UNCHANGED <<timeouts, taken, hand, halfClosed, notified, wake, over, quiet>>

\* The write side closes once the writer holds nothing more. When it is the
\* second direction to end, try_join is complete.
Shutdown(d) ==
    /\ Running(d, "shutdown")
    /\ Forward(d, held[d])
    /\ \/ held'[d] # <<>> /\ UNCHANGED <<pc, over>>
       \/ /\ held'[d] = <<>>
          /\ pc' = [pc EXCEPT ![d] = "done"]
          /\ over' = IF pc[Other(d)] = "done" THEN "done" ELSE "no"
    /\ UNCHANGED <<timeouts, taken, hand, clockVars>>

\* Any of these calls may fail: try_join drops the other pump.
Fail(d) ==
    /\ over = "no" /\ pc[d] # "done"
    /\ over' = "error"
    /\ UNCHANGED <<timeouts, pumpVars, clockVars>>

Pump(d) ==
    ReadData(d) \/ ReadOn(d) \/ ReadEof(d) \/ Write(d) \/ Flush(d) \/ Shutdown(d) \/ Fail(d)

---------------------------------------------------------------------------
(* watchdog                                                                 *)

\* How far away the deadline is. It is computed anew at every turn of the loop.
Left == Limit - age

Expired == Left <= 0

\* The sleep is over or a permit is there. When both hold select may take
\* either, and the permit stays behind if it is not the one.
Watchdog ==
    /\ over = "no"
    /\ \/ wake = 0 /\ UNCHANGED notified
       \/ notified /\ notified' = FALSE
    /\ \/ Expired /\ over' = "idle" /\ UNCHANGED wake
       \/ ~Expired /\ wake' = Left /\ UNCHANGED over
    /\ UNCHANGED <<timeouts, pumpVars, age, halfClosed, quiet, still>>

\* The histories count no further than the longer limit.
Longest == IF timeouts.idle > timeouts.half THEN timeouts.idle ELSE timeouts.half
Later(t) == IF t < Longest THEN t + 1 ELSE t

\* The runtime polls a task that has been woken before the next tick.
Tick ==
    /\ over = "no" /\ wake > 0 /\ ~notified
    /\ age' = age + 1 /\ wake' = wake - 1
    /\ quiet' = Later(quiet) /\ still' = Later(still)
    /\ UNCHANGED <<timeouts, pumpVars, halfClosed, notified, over>>

Next == (\E d \in Dirs : Pump(d)) \/ Watchdog \/ Tick

\* Time passes and the watchdog is polled when its timer has fired. Nothing is
\* asked of the two peers, which may also go on sending for ever.
Spec == Init /\ [][Next]_vars /\ WF_vars(Tick) /\ WF_vars(Watchdog)

---------------------------------------------------------------------------
(* Properties.                                                              *)

\* Types of the relay's state; the watchdog's distances are never negative
\* (relay.rs `Activity`, `pump`).
TypeOK ==
    /\ timeouts \in TimeoutPairs
    /\ pc \in [Dirs -> {"read", "write", "flush", "shutdown", "done"}]
    /\ taken \in [Dirs -> 0..MaxItems]
    /\ \A d \in Dirs : {Len(hand[d]), Len(held[d]), Len(out[d])} \subseteq 0..taken[d]
    /\ {age, wake, quiet, still} \subseteq Nat
    /\ {halfClosed, notified} \subseteq BOOLEAN
    /\ over \in {"no", "done", "error", "idle"}

\* A relay never outlives its deadline, also when the deadline has just moved
\* closer because a direction ended (relay.rs:43-47, 83-96).
EndsInTime == over = "no" => age <= Limit

\* ... and is never ended before nothing has been read for the whole limit, which
\* starts anew when a direction ends (relay.rs:43-56, 84).
NeverTooSoon == over = "idle" => quiet >= Limit

\* Data that has been read is lost to the timeout only when the writer it goes
\* to is not taking it: it never waits inside while the pump waits for more
\* (relay.rs:111-114).
LostOnlyWhenStuck ==
    over = "idle" =>
        \A d \in Dirs : Len(out[d]) < taken[d] => pc[d] \in {"write", "flush"}

\* Each direction is a reliable byte pipe up to where the relay ends, and tells
\* its peer end of file only after the last byte (relay.rs:99-116).
Up   == INSTANCE Pipe WITH sent <- Items(0, taken["up"]), recv <- out["up"],
                           eof <- pc["up"] = "done"
Down == INSTANCE Pipe WITH sent <- Items(0, taken["down"]), recv <- out["down"],
                           eof <- pc["down"] = "done"
PipesSpec == Up!Spec /\ Down!Spec

\* A relay ends once no more data are read, whatever else the peers and writers do
\* or do not do; as long as data keep coming it need not (relay.rs:83-96, 111).
DataStops == <>[][\A d \in Dirs : ~ReadData(d) /\ ~ReadOn(d)]_vars
EndsWhenDataStops == DataStops => <>(over # "no")

\* A test says that flowing data is not idleness ("有数据流动就不算空闲",
\* relay.rs:197). Here: the timeout strikes only when no data has moved, read or
\* written, for the whole limit.
FlowIsNotIdle == over = "idle" => still >= Limit
=============================================================================
