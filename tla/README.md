# A verification project for rray

rray is a SOCKS5 → VLESS/XTLS-Vision/Reality client. This directory models it in
TLA+: TLC checks the models on small instances, TLAPS proves theorems about them
for every value of their constants. Source paths below are relative to `src/src/`.

## 1. Inventory

One process; `service` starts a tokio runtime, `driver` accepts clients in it, and
each connection is one task that goes through
SOCKS5 handshake → dial → Reality/TLS handshake → VLESS request → relay.

| component (source) | state | operations | modelled in |
|---|---|---|---|
| Service (`service.rs`) | `STATE: Mutex<Option<Running>>`, a runtime, its listener | `start`, `stop`, from any thread | `Service` |
| Driver (`driver.rs`) | semaphore of connection permits, task set | accept loop, per-connection phases | `Driver` |
| SOCKS5 inbound (`inbound/`) | none beyond the socket | greeting, methods, request, reply | `Session`; phases of `Driver` |
| Dialling (`net.rs`) | process-wide DNS cache; attempts of one dial | `dial`, `resolve_with`, `invalidate`; `interleave`, `connect_any` | `Dial`; `HappyEyeballs` |
| Reality (`outbound/reality.rs`) | `SCRIPT`, a thread-local RNG script; what pass A prepared | two-pass ClientHello, self-check, certificate check | `Reality` |
| Opening (`outbound/mod.rs`) | – | flow check, dial, handshake, gate start, first payload, `write_first` | `Session`; time limits in `Driver`, gate start in `VisionDownlink` |
| VLESS headers (`outbound/vless.rs`) | response header seen so far | request header, lazy strip of the response header | `Frames`, `Session`; the header's place in the stream in `VisionDownlink` |
| RecordGate (`outbound/record_gate.rs`) | `buf`, `remaining`, `gating`, `open` | `poll_read`, `start/stop_gating`, `open`, `take_buffered` | `VisionDownlink` |
| VisionStream, reading (`outbound/vision.rs`) | `read_raw`, `read_out`, `Unpadder`, direct flag | `poll_read` | `VisionDownlink` |
| VisionStream, writing (`outbound/vision.rs`) | `Padder`, `write_pending`, `uplink_raw` | `write_first`, `poll_write`, `poll_flush`, `poll_shutdown` | `VisionUplink` |
| Sniffing and frames (`outbound/vision.rs`) | `TrafficState`, shared by both directions | `filter`, `pad_into`, `reshape`, `padding_len`, `unpad` | `VisionPadding`; byte by byte in `Frames` |
| Relay (`relay.rs`) | `Activity`: last read, half-closed, notification | two pumps, watchdog | `Relay` |
| Config (`config.rs`) | – | UUID, hex, base64; what `load` accepts | `Config` (credentials) |
| Errors, logging, entry points | – | classification, set-up | not modelled: no state |

**Interactions.** The two directions of a connection live in one task and meet in
three places: `TrafficState` (the downlink sniffs into what the uplink decides by),
the task's waker (either direction's wake-up polls both), and `Activity` (either
direction keeps the relay alive, the end of one shortens the wait for the other).
Vision reads through rustls, which reads through RecordGate, which reads from the
socket; after the switch to Direct Vision reads past rustls and takes over what the
gate has buffered. Connections share the DNS cache and the permits, service calls
share `STATE` and the kernel's ports.

**What is hard.** The moment of the switch to Direct in either direction, at any cut of
the stream into socket reads and any partial acceptance of writes; Pending and
self-waking; the watchdog whose deadline moves both ways while it sleeps; `stop` running
outside the mutex; stale inserts into the DNS cache; a replay that depends on the order
in which another library draws; phases without a time limit. `PROJECT.json` lists each
at its line under "hazards".

**What makes each part correct.**

* Downlink: rustls is fed TLS records and nothing else; the caller gets the proxied
  bytes in order, none lost or doubled; no read sleeps while a record is there.
* Uplink: the server can make sense of every byte in the mode it is in; nothing
  waits inside for the next write; a switch needs an inner TLS 1.3.
* Relay: it ends exactly when its timeouts say, so it ends once no more data come; each
  direction is a byte pipe.
* Service: no runtime is left that nobody can stop; after a stop one can start.
* Dialling: an address the server has left misleads a dial only a bounded number of
  times; one address that accepts is enough, and an error means that all failed.
* Reality: what is sent is what was sealed, and no connection sees another's script.
* Driver: permits are conserved, the queue moves, opening never deadlocks.
* A connection as a whole: the server is asked for the user, flow and target that
  configuration and client named, however these are written and cut; both directions
  carry their bytes; whoever is at fault is refused, and nobody else.

## 2. Modules

`Pipe` is the abstract specification: what a direction of a proxied connection
promises (bytes in order, none lost, none twice, end of file last). `Relay`,
`VisionDownlink`, `VisionUplink` and `Session` are each checked to implement it under
a refinement mapping (`PipesSpec`, `PipeSpec`), and each is proved to.

Two views of a connection share the Vision code. `VisionDownlink` and `VisionUplink`
have the layers (gate, rustls, partial writes, Pending) and reduce data to cells;
`Session` has the bytes from the configuration to the answer and reduces the layers to
a byte stream each way. `VisionPadding`'s decisions are used by both.

### VisionDownlink: socket → gate → rustls → Vision → caller

The server's answer is one rigid sequence of *wire cells*, and every buffer between
socket and caller is an interval of it: the state is the positions that delimit the
intervals (`arrived ≥ sock ≥ low ≥ fed ≥ decoded ≥ taken`), the gate's counters and
the unpadder's flags. A cell stands for a byte or a run of bytes nothing tells
apart; record ends, frame ends and payload are sets of positions. The module's
actions:

| action | code |
|---|---|
| `HandshakeRead`, `StartGating` | handshake through the transparent gate, `start_gating` |
| `EnterTls`, `Deliver`, `DirectRead`, `PaddedRead`, `PlainRead` | the branches of `VisionStream::poll_read` |
| `ReadHeader`, `HandOver`, `GateClosed`, `Transparent` | the branches of `RecordGate::poll_read` |
| `Arrive`, `Wake`, `Repoll` | network, socket wake-up, the other direction's wake-up |

External and assumed: the server sends a well-formed answer (`StreamOK`) with its data
where the protocol puts it (`DataOK`: in frames behind the response header, after the
terminal frame as it is); rustls
reads from the gate only while it holds no plaintext, and deciphers every whole
record it is handed; end of file without close_notify counts as a close. What the
gate finds where no header starts is nondeterministic (`Garbage`). The error returns
for malformed frames and headers are in `Session`.

`TornStart` says whether rustls may hold part of a record when the gate starts. The
theorems and the passing run have it FALSE; the run `downlink_torn` shows what
happens otherwise.

### VisionPadding, VisionUplink: pump → Vision → rustls → socket → server

`VisionPadding` has the pure part: `Filter` (`TrafficState::filter`) and the frames
`pad_into` makes of a write, over packets abstracted to what those functions look
at. `VisionUplink` is the poll functions around it. A frame is two cells, head and
tail, so that a partial write can cut it in half; TLS and the socket accept any part
of what they are given, and each call may end Pending. The server (external,
modelled on xray's reader, whose protocol the code implements) reads cell by cell and
goes to stage "error" at anything it cannot make sense of in its mode. `SniffDownlink`
lets the other direction change `traffic` between any two polls. A caller may go
on without a flush (`AlwaysFlush = FALSE`), which `pump` never does: `poll_write` and
`poll_shutdown` are expected to cope. Padding lengths and the byte search of `reshape`
are in `Frames`; I/O errors end the connection (`Fail` in `Relay`).

### Config, Frames, Scenario, Session: configuration file → client → request → both directions

`Config` and `Frames` are operators on sequences of numbers; `Session` is the one
task of a connection around them, with a client that sends without waiting for replies
and a server that may answer as soon as it has the request. `Scenario` says what a connection
may be about (`RunOK`), with the formats described without the code's operators: which
texts write which bytes (`WritesHex`, `Writes64`), which bytes ask for which target
(`Asks`). `Session`'s constant `Runs` is any set of such connections.

| definition | code |
|---|---|
| `Config!ParseUuid`, `ParseHex`, `Base64Decode`, `LoadConfig` | `config.rs` `parse_uuid`, `parse_hex`, `base64_decode`, `TryFrom<RawConfig>` |
| `Frames!PacketOf`, `HelloOf`, `CipherOf`, `IsCompleteRecord` | the byte tests in `TrafficState::filter` and `pad_into` |
| `Frames!Reshape`, `SplitAt`, `PaddingLen`, `XtlsPadding`, `PadInto` | `reshape`, `padding_len`, `xtls_padding`, `Padder::pad_into` |
| `Frames!Unpad`, `Feed`, `RequestHeader` | `Unpadder::unpad`, `ResponseHeader::feed`, `encode_request_header` |
| `Load` | what `config::parse` accepts |
| `Greeting`, `Methods`, `Request`, `DomainLength`, `AddressBytes`, `Port`, `HangsUp` | each `read_exact` of `socks5::handshake` with its checks |
| `Reply`, `Connect`, `FirstPayload`, `NoPayload` | `socks5::reply`, the checks of `open` and the handshake, `read_first_payload` with `write_first` |
| `PumpUp`, `PumpUpEnds`, `PaddedRead`, `PlainRead`, `AnswerEnds` | the pumps over `poll_write` and `poll_read` |
| `ClientSends`, `ServerAnswers`, `ServerReads`, `ServerSeesEnd` | client, network and server (external) |

A field of two bytes is one cell, and in the run lengths are scaled down together: a UUID has one
byte, a frame eight of content, an address one to three. Field widths keep their
modulus (`FieldWidth`, `% 256`, `AccWidth`), so that a cast that cuts off something
would show. `Config!Base64Decode` keeps the accumulator's bits as the code does; TOML
itself is a library's. `NetworkFails` is a dial, handshake or connection lost at any
time before the relay; what happens in the relay then is `Fail` in `Relay`. The server
decodes requests and frames as the formats the sources name describe them, independently of the
operators that encode them. It keeps to what its run prescribes: an answer, where it
may be cut, and the data in it.

### Relay

Two pumps and the watchdog, in one task. Time is in ticks; instants are distances
from now (`age` since the last read, `wake` until the watchdog's sleep ends). `Tick`
is disabled while the watchdog's timer has fired or it has been notified: the runtime
polls a woken task before the next tick. `quiet` and `still` are history variables, which
count no further than the longer limit.
`held` is what a writer has accepted but may keep until it is flushed, as Vision does.
The first `MaxItems` items of a direction are followed to its peer; what is read behind
them (`ReadOn`) moves the deadline like any other read (`relay.rs:111`) and may keep coming
for ever, so a relay need not end. `EndsWhenDataStops` says that it does once reads stop,
whatever the writers and the other peer do.

### Service

`start` and `stop` called by several threads. `start` holds the mutex from its check
until the listener is bound, `stop` only while it takes the instance, so `Send` and
`Wait` interleave with everything; `shutdown_timeout` may give up on a runtime
(`late`). Foreign processes taking a port and panics are not modelled. `blocker` is a
history variable.

### Dial

Concurrent dials of one name and the cache entry they share. `Answer` (the name server
replies) and `Insert` (the task is polled and fills the cache) are separate steps, so
that invalidations by other dials and a move of the server fall between. `misled` and
`leftovers` are history variables: attempts of the current call at an address already
left, and how many entries and answers in hand there were when the server moved. The
addresses of one answer count as one. The name server is assumed to know a move at
once; DNS_TTL may pass at any moment or never. The order of attempts within one
answer is the next module's.

### HappyEyeballs

`interleave` as an operator on the sequence of address families (the k-th address it
emits, from two queues that keep the answer's order), `connect_any` as a
loop (`Turn`, `TurnLast`) and its select (`Join`, `DelayOver`) in ticks. `ended` is the
JoinSet's queue of attempts that have ended but are not joined. An address in `opens`
accepts in the end; the others refuse at any time or never answer.

### Driver

The accept loop with its permits, and each connection's phases. A phase is reduced to
how it may end and whether time ends it. Dial, handshake, first payload and an idle relay
have limits (the four disjuncts of `TimesOut`, each mapped to its own); the SOCKS5
exchange, the reply and `write_first` have none, nor has a relay whose data keep coming.
A relay is in phase "relay" as long as data are still to be read, which may be for ever, and
in "idle" after the last read (`LastRead`). `needs` says
how many messages of the client the target waits for before it sends anything, the
VLESS response header included; 0 is a protocol in which the server speaks first.

### Reality

`connect` of several connections on several threads. Random bytes are named by where
they come from (a position in a connection's seed stream, the system, the ciphertext),
so two ClientHellos are equal exactly if they were built from the same draws; the
ciphertext `Sealed(c)` stands for the one sealed with `prepared[c].key` over
`prepared[c].aad`. What rustls draws in which order, and how much of it
`TlsConnector::connect` does before it returns, is external: `Libraries`. A thread runs a
connection without interruption from `Begin` to `Send`, where the first await is;
`Finish` is on any thread. Seeds are assumed distinct. `connect`'s error returns before
pass A (server name, clock, key generation) are left out. The server answers with a
group it was sent a share of (`Offered`).

## 3. Runs

| run | shows |
|---|---|
| `downlink` | `TypeOK`, `RawNeverFedToTls`, `SwitchAtBoundary`, `PipeSpec`, `AllDelivered` for Direct, End and cut-off answers |
| `downlink_torn` | (violation) the claim at `record_gate.rs:54-55`: leftovers in rustls when the gate starts are harmless |
| `uplink` | with callers that flush, as pump does, or do not: `TypeOK`, `ServerInSync`, `DirectMeansTls13`, `PipeSpec`, `EverythingArrives` |
| `relay` | `EndsInTime`, `NeverTooSoon`, `LostOnlyWhenStuck`, `PipesSpec`, `EndsWhenDataStops` |
| `relay_flow` | (violation) the test's claim at `relay.rs:197`: flowing data is not idleness |
| `service` | `RunningServes`, `NoOrphan`, `RestartWorks`, `CallsReturn` |
| `service_race` | (violation) the claim at `service.rs:68-70`: a start cannot collide with the listener being closed |
| `dial` | `MisledAtMost`, `FindsServer`, `Returns` |
| `happy_eyeballs` | `Alternates`, `ErrorMeansAllFailed`, `Staggered`, `NeverIdle`, `Connects` |
| `driver` | `SlotsKept`, `QueueServed`, `OpensOrEnds` |
| `reality` | `TypeOK`, `SentIsSealed`, `OwnDraws`, `RefusedForCause` |
| `session` | `TypeOK` (with the bound on frames), `AsAsked`, `NothingHeldBack`, `RefusedForCause`, `VerdictTrue`, `PipesSpec` |

The `TypeOK` of `Relay`, `HappyEyeballs`, `Driver` and `Service`, and `DialTypeOK`, say no
more than ranges and bookkeeping; they are proved (section 4) and no run spends itself on them.

Each property of a passing run has a mutant in `PROJECT.json`: a plausible bug in a
modelled definition under which TLC finds the property violated.

**Bounds.**

* Downlink: four answers of 12–19 cells (`MCVisionDownlink`). Between them they have
  a ticket record behind the handshake, a response header over two records and in a
  record with frames, a frame over two records, data behind a terminal frame in its
  record, raw data, padding, and an answer cut inside a frame. Arrival and reads are
  cut at every cell; garbage lengths 0–2 reach past and into the raw part.
* Uplink: six client packets and five downlink packets (`MCVisionUplink`), one for
  each branch of `filter` and `pad_into`; three packets sniffed, so that the early
  END and running out both happen; five pieces, TLS buffer of 2 cells and socket of 3,
  so that every frame can be cut between buffers.
* Relay: five pairs of limits, equal, either one larger and each zero; two items
  per direction are followed, read one or two at a time, and any number may come behind them.
* Service: three callers and two runtimes, the fewest with which a start meets
  another call's unfinished stop while a third call runs; a fixed port and port 0.
* Dial: three dials, one retry, one move: one dial fails and retries, one has a late
  answer, one fills the entry. The bound in `MisledAtMost` is reached for two attempts.
* HappyEyeballs: every answer of up to four addresses of either family, a delay of two
  ticks, so that refusals come before, with and after the timer.
* Reality: three connections on two threads, so that a thread is used again while another
  pass runs; six libraries: today's order of draws, another order with both groups
  started, and four that `connect` must refuse: a session ID that is not drawn, a group
  started twice, a build put off altogether or in part.
* Driver: three clients, one of which may fall silent, limits 0 (none), 1 and 2.
* Session: 54 connections (`MCSession`). Targets: both kinds of IP address, a domain and an
  empty one, the client's writes ending at any byte of the handshake. Credentials: five
  keys with every bit pattern at a byte's edge, three short IDs, both base64 alphabets,
  padding, hyphens, upper case. Talks: inner TLS 1.3, TLS 1.3 with a suite that is not
  allowed, TLS 1.2 with a later record that looks like the extension, plain text; a write
  longer than a frame with a record header exactly where the frame is full; answers cut
  at the boundaries that matter and, in two talks, at every byte. Hellos in two parts: a
  ServerHello over two frames, read together or apart, cut before the suite,
  behind it and inside the extension: of TLS 1.3, of TLS 1.2, and with an allowed suite but no extension,
  whose bytes come in the record behind it, or from the client meanwhile. Sixteen faults of
  configuration, client, offered methods and server, and an answer cut off inside a frame. The
  server reads byte by byte or all there is, random draws are at either end of their
  range, and three packets are sniffed.

**Fairness.** Downlink: the network keeps bringing what the server has sent and the
runtime polls a woken task (WF of `Arrive`, `Step`); a spurious `Repoll` is never
required. Uplink: the runtime polls a writer that can go on and the server reads (WF of
`Poll`, `ServerRead`); nothing makes the client write or close. Relay: time passes and
a fired timer is polled (WF of `Tick`, `Watchdog`); the peers owe nothing and may send for ever, and
`EndsWhenDataStops` has as its premise that they do not. Service: SF
of each caller inside a call, since the mutex is handed to every waiter; runtimes may
never come down. Dial: tasks are polled and timers fire (WF per dial); name server and
server may be silent for ever and entries need not expire. HappyEyeballs: WF of the
task, of time, and of the end of an attempt at an address that accepts. Driver: WF of
the loop, SF of `Accept` (accept does not fail for ever), WF of the timers of dial,
handshake, first payload and idle relay, and WF of the steps of clients that are not in
`Quiet`; nothing makes the data of a relay end, and the premise of `QueueServed` is that no
connection stays for ever in such a relay or in another phase without a limit. Reality and Session have safety properties
only; that a connection moves on is Driver's, the Vision modules' and Relay's.

## 4. Proofs

Proved by TLAPS, for every value of the constants that satisfies the assumptions
named in the modules:

| theorem | property | argument |
|---|---|---|
| `VisionDownlinkProofs!TypeCorrect` | `TypeOK` | invariant `IInv`, below |
| `VisionDownlinkProofs!NoRawBytesToTls` | `RawNeverFedToTls` | for streams of any shape and length, `TornStart = FALSE` |
| `VisionDownlinkProofs!DirectStartsAtBoundary` | `SwitchAtBoundary` | same |
| `VisionDownlinkProofs!DownlinkIsPipe` | `PipeSpec` | `DownlinkInvariance`: conservation, `Conserved`; `TornStart = FALSE` |
| `VisionUplinkProofs!DirectOnlyForTls13` | `DirectMeansTls13` | invariant `PInv` |
| `VisionUplinkProofs!ServerNeverLost` | `ServerInSync` | `UplinkInvariance`: `Synced`, the server's run over all that is queued |
| `VisionUplinkProofs!UplinkIsPipe` | `PipeSpec` | same |
| `VisionUplinkProofs!TypeCorrect` | `TypeOK` | same |
| `RelayProofs!RelayEndsInTime` | `EndsInTime` | invariant of the clocks |
| `RelayProofs!RelayNeverTooSoon` | `NeverTooSoon` | same |
| `RelayProofs!LossNeedsStuckWriter` | `LostOnlyWhenStuck` | conservation, `Carried` |
| `RelayProofs!RelayImplementsPipes` | `PipesSpec` | step refinement from `Carried` |
| `RelayProofs!RelayTypes` | `TypeOK` | both invariants |
| `ServiceProofs!InstanceServes` | `RunningServes` | `Ownership`, `Phases`, `Listeners` |
| `ServiceProofs!NobodyOrphaned` | `NoOrphan` | `Answered` |
| `ServiceProofs!StopMakesRoom` | `RestartWorks` | `Mutex`, `Answered` |
| `ServiceProofs!ServiceTypes` | `TypeOK` | `Types`, `Mutex` |
| `NetProofs!DialMisledAtMost` | `MisledAtMost` | accounting invariant |
| `NetProofs!DialTypes` | `DialTypeOK` | same |
| `NetProofs!AttemptsStaggered` | `Staggered` | invariant `Paid` |
| `NetProofs!OrderAlternates` | `Alternates` | lemmas on `interleave`, by ranks |
| `NetProofs!ErrorOnlyWhenAllFailed` | `ErrorMeansAllFailed` | invariant `Waits` |
| `NetProofs!NeverWaitsInVain` | `NeverIdle` | same |
| `NetProofs!HappyEyeballsTypes` | `TypeOK` | invariant `Outcomes` |
| `DriverProofs!SlotsConserved` | `SlotsKept` | with the queue's distinctness |
| `DriverProofs!NeverMoreThanLimit` | – | corollary: at most `max_connections` at a time |
| `DriverProofs!DriverTypes` | `TypeOK` | with `Payloads` |
| `RealityProofs!RealityTypes` | `TypeOK` | invariant `Running` |
| `RealityProofs!RealityOwnDraws` | `OwnDraws` | same |
| `RealityProofs!SentHelloIsSealed` | `SentIsSealed` | `Replays`: pass B follows pass A's trace |
| `RealityProofs!FailsForCause` | `RefusedForCause` | same |
| `SessionProofs!AsAskedTheorem` | `AsAsked` | invariant `SessionInv`, below |
| `SessionProofs!PipesTheorem` | `PipesSpec` | same, step refinement in both directions |
| `SessionProofs!NothingHeldBackTheorem` | `NothingHeldBack` | same, with `DrainedInv` |
| `SessionProofs!RefusedForCauseTheorem` | `RefusedForCause` | same, `CauseInv` and `HandshakeInv` |
| `SessionProofs!TypeOKTheorem` | `TypeOK` | same, `TypeInv` |
| `SessionProofs!WriteAndRead` | – | what `pad_into` writes, `unpad` reads back |
| `SessionProofs!UnpadInParts`, `UnderstoodMore` | – | reading in parts is reading at once |
| `SessionProofs!AnswerOfFrames`, `AnswerInParts` | – | what an answer's data are, from the two above |
| `SessionProofs!RequestReadBack` | – | the request header is decoded as it was meant |
| `SessionProofs!Base64Read`, `HexRead`, `ConfigUsable` | – | the configuration's texts |

**Downlink.** That no raw byte reaches rustls is not inductive. `IInv` adds: `decoded`
is the last record end up to `fed`; while the gate is on, what rustls has been handed
plus `remaining` ends at a record end (`Aligned`); at most one record is held that
Vision has not read (`OneHeld`), so one `READ_CHUNK` takes all of it; and while frames
are expected, the terminal frame is still ahead of what was read (`TermAhead`). So a
header is read only at a record end before the Direct frame's, and the record is
handed over to its end and not beyond. The hypothesis on `READ_CHUNK`
(`ReadChunkAssumption`) is what `vision.rs` says of the constant.

That the downlink implements `Pipe` is conservation again (`Conserved`): what the caller has,
followed by `read_out`, is the payload up to `Mark`, and `Mark` is the end of the last frame
removed, after END what Vision has read, after DIRECT what has left the gate. Whatever moves
`Mark` has to move exactly the payload in between, which needs: every whole frame
that was read has been removed (`FramesTaken`), padding is over exactly when the terminal
frame has been read (`Ahead`), and after the switch the gate keeps nothing back
(`Emptied`). At the switch itself the mark jumps from a frame's end over the rest of its
record to `sock`: the leftover is neither skipped nor read again, because by `SwitchAtBoundary`
what the gate holds begins where the TLS part ends. End of file comes when all of the
stream has arrived and been given out (`Ended`). Sets of cells are listed by rank (`InOrder`),
so that the list of an interval is the list of its first part, then of its second
(`CellsSplit`), without induction.

**Uplink.** `padder.direct` is set from `traffic.xtls`, which the downlink may go on
sniffing into. `PInv` says why that is safe: a verdict leaves no packet to sniff
(`xtls` implies `tls12` and an exhausted budget), so `Filter` is the identity from
then on. It also needs the types of `traffic` and `padder` and that a packet being
written is one.

`ServerInSync` speaks of the cell the server reads next; the invariant speaks of all that are
under way. `Synced`: from the state the server is in, there is a run over the socket's
cells and what TLS and Vision still hold (`Queue`) that makes sense of every cell and ends
in the state the writer takes it to be in (`Expected`, from `padder` and the writer's place
in the code). A poll that writes appends cells and a run over them (`FrameRun`: the frames
of one packet take the server from "head" to "head", or past the terminal frame to "plain"
or to raw); a partial write or flush moves cells within the queue; a read of the server takes
the run's first step. The writer changes the mode only with a queue that says so before it:
raw bytes wait until TLS is drained (`Modes`). `UplinkIsPipe` adds that the run collects the
pieces in order: what the server has got is a prefix of what it will have got, and that
is all Vision was given. That the early END of a write (`StopAt`)
falls on one of its pieces uses that a set of naturals has a least member, from the library's
theorem that `<` on them is well-founded.

**Relay.** `EndsInTime` needs that the watchdog never sleeps beyond the deadline:
unless it has a notification, `wake + age ≤ Limit`. `half_close` breaks
this bound and sets the notification in the same step, which disables `Tick` until
the watchdog has looked again. `NeverTooSoon` follows from `quiet = age`, which
the bound on `quiet` leaves true because `age` does not pass the limit.

That each direction implements `Pipe` rests on conservation (`Carried`): what is out,
then what the writer holds, then what is in the pump's hand is exactly what was
read, in this order, and only a pump that writes or flushes has anything between. So
a write or flush moves a prefix of it out (a step of `Pipe`) or nothing (a stutter), and
when end of file is passed on nothing is between. The same invariant gives
`LostOnlyWhenStuck`: a pump that is back at reading has flushed.

**Service.** `RunningServes` is not inductive without saying who has which runtime. The
invariant says that a runtime is in the hands of at most one call, that it is not the
one in `STATE`, what phase it has by where its call is, that a port has one listener, and
that whatever has a listener or clients is answered for (`Answered`). The mutex matters
in one place: while a call binds, `STATE` is empty, so that it does not overwrite an
instance.

**Dial.** `MisledAtMost` has to count what may still mislead: for every dial, the
attempts it was misled in, plus one if the entry or its current attempt is stale (a
failed attempt drops the entry it may have come from, so they count once together),
plus the late answers, stay within `leftovers`.

**HappyEyeballs.** `Paid`: before a turn the next attempt is paid for in full by
failures and elapsed time, in the select up to what is left on the timer. It needs
that no attempt is joined twice.

`ErrorMeansAllFailed` and `NeverIdle` rest on `Waits`: in the select there is an attempt that
has not failed, since one was just started, or the check for none in flight just passed. That
the attempt just started is not among those failed needs that the order names no address
twice, and that all have been tried when the order is used up needs that it leaves none
out. Both are part of `InterleavedFair`, for every answer: each queue lists its family by
rank (`Lists`), and the k-th address taken is the `Nth` of one queue, a map that
grows along each queue (`NthGrows`) and reaches all of it (`NthOnto`).

**Driver.** Conservation needs that the kernel's queue holds each queued connection
once, so that `Accept` never hands out one that already has a permit.

**Reality.** `OwnDraws` needs `Running`: a thread runs a connection only between `Begin`
and `Send`, a connection is run by one thread, and a slot holds a script only during a
pass of the connection its thread runs. So a draw finds its own connection's script or,
after the passes, none.

`SentIsSealed` compares two passes, the first of which is over when the second runs, so
the invariant has to remember it: there is a trace (`Trace`), one entry per step, of where
in the seed's stream pass A was, how many draws it had made, its message and which draw
last went into the session ID. Pass A extends the trace step by step (`FollowsA`), pass B
goes along it (`FollowsB`), the same but for the session ID. What makes it work: names of
draws are distinct, so the draw `locate_session_id_call` finds is the last one of the
session ID and never that of a random; and the two counts of the self-check agree only
if nothing that is put off is a draw. A second start of the hybrid group finds no ML-KEM
share and refuses, so a share in a sent message is one whose secret is at hand. `RefusedForCause` follows: libraries that are
suitable draw a session ID, never find the ML-KEM share gone, and pass the self-check.

**Session.** The state is bytes, and `Config` and `Frames` take bytes apart by
recursion, so there are two parts to it: what the codecs compute, and what a connection
keeps.

*The codecs.* No rule of induction with an operator as a parameter can be instantiated
here, but sets can: a set of numbers without a least member is empty, which is the
library's `WFMin` for `<` on the naturals (`LeastNatural`). From it come induction for a
*set* of numbers (`Induction`), the function a recursion defines (`Recursion`, with
values in a fixed set, and `SizedRecursion`, over data that shrinks), and with them what
`FlattenSeq`, `Reshape`, `Base64Decode` and `Unpad` are for every input. `Unpad` is a
loop until nothing changes; each turn that changes something shortens the buffer or ends
the frames, so the loop ends within one turn more than there are bytes, and what it ends
in (`Final`) does not depend on how many turns more one takes. Two facts carry the rest:
`UnpadInParts` (a turn with more bytes behind is the same turn, so reading in parts is
reading at once) and `WriteAndRead` (one frame is taken whole, `UnpadFrame`; then frame
by frame through `PadInto`, whose `StopAt` is where END or DIRECT is written and the
reader stops). For base64 the accumulator overflows, as the code's does; the proof
follows only its low twelve bits (`Low12`), for any width that is a multiple of 4096.

*The connection.* `SessionInv` has seven parts. `TypeInv` and `ConfigInv` are
bookkeeping: what is loaded is what `load` makes of the texts, and only the client of a
sound run has been authenticated. `HandshakeInv` says, at each await of
`socks5::handshake`, what the bytes read so far have established (`Commanded`,
`Address`, `NamesIt`); it meets `Asks`, which speaks of the whole input, at the reply,
and `AsksUnique` says that an input asks for one target at most. `CauseInv` ties every
failure to a fault. `UplinkInv` speaks of what is under way: before the request is
decoded the server's buffer and the wire begin with the header; afterwards what the
server *would* unpad from its buffer and the wire (`Outstanding`), behind what it has,
is exactly what was taken from the client, ends between two frames, and is padded to the
end exactly if the writer is. A write appends by `WriteAndRead`; a read of any length
moves bytes from the wire to the buffer by `UnpadInParts`. `DownlinkInv` says that the
reader's header, buffer and unpadder are what a reader of all that was consumed would
have. `DrainedInv`, that the server has taken from its buffer all it can, is what makes
an empty wire mean that everything has arrived. The refinement follows: the uplink's
`recv` is `server.data`, a prefix of what it would be; the downlink's is a prefix of the
run's data by `RunOK`.

The assumptions are `SizesAssumption` (a UUID and a header have a length, a frame and
the buffer room for both), `WidthsAssumption` (the code's constants are numbers; the
flow, a fixed text, fits the addons' one length byte), and `RunsAssumption`: each run is
a connection that `RunOK` describes, sound or with the fault it names. What the answer's
data are, `RunOK` says by the reader's own operators, applied to all of the answer at
once (and to each part of it, for what may come early; `AnswerInParts` shows that this
follows for answers without fault). That these data are what the server meant is checked
on the run's answers, which `MCSession` writes down next to their data, and proved in
`AnswerOfFrames` for a response header with a write of Vision's behind it. The padding's
random numbers, the bytes' cuts and the interleaving are any.

**Only model-checked.** Liveness (the prover has no rule for fairness here), and:

* `VerdictTrue` of `Session`. Whether bytes are an inner TLS 1.3 handshake is for the run
  to say (`tls13`), and nothing shorter than the sniffing code itself says which bytes are.
  It is checked on every cut of the 54 connections. Its premise is that the client does not send
  the extension's bytes itself: `filter` searches the packets of both directions while a
  ServerHello is incomplete, and takes them for the server's (without the premise
  TLC finds the property violated). What follows from a verdict is
  proved in `VisionUplink` (`DirectMeansTls13`), where packets are what `filter` looks at.

## 5. Plan

1. *done* – the modules of every layer with their runs and theorems.
2. *done* – `Frames` and `Config` on bytes, and `Session`, which composes configuration,
   SOCKS5, opening and both Vision directions with one `TrafficState`.
3. *done* – proofs of Service's invariants, of the relay's refinement of `Pipe`, and of
   Reality's replay.
4. *done* – proofs that the uplink and the downlink implement `Pipe`, that the server is never
   lost, and of everything the Happy Eyeballs run checks short of liveness.
5. *done* – proofs of `Session`: the codecs for every input, and all that its run checks but
   `VerdictTrue`.
6. Left: a mapping of Session's bytes to the cells of `VisionUplink` and `VisionDownlink`, so
   that TLC can check on small instances that what is proved of the cells is true of the bytes.

**Not modelled**, and why:

* Cryptography (key derivation, sealing, TLS itself): libraries, and mathematics rather
  than state. Reality names keys and ciphertexts by what they are made from; byte
  layouts of the ClientHello are left out with it.
* The TOML parser, the wording of errors, and the configuration's other fields, which are
  copied (`RawTimeout`'s defaults included).
* Errors, logging, entry points (`error.rs`, `ext.rs`, `main.rs`, `lib.rs`): no state.
* `vless::read_response_header`, which only tests call.
* Panics in `start`, and foreign processes that take a port.
