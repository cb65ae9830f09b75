-------------------------------- MODULE Dial --------------------------------
(***************************************************************************)
(* net.rs `dial` and DnsCache: concurrent dials of one server by name share *)
(* one cache entry. A dial resolves, connects, and on any failure drops the *)
(* entry and tries again. A lookup reads the name server at one moment and  *)
(* the cache gets its answer at a later one, and in between other dials may *)
(* drop the entry or the server may move.                                   *)
(*                                                                         *)
(* The addresses of one answer count as one; what is tried in which order  *)
(* among them is HappyEyeballs. A server given as an IP address has no     *)
(* entry.                                                                   *)
(***************************************************************************)
EXTENDS Naturals, FiniteSets

CONSTANTS
    Dials,       \* tasks that may be dialling
    Retries,     \* dial_retries
    MaxMoves     \* bound: how often the server changes its address

ASSUME DialsAssumption == IsFiniteSet(Dials)
ASSUME BoundsAssumption == Retries \in Nat /\ MaxMoves \in Nat

Addresses == 0..MaxMoves
NoEntry == [addr |-> 0, fresh |-> FALSE]
Entry(a) == [addr |-> a, fresh |-> TRUE]

VARIABLES
    where,     \* the address the server has
    entry,     \* the cache's entry for it; fresh until DNS_TTL has passed
    stage,     \* each dial: "idle", "resolve", "lookup", "insert", "connect"
               \* or "backoff"
    attempt,   \* of the loop in dial, from 0
    addr,      \* the answer a dial holds or the address it connects to
    misled,    \* history: attempts of this call at an address already left
    leftovers  \* history: entries and answers on their way into the cache when
               \* the server moved

dialVars == <<stage, attempt, addr>>
netVars == <<where, entry, dialVars, misled, leftovers>>

DialInit ==
    /\ where = 0
    /\ entry = NoEntry
    /\ stage = [d \in Dials |-> "idle"]
    /\ attempt = [d \in Dials |-> 0]
    /\ addr = [d \in Dials |-> 0]
    /\ misled = [d \in Dials |-> 0]
    /\ leftovers = 0

Goto(d, at) == stage' = [stage EXCEPT ![d] = at]

Return(d) ==
    /\ Goto(d, "idle")
    /\ attempt' = [attempt EXCEPT ![d] = 0]
    /\ addr' = [addr EXCEPT ![d] = 0]

Call(d) ==
    /\ stage[d] = "idle"
    /\ Goto(d, "resolve")
    /\ misled' = [misled EXCEPT ![d] = 0]
    /\ UNCHANGED <<where, entry, attempt, addr, leftovers>>

---------------------------------------------------------------------------
(* resolve                                                                  *)

Hit(d) ==
    /\ stage[d] = "resolve" /\ entry.fresh
    /\ addr' = [addr EXCEPT ![d] = entry.addr]
    /\ Goto(d, "connect")
    /\ UNCHANGED <<where, entry, attempt, misled, leftovers>>

\* Nothing there, or older than DNS_TTL: ask the name server. Others may too.
Miss(d) ==
    /\ stage[d] = "resolve" /\ ~entry.fresh
    /\ Goto(d, "lookup")
    /\ UNCHANGED <<where, entry, attempt, addr, misled, leftovers>>

\* The name server (external) answers with the address the server has now; the
\* answer waits for the task to be polled.
Answer(d) ==
    /\ stage[d] = "lookup"
    /\ addr' = [addr EXCEPT ![d] = where]
    /\ Goto(d, "insert")
    /\ UNCHANGED <<where, entry, attempt, misled, leftovers>>

Insert(d) ==
    /\ stage[d] = "insert"
    /\ entry' = Entry(addr[d])
    /\ Goto(d, "connect")
    /\ UNCHANGED <<where, attempt, addr, misled, leftovers>>

---------------------------------------------------------------------------
(* One attempt's end                                                        *)

\* The connection, or an error of one of its socket options, is returned.
Connected(d) ==
    /\ stage[d] = "connect" /\ addr[d] = where
    /\ Return(d)
    /\ UNCHANGED <<where, entry, misled, leftovers>>

\* DNS.invalidate, in each of the two failing branches.
InvalidateOnError_Never == UNCHANGED entry   \* mutant: the entry is kept
InvalidateOnError == entry' = NoEntry
InvalidateOnTimeout_Never == UNCHANGED entry   \* mutant: the entry is kept
InvalidateOnTimeout == entry' = NoEntry

AnotherTry(d) == attempt[d] < Retries

Misled(d) == stage[d] = "connect" /\ addr[d] # where

\* The last error is returned when no retry is left.
AfterAttempt(d) ==
    /\ \/ /\ AnotherTry(d)
          /\ Goto(d, "backoff")
          /\ addr' = [addr EXCEPT ![d] = 0]
          /\ UNCHANGED attempt
       \/ ~AnotherTry(d) /\ Return(d)
    /\ misled' = IF Misled(d) THEN [misled EXCEPT ![d] = @ + 1] ELSE misled
    /\ UNCHANGED <<where, leftovers>>

\* The lookup failed or brought no address, or no address could be connected to.
AttemptFails(d) ==
    /\ stage[d] \in {"lookup", "connect"}
    /\ InvalidateOnError
    /\ AfterAttempt(d)

\* connect_ms covers what an attempt waits for. An answer that is there is taken
\* before the clock is looked at.
Timed_Connect == {"connect"}   \* mutant: the lookup is not covered
Timed == {"lookup", "connect"}

AttemptTimesOut(d) ==
    /\ stage[d] \in Timed
    /\ InvalidateOnTimeout
    /\ AfterAttempt(d)

Backoff(d) ==
    /\ stage[d] = "backoff"
    /\ attempt' = [attempt EXCEPT ![d] = @ + 1]
    /\ Goto(d, "resolve")
    /\ UNCHANGED <<where, entry, addr, misled, leftovers>>

---------------------------------------------------------------------------
(* The world                                                                *)

\* The entry's time is up; it stays until it is overwritten or dropped.
Expire ==
    /\ entry.fresh
    /\ entry' = [entry EXCEPT !.fresh = FALSE]
    /\ UNCHANGED <<where, dialVars, misled, leftovers>>

\* The server moves: the name server knows at once, whatever has its old address
\* does not.
Move ==
    /\ where < MaxMoves
    /\ where' = where + 1
    /\ leftovers' = leftovers + 1 + Cardinality({d \in Dials : stage[d] = "insert"})
    /\ UNCHANGED <<entry, dialVars, misled>>

\* What the runtime and the clock bring about in a dial.
Running(d) == Hit(d) \/ Miss(d) \/ Insert(d) \/ AttemptTimesOut(d) \/ Backoff(d)

DialNext ==
    \/ \E d \in Dials :
          Call(d) \/ Running(d) \/ Answer(d) \/ Connected(d) \/ AttemptFails(d)
    \/ Expire
    \/ Move

\* Tasks are polled and timers fire. A name server need not answer, a server need
\* not accept or refuse, an entry need not expire, nobody needs to dial.
DialSpec == DialInit /\ [][DialNext]_netVars /\ \A d \in Dials : WF_netVars(Running(d))

---------------------------------------------------------------------------
(* Properties.                                                              *)

\* Types; a call makes no more than the attempts it is allowed (net.rs:43, 65).
DialTypeOK ==
    /\ where \in Addresses
    /\ entry \in [addr : Addresses, fresh : BOOLEAN]
    /\ stage \in [Dials -> {"idle", "resolve", "lookup", "insert", "connect", "backoff"}]
    /\ attempt \in [Dials -> 0..Retries]
    /\ addr \in [Dials -> Addresses]
    /\ misled \in [Dials -> Nat]
    /\ leftovers \in Nat

\* However dials, drops and late answers interleave, a call runs into an address
\* the server has left at most once for the entry of the time and once for every
\* answer that was on its way into the cache (net.rs:55-64, 101-106).
MisledAtMost == \A d \in Dials : misled[d] <= leftovers

\* When the server stays where it is, dials end up at its address, although a
\* stale entry may never expire (net.rs:55-64).
FindsServer == <>[](\A d \in Dials : stage[d] = "connect" => addr[d] = where)

\* Every call returns: neither a silent name server nor a silent server holds
\* it (net.rs:39, 48).
Returns == \A d \in Dials : stage[d] # "idle" ~> stage[d] = "idle"
=============================================================================
