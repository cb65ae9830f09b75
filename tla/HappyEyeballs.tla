---------------------------- MODULE HappyEyeballs ----------------------------
(***************************************************************************)
(* net.rs `interleave` and `connect_any`: the addresses of one answer are  *)
(* put in an order that alternates between the two families and tried in   *)
(* it. The next attempt starts when one has failed or after a delay; the   *)
(* first to connect wins and the others are dropped.                       *)
(*                                                                         *)
(* An answer is the sequence of its addresses' families, and an address is *)
(* its position in the answer. Time passes in ticks.                       *)
(***************************************************************************)
EXTENDS Integers, FiniteSets, Sequences, SequencesExt

CONSTANTS
    Answers,    \* what a lookup may bring
    Delay       \* HAPPY_EYEBALLS_DELAY in ticks

Families == {"v4", "v6"}

ASSUME AnswersAssumption == Answers \subseteq Seq(Families)
ASSUME DelayAssumption == Delay \in Nat \ {0}

---------------------------------------------------------------------------
(* interleave                                                               *)

\* partition keeps the answer's order: the r-th of T is the address with r of
\* them up to it.
InAnswerOrder(T) ==
    [r \in 1..Cardinality(T) |->
        CHOOSE a \in T : Cardinality({b \in T : b <= a}) = r]

\* One pop_front of each in turn while both have addresses left, then the rest
\* of the longer one.
Alternate_Zip(p, s) ==   \* mutant: until one of them is used up
    LET both == IF Len(p) < Len(s) THEN Len(p) ELSE Len(s)
    IN  [k \in 1..(2 * both) |-> IF k % 2 = 1 THEN p[(k + 1) \div 2] ELSE s[k \div 2]]
Alternate(p, s) ==
    LET both == IF Len(p) < Len(s) THEN Len(p) ELSE Len(s)
    IN  [k \in 1..(Len(p) + Len(s)) |->
            IF k > 2 * both THEN (IF Len(p) > both THEN p[k - both] ELSE s[k - both])
            ELSE IF k % 2 = 1 THEN p[(k + 1) \div 2]
            ELSE s[k \div 2]]

\* The family of the first address goes first.
Primary(answer) == {a \in DOMAIN answer : answer[a] = Head(answer)}

Interleaved(answer) ==
    IF answer = <<>> THEN <<>>
    ELSE Alternate(InAnswerOrder(Primary(answer)),
                   InAnswerOrder(DOMAIN answer \ Primary(answer)))

---------------------------------------------------------------------------
(* connect_any                                                              *)

VARIABLES
    answer,     \* the lookup's
    opens,      \* addresses that will accept; the others refuse or say nothing
    order,      \* addrs: the answer's addresses as they are tried
    next,       \* how many attempts have been spawned: pending begins after it
    ended,      \* attempts that have ended and wait to be joined, in that order
    failed,     \* attempts joined that have failed
    timer,      \* time until `sleep(delay)` ends
    pc,         \* "turn" of the loop, in the "select" or "over"
    won,        \* the connection returned: an address, or 0
    elapsed     \* history: time since the call, while addresses are left

envVars == <<answer, opens, order>>
vars == <<envVars, next, ended, failed, timer, pc, won, elapsed>>

Init ==
    /\ answer \in Answers
    /\ opens \in SUBSET DOMAIN answer
    /\ order = Interleaved(answer)
    /\ next = 0 /\ ended = <<>> /\ failed = {}
    /\ timer = 0 /\ elapsed = 0
    /\ pc = "turn"
    /\ won = 0

Started == {order[i] : i \in 1..next}
InFlight == Started \ (ToSet(ended) \cup failed)
Pending == next < Len(order)

\* A turn of the loop: start the next attempt, and wait, with a new timer if
\* another address follows. With nothing in flight the last error is returned.
Timer_Once == IF next = 0 THEN Delay ELSE timer   \* mutant: one sleep for all
Timer == Delay

Turn ==
    /\ pc = "turn" /\ Pending
    /\ next' = next + 1
    /\ timer' = Timer
    /\ pc' = "select"
    /\ UNCHANGED <<envVars, ended, failed, won, elapsed>>

\* attempts.is_empty()
NothingLeft_Failed == failed # {}   \* mutant: the first error ends it
NothingLeft == Started = failed

TurnLast ==
    /\ pc = "turn" /\ ~Pending
    /\ pc' = IF NothingLeft THEN "over" ELSE "select"
    /\ UNCHANGED <<envVars, next, ended, failed, timer, won, elapsed>>

AfterFailure_WaitOn == "select"   \* mutant: the next attempt waits for the delay
AfterFailure == "turn"

Unjoined == Tail(ended)

\* join_next: the attempt that ended first. Its connection is returned, and the
\* JoinSet drops the others; its failure is followed by the next turn.
Join ==
    /\ pc = "select" /\ ended # <<>>
    /\ ended' = Unjoined
    /\ \/ /\ Head(ended) \in opens
          /\ won' = Head(ended) /\ pc' = "over"
          /\ UNCHANGED failed
       \/ /\ Head(ended) \notin opens
          /\ failed' = failed \cup {Head(ended)}
          /\ pc' = AfterFailure
          /\ UNCHANGED won
    /\ UNCHANGED <<envVars, next, timer, elapsed>>

SleepEnds_Never == FALSE   \* mutant: no sleep in the select
SleepEnds == Pending /\ timer = 0

\* The delay is over. When an attempt has ended as well, select takes either.
DelayOver ==
    /\ pc = "select" /\ SleepEnds
    /\ pc' = "turn"
    /\ UNCHANGED <<envVars, next, ended, failed, timer, won, elapsed>>

\* An attempt (external) connects or is refused.
End(a) ==
    /\ pc # "over"
    /\ a \in InFlight
    /\ ended' = Append(ended, a)
    /\ UNCHANGED <<envVars, next, failed, timer, pc, won, elapsed>>

\* The runtime polls a task that can go on before the next tick. Time matters
\* only while an address is left.
Tick ==
    /\ pc = "select" /\ Pending
    /\ timer > 0 /\ ended = <<>>
    /\ timer' = timer - 1
    /\ elapsed' = elapsed + 1
    /\ UNCHANGED <<envVars, next, ended, failed, pc, won>>

Poll == Turn \/ TurnLast \/ Join \/ DelayOver

Next == Poll \/ Tick \/ \E a \in DOMAIN answer : End(a)

\* The task is polled, time passes and an address that accepts does so in the
\* end. The others may refuse at any time or never say anything.
Spec ==
    /\ Init /\ [][Next]_vars
    /\ WF_vars(Poll) /\ WF_vars(Tick)
    /\ \A a \in UNION {DOMAIN ans : ans \in Answers} : WF_vars(a \in opens /\ End(a))

---------------------------------------------------------------------------
(* Properties.                                                              *)

\* Types; an attempt is joined at most once (net.rs:146-167).
TypeOK ==
    /\ answer \in Answers
    /\ opens \subseteq DOMAIN answer
    /\ next \in Nat
    /\ ToSet(ended) \subseteq Started /\ failed \subseteq Started \ opens
    /\ IsInjective(ended) /\ ToSet(ended) \cap failed = {}
    /\ timer \in 0..Delay /\ elapsed \in Nat
    /\ pc \in {"turn", "select", "over"}
    /\ won \in opens \cup {0}

\* The order tries every address once, keeps the resolver's order within each
\* family, starts with its first address and alternates as long as there is an
\* address of the other family left (net.rs:119-132, RFC 8305).
Alternates ==
    /\ ToSet(order) = DOMAIN answer /\ IsInjective(order)
    /\ \A j, k \in DOMAIN order :
          j < k /\ answer[order[j]] = answer[order[k]] => order[j] < order[k]
    /\ answer # <<>> => order[1] = 1
    /\ \A k \in 1..(Len(order) - 1) :
          answer[order[k]] = answer[order[k + 1]] =>
              \A m \in (k + 1)..Len(order) : answer[order[m]] = answer[order[k]]

\* An error is returned only when every address has been tried and has failed
\* (net.rs:146-151).
ErrorMeansAllFailed == pc = "over" /\ won = 0 => failed = DOMAIN answer

\* Apart from one for each failure, attempts start no faster than one per delay,
\* however ends and timers interleave (net.rs:134-135, 153-160).
Staggered == Delay * (next - 1) <= elapsed + Delay * Cardinality(failed)

\* While an address is left, no time passes without an attempt in flight: a
\* refusal is followed by the next attempt at once (net.rs:135).
NeverIdle == [][Tick => InFlight # {}]_vars

\* One address that accepts is enough: those before it may say nothing for ever
\* (net.rs:134-135).
Connects == opens # {} ~> won # 0
=============================================================================
