----------------------------- MODULE NetProofs -----------------------------
(***************************************************************************)
(* Both halves of net.rs. The order and pace of connect_any's attempts and *)
(* what an error means, for every list of addresses, every delay and every *)
(* order of refusals, answers and timers (net.rs:119-168); and how often a *)
(* dial can be misled, for any number of dials, retries and moves of the   *)
(* server (`dial`, `DnsCache`).                                            *)
(***************************************************************************)
EXTENDS HappyEyeballs, Dial, FiniteSetTheorems, TLAPS

\* No attempt is joined twice.
JoinedOnce ==
    /\ ended \in Seq(DOMAIN answer)
    /\ \A i, j \in DOMAIN ended : i # j => ended[i] # ended[j]
    /\ \A i \in DOMAIN ended : ended[i] \notin failed
    /\ IsFiniteSet(failed)

Clocks ==
    /\ next \in Nat
    /\ timer \in 0..Delay
    /\ elapsed \in Nat
    /\ pc \in {"turn", "select", "over"}

\* What the failures and the time since the call have paid for.
Credit == elapsed + Delay * Cardinality(failed)

(***************************************************************************)
(* Staggered is not inductive: whether the next attempt may start follows  *)
(* from what the timer has already counted off. Before a turn the next     *)
(* attempt is paid for in full, in the select as far as the timer has run. *)
(***************************************************************************)
Paid ==
    /\ Delay * (next - 1) <= Credit
    /\ pc = "turn" => Delay * next <= Credit
    /\ pc = "select" /\ Pending => Delay * next - timer <= Credit

IInv == JoinedOnce /\ Clocks /\ Paid

---------------------------------------------------------------------------
LEMMA CreditNat == JoinedOnce /\ Clocks => Credit \in Nat /\ Cardinality(failed) \in Nat
  <1> SUFFICES ASSUME JoinedOnce, Clocks PROVE Credit \in Nat /\ Cardinality(failed) \in Nat
    OBVIOUS
  <1>1. Cardinality(failed) \in Nat
    BY FS_CardinalityType DEF JoinedOnce
  <1>2. \A m, n \in Nat : m * n \in Nat
    OBVIOUS
  <1> QED
    BY <1>1, <1>2, DelayAssumption DEF Credit, Clocks

\* One more attempt costs one more delay.
LEMMA OneMore == \A n \in Int : Delay * (n + 1) = Delay * n + Delay /\ Delay * n \in Int
                                /\ Delay * (n - 1) = Delay * n - Delay
  BY DelayAssumption

LEMMA InitIInv == Init => IInv
  <1> SUFFICES ASSUME Init PROVE IInv
    OBVIOUS
  <1>1. JoinedOnce
    BY FS_EmptySet DEF Init, JoinedOnce
  <1>2. Clocks
    BY DelayAssumption DEF Init, Clocks
  <1>3. Credit = 0
    BY FS_EmptySet, DelayAssumption DEF Init, Credit
  <1>4. Paid
    BY <1>3, OneMore, DelayAssumption DEF Init, Paid
  <1> QED
    BY <1>1, <1>2, <1>4 DEF IInv

---------------------------------------------------------------------------
LEMMA TurnStep == ASSUME IInv, Turn PROVE IInv'
  <1>1. JoinedOnce' /\ Credit' = Credit
    BY DEF IInv, JoinedOnce, Turn, envVars, Credit
  <1>2. Clocks'
    BY DelayAssumption DEF IInv, Clocks, Turn, Timer
  <1>3. Delay * next <= Credit
    BY DEF IInv, Paid, Turn
  <1>4. next' = next + 1 /\ timer' = Delay /\ pc' = "select" /\ next \in Int
    BY DEF Turn, Timer, IInv, Clocks
  <1>5. next' - 1 = next /\ Delay * next' = Delay * next + Delay
    BY <1>4, OneMore
  <1>6. Paid'
    BY <1>1, <1>3, <1>4, <1>5, OneMore, CreditNat, DelayAssumption DEF Paid, IInv
  <1> QED
    BY <1>1, <1>2, <1>6 DEF IInv

LEMMA TurnLastStep == ASSUME IInv, TurnLast PROVE IInv'
  <1>1. JoinedOnce' /\ Credit' = Credit
    BY DEF IInv, JoinedOnce, TurnLast, envVars, Credit
  <1>2. Clocks' /\ pc' # "turn"
    BY DEF IInv, Clocks, TurnLast
  <1>3. ~Pending'
    BY DEF TurnLast, Pending, envVars
  <1>4. Paid'
    BY <1>1, <1>2, <1>3 DEF IInv, Paid, TurnLast
  <1> QED
    BY <1>1, <1>2, <1>4 DEF IInv

LEMMA DelayOverStep == ASSUME IInv, DelayOver PROVE IInv'
  <1>1. JoinedOnce' /\ Credit' = Credit
    BY DEF IInv, JoinedOnce, DelayOver, envVars, Credit
  <1>2. Clocks'
    BY DEF IInv, Clocks, DelayOver
  <1>3. Delay * next - timer <= Credit /\ timer = 0 /\ next \in Int
    BY DEF IInv, Paid, DelayOver, SleepEnds, Clocks
  <1>4. Paid'
    BY <1>1, <1>3, OneMore DEF IInv, Paid, DelayOver
  <1> QED
    BY <1>1, <1>2, <1>4 DEF IInv

\* A failure pays for the attempt it lets start.
LEMMA JoinStep == ASSUME IInv, Join PROVE IInv'
  <1> DEFINE a == Head(ended)
  <1>1. /\ ended \in Seq(DOMAIN answer) /\ ended # <<>>
        /\ 1 \in DOMAIN ended /\ a = ended[1]
    BY DEF IInv, JoinedOnce, Join
  <1>2. a \notin failed
    BY <1>1 DEF IInv, JoinedOnce
  <1>3. /\ ended' \in Seq(DOMAIN answer')
        /\ \A i \in DOMAIN ended' : i + 1 \in DOMAIN ended /\ ended'[i] = ended[i + 1]
        /\ \A i \in DOMAIN ended' : i + 1 # 1 /\ i \in Int
    BY <1>1 DEF Join, Unjoined, envVars
  <1>4. \A i, j \in DOMAIN ended' : i # j => ended'[i] # ended'[j]
    BY <1>3 DEF IInv, JoinedOnce
  <1>5. \A i \in DOMAIN ended' : ended'[i] # a
    BY <1>1, <1>3 DEF IInv, JoinedOnce
  <1>6. JoinedOnce'
    <2>1. failed' \in {failed, failed \cup {a}}
      BY DEF Join
    <2>2. IsFiniteSet(failed')
      BY <2>1, FS_AddElement DEF IInv, JoinedOnce
    <2>3. \A i \in DOMAIN ended' : ended'[i] \notin failed'
      BY <1>3, <1>5, <2>1 DEF IInv, JoinedOnce
    <2> QED
      BY <1>3, <1>4, <2>2, <2>3 DEF JoinedOnce
  <1>7. Clocks'
    BY DEF IInv, Clocks, Join, AfterFailure
  <1>8. Paid'
    <2>1. CASE UNCHANGED failed /\ pc' = "over"
      BY <2>1 DEF IInv, Paid, Credit, Join
    <2>2. CASE failed' = failed \cup {a} /\ pc' = "turn"
      <3>1. Cardinality(failed') = Cardinality(failed) + 1
        BY <1>2, <2>2, FS_AddElement DEF IInv, JoinedOnce
      <3>2. Credit' = Credit + Delay
        BY <3>1, OneMore, CreditNat, DelayAssumption DEF IInv, Clocks, Credit, Join
      <3>3. Delay * (next - 1) <= Credit /\ next' = next /\ next \in Int
        BY DEF IInv, Paid, Clocks, Join
      <3> QED
        BY <2>2, <3>2, <3>3, OneMore, CreditNat, DelayAssumption DEF IInv, Paid
    <2> QED
      BY <2>1, <2>2 DEF Join, AfterFailure
  <1> QED
    BY <1>6, <1>7, <1>8 DEF IInv

LEMMA EndStep == ASSUME IInv, NEW a \in DOMAIN answer, End(a) PROVE IInv'
  <1>1. /\ ended' = Append(ended, a) /\ ended \in Seq(DOMAIN answer)
        /\ a \notin failed /\ a \notin ToSet(ended)
    BY DEF End, InFlight, IInv, JoinedOnce
  <1>2. \A i \in DOMAIN ended : ended[i] # a
    BY <1>1 DEF ToSet
  <1>3. /\ DOMAIN ended' = DOMAIN ended \cup {Len(ended) + 1}
        /\ \A i \in DOMAIN ended : ended'[i] = ended[i]
        /\ ended'[Len(ended) + 1] = a
        /\ ended' \in Seq(DOMAIN answer')
    BY <1>1 DEF End, envVars
  <1>4. JoinedOnce'
    BY <1>1, <1>2, <1>3 DEF IInv, JoinedOnce, End
  <1>5. Clocks' /\ Paid'
    BY DEF IInv, Clocks, Paid, Credit, Pending, End, envVars
  <1> QED
    BY <1>4, <1>5 DEF IInv

LEMMA TickStep == ASSUME IInv, Tick PROVE IInv'
  <1>1. JoinedOnce'
    BY DEF IInv, JoinedOnce, Tick, envVars
  <1>2. Clocks'
    BY DelayAssumption DEF IInv, Clocks, Tick
  <1>3. Credit' = Credit + 1
    <2>1. Delay * Cardinality(failed) \in Int
      BY CreditNat, OneMore DEF IInv
    <2>2. failed' = failed /\ elapsed' = elapsed + 1 /\ elapsed \in Int
      BY DEF Tick, IInv, Clocks
    <2> QED
      BY <2>1, <2>2 DEF Credit
  <1>4. /\ timer' = timer - 1 /\ timer \in Int /\ next' = next /\ next \in Int
        /\ pc' = "select" /\ pc = "select" /\ Pending
    BY DelayAssumption DEF Tick, IInv, Clocks
  <1>5. Delay * (next - 1) <= Credit /\ Delay * next - timer <= Credit
    BY <1>4 DEF IInv, Paid
  <1>6. Paid'
    BY <1>3, <1>4, <1>5, OneMore, CreditNat DEF IInv, Paid
  <1> QED
    BY <1>1, <1>2, <1>6 DEF IInv

LEMMA StepIInv == IInv /\ [Next]_vars => IInv'
  <1> SUFFICES ASSUME IInv, [Next]_vars PROVE IInv'
    OBVIOUS
  <1>1. CASE Poll
    BY <1>1, TurnStep, TurnLastStep, JoinStep, DelayOverStep DEF Poll
  <1>2. CASE Tick
    BY <1>2, TickStep
  <1>3. ASSUME NEW a \in DOMAIN answer, End(a) PROVE IInv'
    BY <1>3, EndStep
  <1>4. CASE UNCHANGED vars
    BY <1>4 DEF vars, envVars, IInv, JoinedOnce, Clocks, Paid, Credit, Pending
  <1> QED
    BY <1>1, <1>2, <1>3, <1>4 DEF Next

(***************************************************************************)
(* Apart from one for each failure, no more attempts start than delays     *)
(* have passed: a host with many addresses is not flooded with connections *)
(* (net.rs:134-135, 153-160).                                              *)
(***************************************************************************)
THEOREM AttemptsStaggered == Spec => []Staggered
  <1>1. Init => IInv
    BY InitIInv
  <1>2. IInv /\ [Next]_vars => IInv'
    BY StepIInv
  <1>3. IInv => Staggered
    BY DEF IInv, Paid, Credit, Staggered
  <1> QED
    BY <1>1, <1>2, <1>3, PTL DEF Spec

---------------------------------------------------------------------------
\* What IInv leaves out: only what was started ends, only what does not accept
\* fails, and only what accepts is returned.
Outcomes ==
    /\ answer \in Answers /\ opens \subseteq DOMAIN answer
    /\ ToSet(ended) \subseteq Started
    /\ failed \subseteq Started \ opens
    /\ won \in opens \cup {0}

LEMMA StepOutcomes == ASSUME IInv, Outcomes, [Next]_vars PROVE Outcomes'
  <1>1. CASE Turn
    <2>1. Started \subseteq Started'
      BY <1>1 DEF Turn, Started, envVars, IInv, Clocks
    <2> QED
      BY <1>1, <2>1 DEF Turn, Outcomes, envVars
  <1>2. CASE TurnLast \/ DelayOver \/ Tick
    <2>1. UNCHANGED <<envVars, next, ended, failed, won>>
      BY <1>2 DEF TurnLast, DelayOver, Tick
    <2> QED
      BY <2>1 DEF Outcomes, Started, envVars
  <1>3. CASE Join
    <2>1. /\ ended \in Seq(DOMAIN answer) /\ ended # <<>> /\ ended' = Tail(ended)
          /\ UNCHANGED <<envVars, next>>
      BY <1>3 DEF Join, Unjoined, IInv, JoinedOnce
    <2>2. Started' = Started
      BY <2>1 DEF Started, envVars
    <2>3. Head(ended) \in ToSet(ended) /\ ToSet(ended') \subseteq ToSet(ended)
      BY <2>1 DEF ToSet
    <2>4. \/ Head(ended) \in opens /\ won' = Head(ended) /\ UNCHANGED failed
          \/ Head(ended) \notin opens /\ failed' = failed \cup {Head(ended)} /\ UNCHANGED won
      BY <1>3 DEF Join
    <2> QED
      BY <2>1, <2>2, <2>3, <2>4 DEF Outcomes, envVars
  <1>4. ASSUME NEW a \in DOMAIN answer, End(a) PROVE Outcomes'
    <2>1. /\ ended \in Seq(DOMAIN answer) /\ ended' = Append(ended, a) /\ a \in Started
          /\ UNCHANGED <<envVars, next, failed, won>>
      BY <1>4 DEF End, InFlight, IInv, JoinedOnce
    <2>2. Started' = Started
      BY <2>1 DEF Started, envVars
    <2>3. ToSet(ended') \subseteq ToSet(ended) \cup {a}
      BY <2>1 DEF ToSet
    <2> QED
      BY <2>1, <2>2, <2>3 DEF Outcomes, envVars
  <1>5. CASE UNCHANGED vars
    BY <1>5 DEF vars, envVars, Outcomes, Started
  <1> QED
    BY <1>1, <1>2, <1>3, <1>4, <1>5 DEF Next, Poll

\* An attempt is joined at most once, and a connection is returned only from an
\* address that accepts (net.rs:146-167).
THEOREM HappyEyeballsTypes == Spec => []TypeOK
  <1>1. Init => Outcomes
    BY DEF Init, Outcomes, ToSet
  <1>2. IInv /\ Outcomes => TypeOK
    <2> SUFFICES ASSUME IInv, Outcomes PROVE TypeOK
      OBVIOUS
    <2>1. IsInjective(ended)
      BY DEF IsInjective, IInv, JoinedOnce
    <2>2. ToSet(ended) \cap failed = {}
      BY DEF ToSet, IInv, JoinedOnce
    <2> QED
      BY <2>1, <2>2 DEF TypeOK, IInv, Clocks, Outcomes
  <1> QED
    BY <1>1, <1>2, InitIInv, StepIInv, StepOutcomes, PTL DEF Spec
---------------------------------------------------------------------------
(***************************************************************************)
(* interleave. An address is listed by its rank in its family, so lists    *)
(* are compared through ranks.                                             *)
(***************************************************************************)
UpTo(T, a) == {b \in T : b <= a}

LEMMA RankType ==
    ASSUME NEW T \in SUBSET Nat, IsFiniteSet(T), NEW a \in T
    PROVE  Cardinality(UpTo(T, a)) \in 1..Cardinality(T) /\ Cardinality(T) \in Nat
  <1>1. UpTo(T, a) \in SUBSET T /\ a \in UpTo(T, a)
    BY DEF UpTo
  <1>2. IsFiniteSet(UpTo(T, a)) /\ Cardinality(UpTo(T, a)) <= Cardinality(T)
    BY <1>1, FS_Subset
  <1>3. Cardinality(UpTo(T, a)) \in Nat /\ Cardinality(T) \in Nat
    BY <1>2, FS_CardinalityType
  <1>4. Cardinality(UpTo(T, a)) # 0
    BY <1>1, <1>2, FS_EmptySet
  <1> QED
    BY <1>2, <1>3, <1>4

LEMMA RankGrows ==
    ASSUME NEW T \in SUBSET Nat, IsFiniteSet(T), NEW a \in T, NEW b \in T, a < b
    PROVE  Cardinality(UpTo(T, a)) < Cardinality(UpTo(T, b))
  <1>1. \A c \in T : c \in Nat
    OBVIOUS
  <1>2. \A c \in T : c <= a => c <= b
    BY <1>1
  <1>3. b <= b /\ ~(b <= a)
    BY <1>1
  <1>4. UpTo(T, a) \in SUBSET UpTo(T, b) /\ b \in UpTo(T, b) /\ b \notin UpTo(T, a)
    BY <1>2, <1>3 DEF UpTo
  <1>5. UpTo(T, b) \in SUBSET T
    BY DEF UpTo
  <1>6. IsFiniteSet(UpTo(T, b))
    BY <1>5, FS_Subset
  <1>7. Cardinality(UpTo(T, a)) <= Cardinality(UpTo(T, b))
        /\ Cardinality(UpTo(T, a)) # Cardinality(UpTo(T, b))
    BY <1>4, <1>6, FS_Subset
  <1>8. Cardinality(UpTo(T, a)) \in Nat /\ Cardinality(UpTo(T, b)) \in Nat
    BY RankType
  <1> QED
    BY <1>7, <1>8

\* Ranks are distinct, so each of 1..Cardinality(T) is the rank of one member.
LEMMA RankOnto ==
    ASSUME NEW T \in SUBSET Nat, IsFiniteSet(T), NEW r \in 1..Cardinality(T)
    PROVE  \E a \in T : Cardinality(UpTo(T, a)) = r
  <1> DEFINE n == Cardinality(T)
             f == [a \in T |-> Cardinality(UpTo(T, a))]
  <1>1. n \in Nat
    BY FS_CardinalityType
  <1>2. f \in [T -> 1..n]
    BY RankType
  <1>3. ASSUME NEW a \in T, NEW b \in T, f[a] = f[b] PROVE a = b
    <2>1. Cardinality(UpTo(T, a)) \in Nat /\ Cardinality(UpTo(T, b)) \in Nat
      BY RankType
    <2>2. ~(a < b) /\ ~(b < a)
      BY <1>3, <2>1, RankGrows
    <2> QED
      BY <2>2
  <1>4. IsFiniteSet(1..n) /\ Cardinality(1..n) = n
    BY <1>1, FS_Interval
  <1> HIDE DEF f
  <1>5. f \in Injection(T, 1..n)
    <2>1. \A a, b \in T : f[a] = f[b] => a = b
      BY <1>3
    <2> QED
      BY <1>2, <2>1 DEF Injection, IsInjective
  <1>6. f \in Surjection(T, 1..n)
    BY <1>4, <1>5, FS_Injection
  <1>7. \E a \in T : f[a] = r
    BY <1>6 DEF Surjection
  <1> QED
    BY <1>7 DEF f

\* q lists the members of T, each once, in their order.
Lists(q, T) ==
    /\ q \in Seq(T)
    /\ \A i, j \in 1..Len(q) : i < j => q[i] < q[j]
    /\ \A a \in T : \E i \in 1..Len(q) : q[i] = a

LEMMA InAnswerOrderLists ==
    ASSUME NEW T \in SUBSET Nat, IsFiniteSet(T)
    PROVE  Lists(InAnswerOrder(T), T)
  <1> DEFINE n == Cardinality(T)
             q == InAnswerOrder(T)
  <1>1. n \in Nat
    BY FS_CardinalityType
  <1>2. \A r \in 1..n : q[r] \in T /\ Cardinality(UpTo(T, q[r])) = r
    BY RankOnto DEF InAnswerOrder, UpTo
  <1>3. q = [r \in 1..n |-> q[r]]
    BY DEF InAnswerOrder
  <1> HIDE DEF n, q
  <1>4. q \in Seq(T) /\ Len(q) = n
    <2>1. q \in [1..n -> T]
      BY <1>2, <1>3
    <2> QED
      BY <1>1, <2>1
  <1>5. ASSUME NEW i \in 1..n, NEW j \in 1..n, i < j PROVE q[i] < q[j]
    <2>1. q[i] \in T /\ q[j] \in T /\ q[i] \in Nat /\ q[j] \in Nat
      BY <1>2
    <2>2. ~(Cardinality(UpTo(T, q[j])) < Cardinality(UpTo(T, q[i])))
      BY <1>1, <1>2, <1>5
    <2>3. ~(q[j] < q[i])
      BY <2>1, <2>2, RankGrows
    <2>4. q[i] # q[j]
      BY <1>1, <1>2, <1>5
    <2> QED
      BY <2>1, <2>3, <2>4
  <1>6. ASSUME NEW a \in T PROVE \E i \in 1..n : q[i] = a
    <2> DEFINE r == Cardinality(UpTo(T, a))
    <2>1. r \in 1..n
      BY RankType DEF n
    <2>2. q[r] \in T /\ Cardinality(UpTo(T, q[r])) = r
      BY <1>2, <2>1
    <2>3. r \in Nat /\ a \in Nat /\ q[r] \in Nat
      <3>1. r \in Nat
        BY <1>1, <2>1
      <3>2. a \in Nat /\ q[r] \in Nat
        BY <2>2
      <3> QED
        BY <3>1, <3>2
    <2>4. ~(q[r] < a)
      <3>1. q[r] < a => Cardinality(UpTo(T, q[r])) < Cardinality(UpTo(T, a))
        BY <2>2, RankGrows
      <3> QED
        BY <3>1, <2>2, <2>3
    <2>5. ~(a < q[r])
      <3>1. a < q[r] => Cardinality(UpTo(T, a)) < Cardinality(UpTo(T, q[r]))
        BY <2>2, RankGrows
      <3> QED
        BY <3>1, <2>2, <2>3
    <2> QED
      BY <2>1, <2>3, <2>4, <2>5
  <1> QED
    BY <1>4, <1>5, <1>6 DEF Lists, q

---------------------------------------------------------------------------
\* Which queue the k-th address is popped from, and as the how-manieth.
Both(p, s) == IF Len(p) < Len(s) THEN Len(p) ELSE Len(s)
FromFirst(p, s, k) == IF k > 2 * Both(p, s) THEN Len(p) > Both(p, s) ELSE k % 2 = 1
Nth(p, s, k) ==
    IF k > 2 * Both(p, s) THEN k - Both(p, s)
    ELSE IF k % 2 = 1 THEN (k + 1) \div 2 ELSE k \div 2

LEMMA AlternateAt ==
    ASSUME NEW S, NEW p \in Seq(S), NEW s \in Seq(S)
    PROVE  LET z == Alternate(p, s)
           IN  /\ z \in Seq(S) /\ Len(z) = Len(p) + Len(s)
               /\ \A k \in 1..Len(z) :
                    /\ FromFirst(p, s, k) => Nth(p, s, k) \in 1..Len(p) /\ z[k] = p[Nth(p, s, k)]
                    /\ ~FromFirst(p, s, k) => Nth(p, s, k) \in 1..Len(s) /\ z[k] = s[Nth(p, s, k)]
  <1> DEFINE z == Alternate(p, s)
             lp == Len(p)
             ls == Len(s)
             m == Both(p, s)
  <1>1. /\ lp \in Nat /\ ls \in Nat /\ m \in Nat /\ m <= lp /\ m <= ls
        /\ m = lp \/ m = ls
    BY DEF Both
  <1>2. z = [k \in 1..(lp + ls) |->
                IF FromFirst(p, s, k) THEN p[Nth(p, s, k)] ELSE s[Nth(p, s, k)]]
    BY DEF Alternate, FromFirst, Nth, Both
  <1>3. ASSUME NEW k \in 1..(lp + ls)
        PROVE  /\ FromFirst(p, s, k) => Nth(p, s, k) \in 1..lp
               /\ ~FromFirst(p, s, k) => Nth(p, s, k) \in 1..ls
    <2> HIDE DEF lp, ls, m
    <2>1. CASE k > 2 * m
      <3>1. Nth(p, s, k) = k - m /\ (FromFirst(p, s, k) <=> lp > m)
        BY <2>1 DEF Nth, FromFirst, m, lp
      <3> QED
        BY <1>1, <2>1, <3>1
    <2>2. CASE ~(k > 2 * m) /\ k % 2 = 1
      <3>1. Nth(p, s, k) = (k + 1) \div 2 /\ FromFirst(p, s, k)
        BY <2>2 DEF Nth, FromFirst, m
      <3> QED
        BY <1>1, <2>2, <3>1
    <2>3. CASE ~(k > 2 * m) /\ k % 2 # 1
      <3>1. Nth(p, s, k) = k \div 2 /\ ~FromFirst(p, s, k)
        BY <2>3 DEF Nth, FromFirst, m
      <3> QED
        BY <1>1, <2>3, <3>1
    <2> QED
      BY <2>1, <2>2, <2>3
  <1>4. z \in Seq(S) /\ Len(z) = lp + ls
    <2>1. \A k \in 1..(lp + ls) : z[k] \in S
      BY <1>2, <1>3
    <2>2. z \in [1..(lp + ls) -> S]
      BY <1>2, <2>1
    <2> QED
      BY <1>1, <2>2
  <1> QED
    BY <1>2, <1>3, <1>4

\* Each queue is popped from its front on ...
LEMMA NthGrows ==
    ASSUME NEW S, NEW p \in Seq(S), NEW s \in Seq(S),
           NEW j \in Nat \ {0}, NEW k \in Nat \ {0}, j < k,
           FromFirst(p, s, j) <=> FromFirst(p, s, k)
    PROVE  Nth(p, s, j) < Nth(p, s, k)
  <1> DEFINE m == Both(p, s)
  <1>1. m \in Nat
    BY DEF Both
  <1> HIDE DEF m
  <1>2. CASE k > 2 * m /\ j > 2 * m
    <2>1. Nth(p, s, k) = k - m /\ Nth(p, s, j) = j - m
      BY <1>2 DEF Nth, m
    <2> QED
      BY <1>1, <2>1
  <1>3. CASE k > 2 * m /\ ~(j > 2 * m)
    <2>1. /\ Nth(p, s, k) = k - m
          /\ Nth(p, s, j) = IF j % 2 = 1 THEN (j + 1) \div 2 ELSE j \div 2
      BY <1>3 DEF Nth, m
    <2>2. (IF j % 2 = 1 THEN (j + 1) \div 2 ELSE j \div 2) <= m
      BY <1>1, <1>3
    <2> QED
      BY <1>1, <1>3, <2>1, <2>2
  <1>4. CASE ~(k > 2 * m)
    <2>1. ~(j > 2 * m)
      BY <1>1, <1>4
    <2>2. j % 2 = 1 <=> k % 2 = 1
      BY <1>4, <2>1 DEF FromFirst, m
    <2>3. /\ Nth(p, s, k) = IF k % 2 = 1 THEN (k + 1) \div 2 ELSE k \div 2
          /\ Nth(p, s, j) = IF j % 2 = 1 THEN (j + 1) \div 2 ELSE j \div 2
      BY <1>4, <2>1 DEF Nth, m
    <2>4. CASE k % 2 = 1
      <3>1. (j + 1) \div 2 < (k + 1) \div 2
        BY <2>2, <2>4
      <3> QED
        BY <2>2, <2>3, <2>4, <3>1
    <2>5. CASE k % 2 # 1
      <3>1. j \div 2 < k \div 2
        BY <2>2, <2>5
      <3> QED
        BY <2>2, <2>3, <2>5, <3>1
    <2> QED
      BY <2>4, <2>5
  <1> QED
    BY <1>2, <1>3, <1>4

\* ... to its end.
LEMMA NthOnto ==
    ASSUME NEW S, NEW p \in Seq(S), NEW s \in Seq(S)
    PROVE  /\ \A i \in 1..Len(p) : \E k \in 1..(Len(p) + Len(s)) :
                  FromFirst(p, s, k) /\ Nth(p, s, k) = i
           /\ \A i \in 1..Len(s) : \E k \in 1..(Len(p) + Len(s)) :
                  ~FromFirst(p, s, k) /\ Nth(p, s, k) = i
  <1> DEFINE lp == Len(p)
             ls == Len(s)
             m == Both(p, s)
  <1>1. /\ lp \in Nat /\ ls \in Nat /\ m \in Nat /\ m <= lp /\ m <= ls
        /\ m = lp \/ m = ls
    BY DEF Both
  <1> HIDE DEF lp, ls, m
  <1>2. ASSUME NEW i \in 1..lp
        PROVE  \E k \in 1..(lp + ls) : FromFirst(p, s, k) /\ Nth(p, s, k) = i
    <2>1. CASE i <= m
      <3> DEFINE k == 2 * i - 1
      <3>1. k \in 1..(lp + ls) /\ ~(k > 2 * m) /\ k % 2 = 1 /\ (k + 1) \div 2 = i
        BY <1>1, <2>1
      <3> HIDE DEF k
      <3>2. FromFirst(p, s, k) /\ Nth(p, s, k) = (k + 1) \div 2
        BY <3>1 DEF FromFirst, Nth, m
      <3> QED
        BY <3>1, <3>2
    <2>2. CASE i > m
      <3> DEFINE k == m + i
      <3>1. k \in 1..(lp + ls) /\ k > 2 * m /\ k - m = i /\ lp > m
        BY <1>1, <2>2
      <3> HIDE DEF k
      <3>2. FromFirst(p, s, k) /\ Nth(p, s, k) = k - m
        BY <3>1 DEF FromFirst, Nth, m, lp
      <3> QED
        BY <3>1, <3>2
    <2> QED
      BY <1>1, <2>1, <2>2
  <1>3. ASSUME NEW i \in 1..ls
        PROVE  \E k \in 1..(lp + ls) : ~FromFirst(p, s, k) /\ Nth(p, s, k) = i
    <2>1. CASE i <= m
      <3> DEFINE k == 2 * i
      <3>1. k \in 1..(lp + ls) /\ ~(k > 2 * m) /\ k % 2 # 1 /\ k \div 2 = i
        BY <1>1, <2>1
      <3> HIDE DEF k
      <3>2. ~FromFirst(p, s, k) /\ Nth(p, s, k) = k \div 2
        BY <3>1 DEF FromFirst, Nth, m
      <3> QED
        BY <3>1, <3>2
    <2>2. CASE i > m
      <3> DEFINE k == m + i
      <3>1. k \in 1..(lp + ls) /\ k > 2 * m /\ k - m = i /\ ~(lp > m)
        BY <1>1, <2>2
      <3> HIDE DEF k
      <3>2. ~FromFirst(p, s, k) /\ Nth(p, s, k) = k - m
        BY <3>1 DEF FromFirst, Nth, m, lp
      <3> QED
        BY <3>1, <3>2
    <2> QED
      BY <1>1, <2>1, <2>2
  <1> QED
    BY <1>2, <1>3 DEF lp, ls

\* Two neighbours from the same queue: the other one is used up.
LEMMA SameThenRest ==
    ASSUME NEW S, NEW p \in Seq(S), NEW s \in Seq(S),
           NEW k \in Nat \ {0}, NEW n \in Nat, k + 1 <= n,
           FromFirst(p, s, k) <=> FromFirst(p, s, k + 1),
           k + 1 <= Len(p) + Len(s)
    PROVE  FromFirst(p, s, n) <=> FromFirst(p, s, k)
  <1> DEFINE m == Both(p, s)
  <1>1. /\ Len(p) \in Nat /\ Len(s) \in Nat /\ m \in Nat
        /\ m = Len(p) \/ m = Len(s)
    BY DEF Both
  <1> HIDE DEF m
  <1>2. k + 1 > 2 * m
    <2>1. ASSUME ~(k + 1 > 2 * m) PROVE FALSE
      <3>1. ~(k > 2 * m)
        BY <1>1, <2>1
      <3>2. k % 2 = 1 <=> (k + 1) % 2 = 1
        BY <2>1, <3>1 DEF FromFirst, m
      <3> QED
        BY <3>2
    <2> QED
      BY <2>1
  <1>3. n > 2 * m
    BY <1>1, <1>2
  <1> QED
    BY <1>2, <1>3 DEF FromFirst, m

LEMMA Alternation ==
    ASSUME NEW A \in SUBSET Nat, NEW B \in SUBSET Nat, A \cap B = {},
           NEW p, Lists(p, A), NEW s, Lists(s, B)
    PROVE  LET z == Alternate(p, s)
           IN  /\ z \in Seq(A \cup B)
               /\ \A j, k \in 1..Len(z) :
                     j < k /\ (z[j] \in A <=> z[k] \in A) => z[j] < z[k]
               /\ \A a \in A \cup B : \E k \in 1..Len(z) : z[k] = a
               /\ Len(p) > 0 => Len(z) > 0 /\ z[1] = p[1]
               /\ \A k \in 1..(Len(z) - 1) : (z[k] \in A <=> z[k + 1] \in A) =>
                     \A n \in (k + 1)..Len(z) : z[n] \in A <=> z[k] \in A
  <1> DEFINE z == Alternate(p, s)
             From(k) == FromFirst(p, s, k)
             N(k) == Nth(p, s, k)
  <1>1. /\ p \in Seq(A \cup B) /\ s \in Seq(A \cup B)
        /\ \A i \in 1..Len(p) : p[i] \in A
        /\ \A i \in 1..Len(s) : s[i] \in B
        /\ Len(p) \in Nat /\ Len(s) \in Nat
    BY DEF Lists
  <1>2. /\ z \in Seq(A \cup B) /\ Len(z) = Len(p) + Len(s)
        /\ \A k \in 1..Len(z) :
              /\ From(k) => N(k) \in 1..Len(p) /\ z[k] = p[N(k)]
              /\ ~From(k) => N(k) \in 1..Len(s) /\ z[k] = s[N(k)]
    BY <1>1, AlternateAt
  <1>3. \A j, k \in Nat \ {0} : j < k /\ (From(j) <=> From(k)) => N(j) < N(k)
    BY <1>1, NthGrows
  <1>4. /\ \A i \in 1..Len(p) : \E k \in 1..(Len(p) + Len(s)) : From(k) /\ N(k) = i
        /\ \A i \in 1..Len(s) : \E k \in 1..(Len(p) + Len(s)) : ~From(k) /\ N(k) = i
    BY <1>1, NthOnto
  <1>5. \A k \in Nat \ {0}, n \in Nat :
            k + 1 <= n /\ (From(k) <=> From(k + 1)) /\ k + 1 <= Len(p) + Len(s) =>
                (From(n) <=> From(k))
    BY <1>1, SameThenRest
  <1>6. Len(p) > 0 => From(1) /\ N(1) = 1
    <2>1. 1 % 2 = 1 /\ (1 + 1) \div 2 = 1 /\ 2 * 0 = 0
      OBVIOUS
    <2>2. CASE Len(s) = 0
      BY <1>1, <2>1, <2>2 DEF FromFirst, Nth, Both
    <2>3. CASE Len(s) # 0 /\ Len(p) > 0
      <3>1. ~(1 > 2 * Both(p, s))
        BY <1>1, <2>3 DEF Both
      <3> QED
        BY <2>1, <3>1 DEF FromFirst, Nth
    <2> QED
      BY <2>2, <2>3
  <1> HIDE DEF z, From, N
  <1>7. \A k \in 1..Len(z) : From(k) <=> z[k] \in A
    BY <1>1, <1>2
  <1>8. ASSUME NEW j \in 1..Len(z), NEW k \in 1..Len(z), j < k, z[j] \in A <=> z[k] \in A
        PROVE  z[j] < z[k]
    <2>1. From(j) <=> From(k)
      BY <1>7, <1>8
    <2>2. N(j) < N(k)
      BY <1>3, <1>8, <2>1
    <2>3. CASE From(j)
      BY <1>2, <2>1, <2>2, <2>3 DEF Lists
    <2>4. CASE ~From(j)
      BY <1>2, <2>1, <2>2, <2>4 DEF Lists
    <2> QED
      BY <2>3, <2>4
  <1>9. ASSUME NEW a \in A \cup B PROVE \E k \in 1..Len(z) : z[k] = a
    <2>1. CASE a \in A
      <3>1. PICK i \in 1..Len(p) : p[i] = a
        BY <2>1 DEF Lists
      <3>2. PICK k \in 1..(Len(p) + Len(s)) : From(k) /\ N(k) = i
        BY <1>4
      <3> QED
        BY <1>2, <3>1, <3>2
    <2>2. CASE a \in B
      <3>1. PICK i \in 1..Len(s) : s[i] = a
        BY <2>2 DEF Lists
      <3>2. PICK k \in 1..(Len(p) + Len(s)) : ~From(k) /\ N(k) = i
        BY <1>4
      <3> QED
        BY <1>2, <3>1, <3>2
    <2> QED
      BY <2>1, <2>2
  <1>10. Len(p) > 0 => Len(z) > 0 /\ z[1] = p[1]
    BY <1>1, <1>2, <1>6
  <1>11. ASSUME NEW k \in 1..(Len(z) - 1), z[k] \in A <=> z[k + 1] \in A,
                NEW n \in (k + 1)..Len(z)
         PROVE  z[n] \in A <=> z[k] \in A
    <2>1. /\ k \in 1..Len(z) /\ k + 1 \in 1..Len(z) /\ n \in 1..Len(z)
          /\ k \in Nat \ {0} /\ n \in Nat /\ k + 1 <= n /\ k + 1 <= Len(p) + Len(s)
      BY <1>1, <1>2
    <2>2. From(k) <=> From(k + 1)
      BY <1>7, <1>11, <2>1
    <2>3. From(n) <=> From(k)
      BY <1>5, <2>1, <2>2
    <2> QED
      BY <1>7, <2>1, <2>3
  <1>12. z \in Seq(A \cup B)
    BY <1>2
  <1> QED
    BY <1>8, <1>9, <1>10, <1>11, <1>12 DEF z

\* What Alternates says of the order of ans.
Fair(ans, o) ==
    /\ o \in Seq(DOMAIN ans)
    /\ ToSet(o) = DOMAIN ans /\ IsInjective(o)
    /\ \A j, k \in DOMAIN o : j < k /\ ans[o[j]] = ans[o[k]] => o[j] < o[k]
    /\ ans # <<>> => o[1] = 1
    /\ \A k \in 1..(Len(o) - 1) :
          ans[o[k]] = ans[o[k + 1]] =>
              \A m \in (k + 1)..Len(o) : ans[o[m]] = ans[o[k]]

LEMMA InterleavedFair == ASSUME NEW ans \in Seq(Families) PROVE Fair(ans, Interleaved(ans))
  <1>1. CASE ans = <<>>
    <2> DEFINE z == Interleaved(ans)
    <2>1. z = <<>> /\ DOMAIN ans = {}
      BY <1>1 DEF Interleaved
    <2> HIDE DEF z
    <2>2. z \in Seq(DOMAIN ans) /\ DOMAIN z = {} /\ Len(z) = 0 /\ 1..(0 - 1) = {}
      BY <2>1
    <2>3. ToSet(z) = {}
      BY <2>2 DEF ToSet
    <2>4. IsInjective(z)
      BY <2>2 DEF IsInjective
    <2> QED
      BY <1>1, <2>1, <2>2, <2>3, <2>4 DEF Fair, z
  <1>2. CASE ans # <<>>
    <2> DEFINE A == Primary(ans)
               B == DOMAIN ans \ Primary(ans)
               p == InAnswerOrder(A)
               s == InAnswerOrder(B)
               z == Alternate(p, s)
    <2>1. /\ DOMAIN ans = 1..Len(ans) /\ Len(ans) \in Nat /\ 1 \in DOMAIN ans
          /\ Head(ans) = ans[1] /\ \A a \in DOMAIN ans : ans[a] \in Families
      BY <1>2
    <2>2. /\ A \in SUBSET DOMAIN ans /\ B \in SUBSET DOMAIN ans /\ A \cap B = {}
          /\ A \cup B = DOMAIN ans /\ 1 \in A
      BY <2>1 DEF Primary
    <2>3. A \in SUBSET Nat /\ B \in SUBSET Nat /\ \A a \in DOMAIN ans : a \in Nat /\ 1 <= a
      BY <2>1, <2>2
    <2>4. IsFiniteSet(A) /\ IsFiniteSet(B)
      <3>1. IsFiniteSet(DOMAIN ans)
        BY <2>1, FS_Interval
      <3> QED
        BY <2>2, <3>1, FS_Subset
    <2>5. \A a, b \in DOMAIN ans : ans[a] = ans[b] <=> (a \in A <=> b \in A)
      BY <2>1 DEF Primary, Families
    <2>6. Interleaved(ans) = z
      BY <1>2 DEF Interleaved
    <2> HIDE DEF A, B, p, s, z
    <2>7. Lists(p, A) /\ Lists(s, B)
      BY <2>3, <2>4, InAnswerOrderLists DEF p, s
    <2>8. /\ z \in Seq(A \cup B)
          /\ \A j, k \in 1..Len(z) : j < k /\ (z[j] \in A <=> z[k] \in A) => z[j] < z[k]
          /\ \A a \in A \cup B : \E k \in 1..Len(z) : z[k] = a
          /\ Len(p) > 0 => Len(z) > 0 /\ z[1] = p[1]
          /\ \A k \in 1..(Len(z) - 1) : (z[k] \in A <=> z[k + 1] \in A) =>
                \A n \in (k + 1)..Len(z) : z[n] \in A <=> z[k] \in A
      BY <2>2, <2>3, <2>7, Alternation DEF z
    <2>9. Len(p) > 0 /\ p[1] = 1
      <3>1. p \in Seq(A) /\ \A i, j \in 1..Len(p) : i < j => p[i] < p[j]
        BY <2>7 DEF Lists
      <3>2. PICK i \in 1..Len(p) : p[i] = 1
        BY <2>2, <2>7 DEF Lists
      <3>3. Len(p) \in Nat /\ 1 \in 1..Len(p) /\ p[1] \in A
        BY <3>1, <3>2
      <3>4. p[1] \in Nat /\ 1 <= p[1]
        BY <2>2, <2>3, <3>3
      <3>5. ~(1 < i)
        BY <3>1, <3>2, <3>3, <3>4
      <3> QED
        BY <3>2, <3>3, <3>5
    <2>10. /\ z \in Seq(DOMAIN ans) /\ DOMAIN z = 1..Len(z) /\ Len(z) \in Nat
           /\ \A k \in 1..Len(z) : z[k] \in DOMAIN ans /\ z[k] \in Nat
      <3>1. z \in Seq(DOMAIN ans)
        BY <2>2, <2>8, Zenon
      <3>2. DOMAIN z = 1..Len(z) /\ Len(z) \in Nat /\ \A k \in 1..Len(z) : z[k] \in DOMAIN ans
        BY <3>1
      <3> QED
        BY <2>3, <3>1, <3>2
    <2>11. ToSet(z) = DOMAIN ans
      <3>1. \A k \in DOMAIN z : z[k] \in DOMAIN ans
        BY <2>10
      <3>2. \A a \in DOMAIN ans : \E k \in DOMAIN z : z[k] = a
        BY <2>2, <2>8, <2>10
      <3> QED
        BY <3>1, <3>2 DEF ToSet
    <2>12. IsInjective(z)
      <3>1. ASSUME NEW j \in 1..Len(z), NEW k \in 1..Len(z), j < k, z[j] = z[k] PROVE FALSE
        <4>1. z[j] < z[k]
          BY <2>8, <3>1
        <4> QED
          BY <2>10, <3>1, <4>1
      <3>2. \A j, k \in 1..Len(z) : z[j] = z[k] => j = k
        BY <2>10, <3>1
      <3> QED
        BY <2>10, <3>2 DEF IsInjective
    <2>13. \A j, k \in DOMAIN z : j < k /\ ans[z[j]] = ans[z[k]] => z[j] < z[k]
      BY <2>5, <2>8, <2>10
    <2>14. z[1] = 1
      BY <2>8, <2>9
    <2>15. ASSUME NEW k \in 1..(Len(z) - 1), ans[z[k]] = ans[z[k + 1]],
                  NEW n \in (k + 1)..Len(z)
           PROVE  ans[z[n]] = ans[z[k]]
      <3>1. k \in 1..Len(z) /\ k + 1 \in 1..Len(z) /\ n \in 1..Len(z)
        BY <2>10
      <3>2. z[k] \in DOMAIN ans /\ z[k + 1] \in DOMAIN ans /\ z[n] \in DOMAIN ans
        BY <2>10, <3>1
      <3>3. z[k] \in A <=> z[k + 1] \in A
        BY <2>5, <2>15, <3>2
      <3>4. z[n] \in A <=> z[k] \in A
        BY <2>8, <3>3
      <3> QED
        BY <2>5, <3>2, <3>4
    <2> QED
      BY <2>6, <2>10, <2>11, <2>12, <2>13, <2>14, <2>15 DEF Fair
  <1> QED
    BY <1>1, <1>2

---------------------------------------------------------------------------
\* The order is the answer's and stays it.
Ordered == answer \in Answers /\ order = Interleaved(answer)

LEMMA StepOrdered == Ordered /\ [Next]_vars => Ordered'
  BY DEF Ordered, Next, Poll, Turn, TurnLast, Join, DelayOver, Tick, End, vars, envVars

LEMMA OrderedFair == Ordered => Fair(answer, order)
  BY InterleavedFair, AnswersAssumption DEF Ordered

(***************************************************************************)
(* For every answer the order tries each address once, keeps the           *)
(* resolver's order within a family, begins with its first address and     *)
(* alternates as long as both families have one left (net.rs:119-132).     *)
(***************************************************************************)
THEOREM OrderAlternates == Spec => []Alternates
  <1>1. Init => Ordered
    BY DEF Init, Ordered
  <1>2. Ordered => Alternates
    BY OrderedFair DEF Fair, Alternates
  <1> QED
    BY <1>1, <1>2, StepOrdered, PTL DEF Spec

---------------------------------------------------------------------------
(***************************************************************************)
(* connect_any waits only for an attempt that has not failed: one was just *)
(* started, the address following those in failed, or the check for none   *)
(* in flight has just been passed. It returns an error only from that      *)
(* check, behind the last address.                                         *)
(***************************************************************************)
Waits ==
    /\ next <= Len(order)
    /\ pc = "select" => Started # failed
    /\ pc = "over" /\ won = 0 => ~Pending /\ Started = failed

SInv == Ordered /\ IInv /\ Outcomes /\ Waits

LEMMA StepWaits == ASSUME SInv, [Next]_vars PROVE Waits'
  <1>1. /\ order \in Seq(DOMAIN answer) /\ IsInjective(order) /\ Len(order) \in Nat
        /\ DOMAIN order = 1..Len(order)
    BY OrderedFair DEF SInv, Fair
  <1>2. next \in Nat /\ next <= Len(order) /\ failed \subseteq Started
    BY DEF SInv, IInv, Clocks, Outcomes, Waits
  <1>3. CASE Turn
    <2>1. /\ next' = next + 1 /\ order' = order /\ failed' = failed /\ pc' = "select"
          /\ next < Len(order)
      BY <1>3 DEF Turn, Pending, envVars
    <2>2. next + 1 \in 1..next' /\ next + 1 \in 1..Len(order)
      BY <1>1, <1>2, <2>1
    <2>3. order[next + 1] \in Started'
      BY <2>1, <2>2 DEF Started
    <2>4. order[next + 1] \notin Started
      <3>1. ASSUME NEW i \in 1..next, order[i] = order[next + 1] PROVE FALSE
        <4>1. i \in 1..Len(order) /\ i # next + 1
          BY <1>1, <1>2
        <4> QED
          BY <1>1, <2>2, <3>1, <4>1 DEF IsInjective
      <3> QED
        BY <3>1 DEF Started
    <2>5. Started' # failed'
      BY <1>2, <2>1, <2>3, <2>4
    <2>6. next' <= Len(order')
      BY <1>1, <1>2, <2>1
    <2> QED
      BY <2>1, <2>5, <2>6 DEF Waits
  <1>4. CASE TurnLast
    <2>1. /\ UNCHANGED <<order, next, failed>> /\ ~Pending
          /\ pc' = IF Started = failed THEN "over" ELSE "select"
      BY <1>4 DEF TurnLast, NothingLeft, envVars
    <2>2. Started' = Started /\ ~Pending'
      BY <2>1 DEF Started, Pending
    <2> QED
      BY <1>2, <2>1, <2>2 DEF Waits
  <1>5. CASE Join
    <2>1. /\ UNCHANGED <<order, next>> /\ ended # <<>> /\ ended \in Seq(DOMAIN answer)
          /\ \/ Head(ended) \in opens /\ won' = Head(ended)
             \/ pc' = "turn"
      BY <1>5 DEF Join, AfterFailure, envVars, SInv, IInv, JoinedOnce
    <2>2. answer \in Seq(Families) /\ Head(ended) \in DOMAIN answer
      BY <2>1, AnswersAssumption DEF SInv, Ordered
    <2>3. Head(ended) # 0
      BY <2>2
    <2>4. pc' # "select"
      BY <1>5 DEF Join, AfterFailure
    <2> QED
      BY <1>2, <2>1, <2>3, <2>4 DEF Waits
  <1>6. CASE DelayOver
    BY <1>2, <1>6 DEF DelayOver, Waits, envVars
  <1>7. CASE Tick \/ \E a \in DOMAIN answer : End(a)
    <2>1. UNCHANGED <<order, next, failed, pc, won>>
      BY <1>7 DEF Tick, End, envVars
    <2> QED
      BY <2>1 DEF SInv, Waits, Started, Pending
  <1>8. CASE UNCHANGED vars
    BY <1>8 DEF vars, envVars, SInv, Waits, Started, Pending
  <1> QED
    BY <1>3, <1>4, <1>5, <1>6, <1>7, <1>8 DEF Next, Poll

LEMMA SearchInvariance == Spec => []SInv
  <1>1. Init => SInv
    <2> SUFFICES ASSUME Init PROVE SInv
      OBVIOUS
    <2>1. Ordered
      BY DEF Init, Ordered
    <2>2. Len(order) \in Nat
      BY <2>1, OrderedFair DEF Fair
    <2> QED
      BY <2>1, <2>2, InitIInv DEF Init, SInv, Outcomes, Waits, ToSet
  <1>2. SInv /\ [Next]_vars => SInv'
    BY StepOrdered, StepIInv, StepOutcomes, StepWaits DEF SInv
  <1> QED
    BY <1>1, <1>2, PTL DEF Spec

\* An error is returned only when every address has been tried and has failed,
\* whatever the order of refusals and timers (net.rs:146-151).
THEOREM ErrorOnlyWhenAllFailed == Spec => []ErrorMeansAllFailed
  <1>1. SInv => ErrorMeansAllFailed
    <2> SUFFICES ASSUME SInv, pc = "over", won = 0 PROVE failed = DOMAIN answer
      BY DEF ErrorMeansAllFailed
    <2>1. /\ order \in Seq(DOMAIN answer) /\ Len(order) \in Nat
          /\ ToSet(order) = DOMAIN answer
      BY OrderedFair DEF SInv, Fair
    <2>2. failed = Started /\ next \in Nat /\ next <= Len(order) /\ ~(next < Len(order))
      BY DEF SInv, Waits, Pending, IInv, Clocks
    <2>3. next = Len(order)
      BY <2>1, <2>2
    <2>4. DOMAIN order = 1..next
      BY <2>1, <2>3
    <2>5. Started = ToSet(order)
      BY <2>4 DEF Started, ToSet
    <2> QED
      BY <2>1, <2>2, <2>5
  <1> QED
    BY <1>1, SearchInvariance, PTL

\* As long as an address is left, time passes only with an attempt in flight: a
\* refusal is never waited out (net.rs:135).
THEOREM NeverWaitsInVain == Spec => NeverIdle
  <1>1. SInv /\ Tick => InFlight # {}
    <2> SUFFICES ASSUME SInv, Tick PROVE InFlight # {}
      OBVIOUS
    <2>1. failed \subseteq Started /\ Started # failed
      BY DEF SInv, Outcomes, Waits, Tick
    <2>2. ToSet(ended) = {}
      BY DEF Tick, ToSet
    <2> QED
      BY <2>1, <2>2 DEF InFlight
  <1>2. SInv /\ [Next]_vars => [Tick => InFlight # {}]_vars
    BY <1>1
  <1> QED
    BY <1>2, SearchInvariance, PTL DEF Spec, NeverIdle

---------------------------------------------------------------------------
(***************************************************************************)
(* dial and the cache                                                      *)
(***************************************************************************)

DialTyped ==
    /\ where \in Nat
    /\ entry \in [addr : Nat, fresh : BOOLEAN]
    /\ stage \in [Dials -> {"idle", "resolve", "lookup", "insert", "connect", "backoff"}]
    /\ addr \in [Dials -> Nat]
    /\ misled \in [Dials -> Nat]
    /\ leftovers \in Nat

\* Old answers on their way into the cache.
Late == {d \in Dials : stage[d] = "insert" /\ addr[d] # where}
StaleEntry == entry.fresh /\ entry.addr # where

\* May d be misled once more without another late answer?
Flag(d) == IF StaleEntry \/ Misled(d) THEN 1 ELSE 0

(***************************************************************************)
(* MisledAtMost is not inductive: it has to count what may still mislead a *)
(* dial. The entry and an attempt under way count once together, since a   *)
(* failed attempt drops the entry it may have come from.                   *)
(***************************************************************************)
Accounted == \A d \in Dials : misled[d] + Flag(d) + Cardinality(Late) <= leftovers

DialIInv == DialTyped /\ Accounted

---------------------------------------------------------------------------
LEMMA LateFinite == IsFiniteSet(Late) /\ Cardinality(Late) \in Nat
  <1>1. Late \in SUBSET Dials
    BY DEF Late
  <1> QED
    BY <1>1, FS_Subset, FS_CardinalityType, DialsAssumption

\* The same after a step.
LEMMA LateFiniteNext == IsFiniteSet(Late') /\ Cardinality(Late') \in Nat
  <1>1. Late' \in SUBSET Dials
    BY DEF Late
  <1> QED
    BY <1>1, FS_Subset, FS_CardinalityType, DialsAssumption

LEMMA FlagBit == \A d \in Dials : Flag(d) \in {0, 1}
  BY DEF Flag

\* A step after which no dial can be misled more often, and no more answers are
\* late, than before.
LEMMA NoNewDanger ==
    ASSUME DialIInv, DialTyped', UNCHANGED leftovers, Late' \subseteq Late,
           \A e \in Dials : misled'[e] + Flag(e)' <= misled[e] + Flag(e)
    PROVE  DialIInv'
  <1>1. Cardinality(Late') <= Cardinality(Late)
    <2>1. Late' \in SUBSET Late
      OBVIOUS
    <2> QED
      BY <2>1, FS_Subset, LateFinite
  <1>2. \A e \in Dials : misled'[e] \in Nat /\ misled[e] \in Nat /\ Flag(e) \in Nat /\ Flag(e)' \in Nat
    BY DEF DialIInv, DialTyped, Flag
  <1>3. Accounted'
    <2> SUFFICES ASSUME NEW e \in Dials
                 PROVE  misled'[e] + Flag(e)' + Cardinality(Late') <= leftovers'
      BY DEF Accounted
    <2>1. misled[e] + Flag(e) + Cardinality(Late) <= leftovers
      BY DEF DialIInv, Accounted
    <2> QED
      BY <1>1, <1>2, <2>1, LateFinite, LateFiniteNext DEF DialIInv, DialTyped
  <1> QED
    BY <1>3 DEF DialIInv

LEMMA InitDialIInv == DialInit => DialIInv
  <1> SUFFICES ASSUME DialInit PROVE DialIInv
    OBVIOUS
  <1>1. DialTyped
    BY DEF DialInit, DialTyped, NoEntry
  <1>2. Late = {}
    BY DEF DialInit, Late
  <1>3. \A d \in Dials : Flag(d) = 0
    BY DEF DialInit, Flag, StaleEntry, Misled, NoEntry
  <1> QED
    BY <1>1, <1>2, <1>3, FS_EmptySet DEF DialInit, DialIInv, Accounted

---------------------------------------------------------------------------
LEMMA CallStep == ASSUME DialIInv, NEW d \in Dials, Call(d) PROVE DialIInv'
  <1>1. DialTyped'
    BY DEF DialIInv, DialTyped, Call, Goto
  <1>2. Late' \subseteq Late
    BY DEF DialIInv, DialTyped, Late, Call, Goto
  <1>3. \A e \in Dials : misled'[e] + Flag(e)' <= misled[e] + Flag(e)
    BY DEF DialIInv, DialTyped, Flag, StaleEntry, Misled, Call, Goto
  <1> QED
    BY <1>1, <1>2, <1>3, NoNewDanger DEF Call

LEMMA HitStep == ASSUME DialIInv, NEW d \in Dials, Hit(d) PROVE DialIInv'
  <1>1. DialTyped'
    BY DEF DialIInv, DialTyped, Hit, Goto
  <1>2. Late' \subseteq Late
    BY DEF DialIInv, DialTyped, Late, Hit, Goto
  <1>3. \A e \in Dials : misled'[e] + Flag(e)' <= misled[e] + Flag(e)
    <2> SUFFICES ASSUME NEW e \in Dials PROVE Flag(e)' <= Flag(e)
      BY FlagBit DEF DialIInv, DialTyped, Flag, Hit
    <2>1. Misled(e)' => StaleEntry \/ Misled(e)
      BY DEF DialIInv, DialTyped, Hit, Goto, Misled, StaleEntry
    <2>2. StaleEntry' => StaleEntry
      BY DEF Hit, StaleEntry
    <2> QED
      BY <2>1, <2>2 DEF Flag
  <1> QED
    BY <1>1, <1>2, <1>3, NoNewDanger DEF Hit

\* Steps inside a dial that neither fill nor use nor drop the entry.
LEMMA QuietStep ==
    ASSUME DialIInv, NEW d \in Dials, Miss(d) \/ Answer(d) \/ Connected(d) \/ Backoff(d)
    PROVE  DialIInv'
  <1>1. DialTyped'
    BY DEF DialIInv, DialTyped, Miss, Answer, Connected, Backoff, Goto, Return
  <1>2. Late' \subseteq Late
    BY DEF DialIInv, DialTyped, Late, Miss, Answer, Connected, Backoff, Goto, Return
  <1>3. \A e \in Dials : misled'[e] + Flag(e)' <= misled[e] + Flag(e)
    <2> SUFFICES ASSUME NEW e \in Dials PROVE Flag(e)' <= Flag(e)
      BY FlagBit DEF DialIInv, DialTyped, Flag, Miss, Answer, Connected, Backoff
    <2>1. Misled(e)' => Misled(e)
      BY DEF DialIInv, DialTyped, Misled, Miss, Answer, Connected, Backoff, Goto, Return
    <2>2. StaleEntry' => StaleEntry
      BY DEF StaleEntry, Miss, Answer, Connected, Backoff
    <2> QED
      BY <2>1, <2>2 DEF Flag
  <1> QED
    BY <1>1, <1>2, <1>3, NoNewDanger DEF Miss, Answer, Connected, Backoff

\* A late answer that goes in is late no more, and an answer that is not late
\* misleads nobody.
LEMMA InsertStep == ASSUME DialIInv, NEW d \in Dials, Insert(d) PROVE DialIInv'
  <1>1. DialTyped'
    BY DEF DialIInv, DialTyped, Insert, Goto, Entry
  <1>2. Late' = Late \ {d}
    BY DEF DialIInv, DialTyped, Late, Insert, Goto
  <1>3. CASE d \notin Late
    <2>1. addr[d] = where
      BY <1>3 DEF Late, Insert
    <2>2. \A e \in Dials : Flag(e)' <= Flag(e)
      <3> SUFFICES ASSUME NEW e \in Dials PROVE Flag(e)' <= Flag(e)
        OBVIOUS
      <3>1. ~StaleEntry'
        BY <2>1 DEF StaleEntry, Insert, Entry
      <3>2. Misled(e)' => Misled(e)
        BY <2>1 DEF DialIInv, DialTyped, Misled, Insert, Goto
      <3> QED
        BY <3>1, <3>2 DEF Flag
    <2>3. \A e \in Dials : misled'[e] + Flag(e)' <= misled[e] + Flag(e)
      BY <2>2 DEF DialIInv, DialTyped, Flag, Insert
    <2> QED
      BY <1>1, <1>2, <2>3, NoNewDanger DEF Insert
  <1>4. CASE d \in Late
    <2>1. Cardinality(Late') = Cardinality(Late) - 1
      BY <1>2, <1>4, LateFinite, FS_RemoveElement
    <2>2. Accounted'
      <3> SUFFICES ASSUME NEW e \in Dials
                   PROVE  misled'[e] + Flag(e)' + Cardinality(Late') <= leftovers'
        BY DEF Accounted
      <3>1. misled[e] + Flag(e) + Cardinality(Late) <= leftovers
        BY DEF DialIInv, Accounted
      <3>2. misled'[e] = misled[e] /\ misled[e] \in Nat /\ leftovers' = leftovers /\ leftovers \in Nat
        BY DEF Insert, DialIInv, DialTyped
      <3>3. Flag(e) \in {0, 1} /\ Flag(e)' \in {0, 1}
        BY DEF Flag
      <3> QED
        BY <2>1, <3>1, <3>2, <3>3, LateFinite
    <2> QED
      BY <1>1, <2>2 DEF DialIInv
  <1> QED
    BY <1>3, <1>4

\* A failure: what has misled the dial is counted, and the entry is dropped.
LEMMA FailStep ==
    ASSUME DialIInv, NEW d \in Dials, AttemptFails(d) \/ AttemptTimesOut(d)
    PROVE  DialIInv'
  <1>1. stage[d] \in {"lookup", "connect"} /\ entry' = NoEntry /\ AfterAttempt(d)
    BY DEF AttemptFails, AttemptTimesOut, Timed, InvalidateOnError, InvalidateOnTimeout
  <1>2. DialTyped'
    BY <1>1 DEF DialIInv, DialTyped, AfterAttempt, Return, Goto, NoEntry
  <1>3. Late' \subseteq Late
    BY <1>1 DEF DialIInv, DialTyped, Late, AfterAttempt, Return, Goto
  <1>4. ~StaleEntry'
    BY <1>1 DEF StaleEntry, NoEntry
  <1>5. \A e \in Dials : misled'[e] + Flag(e)' <= misled[e] + Flag(e)
    <2> SUFFICES ASSUME NEW e \in Dials PROVE misled'[e] + Flag(e)' <= misled[e] + Flag(e)
      OBVIOUS
    <2>1. CASE e = d
      <3>1. ~Misled(d)'
        BY <1>1 DEF DialIInv, DialTyped, Misled, AfterAttempt, Return, Goto
      <3>2. Flag(d)' = 0
        BY <1>4, <3>1 DEF Flag
      <3>3. misled'[d] <= misled[d] + Flag(d)
        BY <1>1 DEF DialIInv, DialTyped, AfterAttempt, Flag
      <3> QED
        BY <1>2, <2>1, <3>2, <3>3 DEF DialTyped
    <2>2. CASE e # d
      <3>1. misled'[e] = misled[e]
        BY <1>1, <2>2 DEF DialIInv, DialTyped, AfterAttempt
      <3>2. Misled(e)' => Misled(e)
        BY <1>1, <2>2 DEF DialIInv, DialTyped, Misled, AfterAttempt, Return, Goto
      <3>3. Flag(e)' <= Flag(e)
        BY <1>4, <3>2 DEF Flag
      <3> QED
        BY <3>1, <3>3 DEF DialIInv, DialTyped, Flag
    <2> QED
      BY <2>1, <2>2
  <1> QED
    BY <1>1, <1>2, <1>3, <1>5, NoNewDanger DEF AfterAttempt

LEMMA ExpireStep == ASSUME DialIInv, Expire PROVE DialIInv'
  <1>1. DialTyped'
    BY DEF DialIInv, DialTyped, Expire, dialVars
  <1>2. Late' \subseteq Late
    BY DEF Late, Expire, dialVars
  <1>3. \A e \in Dials : misled'[e] + Flag(e)' <= misled[e] + Flag(e)
    <2> SUFFICES ASSUME NEW e \in Dials PROVE Flag(e)' <= Flag(e)
      BY DEF DialIInv, DialTyped, Flag, Expire
    <2>1. ~StaleEntry'
      BY DEF DialIInv, DialTyped, StaleEntry, Expire
    <2>2. Misled(e)' => Misled(e)
      BY DEF Misled, Expire, dialVars
    <2> QED
      BY <2>1, <2>2 DEF Flag
  <1> QED
    BY <1>1, <1>2, <1>3, NoNewDanger DEF Expire

\* The server moves: everything that may mislead from now on is in leftovers'.
LEMMA MoveStep == ASSUME DialIInv, Move PROVE DialIInv'
  <1> DEFINE InHand == {d \in Dials : stage[d] = "insert"}
  <1>1. IsFiniteSet(InHand) /\ Cardinality(InHand) \in Nat
    <2>1. InHand \in SUBSET Dials
      OBVIOUS
    <2> QED
      BY <2>1, FS_Subset, FS_CardinalityType, DialsAssumption
  <1>2. DialTyped'
    BY <1>1 DEF DialIInv, DialTyped, Move, dialVars
  <1>3. Cardinality(Late') <= Cardinality(InHand)
    <2>1. Late' \in SUBSET InHand
      BY DEF Late, Move, dialVars
    <2> QED
      BY <1>1, <2>1, FS_Subset
  <1>4. Accounted'
    <2> SUFFICES ASSUME NEW e \in Dials
                 PROVE  misled'[e] + Flag(e)' + Cardinality(Late') <= leftovers'
      BY DEF Accounted
    <2>1. misled[e] <= leftovers
      <3>1. misled[e] + Flag(e) + Cardinality(Late) <= leftovers
        BY DEF DialIInv, Accounted
      <3> QED
        BY <3>1, LateFinite, FlagBit DEF DialIInv, DialTyped
    <2>2. leftovers' = leftovers + 1 + Cardinality(InHand) /\ misled' = misled
      BY DEF Move
    <2>3. Flag(e)' \in {0, 1}
      BY DEF Flag
    <2> QED
      BY <1>1, <1>3, <2>1, <2>2, <2>3, LateFiniteNext DEF DialIInv, DialTyped
  <1> QED
    BY <1>2, <1>4 DEF DialIInv

LEMMA StepDialIInv == DialIInv /\ [DialNext]_netVars => DialIInv'
  <1> SUFFICES ASSUME DialIInv, [DialNext]_netVars PROVE DialIInv'
    OBVIOUS
  <1>1. ASSUME NEW d \in Dials, Call(d) PROVE DialIInv'
    BY <1>1, CallStep
  <1>2. ASSUME NEW d \in Dials, Running(d) PROVE DialIInv'
    BY <1>2, HitStep, QuietStep, InsertStep, FailStep DEF Running
  <1>3. ASSUME NEW d \in Dials, Answer(d) \/ Connected(d) PROVE DialIInv'
    BY <1>3, QuietStep
  <1>4. ASSUME NEW d \in Dials, AttemptFails(d) PROVE DialIInv'
    BY <1>4, FailStep
  <1>5. CASE Expire
    BY <1>5, ExpireStep
  <1>6. CASE Move
    BY <1>6, MoveStep
  <1>7. CASE UNCHANGED netVars
    BY <1>7 DEF netVars, dialVars, DialIInv, DialTyped, Accounted, Late, Flag, StaleEntry, Misled
  <1> QED
    BY <1>1, <1>2, <1>3, <1>4, <1>5, <1>6, <1>7 DEF DialNext

LEMMA AccountedMeansMisledAtMost == DialIInv => MisledAtMost
  <1> SUFFICES ASSUME DialIInv, NEW d \in Dials PROVE misled[d] <= leftovers
    BY DEF MisledAtMost
  <1>1. misled[d] + Flag(d) + Cardinality(Late) <= leftovers
    BY DEF DialIInv, Accounted
  <1> QED
    BY <1>1, LateFinite, FlagBit DEF DialIInv, DialTyped

(***************************************************************************)
(* Any number of concurrent dials mislead each other no more than once for *)
(* the entry and once for each answer that was in hand when the server     *)
(* moved (net.rs:55-64, 101-111).                                           *)
(***************************************************************************)
THEOREM DialMisledAtMost == DialSpec => []MisledAtMost
  <1>1. DialInit => DialIInv
    BY InitDialIInv
  <1>2. DialIInv /\ [DialNext]_netVars => DialIInv'
    BY StepDialIInv
  <1>3. DialIInv => MisledAtMost
    BY AccountedMeansMisledAtMost
  <1> QED
    BY <1>1, <1>2, <1>3, PTL DEF DialSpec

---------------------------------------------------------------------------
\* A dial waits for another attempt only while it has one left.
Attempts == \A d \in Dials : stage[d] = "backoff" => attempt[d] < Retries

LEMMA StepDialTypes == DialTypeOK /\ Attempts /\ [DialNext]_netVars => DialTypeOK' /\ Attempts'
  <1> SUFFICES ASSUME DialTypeOK, Attempts, [DialNext]_netVars PROVE DialTypeOK' /\ Attempts'
    OBVIOUS
  <1> USE BoundsAssumption DEF DialTypeOK, Attempts, Goto, Addresses
  <1>1. ASSUME NEW d \in Dials, Call(d) \/ Hit(d) \/ Miss(d) \/ Answer(d) \/ Insert(d)
        PROVE  DialTypeOK' /\ Attempts'
    <2>1. CASE Call(d) \/ Miss(d)
      BY <2>1 DEF Call, Miss
    <2>2. CASE Hit(d) \/ Answer(d)
      BY <2>2 DEF Hit, Answer
    <2>3. CASE Insert(d)
      BY <2>3 DEF Insert, Entry
    <2> QED
      BY <1>1, <2>1, <2>2, <2>3
  <1>2. ASSUME NEW d \in Dials, Connected(d) \/ Backoff(d) PROVE DialTypeOK' /\ Attempts'
    BY <1>2 DEF Connected, Return, Backoff
  <1>3. ASSUME NEW d \in Dials, AttemptFails(d) \/ AttemptTimesOut(d)
        PROVE  DialTypeOK' /\ Attempts'
    <2>1. entry' = NoEntry /\ AfterAttempt(d)
      BY <1>3 DEF AttemptFails, AttemptTimesOut, InvalidateOnError, InvalidateOnTimeout
    <2> QED
      BY <2>1 DEF AfterAttempt, AnotherTry, Return, NoEntry
  <1>4. CASE Expire
    BY <1>4 DEF Expire, dialVars
  <1>5. CASE Move
    <2>1. Cardinality({d \in Dials : stage[d] = "insert"}) \in Nat
      <3>1. {d \in Dials : stage[d] = "insert"} \in SUBSET Dials
        OBVIOUS
      <3> QED
        BY <3>1, FS_Subset, FS_CardinalityType, DialsAssumption
    <2> QED
      BY <1>5, <2>1 DEF Move, dialVars
  <1>6. CASE UNCHANGED netVars
    BY <1>6 DEF netVars, dialVars
  <1> QED
    BY <1>1, <1>2, <1>3, <1>4, <1>5, <1>6 DEF DialNext, Running

\* A call makes no more than the attempts it is allowed, and every address is one
\* the server has had (net.rs:43, 65).
THEOREM DialTypes == DialSpec => []DialTypeOK
  <1>1. DialInit => DialTypeOK /\ Attempts
    BY BoundsAssumption DEF DialInit, DialTypeOK, Attempts, NoEntry, Addresses
  <1> QED
    BY <1>1, StepDialTypes, PTL DEF DialSpec
=============================================================================
