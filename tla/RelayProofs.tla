---------------------------- MODULE RelayProofs ----------------------------
(***************************************************************************)
(* The watchdog is exact for every pair of limits: a relay ends no later   *)
(* and no earlier than its limit says (relay.rs `Activity`, `watchdog`).   *)
(***************************************************************************)
EXTENDS Relay, SequenceTheorems, TLAPS

Clocks ==
    /\ timeouts \in [idle : Nat, half : Nat]
    /\ age \in Nat /\ wake \in Nat /\ quiet \in Nat
    /\ halfClosed \in BOOLEAN /\ notified \in BOOLEAN

(***************************************************************************)
(* EndsInTime alone is not inductive: the next tick may break it. What     *)
(* keeps it is that a sleeping watchdog wakes by the deadline, unless a    *)
(* permit will wake it at once.                                            *)
(***************************************************************************)
SleepsNotTooLong == over = "no" /\ ~notified => wake + age <= Limit

\* last_ms is touched with every read and with every end of file.
Counts == quiet = age /\ (over = "idle" => age >= Limit)

IInv == Clocks /\ EndsInTime /\ SleepsNotTooLong /\ Counts

---------------------------------------------------------------------------
LEMMA LimitNat == Clocks => Limit \in Nat
  BY DEF Clocks, Limit

\* A step that leaves every clock alone, and does not end the relay as idle.
LEMMA Timeless ==
    ASSUME IInv, UNCHANGED timeouts, UNCHANGED clockVars, over = "no" \/ UNCHANGED over,
           over' # "idle" \/ UNCHANGED over
    PROVE  IInv'
  BY DEF IInv, Clocks, EndsInTime, SleepsNotTooLong, Counts, Limit, clockVars

\* A step that may touch, but lets no time pass (`still` is of no concern).
LEMMA Touching ==
    ASSUME IInv, UNCHANGED <<timeouts, halfClosed, notified, wake, over>>,
           \/ age' = 0 /\ quiet' = 0
           \/ UNCHANGED <<age, quiet>>,
           over = "no"
    PROVE  IInv'
  <1>1. Limit \in Nat /\ Limit' = Limit
    BY LimitNat DEF IInv, Limit
  <1>2. Clocks'
    BY DEF IInv, Clocks
  <1>3. EndsInTime' /\ SleepsNotTooLong'
    BY <1>1 DEF IInv, Clocks, EndsInTime, SleepsNotTooLong
  <1>4. Counts'
    BY <1>1 DEF IInv, Counts
  <1> QED
    BY <1>2, <1>3, <1>4 DEF IInv

LEMMA InitIInv == Init => IInv
  <1> SUFFICES ASSUME Init PROVE IInv
    OBVIOUS
  <1>1. Clocks
    BY TimeoutsAssumption DEF Init, Clocks
  <1>2. Limit \in Nat
    BY <1>1, LimitNat
  <1> QED
    BY <1>1, <1>2 DEF Init, IInv, EndsInTime, SleepsNotTooLong, Counts

LEMMA StepKeeps ==
    ASSUME IInv, [Next]_vars
    PROVE  IInv'
  <1>0. Limit \in Nat
    BY LimitNat DEF IInv
  <1>1. ASSUME NEW d \in Dirs, Pump(d) PROVE IInv'
    <2>1. CASE ReadData(d) \/ ReadOn(d)
      BY <2>1, Touching DEF ReadData, ReadOn, Running, Touch
    <2>2. CASE ReadEof(d)
      <3>1. /\ halfClosed' = TRUE /\ age' = 0 /\ notified' = TRUE /\ quiet' = 0
            /\ UNCHANGED <<timeouts, wake, over>> /\ over = "no"
        BY <2>2 DEF ReadEof, HalfClose, Touch, Running
      <3>2. Clocks'
        BY <3>1 DEF IInv, Clocks
      <3>3. Limit' \in Nat
        BY <3>1 DEF IInv, Clocks, Limit
      <3> QED
        BY <3>1, <3>2, <3>3 DEF IInv, EndsInTime, SleepsNotTooLong, Counts
    <2>3. CASE Write(d)
      BY <2>3, Touching DEF Write, Running
    <2>4. CASE Flush(d)
      BY <2>4, Touching DEF Flush, WriterPolled, Running
    <2>5. CASE Shutdown(d)
      <3>1. UNCHANGED timeouts /\ UNCHANGED clockVars
        BY <2>5 DEF Shutdown
      <3>2. over = "no" /\ over' \in {"no", "done"}
        BY <2>5 DEF Shutdown, Running
      <3> QED
        BY <3>1, <3>2, Timeless
    <2>6. CASE Fail(d)
      BY <2>6, Timeless DEF Fail
    <2> QED
      BY <1>1, <2>1, <2>2, <2>3, <2>4, <2>5, <2>6 DEF Pump
  <1>2. CASE Watchdog
    <2>1. UNCHANGED <<timeouts, age, halfClosed, quiet>> /\ over = "no"
      BY <1>2 DEF Watchdog
    <2>2. notified' \in BOOLEAN /\ Limit' = Limit
      <3>1. notified \in BOOLEAN
        BY DEF IInv, Clocks
      <3>2. UNCHANGED notified \/ notified' = FALSE
        BY <1>2 DEF Watchdog
      <3>3. notified' \in BOOLEAN
        BY <3>1, <3>2, Zenon
      <3> QED
        BY <2>1, <3>3 DEF Limit
    <2>3. CASE age >= Limit /\ over' = "idle" /\ UNCHANGED wake
      BY <1>0, <2>1, <2>2, <2>3
      DEF IInv, Clocks, EndsInTime, SleepsNotTooLong, Counts
    <2>4. CASE ~(age >= Limit) /\ wake' = Limit - age /\ UNCHANGED over
      <3>1. wake' \in Nat /\ wake' + age = Limit
        BY <1>0, <2>4 DEF IInv, Clocks
      <3> QED
        BY <1>0, <2>1, <2>2, <2>4, <3>1
        DEF IInv, Clocks, EndsInTime, SleepsNotTooLong, Counts
    <2>5. (Expired <=> age >= Limit) /\ Left = Limit - age
      BY <1>0 DEF Expired, Left, IInv, Clocks
    <2> QED
      BY <1>2, <2>3, <2>4, <2>5 DEF Watchdog
  <1>3. CASE Tick
    <2>1. /\ over = "no" /\ wake > 0 /\ ~notified
          /\ age' = age + 1 /\ wake' = wake - 1 /\ quiet' = Later(quiet)
          /\ UNCHANGED <<timeouts, halfClosed, notified, over>>
      BY <1>3 DEF Tick
    <2>2. Limit' = Limit
      BY <2>1 DEF Limit
    <2>3. wake + age <= Limit /\ quiet = age
      BY <2>1 DEF IInv, SleepsNotTooLong, Counts
    <2>4. quiet' = quiet + 1
      <3>1. Longest \in Nat /\ Limit <= Longest
        BY DEF IInv, Clocks, Limit, Longest
      <3>2. quiet < Longest
        BY <1>0, <2>1, <2>3, <3>1 DEF IInv, Clocks
      <3> QED
        BY <2>1, <3>2 DEF Later
    <2>5. Clocks'
      BY <2>1, <2>4 DEF IInv, Clocks
    <2>6. EndsInTime' /\ SleepsNotTooLong' /\ Counts'
      BY <1>0, <2>1, <2>2, <2>3, <2>4 DEF IInv, Clocks, EndsInTime, SleepsNotTooLong, Counts
    <2> QED
      BY <2>5, <2>6 DEF IInv
  <1>4. CASE UNCHANGED vars
    BY <1>4, Timeless DEF vars
  <1> QED
    BY <1>1, <1>2, <1>3, <1>4 DEF Next

\* The clocks of the relay fit together in every reachable state
\* (relay.rs:25-57, 83-96).
THEOREM Invariance == Spec => []IInv
  <1>1. IInv /\ [Next]_vars => IInv'
    BY StepKeeps
  <1> QED
    BY <1>1, InitIInv, PTL DEF Spec

\* Whatever the limits, whichever of them is the longer: a relay is ended as soon
\* as its limit is reached (relay.rs:43-47, 83-96).
THEOREM RelayEndsInTime == Spec => []EndsInTime
  <1>1. IInv => EndsInTime
    BY DEF IInv
  <1> QED
    BY <1>1, Invariance, PTL

\* ... and never before nothing has been read for as long as it (relay.rs:43-56).
THEOREM RelayNeverTooSoon == Spec => []NeverTooSoon
  <1>1. IInv => NeverTooSoon
    BY LimitNat DEF IInv, Clocks, Counts, NeverTooSoon
  <1> QED
    BY <1>1, Invariance, PTL

---------------------------------------------------------------------------
(***************************************************************************)
(* The data. What has been read of a direction is out, with the writer or   *)
(* in the pump's hands, in this order, and a pump that does not write or    *)
(* flush has handed over all of it.                                         *)
(***************************************************************************)
Carried(d) ==
    /\ out[d] \o (held[d] \o hand[d]) = Items(0, taken[d])
    /\ pc[d] # "write" => hand[d] = <<>>
    /\ pc[d] \notin {"write", "flush"} => held[d] = <<>>

Pumps ==
    /\ pc \in [Dirs -> {"read", "write", "flush", "shutdown", "done"}]
    /\ taken \in [Dirs -> 0..MaxItems]
    /\ out \in [Dirs -> Seq(Nat)] /\ held \in [Dirs -> Seq(Nat)] /\ hand \in [Dirs -> Seq(Nat)]
    /\ \A d \in Dirs : Carried(d)

LEMMA ItemsType ==
    ASSUME NEW m \in Nat, NEW n \in Nat, m <= n
    PROVE  Items(m, n) \in Seq(Nat) /\ Len(Items(m, n)) = n - m
  BY DEF Items

LEMMA ItemsConcat ==
    ASSUME NEW m \in Nat, NEW n \in Nat
    PROVE  Items(0, m) \o Items(m, m + n) = Items(0, m + n)
  BY DEF Items

LEMMA ConcatType == \A a, b \in Seq(Nat) : a \o b \in Seq(Nat)
  OBVIOUS
LEMMA ConcatLen == \A a, b \in Seq(Nat) : Len(a \o b) = Len(a) + Len(b)
  OBVIOUS
LEMMA ConcatAssoc == \A a, b, c \in Seq(Nat) : (a \o b) \o c = a \o (b \o c)
  OBVIOUS
LEMMA ConcatEmpty == \A a \in Seq(Nat) : a \o <<>> = a /\ <<>> \o a = a
  OBVIOUS

\* A sequence cut in two.
LEMMA CutInTwo ==
    ASSUME NEW s \in Seq(Nat), NEW k \in 0..Len(s)
    PROVE  /\ SubSeq(s, 1, k) \in Seq(Nat) /\ SubSeq(s, k + 1, Len(s)) \in Seq(Nat)
           /\ SubSeq(s, 1, k) \o SubSeq(s, k + 1, Len(s)) = s
  <1>1. SubSeq(s, 1, k) \o SubSeq(s, k + 1, Len(s)) = SubSeq(s, 1, Len(s))
    <2>1. 1 \in 1..Len(s) + 1 /\ k \in 1 - 1..Len(s) /\ Len(s) \in k..Len(s)
      OBVIOUS
    <2> QED
      BY <2>1, ConcatAdjacentSubSeq, Zenon
  <1>2. SubSeq(s, 1, k) \in Seq(Nat) /\ SubSeq(s, k + 1, Len(s)) \in Seq(Nat)
    OBVIOUS
  <1> QED
    BY <1>1, <1>2, SubSeqFull

LEMMA PrefixOfConcat == \A a, b \in Seq(Nat) : IsPrefix(a, a \o b)
  BY DEF IsPrefix

\* The writer neither loses nor reorders what it passes on.
LEMMA ForwardKeeps ==
    ASSUME Pumps, NEW d \in Dirs, NEW cells \in Seq(Nat), Forward(d, cells)
    PROVE  /\ out' = [out EXCEPT ![d] = out'[d]] /\ held' = [held EXCEPT ![d] = held'[d]]
           /\ out'[d] \in Seq(Nat) /\ held'[d] \in Seq(Nat)
           /\ out'[d] \o held'[d] = out[d] \o cells
           /\ IsPrefix(out[d], out'[d])
           /\ cells = <<>> => out' = out /\ held'[d] = <<>>
  <1>1. PICK k \in 0..Len(cells) :
            /\ out' = [out EXCEPT ![d] = @ \o SubSeq(cells, 1, k)]
            /\ held' = [held EXCEPT ![d] = SubSeq(cells, k + 1, Len(cells))]
    BY DEF Forward
  <1>2. /\ out[d] \in Seq(Nat) /\ out'[d] = out[d] \o SubSeq(cells, 1, k)
        /\ held'[d] = SubSeq(cells, k + 1, Len(cells))
    BY <1>1 DEF Pumps, Carried
  <1>3. /\ SubSeq(cells, 1, k) \in Seq(Nat) /\ held'[d] \in Seq(Nat)
        /\ SubSeq(cells, 1, k) \o held'[d] = cells
    BY <1>2, CutInTwo
  <1>4. out'[d] \in Seq(Nat) /\ out'[d] \o held'[d] = out[d] \o cells
    <2>1. out'[d] \in Seq(Nat)
      BY <1>2, <1>3, ConcatType, Zenon
    <2>2. (out[d] \o SubSeq(cells, 1, k)) \o held'[d] = out[d] \o (SubSeq(cells, 1, k) \o held'[d])
      BY <1>2, <1>3, ConcatAssoc, Zenon
    <2> QED
      BY <1>2, <1>3, <2>1, <2>2, Zenon
  <1>5. IsPrefix(out[d], out'[d])
    BY <1>2, <1>3, PrefixOfConcat
  <1>6. ASSUME cells = <<>> PROVE out' = out /\ held'[d] = <<>>
    <2>1. k = 0 /\ SubSeq(cells, 1, k) = <<>> /\ SubSeq(cells, k + 1, Len(cells)) = <<>>
      BY <1>6
    <2>2. out[d] \o <<>> = out[d]
      BY <1>2, ConcatEmpty
    <2>3. out' = [out EXCEPT ![d] = out[d]] /\ held'[d] = <<>>
      BY <1>1, <1>2, <2>1, <2>2, Zenon
    <2>4. out = [out EXCEPT ![d] = out[d]]
      BY DEF Pumps, Carried
    <2> QED
      BY <2>3, <2>4
  <1> QED
    BY <1>1, <1>2, <1>3, <1>4, <1>5, <1>6 DEF Pumps

\* A pump that does not write or flush has handed over all it has read, and the
\* writer has passed it on.
LEMMA AllOut ==
    ASSUME Pumps, NEW d \in Dirs, pc[d] \notin {"write", "flush"}
    PROVE  /\ hand[d] = <<>> /\ held[d] = <<>>
           /\ out[d] \in Seq(Nat) /\ out[d] = Items(0, taken[d])
  <1>1. /\ hand[d] = <<>> /\ held[d] = <<>> /\ out[d] \in Seq(Nat)
        /\ out[d] \o (held[d] \o hand[d]) = Items(0, taken[d])
    BY DEF Pumps, Carried
  <1>2. <<>> \in Seq(Nat)
    OBVIOUS
  <1>3. out[d] \o (<<>> \o <<>>) = out[d]
    BY <1>1, <1>2, ConcatEmpty, Zenon
  <1> QED
    BY <1>1, <1>3, Zenon

LEMMA ReadDataCarried ==
    ASSUME Pumps, NEW d \in Dirs, ReadData(d)
    PROVE  /\ Pumps'
           /\ UNCHANGED out /\ taken' = [taken EXCEPT ![d] = taken'[d]]
           /\ pc' = [pc EXCEPT ![d] = "write"] /\ pc[d] = "read"
           /\ taken'[d] > taken[d]
           /\ IsPrefix(Items(0, taken[d]), Items(0, taken'[d]))
  <1>1. PICK n \in 1..ChunkMax :
            /\ taken[d] + n <= MaxItems
            /\ hand' = [hand EXCEPT ![d] = Items(taken[d], taken[d] + n)]
            /\ taken' = [taken EXCEPT ![d] = @ + n]
    BY DEF ReadData
  <1>2. /\ pc[d] = "read" /\ pc' = [pc EXCEPT ![d] = "write"] /\ UNCHANGED <<held, out>>
        /\ n \in Nat /\ n > 0
    BY ItemsAssumption DEF ReadData, Running
  <1>3. taken[d] \in Nat /\ taken'[d] = taken[d] + n /\ taken'[d] \in 0..MaxItems
    BY <1>1, <1>2, ItemsAssumption DEF Pumps, Carried
  <1>4. hand[d] = <<>> /\ held[d] = <<>> /\ out[d] \in Seq(Nat) /\ out[d] = Items(0, taken[d])
    BY <1>2, AllOut
  <1>5. /\ hand'[d] = Items(taken[d], taken[d] + n) /\ hand'[d] \in Seq(Nat)
        /\ out'[d] = out[d] /\ held'[d] = <<>> /\ pc'[d] = "write"
    BY <1>1, <1>2, <1>3, <1>4, ItemsType DEF Pumps
  <1>6. out'[d] \o (held'[d] \o hand'[d]) = Items(0, taken'[d])
    <2>1. held'[d] \o hand'[d] = hand'[d]
      BY <1>5, ConcatEmpty, Zenon
    <2>2. Items(0, taken[d]) \o Items(taken[d], taken[d] + n) = Items(0, taken[d] + n)
      BY <1>2, <1>3, ItemsConcat
    <2> QED
      BY <1>3, <1>4, <1>5, <2>1, <2>2, Zenon
  <1>7. Carried(d)'
    <2>1. <<>> \in Seq(Nat) /\ "write" \in {"write", "flush"}
      OBVIOUS
    <2> QED
      BY <1>3, <1>4, <1>5, <1>6, <2>1, Zenon DEF Carried
  <1>8. \A e \in Dirs : e # d => Carried(e)'
    BY <1>1, <1>2 DEF Pumps, Carried
  <1>9. Pumps'
    <2>1. \A e \in Dirs : Carried(e)'
      BY <1>7, <1>8
    <2>2. hand' \in [Dirs -> Seq(Nat)] /\ taken' \in [Dirs -> 0..MaxItems]
      <3>1. /\ hand' = [hand EXCEPT ![d] = hand'[d]]
            /\ taken' = [taken EXCEPT ![d] = taken'[d]]
        BY <1>1, <1>3, <1>5
      <3> QED
        BY <1>3, <1>5, <3>1 DEF Pumps
    <2> QED
      BY <1>2, <2>1, <2>2 DEF Pumps
  <1>10. IsPrefix(Items(0, taken[d]), Items(0, taken'[d]))
    <2>1. Items(0, taken[d]) \o Items(taken[d], taken[d] + n) = Items(0, taken'[d])
      BY <1>2, <1>3, ItemsConcat
    <2>2. Items(0, taken[d]) \in Seq(Nat) /\ Items(taken[d], taken[d] + n) \in Seq(Nat)
      BY <1>4, <1>5, Zenon
    <2> QED
      BY <2>1, <2>2, PrefixOfConcat, Zenon
  <1> QED
    BY <1>1, <1>2, <1>3, <1>9, <1>10 DEF Pumps

\* A read that brings end of file, or data that are not followed.
LEMMA OtherReadCarried ==
    ASSUME Pumps, NEW d \in Dirs, ReadEof(d) \/ ReadOn(d)
    PROVE  /\ Pumps' /\ UNCHANGED <<taken, out>> /\ pc[d] = "read"
           /\ \E at \in {"shutdown", "flush"} : pc' = [pc EXCEPT ![d] = at]
  <1>1. /\ pc[d] = "read" /\ \E at \in {"shutdown", "flush"} : pc' = [pc EXCEPT ![d] = at]
        /\ UNCHANGED <<taken, hand, held, out>>
    BY DEF ReadEof, ReadOn, Running
  <1> QED
    BY <1>1 DEF Pumps, Carried

\* Write, flush and shutdown: more may come out, nothing else changes for the peer.
Passes(d) ==
    /\ UNCHANGED taken
    /\ out' = [out EXCEPT ![d] = out'[d]]
    /\ IsPrefix(out[d], out'[d]) /\ IsPrefix(out'[d], Items(0, taken[d]))
    /\ pc[d] # "done"
    /\ pc' = [pc EXCEPT ![d] = pc'[d]]
    /\ pc'[d] = "done" => out' = out /\ out[d] = Items(0, taken[d])

LEMMA WriteCarried ==
    ASSUME Pumps, NEW d \in Dirs, Write(d)
    PROVE  Pumps' /\ Passes(d)
  <1>1. PICK k \in 1..Len(hand[d]) :
            /\ hand' = [hand EXCEPT ![d] = SubSeq(hand[d], k + 1, Len(hand[d]))]
            /\ Forward(d, held[d] \o SubSeq(hand[d], 1, k))
    BY DEF Write, Unwritten
  <1> DEFINE cells == held[d] \o SubSeq(hand[d], 1, k)
  <1>2. /\ pc[d] = "write" /\ UNCHANGED taken
        /\ pc' = [pc EXCEPT ![d] = IF hand'[d] = <<>> THEN "flush" ELSE "write"]
    BY DEF Write, Running, WroteAll, AfterChunk
  <1>3. /\ out[d] \in Seq(Nat) /\ held[d] \in Seq(Nat) /\ hand[d] \in Seq(Nat)
        /\ out[d] \o (held[d] \o hand[d]) = Items(0, taken[d])
    BY DEF Pumps, Carried
  <1>4. /\ hand'[d] = SubSeq(hand[d], k + 1, Len(hand[d]))
        /\ SubSeq(hand[d], 1, k) \in Seq(Nat) /\ hand'[d] \in Seq(Nat)
        /\ SubSeq(hand[d], 1, k) \o hand'[d] = hand[d]
    <2>1. hand'[d] = SubSeq(hand[d], k + 1, Len(hand[d]))
      BY <1>1 DEF Pumps
    <2>2. k \in 0..Len(hand[d])
      BY <1>3
    <2> QED
      BY <1>3, <2>1, <2>2, CutInTwo, Zenon
  <1>5. cells \in Seq(Nat) /\ cells \o hand'[d] = held[d] \o hand[d]
    <2>1. cells \in Seq(Nat)
      BY <1>3, <1>4, ConcatType, Zenon
    <2>2. cells \o hand'[d] = held[d] \o (SubSeq(hand[d], 1, k) \o hand'[d])
      BY <1>3, <1>4, ConcatAssoc, Zenon
    <2> QED
      BY <1>4, <2>1, <2>2, Zenon
  <1> HIDE DEF cells
  <1>6. Forward(d, cells)
    BY <1>1 DEF cells
  <1>7. /\ out' = [out EXCEPT ![d] = out'[d]] /\ held' = [held EXCEPT ![d] = held'[d]]
        /\ out'[d] \in Seq(Nat) /\ held'[d] \in Seq(Nat)
        /\ out'[d] \o held'[d] = out[d] \o cells
        /\ IsPrefix(out[d], out'[d])
    BY <1>5, <1>6, ForwardKeeps
  <1>8. out'[d] \o (held'[d] \o hand'[d]) = Items(0, taken[d])
    <2>1. out'[d] \o (held'[d] \o hand'[d]) = (out'[d] \o held'[d]) \o hand'[d]
      BY <1>4, <1>7, ConcatAssoc, Zenon
    <2>2. (out[d] \o cells) \o hand'[d] = out[d] \o (cells \o hand'[d])
      BY <1>3, <1>4, <1>5, ConcatAssoc, Zenon
    <2> QED
      BY <1>3, <1>5, <1>7, <2>1, <2>2, Zenon
  <1>9. IsPrefix(out'[d], Items(0, taken[d]))
    <2>1. held'[d] \o hand'[d] \in Seq(Nat)
      BY <1>4, <1>7, ConcatType, Zenon
    <2> QED
      BY <1>7, <1>8, <2>1, PrefixOfConcat, Zenon
  <1>10. pc'[d] = IF hand'[d] = <<>> THEN "flush" ELSE "write"
    BY <1>2 DEF Pumps
  <1>11. Carried(d)'
    BY <1>2, <1>4, <1>7, <1>8, <1>10 DEF Carried, Pumps
  <1>12. \A e \in Dirs : e # d => Carried(e)'
    BY <1>1, <1>2, <1>7 DEF Pumps, Carried
  <1>13. Pumps'
    <2>1. \A e \in Dirs : Carried(e)'
      BY <1>11, <1>12
    <2>2. hand' \in [Dirs -> Seq(Nat)] /\ out' \in [Dirs -> Seq(Nat)] /\ held' \in [Dirs -> Seq(Nat)]
      <3>1. hand' = [hand EXCEPT ![d] = hand'[d]]
        BY <1>1, <1>4
      <3> QED
        BY <1>4, <1>7, <3>1 DEF Pumps
    <2>3. pc' \in [Dirs -> {"read", "write", "flush", "shutdown", "done"}]
      BY <1>2 DEF Pumps
    <2> QED
      BY <1>2, <2>1, <2>2, <2>3 DEF Pumps
  <1> QED
    BY <1>2, <1>7, <1>9, <1>10, <1>13 DEF Passes, Pumps

\* With nothing in the pump's hands.
LEMMA DrainCarried ==
    ASSUME Pumps, NEW d \in Dirs, Flush(d) \/ Shutdown(d)
    PROVE  Pumps' /\ Passes(d)
  <1>1. /\ pc[d] \in {"flush", "shutdown"} /\ UNCHANGED <<taken, hand>> /\ Forward(d, held[d])
        /\ pc' = [pc EXCEPT ![d] = pc'[d]]
        /\ pc'[d] \in {"flush", "shutdown"} \/ (pc'[d] \in {"read", "done"} /\ held'[d] = <<>>)
        /\ pc'[d] # "flush" /\ pc[d] = "flush" => held'[d] = <<>>
        /\ pc[d] = "shutdown" => pc'[d] \in {"shutdown", "done"}
        /\ pc[d] = "flush" => pc'[d] \in {"flush", "read"}
    BY DEF Flush, Shutdown, Running, Pumps
  <1>2. /\ out[d] \in Seq(Nat) /\ held[d] \in Seq(Nat) /\ hand[d] = <<>>
        /\ out[d] \o held[d] = Items(0, taken[d])
        /\ pc[d] = "shutdown" => held[d] = <<>> /\ out[d] = Items(0, taken[d])
    <2>1. /\ out[d] \in Seq(Nat) /\ held[d] \in Seq(Nat) /\ hand[d] = <<>>
          /\ out[d] \o (held[d] \o hand[d]) = Items(0, taken[d])
      BY <1>1 DEF Pumps, Carried
    <2>2. held[d] \o hand[d] = held[d]
      BY <2>1, ConcatEmpty, Zenon
    <2>3. pc[d] = "shutdown" => held[d] = <<>> /\ out[d] = Items(0, taken[d])
      BY AllOut
    <2> QED
      BY <2>1, <2>2, <2>3, Zenon
  <1>3. /\ out' = [out EXCEPT ![d] = out'[d]] /\ held' = [held EXCEPT ![d] = held'[d]]
        /\ out'[d] \in Seq(Nat) /\ held'[d] \in Seq(Nat)
        /\ out'[d] \o held'[d] = out[d] \o held[d]
        /\ IsPrefix(out[d], out'[d])
        /\ held[d] = <<>> => out' = out /\ held'[d] = <<>>
    BY <1>1, <1>2, ForwardKeeps
  <1>4. IsPrefix(out'[d], Items(0, taken[d]))
    <2>1. IsPrefix(out'[d], out'[d] \o held'[d])
      BY <1>3, PrefixOfConcat, Zenon
    <2> QED
      BY <1>2, <1>3, <2>1, Zenon
  <1>5. Carried(d)'
    <2>1. hand'[d] = <<>> /\ held'[d] \o hand'[d] = held'[d]
      BY <1>1, <1>2, <1>3, ConcatEmpty, Zenon
    <2> QED
      BY <1>1, <1>2, <1>3, <2>1 DEF Pumps, Carried
  <1>6. \A e \in Dirs : e # d => Carried(e)'
    BY <1>1, <1>3 DEF Pumps, Carried
  <1>7. Pumps'
    BY <1>1, <1>3, <1>5, <1>6 DEF Pumps
  <1>8. ASSUME pc'[d] = "done" PROVE out' = out /\ out[d] = Items(0, taken[d])
    BY <1>1, <1>2, <1>3, <1>8
  <1> QED
    BY <1>1, <1>3, <1>4, <1>7, <1>8 DEF Passes

LEMMA InitPumps == Init => Pumps
  <1> SUFFICES ASSUME Init PROVE Pumps
    OBVIOUS
  <1>1. Items(0, 0) = <<>>
    BY DEF Items
  <1> QED
    BY <1>1, ItemsAssumption DEF Init, Pumps, Carried

\* A step leaves what the peers see alone, or it is one direction's pump's.
LEMMA StepPumps ==
    ASSUME Pumps, [Next]_vars
    PROVE  /\ Pumps'
           /\ \/ UNCHANGED pumpVars
              \/ \E d \in Dirs : ReadData(d) \/ ReadOn(d) \/ ReadEof(d) \/ Write(d) \/ Flush(d)
                                 \/ Shutdown(d)
  <1>1. ASSUME NEW d \in Dirs, ReadData(d) PROVE Pumps'
    BY <1>1, ReadDataCarried
  <1>2. ASSUME NEW d \in Dirs, ReadEof(d) \/ ReadOn(d) PROVE Pumps'
    BY <1>2, OtherReadCarried
  <1>3. ASSUME NEW d \in Dirs, Write(d) PROVE Pumps'
    BY <1>3, WriteCarried
  <1>4. ASSUME NEW d \in Dirs, Flush(d) \/ Shutdown(d) PROVE Pumps'
    BY <1>4, DrainCarried
  <1>5. CASE UNCHANGED pumpVars
    BY <1>5 DEF pumpVars, Pumps, Carried
  <1>6. \/ UNCHANGED pumpVars
        \/ \E d \in Dirs : ReadData(d) \/ ReadOn(d) \/ ReadEof(d) \/ Write(d) \/ Flush(d)
                                 \/ Shutdown(d)
    BY DEF Next, Pump, Fail, Watchdog, Tick, vars
  <1> QED
    BY <1>1, <1>2, <1>3, <1>4, <1>5, <1>6

\* When the timeout strikes, data that was read is not out only because the pump is
\* still writing or flushing it (relay.rs:111-114).
THEOREM LossNeedsStuckWriter == Spec => []LostOnlyWhenStuck
  <1>1. Pumps => LostOnlyWhenStuck
    <2> SUFFICES ASSUME Pumps, NEW d \in Dirs, pc[d] \notin {"write", "flush"}
                 PROVE  ~(Len(out[d]) < taken[d])
      BY DEF LostOnlyWhenStuck
    <2>1. out[d] = Items(0, taken[d]) /\ taken[d] \in Nat
      <3>1. taken[d] \in 0..MaxItems
        BY DEF Pumps, Carried
      <3> QED
        BY <3>1, AllOut, ItemsAssumption
    <2>2. Len(Items(0, taken[d])) = taken[d]
      BY <2>1 DEF Items
    <2> QED
      BY <2>1, <2>2
  <1> QED
    BY <1>1, InitPumps, StepPumps, PTL DEF Spec

---------------------------------------------------------------------------
(***************************************************************************)
(* Each direction implements Pipe. The step lemma is stated once for both,  *)
(* in terms of what Pipe sees of a direction.                               *)
(***************************************************************************)
Given(d) == Items(0, taken[d])
Done(d) == pc[d] = "done"

\* Pipe!Write, Pipe!Read, Pipe!Close or a stutter.
PipeStep(d) ==
    \/ /\ ~Done(d) /\ Given(d)' # Given(d) /\ IsPrefix(Given(d), Given(d)')
       /\ out'[d] = out[d] /\ (Done(d)' <=> Done(d))
    \/ /\ ~Done(d) /\ out'[d] # out[d] /\ IsPrefix(out[d], out'[d]) /\ IsPrefix(out'[d], Given(d))
       /\ Given(d)' = Given(d) /\ (Done(d)' <=> Done(d))
    \/ /\ out[d] = Given(d) /\ Done(d)'
       /\ Given(d)' = Given(d) /\ out'[d] = out[d]
    \/ Given(d)' = Given(d) /\ out'[d] = out[d] /\ (Done(d)' <=> Done(d))

LEMMA StepIsPipeStep ==
    ASSUME Pumps, [Next]_vars, NEW d \in Dirs
    PROVE  PipeStep(d)
  <1>1. CASE UNCHANGED pumpVars
    BY <1>1 DEF pumpVars, PipeStep, Given, Done
  <1>2. ASSUME NEW e \in Dirs, ReadData(e) PROVE PipeStep(d)
    <2>1. /\ UNCHANGED out /\ taken' = [taken EXCEPT ![e] = taken'[e]]
          /\ pc' = [pc EXCEPT ![e] = "write"] /\ pc[e] = "read"
          /\ taken'[e] > taken[e]
          /\ IsPrefix(Items(0, taken[e]), Items(0, taken'[e]))
      BY <1>2, ReadDataCarried
    <2>2. CASE d = e
      <3>1. Items(0, taken[d]) # Items(0, taken'[d])
        <4>1. taken[d] \in Nat /\ taken'[d] \in Nat
          BY <1>2, ReadDataCarried, ItemsAssumption DEF Pumps
        <4>2. Len(Items(0, taken[d])) = taken[d] /\ Len(Items(0, taken'[d])) = taken'[d]
          BY <4>1 DEF Items
        <4> QED
          BY <2>1, <2>2, <4>1, <4>2
      <3>2. ~Done(d) /\ ~Done(d)'
        BY <2>1, <2>2 DEF Done, Pumps
      <3>3. Given(d)' # Given(d) /\ IsPrefix(Given(d), Given(d)') /\ out'[d] = out[d]
        BY <2>1, <2>2, <3>1 DEF Given
      <3> QED
        BY <3>2, <3>3 DEF PipeStep
    <2>3. CASE d # e
      <3>1. taken'[d] = taken[d] /\ pc'[d] = pc[d] /\ out'[d] = out[d]
        BY <2>1, <2>3 DEF Pumps
      <3> QED
        BY <3>1 DEF PipeStep, Given, Done
    <2> QED
      BY <2>2, <2>3
  <1>3. ASSUME NEW e \in Dirs, ReadEof(e) \/ ReadOn(e) PROVE PipeStep(d)
    <2>1. /\ UNCHANGED <<taken, out>> /\ pc[e] = "read"
          /\ \E at \in {"shutdown", "flush"} : pc' = [pc EXCEPT ![e] = at]
      BY <1>3, OtherReadCarried
    <2>2. (Done(d)' <=> Done(d))
      BY <2>1 DEF Done, Pumps
    <2> QED
      BY <2>1, <2>2 DEF PipeStep, Given
  <1>4. ASSUME NEW e \in Dirs, Write(e) \/ Flush(e) \/ Shutdown(e) PROVE PipeStep(d)
    <2>1. Passes(e)
      BY <1>4, WriteCarried, DrainCarried
    <2>2. Given(d)' = Given(d)
      BY <2>1 DEF Passes, Given
    <2>3. CASE d = e
      <3>1. CASE pc'[d] = "done"
        BY <2>1, <2>2, <2>3, <3>1 DEF PipeStep, Passes, Given, Done
      <3>2. CASE pc'[d] # "done"
        BY <2>1, <2>2, <2>3, <3>2 DEF PipeStep, Passes, Given, Done
      <3> QED
        BY <3>1, <3>2
    <2>4. CASE d # e
      <3>1. pc'[d] = pc[d] /\ out'[d] = out[d]
        BY <2>1, <2>4 DEF Pumps, Passes
      <3> QED
        BY <2>2, <3>1 DEF PipeStep, Done
    <2> QED
      BY <2>3, <2>4
  <1> QED
    BY <1>1, <1>2, <1>3, <1>4, StepPumps

\* For any limits, chunk sizes and writers, each direction delivers what was read in
\* order, once, and tells end of file only after the last of it (relay.rs:99-116).
THEOREM RelayImplementsPipes == Spec => PipesSpec
  <1>1. Init => Up!Init /\ Down!Init
    <2>1. Items(0, 0) = <<>>
      BY DEF Items
    <2> QED
      BY <2>1 DEF Init, Up!Init, Down!Init, Dirs
  <1>2. Pumps /\ [Next]_vars => [Up!Next]_Up!pipeVars
    <2>1. ASSUME Pumps, [Next]_vars PROVE PipeStep("up")
      BY <2>1, StepIsPipeStep DEF Dirs
    <2>2. \A a, b : Up!IsPrefix(a, b) <=> IsPrefix(a, b)
      BY DEF Up!IsPrefix, IsPrefix
    <2> QED
      BY <2>1, <2>2 DEF PipeStep, Given, Done, Up!Next, Up!Write, Up!Read, Up!Close, Up!pipeVars
  <1>3. Pumps /\ [Next]_vars => [Down!Next]_Down!pipeVars
    <2>1. ASSUME Pumps, [Next]_vars PROVE PipeStep("down")
      BY <2>1, StepIsPipeStep DEF Dirs
    <2>2. \A a, b : Down!IsPrefix(a, b) <=> IsPrefix(a, b)
      BY DEF Down!IsPrefix, IsPrefix
    <2> QED
      BY <2>1, <2>2 DEF PipeStep, Given, Done, Down!Next, Down!Write, Down!Read, Down!Close, Down!pipeVars
  <1> QED
    BY <1>1, <1>2, <1>3, InitPumps, StepPumps, PTL DEF Spec, PipesSpec, Up!Spec, Down!Spec

---------------------------------------------------------------------------
\* What neither IInv nor Pumps says.
Rest == timeouts \in TimeoutPairs /\ still \in Nat /\ over \in {"no", "done", "error", "idle"}

LEMMA StepRest == ASSUME Rest, [Next]_vars PROVE Rest'
  <1>1. ASSUME NEW d \in Dirs, Pump(d) PROVE Rest'
    <2>1. CASE ReadData(d) \/ ReadOn(d) \/ ReadEof(d) \/ Write(d)
      BY <2>1 DEF Rest, ReadData, ReadOn, ReadEof, Write
    <2>2. CASE Flush(d)
      BY <2>2 DEF Rest, Flush
    <2>3. CASE Shutdown(d) \/ Fail(d)
      BY <2>3 DEF Rest, Shutdown, Fail, clockVars
    <2> QED
      BY <1>1, <2>1, <2>2, <2>3 DEF Pump
  <1>2. CASE Watchdog \/ Tick
    BY <1>2 DEF Rest, Watchdog, Tick, Later
  <1>3. CASE UNCHANGED vars
    BY <1>3 DEF Rest, vars, clockVars
  <1> QED
    BY <1>1, <1>2, <1>3 DEF Next

\* No buffer of a direction holds more than was read, and the watchdog's distances
\* are never negative (relay.rs `Activity`, `pump`).
THEOREM RelayTypes == Spec => []TypeOK
  <1>1. Init => Rest
    BY DEF Init, Rest
  <1>2. IInv /\ Pumps /\ Rest => TypeOK
    <2> SUFFICES ASSUME IInv, Pumps, Rest PROVE TypeOK
      OBVIOUS
    <2>1. ASSUME NEW d \in Dirs
          PROVE  {Len(hand[d]), Len(held[d]), Len(out[d])} \subseteq 0..taken[d]
      <3>1. /\ out[d] \in Seq(Nat) /\ held[d] \in Seq(Nat) /\ hand[d] \in Seq(Nat)
            /\ taken[d] \in Nat /\ out[d] \o (held[d] \o hand[d]) = Items(0, taken[d])
        BY ItemsAssumption DEF Pumps, Carried
      <3>2. Len(out[d]) + (Len(held[d]) + Len(hand[d])) = Len(Items(0, taken[d]))
        <4>1. held[d] \o hand[d] \in Seq(Nat)
          BY <3>1, ConcatType, Zenon
        <4>2. /\ Len(held[d] \o hand[d]) = Len(held[d]) + Len(hand[d])
              /\ Len(out[d] \o (held[d] \o hand[d])) = Len(out[d]) + Len(held[d] \o hand[d])
          BY <3>1, <4>1, ConcatLen, Zenon
        <4> QED
          BY <3>1, <4>2, Zenon
      <3>3. Len(Items(0, taken[d])) = taken[d]
        BY <3>1 DEF Items
      <3>4. Len(out[d]) \in Nat /\ Len(held[d]) \in Nat /\ Len(hand[d]) \in Nat
        BY <3>1
      <3>5. taken[d] \in Nat
        BY <3>1
      <3>6. Len(out[d]) + (Len(held[d]) + Len(hand[d])) = taken[d]
        BY <3>2, <3>3, Zenon
      <3> DEFINE o == Len(out[d])
                 w == Len(held[d])
                 h == Len(hand[d])
                 n == taken[d]
      <3>7. o \in Nat /\ w \in Nat /\ h \in Nat /\ n \in Nat /\ o + (w + h) = n
        BY <3>4, <3>5, <3>6, Zenon
      <3> HIDE DEF o, w, h, n
      <3>8. {o, w, h} \subseteq 0..n
        BY <3>7
      <3> QED
        BY <3>8 DEF o, w, h, n
    <2> QED
      BY <2>1 DEF IInv, Clocks, Pumps, Rest, TypeOK
  <1> QED
    BY <1>1, <1>2, InitIInv, StepKeeps, InitPumps, StepPumps, StepRest, PTL DEF Spec
=============================================================================
